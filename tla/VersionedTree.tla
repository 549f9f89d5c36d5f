----------------------------- MODULE VersionedTree -----------------------------
(***************************************************************************)
(* What the file tree promises (internal/services/filetree_service.go): a  *)
(* store of versioned entries with a complete history, changed by atomic   *)
(* updates.  An update changes a set of entries at once, each from the     *)
(* version before; one that names an expected version is made on top of    *)
(* exactly that version, or creates the entry.                             *)
(***************************************************************************)
EXTENDS Integers

CONSTANTS Path,     \* the paths of the tree
          Base      \* expected versions of requests, -1 for none

VARIABLES entry,    \* the entry at each path; version 0 where there is none
          history   \* every change there was

vars == <<entry, history>>

Entry == [version : Nat, live : BOOLEAN, size : Nat]

Init ==
  /\ entry = [p \in Path |-> [version |-> 0, live |-> FALSE, size |-> 0]]
  /\ history = {}

(* The entries in S change, each on top of base[p] if that is given.       *)
Update(S, base) ==
  /\ entry' \in [Path -> Entry]
  /\ \A p \in S :
       /\ base[p] # -1 => entry[p].version \in {0, base[p]}
       /\ entry'[p].version = entry[p].version + 1
  /\ \A p \in Path \ S : entry'[p] = entry[p]
  /\ history' = history \cup
       {[path |-> p, version |-> entry'[p].version, live |-> entry'[p].live,
         base |-> base[p]] : p \in S}

Next == LET changed == {p \in Path : entry'[p] # entry[p]} IN
  \E base \in [changed -> Base \cup {-1}] : Update(changed, base)

Spec == Init /\ [][Next]_vars
================================================================================
