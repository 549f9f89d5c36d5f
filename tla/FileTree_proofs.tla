---------------------------- MODULE FileTree_proofs ----------------------------
(* Proofs about FileTree for any files, directories, database sessions,    *)
(* readers, sizes and quota.                                               *)
EXTENDS FileTree, TLAPS, WellFoundedInduction

(* A bounded, non-empty set of naturals has a greatest element.            *)
LEMMA GreatestNat ==
    ASSUME NEW S \in SUBSET Nat, S # {}, NEW b \in Nat, \A x \in S : x <= b
    PROVE  Max(S) \in S /\ \A x \in S : x <= Max(S)
<1> DEFINE T == {n \in Nat : \E x \in S : n = b - x}
<1>1. T \subseteq Nat /\ T # {}
  <2>1. PICK x \in S : TRUE
    OBVIOUS
  <2>2. b - x \in T
    BY <2>1
  <2> QED BY <2>2
<1>2. PICK m \in T : \A y \in T : <<y, m>> \notin OpToRel(<, Nat)
  BY <1>1, WFMin, NatLessThanWellFounded, Zenon
<1>3. \A y \in T : ~(y < m)
  BY <1>1, <1>2, Zenon DEF OpToRel
<1>4. PICK g \in S : m = b - g
  OBVIOUS
<1>5. ASSUME NEW x \in S PROVE x <= g
  <2>1. x \in Nat /\ g \in Nat /\ x <= b
    OBVIOUS
  <2>2. b - x \in T
    BY <2>1
  <2>3. ~(b - x < b - g)
    BY <1>3, <1>4, <2>2
  <2> QED BY <2>1, <2>3
<1>6. \E x \in S : \A y \in S : x >= y
  BY <1>5
<1>7. Max(S) \in S /\ \A x \in S : Max(S) >= x
  BY <1>6, Zenon DEF Max
<1> QED BY <1>7

(* Latest of a bounded set of changes.                                     *)
LEMMA LatestOf ==
    ASSUME NEW changes \in SUBSET Change, NEW b \in Nat, \A e \in changes : e.cursor <= b
    PROVE  /\ Latest(changes) \in Nat
           /\ \A e \in changes : e.cursor <= Latest(changes)
           /\ changes # {} => \E e \in changes : e.cursor = Latest(changes)
<1> DEFINE S == {0} \cup {e.cursor : e \in changes}
<1>1. S \in SUBSET Nat /\ S # {} /\ \A x \in S : x <= b
  BY DEF Change
<1>2. Max(S) \in S /\ \A x \in S : x <= Max(S)
  BY <1>1, GreatestNat
<1>3. Latest(changes) = Max(S)
  BY DEF Latest
<1>4. ASSUME NEW e \in changes PROVE e.cursor \in S /\ e.cursor \in Nat
  BY DEF Change
<1>6. ASSUME NEW x \in S, x # 0 PROVE \E e \in changes : e.cursor = x
  BY <1>6
<1> HIDE DEF S
<1>5. ASSUME changes # {} PROVE \E e \in changes : e.cursor = Max(S)
  <2>1. PICK e \in changes : TRUE
    BY <1>5
  <2>2. CASE Max(S) = 0
    BY <2>1, <2>2, <1>2, <1>4
  <2> QED BY <2>2, <1>2, <1>6
<1> QED BY <1>1, <1>2, <1>3, <1>4, <1>5
-------------------------------------------------------------------------------
(* The inductive invariant.  First, what an operation holds at each step.  *)
Before == {"ensure", "ensureinsert", "lock", "quota", "apply"}

StepsOK == \A t \in Tx : tx[t] # Free =>
    /\ tx[t].pc \in Before \cup {"revived", "ensurecommit"} => tx[t].path \in File
    /\ tx[t].pc \in {"ensure", "ensureinsert", "revived", "ensurecommit"} => Parent[tx[t].path] \in Dir
    /\ tx[t].pc \in Before => tx[t].sent = {} /\ \A p \in Path : tx[t].wrote[p] = NoRow
    /\ tx[t].pc \in {"ensure", "ensureinsert", "lock"} => tx[t].locks = {}
    /\ tx[t].pc \in {"quota", "apply"} => tx[t].locks \subseteq {tx[t].path}
    /\ \A p \in tx[t].todo : tx[t].wrote[p] = NoRow

(* What it has written replaces the row it has locked, once, and is in the *)
(* history it has written.                                                 *)
WroteOK == \A t \in Tx : tx[t] # Free =>
    \A p \in Path : tx[t].wrote[p] # NoRow =>
        /\ p \in tx[t].locks
        /\ tx[t].wrote[p].version = row[p].version + 1
        /\ \E e \in tx[t].sent : e.path = p

SentOK == \A t \in Tx : tx[t] # Free =>
    /\ \A e \in tx[t].sent :
        /\ tx[t].wrote[e.path] # NoRow
        /\ e.version = tx[t].wrote[e.path].version
        /\ e.live = tx[t].wrote[e.path].live
    /\ \A d, e \in tx[t].sent : d.path = e.path => d = e

(* Cursors come from the sequence, and the ones of a path in their order.  *)
CursorsOK ==
    /\ \A e \in log : e.cursor < next
    /\ \A t \in Tx : tx[t] # Free => \A e \in tx[t].sent :
        /\ e.cursor < next
        /\ \A x \in log : x.path = e.path => x.cursor < e.cursor

(* No row is locked by two operations.                                     *)
LocksExclusive ==
    \A t, u \in Tx : tx[t] # Free /\ tx[u] # Free /\ t # u => tx[t].locks \cap tx[u].locks = {}

(* An expected version that was checked stays right under the lock.        *)
BaseOK == \A t \in Tx : tx[t] # Free =>
    /\ tx[t].pc \in {"quota", "apply"} /\ tx[t].path \in tx[t].locks
        => tx[t].base \in {AnyVersion, row[tx[t].path].version}
    /\ \A e \in tx[t].sent : e.base # AnyVersion => e.version \in {1, e.base + 1}

IInv == TypeOK /\ StepsOK /\ WroteOK /\ SentOK /\ CursorsOK /\ LocksExclusive /\ BaseOK
            /\ HistoryMatchesTree /\ ExpectedVersionHonoured
-------------------------------------------------------------------------------
(* An operation under way has all its fields.                              *)
LEMMA Fields ==
    ASSUME TypeOK, NEW t \in Tx, tx[t] # Free
    PROVE  tx[t] \in Running
  BY DEF TypeOK

LEMMA NotFree ==
    ASSUME NEW op \in Running
    PROVE  op # Free
  BY DEF Running, Free, Step

LEMMA NoRowTypes == NoRow \in Row /\ NoRows \in [Path -> Row] /\ \A p \in Path : NoRows[p] = NoRow
  BY DEF NoRow, NoRows, Row

LEMMA InitIInv == Init => IInv
<1> SUFFICES ASSUME Init PROVE IInv
  OBVIOUS
<1>1. \A t \in Tx : tx[t] = Free
  BY DEF Init
<1>2. TypeOK
  BY <1>1, NoRowTypes DEF Init, TypeOK, Reader
<1>3. HistoryMatchesTree
  <2>1. \A p \in Path : row[p].version = 0
    BY DEF Init, NoRows, NoRow
  <2>2. \A p \in Path : {e.version : e \in {x \in log : x.path = p}} = {} /\ 1..row[p].version = {}
    BY <2>1 DEF Init
  <2> QED BY <2>2 DEF HistoryMatchesTree, Init
<1> QED
  BY <1>1, <1>2, <1>3 DEF IInv, StepsOK, WroteOK, SentOK, CursorsOK, LocksExclusive, BaseOK,
                          ExpectedVersionHonoured, Init

(* What the next step of one operation must satisfy by itself.             *)
Fits(op) ==
    /\ op.pc \in Before \cup {"revived", "ensurecommit"} => op.path \in File
    /\ op.pc \in {"ensure", "ensureinsert", "revived", "ensurecommit"} => Parent[op.path] \in Dir
    /\ op.pc \in Before => op.sent = {} /\ \A p \in Path : op.wrote[p] = NoRow
    /\ op.pc \in {"ensure", "ensureinsert", "lock"} => op.locks = {}
    /\ op.pc \in {"quota", "apply"} => op.locks \subseteq {op.path}
    /\ op.pc \in {"quota", "apply"} /\ op.path \in op.locks
        => op.base \in {AnyVersion, row[op.path].version}

(* A step that writes nothing.                                             *)
LEMMA ContinueIInv ==
    ASSUME IInv, NEW t \in Tx, NEW op \in Running, Fits(op),
           tx' = [tx EXCEPT ![t] = op], UNCHANGED <<row, log, next, client, overtaken>>,
           \/ /\ tx[t] # Free /\ op.wrote = tx[t].wrote /\ op.sent = tx[t].sent
              /\ op.todo = tx[t].todo /\ tx[t].locks \subseteq op.locks
           \/ op.wrote = NoRows /\ op.sent = {},
           \A u \in Tx : u # t /\ tx[u] # Free => op.locks \cap tx[u].locks = {}
    PROVE  IInv'
<1>1. TypeOK'
  BY DEF IInv, TypeOK
<1>2. tx'[t] = op /\ op # Free /\ \A u \in Tx : u # t => tx'[u] = tx[u]
  BY NotFree DEF IInv, TypeOK
<1>3. StepsOK'
  BY <1>2, NoRowTypes DEF IInv, StepsOK, Fits, Running
<1>4. WroteOK'
  BY <1>2, NoRowTypes DEF IInv, WroteOK, Running
<1>5. SentOK'
  BY <1>2, NoRowTypes DEF IInv, SentOK
<1>6. CursorsOK'
  BY <1>2 DEF IInv, CursorsOK
<1>7. LocksExclusive'
  BY <1>2 DEF IInv, LocksExclusive
<1>8. BaseOK'
  BY <1>2 DEF IInv, BaseOK, Fits
<1>9. HistoryMatchesTree' /\ ExpectedVersionHonoured'
  BY DEF IInv, HistoryMatchesTree, ExpectedVersionHonoured
<1> QED BY <1>1, <1>3, <1>4, <1>5, <1>6, <1>7, <1>8, <1>9 DEF IInv

LEMMA EndIInv ==
    ASSUME IInv, NEW t \in Tx, End(t)
    PROVE  IInv'
<1>1. TypeOK'
  BY DEF IInv, TypeOK, End
<1>2. tx'[t] = Free /\ \A u \in Tx : u # t => tx'[u] = tx[u]
  BY DEF IInv, TypeOK, End
<1>3. UNCHANGED <<row, log, next>>
  BY DEF End
<1>4. StepsOK' /\ WroteOK'
  BY <1>2, <1>3 DEF IInv, StepsOK, WroteOK
<1>5. SentOK' /\ CursorsOK'
  BY <1>2, <1>3 DEF IInv, SentOK, CursorsOK
<1>6. LocksExclusive' /\ BaseOK'
  BY <1>2, <1>3 DEF IInv, LocksExclusive, BaseOK
<1>7. HistoryMatchesTree' /\ ExpectedVersionHonoured'
  BY <1>3 DEF IInv, HistoryMatchesTree, ExpectedVersionHonoured
<1> QED BY <1>1, <1>4, <1>5, <1>6, <1>7 DEF IInv

(* A step that writes a row and its history record.                        *)
LEMMA WriteIInv ==
    ASSUME IInv, NEW t \in Tx, tx[t] # Free, NEW p \in Path, NEW r \in Row, NEW base \in Expected,
           NEW pc \in {"revived", "ensurecommit", "share", "commit"},
           NEW user \in {"none", "share", "update"},
           Write(t, p, r, base, pc, user), Unlocked(t, p), tx[t].wrote[p] = NoRow,
           r.version = row[p].version + 1,
           base # AnyVersion => r.version \in {1, base + 1},
           pc \in {"revived", "ensurecommit"} => tx[t].path \in File /\ Parent[tx[t].path] \in Dir
    PROVE  IInv'
<1> DEFINE e == [cursor |-> next, path |-> p, version |-> r.version, live |-> r.live, base |-> base]
<1> DEFINE op == [tx[t] EXCEPT !.pc = pc, !.user = user, !.locks = @ \cup {p}, !.todo = @ \ {p},
                               !.wrote[p] = r, !.sent = @ \cup {e}]
<1>0. tx[t] \in Running /\ row[p] \in Row /\ next \in Nat
  BY Fields DEF IInv, TypeOK
<1>1. /\ tx' = [tx EXCEPT ![t] = op]
      /\ next' = next + 1
      /\ UNCHANGED <<row, log, client>>
  BY <1>0 DEF Write, IInv, TypeOK
<1>2. e \in Change
  BY <1>0 DEF Change, Row
<1>3. op \in Running
  BY <1>0, <1>2 DEF Running, Step
<1>4. TypeOK'
  <2>1. overtaken' = overtaken \cup UNION {tx[u].sent : u \in Others(t)}
    BY DEF Write
  <2>2. \A u \in Others(t) : tx[u].sent \subseteq Change
    BY Fields DEF IInv, Others, Running
  <2>3. overtaken' \subseteq Change
    BY <2>1, <2>2 DEF IInv, TypeOK
  <2> QED BY <1>0, <1>1, <1>3, <2>3 DEF IInv, TypeOK
<1>5. /\ tx'[t] = op /\ op # Free
      /\ \A u \in Tx : u # t => tx'[u] = tx[u]
  BY <1>1, <1>3, NotFree DEF IInv, TypeOK
<1>6. /\ op.pc = pc /\ op.path = tx[t].path /\ op.locks = tx[t].locks \cup {p}
      /\ op.todo = tx[t].todo \ {p} /\ op.sent = tx[t].sent \cup {e} /\ op.base = tx[t].base
      /\ op.wrote \in [Path -> Row] /\ op.wrote[p] = r
      /\ \A q \in Path : q # p => op.wrote[q] = tx[t].wrote[q]
  BY <1>0, <1>3 DEF Running
<1>7. e.cursor = next /\ e.path = p /\ e.version = r.version /\ e.live = r.live /\ e.base = base
  OBVIOUS
<1>8. r # NoRow /\ r.version \in Nat
  BY <1>0 DEF NoRow, Row
<1>9. \A x \in tx[t].sent : x.path # p /\ x.path \in Path
  BY <1>0 DEF IInv, SentOK, Running, Change
<1> HIDE DEF op, e
<1>10. StepsOK'
  <2>1. pc \notin Before
    BY DEF Before
  <2>2. pc \notin {"quota", "apply", "ensure", "ensureinsert"}
    OBVIOUS
  <2>3. \A q \in op.todo : op.wrote[q] = NoRow
    BY <1>0, <1>6 DEF IInv, StepsOK, Running
  <2> QED BY <1>5, <1>6, <2>1, <2>2, <2>3 DEF IInv, StepsOK
<1>11. WroteOK'
  <2>1. ASSUME NEW q \in Path, op.wrote[q] # NoRow
        PROVE  /\ q \in op.locks /\ op.wrote[q].version = row[q].version + 1
               /\ \E x \in op.sent : x.path = q
    <3>1. CASE q = p
      BY <3>1, <1>6, <1>7
    <3>2. CASE q # p
      BY <2>1, <3>2, <1>6 DEF IInv, WroteOK
    <3> QED BY <3>1, <3>2
  <2> QED BY <2>1, <1>1, <1>5 DEF IInv, WroteOK
<1>12. SentOK'
  <2>1. ASSUME NEW x \in op.sent
        PROVE  op.wrote[x.path] # NoRow /\ x.version = op.wrote[x.path].version
               /\ x.live = op.wrote[x.path].live
    BY <1>6, <1>7, <1>8, <1>9 DEF IInv, SentOK
  <2>2. ASSUME NEW x \in op.sent, NEW y \in op.sent, x.path = y.path PROVE x = y
    BY <2>2, <1>6, <1>7, <1>9 DEF IInv, SentOK
  <2> QED BY <2>1, <2>2, <1>5 DEF IInv, SentOK
<1>13. CursorsOK'
  <2>1. \A x \in log : x.cursor < next /\ x.cursor \in Nat
    BY DEF IInv, CursorsOK, TypeOK, Change
  <2>2. ASSUME NEW u \in Tx, tx[u] # Free, NEW x \in tx[u].sent
        PROVE  x.cursor < next /\ x.cursor \in Nat
    BY <2>2, Fields DEF IInv, CursorsOK, Running, Change
  <2>3. ASSUME NEW u \in Tx, tx'[u] # Free, NEW x \in tx'[u].sent
        PROVE  x.cursor < next + 1 /\ \A y \in log : y.path = x.path => y.cursor < x.cursor
    BY <2>1, <2>2, <2>3, <1>0, <1>5, <1>6, <1>7 DEF IInv, CursorsOK
  <2> QED BY <2>1, <2>3, <1>0, <1>1 DEF CursorsOK
<1>14. LocksExclusive'
  <2>1. \A u \in Tx : u # t /\ tx[u] # Free => p \notin tx[u].locks
    BY DEF Unlocked, Others
  <2> QED BY <2>1, <1>5, <1>6 DEF IInv, LocksExclusive
<1>15. BaseOK'
  <2>1. op.pc \notin {"quota", "apply"}
    BY <1>6
  <2>2. \A x \in op.sent : x.base # AnyVersion => x.version \in {1, x.base + 1}
    BY <1>6, <1>7 DEF IInv, BaseOK
  <2> QED BY <2>1, <2>2, <1>1, <1>5 DEF IInv, BaseOK
<1>16. HistoryMatchesTree' /\ ExpectedVersionHonoured'
  BY <1>1 DEF IInv, HistoryMatchesTree, ExpectedVersionHonoured
<1> QED BY <1>4, <1>10, <1>11, <1>12, <1>13, <1>14, <1>15, <1>16 DEF IInv

(* A commit.                                                               *)
LEMMA PublishIInv ==
    ASSUME IInv, NEW t \in Tx, tx[t] # Free, Publish(t), UNCHANGED <<next, client, overtaken>>,
           tx[t].pc \in {"commit", "ensurecommit"},
           \/ tx' = [tx EXCEPT ![t] = Free]
           \/ tx[t].pc = "ensurecommit" /\ tx' = [tx EXCEPT ![t] = Released(tx[t], "lock")]
    PROVE  IInv'
<1> DEFINE op == tx[t]
<1>0. op \in Running /\ log \subseteq Change /\ row \in [Path -> Row] /\ next \in Nat
  BY Fields DEF IInv, TypeOK
<1>1. Released(op, "lock") \in Running
  BY <1>0, NoRowTypes DEF Released, Running, Step
<1>2. /\ \A p \in Path : row'[p] = IF op.wrote[p] # NoRow THEN op.wrote[p] ELSE row[p]
      /\ row' \in [Path -> Row]
  BY <1>0 DEF Publish, Running
<1>3. log' = log \cup op.sent /\ op.sent \subseteq Change
  BY <1>0 DEF Publish, Running
<1>4. TypeOK'
  BY <1>1, <1>2, <1>3 DEF IInv, TypeOK
<1>5. /\ tx'[t] = Free \/ (op.pc = "ensurecommit" /\ tx'[t] = Released(op, "lock"))
      /\ \A u \in Tx : u # t => tx'[u] = tx[u]
  BY DEF IInv, TypeOK
<1>6. /\ Released(op, "lock").pc = "lock" /\ Released(op, "lock").path = op.path
      /\ Released(op, "lock").locks = {} /\ Released(op, "lock").sent = {}
      /\ Released(op, "lock").wrote = NoRows /\ Released(op, "lock").todo = op.todo
  BY <1>0 DEF Released, Running
<1>7. ASSUME NEW u \in Tx, u # t, tx[u] # Free, NEW p \in Path, p \in tx[u].locks
      PROVE  op.wrote[p] = NoRow /\ row'[p] = row[p]
  BY <1>2, <1>7 DEF IInv, WroteOK, LocksExclusive
<1>8. ASSUME NEW u \in Tx, u # t, tx[u] # Free, NEW e \in tx[u].sent
      PROVE  e.path \in Path /\ e.path \in tx[u].locks /\ \A x \in op.sent : x.path # e.path
  <2>1. e.path \in Path /\ e.path \in tx[u].locks
    BY <1>8, Fields DEF IInv, SentOK, WroteOK, Running, Change
  <2>2. op.wrote[e.path] = NoRow
    BY <1>7, <1>8, <2>1
  <2> QED BY <2>1, <2>2 DEF IInv, SentOK
<1> HIDE DEF op
<1>9. StepsOK'
  BY <1>5, <1>6, NoRowTypes, <1>0 DEF IInv, StepsOK, Running, op
<1>10. WroteOK'
  <2>1. ASSUME NEW u \in Tx, u # t, tx[u] # Free, NEW p \in Path, tx[u].wrote[p] # NoRow
        PROVE  /\ p \in tx[u].locks /\ tx[u].wrote[p].version = row'[p].version + 1
               /\ \E e \in tx[u].sent : e.path = p
    BY <2>1, <1>7 DEF IInv, WroteOK
  <2> QED BY <2>1, <1>5, <1>6, NoRowTypes DEF WroteOK
<1>11. SentOK'
  BY <1>5, <1>6 DEF IInv, SentOK
<1>12. CursorsOK'
  <2>1. \A e \in op.sent : e.cursor < next
    BY DEF IInv, CursorsOK, op
  <2>2. \A e \in log' : e.cursor < next'
    BY <2>1, <1>3 DEF IInv, CursorsOK
  <2>3. ASSUME NEW u \in Tx, tx'[u] # Free, NEW e \in tx'[u].sent
        PROVE  e.cursor < next' /\ \A x \in log' : x.path = e.path => x.cursor < e.cursor
    BY <2>3, <1>3, <1>5, <1>6, <1>8 DEF IInv, CursorsOK
  <2> QED BY <2>2, <2>3 DEF CursorsOK
<1>13. LocksExclusive'
  BY <1>5, <1>6 DEF IInv, LocksExclusive
<1>14. BaseOK'
  <2>1. ASSUME NEW u \in Tx, u # t, tx[u] # Free, tx[u].pc \in {"quota", "apply"},
               tx[u].path \in tx[u].locks
        PROVE  tx[u].base \in {AnyVersion, row'[tx[u].path].version}
    <3>1. tx[u].path \in Path
      BY <2>1, Fields DEF IInv, StepsOK, Before, Path
    <3> QED BY <2>1, <3>1, <1>7 DEF IInv, BaseOK
  <2> QED BY <2>1, <1>5, <1>6 DEF IInv, BaseOK
<1>15. HistoryMatchesTree'
  <2>1. ASSUME NEW e \in op.sent
        PROVE  /\ e.path \in Path /\ e.version = row[e.path].version + 1
               /\ e.version = row'[e.path].version /\ e.live = row'[e.path].live
               /\ op.wrote[e.path] # NoRow
               /\ \A x \in op.sent : x.path = e.path => x = e
               /\ \A x \in log : x.path = e.path => x.cursor < e.cursor
    <3>1. e.path \in Path
      BY <1>3 DEF Change
    <3>2. op.wrote[e.path] # NoRow /\ e.version = op.wrote[e.path].version
          /\ e.live = op.wrote[e.path].live /\ \A x \in op.sent : x.path = e.path => x = e
      BY DEF IInv, SentOK, op
    <3>3. op.wrote[e.path].version = row[e.path].version + 1
      BY <3>1, <3>2 DEF IInv, WroteOK, op
    <3>4. \A x \in log : x.path = e.path => x.cursor < e.cursor
      BY DEF IInv, CursorsOK, op
    <3> QED BY <3>1, <3>2, <3>3, <3>4, <1>2
  <2>2. ASSUME NEW e \in log
        PROVE  e.path \in Path /\ e.version \in 1..row[e.path].version
    <3>1. e.path \in Path
      BY <1>0 DEF Change
    <3> QED BY <3>1 DEF IInv, HistoryMatchesTree
  <2>3. ASSUME NEW p \in Path
        PROVE  /\ {e.version : e \in {x \in log' : x.path = p}} = 1..row'[p].version
               /\ \A e \in log' : e.path = p /\ e.version = row'[p].version => e.live = row'[p].live
    <3> DEFINE V == {e.version : e \in {x \in log : x.path = p}}
    <3> DEFINE W == {e.version : e \in {x \in log' : x.path = p}}
    <3>1. V = 1..row[p].version /\ row[p].version \in Nat
      BY <1>0 DEF IInv, HistoryMatchesTree, Row
    <3>2. CASE op.wrote[p] = NoRow
      <4>1. {x \in log' : x.path = p} = {x \in log : x.path = p}
        BY <3>2, <2>1, <1>3
      <4>2. row'[p] = row[p]
        BY <3>2, <1>2
      <4> QED BY <4>1, <4>2, <3>1 DEF IInv, HistoryMatchesTree
    <3>3. CASE op.wrote[p] # NoRow
      <4>1. PICK e \in op.sent : e.path = p
        BY <3>3 DEF IInv, WroteOK, op
      <4>2. {x \in log' : x.path = p} = {x \in log : x.path = p} \cup {e}
        BY <4>1, <2>1, <1>3
      <4>3. W = V \cup {row[p].version + 1}
        BY <4>1, <4>2, <2>1
      <4>4. row'[p].version = row[p].version + 1
        BY <4>1, <2>1
      <4>5. W = 1..row'[p].version
        BY <4>3, <4>4, <3>1
      <4>6. ASSUME NEW x \in log', x.path = p, x.version = row'[p].version
            PROVE  x = e
        BY <4>6, <4>2, <4>4, <2>2, <3>1
      <4> QED BY <4>5, <4>6, <4>1, <2>1
    <3> QED BY <3>2, <3>3
  <2>4. ASSUME NEW d \in log', NEW e \in log', d.path = e.path
        PROVE  d.cursor < e.cursor <=> d.version < e.version
    <3>0. d.cursor \in Nat /\ e.cursor \in Nat /\ d.version \in Nat /\ e.version \in Nat
          /\ \A p \in Path : row[p].version \in Nat
      BY <1>0, <1>3 DEF Change, Row
    <3>1. CASE d \in log /\ e \in log
      BY <3>1, <2>4 DEF IInv, HistoryMatchesTree
    <3>2. CASE d \in log /\ e \in op.sent
      BY <3>0, <3>2, <2>1, <2>2, <2>4
    <3>3. CASE d \in op.sent /\ e \in log
      BY <3>0, <3>3, <2>1, <2>2, <2>4
    <3>4. CASE d \in op.sent /\ e \in op.sent
      <4>1. d = e
        BY <3>4, <2>1, <2>4
      <4> QED BY <4>1, <3>0
    <3> QED BY <3>1, <3>2, <3>3, <3>4, <1>3
  <2> QED BY <2>3, <2>4 DEF HistoryMatchesTree
<1>16. ExpectedVersionHonoured'
  BY <1>3 DEF IInv, ExpectedVersionHonoured, BaseOK, op
<1> QED BY <1>4, <1>9, <1>10, <1>11, <1>12, <1>13, <1>14, <1>15, <1>16 DEF IInv

LEMMA BumpedRow ==
    ASSUME NEW p \in Path, row[p] \in Row, NEW live \in BOOLEAN, NEW size \in Nat
    PROVE  Bumped(p, live, size) \in Row /\ Bumped(p, live, size).version = row[p].version + 1
  BY DEF Row, Bumped

LEMMA BeginWriteIInv ==
    ASSUME IInv, NEW t \in Tx, BeginWrite(t)
    PROVE  IInv'
<1>1. PICK f \in File, size \in Size, base \in Base :
        Begin(t, [pc |-> IF Parent[f] = Root THEN "lock" ELSE "ensure", path |-> f, base |-> base,
                  size |-> size, todo |-> {}, locks |-> {}, user |-> "none",
                  wrote |-> NoRows, sent |-> {}])
  BY DEF BeginWrite
<1> DEFINE op == [pc |-> IF Parent[f] = Root THEN "lock" ELSE "ensure", path |-> f, base |-> base,
                  size |-> size, todo |-> {}, locks |-> {}, user |-> "none",
                  wrote |-> NoRows, sent |-> {}]
<1>2. op \in Running
  BY NoRowTypes, SizeAssumption, BaseAssumption DEF Running, Step, Path, Expected
<1>3. Fits(op)
  BY ParentAssumption, NoRowTypes DEF Fits, Before
<1> QED BY <1>1, <1>2, <1>3, ContinueIInv DEF Begin

LEMMA BeginDeleteIInv ==
    ASSUME IInv, NEW t \in Tx, BeginDelete(t)
    PROVE  IInv'
<1>1. PICK S \in Target :
        Begin(t, [pc |-> "delete", path |-> Root, base |-> AnyVersion, size |-> 0,
                  todo |-> {p \in S : row[p].live}, locks |-> {}, user |-> "none",
                  wrote |-> NoRows, sent |-> {}])
  BY DEF BeginDelete
<1> DEFINE op == [pc |-> "delete", path |-> Root, base |-> AnyVersion, size |-> 0,
                  todo |-> {p \in S : row[p].live}, locks |-> {}, user |-> "none",
                  wrote |-> NoRows, sent |-> {}]
<1>2. op \in Running
  BY NoRowTypes, TargetAssumption DEF Running, Step, AnyVersion, Expected
<1>3. Fits(op)
  BY DEF Fits, Before
<1> QED BY <1>1, <1>2, <1>3, ContinueIInv DEF Begin

(* The steps of EnsureDirectory.                                           *)
LEMMA EnsureIInv ==
    ASSUME IInv, NEW t \in Tx, EnsureFound(t) \/ EnsureMissing(t) \/ EnsureInsert(t) \/ EnsureCommit(t)
    PROVE  IInv'
<1> DEFINE op == tx[t]  d == Parent[tx[t].path]
<1>0. tx[t] # Free /\ tx[t] \in Running /\ row \in [Path -> Row]
  <2>1. tx[t].pc \in {"ensure", "ensureinsert", "ensurecommit"}
    BY DEF EnsureFound, EnsureMissing, EnsureInsert, EnsureCommit
  <2>2. tx[t] # Free
    BY <2>1 DEF Free
  <2> QED BY <2>2, Fields DEF IInv, TypeOK
<1>1. op.pc \in {"ensure", "ensureinsert"} =>
        /\ op.path \in File /\ d \in Dir /\ d \in Path
        /\ op.sent = {} /\ op.locks = {} /\ \A p \in Path : op.wrote[p] = NoRow
  BY <1>0 DEF IInv, StepsOK, Before, Path
<1>2. CASE EnsureFound(t)
  <2>1. d \in Path /\ op.wrote[d] = NoRow /\ Unlocked(t, d) /\ row[d] \in Row
    BY <1>0, <1>1, <1>2 DEF EnsureFound
  <2>2. CASE row[d].live
    <3>1. /\ Released(op, "lock") \in Running /\ Released(op, "lock").wrote = NoRows
          /\ Released(op, "lock").sent = {} /\ Released(op, "lock").locks = {}
          /\ Released(op, "lock").pc = "lock" /\ Released(op, "lock").path = op.path
      BY <1>0, NoRowTypes DEF Released, Running, Step
    <3>2. Fits(Released(op, "lock"))
      BY <3>1, <1>1, <1>2, NoRowTypes DEF Fits, EnsureFound
    <3>3. Continue(t, Released(op, "lock"))
      BY <1>2, <2>2 DEF EnsureFound
    <3> QED BY <3>1, <3>2, <3>3, ContinueIInv DEF Continue
  <2>3. CASE ~row[d].live
    <3> DEFINE r == Bumped(d, TRUE, row[d].size)
    <3>1. r \in Row /\ r.version = row[d].version + 1
      <4>1. row[d].size \in Nat
        BY <2>1 DEF Row
      <4> QED BY <2>1, <4>1, BumpedRow
    <3>2. Write(t, d, r, AnyVersion, "revived", op.user)
      BY <1>2, <2>3 DEF EnsureFound
    <3>3. op.user \in {"none", "share", "update"} /\ AnyVersion \in Expected
      BY <1>0 DEF Running, AnyVersion, Expected
    <3>4. op.pc = "ensure"
      BY <1>2 DEF EnsureFound
    <3> HIDE DEF r
    <3> QED BY <1>0, <1>1, <2>1, <3>1, <3>2, <3>3, <3>4, WriteIInv
  <2> QED BY <2>2, <2>3
<1>3. CASE EnsureMissing(t)
  <2>1. Continue(t, [op EXCEPT !.pc = "ensureinsert"])
    BY <1>3 DEF EnsureMissing
  <2>2. [op EXCEPT !.pc = "ensureinsert"] \in Running
    BY <1>0 DEF Running, Step
  <2>3. Fits([op EXCEPT !.pc = "ensureinsert"])
    BY <1>0, <1>1, <1>3 DEF Fits, Before, EnsureMissing, Running
  <2>4. \A u \in Tx : u # t /\ tx[u] # Free => op.locks \cap tx[u].locks = {}
    BY <1>0 DEF IInv, LocksExclusive
  <2>5. /\ [op EXCEPT !.pc = "ensureinsert"].wrote = op.wrote
        /\ [op EXCEPT !.pc = "ensureinsert"].sent = op.sent
        /\ [op EXCEPT !.pc = "ensureinsert"].todo = op.todo
        /\ [op EXCEPT !.pc = "ensureinsert"].locks = op.locks
    BY <1>0 DEF Running
  <2> QED BY <1>0, <2>1, <2>2, <2>3, <2>4, <2>5, ContinueIInv DEF Continue
<1>4. CASE EnsureInsert(t)
  <2>1. d \in Path /\ op.wrote[d] = NoRow /\ Unlocked(t, d)
    BY <1>1, <1>4 DEF EnsureInsert
  <2>2. CASE row[d] # NoRow
    BY <1>4, <2>2, EndIInv DEF EnsureInsert
  <2>3. CASE row[d] = NoRow
    <3> DEFINE r == Bumped(d, TRUE, 0)
    <3>1. r \in Row /\ r.version = row[d].version + 1
      BY <1>0, <2>1, BumpedRow
    <3>2. Write(t, d, r, AnyVersion, "ensurecommit", "share")
      BY <1>4, <2>3 DEF EnsureInsert
    <3>3. AnyVersion \in Expected
      BY DEF AnyVersion, Expected
    <3> HIDE DEF r
    <3> QED BY <1>0, <1>1, <1>4, <2>1, <3>1, <3>2, <3>3, WriteIInv DEF EnsureInsert
  <2> QED BY <2>2, <2>3
<1>5. CASE EnsureCommit(t)
  BY <1>0, <1>5, PublishIInv DEF EnsureCommit
<1> QED BY <1>2, <1>3, <1>4, <1>5

(* The steps of WriteEntry proper.                                         *)
LEMMA WriteEntryIInv ==
    ASSUME IInv, NEW t \in Tx, LockWrite(t) \/ EnforceQuota(t) \/ Apply(t) \/ Commit(t)
    PROVE  IInv'
<1> DEFINE op == tx[t]  f == tx[t].path
<1>0. tx[t] # Free /\ op \in Running /\ row \in [Path -> Row]
  <2>1. tx[t].pc \in {"lock", "quota", "apply", "commit"}
    BY DEF LockWrite, EnforceQuota, Apply, Commit
  <2>2. tx[t] # Free
    BY <2>1 DEF Free
  <2> QED BY <2>2, Fields DEF IInv, TypeOK
<1>1. op.pc \in {"lock", "quota", "apply"} =>
        f \in File /\ f \in Path /\ op.sent = {} /\ \A p \in Path : op.wrote[p] = NoRow
  BY <1>0 DEF IInv, StepsOK, Before, Path
<1>2. \A u \in Tx : u # t /\ tx[u] # Free => op.locks \cap tx[u].locks = {}
  BY <1>0 DEF IInv, LocksExclusive
<1>4. CASE LockWrite(t)
  <2>1. CASE row[f] = NoRow
    <3>1. Continue(t, [op EXCEPT !.pc = "quota"])
      BY <1>4, <2>1 DEF LockWrite
    <3>2. [op EXCEPT !.pc = "quota"] \in Running
      BY <1>0 DEF Running, Step
    <3>3. /\ [op EXCEPT !.pc = "quota"].pc = "quota" /\ [op EXCEPT !.pc = "quota"].path = f
          /\ [op EXCEPT !.pc = "quota"].locks = op.locks /\ [op EXCEPT !.pc = "quota"].base = op.base
          /\ [op EXCEPT !.pc = "quota"].wrote = op.wrote /\ [op EXCEPT !.pc = "quota"].sent = op.sent
          /\ [op EXCEPT !.pc = "quota"].todo = op.todo
      BY <1>0 DEF Running
    <3>4. op.locks = {}
      BY <1>0, <1>4 DEF IInv, StepsOK, LockWrite
    <3>5. Fits([op EXCEPT !.pc = "quota"])
      BY <1>1, <1>4, <3>3, <3>4 DEF Fits, LockWrite
    <3> QED BY <1>0, <1>2, <3>1, <3>2, <3>3, <3>5, ContinueIInv DEF Continue
  <2>2. CASE row[f] # NoRow /\ op.base \in {AnyVersion, row[f].version}
    <3> DEFINE new == [op EXCEPT !.pc = "quota", !.locks = {f}]
    <3>1. Continue(t, new) /\ Unlocked(t, f)
      BY <1>4, <2>2 DEF LockWrite
    <3>2. f \in Path /\ new \in Running
      BY <1>0, <1>1, <1>4 DEF Running, Step, LockWrite
    <3>3. /\ new.pc = "quota" /\ new.path = f /\ new.locks = {f} /\ new.base = op.base
          /\ new.wrote = op.wrote /\ new.sent = op.sent /\ new.todo = op.todo
      BY <1>0 DEF Running
    <3>4. op.locks = {}
      BY <1>0, <1>4 DEF IInv, StepsOK, LockWrite
    <3> HIDE DEF new
    <3>5. Fits(new)
      BY <1>1, <1>4, <2>2, <3>3 DEF Fits, LockWrite
    <3>6. \A u \in Tx : u # t /\ tx[u] # Free => new.locks \cap tx[u].locks = {}
      BY <3>1, <3>3 DEF Unlocked, Others
    <3> QED BY <1>0, <3>1, <3>2, <3>3, <3>4, <3>5, <3>6, ContinueIInv DEF Continue
  <2>3. CASE row[f] # NoRow /\ op.base \notin {AnyVersion, row[f].version}
    BY <1>4, <2>3, EndIInv DEF LockWrite
  <2> QED BY <2>1, <2>2, <2>3
<1>5. CASE EnforceQuota(t)
  <2> DEFINE new == [op EXCEPT !.pc = "apply", !.user = "update"]
  <2>1. Continue(t, new) \/ End(t)
    BY <1>5 DEF EnforceQuota
  <2>2. CASE Continue(t, new)
    <3>1. new \in Running
      BY <1>0 DEF Running, Step
    <3>2. /\ new.pc = "apply" /\ new.path = f /\ new.locks = op.locks /\ new.base = op.base
          /\ new.wrote = op.wrote /\ new.sent = op.sent /\ new.todo = op.todo
      BY <1>0 DEF Running
    <3> HIDE DEF new
    <3>3. op.locks \subseteq {f} /\ (f \in op.locks => op.base \in {AnyVersion, row[f].version})
      BY <1>0, <1>5 DEF IInv, StepsOK, BaseOK, EnforceQuota
    <3>4. Fits(new)
      BY <1>1, <1>5, <3>2, <3>3 DEF Fits, EnforceQuota
    <3> QED BY <1>0, <1>2, <2>2, <3>1, <3>2, <3>4, ContinueIInv DEF Continue
  <2> QED BY <2>1, <2>2, EndIInv
<1>6. CASE Apply(t)
  <2>1. CASE f \in op.locks \/ row[f] = NoRow
    <3> DEFINE r == Bumped(f, TRUE, op.size)
    <3>1. Write(t, f, r, op.base, "commit", op.user) /\ Unlocked(t, f) /\ op.pc = "apply"
      BY <1>6, <2>1 DEF Apply
    <3>2. f \in Path /\ op.wrote[f] = NoRow
      BY <1>1, <3>1
    <3>3. row[f] \in Row /\ op.size \in Nat /\ op.base \in Expected /\ op.user \in {"none", "share", "update"}
      BY <1>0, <3>2 DEF Running
    <3>4. r \in Row /\ r.version = row[f].version + 1
      BY <3>2, <3>3, BumpedRow
    <3> HIDE DEF r
    <3>5. op.base # AnyVersion => r.version \in {1, op.base + 1}
      <4>1. CASE f \in op.locks
        <5>1. op.base \in {AnyVersion, row[f].version}
          BY <1>0, <3>1, <4>1 DEF IInv, BaseOK
        <5> QED BY <5>1, <3>4
      <4>2. CASE row[f] = NoRow
        <5>1. row[f].version = 0
          BY <4>2 DEF NoRow
        <5> QED BY <5>1, <3>4
      <4> QED BY <2>1, <4>1, <4>2
    <3> QED BY <1>0, <3>1, <3>2, <3>3, <3>4, <3>5, WriteIInv
  <2>2. CASE ~(f \in op.locks \/ row[f] = NoRow)
    BY <1>6, <2>2, EndIInv DEF Apply
  <2> QED BY <2>1, <2>2
<1>7. CASE Commit(t)
  BY <1>0, <1>7, PublishIInv DEF Commit
<1> QED BY <1>4, <1>5, <1>6, <1>7

(* The steps of Delete, and a failure of any operation.                    *)
LEMMA DeleteIInv ==
    ASSUME IInv, NEW t \in Tx, DeleteEntry(t) \/ ShareUser(t) \/ Fail(t)
    PROVE  IInv'
<1> DEFINE op == tx[t]
<1>1. CASE DeleteEntry(t)
  <2>1. op.pc = "delete" /\ op # Free
    BY <1>1 DEF DeleteEntry, Free
  <2>2. op \in Running /\ row \in [Path -> Row]
    BY <2>1, Fields DEF IInv, TypeOK
  <2>3. PICK p \in op.todo :
          Unlocked(t, p) /\ Write(t, p, Bumped(p, FALSE, row[p].size), AnyVersion, "share", op.user)
    BY <1>1 DEF DeleteEntry
  <2>4. p \in Path /\ op.user \in {"none", "share", "update"} /\ AnyVersion \in Expected
    BY <2>2 DEF Running, AnyVersion, Expected
  <2>5. op.wrote[p] = NoRow
    BY <2>1, <2>3 DEF IInv, StepsOK
  <2> DEFINE r == Bumped(p, FALSE, row[p].size)
  <2>6. row[p].size \in Nat
    BY <2>2, <2>4 DEF Row
  <2>7. r \in Row /\ r.version = row[p].version + 1
    BY <2>2, <2>4, <2>6, BumpedRow
  <2> HIDE DEF r
  <2>8. Write(t, p, r, AnyVersion, "share", op.user)
    BY <2>3 DEF r
  <2> QED BY <2>1, <2>3, <2>4, <2>5, <2>7, <2>8, WriteIInv
<1>2. CASE ShareUser(t)
  <2> DEFINE pc == IF op.pc = "revived" THEN "ensurecommit"
                   ELSE IF op.todo = {} THEN "commit" ELSE "delete"
  <2> DEFINE new == [op EXCEPT !.user = "share", !.pc = pc]
  <2>1. op.pc \in {"share", "revived"} /\ op # Free /\ Continue(t, new)
    BY <1>2 DEF ShareUser, Free
  <2>2. op \in Running
    BY <2>1, Fields DEF IInv
  <2>3. new \in Running
    BY <2>2 DEF Running, Step
  <2>4. /\ new.pc = pc /\ new.path = op.path /\ new.locks = op.locks
        /\ new.wrote = op.wrote /\ new.sent = op.sent /\ new.todo = op.todo
    BY <2>2 DEF Running
  <2>5. /\ pc \notin Before /\ pc # "revived"
        /\ pc = "ensurecommit" => op.pc = "revived"
    BY DEF Before
  <2> HIDE DEF new, pc
  <2>6. pc = "ensurecommit" => op.path \in File /\ Parent[op.path] \in Dir
    BY <2>1, <2>5 DEF IInv, StepsOK
  <2>7. Fits(new)
    BY <2>4, <2>5, <2>6 DEF Fits, Before
  <2>8. \A u \in Tx : u # t /\ tx[u] # Free => new.locks \cap tx[u].locks = {}
    BY <2>1, <2>4 DEF IInv, LocksExclusive
  <2> QED BY <2>1, <2>3, <2>4, <2>7, <2>8, ContinueIInv DEF Continue
<1>3. CASE Fail(t)
  BY <1>3, EndIInv DEF Fail
<1> QED BY <1>1, <1>2, <1>3

(* Replaying well-typed changes gives versions.                            *)
LEMMA ReplayType ==
    ASSUME NEW cache \in [Path -> Nat], NEW changes \in SUBSET Change,
           NEW b \in Nat, \A e \in changes : e.cursor <= b
    PROVE  Replay(cache, changes) \in [Path -> Nat]
<1>1. ASSUME NEW p \in Path, {e \in changes : e.path = p} # {}
      PROVE  (CHOOSE f \in {e \in changes : e.path = p} :
                f.cursor = Latest({e \in changes : e.path = p})) \in Change
  <2> DEFINE mine == {e \in changes : e.path = p}
  <2>1. \E e \in mine : e.cursor = Latest(mine)
    BY <1>1, LatestOf
  <2>2. (CHOOSE e \in mine : e.cursor = Latest(mine)) \in mine
    BY <2>1
  <2> QED BY <2>2
<1>2. ASSUME NEW e \in Change PROVE (IF e.live THEN e.version ELSE 0) \in Nat
  BY DEF Change
<1> QED BY <1>1, <1>2 DEF Replay

LEMMA ReaderIInv ==
    ASSUME IInv, NEW c \in Client,
           SnapshotEntries(c) \/ SnapshotCursor(c) \/ StartEmpty(c) \/ Poll(c)
    PROVE  IInv'
<1>0. client[c] \in Reader /\ client \in [Client -> Reader] /\ log \subseteq Change
      /\ row \in [Path -> Row] /\ next \in Nat
  BY DEF IInv, TypeOK
<1>1. UNCHANGED <<row, log, next, tx, overtaken>>
  BY DEF SnapshotEntries, SnapshotCursor, StartEmpty, Poll
<1>2. \A e \in log : e.cursor <= next
  BY <1>0 DEF IInv, CursorsOK, Change
<1>3. client' \in [Client -> Reader]
  <2>1. CASE SnapshotEntries(c)
    <3>1. LiveVersion \in [Path -> Nat]
      BY <1>0 DEF LiveVersion, Row
    <3> QED BY <1>0, <2>1, <3>1 DEF SnapshotEntries, Reader
  <2>2. CASE SnapshotCursor(c)
    <3>1. Latest(log) \in Nat
      BY <1>0, <1>2, LatestOf
    <3> QED BY <1>0, <2>2, <3>1 DEF SnapshotCursor, Reader
  <2>3. CASE StartEmpty(c)
    BY <1>0, <2>3 DEF StartEmpty, Reader
  <2>4. CASE Poll(c)
    <3> DEFINE news == After(log, client[c].cursor)
    <3>1. news \in SUBSET Change /\ \A e \in news : e.cursor <= next
      BY <1>0, <1>2 DEF After
    <3>2. Latest(news) \in Nat
      BY <1>0, <3>1, LatestOf
    <3>3. Replay(client[c].cache, news) \in [Path -> Nat]
      BY <1>0, <3>1, ReplayType DEF Reader
    <3>4. client' = [client EXCEPT ![c].cursor = Latest(news),
                                   ![c].cache = Replay(client[c].cache, news)]
      BY <1>0, <2>4 DEF Poll
    <3> HIDE DEF news
    <3> QED BY <1>0, <3>2, <3>3, <3>4 DEF Reader
  <2> QED BY <2>1, <2>2, <2>3, <2>4
<1>4. TypeOK'
  BY <1>0, <1>1, <1>3 DEF IInv, TypeOK
<1>5. StepsOK' /\ WroteOK' /\ SentOK' /\ CursorsOK' /\ LocksExclusive' /\ BaseOK'
  BY <1>1 DEF IInv, StepsOK, WroteOK, SentOK, CursorsOK, LocksExclusive, BaseOK
<1>6. HistoryMatchesTree' /\ ExpectedVersionHonoured'
  BY <1>1 DEF IInv, HistoryMatchesTree, ExpectedVersionHonoured
<1> QED BY <1>4, <1>5, <1>6 DEF IInv

LEMMA NextIInv == IInv /\ [Next]_vars => IInv'
<1> SUFFICES ASSUME IInv, [Next]_vars PROVE IInv'
  OBVIOUS
<1>1. ASSUME NEW t \in Tx, Operation(t) PROVE IInv'
  BY <1>1, BeginWriteIInv, BeginDeleteIInv, EnsureIInv, WriteEntryIInv, DeleteIInv DEF Operation
<1>2. ASSUME NEW c \in Client,
             SnapshotEntries(c) \/ SnapshotCursor(c) \/ StartEmpty(c) \/ Poll(c)
      PROVE  IInv'
  BY <1>2, ReaderIInv
<1>3. CASE UNCHANGED vars
  <2>1. TypeOK' /\ StepsOK' /\ WroteOK' /\ SentOK'
    BY <1>3 DEF vars, IInv, TypeOK, StepsOK, WroteOK, SentOK
  <2>2. CursorsOK' /\ LocksExclusive' /\ BaseOK' /\ HistoryMatchesTree' /\ ExpectedVersionHonoured'
    BY <1>3 DEF vars, IInv, CursorsOK, LocksExclusive, BaseOK, HistoryMatchesTree,
                ExpectedVersionHonoured
  <2> QED BY <2>1, <2>2 DEF IInv
<1> QED BY <1>1, <1>2, <1>3 DEF Next

THEOREM Invariance == Spec => []IInv
  BY InitIInv, NextIInv, PTL DEF Spec
-------------------------------------------------------------------------------
(* Every reachable state has the types the code relies on: cursors stay    *)
(* below the sequence, readers hold versions (Snapshot, Changes).          *)
THEOREM Typing == Spec => []TypeOK
<1>1. IInv => TypeOK
  BY DEF IInv
<1> QED BY <1>1, Invariance, PTL

(* Whatever writes, ensures and deletes race for a path, its history has   *)
(* every version once and ends with the row (insertEntryVersion).          *)
THEOREM FaithfulHistory == Spec => []HistoryMatchesTree
<1>1. IInv => HistoryMatchesTree
  BY DEF IInv
<1> QED BY <1>1, Invariance, PTL

(* A write with an expected version replaces that version only (lockEntry, *)
(* ErrOptimisticLockConflict).                                             *)
THEOREM OptimisticWrites == Spec => []ExpectedVersionHonoured
<1>1. IInv => ExpectedVersionHonoured
  BY DEF IInv
<1> QED BY <1>1, Invariance, PTL
-------------------------------------------------------------------------------
(* The versioned tree.                                                     *)

(* A commit replaces exactly the entries the transaction has written, and  *)
(* its history has one change of each.                                     *)
LEMMA PublishUpdates ==
    ASSUME IInv, NEW t \in Tx, tx[t] # Free, Publish(t)
    PROVE  Tree!Next
<1> DEFINE op == tx[t]
           S == {p \in Path : row'[p] # row[p]}
           change(p) == CHOOSE e \in op.sent : e.path = p
           base == [p \in S |-> change(p).base]
           told(e) == [path |-> e.path, version |-> e.version, live |-> e.live, base |-> e.base]
<1>0. op \in Running /\ log \subseteq Change /\ row \in [Path -> Row]
  BY Fields DEF IInv, TypeOK
<1>1. /\ \A p \in Path : row'[p] = IF op.wrote[p] # NoRow THEN op.wrote[p] ELSE row[p]
      /\ row' \in [Path -> Row]
      /\ log' = log \cup op.sent /\ op.sent \subseteq Change
  BY <1>0 DEF Publish, Running
<1>2. ASSUME NEW p \in Path
      PROVE  /\ p \in S <=> op.wrote[p] # NoRow
             /\ p \in S => row'[p].version = row[p].version + 1
  <2>1. CASE op.wrote[p] # NoRow
    <3>1. row'[p].version = row[p].version + 1 /\ row[p].version \in Nat
      BY <1>0, <1>1, <2>1 DEF IInv, WroteOK, Row
    <3> QED BY <2>1, <3>1
  <2>2. CASE op.wrote[p] = NoRow
    BY <1>1, <2>2
  <2> QED BY <2>1, <2>2
<1>3. ASSUME NEW e \in op.sent
      PROVE  /\ e.path \in S /\ change(e.path) = e
             /\ e.version = row'[e.path].version /\ e.live = row'[e.path].live
             /\ e.base \in Base \cup {-1}
             /\ e.base # -1 => e.version \in {1, e.base + 1}
  <2>1. e.path \in Path /\ e.base \in Base \cup {-1}
    BY <1>1 DEF Change, Expected, AnyVersion
  <2>2. /\ op.wrote[e.path] # NoRow /\ e.version = op.wrote[e.path].version
        /\ e.live = op.wrote[e.path].live /\ \A d \in op.sent : d.path = e.path => d = e
    BY DEF IInv, SentOK
  <2>3. e.base # -1 => e.version \in {1, e.base + 1}
    BY DEF IInv, BaseOK, AnyVersion
  <2>4. change(e.path) = e
    BY <2>2
  <2> QED BY <1>1, <1>2, <2>1, <2>2, <2>3, <2>4
<1>4. ASSUME NEW p \in S
      PROVE  change(p) \in op.sent /\ change(p).path = p
  <2>1. \E e \in op.sent : e.path = p
    BY <1>2 DEF IInv, WroteOK
  <2> QED BY <2>1
<1> HIDE DEF op, change
<1>5. base \in [S -> Base \cup {-1}]
  BY <1>3, <1>4
<1>6. ASSUME NEW p \in S
      PROVE  base[p] # -1 => row[p].version \in {0, base[p]}
  <2>1. row'[p].version = row[p].version + 1 /\ row[p].version \in Nat
    BY <1>0, <1>2 DEF Row
  <2>2. base[p] \in Base \cup {-1}
    BY <1>3, <1>4
  <2>3. \A b \in Base \cup {-1} : b \in Int
    BY BaseAssumption
  <2>5. base[p] \in Int
    BY <2>2, <2>3, Zenon
  <2>4. base[p] # -1 => row'[p].version \in {1, base[p] + 1}
    BY <1>3, <1>4
  <2> QED BY <2>1, <2>4, <2>5
<1>7. {told(e) : e \in log'} = {told(e) : e \in log} \cup {told(e) : e \in op.sent}
  BY <1>1
<1>8. {told(e) : e \in op.sent} =
        {[path |-> p, version |-> row'[p].version, live |-> row'[p].live, base |-> base[p]] : p \in S}
  <2>1. ASSUME NEW e \in op.sent
        PROVE  told(e) = [path |-> e.path, version |-> row'[e.path].version,
                          live |-> row'[e.path].live, base |-> base[e.path]]
    BY <1>3
  <2>2. ASSUME NEW p \in S
        PROVE  told(change(p)) = [path |-> p, version |-> row'[p].version,
                                  live |-> row'[p].live, base |-> base[p]]
    BY <1>3, <1>4
  <2> QED BY <1>3, <1>4, <2>1, <2>2
<1>9. Tree!Update(S, base)
  <2>1. row' \in [Path -> Tree!Entry]
    BY <1>1 DEF Tree!Entry, Row
  <2>2. \A p \in S : row'[p].version = row[p].version + 1
    BY <1>2
  <2>3. \A p \in Path \ S : row'[p] = row[p]
    OBVIOUS
  <2> HIDE DEF S, base
  <2> QED BY <1>6, <1>7, <1>8, <2>1, <2>2, <2>3, Zenon DEF Tree!Update
<1>10. PICK C, B : C = S /\ B = base
  OBVIOUS
<1>11. Tree!Update(C, B) /\ B \in [C -> Base \cup {-1}]
  <2> HIDE DEF S, base
  <2> QED BY <1>5, <1>9, <1>10, Zenon DEF Tree!Update
<1>12. \E b \in [C -> Base \cup {-1}] : Tree!Update(C, b)
  BY <1>11
<1>13. C = {p \in Path : row'[p] # row[p]}
  BY <1>10
<1> QED BY <1>12, <1>13, Zenon DEF Tree!Next

(* No other step changes a row or the history.                             *)
LEMMA StepUpdates == IInv /\ [Next]_vars => [Tree!Next]_(Tree!vars)
<1> SUFFICES ASSUME IInv, [Next]_vars PROVE UNCHANGED <<row, log>> \/ Tree!Next
  BY DEF Tree!vars
<1>1. ASSUME NEW t \in Tx, EnsureCommit(t) \/ Commit(t) PROVE Tree!Next
  <2>1. tx[t] # Free /\ Publish(t)
    BY <1>1, Fields, NotFree DEF EnsureCommit, Commit, Free
  <2> QED BY <2>1, PublishUpdates
<1>2. ASSUME NEW t \in Tx, Operation(t), ~EnsureCommit(t), ~Commit(t) PROVE UNCHANGED <<row, log>>
  BY <1>2 DEF Operation, BeginWrite, EnsureFound, EnsureMissing, EnsureInsert, LockWrite,
       EnforceQuota, Apply, BeginDelete, DeleteEntry, ShareUser, Fail, Begin, End, Continue, Write
<1>3. ASSUME NEW c \in Client,
             SnapshotEntries(c) \/ SnapshotCursor(c) \/ StartEmpty(c) \/ Poll(c)
      PROVE  UNCHANGED <<row, log>>
  BY <1>3 DEF SnapshotEntries, SnapshotCursor, StartEmpty, Poll
<1> QED BY <1>1, <1>2, <1>3 DEF Next, vars

(* The transactions of WriteEntry, EnsureDirectory and Delete implement    *)
(* the versioned tree, for any files, sessions, readers and failures.      *)
THEOREM Refinement == Spec => ImplementsVersionedTree
<1>1. Init => Tree!Init
  BY DEF Init, Tree!Init, NoRows, NoRow
<1> QED BY <1>1, StepUpdates, Invariance, PTL DEF Spec, ImplementsVersionedTree, Tree!Spec
-------------------------------------------------------------------------------
-------------------------------------------------------------------------------
(* What a reader may miss.  While it follows Changes, only a change that   *)
(* was not committed when a later cursor was given out can come too late:  *)
(* every other one is newer than all that is committed or seen.            *)
PendingIsNewest ==
    /\ next >= 1
    /\ \A e \in log : e.cursor >= 1
    /\ \A c \in Client : client[c].cursor < next
    /\ \A t \in Tx : tx[t] # Free => \A e \in tx[t].sent :
        /\ e.cursor >= 1
        /\ e \notin overtaken =>
            /\ \A x \in log : x.cursor < e.cursor
            /\ \A c \in Client : client[c].cursor < e.cursor
            /\ \A u \in Tx : u # t /\ tx[u] # Free => \A y \in tx[u].sent : y.cursor < e.cursor

Told(e) == IF e.live THEN e.version ELSE 0

(* The last change of each path up to the reader's cursor is one it has    *)
(* got, or one that was overtaken.                                         *)
LastSeen(c, p) ==
    \/ /\ client[c].cache[p] = 0
       /\ \A x \in log : x.path = p => x.cursor > client[c].cursor
    \/ \E e \in log : /\ e.path = p /\ e.cursor <= client[c].cursor
                      /\ e \in overtaken \/ client[c].cache[p] = Told(e)
                      /\ \A x \in log : x.path = p /\ x.cursor <= client[c].cursor
                            => x.cursor <= e.cursor

ReadersOK == \A c \in Client : client[c].pc # "listed" /\ \A p \in Path : LastSeen(c, p)

CInv == PendingIsNewest /\ ReadersOK

(* The steps of operations, by what they do to the history.                *)
Silent(t) ==
    /\ UNCHANGED <<log, next, client, overtaken>>
    /\ \A u \in Tx : u # t => tx'[u] = tx[u]
    /\ tx'[t] # Free => tx'[t].sent = {} \/ (tx[t] # Free /\ tx'[t].sent = tx[t].sent)

Draws(t) ==
    /\ UNCHANGED <<log, client>> /\ next' = next + 1 /\ tx[t] # Free
    /\ \A u \in Tx : u # t => tx'[u] = tx[u]
    /\ \E e : e.cursor = next /\ tx'[t].sent = tx[t].sent \cup {e}
    /\ overtaken' = overtaken \cup UNION {tx[u].sent : u \in Others(t)}

Commits(t) ==
    /\ UNCHANGED <<next, client, overtaken>> /\ log' = log \cup tx[t].sent /\ tx[t] # Free
    /\ \A u \in Tx : u # t => tx'[u] = tx[u]
    /\ tx'[t] # Free => tx'[t].sent = {}

(* The record that a step writes is the one it is told to.                 *)
LEMMA Recorded ==
    ASSUME IInv, NEW t \in Tx, NEW op, tx' = [tx EXCEPT ![t] = op]
    PROVE  tx'[t] = op /\ \A u \in Tx : u # t => tx'[u] = tx[u]
  BY DEF IInv, TypeOK

LEMMA WriteDraws ==
    ASSUME IInv, NEW t \in Tx, tx[t] # Free, NEW p \in Path, NEW r, NEW base, NEW pc, NEW user,
           Write(t, p, r, base, pc, user)
    PROVE  Draws(t)
<1>1. tx[t] \in Running
  BY Fields DEF IInv
<1> DEFINE e == [cursor |-> next, path |-> p, version |-> r.version, live |-> r.live, base |-> base]
<1> DEFINE op == [tx[t] EXCEPT !.pc = pc, !.user = user, !.locks = @ \cup {p}, !.todo = @ \ {p},
                               !.wrote[p] = r, !.sent = @ \cup {e}]
<1>2. /\ tx' = [tx EXCEPT ![t] = op] /\ next' = next + 1 /\ UNCHANGED <<log, client>>
      /\ overtaken' = overtaken \cup UNION {tx[u].sent : u \in Others(t)}
  BY DEF Write
<1>3. op.sent = tx[t].sent \cup {e} /\ e.cursor = next
  BY <1>1 DEF Running
<1> HIDE DEF op, e
<1>4. tx'[t] = op /\ \A u \in Tx : u # t => tx'[u] = tx[u]
  BY <1>2, Recorded
<1> QED BY <1>2, <1>3, <1>4 DEF Draws

LEMMA Effects ==
    ASSUME IInv, NEW t \in Tx, Operation(t)
    PROVE  Silent(t) \/ Draws(t) \/ Commits(t)
<1> DEFINE op == tx[t]  d == Parent[tx[t].path]  f == tx[t].path
<1>0. op # Free => op \in Running
  BY Fields DEF IInv
<1>1. CASE End(t)
  BY <1>1, Recorded DEF End, Silent
<1>2. ASSUME NEW new, tx' = [tx EXCEPT ![t] = new], UNCHANGED <<row, log, next, client, overtaken>>,
             new.sent = {} \/ (tx[t] # Free /\ new.sent = tx[t].sent)
      PROVE  Silent(t)
  BY <1>2, Recorded DEF Silent
<1>3. ASSUME NEW p \in Path, NEW r, NEW base, NEW pc, NEW user,
             Write(t, p, r, base, pc, user), tx[t] # Free
      PROVE  Draws(t)
  BY <1>3, WriteDraws
<1>4. op # Free /\ op.pc \in {"ensure", "ensureinsert"} => d \in Path
  BY DEF IInv, StepsOK, Path
<1>5. op # Free => /\ Released(op, "lock").sent = {}
                   /\ \A pc : [op EXCEPT !.pc = pc].sent = op.sent
                   /\ \A pc, locks : [op EXCEPT !.pc = pc, !.locks = locks].sent = op.sent
                   /\ \A pc, user : [op EXCEPT !.pc = pc, !.user = user].sent = op.sent
                   /\ \A pc, user : [op EXCEPT !.user = user, !.pc = pc].sent = op.sent
  BY <1>0 DEF Running, Released
<1>6. CASE BeginWrite(t)
  <2>1. PICK ff \in File, size \in Size, base \in Base :
          Begin(t, [pc |-> IF Parent[ff] = Root THEN "lock" ELSE "ensure", path |-> ff, base |-> base,
                    size |-> size, todo |-> {}, locks |-> {}, user |-> "none",
                    wrote |-> NoRows, sent |-> {}])
    BY <1>6 DEF BeginWrite
  <2> DEFINE new == [pc |-> IF Parent[ff] = Root THEN "lock" ELSE "ensure", path |-> ff,
                     base |-> base, size |-> size, todo |-> {}, locks |-> {}, user |-> "none",
                     wrote |-> NoRows, sent |-> {}]
  <2>2. new.sent = {}
    OBVIOUS
  <2>3. tx' = [tx EXCEPT ![t] = new] /\ UNCHANGED <<row, log, next, client, overtaken>>
    BY <2>1 DEF Begin
  <2> HIDE DEF new
  <2> QED BY <2>2, <2>3, <1>2
<1>17. CASE BeginDelete(t)
  <2>1. PICK S \in Target :
          Begin(t, [pc |-> "delete", path |-> Root, base |-> AnyVersion, size |-> 0,
                    todo |-> {p \in S : row[p].live}, locks |-> {}, user |-> "none",
                    wrote |-> NoRows, sent |-> {}])
    BY <1>17 DEF BeginDelete
  <2> QED BY <2>1, <1>2 DEF Begin
<1>7. CASE EnsureFound(t)
  <2>1. op # Free /\ op.pc = "ensure"
    BY <1>7 DEF EnsureFound, Free
  <2>2. \/ Continue(t, Released(op, "lock"))
        \/ Write(t, d, Bumped(d, TRUE, row[d].size), AnyVersion, "revived", op.user)
    BY <1>7 DEF EnsureFound
  <2> QED BY <2>1, <2>2, <1>2, <1>3, <1>4, <1>5 DEF Continue
<1>8. CASE EnsureMissing(t)
  <2>1. op # Free /\ Continue(t, [op EXCEPT !.pc = "ensureinsert"])
    BY <1>8 DEF EnsureMissing, Free
  <2> QED BY <2>1, <1>2, <1>5 DEF Continue
<1>9. CASE EnsureInsert(t) /\ ~End(t)
  <2>0. op # Free /\ op.pc = "ensureinsert"
    BY <1>9 DEF EnsureInsert, Free
  <2>1. Write(t, d, Bumped(d, TRUE, 0), AnyVersion, "ensurecommit", "share")
    BY <1>9 DEF EnsureInsert
  <2> QED BY <2>0, <2>1, <1>3, <1>4
<1>10. CASE EnsureCommit(t) \/ Commit(t)
  <2>1. op # Free /\ Publish(t) /\ UNCHANGED <<next, client, overtaken>>
    BY <1>10 DEF EnsureCommit, Commit, Free
  <2>2. tx' = [tx EXCEPT ![t] = Free] \/ tx' = [tx EXCEPT ![t] = Released(op, "lock")]
    BY <1>10 DEF EnsureCommit, Commit
  <2>3. /\ tx'[t] = Free \/ tx'[t] = Released(op, "lock")
        /\ \A u \in Tx : u # t => tx'[u] = tx[u]
    BY <2>2, Recorded
  <2> QED BY <2>1, <2>3, <1>5 DEF Commits, Publish
<1>11. CASE LockWrite(t) /\ ~End(t)
  <2>0. op # Free
    BY <1>11 DEF LockWrite, Free
  <2>1. CASE Continue(t, [op EXCEPT !.pc = "quota"])
    BY <2>0, <2>1, <1>2, <1>5 DEF Continue
  <2>2. CASE Continue(t, [op EXCEPT !.pc = "quota", !.locks = {f}])
    BY <2>0, <2>2, <1>2, <1>5 DEF Continue
  <2> QED BY <1>11, <2>1, <2>2 DEF LockWrite
<1>12. CASE EnforceQuota(t) /\ ~End(t)
  <2>1. op # Free /\ Continue(t, [op EXCEPT !.pc = "apply", !.user = "update"])
    BY <1>12 DEF EnforceQuota, Free
  <2> QED BY <2>1, <1>2, <1>5 DEF Continue
<1>13. CASE Apply(t) /\ ~End(t)
  <2>0. op # Free /\ op.pc = "apply"
    BY <1>13 DEF Apply, Free
  <2>1. Write(t, f, Bumped(f, TRUE, op.size), op.base, "commit", op.user)
    BY <1>13 DEF Apply
  <2>2. f \in Path
    BY <2>0 DEF IInv, StepsOK, Before, Path
  <2> QED BY <2>0, <2>1, <2>2, <1>3
<1>14. CASE DeleteEntry(t)
  <2>1. op # Free /\ op.pc = "delete"
    BY <1>14 DEF DeleteEntry, Free
  <2>2. PICK p \in op.todo : Write(t, p, Bumped(p, FALSE, row[p].size), AnyVersion, "share", op.user)
    BY <1>14 DEF DeleteEntry
  <2>3. p \in Path
    BY <1>0, <2>1, <2>2 DEF Running
  <2> QED BY <2>1, <2>2, <2>3, <1>3
<1>15. CASE ShareUser(t)
  <2>0. op # Free
    BY <1>15 DEF ShareUser, Free
  <2>1. PICK pc : Continue(t, [op EXCEPT !.user = "share", !.pc = pc])
    BY <1>15 DEF ShareUser
  <2> QED BY <2>0, <2>1, <1>2, <1>5 DEF Continue
<1>16. Fail(t) => End(t)
  BY DEF Fail
<1> HIDE DEF op, d, f
<1> QED BY <1>1, <1>6, <1>7, <1>8, <1>9, <1>10, <1>11, <1>12, <1>13, <1>14, <1>15, <1>16, <1>17, Zenon
        DEF Operation

(* Everything that is counted is a number.                                 *)
LEMMA Cursors ==
    ASSUME IInv
    PROVE  /\ next \in Nat /\ \A x \in log : x.cursor \in Nat
           /\ \A c \in Client : client[c].cursor \in Nat
           /\ \A u \in Tx : tx[u] # Free => \A e \in tx[u].sent : e.cursor \in Nat
<1>1. \A u \in Tx : tx[u] # Free => tx[u].sent \subseteq Change
  BY Fields DEF IInv, Running
<1> QED BY <1>1 DEF IInv, TypeOK, Change, Reader

LEMMA OperationsPending ==
    ASSUME IInv, PendingIsNewest, NEW t \in Tx, Operation(t)
    PROVE  PendingIsNewest'
<1>1. CASE Silent(t)
  <2>1. ASSUME NEW u \in Tx, tx'[u] # Free, NEW e \in tx'[u].sent
        PROVE  tx[u] # Free /\ e \in tx[u].sent
    BY <1>1, <2>1 DEF Silent
  <2>2. UNCHANGED <<log, next, client, overtaken>>
    BY <1>1 DEF Silent
  <2> QED BY <2>1, <2>2 DEF PendingIsNewest
<1>2. CASE Draws(t)
  <2>1. PICK e : e.cursor = next /\ tx'[t].sent = tx[t].sent \cup {e}
    BY <1>2 DEF Draws
  <2>2. /\ \A u \in Tx : u # t => tx'[u] = tx[u]
        /\ next' = next + 1 /\ log' = log /\ client' = client /\ tx[t] # Free
    BY <1>2 DEF Draws
  <2>3. /\ overtaken \subseteq overtaken'
        /\ \A u \in Tx : u # t /\ tx[u] # Free => tx[u].sent \subseteq overtaken'
    BY <1>2 DEF Draws, Others
  <2>4. /\ \A x \in log : x.cursor < next
        /\ \A u \in Tx : tx[u] # Free => \A x \in tx[u].sent : x.cursor < next
    BY DEF IInv, CursorsOK
  <2>5. ASSUME NEW u \in Tx, tx'[u] # Free, NEW x \in tx'[u].sent
        PROVE  /\ x.cursor >= 1
               /\ x \notin overtaken' =>
                    /\ \A y \in log : y.cursor < x.cursor
                    /\ \A c \in Client : client[c].cursor < x.cursor
                    /\ \A v \in Tx : v # u /\ tx'[v] # Free => \A y \in tx'[v].sent : y.cursor < x.cursor
    <3>1. CASE u # t
      BY <2>2, <2>3, <2>5, <3>1 DEF PendingIsNewest
    <3>2. CASE u = t /\ x \in tx[t].sent
      BY <2>2, <2>3, <3>2 DEF PendingIsNewest
    <3>3. CASE u = t /\ x = e
      BY <2>1, <2>2, <2>4, <3>3, Cursors DEF PendingIsNewest
    <3> QED BY <2>1, <2>5, <3>1, <3>2, <3>3
  <2> QED BY <2>2, <2>5, Cursors DEF PendingIsNewest
<1>3. CASE Commits(t)
  <2>1. /\ log' = log \cup tx[t].sent /\ UNCHANGED <<next, client, overtaken>> /\ tx[t] # Free
        /\ \A u \in Tx : u # t => tx'[u] = tx[u]
        /\ tx'[t] # Free => tx'[t].sent = {}
    BY <1>3 DEF Commits
  <2>2. ASSUME NEW u \in Tx, tx'[u] # Free, NEW e \in tx'[u].sent
        PROVE  u # t /\ tx[u] # Free /\ e \in tx[u].sent
    BY <2>1, <2>2
  <2> QED BY <2>1, <2>2 DEF PendingIsNewest
<1> QED BY <1>1, <1>2, <1>3, Effects

LEMMA OperationsReaders ==
    ASSUME IInv, CInv, NEW t \in Tx, Operation(t)
    PROVE  ReadersOK'
<1>1. client' = client /\ overtaken \subseteq overtaken'
  BY Effects DEF Silent, Draws, Commits
<1>2. CASE log' = log
  <2>1. ASSUME NEW c \in Client, NEW p \in Path PROVE LastSeen(c, p)'
    <3>1. LastSeen(c, p)
      BY DEF CInv, ReadersOK
    <3> QED BY <1>1, <1>2, <3>1 DEF LastSeen, Told
  <2> QED BY <1>1, <2>1 DEF CInv, ReadersOK
<1>3. CASE Commits(t)
  <2>1. tx[t] # Free /\ log' = log \cup tx[t].sent /\ overtaken' = overtaken
    BY <1>3 DEF Commits
  <2>2. ASSUME NEW c \in Client, NEW p \in Path PROVE LastSeen(c, p)'
    <3>1. LastSeen(c, p)
      BY DEF CInv, ReadersOK
    <3>2. CASE \E e \in tx[t].sent : e.path = p /\ e.cursor <= client[c].cursor
      <4>1. PICK e \in tx[t].sent : e.path = p /\ e.cursor <= client[c].cursor
        BY <3>2
      <4>2. e \in overtaken
        BY <2>1, <4>1, Cursors DEF CInv, PendingIsNewest
      <4>3. ASSUME NEW x \in log', x.path = p PROVE x.cursor <= e.cursor
        <5>1. CASE x \in log
          BY <2>1, <4>1, <4>3, <5>1, Cursors DEF IInv, CursorsOK
        <5>2. CASE x \in tx[t].sent
          BY <2>1, <4>1, <4>3, <5>2, Cursors DEF IInv, SentOK
        <5> QED BY <2>1, <5>1, <5>2
      <4> QED BY <1>1, <2>1, <4>1, <4>2, <4>3 DEF LastSeen
    <3>3. CASE \A e \in tx[t].sent : e.path = p => e.cursor > client[c].cursor
      <4>1. \A e \in tx[t].sent : e.path = p => ~(e.cursor <= client[c].cursor)
        BY <2>1, <3>3, Cursors
      <4> QED BY <1>1, <2>1, <3>1, <3>3, <4>1 DEF LastSeen, Told
    <3>4. \A e \in tx[t].sent : e.cursor <= client[c].cursor \/ e.cursor > client[c].cursor
      BY <2>1, Cursors
    <3> QED BY <3>2, <3>3, <3>4
  <2> QED BY <1>1, <2>2 DEF CInv, ReadersOK
<1> QED BY <1>2, <1>3, Effects DEF Silent, Draws

(* A poll takes a reader to the last change of every path.                 *)
LEMMA PollReaders ==
    ASSUME IInv, CInv, NEW c \in Client, Poll(c)
    PROVE  PendingIsNewest' /\ ReadersOK'
<1> DEFINE news == After(log, client[c].cursor)
<1>0. /\ client[c] \in Reader /\ client \in [Client -> Reader] /\ log \subseteq Change
      /\ client[c].cursor \in Nat /\ client[c].cache \in [Path -> Nat] /\ next \in Nat
      /\ \A e \in log : e.cursor \in Nat /\ e.cursor < next /\ e.version \in Nat
  BY DEF IInv, TypeOK, CursorsOK, Reader, Change
<1>1. /\ news \subseteq log /\ news # {}
      /\ \A e \in log : e \in news <=> e.cursor > client[c].cursor
  BY DEF Poll, After
<1>2. /\ Latest(news) \in Nat /\ \A e \in news : e.cursor <= Latest(news)
      /\ \E e \in news : e.cursor = Latest(news)
  <2>1. news \in SUBSET Change /\ \A e \in news : e.cursor <= next
    BY <1>0, <1>1
  <2> QED BY <1>0, <1>1, <2>1, LatestOf
<1>3. /\ client' = [client EXCEPT ![c].cursor = Latest(news),
                                  ![c].cache = Replay(client[c].cache, news)]
      /\ UNCHANGED <<row, log, next, tx, overtaken>>
  BY <1>0 DEF Poll
<1> HIDE DEF news
<1>4. /\ client'[c].cursor = Latest(news) /\ client'[c].cache = Replay(client[c].cache, news)
      /\ client'[c].pc = client[c].pc /\ \A b \in Client : b # c => client'[b] = client[b]
  BY <1>0, <1>3 DEF Reader
<1>5. PICK m \in log : m.cursor = Latest(news)
  BY <1>1, <1>2
<1>6. PendingIsNewest'
  BY <1>0, <1>3, <1>4, <1>5 DEF CInv, PendingIsNewest
<1>7. ASSUME NEW p \in Path PROVE LastSeen(c, p)'
  <2> DEFINE mine == {e \in news : e.path = p}
  <2>0. client'[c].cache[p] =
          IF mine = {} THEN client[c].cache[p]
          ELSE LET last == CHOOSE e \in mine : e.cursor = Latest(mine)
               IN IF last.live THEN last.version ELSE 0
    BY <1>4 DEF Replay
  <2>1. ASSUME NEW x \in log, x.path = p, x.cursor <= Latest(news), x \notin mine
        PROVE  x.cursor <= client[c].cursor
    BY <2>1, <1>0, <1>1
  <2>2. client[c].cursor <= Latest(news)
    BY <1>0, <1>1, <1>2
  <2>3. CASE mine = {}
    <3>1. client'[c].cache[p] = client[c].cache[p]
      BY <2>0, <2>3
    <3>2. \A x \in log : x.path = p => x.cursor <= client[c].cursor
      BY <2>3, <1>0, <1>1
    <3>3. LastSeen(c, p)
      BY DEF CInv, ReadersOK
    <3>4. CASE client[c].cache[p] = 0 /\ \A x \in log : x.path = p => x.cursor > client[c].cursor
      <4>1. \A x \in log : x.path # p
        BY <3>2, <3>4, <1>0
      <4> QED BY <4>1, <3>1, <3>4, <1>3 DEF LastSeen
    <3>5. ASSUME NEW e \in log, e.path = p, e.cursor <= client[c].cursor,
                 e \in overtaken \/ client[c].cache[p] = Told(e),
                 \A x \in log : x.path = p /\ x.cursor <= client[c].cursor => x.cursor <= e.cursor
          PROVE  LastSeen(c, p)'
      <4>1. e.cursor <= Latest(news)
        BY <3>5, <2>2, <1>0, <1>2
      <4>2. \A x \in log : x.path = p => x.cursor <= e.cursor
        BY <3>5, <3>2
      <4>3. e \in overtaken' \/ client'[c].cache[p] = Told(e)
        BY <3>1, <3>5, <1>3
      <4> QED BY <3>5, <4>1, <4>2, <4>3, <1>3, <1>4 DEF LastSeen, Told
    <3> QED BY <3>3, <3>4, <3>5 DEF LastSeen
  <2>4. CASE mine # {}
    <3> DEFINE last == CHOOSE e \in mine : e.cursor = Latest(mine)
    <3>1. mine \in SUBSET Change /\ \A e \in mine : e.cursor <= next
      BY <1>0, <1>1
    <3>2. \A e \in mine : e.cursor <= Latest(mine)
      BY <3>1, <1>0, LatestOf
    <3>3. last \in mine /\ last.cursor = Latest(mine)
      <4>1. \E e \in mine : e.cursor = Latest(mine)
        BY <2>4, <3>1, <1>0, LatestOf
      <4> QED BY <4>1
    <3>4. last \in log /\ last.path = p /\ last.cursor <= Latest(news)
      BY <3>3, <1>1, <1>2
    <3>5. client'[c].cache[p] = Told(last)
      BY <2>0, <2>4 DEF Told
    <3> HIDE DEF last
    <3>6. ASSUME NEW x \in log, x.path = p, x.cursor <= Latest(news) PROVE x.cursor <= last.cursor
      <4>1. CASE x \in mine
        BY <4>1, <3>2, <3>3
      <4>2. CASE x \notin mine
        BY <4>2, <2>1, <3>6, <3>3, <3>4, <1>0, <1>1
      <4> QED BY <4>1, <4>2
    <3> QED BY <3>4, <3>5, <3>6, <1>3, <1>4 DEF LastSeen, Told
  <2> QED BY <2>3, <2>4
<1>8. ASSUME NEW b \in Client, b # c, NEW p \in Path PROVE LastSeen(b, p)'
  <2>1. LastSeen(b, p)
    BY DEF CInv, ReadersOK
  <2>2. client'[b] = client[b] /\ log' = log /\ overtaken' = overtaken
    BY <1>3, <1>4, <1>8
  <2> QED BY <2>1, <2>2 DEF LastSeen, Told
<1> QED BY <1>3, <1>4, <1>6, <1>7, <1>8 DEF CInv, ReadersOK

LEMMA InitCInv == Init => CInv
<1> SUFFICES ASSUME Init PROVE CInv
  OBVIOUS
<1>1. /\ \A t \in Tx : tx[t] = Free
      /\ log = {} /\ next = 1
      /\ \A c \in Client : client[c].cursor = 0 /\ client[c].pc = "new"
                           /\ \A p \in Path : client[c].cache[p] = 0
  BY DEF Init
<1> QED
  BY <1>1 DEF CInv, PendingIsNewest, ReadersOK, LastSeen

LEMMA NextCInv == ~ColdStart /\ IInv /\ CInv /\ [Next]_vars => CInv'
<1> SUFFICES ASSUME ~ColdStart, IInv, CInv, [Next]_vars PROVE CInv'
  OBVIOUS
<1>1. ASSUME NEW t \in Tx, Operation(t) PROVE CInv'
  BY <1>1, OperationsPending, OperationsReaders DEF CInv
<1>2. ASSUME NEW c \in Client,
             SnapshotEntries(c) \/ SnapshotCursor(c) \/ StartEmpty(c) \/ Poll(c)
      PROVE  CInv'
  <2>1. UNCHANGED <<row, log, next, tx, overtaken>>
    BY <1>2 DEF SnapshotEntries, SnapshotCursor, StartEmpty, Poll
  <2>2. ~SnapshotEntries(c) /\ ~SnapshotCursor(c)
    BY DEF SnapshotEntries, SnapshotCursor, CInv, ReadersOK
  <2>3. CASE StartEmpty(c)
    <3>1. client \in [Client -> Reader]
      BY DEF IInv, TypeOK
    <3>2. \A b \in Client : /\ client'[b].cursor = client[b].cursor
                            /\ client'[b].cache = client[b].cache
                            /\ client'[b].pc \in {client[b].pc, "ready"}
      BY <2>3, <3>1 DEF StartEmpty, Reader
    <3>3. PendingIsNewest'
      BY <2>1, <3>2 DEF CInv, PendingIsNewest
    <3>4. ReadersOK'
      BY <2>1, <3>2 DEF CInv, ReadersOK, LastSeen, Told
    <3> QED BY <3>3, <3>4 DEF CInv
  <2>4. CASE Poll(c)
    BY <2>4, PollReaders DEF CInv
  <2> QED BY <1>2, <2>2, <2>3, <2>4
<1>3. CASE UNCHANGED vars
  BY <1>3 DEF vars, CInv, PendingIsNewest, ReadersOK, LastSeen, Told
<1> QED BY <1>1, <1>2, <1>3 DEF Next

LEMMA CaughtUp == IInv /\ CInv => MissesOnlyOvertaken
<1> SUFFICES ASSUME IInv, CInv, NEW c \in Client, NEW p \in Path,
                    client[c].cursor = Latest(log), p \notin Missable
             PROVE  client[c].cache[p] = LiveVersion[p]
  BY DEF MissesOnlyOvertaken, Current
<1>0. /\ log \in SUBSET Change /\ next \in Nat /\ row \in [Path -> Row]
      /\ client[c].cursor \in Nat
      /\ \A e \in log : e.cursor <= next /\ e.cursor \in Nat /\ e.version \in Nat
  BY DEF IInv, TypeOK, CursorsOK, Change, Reader
<1>1. \A e \in log : e.cursor <= client[c].cursor
  BY <1>0, LatestOf
<1>2. row[p].version \in Nat
  BY <1>0 DEF Row
<1>3. {e.version : e \in {x \in log : x.path = p}} = 1..row[p].version
  BY DEF IInv, HistoryMatchesTree
<1>4. LastSeen(c, p)
  BY DEF CInv, ReadersOK
<1>5. CASE \A e \in log : e.path # p
  <2>1. row[p].version = 0
    <3>1. 1..row[p].version = {}
      BY <1>3, <1>5
    <3> QED BY <3>1, <1>2
  <2> QED BY <2>1, <1>4, <1>5 DEF LastSeen, LiveVersion
<1>6. CASE ~\A e \in log : e.path # p
  <2>1. PICK e \in log : /\ e.path = p
                         /\ e \in overtaken \/ client[c].cache[p] = Told(e)
                         /\ \A x \in log : x.path = p => x.cursor <= e.cursor
    BY <1>0, <1>1, <1>4, <1>6 DEF LastSeen
  <2>2. e.version \in 1..row[p].version
    BY <1>3, <2>1
  <2>3. PICK x \in log : x.path = p /\ x.version = row[p].version
    <3>1. row[p].version \in 1..row[p].version
      BY <1>2, <2>2
    <3> QED BY <3>1, <1>3
  <2>4. ~(e.version < x.version)
    <3>1. ~(e.cursor < x.cursor)
      BY <1>0, <2>1, <2>3
    <3> QED BY <2>1, <2>3, <3>1 DEF IInv, HistoryMatchesTree
  <2>5. e.version = row[p].version
    BY <1>0, <1>2, <2>2, <2>3, <2>4
  <2>6. e.live = row[p].live
    BY <2>1, <2>5 DEF IInv, HistoryMatchesTree
  <2>7. client[c].cache[p] = Told(e)
    <3>1. e \in overtaken \cap log => p \in Missable
      BY <2>1, <2>5 DEF Missable
    <3> QED BY <2>1, <3>1
  <2> QED BY <2>5, <2>6, <2>7 DEF Told, LiveVersion
<1> QED BY <1>5, <1>6

(* A reader that starts from cursor 0 and has polled up to the latest      *)
(* cursor has every entry right, deleted ones too, except those whose last *)
(* change was uncommitted when a later cursor was drawn (Changes).         *)
THEOREM OnlyOvertakenIsMissed ==
    ASSUME ~ColdStart
    PROVE  Spec => []MissesOnlyOvertaken
<1>1. Init => CInv
  BY InitCInv
<1>2. IInv /\ CInv /\ [Next]_vars => CInv'
  BY NextCInv
<1> QED BY <1>1, <1>2, Invariance, CaughtUp, PTL DEF Spec
-------------------------------------------------------------------------------
(* Without deletes, the quota keeps files out of this: a write draws its   *)
(* cursor and commits under the lock on the users row, and so only inserts *)
(* of directories can be uncommitted at the same time.                     *)
WritersOnly == Target = {} /\ ~ColdStart

NothingDeleted ==
    /\ \A p \in Path : row[p] # NoRow => row[p].live
    /\ \A t \in Tx : tx[t] # Free =>
        /\ tx[t].pc \notin {"delete", "share", "revived"}
        /\ \A p \in Path : tx[t].wrote[p] # NoRow => tx[t].wrote[p].live

UserLocks == \A t \in Tx : tx[t] # Free =>
    /\ tx[t].pc = "apply" => tx[t].user = "update"
    /\ tx[t].sent # {} =>
        \/ tx[t].pc = "commit" /\ tx[t].user = "update"
        \/ /\ tx[t].pc = "ensurecommit" /\ tx[t].user = "share"
           /\ \A e \in tx[t].sent : e.path \in Dir
    /\ \A u \in Tx : tx[u] # Free /\ u # t /\ tx[t].user = "update" => tx[u].user = "none"

OvertakenAreDirs == \A e \in overtaken : e.path \in Dir

WInv == NothingDeleted /\ UserLocks /\ OvertakenAreDirs

(* The steps that are left, by what they do to the operation's record.     *)
Quiet(t, op) ==
    /\ tx' = [tx EXCEPT ![t] = op] /\ UNCHANGED <<row, log, next, client, overtaken>>
    /\ \/ op = Free
       \/ /\ op \in Running /\ op.wrote = NoRows /\ op.sent = {}
          /\ op.pc \in Before
          /\ \/ op.pc # "apply" /\ op.user = "none"
             \/ op.pc # "apply" /\ tx[t] # Free /\ op.user = tx[t].user
             \/ op.user = "update" /\ UserFree(t)

Emits(t, p, r, pc, user) ==
    /\ tx[t] # Free /\ tx[t].sent = {} /\ r \in Row /\ p \in Path /\ r.live
    /\ \E base \in Expected : Write(t, p, r, base, pc, user)
    /\ \/ pc = "commit" /\ user = "update" /\ tx[t].user = "update"
       \/ pc = "ensurecommit" /\ user = "share" /\ p \in Dir /\ UserShareable(t)

Finishes(t) ==
    /\ tx[t] # Free /\ Publish(t) /\ UNCHANGED <<next, client, overtaken>>
    /\ \/ tx' = [tx EXCEPT ![t] = Free]
       \/ tx' = [tx EXCEPT ![t] = Released(tx[t], "lock")]

LEMMA ReleasedFields ==
    ASSUME NEW op \in Running
    PROVE  /\ Released(op, "lock") \in Running
           /\ Released(op, "lock").pc = "lock" /\ Released(op, "lock").user = "none"
           /\ Released(op, "lock").wrote = NoRows /\ Released(op, "lock").sent = {}
  BY NoRowTypes DEF Released, Running, Step

LEMMA WriterSteps ==
    ASSUME WritersOnly, IInv, NothingDeleted, UserLocks, NEW t \in Tx, Operation(t)
    PROVE  \/ \E op \in Running \cup {Free} : Quiet(t, op)
           \/ \E p \in Path, r \in Row, pc \in {"commit", "ensurecommit"}, user \in {"share", "update"} :
                 Emits(t, p, r, pc, user)
           \/ Finishes(t)
<1> DEFINE op == tx[t]  d == Parent[tx[t].path]  f == tx[t].path
<1>0. row \in [Path -> Row] /\ (op # Free => op \in Running)
  BY Fields DEF IInv, TypeOK
<1>1. op # Free /\ op.pc \in Before =>
        /\ f \in File /\ f \in Path /\ op.sent = {} /\ op.wrote = NoRows
        /\ op.pc \in {"ensure", "ensureinsert"} => d \in Dir /\ d \in Path
  <2>1. ASSUME op # Free, op.pc \in Before
        PROVE  /\ f \in File /\ f \in Path /\ op.sent = {} /\ \A p \in Path : op.wrote[p] = NoRow
               /\ op.pc \in {"ensure", "ensureinsert"} => d \in Dir /\ d \in Path
    BY <2>1 DEF IInv, StepsOK, Path
  <2>2. ASSUME op # Free, op.pc \in Before PROVE op.wrote = NoRows
    BY <2>1, <2>2, <1>0 DEF Running, NoRows
  <2> QED BY <2>1, <2>2
<1>2. CASE End(t)
  BY <1>2 DEF End, Quiet
<1>3. CASE BeginWrite(t)
  <2>1. PICK ff \in File, size \in Size, base \in Base :
          Begin(t, [pc |-> IF Parent[ff] = Root THEN "lock" ELSE "ensure", path |-> ff, base |-> base,
                    size |-> size, todo |-> {}, locks |-> {}, user |-> "none",
                    wrote |-> NoRows, sent |-> {}])
    BY <1>3 DEF BeginWrite
  <2> DEFINE new == [pc |-> IF Parent[ff] = Root THEN "lock" ELSE "ensure", path |-> ff,
                     base |-> base, size |-> size, todo |-> {}, locks |-> {}, user |-> "none",
                     wrote |-> NoRows, sent |-> {}]
  <2>2. new \in Running
    BY NoRowTypes, SizeAssumption, BaseAssumption DEF Running, Step, Path, Expected
  <2>3. Quiet(t, new)
    BY <2>1, <2>2 DEF Quiet, Begin, Before
  <2> QED BY <2>2, <2>3
<1>4. CASE EnsureFound(t)
  <2>1. op # Free /\ op.pc = "ensure" /\ row[d] # NoRow
    BY <1>4 DEF EnsureFound, Free
  <2>2. row[d].live
    BY <2>1, <1>1 DEF NothingDeleted, Before
  <2>3. Continue(t, Released(op, "lock"))
    BY <1>4, <2>2 DEF EnsureFound
  <2>4. Quiet(t, Released(op, "lock")) /\ Released(op, "lock") \in Running
    BY <1>0, <2>1, <2>3, ReleasedFields DEF Quiet, Continue, Before
  <2> QED BY <2>4
<1>5. CASE EnsureMissing(t)
  <2> DEFINE new == [op EXCEPT !.pc = "ensureinsert"]
  <2>1. op # Free /\ op.pc = "ensure" /\ Continue(t, new)
    BY <1>5 DEF EnsureMissing, Free
  <2>2. /\ new \in Running /\ new.pc = "ensureinsert" /\ new.user = op.user
        /\ new.wrote = op.wrote /\ new.sent = op.sent
    BY <1>0, <2>1 DEF Running, Step
  <2> HIDE DEF new
  <2>3. Quiet(t, new)
    BY <1>1, <2>1, <2>2 DEF Quiet, Continue, Before
  <2> QED BY <2>2, <2>3
<1>6. CASE EnsureInsert(t) /\ ~End(t)
  <2>0. op.pc = "ensureinsert" /\ op # Free
    BY <1>6 DEF EnsureInsert, Free
  <2>1. /\ op # Free /\ op.pc = "ensureinsert" /\ UserShareable(t)
        /\ Write(t, d, Bumped(d, TRUE, 0), AnyVersion, "ensurecommit", "share")
    BY <1>6, <2>0 DEF EnsureInsert
  <2>2. d \in Dir /\ d \in Path
    BY <1>1, <2>1 DEF Before
  <2>3. Bumped(d, TRUE, 0) \in Row /\ Bumped(d, TRUE, 0).live
    BY <1>0, <2>2, BumpedRow DEF Bumped
  <2>4. AnyVersion \in Expected /\ op.sent = {}
    BY <1>1, <2>1 DEF AnyVersion, Expected, Before
  <2>5. Emits(t, d, Bumped(d, TRUE, 0), "ensurecommit", "share")
    BY <2>1, <2>2, <2>3, <2>4 DEF Emits
  <2> QED BY <2>2, <2>3, <2>5
<1>7. CASE EnsureCommit(t) \/ Commit(t)
  BY <1>7 DEF EnsureCommit, Commit, Finishes, Free
<1>8. CASE LockWrite(t) /\ ~End(t)
  <2> DEFINE new1 == [op EXCEPT !.pc = "quota"]  new2 == [op EXCEPT !.pc = "quota", !.locks = {f}]
  <2>1. op # Free /\ op.pc = "lock" /\ (Continue(t, new1) \/ Continue(t, new2))
    BY <1>8 DEF LockWrite, Free
  <2>2. /\ new1 \in Running /\ new1.pc = "quota" /\ new1.user = op.user
        /\ new1.wrote = op.wrote /\ new1.sent = op.sent
    BY <1>0, <2>1 DEF Running, Step
  <2>3. /\ new2 \in Running /\ new2.pc = "quota" /\ new2.user = op.user
        /\ new2.wrote = op.wrote /\ new2.sent = op.sent
    BY <1>0, <1>1, <2>1 DEF Running, Step, Before
  <2> HIDE DEF new1, new2
  <2>4. Quiet(t, new1) \/ Quiet(t, new2)
    BY <1>1, <2>1, <2>2, <2>3 DEF Quiet, Continue, Before
  <2> QED BY <2>2, <2>3, <2>4
<1>9. CASE EnforceQuota(t) /\ ~End(t)
  <2> DEFINE new == [op EXCEPT !.pc = "apply", !.user = "update"]
  <2>1. op # Free /\ op.pc = "quota" /\ UserFree(t) /\ Continue(t, new)
    BY <1>9 DEF EnforceQuota, Free
  <2>2. /\ new \in Running /\ new.pc = "apply" /\ new.user = "update"
        /\ new.wrote = op.wrote /\ new.sent = op.sent
    BY <1>0, <2>1 DEF Running, Step
  <2> HIDE DEF new
  <2>3. Quiet(t, new)
    BY <1>1, <2>1, <2>2 DEF Quiet, Continue, Before
  <2> QED BY <2>2, <2>3
<1>10. CASE Apply(t) /\ ~End(t)
  <2>0. op.pc = "apply" /\ op # Free
    BY <1>10 DEF Apply, Free
  <2>1. /\ op # Free /\ op.pc = "apply"
        /\ Write(t, f, Bumped(f, TRUE, op.size), op.base, "commit", op.user)
    BY <1>10, <2>0 DEF Apply
  <2>2. /\ f \in Path /\ op.user = "update" /\ op.size \in Nat /\ op.base \in Expected
        /\ op.sent = {}
    BY <1>0, <1>1, <2>1 DEF Before, UserLocks, Running
  <2>3. Bumped(f, TRUE, op.size) \in Row /\ Bumped(f, TRUE, op.size).live
    BY <1>0, <2>2, BumpedRow DEF Bumped
  <2>4. Emits(t, f, Bumped(f, TRUE, op.size), "commit", "update")
    BY <2>1, <2>2, <2>3 DEF Emits
  <2> QED BY <2>2, <2>3, <2>4
<1>11. ~BeginDelete(t)
  BY DEF WritersOnly, BeginDelete
<1>12. ~DeleteEntry(t) /\ ~ShareUser(t)
  <2>1. DeleteEntry(t) \/ ShareUser(t) => op.pc \in {"delete", "share", "revived"}
    BY DEF DeleteEntry, ShareUser
  <2>2. op.pc \in {"delete", "share", "revived"} => op # Free
    BY DEF Free
  <2> QED BY <2>1, <2>2 DEF NothingDeleted
<1>13. Fail(t) => End(t)
  BY DEF Fail
<1> HIDE DEF op, d, f
<1> QED BY <1>2, <1>3, <1>4, <1>5, <1>6, <1>7, <1>8, <1>9, <1>10, <1>11, <1>12, <1>13, Zenon
        DEF Operation

(* What a write leaves in the operation's record.                          *)
LEMMA Emitted ==
    ASSUME IInv, NEW t \in Tx, NEW p \in Path, NEW r \in Row, NEW pc, NEW user,
           Emits(t, p, r, pc, user)
    PROVE  /\ \A u \in Tx : u # t => tx'[u] = tx[u]
           /\ tx'[t].pc = pc /\ tx'[t].user = user
           /\ tx'[t].wrote[p] = r /\ \A q \in Path : q # p => tx'[t].wrote[q] = tx[t].wrote[q]
           /\ \A e \in tx'[t].sent : e.path = p
           /\ row' = row /\ overtaken' = overtaken \cup UNION {tx[u].sent : u \in Others(t)}
<1>1. tx[t] \in Running /\ tx \in [Tx -> Running \cup {Free}]
  BY Fields DEF Emits, IInv, TypeOK
<1>2. PICK base \in Expected : Write(t, p, r, base, pc, user)
  BY DEF Emits
<1> DEFINE e == [cursor |-> next, path |-> p, version |-> r.version, live |-> r.live, base |-> base]
<1> DEFINE op == [tx[t] EXCEPT !.pc = pc, !.user = user, !.locks = @ \cup {p}, !.todo = @ \ {p},
                               !.wrote[p] = r, !.sent = @ \cup {e}]
<1>3. /\ tx' = [tx EXCEPT ![t] = op] /\ row' = row
      /\ overtaken' = overtaken \cup UNION {tx[u].sent : u \in Others(t)}
  BY <1>2 DEF Write
<1>4. /\ op.pc = pc /\ op.user = user /\ op.wrote[p] = r
      /\ \A q \in Path : q # p => op.wrote[q] = tx[t].wrote[q]
      /\ op.sent = {e}
  BY <1>1 DEF Running, Emits
<1>5. e.path = p
  OBVIOUS
<1> HIDE DEF op, e
<1> QED BY <1>1, <1>3, <1>4, <1>5

LEMMA WritersNothingDeleted ==
    ASSUME WritersOnly, IInv, NothingDeleted, UserLocks, NEW t \in Tx, Operation(t)
    PROVE  NothingDeleted'
<1>1. ASSUME NEW op \in Running \cup {Free}, Quiet(t, op) PROVE NothingDeleted'
  <2>1. tx'[t] = op /\ \A u \in Tx : u # t => tx'[u] = tx[u]
    BY <1>1 DEF Quiet, IInv, TypeOK
  <2>2. op = Free \/ (op.pc \in Before /\ \A p \in Path : op.wrote[p] = NoRow)
    BY <1>1, NoRowTypes DEF Quiet
  <2>3. row' = row
    BY <1>1 DEF Quiet
  <2> QED BY <2>1, <2>2, <2>3 DEF NothingDeleted, Before
<1>2. ASSUME NEW p \in Path, NEW r \in Row, NEW pc \in {"commit", "ensurecommit"},
             NEW user \in {"share", "update"}, Emits(t, p, r, pc, user)
      PROVE  NothingDeleted'
  <2>1. r.live /\ tx[t] # Free
    BY <1>2 DEF Emits
  <2> QED BY <1>2, <2>1, Emitted DEF NothingDeleted
<1>3. CASE Finishes(t)
  <2>1. tx[t] \in Running
    BY <1>3, Fields DEF Finishes, IInv
  <2>2. \A p \in Path : row'[p] = IF tx[t].wrote[p] # NoRow THEN tx[t].wrote[p] ELSE row[p]
    BY <1>3 DEF Finishes, Publish
  <2>3. /\ tx'[t] = Free \/ tx'[t] = Released(tx[t], "lock")
        /\ \A u \in Tx : u # t => tx'[u] = tx[u]
    BY <1>3 DEF Finishes, IInv, TypeOK
  <2>4. /\ Released(tx[t], "lock").pc = "lock"
        /\ \A p \in Path : Released(tx[t], "lock").wrote[p] = NoRow
    BY <2>1, ReleasedFields, NoRowTypes
  <2>5. tx[t] # Free
    BY <1>3 DEF Finishes
  <2> QED BY <2>2, <2>3, <2>4, <2>5 DEF NothingDeleted
<1> QED BY <1>1, <1>2, <1>3, WriterSteps

LEMMA WritersUserLocks ==
    ASSUME WritersOnly, IInv, NothingDeleted, UserLocks, NEW t \in Tx, Operation(t)
    PROVE  UserLocks'
<1>1. ASSUME NEW op \in Running \cup {Free}, Quiet(t, op) PROVE UserLocks'
  <2>1. tx'[t] = op /\ \A u \in Tx : u # t => tx'[u] = tx[u]
    BY <1>1 DEF Quiet, IInv, TypeOK
  <2>2. \/ op = Free
        \/ /\ op.sent = {} /\ (op.pc = "apply" => op.user = "update")
           /\ \/ op.user = "none"
              \/ tx[t] # Free /\ op.user = tx[t].user
              \/ op.user = "update" /\ \A u \in Tx : u # t /\ tx[u] # Free => tx[u].user = "none"
    BY <1>1 DEF Quiet, UserFree, Others
  <2> QED BY <2>1, <2>2 DEF UserLocks
<1>2. ASSUME NEW p \in Path, NEW r \in Row, NEW pc \in {"commit", "ensurecommit"},
             NEW user \in {"share", "update"}, Emits(t, p, r, pc, user)
      PROVE  UserLocks'
  <2>1. /\ tx[t] # Free
        /\ \/ pc = "commit" /\ user = "update" /\ tx[t].user = "update"
           \/ /\ pc = "ensurecommit" /\ user = "share" /\ p \in Dir
              /\ \A u \in Tx : u # t /\ tx[u] # Free => tx[u].user # "update"
    BY <1>2 DEF Emits, UserShareable, Others
  <2> QED BY <1>2, <2>1, Emitted DEF UserLocks
<1>3. CASE Finishes(t)
  <2>1. tx[t] \in Running
    BY <1>3, Fields DEF Finishes, IInv
  <2>2. /\ tx'[t] = Free \/ tx'[t] = Released(tx[t], "lock")
        /\ \A u \in Tx : u # t => tx'[u] = tx[u]
    BY <1>3 DEF Finishes, IInv, TypeOK
  <2>3. /\ Released(tx[t], "lock").pc = "lock" /\ Released(tx[t], "lock").user = "none"
        /\ Released(tx[t], "lock").sent = {}
    BY <2>1, ReleasedFields
  <2> QED BY <2>2, <2>3 DEF UserLocks
<1> QED BY <1>1, <1>2, <1>3, WriterSteps

(* A write that holds the users row finds nothing uncommitted; an insert   *)
(* of a directory finds inserts of directories only.                       *)
LEMMA WritersOvertakeDirs ==
    ASSUME WritersOnly, IInv, WInv, NEW t \in Tx, Operation(t)
    PROVE  OvertakenAreDirs'
<1>1. CASE overtaken' = overtaken
  BY <1>1 DEF WInv, OvertakenAreDirs
<1>2. ASSUME NEW p \in Path, NEW r \in Row, NEW pc \in {"commit", "ensurecommit"},
             NEW user \in {"share", "update"}, Emits(t, p, r, pc, user)
      PROVE  OvertakenAreDirs'
  <2>1. overtaken' = overtaken \cup UNION {tx[u].sent : u \in Others(t)}
    BY <1>2, Emitted
  <2>2. ASSUME NEW u \in Others(t), NEW e \in tx[u].sent PROVE e.path \in Dir
    <3>1. u \in Tx /\ u # t /\ tx[u] # Free /\ tx[t] # Free
      BY <1>2 DEF Others, Emits
    <3>2. tx[t].user = "update" \/ tx[u].user # "update"
      BY <1>2 DEF Emits, UserShareable
    <3>3. tx[u].user # "update"
      BY <3>1, <3>2 DEF WInv, UserLocks
    <3>4. ~(tx[t].user = "update")
      BY <2>2, <3>1 DEF WInv, UserLocks
    <3> QED BY <2>2, <3>1, <3>3 DEF WInv, UserLocks
  <2> QED BY <2>1, <2>2 DEF WInv, OvertakenAreDirs
<1>3. ASSUME NEW op \in Running \cup {Free}, Quiet(t, op) PROVE overtaken' = overtaken
  BY <1>3 DEF Quiet
<1>4. Finishes(t) => overtaken' = overtaken
  BY DEF Finishes
<1> QED BY <1>1, <1>2, <1>3, <1>4, WriterSteps DEF WInv

LEMMA InitWInv == Init => WInv
<1> SUFFICES ASSUME Init PROVE WInv
  OBVIOUS
<1>1. (\A t \in Tx : tx[t] = Free) /\ overtaken = {} /\ \A p \in Path : row[p] = NoRow
  BY DEF Init, NoRows
<1> QED BY <1>1 DEF WInv, NothingDeleted, UserLocks, OvertakenAreDirs

LEMMA NextWInv == WritersOnly /\ IInv /\ WInv /\ [Next]_vars => WInv'
<1> SUFFICES ASSUME WritersOnly, IInv, WInv, [Next]_vars PROVE WInv'
  OBVIOUS
<1>1. ASSUME NEW t \in Tx, Operation(t) PROVE WInv'
  BY <1>1, WritersNothingDeleted, WritersUserLocks, WritersOvertakeDirs DEF WInv
<1>2. ASSUME UNCHANGED <<row, tx, overtaken>> PROVE WInv'
  BY <1>2 DEF WInv, NothingDeleted, UserLocks, OvertakenAreDirs
<1>3. ASSUME NEW c \in Client,
             SnapshotEntries(c) \/ SnapshotCursor(c) \/ StartEmpty(c) \/ Poll(c)
      PROVE  UNCHANGED <<row, tx, overtaken>>
  BY <1>3 DEF SnapshotEntries, SnapshotCursor, StartEmpty, Poll
<1> QED BY <1>1, <1>2, <1>3 DEF Next, vars

LEMMA FilesAreNotMissed == TypeOK /\ OvertakenAreDirs /\ MissesOnlyOvertaken => FilesConverge
<1> SUFFICES ASSUME OvertakenAreDirs, MissesOnlyOvertaken, NEW c \in Client, NEW f \in File,
                    Current(c)
             PROVE  client[c].cache[f] = LiveVersion[f]
  BY DEF FilesConverge
<1>1. f \in Path /\ f \notin Dir
  BY PathAssumption DEF Path
<1>2. f \notin Missable
  BY <1>1 DEF Missable, OvertakenAreDirs
<1> QED BY <1>1, <1>2 DEF MissesOnlyOvertaken

(* As long as nothing is deleted and readers start from cursor 0, a reader *)
(* that has polled up to the latest cursor has every file, however many    *)
(* directories, writers and failures there are: only a directory inserted  *)
(* next to another one can be missed (Changes, enforceStorageQuotaTx,      *)
(* EnsureDirectoryWithMetadata).                                           *)
THEOREM WritersConverge ==
    ASSUME WritersOnly
    PROVE  Spec => []FilesConverge
<1>1. Init => WInv
  BY InitWInv
<1>2. IInv /\ WInv /\ [Next]_vars => WInv'
  BY NextWInv
<1>3. ~ColdStart
  BY DEF WritersOnly
<1>4. IInv /\ WInv /\ MissesOnlyOvertaken => FilesConverge
  BY FilesAreNotMissed DEF IInv, WInv
<1>5. Spec => []MissesOnlyOvertaken
  BY <1>3, OnlyOvertakenIsMissed
<1> QED BY <1>1, <1>2, <1>4, <1>5, Invariance, PTL DEF Spec
================================================================================
