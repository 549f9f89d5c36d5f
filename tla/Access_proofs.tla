--------------------------- MODULE Access_proofs ----------------------------
(***************************************************************************)
(* Who may do what, and who is told: proofs about Teams, TeamAssets,       *)
(* EventStream, TokenRefresh and ScopedTokens as Services names their      *)
(* variables and constants, for every value of the constants.              *)
(***************************************************************************)
EXTENDS Services, SequenceTheorems, FiniteSetTheorems, TLAPS

-----------------------------------------------------------------------------
(*                                  Teams                                  *)

\* Only one request that takes a role away is under way, and one about to
\* write has seen an owner besides the member it writes.
OneGuarded == \A g, h \in Handler : T!Guarded(g) /\ T!Guarded(h) => g = h
Counted == /\ T!Owners # {}
           /\ \A h \in Handler : call[h].at = "write" => T!Owners \ {call[h].user} # {}
TeamsInv ==
  /\ T!TypeOK
  /\ \A h \in Handler : call[h].at = "promote" => call[h].to = "owner"
  /\ ~overlapped => OneGuarded
  /\ ~overlapped /\ ~replaced => Counted

LEMMA TeamsInit == T!Init => TeamsInv
<1> SUFFICES ASSUME T!Init PROVE TeamsInv
  OBVIOUS
<1>1. \A h \in Handler : call[h].at = "idle"
  BY DEF T!Init, T!NoCall
<1>2. Founder \in T!Owners
  BY FounderAssumption DEF T!Init, T!Owners
<1>3. T!TypeOK
  BY FounderAssumption DEF T!Init, T!TypeOK, T!NoCall, T!Role
<1> QED
  BY <1>1, <1>2, <1>3 DEF TeamsInv, OneGuarded, Counted, T!Guarded

\* Cardinality, in the instance and here.
LEMMA TeamsCardinality == \A S : T!Cardinality(S) = Cardinality(S)
  BY DEF T!Cardinality, Cardinality

\* With more than one owner there is another besides anyone.
LEMMA AnotherOwner ==
  ASSUME NEW u, T!EnoughOwners PROVE T!Owners \ {u} # {}
<1> SUFFICES ASSUME T!Owners \subseteq {u} PROVE FALSE
  OBVIOUS
<1>1. T!Owners = {} \/ T!Owners = {u}
  OBVIOUS
<1>2. Cardinality(T!Owners) \in {0, 1}
  BY <1>1, FS_EmptySet, FS_Singleton
<1> QED
  BY <1>2, TeamsCardinality DEF T!EnoughOwners

\* A step of one handler that leaves the roles alone.
LEMMA CallStep ==
  ASSUME TeamsInv, NEW h \in Handler, NEW c,
         c \in [at : {"idle", "add", "promote", "role", "count", "write"},
                user : User, to : T!Role \cup {"none"}],
         call' = [call EXCEPT ![h] = c], UNCHANGED <<role, replaced>>,
         overlapped' \in BOOLEAN, overlapped => overlapped',
         c.at = "promote" => c.to = "owner",
         ~overlapped' /\ c.at \in {"role", "count", "write"} =>
           \A g \in Handler \ {h} : ~T!Guarded(g),
         ~overlapped' /\ ~replaced /\ c.at = "write" => T!Owners \ {c.user} # {}
  PROVE  TeamsInv'
<1>1. /\ T!TypeOK'
      /\ call'[h] = c /\ \A g \in Handler \ {h} : call'[g] = call[g]
      /\ T!Owners' = T!Owners
  BY DEF TeamsInv, T!TypeOK, T!Owners
<1>2. \A g \in Handler : call'[g].at = "promote" => call'[g].to = "owner"
  BY <1>1 DEF TeamsInv
<1>3. ASSUME ~overlapped' PROVE OneGuarded'
  <2>1. \A g \in Handler \ {h} : T!Guarded(g)' = T!Guarded(g)
    BY <1>1 DEF T!Guarded
  <2>2. T!Guarded(h)' => c.at \in {"role", "count", "write"}
    BY <1>1 DEF T!Guarded
  <2>3. OneGuarded
    BY <1>3 DEF TeamsInv
  <2> QED
    BY <1>3, <2>1, <2>2, <2>3 DEF OneGuarded
<1>4. ASSUME ~overlapped', ~replaced' PROVE Counted'
  <2>1. Counted
    BY <1>4 DEF TeamsInv
  <2> QED
    BY <1>1, <1>4, <2>1 DEF Counted
<1> QED
  BY <1>1, <1>2, <1>3, <1>4 DEF TeamsInv

\* A step of one handler that writes a role and answers.
LEMMA RoleStep ==
  ASSUME TeamsInv, NEW h \in Handler, call' = [call EXCEPT ![h] = T!NoCall],
         role' \in [User -> T!Role \cup {"none"}], UNCHANGED overlapped,
         replaced' \in BOOLEAN, replaced => replaced',
         ~overlapped /\ ~replaced' =>
           \/ T!Owners \subseteq T!Owners'
           \/ T!Guarded(h) /\ T!Owners' # {}
  PROVE  TeamsInv'
<1>0. T!NoCall \in [at : {"idle", "add", "promote", "role", "count", "write"},
                    user : User, to : T!Role \cup {"none"}]
      /\ T!NoCall.at = "idle"
  BY FounderAssumption DEF T!NoCall
<1>1. /\ T!TypeOK'
      /\ call'[h] = T!NoCall /\ \A g \in Handler \ {h} : call'[g] = call[g]
  BY <1>0 DEF TeamsInv, T!TypeOK
<1>2. \A g \in Handler : call'[g].at = "promote" => call'[g].to = "owner"
  BY <1>0, <1>1 DEF TeamsInv
<1>3. ASSUME ~overlapped' PROVE OneGuarded'
  BY <1>0, <1>1, <1>3 DEF TeamsInv, OneGuarded, T!Guarded
<1>4. ASSUME ~overlapped', ~replaced' PROVE Counted'
  <2>1. Counted /\ OneGuarded
    BY <1>4 DEF TeamsInv, T!TypeOK
  <2>2. CASE T!Owners \subseteq T!Owners'
    BY <1>0, <1>1, <2>1, <2>2 DEF Counted
  <2>3. CASE T!Guarded(h) /\ T!Owners' # {}
    <3>1. \A g \in Handler : call'[g].at # "write"
      BY <1>0, <1>1, <2>1, <2>3 DEF OneGuarded, T!Guarded
    <3> QED
      BY <2>3, <3>1 DEF Counted
  <2> QED
    BY <1>4, <2>2, <2>3
<1> QED
  BY <1>1, <1>2, <1>3, <1>4 DEF TeamsInv

LEMMA TeamsNext == ASSUME TeamsInv, [T!Next]_(T!vars) PROVE TeamsInv'
<1> DEFINE Calls == [at : {"idle", "add", "promote", "role", "count", "write"},
                     user : User, to : T!Role \cup {"none"}]
<1>0. /\ call \in [Handler -> Calls] /\ role \in [User -> T!Role \cup {"none"}]
      /\ overlapped \in BOOLEAN /\ replaced \in BOOLEAN
  BY DEF TeamsInv, T!TypeOK
<1>1. CASE UNCHANGED T!vars
  BY <1>1 DEF TeamsInv, T!TypeOK, OneGuarded, Counted, T!Guarded, T!Owners, T!vars
<1>2. ASSUME NEW h \in Handler, NEW u \in User,
             T!AddMember(h, u) \/ T!UpdateMemberRole(h, u) \/ T!RemoveMember(h, u)
      PROVE  TeamsInv'
  <2>1. PICK at \in {"add", "promote", "role"}, to \in T!Role \cup {"none"} :
          /\ T!Request(h, u, at, to)
          /\ at = "promote" => to = "owner"
    BY <1>2 DEF T!AddMember, T!UpdateMemberRole, T!RemoveMember, T!Role
  <2>2. PICK c \in Calls : c = [at |-> at, user |-> u, to |-> to]
    OBVIOUS
  <2>3. call' = [call EXCEPT ![h] = c] /\ UNCHANGED <<role, replaced>>
    BY <2>1, <2>2 DEF T!Request
  <2>4. overlapped' = (overlapped \/ (at = "role" /\ \E g \in Handler \ {h} : T!Guarded(g)))
    BY <2>1 DEF T!Request
  <2>5. c.at = at /\ c.to = to
    BY <2>2
  <2> QED
    BY <2>1, <2>2, <2>3, <2>4, <2>5, CallStep
<1>3. ASSUME NEW h \in Handler, T!ReadRole(h) PROVE TeamsInv'
  <2>0. PICK at \in {"count", "write"} :
          at = IF role[call[h].user] = "owner" THEN "count" ELSE "write"
    OBVIOUS
  <2>1. PICK c : /\ c = [call[h] EXCEPT !.at = at]
                 /\ call' = [call EXCEPT ![h] = c]
    <3>1. PICK c : c = [call[h] EXCEPT !.at = at]
      OBVIOUS
    <3>2. call' = [call EXCEPT ![h].at = at]
      BY <1>3, <2>0 DEF T!ReadRole, T!Goto
    <3>3. call' = [call EXCEPT ![h] = c]
      BY <3>1, <3>2
    <3> QED
      BY <3>1, <3>3
  <2>2. c \in Calls /\ c.at = at /\ c.user = call[h].user
    BY <1>0, <2>1
  <2>3. T!Guarded(h) /\ UNCHANGED <<role, replaced, overlapped>>
    BY <1>3 DEF T!ReadRole, T!Goto, T!Guarded
  <2>4. ~overlapped /\ ~replaced /\ at = "write" => T!Owners \ {c.user} # {}
    <3>1. ASSUME ~overlapped, ~replaced, at = "write" PROVE T!Owners \ {c.user} # {}
      <4>1. T!Owners # {}
        BY <3>1 DEF TeamsInv, Counted
      <4>2. c.user \notin T!Owners
        BY <2>0, <2>2, <3>1 DEF T!Owners
      <4> QED
        BY <4>1, <4>2
    <3> QED
      BY <3>1
  <2>5. ~overlapped => \A g \in Handler \ {h} : ~T!Guarded(g)
    BY <2>3 DEF TeamsInv, OneGuarded
  <2> QED
    BY <1>0, <2>1, <2>2, <2>3, <2>4, <2>5, CallStep
<1>4. ASSUME NEW h \in Handler, T!CountOwners(h) PROVE TeamsInv'
  <2>0. T!Guarded(h) /\ UNCHANGED <<role, replaced, overlapped>>
    BY <1>4 DEF T!CountOwners, T!Goto, T!Refuse, T!Guarded
  <2>1. ~overlapped => \A g \in Handler \ {h} : ~T!Guarded(g)
    BY <2>0 DEF TeamsInv, OneGuarded
  <2>2. CASE T!EnoughOwners
    <3>1. PICK c : c = [call[h] EXCEPT !.at = "write"]
      OBVIOUS
    <3>2. call' = [call EXCEPT ![h] = c]
      BY <1>4, <2>2, <3>1 DEF T!CountOwners, T!Goto
    <3>3. c \in Calls /\ c.at = "write"
      BY <1>0, <3>1
    <3>4. T!Owners \ {c.user} # {}
      BY <2>2, AnotherOwner
    <3> QED
      BY <1>0, <2>0, <2>1, <3>2, <3>3, <3>4, CallStep
  <2>3. CASE ~T!EnoughOwners
    <3>1. call' = [call EXCEPT ![h] = T!NoCall]
      BY <1>4, <2>3 DEF T!CountOwners, T!Refuse
    <3>2. T!NoCall \in Calls /\ T!NoCall.at = "idle"
      BY FounderAssumption DEF T!NoCall
    <3> QED
      BY <1>0, <2>0, <3>1, <3>2, CallStep
  <2> QED
    BY <2>2, <2>3
<1>5. ASSUME NEW h \in Handler, T!Write(h) PROVE TeamsInv'
  <2>1. /\ call[h].at \in {"promote", "write"}
        /\ role' = IF role[call[h].user] = "none" THEN role
                   ELSE [role EXCEPT ![call[h].user] = call[h].to]
        /\ call' = [call EXCEPT ![h] = T!NoCall]
        /\ UNCHANGED <<overlapped, replaced>>
    BY <1>5 DEF T!Write
  <2>2. role' \in [User -> T!Role \cup {"none"}]
    BY <1>0, <2>1
  <2>3. CASE call[h].at = "promote"
    <3>1. T!Owners \subseteq T!Owners'
      BY <1>0, <2>1, <2>3 DEF TeamsInv, T!Owners
    <3> QED
      BY <1>0, <2>1, <2>2, <3>1, RoleStep
  <2>4. CASE call[h].at = "write"
    <3>1. ASSUME ~overlapped, ~replaced PROVE T!Owners' # {}
      <4>1. PICK o \in T!Owners : o # call[h].user
        BY <2>4, <3>1 DEF TeamsInv, Counted
      <4> QED
        BY <1>0, <2>1, <4>1 DEF T!Owners
    <3>2. T!Guarded(h)
      BY <2>4 DEF T!Guarded
    <3> QED
      BY <1>0, <2>1, <2>2, <3>1, <3>2, RoleStep
  <2> QED
    BY <2>1, <2>3, <2>4
<1>6. ASSUME NEW h \in Handler, T!Upsert(h) PROVE TeamsInv'
  <2>1. /\ role' = [role EXCEPT ![call[h].user] = call[h].to]
        /\ replaced' = (replaced \/ role[call[h].user] = "owner")
        /\ call' = [call EXCEPT ![h] = T!NoCall]
        /\ UNCHANGED overlapped
    BY <1>6 DEF T!Upsert
  <2>2. role' \in [User -> T!Role \cup {"none"}]
    BY <1>0, <2>1
  <2>3. ~replaced' => T!Owners \subseteq T!Owners'
    BY <1>0, <2>1 DEF T!Owners
  <2> QED
    BY <1>0, <2>1, <2>2, <2>3, RoleStep
<1>7. CASE T!Next
  BY <1>2, <1>3, <1>4, <1>5, <1>6, <1>7 DEF T!Next
<1> QED
  BY <1>1, <1>7

LEMMA TeamsPromise == TeamsInv => OwnerRemains
  BY DEF TeamsInv, Counted, OwnerRemains, T!OwnerRemains, T!TypeOK

\* A team keeps an owner as long as no two requests that take roles away
\* overlap and no upsert replaces an owner's row.
THEOREM AnOwnerRemains == T!Spec => []OwnerRemains
  BY TeamsPromise, TeamsInit, TeamsNext, PTL DEF T!Spec

-----------------------------------------------------------------------------
(*                                TeamAssets                               *)

\* What a request has looked up when it arrived stays with it: whatever it
\* will make visible was asked for by a manager.
AssetCallOK(c) ==
  /\ c.at \in {"idle", "read", "write", "history", "append"}
  /\ c.at \in {"read", "write"} =>
       /\ c.item \in A!Item /\ c.look \in A!Look /\ c.manager \in BOOLEAN
       /\ c.look = "visible" => c.manager
  /\ c.at = "write" => c.copy \in [A!Item -> A!Look]

\* What the lists show was released, or changed in the tree itself.
GatesHold == overwritten \/ \A i \in A!Item : A!Visible(i) => i \in released \cup direct

AssetsInv ==
  /\ doc \in [A!Item -> A!Look]
  /\ released \subseteq A!Item /\ direct \subseteq A!Item
  /\ overwritten \in BOOLEAN
  /\ DOMAIN assetCall = Handler /\ \A h \in Handler : AssetCallOK(assetCall[h])
  /\ GatesHold

LEMMA AssetsInit == A!Init => AssetsInv
<1> SUFFICES ASSUME A!Init PROVE AssetsInv
  OBVIOUS
<1>1. AssetCallOK(A!NoCall)
  BY DEF AssetCallOK, A!NoCall
<1>2. doc \in [A!Item -> A!Look] /\ \A i \in A!Item : doc[i] = "none"
  BY DEF A!Init, A!Look
<1>3. /\ released \subseteq A!Item /\ direct \subseteq A!Item
      /\ \A i \in A!Item : A!Visible(i) => i \in released \cup direct
  BY <1>2 DEF A!Init, A!Visible, A!Item
<1> QED
  BY <1>1, <1>2, <1>3 DEF A!Init, AssetsInv, GatesHold

\* Steps that change only what a handler is at.
LEMMA AssetCallStep ==
  ASSUME AssetsInv, NEW h \in Handler, NEW c, AssetCallOK(c),
         assetCall' = [assetCall EXCEPT ![h] = c],
         UNCHANGED <<doc, released, overwritten, direct>>
  PROVE  AssetsInv'
<1>1. \A g \in Handler : AssetCallOK(assetCall'[g])
  BY DEF AssetsInv
<1> QED
  BY <1>1 DEF AssetsInv, GatesHold, A!Visible, AssetCallOK

LEMMA AssetArrives ==
  ASSUME AssetsInv, NEW h \in Handler, A!SaveState(h) \/ A!Resolve(h) \/ A!RequestReview(h)
  PROVE  AssetsInv'
<1>1. PICK c \in A!Call : A!Arrive(h, c) /\ (c.look = "visible" => c.manager)
  BY DEF A!SaveState, A!Resolve, A!RequestReview, A!NeedsAdmin
<1>2. AssetCallOK(c)
  BY <1>1 DEF A!Call, AssetCallOK
<1> QED
  BY <1>1, <1>2, AssetCallStep DEF A!Arrive

LEMMA AssetRead ==
  ASSUME AssetsInv, NEW h \in Handler, A!Read(h)
  PROVE  AssetsInv'
<1> DEFINE c == assetCall[h]
           next == IF c.item \in Agent /\ c.op # "save" /\ doc[c.item] = "none" THEN A!NoCall
                   ELSE [at |-> "write", item |-> c.item, look |-> c.look,
                         manager |-> c.manager, copy |-> doc]
<1>1. c.at = "read" /\ AssetCallOK(c) /\ doc \in [A!Item -> A!Look]
  BY DEF A!Read, AssetsInv
<1>2. AssetCallOK(next)
  BY <1>1 DEF AssetCallOK, A!NoCall
<1>3. assetCall' = [assetCall EXCEPT ![h] = next]
  BY DEF A!Read, A!Goto
<1>4. UNCHANGED <<doc, released, overwritten, direct>>
  BY DEF A!Read
<1> HIDE DEF next
<1> QED
  BY <1>2, <1>3, <1>4, AssetCallStep

\* A copy that loses nothing changes one item, as the same request would
\* have changed the document itself.
LEMMA AssetWrite ==
  ASSUME AssetsInv, NEW h \in Handler, A!Write(h)
  PROVE  AssetsInv'
<1> DEFINE c   == assetCall[h]
           new == A!Upsert(c, c.copy)
<1>1. /\ c.at = "write" /\ AssetCallOK(c)
      /\ c.item \in A!Item /\ c.look \in A!Look /\ c.manager \in BOOLEAN
      /\ c.look = "visible" => c.manager
      /\ c.copy \in [A!Item -> A!Look] /\ doc \in [A!Item -> A!Look]
      /\ released \subseteq A!Item /\ direct \subseteq A!Item
  BY DEF A!Write, AssetsInv, AssetCallOK
<1>2. /\ doc' = [i \in A!Item |-> IF i \in A!Written(c) THEN new[i] ELSE doc[i]]
      /\ overwritten' = (overwritten \/ \E i \in A!Written(c) : new[i] # A!Upsert(c, doc)[i])
      /\ released' = IF c.look = "none" THEN released
                     ELSE IF new[c.item] = "visible" /\ c.manager THEN released \cup {c.item}
                     ELSE released \ {c.item}
      /\ direct' = IF c.look = "none" THEN direct ELSE direct \ {c.item}
      /\ assetCall' = [assetCall EXCEPT ![h] = [at |-> "history", item |-> c.item]]
  BY DEF A!Write, A!Goto
<1>3. /\ new \in [A!Item -> A!Look] /\ A!Upsert(c, doc) \in [A!Item -> A!Look]
      /\ c.look # "none" => new[c.item] = c.look
      /\ \A i \in A!Item : A!Upsert(c, doc)[i] =
           IF i = c.item /\ c.look # "none" THEN c.look ELSE doc[i]
  BY <1>1 DEF A!Upsert
<1>4. c.item \in A!Written(c) /\ A!Written(c) \subseteq A!Item
  BY <1>1 DEF A!Written, A!Item
<1> HIDE DEF c, new
<1>5. doc' \in [A!Item -> A!Look] /\ released' \subseteq A!Item /\ direct' \subseteq A!Item
  BY <1>1, <1>2, <1>3
<1>6. overwritten' \in BOOLEAN
  BY <1>2 DEF AssetsInv
<1>7. DOMAIN assetCall' = Handler /\ \A g \in Handler : AssetCallOK(assetCall'[g])
  <2>1. AssetCallOK([at |-> "history", item |-> c.item])
    BY DEF AssetCallOK
  <2> QED
    BY <1>2, <2>1 DEF AssetsInv
<1>8. ASSUME ~overwritten', NEW i \in A!Item, A!Visible(i)'
      PROVE  i \in released' \cup direct'
  <2>1. ~overwritten /\ (i \in A!Written(c) => new[i] = A!Upsert(c, doc)[i])
    BY <1>2, <1>8 DEF AssetsInv
  <2>2. doc'[i] = IF i = c.item /\ c.look # "none" THEN c.look ELSE doc[i]
    BY <1>2, <1>3, <1>4, <2>1
  <2>3. A!Visible(i) => i \in released \cup direct
    BY <2>1 DEF AssetsInv, GatesHold
  <2>4. CASE i = c.item /\ c.look # "none"
    <3>1. c.look = "visible"
      BY <2>2, <2>4, <1>8 DEF A!Visible
    <3> QED
      BY <3>1, <2>4, <1>1, <1>2, <1>3
  <2>5. CASE i # c.item \/ c.look = "none"
    <3>1. A!Visible(i)
      BY <2>2, <2>5, <1>8 DEF A!Visible
    <3> QED
      BY <3>1, <2>3, <2>5, <1>2
  <2> QED
    BY <2>4, <2>5
<1> QED
  BY <1>5, <1>6, <1>7, <1>8 DEF AssetsInv, GatesHold

LEMMA AssetHistory ==
  ASSUME AssetsInv, NEW h \in Handler, A!ReadHistory(h) \/ A!AppendEvent(h) \/ A!Fail(h)
  PROVE  AssetsInv'
<1>1. PICK c : /\ assetCall' = [assetCall EXCEPT ![h] = c] /\ AssetCallOK(c)
               /\ UNCHANGED <<doc, released, overwritten, direct>>
  BY DEF A!ReadHistory, A!AppendEvent, A!Fail, A!Goto, A!NoCall, AssetCallOK
<1> QED
  BY <1>1, AssetCallStep

\* What is changed in the tree itself is accounted for as such.
LEMMA AssetTree ==
  ASSUME AssetsInv, A!TreeWrite \/ A!TreeWriteHistory
  PROVE  AssetsInv'
<1>1. CASE A!TreeWriteHistory
  BY <1>1 DEF A!TreeWriteHistory, AssetsInv, GatesHold, A!Visible, AssetCallOK
<1>2. CASE A!TreeWrite
  <2>1. PICK docs \in {Skill} \cup {{a} : a \in Agent} :
          \E look \in [docs -> A!Look] :
            /\ doc' = [i \in A!Item |-> IF i \in docs THEN look[i] ELSE doc[i]]
            /\ direct' = direct \cup {i \in docs : look[i] # doc[i]}
    BY <1>2 DEF A!TreeWrite
  <2>2. PICK look \in [docs -> A!Look] :
            /\ doc' = [i \in A!Item |-> IF i \in docs THEN look[i] ELSE doc[i]]
            /\ direct' = direct \cup {i \in docs : look[i] # doc[i]}
    BY <2>1
  <2>3. docs \subseteq A!Item /\ UNCHANGED <<assetCall, released, overwritten>>
    BY <2>1, <1>2 DEF A!Item, A!TreeWrite
  <2>4. doc' \in [A!Item -> A!Look] /\ direct' \subseteq A!Item
    BY <2>2, <2>3 DEF AssetsInv
  <2>5. \A i \in A!Item : doc'[i] = doc[i] \/ i \in direct'
    BY <2>2, <2>3 DEF AssetsInv
  <2>6. GatesHold'
    BY <2>2, <2>3, <2>5 DEF AssetsInv, GatesHold, A!Visible
  <2> QED
    BY <2>3, <2>4, <2>6 DEF AssetsInv, AssetCallOK
<1> QED
  BY <1>1, <1>2

LEMMA AssetsNext == AssetsInv /\ [A!Next]_(A!vars) => AssetsInv'
<1> SUFFICES ASSUME AssetsInv, [A!Next]_(A!vars) PROVE AssetsInv'
  OBVIOUS
<1>1. CASE UNCHANGED A!vars
  BY <1>1 DEF AssetsInv, GatesHold, A!Visible, A!vars, AssetCallOK
<1>2. ASSUME NEW h \in Handler,
             \/ A!SaveState(h) \/ A!Resolve(h) \/ A!RequestReview(h)
             \/ A!Read(h) \/ A!Write(h) \/ A!ReadHistory(h) \/ A!AppendEvent(h) \/ A!Fail(h)
      PROVE  AssetsInv'
  BY <1>2, AssetArrives, AssetRead, AssetWrite, AssetHistory
<1> QED
  BY <1>1, <1>2, AssetTree DEF A!Next

LEMMA AssetsPromise == AssetsInv => HiddenUntilReleased
<1> SUFFICES ASSUME AssetsInv, ~overwritten PROVE HiddenUntilReleased
  BY DEF HiddenUntilReleased, A!HiddenUntilReleased
<1>1. \A i \in A!Item : A!Visible(i) => i \in released \cup direct
  BY DEF AssetsInv, GatesHold
<1>2. \A i \in Skill : Top[i] \in A!Item
  BY TopAssumption DEF A!Item
<1> QED
  BY <1>1, <1>2 DEF HiddenUntilReleased, A!HiddenUntilReleased, A!Readable

\* Whatever requests overlap, fail or are about other items: the lists show an
\* item to the members, and the tree the skills below it, only after a
\* manager's release (or if no state was ever recorded of it), unless a copy
\* was written over a later document or the item was changed in the tree.
THEOREM Released == A!Spec => []HiddenUntilReleased
  BY AssetsInit, AssetsNext, AssetsPromise, PTL DEF A!Spec

-----------------------------------------------------------------------------
(*                               EventStream                               *)

StreamRecord ==
  [at : {"off", "replay", "subscribe", "live"}, since : Nat, base : Nat,
   chan : Seq(Nat), written : SUBSET Nat, gap : SUBSET Nat, overflow : SUBSET Nat]

Wanted(s, upto) == {e \in 1 .. upto : e > stream[s].since}

Accounted(s) == stream[s].written \cup E!Queued(s) \cup E!BeingSent \cup pruned[s]
                  \cup stream[s].gap \cup stream[s].overflow

\* A stream that has replayed has all events up to its base, a live one
\* accounts for all of them.
StreamOK(s) ==
  /\ stream[s] \in StreamRecord
  /\ stream[s].base <= last
  /\ stream[s].at = "subscribe" =>
       Wanted(s, stream[s].base) \subseteq stream[s].written \cup pruned[s]
  /\ stream[s].at = "live" => Wanted(s, last) \subseteq Accounted(s)

EventsTypeInv ==
  /\ last \in Nat /\ oldest \in Nat
  /\ sending \in [Publisher -> Nat]
  /\ DOMAIN stream = Stream /\ DOMAIN pruned = Stream

EventsInv == EventsTypeInv /\ \A s \in Stream : StreamOK(s)

LEMMA EventsInit == E!Init => EventsInv
<1> SUFFICES ASSUME E!Init PROVE EventsInv
  OBVIOUS
<1>1. EventsTypeInv
  BY DEF E!Init, EventsTypeInv
<1>2. ASSUME NEW s \in Stream PROVE StreamOK(s)
  <2>1. stream[s] = E!Off /\ last = 0
    BY DEF E!Init
  <2>2. E!Off \in StreamRecord
    BY DEF E!Off, StreamRecord
  <2> QED
    BY <2>1, <2>2 DEF StreamOK, E!Off
<1> QED
  BY <1>1, <1>2 DEF EventsInv

\* A stream nobody touched, while nothing but the events being sent changed.
LEMMA Untouched ==
  ASSUME EventsInv, NEW s \in Stream, UNCHANGED <<last, sending>>,
         stream'[s] = stream[s], pruned'[s] = pruned[s]
  PROVE  StreamOK(s)'
<1>1. E!Queued(s)' = E!Queued(s) /\ E!BeingSent' = E!BeingSent
  BY DEF E!Queued, E!BeingSent
<1>2. Accounted(s)' = Accounted(s)
  BY <1>1 DEF Accounted
<1>3. /\ Wanted(s, last)' = Wanted(s, last)
      /\ Wanted(s, stream[s].base)' = Wanted(s, stream[s].base)
  BY DEF Wanted
<1> QED
  BY <1>2, <1>3 DEF EventsInv, StreamOK

LEMMA PublishStep ==
  ASSUME EventsInv, NEW p \in Publisher, E!Publish(p)
  PROVE  EventsInv'
<1>1. /\ sending[p] = 0 /\ last' = last + 1 /\ last \in Nat /\ oldest \in Nat
      /\ oldest' \in oldest .. last' /\ sending' = [sending EXCEPT ![p] = last']
      /\ UNCHANGED <<stream, pruned>> /\ sending \in [Publisher -> Nat]
  BY DEF E!Publish, EventsInv, EventsTypeInv
<1>2. EventsTypeInv'
  BY <1>1 DEF EventsInv, EventsTypeInv
<1>3. E!BeingSent \cup {last'} \subseteq E!BeingSent'
  <2>1. \A q \in Publisher : sending[q] # 0 => sending'[q] = sending[q]
    BY <1>1
  <2>2. sending'[p] = last' /\ last' # 0
    BY <1>1
  <2> QED
    BY <2>1, <2>2 DEF E!BeingSent
<1>4. ASSUME NEW s \in Stream PROVE StreamOK(s)'
  <2>1. StreamOK(s) /\ stream'[s] = stream[s] /\ pruned'[s] = pruned[s]
    BY <1>1 DEF EventsInv
  <2>2. Accounted(s) \cup {last'} \subseteq Accounted(s)'
    BY <1>3, <2>1 DEF Accounted, E!Queued
  <2>3. Wanted(s, last)' \subseteq Wanted(s, last) \cup {last'}
    BY <1>1, <2>1 DEF Wanted
  <2>4. stream[s].at = "live" => Wanted(s, last)' \subseteq Accounted(s)'
    BY <2>1, <2>2, <2>3 DEF StreamOK
  <2>5. Wanted(s, stream[s].base)' = Wanted(s, stream[s].base)
    BY <2>1 DEF Wanted
  <2>6. stream'[s].base <= last'
    BY <1>1, <2>1 DEF StreamOK, StreamRecord
  <2> QED
    BY <1>1, <2>1, <2>4, <2>5, <2>6 DEF StreamOK
<1> QED
  BY <1>2, <1>4 DEF EventsInv

\* An event that is offered is queued, or missed by a full channel.
LEMMA Offered ==
  ASSUME NEW s \in Stream, NEW e \in Nat, stream[s] \in StreamRecord,
         stream'[s] = E!Offer(s, e)
  PROVE  /\ stream'[s] \in StreamRecord
         /\ \A f \in {"at", "since", "base", "written", "gap"} : stream'[s][f] = stream[s][f]
         /\ E!Queued(s) \cup stream[s].overflow \cup {e}
              \subseteq E!Queued(s)' \cup stream'[s].overflow
<1> DEFINE c == stream[s].chan
<1>0. c \in Seq(Nat)
  BY DEF StreamRecord
<1>1. CASE Len(c) < Capacity
  <2>1. stream'[s] = [stream[s] EXCEPT !.chan = Append(c, e)]
    BY <1>1 DEF E!Offer
  <2>2. /\ Append(c, e) \in Seq(Nat) /\ Len(Append(c, e)) = Len(c) + 1
        /\ \A i \in 1 .. Len(c) : Append(c, e)[i] = c[i]
        /\ Append(c, e)[Len(c) + 1] = e /\ Len(c) \in Nat
    BY <1>0, AppendProperties
  <2>3. stream'[s].chan = Append(c, e) /\ stream'[s].overflow = stream[s].overflow
    BY <2>1 DEF StreamRecord
  <2>4. E!Queued(s) \cup {e} \subseteq E!Queued(s)'
    BY <2>2, <2>3 DEF E!Queued
  <2> HIDE DEF c
  <2>5. stream'[s] \in StreamRecord
    <3>1. PICK x \in Seq(Nat) : x = Append(c, e)
      BY <2>2
    <3>2. [stream[s] EXCEPT !.chan = x] \in StreamRecord
      BY DEF StreamRecord
    <3> QED
      BY <2>1, <3>1, <3>2
  <2>6. \A f \in {"at", "since", "base", "written", "gap"} : stream'[s][f] = stream[s][f]
    BY <2>1 DEF StreamRecord
  <2> QED
    BY <2>3, <2>4, <2>5, <2>6
<1>2. CASE ~(Len(c) < Capacity)
  <2>1. stream'[s] = [stream[s] EXCEPT !.overflow = stream[s].overflow \cup {e}]
    BY <1>2 DEF E!Offer
  <2>2. stream'[s].overflow = stream[s].overflow \cup {e} /\ stream'[s].chan = stream[s].chan
    BY <2>1 DEF StreamRecord
  <2>3. stream'[s] \in StreamRecord
    <3>1. PICK x : x = stream[s].overflow \cup {e}
      OBVIOUS
    <3>2. x \in SUBSET Nat
      BY <3>1 DEF StreamRecord
    <3>3. [stream[s] EXCEPT !.overflow = x] \in StreamRecord
      BY <3>2 DEF StreamRecord
    <3> QED
      BY <2>1, <3>1, <3>3
  <2>4. \A f \in {"at", "since", "base", "written", "gap"} : stream'[s][f] = stream[s][f]
    BY <2>1 DEF StreamRecord
  <2> QED
    BY <2>2, <2>3, <2>4 DEF E!Queued
<1> QED
  BY <1>1, <1>2

LEMMA DeliverStep ==
  ASSUME EventsInv, NEW p \in Publisher, E!Deliver(p)
  PROVE  EventsInv'
<1>1. /\ sending[p] # 0 /\ sending[p] \in Nat
      /\ stream' = [s \in Stream |-> IF stream[s].at = "live" THEN E!Offer(s, sending[p])
                                     ELSE stream[s]]
      /\ sending' = [sending EXCEPT ![p] = 0]
      /\ UNCHANGED <<last, oldest, pruned>>
  BY DEF E!Deliver, EventsInv, EventsTypeInv
<1>2. EventsTypeInv'
  BY <1>1 DEF EventsInv, EventsTypeInv
<1>3. E!BeingSent \subseteq E!BeingSent' \cup {sending[p]}
  <2>1. \A q \in Publisher \ {p} : sending'[q] = sending[q]
    BY <1>1 DEF EventsInv, EventsTypeInv
  <2> QED
    BY <2>1 DEF E!BeingSent
<1>4. ASSUME NEW s \in Stream PROVE StreamOK(s)'
  <2>1. StreamOK(s) /\ stream[s] \in StreamRecord
    BY DEF EventsInv, StreamOK
  <2>2. CASE stream[s].at # "live"
    <3>1. stream'[s] = stream[s]
      BY <1>1, <2>2
    <3>2. Wanted(s, stream[s].base)' = Wanted(s, stream[s].base)
      BY <3>1 DEF Wanted
    <3> QED
      BY <1>1, <2>1, <2>2, <3>1, <3>2 DEF StreamOK
  <2>3. CASE stream[s].at = "live"
    <3>1. stream'[s] = E!Offer(s, sending[p])
      BY <1>1, <2>3
    <3>2. /\ stream'[s] \in StreamRecord
          /\ stream'[s].at = stream[s].at /\ stream'[s].since = stream[s].since
          /\ stream'[s].base = stream[s].base /\ stream'[s].written = stream[s].written
          /\ stream'[s].gap = stream[s].gap
          /\ E!Queued(s) \cup stream[s].overflow \cup {sending[p]}
               \subseteq E!Queued(s)' \cup stream'[s].overflow
      BY <1>1, <2>1, <3>1, Offered
    <3>3. Wanted(s, last)' = Wanted(s, last)
      BY <1>1, <3>2 DEF Wanted
    <3>4. Accounted(s) \subseteq Accounted(s)'
      BY <1>1, <1>3, <3>2 DEF Accounted
    <3>5. Wanted(s, last)' \subseteq Accounted(s)'
      BY <2>1, <2>3, <3>3, <3>4 DEF StreamOK
    <3> QED
      BY <1>1, <2>1, <2>3, <3>2, <3>5 DEF StreamOK
  <2> QED
    BY <2>2, <2>3
<1> QED
  BY <1>2, <1>4 DEF EventsInv

\* A step of one stream.
LEMMA StreamStep ==
  ASSUME EventsInv, NEW s \in Stream, UNCHANGED <<last, oldest, sending>>,
         \A q \in Stream \ {s} : stream'[q] = stream[q] /\ pruned'[q] = pruned[q],
         DOMAIN stream' = Stream, DOMAIN pruned' = Stream, StreamOK(s)'
  PROVE  EventsInv'
<1>1. EventsTypeInv'
  BY DEF EventsInv, EventsTypeInv
<1>2. \A q \in Stream \ {s} : StreamOK(q)'
  BY Untouched
<1> QED
  BY <1>1, <1>2 DEF EventsInv

LEMMA ConnectStep ==
  ASSUME EventsInv, NEW s \in Stream, E!Connect(s)
  PROVE  EventsInv'
<1>0. E!Off \in StreamRecord /\ E!Off.base = 0
  BY DEF E!Off, StreamRecord
<1>1. DOMAIN stream = Stream /\ DOMAIN pruned = Stream /\ last \in Nat
  BY DEF EventsInv, EventsTypeInv
<1>2. CASE \E since \in 0 .. last :
             stream' = [stream EXCEPT ![s] = [E!Off EXCEPT !.at = "replay", !.since = since]]
  <2>1. PICK since \in 0 .. last :
             stream' = [stream EXCEPT ![s] = [E!Off EXCEPT !.at = "replay", !.since = since]]
    BY <1>2
  <2>0. since \in Nat
    BY <1>1, <2>1
  <2> DEFINE new == [E!Off EXCEPT !.at = "replay", !.since = since]
  <2>2. new.at = "replay" /\ new.base = 0 /\ new \in StreamRecord
    BY <1>0, <2>0 DEF StreamRecord
  <2>3. stream'[s] = new /\ last' = last
    BY <1>1, <2>1 DEF E!Connect
  <2> HIDE DEF new
  <2>4. StreamOK(s)'
    BY <1>1, <2>2, <2>3 DEF StreamOK
  <2> QED
    BY <1>1, <2>1, <2>4, StreamStep DEF E!Connect
<1>3. CASE stream' = [stream EXCEPT ![s] = [E!Off EXCEPT !.at = "subscribe", !.since = last,
                                                        !.base = last]]
  <2> DEFINE new == [E!Off EXCEPT !.at = "subscribe", !.since = last, !.base = last]
  <2>0. new.at = "subscribe" /\ new.base = last /\ new.since = last /\ new \in StreamRecord
    BY <1>0, <1>1 DEF StreamRecord
  <2>1. /\ stream'[s].at = "subscribe" /\ stream'[s].base = last /\ stream'[s].since = last
        /\ stream'[s] \in StreamRecord /\ last' = last
    <3>1. stream'[s] = new /\ last' = last
      BY <1>1, <1>3 DEF E!Connect
    <3> HIDE DEF new
    <3> QED
      BY <2>0, <3>1
  <2>2. Wanted(s, stream[s].base)' = {}
    BY <1>1, <2>1 DEF Wanted
  <2>3. StreamOK(s)'
    BY <1>1, <2>1, <2>2 DEF StreamOK
  <2> QED
    BY <1>1, <1>3, <2>3, StreamStep DEF E!Connect
<1> QED
  BY <1>2, <1>3 DEF E!Connect

LEMMA ReplayStep ==
  ASSUME EventsInv, NEW s \in Stream, E!Replay(s)
  PROVE  EventsInv'
<1> DEFINE since == stream[s].since
           replayed == {e \in oldest .. last : e > since}
<1>1. /\ DOMAIN stream = Stream /\ DOMAIN pruned = Stream
      /\ last \in Nat /\ oldest \in Nat
      /\ stream[s] \in StreamRecord /\ since \in Nat
  BY DEF EventsInv, EventsTypeInv, StreamOK, StreamRecord
<1>2. /\ stream' = [stream EXCEPT ![s] = [stream[s] EXCEPT !.at = "subscribe",
                                            !.base = last, !.written = replayed]]
      /\ pruned' = [pruned EXCEPT ![s] = {e \in 1 .. oldest - 1 : e > since}]
      /\ UNCHANGED <<last, oldest, sending>>
  BY DEF E!Replay
<1>3. replayed \subseteq Nat
  BY <1>1
<1> HIDE DEF replayed
<1>4. /\ stream'[s] \in StreamRecord /\ stream'[s].at = "subscribe"
      /\ stream'[s].base = last /\ stream'[s].since = since /\ stream'[s].written = replayed
  BY <1>1, <1>2, <1>3 DEF StreamRecord
<1>5. Wanted(s, stream[s].base)' \subseteq replayed \cup pruned'[s]
  BY <1>1, <1>2, <1>4 DEF Wanted, replayed
<1>6. StreamOK(s)'
  BY <1>1, <1>2, <1>4, <1>5 DEF StreamOK
<1> QED
  BY <1>1, <1>2, <1>6, StreamStep

LEMMA SubscribeStep ==
  ASSUME EventsInv, NEW s \in Stream, E!Subscribe(s)
  PROVE  EventsInv'
<1> DEFINE missed == {e \in 1 .. last : e > stream[s].base} \ E!BeingSent
<1>1. /\ DOMAIN stream = Stream /\ DOMAIN pruned = Stream /\ last \in Nat
      /\ stream[s] \in StreamRecord /\ stream[s].since \in Nat /\ stream[s].base \in Nat
      /\ StreamOK(s)
  BY DEF EventsInv, EventsTypeInv, StreamOK, StreamRecord
<1>2. /\ stream[s].at = "subscribe"
      /\ stream' = [stream EXCEPT ![s] = [stream[s] EXCEPT !.at = "live", !.gap = missed]]
      /\ UNCHANGED <<last, oldest, sending, pruned>>
  BY DEF E!Subscribe
<1>3. missed \subseteq Nat
  BY <1>1
<1>4. Wanted(s, last) \subseteq stream[s].written \cup pruned[s] \cup missed \cup E!BeingSent
  BY <1>1, <1>2 DEF StreamOK, Wanted
<1> HIDE DEF missed
<1>5. /\ stream'[s] \in StreamRecord /\ stream'[s].at = "live" /\ stream'[s].gap = missed
      /\ stream'[s].base = stream[s].base /\ stream'[s].since = stream[s].since
      /\ stream'[s].written = stream[s].written
  BY <1>1, <1>2, <1>3 DEF StreamRecord
<1>6. Wanted(s, last)' = Wanted(s, last) /\ E!BeingSent' = E!BeingSent
  BY <1>2, <1>5 DEF Wanted, E!BeingSent
<1>7. Wanted(s, last)' \subseteq Accounted(s)'
  BY <1>2, <1>4, <1>5, <1>6 DEF Accounted
<1>8. StreamOK(s)'
  BY <1>1, <1>2, <1>5, <1>7 DEF StreamOK
<1> QED
  BY <1>1, <1>2, <1>8, StreamStep

LEMMA StreamWrites ==
  ASSUME EventsInv, NEW s \in Stream, E!WriteEvent(s)
  PROVE  EventsInv'
<1> DEFINE c == stream[s].chan
<1>1. /\ DOMAIN stream = Stream /\ DOMAIN pruned = Stream /\ last \in Nat
      /\ stream[s] \in StreamRecord /\ c \in Seq(Nat) /\ StreamOK(s)
  BY DEF EventsInv, EventsTypeInv, StreamOK, StreamRecord
<1>2. /\ stream[s].at = "live" /\ c # <<>>
      /\ stream' = [stream EXCEPT ![s] = [stream[s] EXCEPT
                      !.written = stream[s].written \cup {Head(c)}, !.chan = Tail(c)]]
      /\ UNCHANGED <<last, oldest, sending, pruned>>
  BY DEF E!WriteEvent
<1>3. /\ Head(c) \in Nat /\ Tail(c) \in Seq(Nat) /\ Len(c) \in Nat
      /\ Len(Tail(c)) = Len(c) - 1 /\ Head(c) = c[1]
      /\ \A i \in 1 .. Len(Tail(c)) : Tail(c)[i] = c[i + 1]
  BY <1>1, <1>2, HeadTailProperties
<1>4. \A i \in 1 .. Len(c) : i = 1 \/ i - 1 \in 1 .. Len(Tail(c))
  BY <1>3
<1>5. {c[i] : i \in 1 .. Len(c)} \subseteq
        {Head(c)} \cup {Tail(c)[i] : i \in 1 .. Len(Tail(c))}
  <2> SUFFICES ASSUME NEW i \in 1 .. Len(c)
               PROVE  c[i] = Head(c) \/ \E j \in 1 .. Len(Tail(c)) : c[i] = Tail(c)[j]
    OBVIOUS
  <2>1. CASE i = 1
    BY <1>3, <2>1
  <2>2. CASE i # 1
    <3>1. i - 1 \in 1 .. Len(Tail(c)) /\ (i - 1) + 1 = i
      BY <1>4, <2>2
    <3> QED
      BY <1>3, <3>1
  <2> QED
    BY <2>1, <2>2
<1> HIDE DEF c
<1>6. /\ stream'[s] \in StreamRecord /\ stream'[s].at = "live"
      /\ stream'[s].since = stream[s].since /\ stream'[s].base = stream[s].base
      /\ stream'[s].written = stream[s].written \cup {Head(c)} /\ stream'[s].chan = Tail(c)
      /\ stream'[s].gap = stream[s].gap /\ stream'[s].overflow = stream[s].overflow
  BY <1>1, <1>2, <1>3 DEF StreamRecord
<1>7. E!Queued(s) \subseteq {Head(c)} \cup E!Queued(s)'
  BY <1>5, <1>6 DEF E!Queued, c
<1>8. Accounted(s) \subseteq Accounted(s)'
  BY <1>2, <1>6, <1>7 DEF Accounted, E!BeingSent
<1>9. Wanted(s, last)' = Wanted(s, last)
  BY <1>2, <1>6 DEF Wanted
<1>10. StreamOK(s)'
  BY <1>1, <1>2, <1>6, <1>8, <1>9 DEF StreamOK
<1> QED
  BY <1>1, <1>2, <1>10, StreamStep

LEMMA DisconnectStep ==
  ASSUME EventsInv, NEW s \in Stream, E!Disconnect(s)
  PROVE  EventsInv'
<1>1. DOMAIN stream = Stream /\ DOMAIN pruned = Stream /\ last \in Nat
  BY DEF EventsInv, EventsTypeInv
<1>2. E!Off \in StreamRecord /\ E!Off.at = "off" /\ E!Off.base = 0
  BY DEF E!Off, StreamRecord
<1>3. stream'[s] = E!Off /\ last' = last
  BY <1>1 DEF E!Disconnect
<1>4. StreamOK(s)'
  BY <1>1, <1>2, <1>3 DEF StreamOK
<1> QED
  BY <1>1, <1>4, StreamStep DEF E!Disconnect

LEMMA EventsNext == EventsInv /\ [E!Next]_(E!vars) => EventsInv'
<1> SUFFICES ASSUME EventsInv, [E!Next]_(E!vars) PROVE EventsInv'
  OBVIOUS
<1>1. CASE UNCHANGED E!vars
  <2>1. \A s \in Stream : StreamOK(s)'
    BY <1>1, Untouched DEF E!vars
  <2> QED
    BY <1>1, <2>1 DEF EventsInv, EventsTypeInv, E!vars
<1>2. CASE E!Next
  BY <1>2, PublishStep, DeliverStep, ConnectStep, ReplayStep, SubscribeStep, StreamWrites,
     DisconnectStep DEF E!Next
<1> QED
  BY <1>1, <1>2

LEMMA EventsPromise == EventsInv => OnlyGapLoses
  BY DEF EventsInv, StreamOK, Wanted, Accounted, OnlyGapLoses, E!OnlyGapLoses

\* A live stream accounts for every event after the moment its client named:
\* it has it, will be offered it, or lost it in one of three ways.
THEOREM NothingElseLost == E!Spec => []OnlyGapLoses
  BY EventsInit, EventsNext, EventsPromise, PTL DEF E!Spec

-----------------------------------------------------------------------------
(*                               TokenRefresh                              *)

Holds(g) == proc[g].at \notin {"idle", "lock"}

\* Tokens are numbers up to the last one issued.
Known(pair) == pair.access \in 0 .. issued

NumbersOK ==
  /\ issued \in Nat
  /\ live \subseteq 0 .. issued
  /\ Known(disk)
  /\ \A c \in Command : \A pair \in command[c] : Known(pair)
  /\ \A g \in R!Goroutine : proc[g].at = "save" => Known(proc[g].pair)

LockOK ==
  /\ DOMAIN proc = R!Goroutine /\ DOMAIN command = Command
  /\ \A g \in R!Goroutine : lock = {g} <=> Holds(g)

\* A token that was refused stays expired.
RefusedOK == \A g \in R!Goroutine :
  proc[g].at = "lock" => proc[g].token \in 0 .. issued \ live

\* What the holder of the lock has in hand, and what is on disk otherwise.
SessionOK == ~lost =>
  /\ lock = {} => disk.refresh \in sessions
  /\ \A g \in R!Goroutine :
       /\ proc[g].at \in {"select", "delete"} =>
            /\ proc[g].pair = disk
            /\ disk.refresh \in sessions /\ disk.access \notin live
       /\ proc[g].at = "save" => proc[g].pair.refresh \in sessions

SessionsInv == lost \in BOOLEAN /\ NumbersOK /\ LockOK /\ RefusedOK /\ SessionOK

LEMMA SessionsInit == R!Init => SessionsInv
<1> SUFFICES ASSUME R!Init PROVE SessionsInv
  OBVIOUS
<1>1. DOMAIN proc = R!Goroutine /\ \A g \in R!Goroutine : proc[g].at = "idle"
  BY DEF R!Init, R!NoProc
<1>2. NumbersOK
  BY <1>1 DEF R!Init, NumbersOK, Known, R!First
<1>3. LockOK
  BY <1>1 DEF R!Init, LockOK, Holds
<1>4. RefusedOK /\ SessionOK
  BY <1>1 DEF R!Init, RefusedOK, SessionOK, R!First
<1> QED
  BY <1>2, <1>3, <1>4 DEF R!Init, SessionsInv

\* Holders of the lock are alone.
LEMMA OneHolder ==
  ASSUME LockOK, NEW g \in R!Goroutine, Holds(g)
  PROVE  lock = {g} /\ \A f \in R!Goroutine \ {g} : ~Holds(f)
  BY DEF LockOK

LEMMA WaitStep ==
  ASSUME SessionsInv, NEW g \in R!Goroutine, R!Refused(g) \/ R!LoadConfig(g)
  PROVE  SessionsInv'
<1> USE DEF SessionsInv, NumbersOK, LockOK, RefusedOK, SessionOK, Holds, Known, R!Goto, R!NoProc
<1>1. CASE R!Refused(g)
  <2> DEFINE held == IF g \in Syncer THEN disk.access ELSE R!First.access
  <2>1. held \in 0 .. issued \ live
    BY <1>1 DEF R!Refused, R!First
  <2>2. /\ proc[g].at = "idle" /\ proc' = [proc EXCEPT ![g] = [at |-> "lock", token |-> held]]
        /\ UNCHANGED <<live, sessions, issued, disk, lock, command, sessionUpsets, lost>>
    BY <1>1 DEF R!Refused
  <2> HIDE DEF held
  <2> QED
    BY <2>1, <2>2
<1>2. CASE R!LoadConfig(g) /\ R!StillCurrent(proc[g].token)
  <2>1. /\ proc[g].at = "lock" /\ lock = {} /\ lock' = {g}
        /\ proc' = [proc EXCEPT ![g] = [at |-> "select", pair |-> disk]]
        /\ UNCHANGED <<live, sessions, issued, disk, command, sessionUpsets, lost>>
    BY <1>2 DEF R!LoadConfig
  <2>2. disk.access \notin live
    BY <1>2, <2>1 DEF R!StillCurrent
  <2> QED
    BY <2>1, <2>2
<1>3. CASE R!LoadConfig(g) /\ ~R!StillCurrent(proc[g].token)
  <2>1. /\ proc[g].at = "lock" /\ proc' = [proc EXCEPT ![g] = R!NoProc]
        /\ UNCHANGED <<live, sessions, issued, disk, lock, command, sessionUpsets, lost>>
    BY <1>3 DEF R!LoadConfig
  <2> QED
    BY <2>1
<1> QED
  BY <1>1, <1>2, <1>3

LEMMA HubStep ==
  ASSUME SessionsInv, NEW g \in R!Goroutine, R!SelectSession(g) \/ R!DeleteSession(g) \/ R!InsertSession(g)
  PROVE  SessionsInv'
<1>0. Holds(g) /\ lock = {g} /\ \A f \in R!Goroutine \ {g} : ~Holds(f)
  BY OneHolder DEF SessionsInv, Holds, R!SelectSession, R!DeleteSession, R!InsertSession
<1> USE DEF SessionsInv, NumbersOK, LockOK, RefusedOK, SessionOK, Holds, Known, R!Goto, R!NoProc
<1>1. CASE R!SelectSession(g)
  BY <1>0, <1>1 DEF R!SelectSession
<1>2. CASE R!DeleteSession(g)
  BY <1>0, <1>2 DEF R!DeleteSession
<1>3. CASE R!InsertSession(g)
  <2>1. /\ issued' = issued + 1 /\ sessions' = sessions \cup {issued'}
        /\ live' = live \cup {issued'}
        /\ proc' = [proc EXCEPT ![g] = [at |-> "save",
                      pair |-> [access |-> issued', refresh |-> issued']]]
        /\ UNCHANGED <<disk, lock, command, sessionUpsets, lost>>
    BY <1>3 DEF R!InsertSession
  <2>2. NumbersOK'
    <3>1. issued \in Nat /\ issued' \in Nat /\ 0 .. issued \subseteq 0 .. issued'
      BY <2>1
    <3>2. live' \subseteq 0 .. issued' /\ disk'.access \in 0 .. issued'
      BY <2>1, <3>1
    <3>3. \A c \in Command : \A pair \in command'[c] : pair.access \in 0 .. issued'
      BY <2>1, <3>1
    <3>4. \A f \in R!Goroutine : proc'[f].at = "save" => proc'[f].pair.access \in 0 .. issued'
      BY <2>1, <3>1
    <3> QED
      BY <3>1, <3>2, <3>3, <3>4
  <2>3. LockOK'
    BY <1>0, <2>1, <1>3 DEF R!InsertSession
  <2>4. RefusedOK'
    BY <1>0, <2>1
  <2>5. SessionOK'
    BY <1>0, <2>1
  <2> QED
    BY <2>1, <2>2, <2>3, <2>4, <2>5
<1> QED
  BY <1>1, <1>2, <1>3

LEMMA EndStep ==
  ASSUME SessionsInv, NEW g \in R!Goroutine, R!SaveConfig(g) \/ R!GiveUp(g)
  PROVE  SessionsInv'
<1>0. Holds(g) /\ lock = {g} /\ \A f \in R!Goroutine \ {g} : ~Holds(f)
  BY OneHolder DEF SessionsInv, Holds, R!SaveConfig, R!GiveUp
<1> USE DEF SessionsInv, NumbersOK, LockOK, RefusedOK, SessionOK, Holds, Known, R!Goto, R!NoProc
<1>1. CASE R!SaveConfig(g)
  BY <1>0, <1>1 DEF R!SaveConfig
<1>2. CASE R!GiveUp(g)
  BY <1>0, <1>2 DEF R!GiveUp
<1> QED
  BY <1>1, <1>2

LEMMA CommandStep ==
  ASSUME SessionsInv, NEW c \in Command, R!CommandLoads(c) \/ R!CommandSaves(c)
  PROVE  SessionsInv'
<1> USE DEF SessionsInv, NumbersOK, LockOK, RefusedOK, SessionOK, Holds, Known
<1>1. CASE R!CommandLoads(c)
  BY <1>1 DEF R!CommandLoads
<1>2. CASE R!CommandSaves(c)
  BY <1>2 DEF R!CommandSaves
<1> QED
  BY <1>1, <1>2

LEMMA TimeStep ==
  ASSUME SessionsInv, NEW n, R!EndSession(n) \/ R!Expire(n)
  PROVE  SessionsInv'
<1> USE DEF SessionsInv, NumbersOK, LockOK, RefusedOK, SessionOK, Holds, Known
<1>1. CASE R!EndSession(n)
  BY <1>1 DEF R!EndSession
<1>2. CASE R!Expire(n)
  BY <1>2 DEF R!Expire
<1> QED
  BY <1>1, <1>2

LEMMA SessionsNext == SessionsInv /\ [R!Next]_(R!vars) => SessionsInv'
<1> SUFFICES ASSUME SessionsInv, [R!Next]_(R!vars) PROVE SessionsInv'
  OBVIOUS
<1>1. CASE UNCHANGED R!vars
  BY <1>1 DEF SessionsInv, NumbersOK, LockOK, RefusedOK, SessionOK, Holds, Known, R!vars
<1>2. CASE R!Next
  BY <1>2, WaitStep, HubStep, EndStep, CommandStep, TimeStep DEF R!Next
<1> QED
  BY <1>1, <1>2

LEMMA SessionsPromise == SessionsInv => RefreshOnlyWhenDue
  BY DEF SessionsInv, SessionOK, RefreshOnlyWhenDue, R!RefreshOnlyWhenDue

\* Whatever goroutines find the token expired, a refresh is asked for only
\* with a refresh token the hub knows, and when the access token on disk has
\* expired; unless an answer, a save or the session itself was lost.
THEOREM OneRefresh == R!Spec => []RefreshOnlyWhenDue
  BY SessionsInit, SessionsNext, SessionsPromise, PTL DEF R!Spec

-----------------------------------------------------------------------------
(*                               ScopedTokens                              *)

\* Requests that have read a row from before a time, those that have read one
\* from after it with uses left, and those that have read the clock before it.
StaleIn(s, b) == {r \in TokenUser : \E t \in s[r] : t.reset_at < b}
FreshIn(s, b) == {r \in TokenUser :
  \E t \in s[r] : t.reset_at >= b /\ t.request_count < HourlyLimit}
EarlyIn(m, b) == {r \in TokenUser : \E time \in m[r] : time < b}
AtMostOne(S) == S = {} \/ \E t \in K!Row : S = {t}
Users == Cardinality(TokenUser)

\* Twice the uses that are left: those of the row and the fresh requests, and
\* for each stale request those of the hour it may begin over again.
Ahead(c, k, f) == IF c < HourlyLimit THEN HourlyLimit - c + (Users - k - 1) ELSE f
Waits(k) == 2 * (k * (HourlyLimit + Users - 1)) - k * (k - 1)
Within(u, c, k, f, w) == 2 * u + 2 * Ahead(c, k, f) + Waits(k) <= w

\* A request is stale when its row is from before the hour, or, once a late
\* UPDATE has put reset_at back before the hour, from before that.  All that is
\* left in such an hour will be spent when the next UPDATE sets the time anew.
Base(a, b) == IF a < b THEN a ELSE b
Rounds(a, b, l) == IF a < b THEN l ELSE l + 1

TokensInv ==
  /\ now \in Nat /\ start \in Nat /\ uses \in Nat /\ late \in Nat /\ start <= now
  /\ AtMostOne(token)
  /\ seen \in [TokenUser -> SUBSET K!Row] /\ \A r \in TokenUser : AtMostOne(seen[r])
  /\ moment \in [TokenUser -> SUBSET (0 .. now)]
  /\ token = {} => /\ uses = 0 /\ late = 0
                   /\ \A r \in TokenUser : seen[r] = {} /\ moment[r] = {}
  /\ TokenUser = {} => uses = 0 /\ late = 0
  /\ TokenUser # {} => late + Cardinality(EarlyIn(moment, start)) <= Users - 1
  /\ \A r \in TokenUser : \A t \in seen[r] : t.reset_at <= start + Hour
  /\ \A t \in token :
       /\ t.reset_at <= start + Hour
       /\ t.reset_at < start => late >= 1
       /\ TokenUser # {} =>
            Within(uses, t.request_count,
                   Cardinality(StaleIn(seen, Base(t.reset_at, start))),
                   Cardinality(FreshIn(seen, Base(t.reset_at, start))),
                   Rounds(t.reset_at, start, late) * Waits(Users))

LEMMA TokensCardinality == \A S : K!Cardinality(S) = Cardinality(S)
  BY DEF K!Cardinality, Cardinality

LEMMA UsersType == Users \in Nat /\ HourlyLimit \in Nat /\ HourlyLimit >= 1
                   /\ (TokenUser # {} => Users >= 1)
<1>1. IsFiniteSet(TokenUser) /\ Users \in Nat /\ (TokenUser # {} => Users # 0)
  BY TokenAssumption, FS_CardinalityType, FS_EmptySet DEF Users
<1> QED
  BY <1>1, TokenAssumption

LEMMA WaitsLess ==
  ASSUME NEW k \in Nat, 1 <= k
  PROVE  Waits(k) = Waits(k - 1) + 2 * (HourlyLimit + Users - k)
<1>1. PICK m \in Int : m = HourlyLimit + Users - 1
  BY UsersType
<1>2. /\ Waits(k) = 2 * (k * m) - k * (k - 1)
      /\ Waits(k - 1) = 2 * ((k - 1) * m) - (k - 1) * (k - 2)
  BY <1>1 DEF Waits
<1>3. (k - 1) * m = k * m - m
  BY <1>1
<1>4. k * (k - 1) = (k - 1) * (k - 2) + 2 * (k - 1)
  OBVIOUS
<1> QED
  BY <1>1, <1>2, <1>3, <1>4, UsersType

LEMMA WaitsUp ==
  ASSUME NEW k \in Nat, k <= Users
  PROVE  Waits(k) \in Int /\ 0 <= Waits(k) /\ Waits(k) <= Waits(Users)
<1>0. PICK l \in Nat, n \in Nat : l = HourlyLimit /\ n = Users /\ 1 <= l /\ k <= n
  BY UsersType
<1>1. Waits(k) = k * (2 * l + 2 * n - 1 - k)
  BY <1>0 DEF Waits
<1>2. Waits(n) - Waits(k) = (n - k) * (2 * l + n - k - 1)
  BY <1>0 DEF Waits
<1>3. k * (2 * l + 2 * n - 1 - k) >= 0
  BY <1>0
<1>4. (n - k) * (2 * l + n - k - 1) >= 0
  BY <1>0
<1> QED
  BY <1>0, <1>1, <1>2, <1>3, <1>4 DEF Waits

LEMMA WaitsMore ==
  ASSUME NEW k \in Nat, NEW i \in Nat, i <= k, k <= Users
  PROVE  Waits(i) <= Waits(k)
<1>0. PICK l \in Nat, n \in Nat : l = HourlyLimit /\ n = Users /\ 1 <= l /\ k <= n
  BY UsersType
<1>1. Waits(k) - Waits(i) = (k - i) * (2 * l + 2 * n - 1 - k - i)
  BY <1>0 DEF Waits
<1>2. (k - i) * (2 * l + 2 * n - 1 - k - i) >= 0
  BY <1>0
<1>3. Waits(k) \in Int /\ Waits(i) \in Int
  BY WaitsUp, UsersType
<1> QED
  BY <1>1, <1>2, <1>3

\* A request that read a row of the counted hour is let in.
LEMMA WithinFresh ==
  ASSUME NEW u \in Nat, NEW c \in Nat, NEW k \in Nat, NEW f \in Nat, NEW w \in Int, f >= 1,
         k + (f - 1) <= Users - 1, Within(u, c, k, f, w)
  PROVE  Within(u + 1, c + 1, k, f - 1, w)
<1>1. k <= Users
  BY UsersType
<1>2. Waits(k) \in Int
  BY <1>1, WaitsUp, UsersType
<1> QED
  BY <1>1, <1>2, UsersType DEF Within, Ahead

\* A stale one is let in on top of the count.
LEMMA WithinStale ==
  ASSUME NEW u \in Nat, NEW c \in Nat, NEW k \in Nat, NEW f \in Nat, NEW w \in Int, k >= 1,
         (k - 1) + f <= Users - 1, Within(u, c, k, f, w)
  PROVE  Within(u + 1, c + 1, k - 1, f, w)
<1>1. k <= Users
  BY UsersType
<1>2. /\ Waits(k) \in Int /\ Waits(k - 1) \in Int
      /\ Waits(k) = Waits(k - 1) + 2 * (HourlyLimit + Users - k)
  BY <1>1, WaitsUp, WaitsLess, UsersType
<1> QED
  BY <1>1, <1>2, UsersType DEF Within, Ahead

\* One begins the count anew.
LEMMA WithinBegun ==
  ASSUME NEW u \in Nat, NEW k \in Nat, NEW f \in Nat, NEW w \in Int, k + f <= Users - 1,
         2 * u + Waits(k + 1) <= w
  PROVE  Within(u + 1, 1, k, f, w)
<1>1. k + 1 \in Nat /\ k + 1 <= Users /\ k <= Users
  BY UsersType
<1>2. /\ Waits(k) \in Int /\ Waits(k + 1) \in Int
      /\ Waits(k + 1) = Waits(k) + 2 * (HourlyLimit + Users - (k + 1))
  <2>1. (k + 1) - 1 = k
    OBVIOUS
  <2> QED
    BY <1>1, <2>1, WaitsUp, WaitsLess, UsersType
<1>3. Ahead(1, k, f) \in Int /\ Ahead(1, k, f) <= HourlyLimit + Users - k - 2
  BY <1>1, UsersType DEF Ahead
<1> QED
  BY <1>1, <1>2, <1>3, UsersType DEF Within

\* One gives up, or finds the hour's uses spent.
LEMMA WithinFreed ==
  ASSUME NEW u \in Nat, NEW c \in Nat, NEW k \in Nat, NEW f \in Nat, NEW w \in Int,
         k + f <= Users, Within(u, c, k, f, w)
  PROVE  /\ k >= 1 => Within(u, c, k - 1, f, w)
         /\ f >= 1 => Within(u, c, k, f - 1, w)
<1>1. Waits(k) \in Int
  BY WaitsUp, UsersType
<1>2. ASSUME k >= 1 PROVE Within(u, c, k - 1, f, w)
  <2>1. Waits(k - 1) \in Int /\ Waits(k) = Waits(k - 1) + 2 * (HourlyLimit + Users - k)
    BY <1>2, WaitsUp, WaitsLess, UsersType
  <2> QED
    BY <1>1, <1>2, <2>1, UsersType DEF Within, Ahead
<1> QED
  BY <1>1, <1>2, UsersType DEF Within, Ahead

\* One reads the row.
LEMMA WithinRead ==
  ASSUME NEW u \in Nat, NEW c \in Nat, NEW k \in Nat, NEW f \in Nat, NEW w \in Int,
         k + f <= Users, NEW g \in Nat, c >= HourlyLimit => g = f, Within(u, c, k, f, w)
  PROVE  Within(u, c, k, g, w)
  BY UsersType DEF Within, Ahead

\* The token is created.
LEMMA WithinNew ==
  ASSUME 1 <= Users PROVE Within(0, 0, 0, 0, Waits(Users))
<1>1. /\ Waits(0) \in Int /\ Waits(1) \in Int /\ Waits(Users) \in Int
      /\ Waits(1) = Waits(0) + 2 * (HourlyLimit + Users - 1)
      /\ Waits(1) <= Waits(Users)
  <2>1. 1 - 1 = 0
    OBVIOUS
  <2> QED
    BY <2>1, WaitsUp, WaitsLess, UsersType
<1> QED
  BY <1>1, UsersType DEF Within, Ahead

\* Of two numbers that follow each other one is even.
LEMMA EvenProduct ==
  ASSUME NEW n \in Nat PROVE n * (n - 1) = 2 * ((n * (n - 1)) \div 2)
<1>1. PICK a \in Nat : n = 2 * a \/ n = 2 * a + 1
  <2>1. n \div 2 \in Nat /\ (n = 2 * (n \div 2) \/ n = 2 * (n \div 2) + 1)
    OBVIOUS
  <2> QED
    BY <2>1
<1>2. PICK x \in Int : n * (n - 1) = 2 * x
  <2>1. CASE n = 2 * a
    <3>1. PICK x \in Int : x = a * (2 * a - 1)
      OBVIOUS
    <3>2. n * (n - 1) = 2 * (a * (2 * a - 1))
      BY <2>1
    <3> QED
      BY <3>1, <3>2
  <2>2. CASE n = 2 * a + 1
    <3>1. PICK x \in Int : x = a * (2 * a + 1)
      OBVIOUS
    <3>2. n * (n - 1) = 2 * (a * (2 * a + 1))
      BY <2>2
    <3> QED
      BY <3>1, <3>2
  <2> QED
    BY <1>1, <2>1, <2>2
<1> QED
  BY <1>2

\* What is within keeps the promise.
LEMMA WithinHour ==
  ASSUME NEW u \in Nat, NEW c \in Nat, NEW k \in Nat, NEW f \in Nat, NEW l \in Nat,
         NEW m \in {l, l + 1}, k + f <= Users, Within(u, c, k, f, m * Waits(Users))
  PROVE  u <= (l + 1) * (Users * HourlyLimit + (Users * (Users - 1)) \div 2)
<1>1. Waits(k) \in Int /\ 0 <= Waits(k) /\ Waits(Users) \in Int /\ 0 <= Waits(Users)
  BY WaitsUp, UsersType
<1>2. 0 <= Ahead(c, k, f) /\ Ahead(c, k, f) \in Int
  BY UsersType DEF Ahead
<1>3. PICK x \in Int, y \in Int : x = Users * HourlyLimit /\ y = (Users * (Users - 1)) \div 2
  BY UsersType
<1>4. Waits(Users) = 2 * (x + y)
  <2>1. PICK h \in Nat, n \in Nat : h = HourlyLimit /\ n = Users
    BY UsersType
  <2>2. 2 * (n * (h + n - 1)) - n * (n - 1) = 2 * (n * h) + n * (n - 1)
    BY <2>1
  <2>3. n * (n - 1) = 2 * y
    BY <1>3, <2>1, EvenProduct
  <2> QED
    BY <1>3, <2>1, <2>2, <2>3 DEF Waits
<1>5. PICK g \in Int : g = x + y
  OBVIOUS
<1>6. m * Waits(Users) <= 2 * ((l + 1) * g)
  <2>1. 0 <= g /\ Waits(Users) = 2 * g
    BY <1>1, <1>4, <1>5
  <2>2. l * (2 * g) = 2 * (l * g) /\ (l + 1) * (2 * g) = 2 * ((l + 1) * g)
        /\ (l + 1) * g = l * g + g
    BY <1>5
  <2> QED
    BY <1>5, <2>1, <2>2
<1>7. PICK p \in Int, q \in Int : p = (l + 1) * g /\ q = m * Waits(Users)
  BY <1>1, <1>5
<1>8. 2 * u <= 2 * p
  BY <1>1, <1>2, <1>6, <1>7 DEF Within
<1>9. u <= p
  BY <1>8
<1> QED
  BY <1>3, <1>5, <1>7, <1>9

\* The two kinds of requests are some of the busy ones.
LEMMA BusyUsers ==
  ASSUME NEW s \in [TokenUser -> SUBSET K!Row], \A r \in TokenUser : AtMostOne(s[r]),
         NEW b \in Nat
  PROVE  /\ Cardinality(StaleIn(s, b)) \in Nat /\ Cardinality(FreshIn(s, b)) \in Nat
         /\ IsFiniteSet(StaleIn(s, b)) /\ IsFiniteSet(FreshIn(s, b))
         /\ Cardinality(StaleIn(s, b)) + Cardinality(FreshIn(s, b)) <= Users
         /\ \A r \in TokenUser : s[r] = {} =>
              Cardinality(StaleIn(s, b)) + Cardinality(FreshIn(s, b)) <= Users - 1
<1> DEFINE olds == StaleIn(s, b)
           news == FreshIn(s, b)
<1>1. olds \subseteq TokenUser /\ news \subseteq TokenUser
  BY DEF StaleIn, FreshIn
<1>2. olds \cap news = {}
  <2>1. ASSUME NEW r \in olds, r \in news PROVE FALSE
    <3>1. PICK t \in s[r] : t.reset_at < b
      BY <2>1 DEF StaleIn
    <3>2. PICK y \in s[r] : y.reset_at >= b
      BY <2>1 DEF FreshIn
    <3>3. t = y /\ t \in K!Row
      BY <1>1 DEF AtMostOne
    <3> QED
      BY <3>1, <3>2, <3>3 DEF K!Row
  <2> QED
    BY <2>1
<1>3. IsFiniteSet(olds) /\ IsFiniteSet(news) /\ IsFiniteSet(TokenUser)
  BY <1>1, TokenAssumption, FS_Subset
<1>4. Cardinality(olds) \in Nat /\ Cardinality(news) \in Nat /\ Users \in Nat
  BY <1>3, FS_CardinalityType DEF Users
<1>5. IsFiniteSet(olds \cup news) /\ Cardinality(olds \cup news) = Cardinality(olds) + Cardinality(news)
  <2>1. Cardinality(olds \cup news) = Cardinality(olds) + Cardinality(news) - Cardinality(olds \cap news)
    BY <1>3, FS_Union
  <2> QED
    BY <1>2, <1>3, <1>4, <2>1, FS_Union, FS_EmptySet
<1>6. Cardinality(olds \cup news) <= Users
  BY <1>1, <1>3, FS_Subset DEF Users
<1>7. ASSUME NEW r \in TokenUser, s[r] = {} PROVE Cardinality(olds \cup news) <= Users - 1
  <2>1. olds \cup news \subseteq TokenUser \ {r}
    BY <1>1, <1>7 DEF StaleIn, FreshIn
  <2>2. IsFiniteSet(TokenUser \ {r}) /\ Cardinality(TokenUser \ {r}) = Users - 1
    BY <1>3, FS_RemoveElement DEF Users
  <2> QED
    BY <2>1, <2>2, FS_Subset
<1> HIDE DEF olds, news
<1>8. /\ Cardinality(olds) \in Nat /\ Cardinality(news) \in Nat
      /\ IsFiniteSet(olds) /\ IsFiniteSet(news)
      /\ Cardinality(olds) + Cardinality(news) <= Users
      /\ \A r \in TokenUser : s[r] = {} => Cardinality(olds) + Cardinality(news) <= Users - 1
  BY <1>3, <1>4, <1>5, <1>6, <1>7
<1> QED
  BY <1>8 DEF olds, news

\* A request is done with what it has read.
LEMMA Freed ==
  ASSUME NEW s \in [TokenUser -> SUBSET K!Row], \A r \in TokenUser : AtMostOne(s[r]),
         NEW r \in TokenUser, NEW z, z = [s EXCEPT ![r] = {}]
  PROVE  /\ z \in [TokenUser -> SUBSET K!Row]
         /\ \A q \in TokenUser : AtMostOne(z[q]) /\ z[q] \subseteq s[q]
         /\ z[r] = {}
  BY DEF AtMostOne

LEMMA FreedStale ==
  ASSUME NEW s \in [TokenUser -> SUBSET K!Row], NEW r \in TokenUser, NEW b
  PROVE  StaleIn([s EXCEPT ![r] = {}], b) = StaleIn(s, b) \ {r}
  BY DEF StaleIn

LEMMA FreedFresh ==
  ASSUME NEW s \in [TokenUser -> SUBSET K!Row], NEW r \in TokenUser, NEW b
  PROVE  FreshIn([s EXCEPT ![r] = {}], b) = FreshIn(s, b) \ {r}
  BY DEF FreshIn

LEMMA OneLess ==
  ASSUME NEW S, IsFiniteSet(S), NEW r
  PROVE  Cardinality(S \ {r}) = IF r \in S THEN Cardinality(S) - 1 ELSE Cardinality(S)
<1>1. CASE r \in S
  BY <1>1, FS_RemoveElement
<1>2. CASE r \notin S
  <2>1. S \ {r} = S
    BY <1>2
  <2> QED
    BY <1>2, <2>1
<1> QED
  BY <1>1, <1>2

\* Nobody knows of the token before it is there.
LEMMA NobodyReads ==
  ASSUME NEW s, \A r \in TokenUser : s[r] = {}, NEW b
  PROVE  Cardinality(StaleIn(s, b)) = 0 /\ Cardinality(FreshIn(s, b)) = 0
<1>1. StaleIn(s, b) = {} /\ FreshIn(s, b) = {}
  BY DEF StaleIn, FreshIn
<1> QED
  BY <1>1, FS_EmptySet

\* Who has not read the clock has not read it before a time.
LEMMA EarlyUsers ==
  ASSUME NEW m, NEW b
  PROVE  /\ IsFiniteSet(EarlyIn(m, b)) /\ Cardinality(EarlyIn(m, b)) \in Nat
         /\ \A r \in TokenUser : m[r] = {} => Cardinality(EarlyIn(m, b)) <= Users - 1
         /\ (\A r \in TokenUser : m[r] = {}) => Cardinality(EarlyIn(m, b)) = 0
<1>1. EarlyIn(m, b) \subseteq TokenUser /\ IsFiniteSet(TokenUser)
  BY TokenAssumption DEF EarlyIn
<1>2. IsFiniteSet(EarlyIn(m, b)) /\ Cardinality(EarlyIn(m, b)) \in Nat
  BY <1>1, FS_Subset, FS_CardinalityType
<1>3. ASSUME NEW r \in TokenUser, m[r] = {} PROVE Cardinality(EarlyIn(m, b)) <= Users - 1
  <2>1. EarlyIn(m, b) \subseteq TokenUser \ {r}
    BY <1>1, <1>3 DEF EarlyIn
  <2>2. IsFiniteSet(TokenUser \ {r}) /\ Cardinality(TokenUser \ {r}) = Users - 1
    BY <1>1, FS_RemoveElement DEF Users
  <2> QED
    BY <2>1, <2>2, FS_Subset
<1>4. ASSUME \A r \in TokenUser : m[r] = {} PROVE Cardinality(EarlyIn(m, b)) = 0
  <2>1. EarlyIn(m, b) = {}
    BY <1>4 DEF EarlyIn
  <2> QED
    BY <2>1, FS_EmptySet
<1> QED
  BY <1>2, <1>3, <1>4

IsFreed(z, s, r) == z = [s EXCEPT ![r] = {}]

LEMMA FreedEarly ==
  ASSUME NEW m \in [TokenUser -> SUBSET Nat], NEW r \in TokenUser, NEW b,
         NEW y, IsFreed(y, m, r)
  PROVE  \E i, k \in Nat :
           /\ i = Cardinality(EarlyIn(y, b)) /\ k = Cardinality(EarlyIn(m, b))
           /\ i <= Users - 1 /\ i <= k
           /\ r \in EarlyIn(m, b) => i = k - 1
<1>1. EarlyIn(y, b) = EarlyIn(m, b) \ {r} /\ y[r] = {}
  BY DEF EarlyIn, IsFreed
<1>2. PICK k \in Nat : k = Cardinality(EarlyIn(m, b)) /\ IsFiniteSet(EarlyIn(m, b))
  BY EarlyUsers
<1>3. PICK i \in Nat : i = Cardinality(EarlyIn(y, b)) /\ i <= Users - 1
  BY <1>1, EarlyUsers
<1>4. i = IF r \in EarlyIn(m, b) THEN k - 1 ELSE k
  BY <1>1, <1>2, <1>3, OneLess
<1>5. i <= k /\ (r \in EarlyIn(m, b) => i = k - 1)
  BY <1>4
<1> QED
  BY <1>2, <1>3, <1>5

LEMMA TokensInit == K!Init => TokensInv
<1> SUFFICES ASSUME K!Init PROVE TokensInv
  OBVIOUS
<1>1. TokenUser # {} => Cardinality(EarlyIn(moment, start)) <= Users - 1
  BY EarlyUsers DEF K!Init
<1>2. Cardinality(EarlyIn(moment, start)) \in Nat
  BY EarlyUsers
<1> QED
  BY <1>1, <1>2 DEF K!Init, TokensInv, AtMostOne

LEMMA CreateStep ==
  ASSUME TokensInv, NEW life \in 0 .. MaxTime, K!CreateToken(life) PROVE TokensInv'
<1>1. PICK t : /\ t = [request_count |-> 0, reset_at |-> now, expires_at |-> now + life,
                       revoked |-> FALSE]
               /\ token' = {t} /\ start' = now /\ UNCHANGED <<now, seen, moment, uses, late>>
               /\ token = {}
  BY DEF K!CreateToken
<1>2. t \in K!Row /\ t.request_count = 0 /\ t.reset_at = now
  BY <1>1, TokenAssumption DEF TokensInv, K!Row
<1>3. uses = 0 /\ late = 0 /\ \A r \in TokenUser : seen[r] = {} /\ moment[r] = {}
  BY <1>1 DEF TokensInv
<1>4. now \in Nat /\ Hour \in Nat
  BY TokenAssumption DEF TokensInv
<1>5. TokenUser # {} => Within(0, 0, Cardinality(StaleIn(seen, now)),
                               Cardinality(FreshIn(seen, now)), Waits(Users))
  BY <1>3, NobodyReads, WithinNew, UsersType
<1>6. /\ Base(t.reset_at, start') = now /\ ~(t.reset_at < start')
      /\ Rounds(t.reset_at, start', late') * Waits(Users) = Waits(Users)
  <2>1. Base(t.reset_at, start') = now /\ Rounds(t.reset_at, start', late') = 1
    BY <1>1, <1>2, <1>3, <1>4 DEF Base, Rounds
  <2>2. Waits(Users) \in Int
    BY WaitsUp, UsersType
  <2> QED
    BY <1>1, <1>2, <1>4, <2>1, <2>2
<1>7. TokenUser # {} => late' + Cardinality(EarlyIn(moment', start')) <= Users - 1
  <2>1. \A b : TokenUser # {} => Cardinality(EarlyIn(moment, b)) <= Users - 1
    BY <1>3, EarlyUsers
  <2> QED
    BY <1>1, <1>3, <2>1, EarlyUsers
<1> QED
  <2>1. token' = {t} /\ AtMostOne(token')
    BY <1>1, <1>2 DEF AtMostOne
  <2>2. /\ seen' \in [TokenUser -> SUBSET K!Row]
        /\ moment' \in [TokenUser -> SUBSET (0 .. now')]
        /\ \A r \in TokenUser : AtMostOne(seen'[r])
        /\ \A r \in TokenUser : seen'[r] = {}
    BY <1>1, <1>3 DEF TokensInv, AtMostOne
  <2>3. TokenUser # {} =>
          Within(uses', t.request_count,
                 Cardinality(StaleIn(seen', Base(t.reset_at, start'))),
                 Cardinality(FreshIn(seen', Base(t.reset_at, start'))),
                 Rounds(t.reset_at, start', late') * Waits(Users))
    BY <1>1, <1>2, <1>3, <1>5, <1>6
  <2>4. /\ now' \in Nat /\ start' \in Nat /\ uses' = 0 /\ late' = 0 /\ start' <= now'
        /\ t.reset_at <= start' + Hour
    BY <1>1, <1>2, <1>3, <1>4
  <2> QED
    BY <1>6, <1>7, <2>1, <2>2, <2>3, <2>4 DEF TokensInv

LEMMA ReadStep ==
  ASSUME TokensInv, NEW r \in TokenUser, K!ValidateToken(r) PROVE TokensInv'
<1>1. PICK t \in K!Row : token = {t}
  BY DEF K!ValidateToken, TokensInv, AtMostOne
<1>2. PICK z : /\ z = [seen EXCEPT ![r] = {t}]
               /\ seen' = z /\ seen[r] = {} /\ UNCHANGED <<now, token, moment, start, uses, late>>
  BY <1>1 DEF K!ValidateToken
<1>3. /\ z \in [TokenUser -> SUBSET K!Row]
      /\ z[r] = {t} /\ \A q \in TokenUser \ {r} : z[q] = seen[q]
      /\ \A q \in TokenUser : AtMostOne(z[q])
  BY <1>1, <1>2 DEF TokensInv, AtMostOne
<1>b. PICK b \in Nat, w \in Int :
        /\ b = Base(t.reset_at, start) /\ b <= t.reset_at
        /\ w = Rounds(t.reset_at, start, late) * Waits(Users)
  <2>1. t.reset_at \in Nat /\ start \in Nat /\ late \in Nat /\ Waits(Users) \in Int
    BY WaitsUp, UsersType DEF TokensInv, K!Row
  <2>2. Rounds(t.reset_at, start, late) \in Int
    BY <2>1 DEF Rounds
  <2> QED
    BY <2>1, <2>2 DEF Base
<1>4. /\ t.reset_at <= start + Hour /\ (t.reset_at < start => late >= 1)
      /\ Within(uses, t.request_count, Cardinality(StaleIn(seen, b)),
                Cardinality(FreshIn(seen, b)), w)
  BY <1>1, <1>b DEF TokensInv
<1>5. \A q \in TokenUser : \A x \in z[q] : x.reset_at <= start + Hour
  BY <1>3, <1>4 DEF TokensInv
<1>6. StaleIn(z, b) = StaleIn(seen, b)
  BY <1>2, <1>3, <1>b, TokenAssumption DEF StaleIn, TokensInv, K!Row
<1>7. t.request_count >= HourlyLimit => FreshIn(z, b) = FreshIn(seen, b)
  BY <1>1, <1>2, <1>3, TokenAssumption DEF FreshIn, K!Row
<1>8. /\ Cardinality(StaleIn(z, b)) \in Nat /\ Cardinality(FreshIn(z, b)) \in Nat
      /\ Cardinality(StaleIn(seen, b)) \in Nat /\ Cardinality(FreshIn(seen, b)) \in Nat
      /\ Cardinality(StaleIn(seen, b)) + Cardinality(FreshIn(seen, b)) <= Users
  BY <1>3, <1>b, BusyUsers DEF TokensInv
<1>9. Within(uses, t.request_count, Cardinality(StaleIn(z, b)), Cardinality(FreshIn(z, b)), w)
  <2>1. t.request_count \in Nat /\ uses \in Nat
    BY DEF K!Row, TokensInv
  <2> QED
    BY <1>4, <1>6, <1>7, <1>8, <2>1, WithinRead
<1> QED
  <2>1. /\ seen' \in [TokenUser -> SUBSET K!Row]
        /\ \A q \in TokenUser : AtMostOne(seen'[q])
        /\ \A q \in TokenUser : \A x \in seen'[q] : x.reset_at <= start' + Hour
    BY <1>2, <1>3, <1>5
  <2>2. token' = {t}
    BY <1>1, <1>2
  <2>3. Within(uses', t.request_count,
               Cardinality(StaleIn(seen', Base(t.reset_at, start'))),
               Cardinality(FreshIn(seen', Base(t.reset_at, start'))),
               Rounds(t.reset_at, start', late') * Waits(Users))
    BY <1>2, <1>9, <1>b
  <2>4. AtMostOne(token') /\ token' # {}
    BY <1>1, <2>2 DEF AtMostOne
  <2>5. /\ now' \in Nat /\ start' \in Nat /\ uses' \in Nat /\ late' \in Nat /\ start' <= now'
        /\ t.reset_at <= start' + Hour /\ (t.reset_at < start' => late' >= 1)
        /\ moment' \in [TokenUser -> SUBSET (0 .. now')]
        /\ TokenUser # {} => late' + Cardinality(EarlyIn(moment', start')) <= Users - 1
    BY <1>2, <1>4 DEF TokensInv
  <2> QED
    BY <2>1, <2>2, <2>3, <2>4, <2>5 DEF TokensInv

\* The time that is read is not before the hour.
LEMMA ClockRead ==
  ASSUME TokensInv, NEW r \in TokenUser, K!TimeNow(r) PROVE TokensInv'
<1>1. PICK z : z = [moment EXCEPT ![r] = {now}] /\ moment' = z
  BY DEF K!TimeNow
<1>2. UNCHANGED <<now, token, seen, start, uses, late>> /\ moment[r] = {} /\ token # {}
  BY DEF K!TimeNow, TokensInv
<1>3. now \in Nat /\ start \in Nat /\ start <= now /\ moment \in [TokenUser -> SUBSET (0 .. now)]
  BY DEF TokensInv
<1>4. z \in [TokenUser -> SUBSET (0 .. now)]
  BY <1>1, <1>3
<1>5. EarlyIn(z, start) = EarlyIn(moment, start)
  BY <1>1, <1>2, <1>3 DEF EarlyIn
<1> QED
  BY <1>1, <1>2, <1>4, <1>5 DEF TokensInv

\* What the others have read, once a request is done.
LEMMA FreedCounts ==
  ASSUME TokensInv, NEW r \in TokenUser, NEW h \in Nat, NEW z, IsFreed(z, seen, r)
  PROVE  \E k, f, i, j \in Nat :
           /\ k = Cardinality(StaleIn(seen, h)) /\ f = Cardinality(FreshIn(seen, h))
           /\ i = Cardinality(StaleIn(z, h)) /\ j = Cardinality(FreshIn(z, h))
           /\ k + f <= Users /\ i + j <= Users - 1
           /\ IF r \in StaleIn(seen, h) THEN k >= 1 /\ i = k - 1 ELSE i = k
           /\ IF r \in FreshIn(seen, h) THEN f >= 1 /\ j = f - 1 ELSE j = f
<1>1. seen \in [TokenUser -> SUBSET K!Row] /\ \A q \in TokenUser : AtMostOne(seen[q])
  BY DEF TokensInv
<1>2. /\ z \in [TokenUser -> SUBSET K!Row] /\ z[r] = {}
      /\ \A q \in TokenUser : AtMostOne(z[q])
  BY <1>1, Freed DEF IsFreed
<1>3. PICK k \in Nat, f \in Nat :
        /\ k = Cardinality(StaleIn(seen, h)) /\ f = Cardinality(FreshIn(seen, h))
        /\ IsFiniteSet(StaleIn(seen, h)) /\ IsFiniteSet(FreshIn(seen, h))
        /\ k + f <= Users
  BY <1>1, BusyUsers
<1>4. StaleIn(z, h) = StaleIn(seen, h) \ {r} /\ FreshIn(z, h) = FreshIn(seen, h) \ {r}
  BY <1>1, FreedStale, FreedFresh DEF IsFreed
<1>5. PICK i \in Nat, j \in Nat :
        /\ i = Cardinality(StaleIn(z, h)) /\ j = Cardinality(FreshIn(z, h))
        /\ i + j <= Users - 1
  BY <1>2, BusyUsers
<1>6. IF r \in StaleIn(seen, h) THEN k >= 1 /\ i = k - 1 ELSE i = k
  <2>1. i = IF r \in StaleIn(seen, h) THEN k - 1 ELSE k
    BY <1>3, <1>4, <1>5, OneLess
  <2>2. r \in StaleIn(seen, h) => k # 0
    BY <1>3, FS_EmptySet
  <2> QED
    BY <2>1, <2>2
<1>7. IF r \in FreshIn(seen, h) THEN f >= 1 /\ j = f - 1 ELSE j = f
  <2>1. j = IF r \in FreshIn(seen, h) THEN f - 1 ELSE f
    BY <1>3, <1>4, <1>5, OneLess
  <2>2. r \in FreshIn(seen, h) => f # 0
    BY <1>3, FS_EmptySet
  <2> QED
    BY <2>1, <2>2
<1> QED
  BY <1>3, <1>5, <1>6, <1>7

\* A request that is not let in is done.
LEMMA DoneStep ==
  ASSUME TokensInv, NEW r \in TokenUser, K!Done(r), UNCHANGED <<now, token, start, uses, late>>
  PROVE  TokensInv'
<1>1. PICK z, y : /\ z = [seen EXCEPT ![r] = {}] /\ seen' = z
                  /\ y = [moment EXCEPT ![r] = {}] /\ moment' = y
  BY DEF K!Done
<1>z. IsFreed(z, seen, r) /\ IsFreed(y, moment, r)
  BY <1>1 DEF IsFreed
<1>2. /\ z \in [TokenUser -> SUBSET K!Row]
      /\ \A q \in TokenUser : AtMostOne(z[q]) /\ z[q] \subseteq seen[q]
  BY <1>1, Freed DEF TokensInv
<1>3. /\ y \in [TokenUser -> SUBSET (0 .. now)]
      /\ \A q \in TokenUser : y[q] \subseteq moment[q]
  BY <1>1 DEF TokensInv
<1>m. PICK d \in Nat, e \in Nat :
        d = Cardinality(EarlyIn(y, start)) /\ e = Cardinality(EarlyIn(moment, start)) /\ d <= e
  <2>1. moment \in [TokenUser -> SUBSET Nat]
    BY DEF TokensInv
  <2>2. PICK i, k \in Nat :
          /\ i = Cardinality(EarlyIn(y, start)) /\ k = Cardinality(EarlyIn(moment, start))
          /\ i <= Users - 1 /\ i <= k
          /\ r \in EarlyIn(moment, start) => i = k - 1
    BY <1>z, <2>1, FreedEarly
  <2> QED
    BY <2>2
<1>4. ASSUME NEW t \in token, NEW b \in Nat, NEW w \in Int,
             Within(uses, t.request_count, Cardinality(StaleIn(seen, b)),
                    Cardinality(FreshIn(seen, b)), w)
      PROVE  Within(uses, t.request_count, Cardinality(StaleIn(z, b)),
                    Cardinality(FreshIn(z, b)), w)
  <2>1. PICK k, f, i, j \in Nat :
          /\ k = Cardinality(StaleIn(seen, b)) /\ f = Cardinality(FreshIn(seen, b))
          /\ i = Cardinality(StaleIn(z, b)) /\ j = Cardinality(FreshIn(z, b))
          /\ k + f <= Users
          /\ i = k \/ (k >= 1 /\ i = k - 1)
          /\ j = f \/ (f >= 1 /\ j = f - 1)
    <3>1. PICK k, f, i, j \in Nat :
          /\ k = Cardinality(StaleIn(seen, b)) /\ f = Cardinality(FreshIn(seen, b))
          /\ i = Cardinality(StaleIn(z, b)) /\ j = Cardinality(FreshIn(z, b))
          /\ k + f <= Users /\ i + j <= Users - 1
          /\ IF r \in StaleIn(seen, b) THEN k >= 1 /\ i = k - 1 ELSE i = k
          /\ IF r \in FreshIn(seen, b) THEN f >= 1 /\ j = f - 1 ELSE j = f
      BY <1>4, <1>z, FreedCounts, ZenonT(60)
    <3> QED
      BY <3>1
  <2>2. uses \in Nat /\ t.request_count \in Nat
    BY <1>4 DEF TokensInv, AtMostOne, K!Row
  <2>o. Within(uses, t.request_count, k, f, w)
    BY <1>4, <2>1
  <2>3. Within(uses, t.request_count, i, f, w)
    <3>1. k >= 1 => Within(uses, t.request_count, k - 1, f, w)
      BY <2>o, <2>1, <2>2, WithinFreed
    <3> QED
      BY <2>o, <2>1, <3>1
  <2>4. i + f <= Users
    BY <2>1, UsersType
  <2>5. Within(uses, t.request_count, i, j, w)
    <3>1. f >= 1 => Within(uses, t.request_count, i, f - 1, w)
      BY <2>1, <2>2, <2>3, <2>4, WithinFreed
    <3> QED
      BY <2>1, <2>3, <3>1
  <2> QED
    BY <2>1, <2>5
<1>5. \A q \in TokenUser : \A t \in z[q] : t.reset_at <= start + Hour
  BY <1>2 DEF TokensInv
<1>6. ASSUME NEW t \in token, TokenUser # {}
      PROVE  Within(uses, t.request_count,
                    Cardinality(StaleIn(z, Base(t.reset_at, start))),
                    Cardinality(FreshIn(z, Base(t.reset_at, start))),
                    Rounds(t.reset_at, start, late) * Waits(Users))
  <2>1. t.reset_at \in Nat /\ start \in Nat /\ late \in Nat /\ Waits(Users) \in Int
    BY <1>6, WaitsUp, UsersType DEF TokensInv, AtMostOne, K!Row
  <2>2. Base(t.reset_at, start) \in Nat /\ Rounds(t.reset_at, start, late) \in Int
    BY <2>1 DEF Base, Rounds
  <2>3. Rounds(t.reset_at, start, late) * Waits(Users) \in Int
    BY <2>1, <2>2
  <2>4. Within(uses, t.request_count,
               Cardinality(StaleIn(seen, Base(t.reset_at, start))),
               Cardinality(FreshIn(seen, Base(t.reset_at, start))),
               Rounds(t.reset_at, start, late) * Waits(Users))
    BY <1>6 DEF TokensInv
  <2> QED
    BY <1>4, <2>2, <2>3, <2>4
<1>7. token = {} => \A q \in TokenUser : z[q] = {} /\ y[q] = {}
  BY <1>2, <1>3 DEF TokensInv
<1>8. TokenUser # {} => late + Cardinality(EarlyIn(y, start)) <= Users - 1
  <2>1. late \in Nat /\ (TokenUser # {} => late + Cardinality(EarlyIn(moment, start)) <= Users - 1)
    BY DEF TokensInv
  <2> QED
    BY <1>m, <2>1, UsersType
<1> QED
  BY <1>1, <1>2, <1>3, <1>5, <1>6, <1>7, <1>8 DEF TokensInv

\* One that is let in writes the count, and the time if an hour is over.
LEMMA LetInStep ==
  ASSUME TokensInv, NEW r \in TokenUser, K!Done(r),
         NEW c \in Nat, NEW a \in Nat, K!Write(c, a), token # {}, UNCHANGED now,
         start' \in Nat, start' <= now, uses' \in Nat, late' \in Nat,
         a <= start' + Hour, a < start' => late' >= 1,
         \A q \in TokenUser : \A t \in seen'[q] : t.reset_at <= start' + Hour,
         late' + Cardinality(EarlyIn(moment', start')) <= Users - 1,
         Within(uses', c, Cardinality(StaleIn(seen', Base(a, start'))),
                Cardinality(FreshIn(seen', Base(a, start'))),
                Rounds(a, start', late') * Waits(Users))
  PROVE  TokensInv'
<1>1. PICK old \in K!Row : token = {old}
  BY DEF TokensInv, AtMostOne
<1>2. PICK new : new = [old EXCEPT !.request_count = c, !.reset_at = a] /\ token' = {new}
  BY <1>1 DEF K!Write
<1>3. new \in K!Row /\ new.request_count = c /\ new.reset_at = a
  BY <1>2 DEF K!Row
<1>4. seen' \in [TokenUser -> SUBSET K!Row] /\ \A q \in TokenUser : AtMostOne(seen'[q])
  BY DEF TokensInv, AtMostOne, K!Done
<1>5. now \in Nat /\ moment' \in [TokenUser -> SUBSET (0 .. now')]
  BY DEF TokensInv, K!Done
<1>6. token' # {} /\ AtMostOne(token')
  BY <1>2, <1>3 DEF AtMostOne
<1> QED
  BY <1>2, <1>3, <1>4, <1>5, <1>6 DEF TokensInv

\* A request that begins the count anew: within the hour, by one that has read
\* a row from before it, or once reset_at is from before it.
LEMMA BegunWithin ==
  ASSUME NEW s \in [TokenUser -> SUBSET K!Row], \A q \in TokenUser : AtMostOne(s[q]),
         NEW r \in TokenUser, NEW z, z = [s EXCEPT ![r] = {}],
         NEW u \in Nat, NEW c \in Nat, NEW a \in Nat, NEW b \in Nat, NEW l \in Nat,
         NEW d \in Nat, NEW t \in s[r], t.reset_at < d,
         a < b => l >= 1,
         Within(u, c, Cardinality(StaleIn(s, Base(a, b))), Cardinality(FreshIn(s, Base(a, b))),
                Rounds(a, b, l) * Waits(Users)),
         a >= b => t.reset_at < b
  PROVE  Within(u + 1, 1, Cardinality(StaleIn(z, Base(d, b))),
                Cardinality(FreshIn(z, Base(d, b))),
                Rounds(d, b, IF d < b THEN l + 1 ELSE l) * Waits(Users))
<1>1. PICK e \in Nat, h \in Nat : e = Base(a, b) /\ h = Base(d, b) /\ h <= b
  BY DEF Base
<1>2. PICK k \in Nat, f \in Nat : /\ k = Cardinality(StaleIn(s, e)) /\ f = Cardinality(FreshIn(s, e))
                                  /\ IsFiniteSet(StaleIn(s, e)) /\ k <= Users
  BY <1>1, BusyUsers, UsersType
<1>3. /\ z \in [TokenUser -> SUBSET K!Row] /\ z[r] = {}
      /\ \A q \in TokenUser : AtMostOne(z[q]) /\ z[q] \subseteq s[q]
  BY Freed
<1>4. PICK i \in Nat, j \in Nat : /\ i = Cardinality(StaleIn(z, h)) /\ j = Cardinality(FreshIn(z, h))
                                  /\ i + j <= Users - 1
  BY <1>1, <1>3, BusyUsers
<1>5. /\ Waits(Users) \in Int /\ Waits(k) \in Int /\ 0 <= Waits(k) /\ Waits(i + 1) \in Int
      /\ Waits(i + 1) <= Waits(Users)
  BY <1>2, <1>4, WaitsUp, UsersType
<1>6. 2 * u + Waits(k) <= Rounds(a, b, l) * Waits(Users)
  <2>1. Ahead(Cardinality(StaleIn(s, e)), 0, 0) = Ahead(k, 0, 0)
    BY <1>2
  <2>2. Ahead(c, k, f) \in Int /\ 0 <= Ahead(c, k, f)
    <3>1. k + f <= Users
      BY <1>1, <1>2, BusyUsers
    <3>2. c < HourlyLimit /\ k = Users => HourlyLimit - c + (Users - k - 1) >= 0
      BY UsersType
    <3> QED
      BY <1>2, <3>1, <3>2, UsersType DEF Ahead
  <2>3. Within(u, c, k, f, Rounds(a, b, l) * Waits(Users))
    BY <1>1, <1>2
  <2>4. Rounds(a, b, l) * Waits(Users) \in Int
    BY <1>5 DEF Rounds
  <2>5. PICK w \in Int : w = Rounds(a, b, l) * Waits(Users)
    BY <2>4
  <2> QED
    BY <1>5, <2>2, <2>3, <2>5 DEF Within
<1>7. Rounds(d, b, IF d < b THEN l + 1 ELSE l) = l + 1
  BY DEF Rounds
<1>8. 2 * u + Waits(i + 1) <= (l + 1) * Waits(Users)
  <2>1. CASE a < b
    <3>1. Rounds(a, b, l) * Waits(Users) = l * Waits(Users)
      BY <2>1 DEF Rounds
    <3>2. (l + 1) * Waits(Users) = l * Waits(Users) + Waits(Users)
      BY <1>5
    <3>3. PICK w \in Int : w = l * Waits(Users)
      BY <1>5
    <3> QED
      BY <1>5, <1>6, <3>1, <3>2, <3>3
  <2>2. CASE a >= b
    <3>1. e = b /\ Rounds(a, b, l) = l + 1 /\ t.reset_at < b /\ t.reset_at \in Nat
      <4>1. t \in K!Row
        OBVIOUS
      <4> QED
        BY <1>1, <2>2, <4>1 DEF Base, Rounds, K!Row
    <3>2. r \in StaleIn(s, e)
      BY <3>1 DEF StaleIn
    <3>3. StaleIn(z, h) \subseteq StaleIn(s, e) \ {r}
      BY <1>1, <1>3, <3>1 DEF StaleIn, K!Row
    <3>4. IsFiniteSet(StaleIn(s, e) \ {r}) /\ Cardinality(StaleIn(s, e) \ {r}) = k - 1
      BY <1>2, <3>2, FS_RemoveElement
    <3>5. i <= k - 1
      <4>1. Cardinality(StaleIn(z, h)) <= Cardinality(StaleIn(s, e) \ {r})
        BY <3>3, <3>4, FS_Subset
      <4> QED
        BY <1>4, <3>4, <4>1
    <3>6. Waits(i + 1) <= Waits(k)
      BY <1>2, <1>4, <3>5, WaitsMore
    <3>7. PICK w \in Int : w = (l + 1) * Waits(Users)
      BY <1>5
    <3> QED
      BY <1>5, <1>6, <3>1, <3>6, <3>7
  <2> QED
    BY <2>1, <2>2
<1>9. (l + 1) * Waits(Users) \in Int
  BY <1>5
<1>10. Within(u + 1, 1, i, j, (l + 1) * Waits(Users))
  BY <1>4, <1>8, <1>9, WithinBegun
<1> QED
  BY <1>1, <1>4, <1>7, <1>10

LEMMA RateStep ==
  ASSUME TokensInv, NEW r \in TokenUser, K!CheckRateLimit(r) PROVE TokensInv'
<1>1. PICK t \in seen[r], time \in moment[r], old \in token :
        /\ \/ K!HourIsOver(t, time) /\ K!Write(1, time) /\ K!LetIn(time)
           \/ /\ ~K!HourIsOver(t, time) /\ ~K!Spent(t)
              /\ K!Write(old.request_count + 1, old.reset_at) /\ K!LetIn(start)
           \/ ~K!HourIsOver(t, time) /\ K!Spent(t) /\ UNCHANGED <<token, start, uses, late>>
        /\ K!Done(r) /\ UNCHANGED now
  BY DEF K!CheckRateLimit
<1>2. /\ t \in K!Row /\ old \in K!Row /\ now \in Nat /\ start \in Nat /\ uses \in Nat /\ Hour \in Nat
      /\ t.reset_at \in Nat /\ old.reset_at \in Nat /\ old.request_count \in Nat
      /\ t.request_count \in Nat /\ start <= now /\ late \in Nat /\ time \in Nat /\ time <= now
      /\ seen \in [TokenUser -> SUBSET K!Row] /\ \A q \in TokenUser : AtMostOne(seen[q])
      /\ seen[r] = {t} /\ t.reset_at <= start + Hour
      /\ old.reset_at <= start + Hour /\ (old.reset_at < start => late >= 1)
  BY TokenAssumption DEF TokensInv, AtMostOne, K!Row
<1>3. PICK b \in Nat, w \in Int :
        b = Base(old.reset_at, start) /\ w = Rounds(old.reset_at, start, late) * Waits(Users)
  <2>1. Waits(Users) \in Int /\ Rounds(old.reset_at, start, late) \in Int
    BY <1>2, WaitsUp, UsersType DEF Rounds
  <2>2. Base(old.reset_at, start) \in Nat
    BY <1>2 DEF Base
  <2> QED
    BY <2>1, <2>2
<1>4. Within(uses, old.request_count, Cardinality(StaleIn(seen, b)), Cardinality(FreshIn(seen, b)), w)
  BY <1>3 DEF TokensInv
<1>5. PICK z, y : /\ z = [seen EXCEPT ![r] = {}] /\ seen' = z
                  /\ y = [moment EXCEPT ![r] = {}] /\ moment' = y
  BY <1>1 DEF K!Done
<1>z. IsFreed(z, seen, r) /\ IsFreed(y, moment, r)
  BY <1>5 DEF IsFreed
<1>c. \A h \in Nat : \E k, f, i, j \in Nat :
        /\ k = Cardinality(StaleIn(seen, h)) /\ f = Cardinality(FreshIn(seen, h))
        /\ i = Cardinality(StaleIn(z, h)) /\ j = Cardinality(FreshIn(z, h))
        /\ k + f <= Users /\ i + j <= Users - 1
        /\ IF r \in StaleIn(seen, h) THEN k >= 1 /\ i = k - 1 ELSE i = k
        /\ IF r \in FreshIn(seen, h) THEN f >= 1 /\ j = f - 1 ELSE j = f
  <2> TAKE h \in Nat
  <2> QED
    BY <1>z, FreedCounts, ZenonT(60)
<1>6. \A q \in TokenUser : \A x \in z[q] : x.reset_at <= start + Hour /\ x.reset_at \in Nat
  <2>1. z \in [TokenUser -> SUBSET K!Row] /\ \A q \in TokenUser : z[q] \subseteq seen[q]
    BY <1>5, Freed DEF TokensInv
  <2> QED
    BY <2>1 DEF TokensInv, K!Row
<1>7. late + Cardinality(EarlyIn(moment, start)) <= Users - 1
  BY DEF TokensInv
<1>8. \A h : \E d, e \in Nat :
        /\ d = Cardinality(EarlyIn(y, h)) /\ e = Cardinality(EarlyIn(moment, h))
        /\ d <= Users - 1 /\ d <= e /\ (time < h => d = e - 1)
  <2> TAKE h
  <2>1. moment \in [TokenUser -> SUBSET Nat]
    BY DEF TokensInv
  <2>2. time < h => r \in EarlyIn(moment, h)
    BY DEF EarlyIn
  <2>3. PICK d, e \in Nat :
          /\ d = Cardinality(EarlyIn(y, h)) /\ e = Cardinality(EarlyIn(moment, h))
          /\ d <= Users - 1 /\ d <= e
          /\ r \in EarlyIn(moment, h) => d = e - 1
    BY <1>z, <2>1, FreedEarly
  <2> QED
    BY <2>2, <2>3
<1>9. CASE K!HourIsOver(t, time) /\ K!Write(1, time) /\ K!LetIn(time)
  <2>0. t.reset_at < time
    BY <1>2, <1>9 DEF K!HourIsOver
  <2>1. CASE time > start + Hour
    <3>1. start' = time /\ uses' = 1 /\ late' = 0
      BY <1>9, <2>1 DEF K!LetIn
    <3>2. PICK i, j \in Nat : /\ i = Cardinality(StaleIn(z, time))
                             /\ j = Cardinality(FreshIn(z, time))
                             /\ i + j <= Users - 1
      BY <1>2, <1>c
    <3>3. Waits(i + 1) \in Int /\ Waits(i + 1) <= Waits(Users) /\ Waits(Users) \in Int
      BY <3>2, WaitsUp, UsersType
    <3>4. Within(0 + 1, 1, i, j, Waits(Users))
      <4>1. 2 * 0 + Waits(i + 1) <= Waits(Users)
        BY <3>3
      <4> QED
        BY <3>2, <3>3, <4>1, WithinBegun
    <3>5. Base(time, time) = time /\ Rounds(time, time, 0) * Waits(Users) = Waits(Users)
      <4>1. Base(time, time) = time /\ Rounds(time, time, 0) = 1
        BY <1>2 DEF Base, Rounds
      <4> QED
        BY <3>3, <4>1
    <3>6. \A q \in TokenUser : \A x \in seen'[q] : x.reset_at <= start' + Hour
      BY <1>2, <1>5, <1>6, <2>1, <3>1
    <3>7. Within(uses', 1, Cardinality(StaleIn(seen', Base(time, start'))),
                 Cardinality(FreshIn(seen', Base(time, start'))),
                 Rounds(time, start', late') * Waits(Users))
      <4>1. 0 + 1 = 1
        OBVIOUS
      <4> QED
        BY <1>5, <3>1, <3>2, <3>4, <3>5, <4>1
    <3>8. late' + Cardinality(EarlyIn(moment', start')) <= Users - 1
      <4>1. PICK d \in Nat : d = Cardinality(EarlyIn(y, time)) /\ d <= Users - 1
        BY <1>8
      <4>2. Cardinality(EarlyIn(moment', start')) = d /\ late' = 0
        BY <1>5, <3>1, <4>1
      <4> QED
        BY <4>1, <4>2
    <3>9. /\ start' \in Nat /\ start' <= now /\ uses' \in Nat /\ late' \in Nat
          /\ time <= start' + Hour /\ (time < start' => late' >= 1)
      BY <1>2, <3>1
    <3> QED
      BY <1>1, <1>2, <1>9, <3>6, <3>7, <3>8, <3>9, LetInStep
  <2>2. CASE ~(time > start + Hour)
    <3>1. start' = start /\ uses' = uses + 1 /\ late' = IF time < start THEN late + 1 ELSE late
      BY <1>9, <2>2 DEF K!LetIn
    <3>2. old.reset_at >= start => t.reset_at < start
      BY <1>2, <1>9, <2>2 DEF K!HourIsOver
    <3>3. Within(uses + 1, 1, Cardinality(StaleIn(z, Base(time, start))),
                 Cardinality(FreshIn(z, Base(time, start))),
                 Rounds(time, start, IF time < start THEN late + 1 ELSE late) * Waits(Users))
      BY <1>2, <1>3, <1>4, <1>5, <2>0, <3>2, BegunWithin
    <3>4. Within(uses', 1, Cardinality(StaleIn(seen', Base(time, start'))),
                 Cardinality(FreshIn(seen', Base(time, start'))),
                 Rounds(time, start', late') * Waits(Users))
      BY <1>5, <3>1, <3>3
    <3>5. late' + Cardinality(EarlyIn(moment', start')) <= Users - 1
      <4>1. PICK d, e \in Nat :
              /\ d = Cardinality(EarlyIn(y, start)) /\ e = Cardinality(EarlyIn(moment, start))
              /\ d <= e /\ (time < start => d = e - 1)
        BY <1>8
      <4>2. Cardinality(EarlyIn(moment', start')) = d /\ late + e <= Users - 1
        BY <1>5, <1>7, <3>1, <4>1
      <4> QED
        BY <1>2, <3>1, <4>1, <4>2, UsersType
    <3>6. /\ start' \in Nat /\ start' <= now /\ uses' \in Nat /\ late' \in Nat
          /\ time <= start' + Hour /\ (time < start' => late' >= 1)
      BY <1>2, <2>2, <3>1
    <3>7. \A q \in TokenUser : \A x \in seen'[q] : x.reset_at <= start' + Hour
      BY <1>5, <1>6, <3>1
    <3> QED
      BY <1>1, <1>2, <1>9, <3>4, <3>5, <3>6, <3>7, LetInStep
  <2> QED
    BY <2>1, <2>2
<1>10. CASE /\ ~K!HourIsOver(t, time) /\ ~K!Spent(t)
            /\ K!Write(old.request_count + 1, old.reset_at) /\ K!LetIn(start)
  <2>1. start' = start /\ uses' = uses + 1 /\ late' = late
    BY <1>2, <1>10 DEF K!LetIn
  <2>2. t.request_count < HourlyLimit
    BY <1>2, <1>10, TokenAssumption DEF K!Spent
  <2>3. PICK k, f, i, j \in Nat :
          /\ k = Cardinality(StaleIn(seen, b)) /\ f = Cardinality(FreshIn(seen, b))
          /\ i = Cardinality(StaleIn(z, b)) /\ j = Cardinality(FreshIn(z, b))
          /\ k + f <= Users /\ i + j <= Users - 1
          /\ IF r \in StaleIn(seen, b) THEN k >= 1 /\ i = k - 1 ELSE i = k
          /\ IF r \in FreshIn(seen, b) THEN f >= 1 /\ j = f - 1 ELSE j = f
    BY <1>3, <1>c
  <2>w. Within(uses, old.request_count, k, f, w)
    BY <1>4, <2>3
  <2>4. Within(uses + 1, old.request_count + 1, i, j, w)
    <3>1. CASE t.reset_at < b
      <4>1. r \in StaleIn(seen, b) /\ r \notin FreshIn(seen, b)
        BY <1>2, <1>3, <3>1 DEF StaleIn, FreshIn
      <4>2. i = k - 1 /\ k >= 1 /\ j = f
        BY <2>3, <4>1
      <4>3. (k - 1) + f <= Users - 1
        BY <2>3, <4>2
      <4> QED
        <5>1. Within(uses + 1, old.request_count + 1, k - 1, f, w)
          BY <1>2, <2>w, <4>2, <4>3, WithinStale
        <5> QED
          BY <4>2, <5>1
    <3>2. CASE t.reset_at >= b
      <4>1. r \notin StaleIn(seen, b) /\ r \in FreshIn(seen, b)
        BY <1>2, <1>3, <2>2, <3>2 DEF StaleIn, FreshIn
      <4>2. i = k /\ j = f - 1 /\ f >= 1
        BY <2>3, <4>1
      <4>3. k + (f - 1) <= Users - 1
        BY <2>3, <4>2
      <4> QED
        <5>1. Within(uses + 1, old.request_count + 1, k, f - 1, w)
          BY <1>2, <2>w, <4>2, <4>3, WithinFresh
        <5> QED
          BY <4>2, <5>1
    <3> QED
      BY <1>2, <1>3, <3>1, <3>2
  <2>5. old.request_count + 1 \in Nat /\ uses' \in Nat
    BY <1>2, <2>1
  <2>6. Within(uses', old.request_count + 1,
               Cardinality(StaleIn(seen', Base(old.reset_at, start'))),
               Cardinality(FreshIn(seen', Base(old.reset_at, start'))),
               Rounds(old.reset_at, start', late') * Waits(Users))
    BY <1>3, <1>5, <2>1, <2>3, <2>4
  <2>7. \A q \in TokenUser : \A x \in seen'[q] : x.reset_at <= start' + Hour
    BY <1>5, <1>6, <2>1
  <2>8. /\ start' \in Nat /\ start' <= now /\ late' \in Nat
        /\ old.reset_at <= start' + Hour /\ (old.reset_at < start' => late' >= 1)
    BY <1>2, <2>1
  <2>9. late' + Cardinality(EarlyIn(moment', start')) <= Users - 1
    <3>1. PICK d, e \in Nat :
            /\ d = Cardinality(EarlyIn(y, start)) /\ e = Cardinality(EarlyIn(moment, start))
            /\ d <= e
      BY <1>8
    <3>2. Cardinality(EarlyIn(moment', start')) = d /\ late + e <= Users - 1
      BY <1>5, <1>7, <2>1, <3>1
    <3> QED
      BY <1>2, <2>1, <3>1, <3>2, UsersType
  <2> QED
    BY <1>1, <1>2, <1>10, <2>5, <2>6, <2>7, <2>8, <2>9, LetInStep
<1>11. CASE UNCHANGED <<token, start, uses, late>>
  BY <1>1, <1>11, DoneStep
<1> QED
  BY <1>1, <1>9, <1>10, <1>11

LEMMA RevokeStep ==
  ASSUME TokensInv, K!Revoke, UNCHANGED <<now, seen, moment, start, uses, late>> PROVE TokensInv'
<1>1. CASE token = {}
  <2>1. token' = {}
    BY <1>1 DEF K!Revoke
  <2> QED
    BY <1>1, <2>1 DEF TokensInv
<1>2. CASE token # {}
  <2>1. PICK old \in K!Row : token = {old}
    BY <1>2 DEF TokensInv, AtMostOne
  <2>2. PICK new : new = [old EXCEPT !.revoked = TRUE] /\ token' = {new}
    BY <2>1 DEF K!Revoke
  <2>3. /\ new \in K!Row /\ new.request_count = old.request_count
        /\ new.reset_at = old.reset_at
    BY <2>2 DEF K!Row
  <2> QED
    BY <2>1, <2>2, <2>3 DEF TokensInv, AtMostOne
<1> QED
  BY <1>1, <1>2

LEMMA TokensNext == ASSUME TokensInv, [K!Next]_(K!vars) PROVE TokensInv'
<1>1. CASE UNCHANGED K!vars
  BY <1>1 DEF TokensInv, K!vars
<1>2. CASE K!Tick
  <2>1. /\ now' = now + 1 /\ now \in Nat /\ moment' = moment
        /\ moment \in [TokenUser -> SUBSET (0 .. now)]
    BY <1>2 DEF TokensInv, K!Tick
  <2>2. moment' \in [TokenUser -> SUBSET (0 .. now')]
    BY <2>1
  <2>3. UNCHANGED <<token, seen, start, uses, late>> /\ start <= now'
    BY <1>2, <2>1 DEF TokensInv, K!Tick
  <2> QED
    BY <2>1, <2>2, <2>3 DEF TokensInv
<1>3. CASE K!RevokeToken \/ K!DeactivateExpiredTokens
  BY <1>3, RevokeStep DEF K!RevokeToken, K!DeactivateExpiredTokens
<1>4. ASSUME NEW r \in TokenUser, K!Fail(r) PROVE TokensInv'
  BY <1>4, DoneStep DEF K!Fail
<1> QED
  BY <1>1, <1>2, <1>3, <1>4, CreateStep, ReadStep, ClockRead, RateStep DEF K!Next

LEMMA TokensPromise == ASSUME TokensInv PROVE HourlyUses
<1>1. uses \in Nat /\ Users \in Nat /\ late \in Nat
  BY UsersType DEF TokensInv
<1>2. CASE token = {} \/ TokenUser = {}
  <2>1. uses = 0 /\ late = 0
    BY <1>2 DEF TokensInv
  <2>2. PICK x \in Nat, y \in Nat : x = Users * HourlyLimit /\ y = Users * (Users - 1)
    <3>1. Users = 0 \/ Users - 1 \in Nat
      BY UsersType
    <3> QED
      BY <3>1, UsersType
  <2>3. 0 <= (0 + 1) * (x + y \div 2)
    OBVIOUS
  <2> QED
    BY <2>1, <2>2, <2>3, TokensCardinality DEF HourlyUses, K!HourlyUses, Users
<1>3. CASE token # {} /\ TokenUser # {}
  <2>1. PICK t \in token : t.request_count \in Nat /\ t.reset_at \in Nat
    BY <1>3 DEF TokensInv, AtMostOne, K!Row
  <2>2. PICK b \in Nat, m \in {late, late + 1} :
          /\ b = Base(t.reset_at, start) /\ m = Rounds(t.reset_at, start, late)
    BY <2>1 DEF Base, Rounds, TokensInv
  <2>3. Within(uses, t.request_count, Cardinality(StaleIn(seen, b)),
               Cardinality(FreshIn(seen, b)), m * Waits(Users))
    BY <1>3, <2>2 DEF TokensInv
  <2>4. /\ Cardinality(StaleIn(seen, b)) \in Nat /\ Cardinality(FreshIn(seen, b)) \in Nat
        /\ Cardinality(StaleIn(seen, b)) + Cardinality(FreshIn(seen, b)) <= Users
    BY <2>2, BusyUsers DEF TokensInv
  <2>5. uses <= (late + 1) * (Users * HourlyLimit + (Users * (Users - 1)) \div 2)
    BY <1>1, <2>1, <2>2, <2>3, <2>4, WithinHour
  <2>6. late < Users
    <3>1. late + Cardinality(EarlyIn(moment, start)) <= Users - 1
      BY <1>3 DEF TokensInv
    <3>2. Cardinality(EarlyIn(moment, start)) \in Nat
      BY EarlyUsers
    <3> QED
      BY <1>1, <3>1, <3>2
  <2> QED
    BY <2>5, <2>6, TokensCardinality DEF HourlyUses, K!HourlyUses, Users
<1> QED
  BY <1>2, <1>3

\* However many requests use a token at once, and however late their UPDATEs
\* come, an hour lets in no more than the limit for each of them and what can
\* slip in after the last use, as many times over as UPDATEs are late and once.
THEOREM UsesAreBounded == K!Spec => []HourlyUses
  BY TokensPromise, TokensInit, TokensNext, PTL DEF K!Spec
=============================================================================
