--------------------------- MODULE GitMirror_proofs ---------------------------
(***************************************************************************)
(* Theorems about GitMirror, for any handlers, retries, bounds and faults; *)
(* the last one for one server.                                            *)
(***************************************************************************)
EXTENDS GitMirror, TLAPS

LEMMA SettledType ==
    ASSUME NEW r \in Row, NEW failed \in BOOLEAN
    PROVE  Settled(r, failed) \in Row
<1>1. r.attempts \in Nat /\ AttemptsAfter(r) \in Nat
  BY DEF Row, AttemptsAfter
<1>2. CASE failed
  <2>1. CASE RetriesLeft(AttemptsAfter(r))
    BY <1>1, <1>2, <2>1 DEF Settled, Row
  <2>2. CASE ~RetriesLeft(AttemptsAfter(r))
    BY <1>1, <1>2, <2>2 DEF Settled, Row
  <2> QED BY <2>1, <2>2
<1>3. CASE ~failed
  BY <1>3 DEF Settled, Row
<1> QED BY <1>2, <1>3

LEMMA QueuedType ==
    ASSUME NEW r \in Row, NEW kind, NEW now \in Nat
    PROVE  Queued(r, kind, now) \in Row
BY DEF Queued, Row

-----------------------------------------------------------------------------
(* Type correctness.                                                       *)

LEMMA Blank ==
    /\ NewRow \in Row
    /\ NoRun \in Scheduler
    /\ \A pc \in {"new", "read", "save", "done"} : NoRequest(pc) \in Handler
<1>1. NewRow \in Row
  BY DEF NewRow, Row
<1> QED BY <1>1 DEF NoRun, Scheduler, NoRequest, Handler, Kind

LEMMA TypeInit == Init => TypeOK
<1> SUFFICES ASSUME Init PROVE TypeOK
  OBVIOUS
<1>1. NoRequest("new") \in Handler /\ NoRun \in Scheduler /\ NewRow \in Row
  BY Blank
<1>2. req \in [Request -> Handler] /\ worker \in [Worker -> Scheduler] /\ row \in Row
  BY <1>1 DEF Init
<1> QED BY <1>2 DEF Init, TypeOK

LEMMA TypeHandle ==
    ASSUME TypeOK, NEW r \in Request, Handle(r)
    PROVE  TypeOK'
<1> USE DEF Kind, Actor, db, git, history
<1>0. req[r] \in Handler /\ row \in Row /\ clock \in Nat /\ tree \in Nat
  BY DEF TypeOK
<1>1. CASE BeginRequest(r)
  <2>1. PICK kind \in Kind :
          /\ req' = [req EXCEPT ![r] = [NoRequest("read") EXCEPT !.kind = kind]]
          /\ tree' = IF kind = "write" THEN tree + 1 ELSE tree
          /\ reviewed' = IF kind = "confirm" THEN reviewed \cup {remote.head}
                                             ELSE reviewed
    BY <1>1 DEF BeginRequest
  <2>2. [NoRequest("read") EXCEPT !.kind = kind] \in Handler
    BY DEF NoRequest, Handler, NewRow, Row
  <2>3. tree' \in Nat /\ reviewed' \subseteq Nat
    BY <2>1, <1>0 DEF TypeOK
  <2> QED BY <1>1, <2>1, <2>2, <2>3 DEF BeginRequest, TypeOK
<1>2. CASE ReadToQueue(r)
  <2>1. clock' \in Nat /\ Queued(row, req[r].kind, clock') \in Row
    BY <1>0, <1>2, QueuedType DEF ReadToQueue
  <2>2. req' \in [Request -> Handler]
    <3>1. PICK image \in Row : image = Queued(row, req[r].kind, clock')
      BY <2>1
    <3>2. [req[r] EXCEPT !.pc = "save", !.image = image] \in Handler
      BY <1>0 DEF TypeOK, Handler
    <3>3. req' = [req EXCEPT ![r] = [req[r] EXCEPT !.pc = "save", !.image = image]]
      BY <1>0, <1>2, <3>1 DEF ReadToQueue, TypeOK
    <3> QED BY <1>0, <3>2, <3>3 DEF TypeOK
  <2> QED BY <1>2, <2>1, <2>2 DEF ReadToQueue, Fresh, TypeOK
<1>3. CASE ReadSettings(r)
  <2>1. PICK force \in {row.force, FALSE} :
          req' = [req EXCEPT ![r].pc = "save", ![r].image = [row EXCEPT !.force = force]]
    BY <1>3 DEF ReadSettings
  <2>2. [row EXCEPT !.force = force] \in Row
    BY <1>0 DEF Row
  <2>3. req' \in [Request -> Handler]
    <3>1. PICK image \in Row : image = [row EXCEPT !.force = force]
      BY <2>2
    <3>2. [req[r] EXCEPT !.pc = "save", !.image = image] \in Handler
      BY <1>0 DEF TypeOK, Handler
    <3>3. req' = [req EXCEPT ![r] = [req[r] EXCEPT !.pc = "save", !.image = image]]
      BY <1>0, <2>1, <3>1 DEF TypeOK
    <3> QED BY <1>0, <3>2, <3>3 DEF TypeOK
  <2> QED BY <1>3, <2>3 DEF ReadSettings, Fresh, TypeOK
<1>4. CASE SaveRequest(r)
  <2>1. req[r].image \in Row /\ NoRequest("done") \in Handler
    BY <1>0 DEF Handler, NoRequest, NewRow, Row
  <2> QED BY <1>4, <2>1 DEF SaveRequest, Upsert, TypeOK
<1> QED BY <1>1, <1>2, <1>3, <1>4 DEF Handle

LEMMA TypeRun ==
    ASSUME TypeOK, NEW w \in Worker, Run(w)
    PROVE  TypeOK'
<1> USE DEF Actor, db, git, history
<1>0. worker[w] \in Scheduler /\ row \in Row /\ clock \in Nat /\ tree \in Nat
      /\ worker[w].image \in Row /\ remote \in [head : Nat, foreign : BOOLEAN]
  BY DEF TypeOK, Scheduler
<1>1. [NoRun EXCEPT !.pc = "read"] \in Scheduler /\ NoRun \in Scheduler
      /\ [NoRun EXCEPT !.pc = "settle", !.failed = worker[w].failed] \in Scheduler
  BY <1>0 DEF NoRun, NewRow, Row, Scheduler
<1>2. NoPush(w) => worker' \in [Worker -> Scheduler]
  <2> DEFINE image == [worker[w].image EXCEPT !.state = "idle", !.force = FALSE]
  <2>1. image \in Row
    BY <1>0 DEF Row
  <2>2. [worker[w] EXCEPT !.pc = "save", !.image = image] \in Scheduler
    BY <1>0, <2>1 DEF Scheduler
  <2>3. NoPush(w) =>
          worker' = [worker EXCEPT ![w] = [worker[w] EXCEPT !.pc = "save", !.image = image]]
    BY <1>0 DEF NoPush, TypeOK
  <2> QED BY <2>2, <2>3 DEF TypeOK
<1>3. ASSUME NEW state \in {"idle", "error"}, FailSync(w, state)
      PROVE  worker' \in [Worker -> Scheduler]
  <2> DEFINE image == [worker[w].image EXCEPT !.state = state]
  <2>1. image \in Row
    BY <1>0 DEF Row
  <2>2. [worker[w] EXCEPT !.pc = "save", !.failed = TRUE, !.image = image] \in Scheduler
    BY <1>0, <2>1 DEF Scheduler
  <2>3. worker' = [worker EXCEPT ![w] =
                     [worker[w] EXCEPT !.pc = "save", !.failed = TRUE, !.image = image]]
    BY <1>0, <1>3 DEF FailSync, TypeOK
  <2> QED BY <2>2, <2>3 DEF TypeOK
<1>4. CASE ListQueued(w) \/ StampStart(w) \/ ReadForSync(w) \/ CopyTree(w) \/ Fetch(w)
  <2>1. worker' \in [Worker -> Scheduler]
    BY <1>0, <1>4 DEF ListQueued, StampStart, ReadForSync, CopyTree, Fetch, TypeOK, Scheduler
  <2> QED BY <1>0, <1>4, <2>1
       DEF ListQueued, StampStart, ReadForSync, CopyTree, Fetch, Fresh, TypeOK
<1>5. CASE Claim(w)
  <2>1. CASE Claimable
    <3>1. row' \in Row
      BY <1>0, <1>5, <2>1 DEF Claim, Row, Scheduler
    <3> QED BY <1>1, <1>5, <2>1, <3>1 DEF Claim, TypeOK
  <2>2. CASE ~Claimable
    BY <1>1, <1>5, <2>2 DEF Claim, TypeOK
  <2> QED BY <2>1, <2>2
<1>6. CASE CopyFails(w) \/ FinalizeFails(w)
  <2>1. worker' \in [Worker -> Scheduler]
    BY <1>3, <1>6 DEF CopyFails, FinalizeFails
  <2> QED BY <1>6, <2>1 DEF CopyFails, FinalizeFails, TypeOK
<1>7. CASE FetchBlocked(w) \/ PushFails(w)
  <2>1. worker' \in [Worker -> Scheduler]
    BY <1>2, <1>7 DEF FetchBlocked, PushFails
  <2> QED BY <1>7, <2>1 DEF FetchBlocked, PushFails, TypeOK
<1>8. CASE Push(w)
  <2>1. worker' \in [Worker -> Scheduler]
    BY <1>2, <1>8 DEF Push
  <2>2. remote' \in [head : Nat, foreign : BOOLEAN] /\ overwritten' \subseteq Nat
    BY <1>0, <1>8 DEF Push, TypeOK
  <2> QED BY <1>8, <2>1, <2>2 DEF Push, TypeOK
<1>9. CASE SaveSync(w)
  BY <1>0, <1>1, <1>9 DEF SaveSync, Upsert, TypeOK
<1>10. CASE ReadToSettle(w)
  <2>1. Settled(row, worker[w].failed) \in Row
    BY <1>0, SettledType DEF Scheduler
  <2>2. [worker[w] EXCEPT !.pc = "settled", !.image = Settled(row, worker[w].failed)]
        \in Scheduler
    BY <1>0, <2>1 DEF Scheduler
  <2>3. worker' = [worker EXCEPT ![w] =
          [worker[w] EXCEPT !.pc = "settled", !.image = Settled(row, worker[w].failed)]]
    BY <1>10, <1>0 DEF ReadToSettle, TypeOK, Scheduler
  <2>4. worker' \in [Worker -> Scheduler]
    BY <2>2, <2>3 DEF TypeOK
  <2> QED BY <1>10, <2>4 DEF ReadToSettle, Fresh, TypeOK
<1>11. CASE SaveSettled(w)
  BY <1>0, <1>1, <1>11 DEF SaveSettled, Upsert, TypeOK
<1> QED BY <1>4, <1>5, <1>6, <1>7, <1>8, <1>9, <1>10, <1>11 DEF Run

LEMMA TypeWorld ==
    ASSUME TypeOK,
           \/ BackoffElapses \/ ForeignPush
           \/ \E r \in Request : LoseRequest(r)
           \/ \E w \in Worker : LoseWorker(w) \/ SaveSyncFails(w)
    PROVE  TypeOK'
<1> USE DEF db, git, history
<1>1. CASE BackoffElapses
  BY <1>1 DEF BackoffElapses, TypeOK, Row
<1>2. CASE ForeignPush
  BY <1>2 DEF ForeignPush, TypeOK
<1>3. ASSUME NEW r \in Request, LoseRequest(r) PROVE TypeOK'
  <2>1. NoRequest("done") \in Handler
    BY DEF NoRequest, Handler, NewRow, Row, Kind
  <2> QED BY <1>3, <2>1 DEF LoseRequest, Fault, TypeOK
<1>4. ASSUME NEW w \in Worker, LoseWorker(w) \/ SaveSyncFails(w) PROVE TypeOK'
  <2>1. NoRun \in Scheduler /\ [NoRun EXCEPT !.pc = "settle", !.failed = TRUE] \in Scheduler
    BY DEF NoRun, NewRow, Row, Scheduler
  <2> QED BY <1>4, <2>1 DEF LoseWorker, SaveSyncFails, Fault, TypeOK
<1> QED BY <1>1, <1>2, <1>3, <1>4

LEMMA TypeNext == TypeOK /\ [Next]_vars => TypeOK'
<1> SUFFICES ASSUME TypeOK, [Next]_vars PROVE TypeOK'
  OBVIOUS
<1>1. CASE UNCHANGED vars
  BY <1>1 DEF vars, db, git, history, TypeOK
<1>2. CASE Next
  BY <1>2, TypeHandle, TypeRun, TypeWorld DEF Next
<1> QED BY <1>1, <1>2

(* Every reachable state of the mirror, its handlers and its workers is    *)
(* well typed.                                                             *)
THEOREM Typing == Spec => []TypeOK
BY TypeInit, TypeNext, PTL DEF Spec

-----------------------------------------------------------------------------
(* Who may overwrite foreign commits: the flag is in the row, or in an     *)
(* image of it, only after a user confirmed.                               *)

ForceConfirmed ==
  /\ row.force => reviewed # {}
  /\ \A r \in Request :
       /\ req[r].image.force => reviewed # {}
       /\ req[r].pc = "read" /\ req[r].kind = "confirm" => reviewed # {}
  /\ \A w \in Worker : worker[w].image.force => reviewed # {}

ForceInv == TypeOK /\ ForceConfirmed /\ UnconfirmedNeverOverwritten

LEMMA ForceInit == Init => ForceInv
<1> SUFFICES ASSUME Init PROVE ForceConfirmed /\ UnconfirmedNeverOverwritten
  BY TypeInit DEF ForceInv
<1> QED BY DEF Init, ForceConfirmed, UnconfirmedNeverOverwritten, NewRow, NoRequest, NoRun

LEMMA ForceHandle ==
    ASSUME ForceInv, NEW r \in Request, Handle(r)
    PROVE  ForceConfirmed' /\ UnconfirmedNeverOverwritten'
<1> USE DEF db, git, history
<1>0. req \in [Request -> Handler] /\ row \in Row
      /\ (reviewed # {} => reviewed' # {}) /\ UNCHANGED <<overwritten, worker>>
  <2>1. UNCHANGED <<overwritten, worker>>
    BY DEF Handle, BeginRequest, ReadToQueue, ReadSettings, SaveRequest
  <2>2. reviewed \subseteq reviewed'
    BY DEF Handle, BeginRequest, ReadToQueue, ReadSettings, SaveRequest
  <2> QED BY <2>1, <2>2 DEF ForceInv, TypeOK
<1>1. UnconfirmedNeverOverwritten'
  BY <1>0 DEF ForceInv, UnconfirmedNeverOverwritten
<1>2. CASE BeginRequest(r)
  <2>1. PICK kind \in Kind :
          /\ req' = [req EXCEPT ![r] = [NoRequest("read") EXCEPT !.kind = kind]]
          /\ reviewed' = IF kind = "confirm" THEN reviewed \cup {remote.head}
                                             ELSE reviewed
    BY <1>2 DEF BeginRequest
  <2>2. \A q \in Request : req'[q] = IF q = r THEN [NoRequest("read") EXCEPT !.kind = kind]
                                             ELSE req[q]
    BY <1>0, <2>1
  <2>3. ~req'[r].image.force /\ req'[r].kind = kind
    BY <2>2 DEF NoRequest, NewRow
  <2>4. kind = "confirm" => reviewed' # {}
    BY <2>1
  <2>5. row' = row
    BY <1>2 DEF BeginRequest
  <2> QED BY <1>0, <1>1, <2>2, <2>3, <2>4, <2>5 DEF ForceInv, ForceConfirmed
<1>3. CASE ReadToQueue(r)
  <2>1. \A q \in Request :
          req'[q] = IF q = r THEN [req[r] EXCEPT !.pc = "save",
                                     !.image = Queued(row, req[r].kind, clock')]
                            ELSE req[q]
    BY <1>0, <1>3 DEF ReadToQueue
  <2>2. req'[r].image = Queued(row, req[r].kind, clock') /\ req'[r].pc = "save"
    BY <1>0, <2>1 DEF Handler
  <2>3. req'[r].image.force = ((req[r].kind = "confirm") \/ row.force)
    BY <1>0, <2>2 DEF Queued, Row
  <2>4. req[r].pc = "read" /\ UNCHANGED <<row, reviewed>>
    BY <1>3 DEF ReadToQueue, Fresh
  <2>5. req'[r].image.force => reviewed # {}
    BY <2>3, <2>4 DEF ForceInv, ForceConfirmed
  <2> QED BY <1>0, <1>1, <2>1, <2>2, <2>4, <2>5 DEF ForceInv, ForceConfirmed
<1>4. CASE ReadSettings(r)
  <2>1. PICK force \in {row.force, FALSE} :
          req' = [req EXCEPT ![r].pc = "save", ![r].image = [row EXCEPT !.force = force]]
    BY <1>4 DEF ReadSettings
  <2>2. \A q \in Request : req'[q] = IF q = r
          THEN [req[r] EXCEPT !.pc = "save", !.image = [row EXCEPT !.force = force]]
          ELSE req[q]
    BY <1>0, <2>1
  <2>3. req'[r].image = [row EXCEPT !.force = force] /\ req'[r].pc = "save"
    BY <1>0, <2>2 DEF Handler
  <2>4. req'[r].image.force = force
    BY <1>0, <2>3 DEF Row
  <2>5. UNCHANGED <<row, reviewed>>
    BY <1>4 DEF ReadSettings, Fresh
  <2>6. req'[r].image.force => reviewed # {}
    BY <2>4 DEF ForceInv, ForceConfirmed
  <2> QED BY <1>0, <1>1, <2>2, <2>3, <2>5, <2>6 DEF ForceInv, ForceConfirmed
<1>5. CASE SaveRequest(r)
  <2>1. \A q \in Request : req'[q] = IF q = r THEN NoRequest("done") ELSE req[q]
    BY <1>0, <1>5 DEF SaveRequest
  <2>2. ~req'[r].image.force /\ req'[r].pc = "done"
    BY <2>1 DEF NoRequest, NewRow
  <2>3. row' = req[r].image /\ UNCHANGED reviewed
    BY <1>5 DEF SaveRequest, Upsert
  <2> QED BY <1>0, <1>1, <2>1, <2>2, <2>3 DEF ForceInv, ForceConfirmed
<1> QED BY <1>2, <1>3, <1>4, <1>5 DEF Handle

(* What a step of a worker does to the force flags.                        *)
LEMMA ForceStep ==
    ASSUME TypeOK, NEW w \in Worker, Run(w) \/ LoseWorker(w) \/ SaveSyncFails(w)
    PROVE  /\ UNCHANGED <<req, reviewed>>
           /\ \A v \in Worker : v # w => worker'[v] = worker[v]
           /\ worker'[w].image.force => worker[w].image.force \/ row.force
           /\ row'.force => worker[w].image.force \/ row.force
<1> USE DEF db, git, history
<1>0. worker \in [Worker -> Scheduler] /\ row \in Row /\ worker[w] \in Scheduler
      /\ worker[w].image \in Row
  BY DEF TypeOK, Scheduler
<1>1. ~NoRun.image.force
      /\ ~[NoRun EXCEPT !.pc = "read"].image.force
      /\ ~[NoRun EXCEPT !.pc = "settle", !.failed = worker[w].failed].image.force
      /\ ~[NoRun EXCEPT !.pc = "settle", !.failed = TRUE].image.force
  BY DEF NoRun, NewRow
<1>2. CASE ListQueued(w) \/ StampStart(w) \/ CopyTree(w) \/ Fetch(w)
  <2>1. UNCHANGED <<row, req, reviewed>>
    BY <1>2 DEF ListQueued, StampStart, CopyTree, Fetch
  <2>2. worker'[w].image = worker[w].image /\ \A v \in Worker : v # w => worker'[v] = worker[v]
    BY <1>0, <1>2 DEF ListQueued, StampStart, CopyTree, Fetch, Scheduler
  <2> QED BY <2>1, <2>2
<1>3. CASE ReadForSync(w)
  <2>1. worker'[w].image = row /\ \A v \in Worker : v # w => worker'[v] = worker[v]
    BY <1>0, <1>3 DEF ReadForSync, Scheduler
  <2> QED BY <1>3, <2>1 DEF ReadForSync, Fresh
<1>4. CASE Claim(w)
  <2>1. UNCHANGED <<req, reviewed>>
    BY <1>4 DEF Claim
  <2>2. CASE Claimable
    <3>1. row'.force = row.force
      BY <1>0, <1>4, <2>2 DEF Claim, Row
    <3> QED BY <1>0, <1>1, <1>4, <2>1, <2>2, <3>1 DEF Claim
  <2>3. CASE ~Claimable
    BY <1>0, <1>1, <1>4, <2>1, <2>3 DEF Claim
  <2> QED BY <2>2, <2>3
<1>5. CASE CopyFails(w) \/ FinalizeFails(w)
  <2>1. PICK state \in {"idle", "error"} : FailSync(w, state)
    BY <1>5 DEF CopyFails, FinalizeFails
  <2>2. worker'[w].image = [worker[w].image EXCEPT !.state = state]
        /\ \A v \in Worker : v # w => worker'[v] = worker[v]
    BY <1>0, <2>1 DEF FailSync, Scheduler
  <2>3. worker'[w].image.force = worker[w].image.force
    BY <1>0, <2>2 DEF Row
  <2> QED BY <1>5, <2>2, <2>3 DEF CopyFails, FinalizeFails
<1>6. CASE FetchBlocked(w) \/ PushFails(w) \/ Push(w)
  <2>1. NoPush(w)
    BY <1>6 DEF FetchBlocked, PushFails, Push
  <2>2. worker'[w].image = [worker[w].image EXCEPT !.state = "idle", !.force = FALSE]
        /\ \A v \in Worker : v # w => worker'[v] = worker[v]
    BY <1>0, <2>1 DEF NoPush, Scheduler
  <2>3. ~worker'[w].image.force
    BY <1>0, <2>2 DEF Row
  <2> QED BY <1>6, <2>2, <2>3 DEF FetchBlocked, PushFails, Push
<1>7. CASE SaveSync(w)
  BY <1>0, <1>1, <1>7 DEF SaveSync, Upsert
<1>8. CASE ReadToSettle(w)
  <2>1. worker'[w].image = Settled(row, worker[w].failed)
        /\ \A v \in Worker : v # w => worker'[v] = worker[v]
    BY <1>0, <1>8 DEF ReadToSettle, Scheduler
  <2>2. worker'[w].image.force = row.force
    BY <1>0, <2>1 DEF Settled, Row
  <2> QED BY <1>8, <2>1, <2>2 DEF ReadToSettle, Fresh
<1>9. CASE SaveSettled(w)
  BY <1>0, <1>1, <1>9 DEF SaveSettled, Upsert
<1>10. CASE LoseWorker(w) \/ SaveSyncFails(w)
  BY <1>0, <1>1, <1>10 DEF LoseWorker, SaveSyncFails
<1> QED BY <1>2, <1>3, <1>4, <1>5, <1>6, <1>7, <1>8, <1>9, <1>10 DEF Run

LEMMA ForceNext == ForceInv /\ [Next]_vars => ForceInv'
<1> SUFFICES ASSUME ForceInv, [Next]_vars
             PROVE  ForceConfirmed' /\ UnconfirmedNeverOverwritten'
  BY TypeNext DEF ForceInv
<1>0. TypeOK
  BY DEF ForceInv
<1>1. CASE UNCHANGED vars
  BY <1>1 DEF vars, db, git, history, ForceInv, ForceConfirmed, UnconfirmedNeverOverwritten
<1>2. ASSUME NEW r \in Request, Handle(r)
      PROVE  ForceConfirmed' /\ UnconfirmedNeverOverwritten'
  BY <1>2, ForceHandle
<1>3. ASSUME NEW w \in Worker, Run(w) \/ LoseWorker(w) \/ SaveSyncFails(w)
      PROVE  ForceConfirmed' /\ UnconfirmedNeverOverwritten'
  <2>1. ForceConfirmed'
    BY <1>0, <1>3, ForceStep DEF ForceInv, ForceConfirmed
  <2>2. overwritten' # overwritten => worker[w].image.force
    <3>1. SUFFICES ASSUME overwritten' # overwritten PROVE worker[w].image.force
      OBVIOUS
    <3>2. Push(w)
      BY <1>3, <3>1 DEF Run, ListQueued, StampStart, Claim, ReadForSync, CopyTree, CopyFails,
           FinalizeFails, FetchBlocked, Fetch, PushFails, SaveSync, ReadToSettle,
           SaveSettled, LoseWorker, SaveSyncFails, history
    <3> QED BY <3>1, <3>2 DEF Push, PushAccepted
  <2> QED BY <1>0, <1>3, <2>1, <2>2, ForceStep
       DEF ForceInv, ForceConfirmed, UnconfirmedNeverOverwritten
<1>4. CASE BackoffElapses \/ ForeignPush
  <2>1. UNCHANGED <<req, worker, reviewed, overwritten>> /\ row'.force = row.force
    BY <1>0, <1>4 DEF BackoffElapses, ForeignPush, TypeOK, Row, history, db
  <2> QED BY <2>1 DEF ForceInv, ForceConfirmed, UnconfirmedNeverOverwritten
<1>5. ASSUME NEW r \in Request, LoseRequest(r)
      PROVE  ForceConfirmed' /\ UnconfirmedNeverOverwritten'
  <2>1. \A q \in Request : req'[q] = IF q = r THEN NoRequest("done") ELSE req[q]
    BY <1>0, <1>5 DEF LoseRequest, TypeOK
  <2>2. ~req'[r].image.force /\ req'[r].pc = "done"
    BY <2>1 DEF NoRequest, NewRow
  <2> QED BY <1>5, <2>1, <2>2
       DEF LoseRequest, db, ForceInv, ForceConfirmed, UnconfirmedNeverOverwritten
<1> QED BY <1>1, <1>2, <1>3, <1>4, <1>5 DEF Next

(* For any number of servers, stale writes and faults: foreign commits are *)
(* overwritten only after some user confirmed an overwrite.                *)
THEOREM ConfirmedOverwrites == Spec => []UnconfirmedNeverOverwritten
<1>1. ForceInv => UnconfirmedNeverOverwritten
  BY DEF ForceInv
<1> QED BY <1>1, ForceInit, ForceNext, PTL DEF Spec

-----------------------------------------------------------------------------
(* Retries: every row image that would queue or run the mirror has retries *)
(* left, so writing it back late does not matter.                          *)

WithinBudget(r) == r.state \in {"queued", "running"} => r.attempts <= RetryLimit

BudgetInv ==
  /\ TypeOK
  /\ WithinBudget(row)
  /\ \A r \in Request : WithinBudget(req[r].image)
  /\ \A w \in Worker : WithinBudget(worker[w].image)

LEMMA NewWithinBudget == WithinBudget(NewRow)
BY DEF WithinBudget, NewRow

LEMMA BudgetInit == Init => BudgetInv
BY TypeInit, NewWithinBudget DEF Init, BudgetInv, NoRequest, NoRun

LEMMA QueuedWithinBudget ==
    ASSUME NEW r \in Row, WithinBudget(r), NEW kind, NEW now \in Nat
    PROVE  WithinBudget(Queued(r, kind, now))
BY RetryAssumption DEF WithinBudget, Queued, Row

LEMMA SettledWithinBudget ==
    ASSUME NEW r \in Row, NEW failed \in BOOLEAN
    PROVE  WithinBudget(Settled(r, failed))
<1>1. CASE failed
  <2>1. CASE RetriesLeft(AttemptsAfter(r))
    <3>1. Settled(r, failed).attempts = AttemptsAfter(r)
      BY <1>1, <2>1 DEF Settled, Row
    <3> QED BY <2>1, <3>1 DEF WithinBudget, RetriesLeft
  <2>2. CASE ~RetriesLeft(AttemptsAfter(r))
    <3>1. Settled(r, failed).state = "error"
      BY <1>1, <2>2 DEF Settled, Row
    <3> QED BY <3>1 DEF WithinBudget
  <2> QED BY <2>1, <2>2
<1>2. CASE ~failed
  <2>1. Settled(r, failed).attempts = 0
    BY <1>2 DEF Settled, Row
  <2> QED BY <2>1, RetryAssumption DEF WithinBudget
<1> QED BY <1>1, <1>2

LEMMA BudgetHandle ==
    ASSUME BudgetInv, NEW r \in Request, Handle(r) \/ LoseRequest(r)
    PROVE  /\ WithinBudget(row)'
           /\ \A q \in Request : WithinBudget(req[q].image)'
           /\ UNCHANGED worker
<1> USE DEF db, git, history
<1>0. req \in [Request -> Handler] /\ row \in Row /\ WithinBudget(row) /\ clock \in Nat
      /\ \A q \in Request : WithinBudget(req[q].image)
  BY DEF BudgetInv, TypeOK
<1>1. SUFFICES /\ row' = row \/ row' = req[r].image
               /\ \A q \in Request : q # r => req'[q] = req[q]
               /\ WithinBudget(req'[r].image)
               /\ UNCHANGED worker
  BY <1>0
<1>2. CASE BeginRequest(r)
  <2>1. PICK kind \in Kind : req' = [req EXCEPT ![r] = [NoRequest("read") EXCEPT !.kind = kind]]
    BY <1>2 DEF BeginRequest
  <2>2. req'[r].image = NewRow /\ \A q \in Request : q # r => req'[q] = req[q]
    BY <1>0, <2>1 DEF NoRequest
  <2> QED BY <1>2, <2>2, NewWithinBudget DEF BeginRequest
<1>3. CASE ReadToQueue(r)
  <2>1. req'[r].image = Queued(row, req[r].kind, clock') /\ clock' \in Nat
        /\ \A q \in Request : q # r => req'[q] = req[q]
    BY <1>0, <1>3 DEF ReadToQueue, Handler
  <2> QED BY <1>0, <1>3, <2>1, QueuedWithinBudget DEF ReadToQueue, Fresh
<1>4. CASE ReadSettings(r)
  <2>1. PICK force \in {row.force, FALSE} :
          req' = [req EXCEPT ![r].pc = "save", ![r].image = [row EXCEPT !.force = force]]
    BY <1>4 DEF ReadSettings
  <2>2. req'[r].image = [row EXCEPT !.force = force]
        /\ \A q \in Request : q # r => req'[q] = req[q]
    BY <1>0, <2>1 DEF Handler
  <2>3. WithinBudget(req'[r].image)
    BY <1>0, <2>2 DEF WithinBudget, Row
  <2> QED BY <1>4, <2>2, <2>3 DEF ReadSettings, Fresh
<1>5. CASE SaveRequest(r) \/ LoseRequest(r)
  <2>1. req'[r].image = NewRow /\ \A q \in Request : q # r => req'[q] = req[q]
    BY <1>0, <1>5 DEF SaveRequest, LoseRequest, NoRequest
  <2> QED BY <1>5, <2>1, NewWithinBudget DEF SaveRequest, Upsert, LoseRequest
<1> QED BY <1>2, <1>3, <1>4, <1>5 DEF Handle

LEMMA BudgetRun ==
    ASSUME BudgetInv, NEW w \in Worker, Run(w) \/ LoseWorker(w) \/ SaveSyncFails(w)
    PROVE  /\ WithinBudget(row)'
           /\ \A v \in Worker : WithinBudget(worker[v].image)'
           /\ UNCHANGED req
<1> USE DEF db, git, history
<1>0. worker \in [Worker -> Scheduler] /\ row \in Row /\ WithinBudget(row)
      /\ worker[w] \in Scheduler /\ worker[w].image \in Row
      /\ \A v \in Worker : WithinBudget(worker[v].image)
  BY DEF BudgetInv, TypeOK, Scheduler
<1>1. SUFFICES /\ WithinBudget(row')
               /\ \A v \in Worker : v # w => worker'[v] = worker[v]
               /\ WithinBudget(worker'[w].image)
               /\ UNCHANGED req
  BY <1>0
<1>2. NoRun.image = NewRow
      /\ [NoRun EXCEPT !.pc = "read"].image = NewRow
      /\ [NoRun EXCEPT !.pc = "settle", !.failed = worker[w].failed].image = NewRow
      /\ [NoRun EXCEPT !.pc = "settle", !.failed = TRUE].image = NewRow
  BY DEF NoRun
<1>3. CASE ListQueued(w) \/ StampStart(w) \/ CopyTree(w) \/ Fetch(w) \/ ReadForSync(w)
  <2>1. worker'[w].image \in {worker[w].image, row}
        /\ \A v \in Worker : v # w => worker'[v] = worker[v]
    BY <1>0, <1>3 DEF ListQueued, StampStart, CopyTree, Fetch, ReadForSync, Scheduler
  <2> QED BY <1>0, <1>3, <2>1 DEF ListQueued, StampStart, CopyTree, Fetch, ReadForSync, Fresh
<1>4. CASE Claim(w)
  <2>1. worker'[w].image = NewRow /\ \A v \in Worker : v # w => worker'[v] = worker[v]
    BY <1>0, <1>2, <1>4 DEF Claim
  <2>2. WithinBudget(row')
    BY <1>0, <1>4 DEF Claim, Claimable, WithinBudget, Row
  <2> QED BY <1>4, <2>1, <2>2, NewWithinBudget DEF Claim
<1>5. CASE CopyFails(w) \/ FinalizeFails(w)
  <2>1. PICK state \in {"idle", "error"} : FailSync(w, state)
    BY <1>5 DEF CopyFails, FinalizeFails
  <2>2. worker'[w].image = [worker[w].image EXCEPT !.state = state]
        /\ \A v \in Worker : v # w => worker'[v] = worker[v]
    BY <1>0, <2>1 DEF FailSync, Scheduler
  <2>3. WithinBudget(worker'[w].image)
    BY <1>0, <2>2 DEF WithinBudget, Row
  <2> QED BY <1>0, <1>5, <2>2, <2>3 DEF CopyFails, FinalizeFails
<1>6. CASE FetchBlocked(w) \/ PushFails(w) \/ Push(w)
  <2>1. NoPush(w)
    BY <1>6 DEF FetchBlocked, PushFails, Push
  <2>2. worker'[w].image = [worker[w].image EXCEPT !.state = "idle", !.force = FALSE]
        /\ \A v \in Worker : v # w => worker'[v] = worker[v]
    BY <1>0, <2>1 DEF NoPush, Scheduler
  <2>3. WithinBudget(worker'[w].image)
    BY <1>0, <2>2 DEF WithinBudget, Row
  <2> QED BY <1>0, <1>6, <2>2, <2>3 DEF FetchBlocked, PushFails, Push
<1>7. CASE ReadToSettle(w)
  <2>1. worker'[w].image = Settled(row, worker[w].failed)
        /\ \A v \in Worker : v # w => worker'[v] = worker[v]
    BY <1>0, <1>7 DEF ReadToSettle, Scheduler
  <2>2. WithinBudget(worker'[w].image)
    BY <1>0, <2>1, SettledWithinBudget DEF Scheduler
  <2> QED BY <1>0, <1>7, <2>1, <2>2 DEF ReadToSettle, Fresh
<1>8. CASE SaveSync(w) \/ SaveSettled(w) \/ LoseWorker(w) \/ SaveSyncFails(w)
  <2>1. worker'[w].image = NewRow /\ \A v \in Worker : v # w => worker'[v] = worker[v]
    BY <1>0, <1>2, <1>8 DEF SaveSync, SaveSettled, LoseWorker, SaveSyncFails
  <2>2. row' \in {row, worker[w].image}
    BY <1>8 DEF SaveSync, SaveSettled, LoseWorker, SaveSyncFails, Upsert
  <2> QED BY <1>0, <1>8, <2>1, <2>2, NewWithinBudget
       DEF SaveSync, SaveSettled, LoseWorker, SaveSyncFails
<1> QED BY <1>3, <1>4, <1>5, <1>6, <1>7, <1>8 DEF Run

LEMMA BudgetNext == BudgetInv /\ [Next]_vars => BudgetInv'
<1> SUFFICES ASSUME BudgetInv, [Next]_vars PROVE BudgetInv'
  OBVIOUS
<1>0. TypeOK'
  BY TypeNext DEF BudgetInv
<1>1. CASE UNCHANGED vars
  BY <1>0, <1>1 DEF vars, db, git, history, BudgetInv, WithinBudget
<1>2. ASSUME NEW r \in Request, Handle(r) \/ LoseRequest(r) PROVE BudgetInv'
  BY <1>0, <1>2, BudgetHandle DEF BudgetInv, WithinBudget
<1>3. ASSUME NEW w \in Worker, Run(w) \/ LoseWorker(w) \/ SaveSyncFails(w)
      PROVE  BudgetInv'
  BY <1>0, <1>3, BudgetRun DEF BudgetInv, WithinBudget
<1>4. CASE BackoffElapses \/ ForeignPush
  <2>1. UNCHANGED <<req, worker, row.state, row.attempts>>
    BY <1>4 DEF BackoffElapses, ForeignPush, BudgetInv, TypeOK, Row, db
  <2> QED BY <1>0, <2>1 DEF BudgetInv, WithinBudget
<1> QED BY <1>1, <1>2, <1>3, <1>4 DEF Next

(* For any number of servers, stale writes and faults: what waits or runs  *)
(* has retries left.                                                       *)
THEOREM BoundedRetries == Spec => []RetryBudgetKept
<1>1. BudgetInv => RetryBudgetKept
  BY DEF BudgetInv, WithinBudget, RetryBudgetKept
<1> QED BY <1>1, BudgetInit, BudgetNext, PTL DEF Spec

-----------------------------------------------------------------------------
(* One server, no stale write.  An image that is not stale agrees with the *)
(* row, so a save only moves the state on; and whenever the working tree   *)
(* is behind the file tree, something that will not be overwritten still   *)
(* says so: a handler on its way, the row, or a worker that is bound to    *)
(* fail, to requeue or to write a stale image.                             *)

Undisturbed == ~overlap /\ faults = 0

Pending == \E r \in Request : req[r].kind = "write" /\ req[r].pc \in {"read", "save"}

FreshImage(r) ==
  LET image == req[r].image IN
  /\ image.started = row.started
  /\ req[r].kind = "settings" =>
       image.state = row.state /\ image.requested = row.requested
  /\ req[r].kind # "settings" =>
       /\ image.state = IF row.state = "running" THEN "running" ELSE "queued"
       /\ image.requested > row.started

StampsOK(w) ==
  /\ row.started <= clock /\ worker[w].stamp <= clock
  /\ worker[w].pc = "claim" => worker[w].stamp # 0
  /\ worker[w].pc \notin {"idle", "listed", "claim"} => row.started # 0

WorkerImage(w) ==
  /\ worker[w].pc \in {"copy", "fetch", "push", "save", "settled"} /\ w \notin stale
       => worker[w].image.started = row.started
  /\ worker[w].pc = "save" => worker[w].image.state \in {"idle", "error"}
  /\ worker[w].pc = "settled" => worker[w].image.state # "running"

Remembered(w) ==
  /\ worker[w].pc \in {"idle", "listed", "claim"} => row.state \in {"queued", "error"}
  /\ worker[w].pc \in {"fetch", "push"} => w \in stale
  /\ worker[w].pc = "save" => w \in stale \/ worker[w].failed
  /\ worker[w].pc = "settle" => worker[w].failed \/ RequestedDuringRun(row)
  /\ worker[w].pc = "settled" => w \in stale \/ worker[w].image.state # "idle"

(* w is inside SyncActiveMirror.                                           *)
Syncing(w) == worker[w].pc \in {"read", "copy", "fetch", "push", "save"}

ServerInv(w) ==
  /\ \A r \in Request : req[r].pc = "save" /\ r \notin stale => FreshImage(r)
  /\ StampsOK(w)
  /\ WorkerImage(w)
  /\ row.state = "running" => Syncing(w)
  /\ mirrored # tree /\ ~Pending => Remembered(w)

UInv(w) == TypeOK /\ (Undisturbed => ServerInv(w))

LEMMA UInit ==
    ASSUME NEW w \in Worker
    PROVE  Init => UInv(w)
<1> SUFFICES ASSUME Init PROVE ServerInv(w)
  BY TypeInit DEF UInv
<1> QED BY DEF Init, ServerInv, StampsOK, WorkerImage, NoRequest, NoRun, NewRow, Syncing

LEMMA UBegin ==
    ASSUME NEW w \in Worker, TypeOK, ServerInv(w), NEW r \in Request, BeginRequest(r)
    PROVE  ServerInv(w)'
<1> USE DEF db, git, history
<1>1. PICK kind \in Kind :
        /\ req' = [req EXCEPT ![r] = [NoRequest("read") EXCEPT !.kind = kind]]
        /\ tree' = IF kind = "write" THEN tree + 1 ELSE tree
  BY DEF BeginRequest
<1>2. \A q \in Request : q # r => req'[q] = req[q]
  BY <1>1 DEF TypeOK
<1>3. req'[r].pc = "read" /\ req'[r].kind = kind /\ req[r].pc = "new"
  BY <1>1 DEF TypeOK, NoRequest, BeginRequest
<1>4. UNCHANGED <<row, stale, worker, clock, mirrored>>
  BY DEF BeginRequest
<1>5. \A q \in Request : req'[q].pc = "save" => req'[q] = req[q]
  BY <1>2, <1>3
<1>6. ASSUME mirrored' # tree', ~Pending' PROVE mirrored # tree /\ ~Pending
  BY <1>1, <1>2, <1>3, <1>4, <1>6 DEF Pending
<1>7. \A q \in Request : req'[q].pc = "save" /\ q \notin stale' => FreshImage(q)'
  BY <1>4, <1>5 DEF ServerInv, FreshImage
<1>8. StampsOK(w)' /\ WorkerImage(w)' /\ (row'.state = "running" => Syncing(w)')
  BY <1>4 DEF ServerInv, StampsOK, WorkerImage, Syncing
<1> QED BY <1>4, <1>6, <1>7, <1>8 DEF ServerInv, Remembered, RequestedDuringRun

LEMMA URead ==
    ASSUME NEW w \in Worker, TypeOK, ServerInv(w), ActorAssumption, NEW r \in Request,
           ReadToQueue(r) \/ ReadSettings(r)
    PROVE  ServerInv(w)'
<1> USE DEF db, git, history
<1>0. row \in Row /\ clock \in Nat /\ req \in [Request -> Handler] /\ req[r] \in Handler
      /\ worker[w] \in Scheduler
  BY DEF TypeOK
<1>1. UNCHANGED <<row, worker, mirrored, tree>> /\ stale' = stale \ {r}
      /\ clock' \in Nat /\ clock <= clock'
  BY <1>0 DEF ReadToQueue, ReadSettings, Fresh
<1>2. \A q \in Request : q # r => req'[q] = req[q]
  BY <1>0 DEF ReadToQueue, ReadSettings
<1>3. req'[r].kind = req[r].kind /\ req'[r].pc = "save" /\ req[r].pc = "read"
  BY <1>0 DEF ReadToQueue, ReadSettings, Handler
<1>4. FreshImage(r)'
  <2>1. CASE ReadToQueue(r)
    <3>1. req'[r].image = Queued(row, req[r].kind, clock') /\ clock' = clock + 1
          /\ req[r].kind # "settings"
      BY <1>0, <2>1 DEF ReadToQueue, Handler
    <3>2. /\ req'[r].image.started = row.started
          /\ req'[r].image.state = IF row.state = "running" THEN "running" ELSE "queued"
          /\ req'[r].image.requested = clock'
      BY <1>0, <3>1 DEF Queued, Row
    <3>3. clock' > row.started
      BY <1>0, <3>1 DEF ServerInv, StampsOK, Row
    <3> QED BY <1>1, <1>3, <3>1, <3>2, <3>3 DEF FreshImage
  <2>2. CASE ReadSettings(r)
    <3>1. PICK force \in {row.force, FALSE} :
            req' = [req EXCEPT ![r].pc = "save", ![r].image = [row EXCEPT !.force = force]]
      BY <2>2 DEF ReadSettings
    <3>2. req'[r].image = [row EXCEPT !.force = force] /\ req[r].kind = "settings"
      BY <1>0, <2>2, <3>1 DEF ReadSettings, Handler
    <3>3. /\ req'[r].image.started = row.started
          /\ req'[r].image.state = row.state
          /\ req'[r].image.requested = row.requested
      BY <1>0, <3>2 DEF Row
    <3> QED BY <1>1, <1>3, <3>2, <3>3 DEF FreshImage
  <2> QED BY <2>1, <2>2
<1>5. \A q \in Request : req'[q].pc = "save" /\ q \notin stale' => FreshImage(q)'
  <2>1. ASSUME NEW q \in Request, q # r, req'[q].pc = "save", q \notin stale'
        PROVE  FreshImage(q)'
    <3>1. FreshImage(q)
      BY <1>1, <1>2, <2>1 DEF ServerInv
    <3> QED BY <1>1, <1>2, <2>1, <3>1 DEF FreshImage
  <2> QED BY <1>4, <2>1
<1>6. StampsOK(w)'
  <2>1. row.started \in Nat /\ worker[w].stamp \in Nat
    BY <1>0 DEF Row, Scheduler
  <2> QED BY <1>0, <1>1, <2>1 DEF ServerInv, StampsOK
<1>7. w \in stale' <=> w \in stale
  BY <1>1, ActorAssumption
<1>8. WorkerImage(w)' /\ (row'.state = "running" => Syncing(w)')
  BY <1>1, <1>7 DEF ServerInv, WorkerImage, Syncing
<1>9. Pending' <=> Pending
  BY <1>2, <1>3 DEF Pending
<1> QED BY <1>1, <1>5, <1>6, <1>7, <1>8, <1>9 DEF ServerInv, Remembered, RequestedDuringRun

LEMMA USave ==
    ASSUME NEW w \in Worker, TypeOK, ServerInv(w), NEW r \in Request,
           SaveRequest(r), r \notin stale
    PROVE  ServerInv(w)'
<1> USE DEF db, git, history
<1>0. row \in Row /\ clock \in Nat /\ req \in [Request -> Handler] /\ req[r] \in Handler
      /\ req[r].image \in Row /\ req[r].pc = "save"
  BY DEF TypeOK, Handler, SaveRequest
<1>1. UNCHANGED <<clock, worker, mirrored, tree>> /\ stale' = Actor /\ row' = req[r].image
  BY DEF SaveRequest, Upsert
<1>2. FreshImage(r)
  BY <1>0 DEF ServerInv
<1>3. \A q \in Request : q # r => req'[q] = req[q]
  BY <1>0 DEF SaveRequest
<1>4. w \in stale' /\ \A q \in Request : q \in stale'
  BY <1>1 DEF Actor
<1>5. row'.started = row.started /\ (row'.state = "running" <=> row.state = "running")
  BY <1>1, <1>2 DEF FreshImage
<1>6. StampsOK(w)' /\ WorkerImage(w)' /\ (row'.state = "running" => Syncing(w)')
  BY <1>1, <1>4, <1>5 DEF ServerInv, StampsOK, WorkerImage, Syncing
<1>7. ASSUME mirrored' # tree', ~Pending' PROVE Remembered(w)'
  <2>1. CASE req[r].kind = "settings"
    <3>1. ~Pending /\ row'.state = row.state /\ row'.requested = row.requested
      BY <1>1, <1>2, <1>3, <1>7, <2>1 DEF Pending, FreshImage
    <3>2. Remembered(w)
      BY <1>1, <1>7, <3>1 DEF ServerInv
    <3> QED BY <1>1, <1>4, <1>5, <3>1, <3>2 DEF Remembered, RequestedDuringRun
  <2>2. CASE req[r].kind # "settings"
    <3>1. row'.requested > row'.started /\ row'.requested # 0
      <4>1. row'.requested > row.started /\ row'.requested \in Nat /\ row.started \in Nat
        BY <1>0, <1>1, <1>2, <2>2 DEF FreshImage, Row
      <4> QED BY <1>5, <4>1
    <3>2. ~Syncing(w) => row'.state = "queued"
      BY <1>1, <1>2, <2>2 DEF FreshImage, ServerInv
    <3>3. worker[w].pc = "settle" => RequestedDuringRun(row)'
      <4>1. worker[w].pc = "settle" => row.started # 0
        BY DEF ServerInv, StampsOK
      <4> QED BY <1>5, <3>1, <4>1 DEF RequestedDuringRun
    <3>4. worker[w].pc \in {"idle", "listed", "claim"} => row'.state = "queued"
      BY <3>2 DEF Syncing
    <3> QED BY <1>1, <1>4, <3>3, <3>4 DEF Remembered
  <2> QED BY <2>1, <2>2
<1>8. \A q \in Request : req'[q].pc = "save" /\ q \notin stale' => FreshImage(q)'
  BY <1>4
<1> QED BY <1>6, <1>7, <1>8 DEF ServerInv

(* Steps of the worker that leave the row and the requests alone.          *)
LEMMA ULocal ==
    ASSUME NEW w \in Worker, TypeOK, ServerInv(w),
           \/ ListQueued(w) \/ StampStart(w) \/ CopyTree(w) \/ CopyFails(w)
           \/ FinalizeFails(w) \/ FetchBlocked(w) \/ Fetch(w) \/ Push(w) \/ PushFails(w)
    PROVE  ServerInv(w)'
<1> USE DEF db, git, history
<1>0. row \in Row /\ clock \in Nat /\ worker \in [Worker -> Scheduler]
      /\ worker[w] \in Scheduler /\ worker[w].image \in Row
      /\ row.started \in Nat /\ worker[w].stamp \in Nat
  BY DEF TypeOK, Scheduler, Row
<1>1. UNCHANGED <<row, stale, req, tree>>
  BY DEF ListQueued, StampStart, CopyTree, CopyFails, FinalizeFails, FetchBlocked,
         Fetch, Push, PushFails
<1>2. \A r \in Request : req'[r].pc = "save" /\ r \notin stale' => FreshImage(r)'
  BY <1>1 DEF ServerInv, FreshImage
<1>3. Pending' <=> Pending
  BY <1>1 DEF Pending
<1>4. CASE ListQueued(w)
  <2>1. worker'[w] = [worker[w] EXCEPT !.pc = "listed"] /\ worker[w].pc = "idle"
        /\ UNCHANGED <<clock, mirrored>> /\ row.state = "queued"
    BY <1>0, <1>4 DEF ListQueued, Claimable
  <2>2. worker'[w].pc = "listed" /\ worker'[w].stamp = worker[w].stamp
    BY <1>0, <2>1 DEF Scheduler
  <2> QED BY <1>1, <1>2, <1>3, <2>1, <2>2
       DEF ServerInv, StampsOK, WorkerImage, Remembered, Syncing
<1>5. CASE StampStart(w)
  <2>1. worker'[w] = [worker[w] EXCEPT !.pc = "claim", !.stamp = clock'] /\ clock' = clock + 1
        /\ worker[w].pc = "listed" /\ UNCHANGED mirrored
    BY <1>0, <1>5 DEF StampStart
  <2>2. worker'[w].pc = "claim" /\ worker'[w].stamp = clock'
    BY <1>0, <2>1 DEF Scheduler
  <2>3. row.started <= clock' /\ clock' # 0 /\ clock' <= clock'
    BY <1>0, <2>1 DEF ServerInv, StampsOK
  <2> QED BY <1>1, <1>2, <1>3, <2>1, <2>2, <2>3
       DEF ServerInv, StampsOK, WorkerImage, Remembered, Syncing
<1>6. CASE CopyTree(w)
  <2>1. worker'[w] = [worker[w] EXCEPT !.pc = "fetch"] /\ worker[w].pc = "copy"
        /\ UNCHANGED clock /\ mirrored' = tree
    BY <1>0, <1>6 DEF CopyTree
  <2>2. worker'[w].pc = "fetch" /\ worker'[w].stamp = worker[w].stamp
        /\ worker'[w].image = worker[w].image
    BY <1>0, <2>1 DEF Scheduler
  <2> QED BY <1>1, <1>2, <1>3, <2>1, <2>2
       DEF ServerInv, StampsOK, WorkerImage, Remembered, Syncing
<1>7. CASE CopyFails(w) \/ FinalizeFails(w)
  <2>1. PICK state \in {"idle", "error"} : FailSync(w, state)
    BY <1>7 DEF CopyFails, FinalizeFails
  <2>2. worker'[w] = [worker[w] EXCEPT !.pc = "save", !.failed = TRUE,
                        !.image = [worker[w].image EXCEPT !.state = state]]
    BY <1>0, <2>1 DEF FailSync
  <2>3. worker'[w].pc = "save" /\ worker'[w].stamp = worker[w].stamp /\ worker'[w].failed
        /\ worker'[w].image = [worker[w].image EXCEPT !.state = state]
    BY <1>0, <2>2 DEF Scheduler
  <2>4. worker'[w].image.state = state /\ worker'[w].image.started = worker[w].image.started
    BY <1>0, <2>3 DEF Row
  <2>5. UNCHANGED <<clock, mirrored>> /\ worker[w].pc \in {"copy", "fetch"}
    BY <1>7 DEF CopyFails, FinalizeFails
  <2> QED BY <1>1, <1>2, <1>3, <2>3, <2>4, <2>5
       DEF ServerInv, StampsOK, WorkerImage, Remembered, Syncing
<1>8. CASE Fetch(w)
  <2>1. worker'[w] = [worker[w] EXCEPT !.pc = "push", !.lease = remote.head]
        /\ worker[w].pc = "fetch" /\ UNCHANGED <<clock, mirrored>>
    BY <1>0, <1>8 DEF Fetch
  <2>2. worker'[w].pc = "push" /\ worker'[w].stamp = worker[w].stamp
        /\ worker'[w].image = worker[w].image
    BY <1>0, <2>1 DEF Scheduler
  <2> QED BY <1>1, <1>2, <1>3, <2>1, <2>2
       DEF ServerInv, StampsOK, WorkerImage, Remembered, Syncing
<1>9. CASE FetchBlocked(w) \/ Push(w) \/ PushFails(w)
  <2>1. NoPush(w) /\ UNCHANGED <<clock, mirrored>> /\ worker[w].pc \in {"fetch", "push"}
    BY <1>9 DEF FetchBlocked, Push, PushFails
  <2>2. worker'[w] = [worker[w] EXCEPT !.pc = "save",
                        !.image = [worker[w].image EXCEPT !.state = "idle", !.force = FALSE]]
    BY <1>0, <2>1 DEF NoPush
  <2>3. worker'[w].pc = "save" /\ worker'[w].stamp = worker[w].stamp
        /\ worker'[w].image = [worker[w].image EXCEPT !.state = "idle", !.force = FALSE]
    BY <1>0, <2>2 DEF Scheduler
  <2>4. worker'[w].image.state = "idle" /\ worker'[w].image.started = worker[w].image.started
    BY <1>0, <2>3 DEF Row
  <2> QED BY <1>1, <1>2, <1>3, <2>1, <2>3, <2>4
       DEF ServerInv, StampsOK, WorkerImage, Remembered, Syncing
<1> QED BY <1>4, <1>5, <1>6, <1>7, <1>8, <1>9

(* Steps of the worker that read or write the row.                         *)
LEMMA URow ==
    ASSUME NEW w \in Worker, TypeOK, ServerInv(w), ActorAssumption,
           \/ Claim(w) \/ ReadForSync(w) \/ ReadToSettle(w)
           \/ SaveSync(w) /\ w \notin stale
           \/ SaveSettled(w) /\ w \notin stale
    PROVE  ServerInv(w)'
<1> USE DEF db, git, history
<1>0. row \in Row /\ clock \in Nat /\ worker \in [Worker -> Scheduler]
      /\ worker[w] \in Scheduler /\ worker[w].image \in Row
      /\ row.started \in Nat /\ worker[w].stamp \in Nat
  BY DEF TypeOK, Scheduler, Row
<1>1. UNCHANGED <<req, tree, mirrored, clock>>
  BY DEF Claim, ReadForSync, ReadToSettle, SaveSync, SaveSettled
<1>2. Pending' <=> Pending
  BY <1>1 DEF Pending
<1>3. ASSUME stale' = Actor
      PROVE  \A r \in Request : req'[r].pc = "save" /\ r \notin stale' => FreshImage(r)'
  BY <1>3 DEF Actor
<1>4. ASSUME stale' = stale \ {w}, row' = row
      PROVE  \A r \in Request : req'[r].pc = "save" /\ r \notin stale' => FreshImage(r)'
  BY <1>1, <1>4, ActorAssumption DEF ServerInv, FreshImage
<1>5. CASE Claim(w) /\ Claimable
  <2>1. row' = [row EXCEPT !.state = "running", !.started = worker[w].stamp]
        /\ worker'[w] = [NoRun EXCEPT !.pc = "read"] /\ stale' = Actor /\ worker[w].pc = "claim"
    BY <1>0, <1>5 DEF Claim
  <2>2. row'.started = worker[w].stamp
    BY <1>0, <2>1 DEF Row
  <2>3. worker'[w].pc = "read" /\ worker'[w].stamp = 0
    BY <2>1 DEF NoRun
  <2> QED BY <1>0, <1>1, <1>2, <1>3, <2>1, <2>2, <2>3
       DEF ServerInv, StampsOK, WorkerImage, Remembered, Syncing
<1>6. CASE Claim(w) /\ ~Claimable
  <2>1. UNCHANGED <<row, stale>> /\ worker'[w] = NoRun /\ worker[w].pc = "claim"
    BY <1>0, <1>6 DEF Claim
  <2>2. worker'[w].pc = "idle" /\ worker'[w].stamp = 0
    BY <2>1 DEF NoRun
  <2>3. \A r \in Request : req'[r].pc = "save" /\ r \notin stale' => FreshImage(r)'
    BY <1>1, <2>1 DEF ServerInv, FreshImage
  <2> QED BY <1>0, <1>1, <1>2, <2>1, <2>2, <2>3
       DEF ServerInv, StampsOK, WorkerImage, Remembered, Syncing
<1>7. CASE ReadForSync(w)
  <2>1. worker'[w] = [worker[w] EXCEPT !.pc = "copy", !.image = row]
        /\ worker[w].pc = "read" /\ row' = row /\ stale' = stale \ {w}
    BY <1>0, <1>7 DEF ReadForSync, Fresh
  <2>2. worker'[w].pc = "copy" /\ worker'[w].image = row /\ worker'[w].stamp = worker[w].stamp
    BY <1>0, <2>1 DEF Scheduler
  <2> QED BY <1>1, <1>2, <1>4, <2>1, <2>2
       DEF ServerInv, StampsOK, WorkerImage, Remembered, Syncing
<1>8. CASE ReadToSettle(w)
  <2> DEFINE image == Settled(row, worker[w].failed)
  <2>1. worker'[w] = [worker[w] EXCEPT !.pc = "settled", !.image = image]
        /\ worker[w].pc = "settle" /\ row' = row /\ stale' = stale \ {w}
    BY <1>0, <1>8 DEF ReadToSettle, Fresh
  <2>2. worker'[w].pc = "settled" /\ worker'[w].image = image
        /\ worker'[w].stamp = worker[w].stamp
    BY <1>0, <2>1 DEF Scheduler
  <2>3. image.started = row.started /\ image.state # "running"
        /\ (image.state = "idle" => ~worker[w].failed /\ ~RequestedDuringRun(row))
    <3>1. CASE worker[w].failed
      BY <1>0, <3>1 DEF Settled, Row
    <3>2. CASE ~worker[w].failed
      BY <1>0, <3>2 DEF Settled, Row
    <3> QED BY <3>1, <3>2
  <2> HIDE DEF image
  <2> QED BY <1>1, <1>2, <1>4, <2>1, <2>2, <2>3
       DEF ServerInv, StampsOK, WorkerImage, Remembered, Syncing
<1>9. CASE SaveSync(w) /\ w \notin stale
  <2>1. worker'[w] = [NoRun EXCEPT !.pc = "settle", !.failed = worker[w].failed]
        /\ worker[w].pc = "save" /\ row' = worker[w].image /\ stale' = Actor
    BY <1>0, <1>9 DEF SaveSync, Upsert
  <2>2. worker'[w].pc = "settle" /\ worker'[w].stamp = 0 /\ worker'[w].failed = worker[w].failed
    BY <2>1 DEF NoRun
  <2>3. row'.started = row.started /\ row'.state # "running"
    BY <1>9, <2>1 DEF ServerInv, WorkerImage
  <2> QED BY <1>0, <1>1, <1>2, <1>3, <1>9, <2>1, <2>2, <2>3
       DEF ServerInv, StampsOK, WorkerImage, Remembered, Syncing
<1>10. CASE SaveSettled(w) /\ w \notin stale
  <2>1. worker'[w] = NoRun /\ worker[w].pc = "settled" /\ row' = worker[w].image
        /\ stale' = Actor
    BY <1>0, <1>10 DEF SaveSettled, Upsert
  <2>2. worker'[w].pc = "idle" /\ worker'[w].stamp = 0
    BY <2>1 DEF NoRun
  <2>3. row'.started = row.started /\ row'.state # "running"
    BY <1>10, <2>1 DEF ServerInv, WorkerImage
  <2>4. mirrored' # tree' /\ ~Pending' => row'.state \in {"queued", "error"}
    BY <1>0, <1>1, <1>2, <1>10, <2>1, <2>3 DEF ServerInv, Remembered, Row
  <2> QED BY <1>0, <1>1, <1>3, <2>1, <2>2, <2>3, <2>4
       DEF ServerInv, StampsOK, WorkerImage, Remembered, Syncing
<1> QED BY <1>5, <1>6, <1>7, <1>8, <1>9, <1>10

LEMMA UNext ==
    ASSUME NEW w, Worker = {w}
    PROVE  UInv(w) /\ [Next]_vars => UInv(w)'
<1> USE DEF db, git, history
<1> SUFFICES ASSUME UInv(w), [Next]_vars, Undisturbed' PROVE ServerInv(w)'
  BY TypeNext DEF UInv
<1>0. TypeOK /\ w \in Worker /\ faults \in Nat /\ ActorAssumption
  BY ActorAssumption DEF UInv, TypeOK
<1>1. ASSUME Undisturbed, UNCHANGED vars PROVE ServerInv(w)'
  BY <1>0, <1>1 DEF vars, UInv, ServerInv, FreshImage, StampsOK, WorkerImage, Remembered,
       Syncing, Pending, RequestedDuringRun
<1>2. ASSUME NEW r \in Request, Handle(r) PROVE ServerInv(w)'
  <2>1. faults' = faults
    BY <1>2 DEF Handle, BeginRequest, ReadToQueue, ReadSettings, SaveRequest
  <2>2. CASE SaveRequest(r)
    <3>1. overlap' = (overlap \/ r \in stale)
      BY <2>2 DEF SaveRequest, Upsert
    <3>2. ~overlap /\ r \notin stale
      BY <3>1 DEF Undisturbed
    <3>3. Undisturbed
      BY <2>1, <3>2 DEF Undisturbed
    <3> QED BY <1>0, <2>2, <3>2, <3>3, USave DEF UInv
  <2>3. CASE BeginRequest(r) \/ ReadToQueue(r) \/ ReadSettings(r)
    <3>1. overlap' = overlap
      BY <2>3 DEF BeginRequest, ReadToQueue, ReadSettings, Fresh
    <3>2. Undisturbed
      BY <2>1, <3>1 DEF Undisturbed
    <3> QED BY <1>0, <2>3, <3>2, UBegin, URead DEF UInv
  <2> QED BY <1>2, <2>2, <2>3 DEF Handle
<1>3. ASSUME Run(w) PROVE ServerInv(w)'
  <2>1. faults' = faults
    BY <1>3 DEF Run, ListQueued, StampStart, Claim, ReadForSync, CopyTree, CopyFails,
         FinalizeFails, FetchBlocked, Fetch, Push, PushFails, SaveSync, ReadToSettle,
         SaveSettled
  <2>2. CASE SaveSync(w) \/ SaveSettled(w)
    <3>1. overlap' = (overlap \/ w \in stale)
      BY <2>2 DEF SaveSync, SaveSettled, Upsert
    <3>2. ~overlap /\ w \notin stale
      BY <3>1 DEF Undisturbed
    <3>3. Undisturbed
      BY <2>1, <3>2 DEF Undisturbed
    <3> QED BY <1>0, <2>2, <3>2, <3>3, URow DEF UInv
  <2>3. ASSUME Run(w), ~SaveSync(w), ~SaveSettled(w) PROVE ServerInv(w)'
    <3>1. overlap' = overlap
      BY <2>3 DEF Run, ListQueued, StampStart, Claim, ReadForSync, CopyTree, CopyFails,
           FinalizeFails, FetchBlocked, Fetch, Push, PushFails, ReadToSettle, Fresh
    <3>2. Undisturbed
      BY <2>1, <3>1 DEF Undisturbed
    <3> QED BY <1>0, <2>3, <3>2, ULocal, URow DEF Run, UInv
  <2> QED BY <1>3, <2>2, <2>3
<1>4. ASSUME BackoffElapses \/ ForeignPush PROVE ServerInv(w)'
  <2>1. UNCHANGED <<req, worker, stale, overlap, faults, clock, tree, mirrored>>
    BY <1>4 DEF BackoffElapses, ForeignPush
  <2>2. row'.state = row.state /\ row'.requested = row.requested /\ row'.started = row.started
    <3>1. CASE BackoffElapses
      BY <1>0, <3>1 DEF BackoffElapses, TypeOK, Row
    <3>2. CASE ForeignPush
      BY <3>2 DEF ForeignPush
    <3> QED BY <1>4, <3>1, <3>2
  <2>3. ServerInv(w)
    BY <2>1 DEF Undisturbed, UInv
  <2>4. Pending' <=> Pending
    BY <2>1 DEF Pending
  <2>5. \A r \in Request : req'[r].pc = "save" /\ r \notin stale' => FreshImage(r)'
    BY <2>1, <2>2, <2>3 DEF ServerInv, FreshImage
  <2>6. StampsOK(w)' /\ WorkerImage(w)' /\ (row'.state = "running" => Syncing(w)')
    BY <2>1, <2>2, <2>3 DEF ServerInv, StampsOK, WorkerImage, Syncing
  <2> QED BY <2>1, <2>2, <2>3, <2>4, <2>5, <2>6
       DEF ServerInv, Remembered, RequestedDuringRun
<1>5. ASSUME Fault PROVE FALSE
  BY <1>0, <1>5 DEF Fault, Undisturbed
<1>6. CASE UNCHANGED vars
  <2>1. Undisturbed
    BY <1>6 DEF vars, Undisturbed
  <2> QED BY <1>1, <1>6, <2>1
<1>7. CASE Next
  BY <1>2, <1>3, <1>4, <1>5, <1>7 DEF Next, LoseRequest, LoseWorker, SaveSyncFails
<1> QED BY <1>6, <1>7

(* With one server: as long as no stale image was written and nothing      *)
(* failed, an idle mirror at rest is current and none is left running.     *)
THEOREM UndisturbedMirror ==
    ASSUME NEW w, Worker = {w}
    PROVE  Spec => []UndisturbedMirrorIsCurrent
<1>1. Init => UInv(w)
  BY UInit
<1>2. UInv(w) /\ [Next]_vars => UInv(w)'
  BY UNext
<1>3. UInv(w) => UndisturbedMirrorIsCurrent
  <2> SUFFICES ASSUME UInv(w), AtRest, ~overlap, faults = 0
               PROVE  /\ row.state # "running"
                      /\ row.state = "idle" => mirrored = tree
    BY DEF UndisturbedMirrorIsCurrent
  <2>1. worker[w].pc = "idle" /\ ~Pending /\ ServerInv(w)
    BY DEF AtRest, Pending, UInv, Undisturbed
  <2> QED BY <2>1 DEF ServerInv, Remembered, Syncing
<1> QED BY <1>1, <1>2, <1>3, PTL DEF Spec
=============================================================================
