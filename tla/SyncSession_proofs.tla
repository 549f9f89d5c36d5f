--------------------------- MODULE SyncSession_proofs ---------------------------
(* Proofs about SyncSession for any number of sessions, requests, parts    *)
(* and contents.                                                           *)
EXTENDS SyncSession, TLAPS

(* A request whose program counter is not "idle" carries all its fields.   *)
LEMMA InFlightFields ==
    ASSUME TypeOK, NEW r \in Request, req[r].pc # "idle"
    PROVE  req[r] \in InFlight /\ req[r] # Idle
  BY DEF TypeOK, Idle

LEMMA NoPartsType == NoParts \in Blob
  BY DEF NoParts, Blob

LEMMA ArchiveType == Archive \in Blob
  BY ArchiveAssumption DEF Blob

LEMMA InitTypeOK == Init => TypeOK
  BY NoPartsType DEF Init, TypeOK, Status, Open, JobStatus, NoRun, Run

(* Advancing a request keeps its record well formed.                       *)
LEMMA GotoType ==
    ASSUME TypeOK, NEW r \in Request, req[r].pc # "idle",
           NEW p \in {"load", "check", "mark", "select", "insert", "reload", "recount",
                      "setstatus", "gather", "import", "committx", "failjob"},
           Goto(r, p)
    PROVE  req' \in [Request -> InFlight \cup {Idle}]
<1>1. req[r] \in InFlight
  BY InFlightFields
<1>2. [req[r] EXCEPT !.pc = p, !.seen = "none"] \in InFlight
  BY <1>1 DEF InFlight, Status
<1> QED BY <1>2 DEF Goto, TypeOK

LEMMA DoneType ==
    ASSUME TypeOK, NEW r \in Request, Done(r)
    PROVE  req' \in [Request -> InFlight \cup {Idle}]
  BY DEF Done, TypeOK

(* Every step of a handler keeps the types.                                *)
LEMMA HandleTypeOK ==
    ASSUME TypeOK, NEW r \in Request, Handle(r)
    PROVE  TypeOK'
<1> USE NoPartsType
<1>0. ASSUME req[r].pc # "idle" PROVE req[r] \in InFlight /\ req[r].sess \in Session
  BY <1>0, InFlightFields DEF InFlight
<1>1. CASE LoadSession(r)
  <2>1. req[r] \in InFlight /\ status[req[r].sess] \in Status
    BY <1>0, <1>1 DEF LoadSession, TypeOK
  <2> DEFINE q == IF req[r].pc = "load" THEN "check" ELSE "recount"
  <2>2. [req[r] EXCEPT !.seen = status[req[r].sess], !.pc = q] \in InFlight
    BY <2>1 DEF InFlight
  <2> QED BY <1>1, <2>2 DEF LoadSession, TypeOK
<1>2. CASE CheckUpload(r)
  BY <1>2, GotoType, DoneType DEF CheckUpload, TypeOK
<1>3. CASE CheckCommit(r)
  BY <1>3, GotoType, DoneType DEF CheckCommit, TypeOK
<1>4. CASE CheckGet(r)
  BY <1>4, GotoType, DoneType DEF CheckGet, TypeOK
<1>5. CASE MarkExpired(r)
  BY <1>0, <1>5, DoneType DEF MarkExpired, TypeOK, Status, Open, Terminal, Ended, JobStatus, FailIfRunning
<1>6. CASE SelectPart(r)
  BY <1>6, GotoType, DoneType DEF SelectPart, TypeOK
<1>7. CASE InsertPart(r)
  <2>1. req[r].sess \in Session /\ req[r].idx \in Part /\ req[r].data \in Data
    BY <1>0, <1>7 DEF InsertPart, InFlight
  <2> DEFINE row == [parts[req[r].sess] EXCEPT ![req[r].idx] = req[r].data]
  <2>2. row \in Blob
    BY <2>1 DEF TypeOK, Blob
  <2>3. parts' = parts \/ parts' = [parts EXCEPT ![req[r].sess] = row]
    BY <1>7 DEF InsertPart
  <2>4. parts' \in [Session -> Blob]
    BY <2>1, <2>2, <2>3 DEF TypeOK
  <2> QED BY <1>7, <2>4, GotoType, DoneType DEF InsertPart, TypeOK
<1>8. CASE Recount(r)
  <2> DEFINE n == Progress(req[r].sess)
  <2>1. req[r] \in InFlight /\ n \in Open
    BY <1>0, <1>8 DEF Recount, Progress, Open
  <2>2. [req[r] EXCEPT !.next = n, !.pc = "setstatus", !.seen = "none"] \in InFlight
    BY <2>1 DEF InFlight, Status
  <2>3. req' \in [Request -> InFlight \cup {Idle}]
    BY <1>8, <2>2, DoneType DEF Recount, TypeOK
  <2> QED BY <1>8, <2>3 DEF Recount, TypeOK
<1>9. CASE SetStatus(r)
  <2>1. req[r].next \in Status
    BY <1>0, <1>9 DEF SetStatus, InFlight, Status
  <2> QED BY <1>9, <2>1, DoneType DEF SetStatus, TypeOK
<1>10. CASE Gather(r)
  <2>1. req[r] \in InFlight /\ parts[req[r].sess] \in Blob
    BY <1>0, <1>10 DEF Gather, TypeOK
  <2>2. [req[r] EXCEPT !.blob = parts[req[r].sess], !.pc = "import"] \in InFlight
    BY <2>1 DEF InFlight
  <2>3. req' \in [Request -> InFlight \cup {Idle}]
    BY <1>10, <2>2, DoneType, GotoType DEF Gather, TypeOK
  <2> QED BY <1>10, <2>3 DEF Gather, TypeOK
<1>11. CASE PreviewDrift(r)
  BY <1>11, DoneType DEF PreviewDrift, TypeOK
<1>12. CASE ImportBundle(r)
  <2>1. req[r].blob \in Blob
    BY <1>0, <1>12 DEF ImportBundle, InFlight
  <2> QED BY <1>12, <2>1, GotoType DEF ImportBundle, TypeOK
<1>13. CASE ImportFails(r)
  BY <1>13, GotoType DEF ImportFails, TypeOK
<1>14. CASE FailJob(r)
  BY <1>14, DoneType DEF FailJob, TypeOK, JobStatus
<1>15. CASE CommitTx(r)
  BY <1>15, DoneType DEF CommitTx, TypeOK, JobStatus, Status, Terminal, Ended
<1> QED BY <1>1, <1>2, <1>3, <1>4, <1>5, <1>6, <1>7, <1>8, <1>9, <1>10, <1>11, <1>12,
          <1>13, <1>14, <1>15 DEF Handle

LEMMA NextTypeOK ==
    ASSUME TypeOK, [Next]_vars
    PROVE  TypeOK'
<1> USE NoPartsType
<1>1. ASSUME NEW s \in Session, StartSession(s) PROVE TypeOK'
  BY <1>1 DEF StartSession, TypeOK, Status, Open, JobStatus
<1>2. ASSUME NEW s \in Session, PassDeadline(s) PROVE TypeOK'
  BY <1>2 DEF PassDeadline, TypeOK
<1>3. ASSUME NEW s \in Session, AbortSession(s) PROVE TypeOK'
  BY <1>3 DEF AbortSession, TypeOK, Status, Terminal, Ended, JobStatus
<1>4. ASSUME NEW r \in Request, NEW op \in Op, NEW s \in Session, NEW i \in Part, NEW d \in Data,
             Arrive(r, op, s, i, d)
      PROVE  TypeOK'
  <2> DEFINE new == [pc |-> "load", op |-> op, sess |-> s, idx |-> i,
                     data |-> d, late |-> overdue[s], seen |-> "none",
                     next |-> "uploading", blob |-> NoParts]
  <2>1. new \in InFlight
    BY DEF TypeOK, InFlight, Status, Open
  <2> QED BY <1>4, <2>1 DEF Arrive, TypeOK
<1>5. ASSUME NEW r \in Request, NEW s \in Session, NEW i \in Part, NEW d \in Data,
             ArriveUpload(r, s, i, d)
      PROVE  TypeOK'
  BY <1>4, <1>5 DEF ArriveUpload, Op
<1>6. ASSUME NEW r \in Request, NEW s \in Session, NEW op \in {"commit", "get"},
             ArriveOther(r, op, s)
      PROVE  TypeOK'
  <2> DEFINE i == CHOOSE i \in Part : TRUE
  <2>1. i \in Part /\ Archive[i] \in Data
    BY PartAssumption, ArchiveAssumption
  <2> QED BY <1>4, <1>6, <2>1 DEF ArriveOther, Op
<1>7. ASSUME NEW r \in Request, Handle(r) PROVE TypeOK'
  BY <1>7, HandleTypeOK
<1>8. ASSUME NEW r \in Request, Cancel(r) PROVE TypeOK'
  BY <1>8, DoneType DEF Cancel, TypeOK
<1>9. CASE CleanSelect
  BY <1>9 DEF CleanSelect, TypeOK, Run
<1>10. CASE CleanWrite
  <2>1. status' \in [Session -> Status]
    BY <1>10 DEF CleanWrite, TypeOK, Status, Terminal
  <2>2. job' \in [Session -> JobStatus]
    BY <1>10 DEF CleanWrite, TypeOK, JobStatus, FailIfRunning
  <2>3. parts' \in [Session -> Blob]
    BY <1>10 DEF CleanWrite, TypeOK
  <2> QED BY <1>10, <2>1, <2>2, <2>3 DEF CleanWrite, TypeOK, Run, NoRun
<1>11. CASE CleanFail
  BY <1>11 DEF CleanFail, TypeOK, Run, NoRun
<1>12. CASE UNCHANGED vars
  BY <1>12 DEF vars, TypeOK
<1> QED BY <1>1, <1>2, <1>3, <1>5, <1>6, <1>7, <1>8, <1>9, <1>10, <1>11, <1>12 DEF Next

(* The variables of SyncSession always have their types: in particular no  *)
(* interleaving makes a handler write a status outside the known ones.     *)
THEOREM Typing == Spec => []TypeOK
  BY InitTypeOK, NextTypeOK, PTL DEF Spec
-------------------------------------------------------------------------------
(* What a handler knows at the statement it has reached.  These facts make *)
(* the safety properties inductive.                                        *)
GatheredArchive == \A r \in Request : req[r].pc = "import" => req[r].blob = Archive
ImportedBeforeCommit ==
    \A r \in Request : req[r].pc = "committx" => Archive \in imported[req[r].sess]
LateIsOverdue == \A r \in Request : req[r] # Idle /\ req[r].late => overdue[req[r].sess]

SafeInv ==
    /\ TypeOK
    /\ GatheredArchive
    /\ ImportedBeforeCommit
    /\ LateIsOverdue
    /\ ImportsGenuine
    /\ SuccessWasImported
    /\ TerminalJobSettled
    /\ LateRequestsRefused

LEMMA InitSafeInv == Init => SafeInv
  BY InitTypeOK DEF Init, SafeInv, GatheredArchive, ImportedBeforeCommit, LateIsOverdue,
     ImportsGenuine, SuccessWasImported, TerminalJobSettled, LateRequestsRefused, Idle,
     Terminal, Ended

(* The facts about one request survive a step that leaves the others alone *)
(* and forgets neither an import nor a deadline.                           *)
KnowsEnough(q) ==
    /\ q.pc = "import" => q.blob = Archive
    /\ q.pc = "committx" => Archive \in imported[q.sess]
    /\ q # Idle /\ q.late => overdue[q.sess] /\ q.pc \in {"load", "check", "mark"}

LEMMA KnowledgeSplit ==
    (\A r \in Request : KnowsEnough(req[r])) <=>
        (GatheredArchive /\ ImportedBeforeCommit /\ LateIsOverdue /\ LateRequestsRefused)
  BY DEF KnowsEnough, GatheredArchive, ImportedBeforeCommit, LateIsOverdue, LateRequestsRefused

LEMMA DoneKnowledge ==
    ASSUME TypeOK, NEW r \in Request, \A q \in Request : KnowsEnough(req[q]), Done(r),
           UNCHANGED <<imported, overdue>>
    PROVE  \A q \in Request : KnowsEnough(req[q])'
  BY DEF Done, KnowsEnough, TypeOK, Idle

LEMMA GotoKnowledge ==
    ASSUME TypeOK, NEW r \in Request, \A q \in Request : KnowsEnough(req[q]),
           req[r].pc # "idle",
           NEW p \in {"mark", "select", "insert", "reload", "gather", "failjob"}, Goto(r, p),
           p \in {"load", "check", "mark"} \/ ~req[r].late,
           UNCHANGED <<imported, overdue>>
    PROVE  \A q \in Request : KnowsEnough(req[q])'
<1>1. req[r] \in InFlight /\ req[r] # Idle
  BY InFlightFields
<1>2. req'[r] = [req[r] EXCEPT !.pc = p, !.seen = "none"]
  BY DEF Goto, TypeOK
<1>3. req'[r].pc = p /\ req'[r].late = req[r].late /\ req'[r].sess = req[r].sess
  BY <1>1, <1>2 DEF InFlight
<1>4. KnowsEnough(req[r])'
  BY <1>1, <1>3 DEF KnowsEnough
<1>5. \A q \in Request \ {r} : req'[q] = req[q]
  BY DEF Goto, TypeOK
<1> QED BY <1>4, <1>5 DEF KnowsEnough

(* Every step of a handler keeps what the handlers know.                   *)
LEMMA HandleKnowledge ==
    ASSUME SafeInv, NEW r \in Request, Handle(r)
    PROVE  \A q \in Request : KnowsEnough(req[q])'
<1>0. TypeOK /\ (\A q \in Request : KnowsEnough(req[q]))
  BY KnowledgeSplit DEF SafeInv
<1>a. ASSUME req[r].pc # "idle" PROVE req[r] \in InFlight /\ req[r] # Idle
  BY <1>a, <1>0, InFlightFields
<1>b. ASSUME req[r].pc \notin {"load", "check", "mark", "idle"} PROVE ~req[r].late
  BY <1>a, <1>b, <1>0 DEF KnowsEnough
<1>c. req[r].pc = "check" /\ Active(r) => ~req[r].late
  BY <1>a, <1>0 DEF KnowsEnough, Active
<1>1. CASE LoadSession(r)
  <2>1. req[r] \in InFlight /\ req[r] # Idle
    BY <1>a, <1>1 DEF LoadSession
  <2>2. /\ req'[r].pc \in {"check", "recount"}
        /\ req[r].pc = "load" => req'[r].pc = "check"
        /\ req'[r].late = req[r].late /\ req'[r].sess = req[r].sess
    BY <1>1, <1>0, <2>1 DEF LoadSession, TypeOK, InFlight
  <2>3. KnowsEnough(req[r])'
    BY <1>0, <1>1, <2>1, <2>2 DEF KnowsEnough, LoadSession
  <2>4. \A q \in Request \ {r} : req'[q] = req[q]
    BY <1>0, <1>1 DEF LoadSession, TypeOK
  <2>5. \A q \in Request \ {r} : KnowsEnough(req[q])'
    BY <1>0, <1>1, <2>4 DEF KnowsEnough, LoadSession
  <2> QED BY <2>3, <2>5
<1>2. CASE CheckUpload(r)
  BY <1>0, <1>c, <1>2, GotoKnowledge, DoneKnowledge DEF CheckUpload
<1>3. CASE CheckCommit(r)
  BY <1>0, <1>c, <1>3, GotoKnowledge, DoneKnowledge DEF CheckCommit
<1>4. CASE CheckGet(r)
  BY <1>0, <1>4, GotoKnowledge, DoneKnowledge DEF CheckGet
<1>5. CASE MarkExpired(r)
  BY <1>0, <1>5, DoneKnowledge DEF MarkExpired
<1>6. CASE SelectPart(r)
  BY <1>0, <1>b, <1>6, GotoKnowledge, DoneKnowledge DEF SelectPart
<1>7. CASE InsertPart(r)
  BY <1>0, <1>b, <1>7, GotoKnowledge, DoneKnowledge DEF InsertPart
<1>8. CASE Recount(r)
  <2>1. CASE Done(r)
    BY <1>0, <1>8, <2>1, DoneKnowledge DEF Recount
  <2> DEFINE n == Progress(req[r].sess)
  <2>2. CASE req' = [req EXCEPT ![r].next = n, ![r].pc = "setstatus", ![r].seen = "none"]
    <3>1. req[r] \in InFlight /\ req[r] # Idle /\ ~req[r].late
      BY <1>0, <1>a, <1>8 DEF Recount, KnowsEnough, InFlight
    <3>2. req'[r].pc = "setstatus" /\ ~req'[r].late
      BY <1>0, <2>2, <3>1 DEF TypeOK, InFlight
    <3>3. \A q \in Request \ {r} : req'[q] = req[q]
      BY <1>0, <2>2 DEF TypeOK
    <3> QED BY <1>0, <1>8, <3>2, <3>3 DEF KnowsEnough, Recount
  <2> QED BY <1>8, <2>1, <2>2 DEF Recount
<1>9. CASE SetStatus(r)
  BY <1>0, <1>9, DoneKnowledge DEF SetStatus
<1>10. CASE Gather(r)
  <2>1. CASE Done(r) \/ Goto(r, "failjob")
    BY <1>0, <1>b, <1>10, <2>1, GotoKnowledge, DoneKnowledge DEF Gather
  <2>2. CASE /\ parts[req[r].sess] = Archive
             /\ req' = [req EXCEPT ![r].blob = parts[req[r].sess], ![r].pc = "import"]
    <3>1. req[r] \in InFlight /\ req[r] # Idle /\ ~req[r].late
      BY <1>0, <1>a, <1>10 DEF Gather, KnowsEnough, InFlight
    <3>2. req'[r].pc = "import" /\ ~req'[r].late /\ req'[r].blob = Archive
      BY <1>0, <2>2, <3>1 DEF TypeOK, InFlight
    <3>3. \A q \in Request \ {r} : req'[q] = req[q]
      BY <1>0, <2>2 DEF TypeOK
    <3> QED BY <1>0, <1>10, <3>2, <3>3 DEF KnowsEnough, Gather
  <2> QED BY <1>10, <2>1, <2>2 DEF Gather
<1>11. CASE PreviewDrift(r)
  BY <1>0, <1>11, DoneKnowledge DEF PreviewDrift
<1>12. CASE ImportBundle(r)
  <2>1. req[r] \in InFlight /\ req[r] # Idle /\ ~req[r].late /\ req[r].blob = Archive
    BY <1>0, <1>a, <1>12 DEF ImportBundle, KnowsEnough, InFlight
  <2>2. req[r].sess \in Session
    BY <2>1 DEF InFlight
  <2>3. req'[r].pc = "committx" /\ ~req'[r].late /\ req'[r].sess = req[r].sess
    BY <1>0, <1>12, <2>1 DEF ImportBundle, Goto, TypeOK, InFlight
  <2>4. Archive \in imported'[req[r].sess]
    BY <1>0, <1>12, <2>1, <2>2 DEF ImportBundle, TypeOK
  <2>5. KnowsEnough(req[r])'
    BY <2>3, <2>4 DEF KnowsEnough
  <2>6. \A q \in Request \ {r} : req'[q] = req[q]
    BY <1>0, <1>12 DEF ImportBundle, Goto, TypeOK
  <2>7. \A s \in Session : imported[s] \subseteq imported'[s]
    BY <1>0, <1>12, <2>2 DEF ImportBundle, TypeOK
  <2>8. ASSUME NEW q \in Request \ {r} PROVE KnowsEnough(req[q])'
    <3>1. req[q].pc = "committx" => req[q].sess \in Session
      BY <1>0, InFlightFields DEF InFlight
    <3> QED BY <1>0, <1>12, <2>6, <2>7, <3>1 DEF KnowsEnough, ImportBundle
  <2> QED BY <2>5, <2>8
<1>13. CASE ImportFails(r)
  BY <1>0, <1>b, <1>13, GotoKnowledge DEF ImportFails
<1>14. CASE FailJob(r)
  BY <1>0, <1>14, DoneKnowledge DEF FailJob
<1>15. CASE CommitTx(r)
  BY <1>0, <1>15, DoneKnowledge DEF CommitTx
<1> QED BY <1>1, <1>2, <1>3, <1>4, <1>5, <1>6, <1>7, <1>8, <1>9, <1>10, <1>11, <1>12,
          <1>13, <1>14, <1>15 DEF Handle

(* The part of the invariant that is about the rows alone.                 *)
LEMMA HandleRows ==
    ASSUME SafeInv, NEW r \in Request, Handle(r)
    PROVE  (ImportsGenuine /\ SuccessWasImported /\ TerminalJobSettled)'
<1> USE DEF SafeInv, TypeOK, ImportsGenuine, SuccessWasImported, TerminalJobSettled
<1>1. CASE UNCHANGED <<status, job, imported>>
  BY <1>1
<1>2. CASE MarkExpired(r)
  BY <1>2 DEF MarkExpired, FailIfRunning, Ended, Terminal
<1>3. CASE SetStatus(r)
  <2>1. req[r].next \in Open
    BY <1>3, InFlightFields DEF SetStatus, InFlight
  <2> QED BY <1>3, <2>1 DEF SetStatus, Open, Terminal, Ended
<1>4. CASE ImportBundle(r)
  <2>1. req[r].blob = Archive
    BY <1>4 DEF ImportBundle, GatheredArchive
  <2> QED BY <1>4, <2>1 DEF ImportBundle
<1>5. CASE FailJob(r)
  BY <1>5 DEF FailJob
<1>6. CASE CommitTx(r)
  BY <1>6 DEF CommitTx, ImportedBeforeCommit
<1> QED BY <1>1, <1>2, <1>3, <1>4, <1>5, <1>6 DEF Handle, LoadSession, CheckUpload, CheckCommit,
          CheckGet, SelectPart, InsertPart, Recount, Gather, PreviewDrift, ImportFails

LEMMA NextSafeInv ==
    ASSUME SafeInv, [Next]_vars
    PROVE  SafeInv'
<1> USE DEF SafeInv
<1>0. TypeOK' /\ (\A q \in Request : KnowsEnough(req[q]))
  BY NextTypeOK, KnowledgeSplit
<1>k. ASSUME (\A q \in Request : KnowsEnough(req[q]))'
      PROVE  (GatheredArchive /\ ImportedBeforeCommit /\ LateIsOverdue /\ LateRequestsRefused)'
  BY <1>k DEF KnowsEnough, GatheredArchive, ImportedBeforeCommit, LateIsOverdue, LateRequestsRefused
<1> DEFINE Rows == ImportsGenuine /\ SuccessWasImported /\ TerminalJobSettled
<1>1. ASSUME NEW s \in Session, StartSession(s) PROVE SafeInv'
  <2>1. Rows'
    BY <1>1 DEF StartSession, ImportsGenuine, SuccessWasImported, TerminalJobSettled, TypeOK,
       Terminal, Ended
  <2> QED BY <1>0, <1>k, <1>1, <2>1 DEF StartSession, KnowsEnough
<1>2. ASSUME NEW s \in Session, PassDeadline(s) PROVE SafeInv'
  <2>1. Rows'
    BY <1>2 DEF PassDeadline, ImportsGenuine, SuccessWasImported, TerminalJobSettled
  <2>2. \A t \in Session : overdue[t] => overdue'[t]
    BY <1>2 DEF PassDeadline, TypeOK
  <2>3. ASSUME NEW q \in Request PROVE KnowsEnough(req[q])'
    <3>1. req[q] # Idle => req[q].sess \in Session
      BY DEF TypeOK, InFlight
    <3> QED BY <1>0, <1>2, <2>2, <3>1 DEF PassDeadline, KnowsEnough
  <2> QED BY <1>0, <1>k, <2>1, <2>3
<1>3. ASSUME NEW s \in Session, AbortSession(s) PROVE SafeInv'
  <2>1. Rows'
    BY <1>3 DEF AbortSession, ImportsGenuine, SuccessWasImported, TerminalJobSettled, TypeOK
  <2> QED BY <1>0, <1>k, <1>3, <2>1 DEF AbortSession, KnowsEnough
<1>4. ASSUME NEW r \in Request, NEW op, NEW s \in Session, NEW i, NEW d,
             Arrive(r, op, s, i, d)
      PROVE  SafeInv'
  <2>1. Rows'
    BY <1>4 DEF Arrive, ImportsGenuine, SuccessWasImported, TerminalJobSettled
  <2>2. ASSUME NEW q \in Request PROVE KnowsEnough(req[q])'
    BY <1>0, <1>4 DEF Arrive, KnowsEnough, TypeOK
  <2> QED BY <1>0, <1>k, <2>1, <2>2
<1>5. ASSUME NEW r \in Request, NEW s \in Session, NEW i \in Part, NEW d \in Data,
             ArriveUpload(r, s, i, d)
      PROVE  SafeInv'
  BY <1>4, <1>5 DEF ArriveUpload
<1>6. ASSUME NEW r \in Request, NEW s \in Session, NEW op \in {"commit", "get"},
             ArriveOther(r, op, s)
      PROVE  SafeInv'
  BY <1>4, <1>6 DEF ArriveOther
<1>7. ASSUME NEW r \in Request, Handle(r) PROVE SafeInv'
  BY <1>0, <1>k, <1>7, HandleKnowledge, HandleRows
<1>8. ASSUME NEW r \in Request, Cancel(r) PROVE SafeInv'
  <2>1. Rows'
    BY <1>8 DEF Cancel, ImportsGenuine, SuccessWasImported, TerminalJobSettled
  <2> QED BY <1>0, <1>k, <1>8, <2>1, DoneKnowledge DEF Cancel
<1>9. CASE CleanSelect
  BY <1>0, <1>k, <1>9 DEF CleanSelect, ImportsGenuine, SuccessWasImported, TerminalJobSettled,
     KnowsEnough
<1>10. CASE CleanWrite
  <2>1. Rows'
    BY <1>10 DEF CleanWrite, ImportsGenuine, SuccessWasImported, TerminalJobSettled,
       FailIfRunning
  <2> QED BY <1>0, <1>k, <1>10, <2>1 DEF CleanWrite, KnowsEnough
<1>11. CASE CleanFail
  BY <1>0, <1>k, <1>11 DEF CleanFail, ImportsGenuine, SuccessWasImported, TerminalJobSettled,
     KnowsEnough
<1>12. CASE UNCHANGED vars
  BY <1>0, <1>k, <1>12 DEF vars, ImportsGenuine, SuccessWasImported, TerminalJobSettled,
     KnowsEnough
<1> QED BY <1>1, <1>2, <1>3, <1>5, <1>6, <1>7, <1>8, <1>9, <1>10, <1>11, <1>12 DEF Next

LEMMA SafeInvHolds == Spec => []SafeInv
  BY InitSafeInv, NextSafeInv, PTL DEF Spec

(* Only the announced archive is ever imported (CommitSession re-reads and *)
(* verifies the parts after its checks).                                   *)
THEOREM GenuineImports == Spec => []ImportsGenuine
  BY SafeInvHolds, PTL DEF SafeInv

(* Neither a job nor a session claims a success without an import.         *)
THEOREM SuccessAfterImport == Spec => []SuccessWasImported
  BY SafeInvHolds, PTL DEF SafeInv

(* A terminal session's job is settled.                                    *)
THEOREM SettledJobs == Spec => []TerminalJobSettled
  BY SafeInvHolds, PTL DEF SafeInv

(* A request that arrives after the deadline never gets past its check.    *)
THEOREM NoLateAccess == Spec => []LateRequestsRefused
  BY SafeInvHolds, PTL DEF SafeInv
-------------------------------------------------------------------------------
(* Part rows are inserted where there is none, or deleted.                 *)
LEMMA PartsStep ==
    ASSUME TypeOK, [Next]_vars, NEW s \in Session, NEW i \in Part, parts[s][i] # NoData
    PROVE  parts'[s][i] \in {parts[s][i], NoData}
<1>1. CASE UNCHANGED parts
  BY <1>1
<1>2. ASSUME NEW r \in Request, InsertPart(r) PROVE parts'[s][i] \in {parts[s][i], NoData}
  <2>1. req[r].sess \in Session /\ req[r].idx \in Part
    BY <1>2, InFlightFields DEF InsertPart, InFlight
  <2> QED BY <1>2, <2>1 DEF InsertPart, TypeOK, Blob
<1>3. ASSUME NEW r \in Request, CommitTx(r) PROVE parts'[s][i] \in {parts[s][i], NoData}
  BY <1>3 DEF CommitTx, TypeOK, NoParts
<1>4. ASSUME NEW t \in Session, AbortSession(t) PROVE parts'[s][i] \in {parts[s][i], NoData}
  BY <1>4 DEF AbortSession, TypeOK, NoParts
<1>5. CASE CleanWrite
  BY <1>5 DEF CleanWrite, NoParts
<1> QED BY <1>1, <1>2, <1>3, <1>4, <1>5 DEF Next, vars, Handle, StartSession, PassDeadline,
      ArriveUpload, ArriveOther, Arrive, Cancel, LoadSession, CheckUpload, CheckCommit, CheckGet,
      MarkExpired, SelectPart, Recount, SetStatus, Gather, PreviewDrift, ImportBundle,
      ImportFails, FailJob, CleanSelect, CleanFail

(* No interleaving of uploads replaces stored bytes with other bytes.      *)
THEOREM PartsWriteOnce == Spec => PartsNotOverwritten
<1>1. TypeOK /\ [Next]_vars =>
        [\A s \in Session, i \in Part :
            parts[s][i] # NoData => parts'[s][i] \in {parts[s][i], NoData}]_vars
  BY PartsStep
<1> QED BY <1>1, Typing, PTL DEF Spec, PartsNotOverwritten
-------------------------------------------------------------------------------
(* A handler that is outside an ended session can only read it, be sent    *)
(* away, or run the guarded UPDATE of markSessionExpired.                  *)
LEMMA HandleFinal ==
    ASSUME TypeOK, NEW r \in Request, Handle(r), NEW s \in Session, Final(s)
    PROVE  status'[s] \in Ended /\ Outside(r, s)'
<1> USE DEF TypeOK, Final, Unattended
<1>0. req[r] \in InFlight /\ req[r] # Idle
  BY InFlightFields DEF Handle, LoadSession, CheckUpload, CheckCommit, CheckGet, MarkExpired,
     SelectPart, InsertPart, Recount, SetStatus, Gather, PreviewDrift, ImportBundle,
     ImportFails, FailJob, CommitTx
<1>1. Outside(r, s)
  OBVIOUS
<1>2. CASE req[r].sess = s
  <2>1. \/ req[r].pc \in {"load", "mark"}
        \/ req[r].pc = "check" /\ req[r].seen \in Ended
    BY <1>0, <1>1, <1>2 DEF Outside
  <2>2. CASE LoadSession(r)
    BY <1>0, <1>2, <2>1, <2>2 DEF LoadSession, Outside, InFlight
  <2>3. CASE CheckUpload(r) \/ CheckCommit(r) \/ CheckGet(r)
    BY <1>0, <2>1, <2>3 DEF CheckUpload, CheckCommit, CheckGet, Active, SeenExpired, Terminal,
       Done, Outside
  <2>4. CASE MarkExpired(r)
    BY <1>2, <2>4 DEF MarkExpired, Done, Outside
  <2> QED BY <2>1, <2>2, <2>3, <2>4 DEF Handle, SelectPart, InsertPart, Recount, SetStatus,
            Gather, PreviewDrift, ImportBundle, ImportFails, FailJob, CommitTx
<1>3. CASE req[r].sess # s
  <2>1. status'[s] = status[s]
    BY <1>0, <1>3 DEF Handle, LoadSession, CheckUpload, CheckCommit, CheckGet, MarkExpired,
       SelectPart, InsertPart, Recount, SetStatus, Gather, PreviewDrift, ImportBundle,
       ImportFails, FailJob, CommitTx, InFlight
  <2>2. req'[r] = Idle \/ req'[r].sess = req[r].sess
    BY <1>0 DEF Handle, LoadSession, CheckUpload, CheckCommit, CheckGet, MarkExpired,
       SelectPart, InsertPart, Recount, SetStatus, Gather, PreviewDrift, ImportBundle,
       ImportFails, FailJob, CommitTx, InFlight, Done, Goto
  <2> QED BY <1>3, <2>1, <2>2 DEF Outside
<1> QED BY <1>2, <1>3

LEMMA FinalStep ==
    ASSUME TypeOK, [Next]_vars, NEW s \in Session, Final(s)
    PROVE  Final(s)'
<1> USE DEF TypeOK, Final, Unattended
<1>1. ASSUME NEW t \in Session, StartSession(t) \/ PassDeadline(t) \/ AbortSession(t)
      PROVE  Final(s)'
  BY <1>1 DEF StartSession, PassDeadline, AbortSession, Outside, Ended
<1>2. ASSUME NEW r \in Request, NEW op, NEW t \in Session, NEW i, NEW d, Arrive(r, op, t, i, d)
      PROVE  Final(s)'
  BY <1>2 DEF Arrive, Outside
<1>3. ASSUME NEW r \in Request, Handle(r) PROVE Final(s)'
  <2>1. status'[s] \in Ended /\ Outside(r, s)'
    BY <1>3, HandleFinal
  <2>2. UNCHANGED cleaner /\ \A q \in Request \ {r} : req'[q] = req[q]
    BY <1>3 DEF Handle, LoadSession, CheckUpload, CheckCommit, CheckGet, MarkExpired,
       SelectPart, InsertPart, Recount, SetStatus, Gather, PreviewDrift, ImportBundle,
       ImportFails, FailJob, CommitTx, Done, Goto
  <2> QED BY <2>1, <2>2 DEF Outside
<1>4. ASSUME NEW r \in Request, Cancel(r) PROVE Final(s)'
  BY <1>4 DEF Cancel, Done, Outside
<1>5. CASE CleanSelect
  BY <1>5 DEF CleanSelect, Outside, Open, Ended
<1>6. CASE CleanWrite
  BY <1>6 DEF CleanWrite, NoRun, Outside
<1>7. CASE CleanFail
  BY <1>7 DEF CleanFail, NoRun, Outside
<1>8. CASE UNCHANGED vars
  BY <1>8 DEF vars, Outside
<1> QED BY <1>1, <1>2, <1>3, <1>4, <1>5, <1>6, <1>7, <1>8 DEF Next, ArriveUpload, ArriveOther

(* A committed or aborted session without a racing handler or cleanup is   *)
(* ended for good.                                                         *)
THEOREM FinalForGood == Spec => EndedIsFinal
<1>1. TypeOK /\ [Next]_vars => [\A s \in Session : Final(s) => Final(s)']_vars
  BY FinalStep
<1> QED BY <1>1, Typing, PTL DEF Spec, EndedIsFinal
================================================================================
