--------------------------- MODULE SyncClient_proofs ---------------------------
(* Proofs about SyncClient for any number of requests, parts and contents: *)
(* the server of a pushing client is one of SyncSession, so that what is   *)
(* proved there holds here, and the parts it stores are the bundle's.      *)
EXTENDS SyncClient, SyncSession_proofs

(*                        The types of the client                          *)

Client == [at : Stage, req : SUBSET Request, todo : SUBSET Part, ready : BOOLEAN,
           archive : {Archive, Other}]

ClientTypes ==
    /\ client \in Client /\ file \in {Archive, Other}
    /\ saved \in BOOLEAN /\ faults \in 0 .. MaxFaults

LEMMA SessIsSession == Sess \in Session
  BY OneSession

LEMMA NoClientType == NoClient \in Client
  BY DEF NoClient, Client, Stage

(* The client goes on, is sent an answer, or ends.                         *)
LEMMA ContinueType ==
    ASSUME ClientTypes, NEW todo \in SUBSET Part, NEW ready \in BOOLEAN,
           Continue(todo, ready)
    PROVE  client' \in Client /\ client'.archive = client.archive
  BY DEF Continue, ClientTypes, Client, Stage

LEMMA ToStageType ==
    ASSUME ClientTypes, NEW stage \in Stage, ToStage(stage)
    PROVE  client' \in Client /\ client'.archive = client.archive
  BY DEF ToStage, ClientTypes, Client

LEMMA QuitType ==
    ASSUME Quit
    PROVE  client' \in Client /\ client'.archive = Archive
  BY NoClientType DEF Quit, NoClient

LEMMA AnsweredType ==
    ASSUME ClientTypes, NEW r \in Request, Answered(r)
    PROVE  client' \in Client /\ client'.archive \in {client.archive, Archive}
           /\ saved' \in BOOLEAN
<1>1. saved' \in BOOLEAN
  BY DEF Answered, ClientTypes
<1>2. CASE Continue(IF req[r].pc = "mark" THEN client.todo ELSE Part \ Received(Sess),
                    req[r].seen = "ready" /\ req[r].pc # "mark")
  <2>1. (IF req[r].pc = "mark" THEN client.todo ELSE Part \ Received(Sess)) \in SUBSET Part
    BY DEF ClientTypes, Client
  <2>2. (req[r].seen = "ready" /\ req[r].pc # "mark") \in BOOLEAN
    OBVIOUS
  <2> QED BY <1>1, <1>2, <2>1, <2>2, ContinueType
<1>3. CASE ToStage("commit")
  BY <1>1, <1>3, ToStageType DEF Stage
<1>4. CASE Continue(client.todo \ {req[r].idx},
                    IF req[r].pc = "recount" THEN req[r].seen = "ready"
                                             ELSE req[r].next = "ready")
  <2>1. (client.todo \ {req[r].idx}) \in SUBSET Part
    BY DEF ClientTypes, Client
  <2>2. (IF req[r].pc = "recount" THEN req[r].seen = "ready"
                                  ELSE req[r].next = "ready") \in BOOLEAN
    OBVIOUS
  <2> QED BY <1>1, <1>4, <2>1, <2>2, ContinueType
<1>5. CASE Quit
  BY <1>1, <1>5, QuitType
<1> QED BY <1>2, <1>3, <1>4, <1>5 DEF Answered

LEMMA HeardType ==
    ASSUME ClientTypes, NEW r \in Request, Heard(r)
    PROVE  client' \in Client /\ client'.archive \in {client.archive, Archive}
           /\ saved' \in BOOLEAN
<1>1. CASE UNCHANGED <<client, saved>>
  BY <1>1 DEF ClientTypes
<1>2. CASE Answered(r)
  BY <1>2, AnsweredType
<1>3. CASE /\ client' = [client EXCEPT !.todo = Part \ Received(Sess)]
           /\ UNCHANGED saved
  BY <1>3 DEF ClientTypes, Client
<1> QED BY <1>1, <1>2, <1>3 DEF Heard

(* The archive a command sends is the announced one or what the bundle     *)
(* file holds when it starts.                                              *)
LEMMA ClientStepType ==
    ASSUME ClientTypes, [ClientNext]_all
    PROVE  ClientTypes' /\ client'.archive \in {client.archive, Archive, file}
<1>1. ASSUME Fault PROVE faults' \in 0 .. MaxFaults
  BY <1>1, OtherAssumption DEF Fault, ClientTypes
<1>2. CASE Push
  BY <1>2, ToStageType DEF Push, Stage, ClientTypes
<1>3. CASE SaveSession
  BY <1>3, ToStageType DEF SaveSession, Stage, ClientTypes
<1>4. CASE Resume
  <2>1. client' \in Client /\ client'.archive = file
    BY <1>4, NoClientType DEF Resume, Client, Stage, ClientTypes
  <2> QED BY <1>4, <2>1 DEF Resume, ClientTypes
<1>5. CASE ReplaceBundle
  BY <1>1, <1>5 DEF ReplaceBundle, ClientTypes
<1>6. ASSUME NEW r \in Request, Send(r)
      PROVE  ClientTypes' /\ client'.archive \in {client.archive, Archive, file}
  <2>1. client' \in Client /\ client'.archive = client.archive
    BY <1>6 DEF Send, ClientTypes, Client
  <2> QED BY <1>6, <2>1 DEF Send, ClientTypes
<1>7. CASE GiveUp
  BY <1>1, <1>7, QuitType DEF GiveUp, ClientTypes
<1>8. CASE Background \/ UNCHANGED all
  BY <1>8 DEF Background, cvars, all, ClientTypes
<1>9. ASSUME NEW r \in Request, Serve(r)
      PROVE  ClientTypes' /\ client'.archive \in {client.archive, Archive, file}
  BY <1>9, HeardType DEF Serve, ClientTypes
<1>10. ASSUME NEW r \in Request, ServerFails(r)
       PROVE  ClientTypes' /\ client'.archive \in {client.archive, Archive, file}
  BY <1>1, <1>10, QuitType DEF ServerFails, ClientTypes
<1> QED BY <1>2, <1>3, <1>4, <1>5, <1>6, <1>7, <1>8, <1>9, <1>10 DEF ClientNext, ClientStep
-------------------------------------------------------------------------------
(*                        A server of SyncSession                          *)

LEMMA HandlerStep ==
    ASSUME NEW r \in Request, Serve(r) \/ ServerFails(r)
    PROVE  Next
  BY DEF Serve, ServerFails, Next, Handle

(* A part that is sent is a slice of what the command has read.            *)
LEMMA SentSlice ==
    ASSUME ClientTypes, NEW r \in Request, Send(r), client.at = "upload"
    PROVE  \E i \in Part : /\ ArriveUpload(r, Sess, i, client.archive[i])
                           /\ client.archive[i] \in Data
<1>1. PICK i \in client.todo : ArriveUpload(r, Sess, i, Slice(i))
  BY DEF Send
<1>2. i \in Part /\ client.archive \in [Part -> Data]
  BY ArchiveAssumption, OtherAssumption DEF ClientTypes, Client
<1> QED BY <1>1, <1>2 DEF Slice

LEMMA ClientStepIsServerStep ==
    ASSUME ClientTypes, [ClientNext]_all
    PROVE  [Next]_vars
<1>0. Sess \in Session
  BY SessIsSession
<1>1. CASE Push
  BY <1>0, <1>1 DEF Push, Next
<1>2. CASE SaveSession \/ Resume \/ ReplaceBundle \/ UNCHANGED all
  BY <1>2 DEF SaveSession, Resume, ReplaceBundle, all
<1>3. ASSUME NEW r \in Request, Send(r) PROVE Next
  <2>1. CASE client.at = "commit" /\ ArriveOther(r, "commit", Sess)
    BY <1>0, <2>1 DEF Next
  <2>2. CASE client.at \in {"ask", "again"} /\ ArriveOther(r, "get", Sess)
    BY <1>0, <2>2 DEF Next
  <2>3. CASE client.at = "upload"
    <3>1. PICK i \in Part : /\ ArriveUpload(r, Sess, i, client.archive[i])
                            /\ client.archive[i] \in Data
      BY <1>3, <2>3, SentSlice
    <3> QED BY <1>0, <3>1 DEF Next
  <2> QED BY <1>3, <2>1, <2>2, <2>3 DEF Send
<1>4. CASE GiveUp
  <2>1. client.req \subseteq Request
    BY DEF ClientTypes, Client
  <2> QED BY <1>4, <2>1 DEF GiveUp, Next
<1>5. CASE Background
  BY <1>0, <1>5 DEF Background, Next
<1> QED BY <1>1, <1>2, <1>3, <1>4, <1>5, HandlerStep DEF ClientNext, ClientStep

LEMMA InitClientTypes == ClientInit => ClientTypes
<1> SUFFICES ASSUME ClientInit PROVE ClientTypes
  OBVIOUS
<1>1. client = NoClient /\ saved = FALSE /\ file = Archive /\ faults = MaxFaults
  BY DEF ClientInit
<1>2. MaxFaults \in 0 .. MaxFaults
  BY OtherAssumption
<1>3. saved \in BOOLEAN
  BY <1>1, Zenon
<1> QED BY <1>1, <1>2, <1>3, NoClientType DEF ClientTypes

(* Whatever commands are started, killed and resumed, the server does what *)
(* SyncSession says: every theorem about that specification holds here.    *)
THEOREM ServerRefined == ClientSpec => Spec
<1>1. ClientTypes /\ [ClientNext]_all => ClientTypes'
  BY ClientStepType
<1>2. ClientTypes /\ [ClientNext]_all => [Next]_vars
  BY ClientStepIsServerStep
<1>3. ClientInit => Init
  BY DEF ClientInit
<1> QED BY InitClientTypes, <1>1, <1>2, <1>3, PTL DEF ClientSpec, Spec
-------------------------------------------------------------------------------
(*                          Parts of the bundle                            *)

(* Until the bundle is replaced, what is on its way to the server and what *)
(* the server has stored is the bundle's.  The fields of requests that are *)
(* no uploads, which no handler reads, are filled in the same way.         *)
Faithful ==
    file = Archive =>
        /\ client.archive = Archive
        /\ \A r \in Request : req[r].pc # "idle" => req[r].data = Archive[req[r].idx]
        /\ \A i \in Part : parts[Sess][i] \in {NoData, Archive[i]}

ClientInv == TypeOK /\ ClientTypes /\ Faithful

(* What a request carries is settled when it is sent.                      *)
SameLoad(r) ==
    req'[r].pc # "idle" =>
        /\ req[r].pc # "idle" /\ req'[r].op = req[r].op
        /\ req'[r].idx = req[r].idx /\ req'[r].data = req[r].data

LEMMA DoneLoad ==
    ASSUME TypeOK, NEW q \in Request, Done(q) \/ UNCHANGED req
    PROVE  \A r \in Request : SameLoad(r)
<1>1. \A r \in Request : req'[r] = req[r] \/ req'[r] = Idle
  BY DEF Done, TypeOK
<1> QED BY <1>1 DEF SameLoad, Idle

LEMMA GotoLoad ==
    ASSUME TypeOK, NEW q \in Request, req[q].pc # "idle",
           NEW p, Goto(q, p)
    PROVE  \A r \in Request : SameLoad(r)
<1>1. req[q] \in InFlight
  BY InFlightFields
<1>2. req'[q] = [req[q] EXCEPT !.pc = p, !.seen = "none"]
      /\ \A r \in Request \ {q} : req'[r] = req[r]
  BY DEF Goto, TypeOK
<1>3. req'[q].op = req[q].op /\ req'[q].idx = req[q].idx /\ req'[q].data = req[q].data
  BY <1>1, <1>2 DEF InFlight
<1> QED BY <1>2, <1>3 DEF SameLoad

(* A handler keeps what its request carries.                               *)
LEMMA HandleLoad ==
    ASSUME TypeOK, NEW q \in Request, Handle(q)
    PROVE  \A r \in Request : SameLoad(r)
<1>1. CASE Done(q)
  BY <1>1, DoneLoad
<1>2. CASE req[q].pc # "idle" /\ \E p : Goto(q, p)
  BY <1>2, GotoLoad
<1>3. CASE LoadSession(q)
  <2>1. req[q] \in InFlight
    BY <1>3, InFlightFields DEF LoadSession
  <2>2. PICK p : req' = [req EXCEPT ![q].seen = status[req[q].sess], ![q].pc = p]
    BY <1>3 DEF LoadSession
  <2>3. req'[q] = [req[q] EXCEPT !.seen = status[req[q].sess], !.pc = p]
        /\ \A r \in Request \ {q} : req'[r] = req[r]
    BY <2>2 DEF TypeOK
  <2>4. req'[q].op = req[q].op /\ req'[q].idx = req[q].idx /\ req'[q].data = req[q].data
    BY <2>1, <2>3 DEF InFlight
  <2> QED BY <1>3, <2>3, <2>4 DEF SameLoad, LoadSession
<1>4. CASE Recount(q)
  <2>1. req[q] \in InFlight
    BY <1>4, InFlightFields DEF Recount
  <2>2. CASE Done(q)
    BY <2>2, DoneLoad
  <2>3. CASE req' = [req EXCEPT ![q].next = Progress(req[q].sess), ![q].pc = "setstatus",
                                ![q].seen = "none"]
    <3>1. req'[q] = [req[q] EXCEPT !.next = Progress(req[q].sess), !.pc = "setstatus",
                                   !.seen = "none"]
          /\ \A r \in Request \ {q} : req'[r] = req[r]
      BY <2>3 DEF TypeOK
    <3>2. req'[q].op = req[q].op /\ req'[q].idx = req[q].idx /\ req'[q].data = req[q].data
      BY <2>1, <3>1 DEF InFlight
    <3> QED BY <1>4, <3>1, <3>2 DEF SameLoad, Recount
  <2> QED BY <1>4, <2>2, <2>3 DEF Recount
<1>5. CASE Gather(q) /\ req' = [req EXCEPT ![q].blob = parts[req[q].sess], ![q].pc = "import"]
  <2>1. req[q] \in InFlight
    BY <1>5, InFlightFields DEF Gather
  <2>2. req'[q] = [req[q] EXCEPT !.blob = parts[req[q].sess], !.pc = "import"]
        /\ \A r \in Request \ {q} : req'[r] = req[r]
    BY <1>5 DEF TypeOK
  <2>3. req'[q].op = req[q].op /\ req'[q].idx = req[q].idx /\ req'[q].data = req[q].data
    BY <2>1, <2>2 DEF InFlight
  <2> QED BY <1>5, <2>2, <2>3 DEF SameLoad, Gather
<1> QED BY <1>1, <1>2, <1>3, <1>4, <1>5 DEF Handle, CheckUpload, CheckCommit, CheckGet,
          MarkExpired, SelectPart, InsertPart, SetStatus, Gather, PreviewDrift, ImportBundle,
          ImportFails, FailJob, CommitTx

(* A request that arrives carries what it is sent with.                    *)
LEMMA ArriveLoad ==
    ASSUME TypeOK, NEW q \in Request, NEW op, NEW s, NEW i, NEW d, Arrive(q, op, s, i, d)
    PROVE  /\ req'[q].op = op /\ req'[q].idx = i /\ req'[q].data = d
           /\ \A r \in Request \ {q} : req'[r] = req[r]
  BY DEF Arrive, TypeOK

(* Requests in flight carry the bundle's parts.                            *)
LEMMA LoadsAreFaithful ==
    ASSUME ClientInv, [ClientNext]_all, file = Archive, NEW r \in Request,
           req'[r].pc # "idle"
    PROVE  req'[r].data = Archive[req'[r].idx]
<1>0. TypeOK /\ ClientTypes
  BY DEF ClientInv
<1>1. CASE \A q \in Request : SameLoad(q)
  BY <1>1 DEF SameLoad, ClientInv, Faithful
<1>2. ASSUME NEW q \in Request, Send(q)
      PROVE  req'[r].data = Archive[req'[r].idx]
  <2>1. \A p \in Request \ {q} : req'[p] = req[p]
    <3>1. CASE client.at = "upload"
      BY <1>0, <1>2, <3>1, SentSlice, ArriveLoad DEF ArriveUpload
    <3> QED BY <1>0, <1>2, <3>1, ArriveLoad DEF Send, ArriveOther
  <2>2. CASE q # r
    BY <2>1, <2>2 DEF ClientInv, Faithful
  <2>3. CASE q = r /\ client.at = "upload"
    <3>1. PICK i \in Part : ArriveUpload(r, Sess, i, client.archive[i])
      BY <1>0, <1>2, <2>3, SentSlice
    <3>2. req'[r].idx = i /\ req'[r].data = client.archive[i]
      BY <1>0, <3>1, ArriveLoad DEF ArriveUpload
    <3> QED BY <3>2 DEF ClientInv, Faithful
  <2>4. CASE q = r /\ client.at # "upload"
    <3>1. PICK op \in {"get", "commit"} : ArriveOther(r, op, Sess)
      BY <1>2, <2>4 DEF Send
    <3>2. PICK i \in Part : Arrive(r, op, Sess, i, Archive[i])
      BY <3>1, PartAssumption DEF ArriveOther
    <3>3. req'[r].idx = i /\ req'[r].data = Archive[i]
      BY <1>0, <3>2, ArriveLoad
    <3> QED BY <3>3
  <2> QED BY <2>2, <2>3, <2>4
<1>3. ASSUME NEW q \in Request, Serve(q) \/ ServerFails(q)
      PROVE  \A p \in Request : SameLoad(p)
  <2>1. Handle(q) \/ Cancel(q)
    BY <1>3 DEF Serve, ServerFails, Handle
  <2> QED BY <1>0, <2>1, HandleLoad, DoneLoad DEF Cancel
<1>4. CASE GiveUp
  <2>1. client.req \subseteq Request
    BY <1>0 DEF ClientTypes, Client
  <2>2. UNCHANGED req \/ \E q \in Request : Done(q)
    BY <1>4, <2>1 DEF GiveUp, Cancel, vars
  <2> QED BY <1>0, <1>1, <2>2, DoneLoad
<1>5. CASE UNCHANGED req
  BY <1>0, <1>1, <1>5, DoneLoad
<1> QED BY <1>1, <1>2, <1>3, <1>4, <1>5 DEF ClientNext, ClientStep, Push, StartSession,
          SaveSession, Resume, ReplaceBundle, Background, PassDeadline, CleanSelect, CleanWrite,
          CleanFail, vars, all

(* A part is stored by an upload that carries it.                          *)
LEMMA StoredByUpload ==
    ASSUME TypeOK, [Next]_vars, NEW s \in Session, NEW i \in Part
    PROVE  \/ parts'[s][i] \in {parts[s][i], NoData}
           \/ \E r \in Request : /\ req[r].pc = "insert"
                                 /\ req[r].idx = i /\ parts'[s][i] = req[r].data
<1>1. CASE UNCHANGED parts
  BY <1>1
<1>2. ASSUME NEW r \in Request, InsertPart(r), ~UNCHANGED parts
      PROVE  \/ parts'[s][i] \in {parts[s][i], NoData}
             \/ req[r].pc = "insert" /\ req[r].idx = i /\ parts'[s][i] = req[r].data
  <2>1. req[r].sess \in Session /\ req[r].idx \in Part /\ req[r].pc = "insert"
    BY <1>2, InFlightFields DEF InsertPart, InFlight
  <2>2. parts' = [parts EXCEPT ![req[r].sess][req[r].idx] = req[r].data]
    BY <1>2 DEF InsertPart
  <2> QED BY <2>1, <2>2 DEF TypeOK, Blob
<1>3. ASSUME NEW r \in Request, CommitTx(r) PROVE parts'[s][i] \in {parts[s][i], NoData}
  BY <1>3 DEF CommitTx, TypeOK, NoParts
<1>4. ASSUME NEW t \in Session, AbortSession(t) PROVE parts'[s][i] \in {parts[s][i], NoData}
  BY <1>4 DEF AbortSession, TypeOK, NoParts
<1>5. CASE CleanWrite
  BY <1>5 DEF CleanWrite, NoParts
<1> QED BY <1>1, <1>2, <1>3, <1>4, <1>5 DEF Next, vars, Handle, StartSession, PassDeadline,
      ArriveUpload, ArriveOther, Arrive, Cancel, LoadSession, CheckUpload, CheckCommit, CheckGet,
      MarkExpired, SelectPart, Recount, SetStatus, Gather, PreviewDrift, ImportBundle,
      ImportFails, FailJob, CleanSelect, CleanFail

LEMMA ClientInvInit == ClientInit => ClientInv
<1> SUFFICES ASSUME ClientInit PROVE ClientInv
  OBVIOUS
<1>1. TypeOK /\ ClientTypes
  BY InitTypeOK, InitClientTypes DEF ClientInit
<1>2. Faithful
  BY SessIsSession DEF ClientInit, Init, Faithful, NoClient, NoParts, Idle
<1> QED BY <1>1, <1>2 DEF ClientInv

LEMMA ClientInvNext ==
    ASSUME ClientInv, [ClientNext]_all
    PROVE  ClientInv'
<1>1. TypeOK /\ ClientTypes /\ [Next]_vars
  BY ClientStepIsServerStep DEF ClientInv
<1>2. TypeOK' /\ ClientTypes' /\ client'.archive \in {client.archive, Archive, file}
  BY <1>1, NextTypeOK, ClientStepType
<1>3. file' = Archive => file = Archive
  <2>1. file' = file \/ file' = Other
    BY DEF ClientNext, ClientStep, Push, SaveSession, Resume, ReplaceBundle, GiveUp, Send,
       Background, Serve, ServerFails, cvars, all
  <2> QED BY <1>1, <2>1 DEF ClientTypes
<1>4. ASSUME file' = Archive PROVE Faithful'
  <2>1. file = Archive /\ client.archive = Archive
    BY <1>3, <1>4 DEF ClientInv, Faithful
  <2>2. client'.archive = Archive
    BY <1>2, <2>1
  <2>3. \A r \in Request : req'[r].pc # "idle" => req'[r].data = Archive[req'[r].idx]
    BY <2>1, LoadsAreFaithful
  <2>4. ASSUME NEW i \in Part PROVE parts'[Sess][i] \in {NoData, Archive[i]}
    <3>1. \/ parts'[Sess][i] \in {parts[Sess][i], NoData}
          \/ \E r \in Request : /\ req[r].pc = "insert"
                                /\ req[r].idx = i /\ parts'[Sess][i] = req[r].data
      BY <1>1, SessIsSession, StoredByUpload
    <3>2. parts[Sess][i] \in {NoData, Archive[i]}
      BY <2>1 DEF ClientInv, Faithful
    <3> QED BY <2>1, <3>1, <3>2 DEF ClientInv, Faithful
  <2> QED BY <2>2, <2>3, <2>4 DEF Faithful
<1> QED BY <1>2, <1>4 DEF ClientInv, Faithful

(* PartsFromBundle: whatever subset of the parts each resume (runResume)   *)
(* uploads, whichever requests time out and go on in the server, a part    *)
(* that is stored is that part of the bundle the session was opened for,   *)
(* as long as no later push has put another bundle in its place.           *)
THEOREM StoredFromBundle == ClientSpec => []PartsFromBundle
<1>1. ClientInv /\ [ClientNext]_all => ClientInv'
  BY ClientInvNext
<1>2. ClientInv => PartsFromBundle
  BY DEF ClientInv, Faithful, PartsFromBundle
<1> QED BY ClientInvInit, <1>1, <1>2, PTL DEF ClientSpec

(* The client may be killed, time out and resume at will: what the hub     *)
(* imports is the announced archive, a session that says "committed" was   *)
(* imported, no ended session has a running job, nobody gets in after the  *)
(* deadline, stored parts stay what they are, and the end is final.        *)
THEOREM ServerPromisesKept ==
    ClientSpec =>
        /\ [](/\ ImportsGenuine /\ SuccessWasImported
              /\ TerminalJobSettled /\ LateRequestsRefused)
        /\ PartsNotOverwritten /\ EndedIsFinal
  BY ServerRefined, GenuineImports, SuccessAfterImport, SettledJobs, NoLateAccess,
     PartsWriteOnce, FinalForGood, PTL
================================================================================
