----------------------------- MODULE SyncClient -----------------------------
(***************************************************************************)
(* "vola sync push" and "vola sync resume" (internal/synccli), composed    *)
(* with the server of SyncSession, whose only requests are the client's.   *)
(*                                                                         *)
(* A push writes the archive to the bundle file, starts a session, writes  *)
(* the session file and then does what a resume does: it asks which parts  *)
(* are missing, uploads those from the bundle, asks once more if the last  *)
(* answer did not say ready, and commits.  Any error ends the command; the *)
(* session file stays, and the user resumes.  The client can be killed,    *)
(* and can time out while its request goes on in the server.  A push that  *)
(* dies between its two files leaves a new bundle beside the old session.  *)
(* At most MaxFaults such things happen, failures in the server included.  *)
(***************************************************************************)
EXTENDS SyncSession

CONSTANTS Sess,        \* the session of this bundle
          Other,       \* the archive of a later push to the same bundle file
          MaxFaults    \* bound: faults

ASSUME OneSession == Session = {Sess}
ASSUME OtherAssumption == Other \in [Part -> Data] /\ MaxFaults \in Nat
ASSUME PartNumbers == Part \subseteq Nat

VARIABLES client,      \* the command, and the request it waits for
          saved,       \* the session file is there
          file,        \* what the bundle file holds
          faults       \* faults still to come

cvars == <<client, saved, file, faults>>
all   == <<vars, cvars>>

Stage == {"off", "save", "ask", "upload", "again", "commit"}
NoClient == [at |-> "off", req |-> {}, todo |-> {}, ready |-> FALSE, archive |-> Archive]

ClientTypeOK ==
    /\ client.at \in Stage /\ client.req \in SUBSET Request
    /\ client.todo \subseteq Part /\ client.ready \in BOOLEAN
    /\ client.archive \in {Archive, Other} /\ file \in {Archive, Other}
    /\ saved \in BOOLEAN /\ faults \in 0 .. MaxFaults
-------------------------------------------------------------------------------
ClientInit == Init /\ client = NoClient /\ saved = FALSE /\ file = Archive
                /\ faults = MaxFaults

Fault == faults > 0 /\ faults' = faults - 1
ToStage(stage) == client' = [client EXCEPT !.at = stage, !.req = {}]
Quit == client' = NoClient

(* runPush until the answer to startSyncSession.                           *)
Push ==
    /\ client.at = "off" /\ StartSession(Sess)
    /\ ToStage("save")
    /\ UNCHANGED <<saved, file, faults>>

SaveSession ==
    /\ client.at = "save"
    /\ saved' = TRUE
    /\ ToStage("ask")
    /\ UNCHANGED <<vars, file, faults>>

(* runResume reads both files.                                             *)
Resume ==
    /\ client.at = "off" /\ saved
    /\ client' = [NoClient EXCEPT !.at = "ask", !.archive = file]
    /\ UNCHANGED <<vars, saved, file, faults>>

(* A later push has written its bundle and dies before it has a session.   *)
ReplaceBundle ==
    /\ client.at = "off" /\ saved /\ Fault
    /\ file' = Other
    /\ UNCHANGED <<vars, client, saved>>

(* Mutant: the parts are cut off the front, one after the other.           *)
SliceInOrder(i) ==
    client.archive[CHOOSE j \in Part :
        Cardinality({k \in Part : k < j}) =
          Cardinality({k \in Part : k < i /\ k \in client.todo})]

Slice(i) == client.archive[i]

Send(r) ==
    /\ client.req = {} /\ client.at \in Stage \ {"off", "save"}
    /\ \/ client.at \in {"ask", "again"} /\ ArriveOther(r, "get", Sess)
       \/ client.at = "commit" /\ ArriveOther(r, "commit", Sess)
       \/ /\ client.at = "upload"
          /\ \E i \in client.todo : /\ \A j \in client.todo : i <= j
                                    /\ ArriveUpload(r, Sess, i, Slice(i))
    /\ client' = [client EXCEPT !.req = {r}]
    /\ UNCHANGED <<saved, file, faults>>
-------------------------------------------------------------------------------
(* After an answer with this status, and these parts still to be sent.     *)
Continue(todo, ready) ==
    client' = [client EXCEPT !.req = {}, !.todo = todo, !.ready = ready,
                 !.at = IF todo # {} THEN "upload" ELSE IF ready THEN "commit" ELSE "again"]

(* What the client makes of the answer to r, given in this step.           *)
Answered(r) ==
    LET request == req[r] IN
    \/ /\ request.op = "get" /\ client.at = "ask"
       /\ Continue(IF request.pc = "mark" THEN client.todo ELSE Part \ Received(Sess),
                   request.seen = "ready" /\ request.pc # "mark")
       /\ UNCHANGED saved
    \/ request.op = "get" /\ client.at = "again" /\ ToStage("commit") /\ UNCHANGED saved
    \/ /\ request.op = "upload" /\ request.pc \in {"recount", "setstatus"}
       /\ Continue(client.todo \ {request.idx},
                   IF request.pc = "recount" THEN request.seen = "ready"
                                             ELSE request.next = "ready")
       /\ UNCHANGED saved
    \/ /\ request.op = "commit" /\ request.pc = "committx"
       /\ Quit /\ saved' = FALSE
    \/ /\ ~(\/ request.op = "get"
            \/ request.op = "upload" /\ request.pc \in {"recount", "setstatus"}
            \/ request.op = "commit" /\ request.pc = "committx")
       /\ Quit /\ UNCHANGED saved

(* The handler of r takes a step, which may end in its answer.  A get that *)
(* still has to mark the session has counted its parts by then.            *)
Heard(r) ==
    IF client.req # {r} THEN UNCHANGED <<client, saved>>
    ELSE \/ req'[r] = Idle /\ Answered(r)
         \/ /\ req'[r] # Idle /\ UNCHANGED saved
            /\ client' = IF req[r].op = "get" /\ req[r].pc = "check"
                         THEN [client EXCEPT !.todo = Part \ Received(Sess)] ELSE client

(* Everything in a handler but the failures.  The client names no preview, *)
(* so that the hub cannot drift away from it.                              *)
Serve(r) ==
    /\ \/ LoadSession(r) \/ CheckUpload(r) \/ CheckCommit(r) \/ CheckGet(r)
       \/ MarkExpired(r) \/ SelectPart(r) \/ InsertPart(r) \/ Recount(r) \/ SetStatus(r)
       \/ Gather(r) \/ ImportBundle(r) \/ FailJob(r) \/ CommitTx(r)
    /\ Heard(r)
    /\ UNCHANGED <<file, faults>>

ServerFails(r) ==
    /\ Fault
    /\ \/ ImportFails(r) /\ UNCHANGED <<client, saved>>
       \/ Cancel(r) /\ UNCHANGED saved
             /\ IF client.req = {r} THEN Quit ELSE UNCHANGED client
    /\ UNCHANGED file

(* The command is killed, or times out; so may be its request.             *)
GiveUp ==
    /\ client.at # "off" /\ Fault
    /\ Quit
    /\ \/ UNCHANGED vars
       \/ \E r \in client.req : Cancel(r)
    /\ UNCHANGED <<saved, file>>
-------------------------------------------------------------------------------
Background ==
    /\ PassDeadline(Sess) \/ CleanSelect \/ CleanWrite \/ CleanFail
    /\ UNCHANGED cvars

ClientStep == Push \/ SaveSession \/ Resume \/ \E r \in Request : Send(r)

ClientNext ==
    \/ ClientStep \/ ReplaceBundle \/ GiveUp \/ Background
    \/ \E r \in Request : Serve(r) \/ ServerFails(r)

(* The user resumes as long as there is a session file; the rest as in     *)
(* SyncSession.                                                            *)
ClientSpec ==
    /\ ClientInit /\ [][ClientNext]_all
    /\ WF_all(ClientStep)
    /\ \A r \in Request : WF_all(Serve(r))
    /\ WF_all(CleanSelect /\ UNCHANGED cvars)
    /\ SF_all(CleanWrite /\ UNCHANGED cvars)
-------------------------------------------------------------------------------
(* Resuming after any failures commits the session, unless it expires or   *)
(* the bundle is replaced: also when a part was stored but not answered    *)
(* for, or the server died before it wrote the status that goes with the   *)
(* last part, or a request that timed out is still at work.                *)
ResumeCompletes ==
    saved ~> status[Sess] = "committed" \/ overdue[Sess] \/ file # Archive

(* As long as the bundle is the one that was announced, whatever subset of *)
(* the parts a resume uploads, each part stored is that part of it.        *)
PartsFromBundle ==
    file = Archive => \A i \in Part : parts[Sess][i] \in {NoData, Archive[i]}
================================================================================
