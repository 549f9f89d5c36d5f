------------------------------ MODULE SyncSession ------------------------------
(***************************************************************************)
(* Archive sync sessions on Postgres (internal/services/sync_service.go).   *)
(*                                                                         *)
(* A client opens a session for one archive, uploads the archive in parts, *)
(* and commits it; the server then parses the archive and imports it into  *)
(* the hub.  Sessions expire after 24 hours and a job in the background    *)
(* cleans them.  Every HTTP request runs in a goroutine of its own and no  *)
(* lock covers a request: what is atomic is one SQL statement, or one      *)
(* transaction.  A request is therefore a small process whose record in    *)
(* req says how far its handler has come.                                  *)
(*                                                                         *)
(* Part bytes are members of Data.  Archive[i] is what part i must be for  *)
(* the concatenation to be the archive whose hash StartSession was given.  *)
(* The clock is overdue[s]: whether now is after expires_at of session s.  *)
(***************************************************************************)
EXTENDS Naturals, FiniteSets

CONSTANTS
    Session,    \* session ids (each has one sync_jobs row)
    Request,    \* goroutines that serve HTTP requests
    Part,       \* part indexes 0 .. total_parts-1
    Data,       \* contents a part can have
    NoData,     \* no row in sync_session_parts
    Archive     \* the announced archive, part by part

ASSUME ArchiveAssumption == Archive \in [Part -> Data]
ASSUME NoDataAssumption == NoData \notin Data
ASSUME PartAssumption == Part # {}      \* archive_size_bytes must be > 0

VARIABLES
    status,     \* sync_sessions.status, "none" before the row exists
    job,        \* sync_jobs.status of the session's job
    parts,      \* sync_session_parts: the bytes stored for each index
    overdue,    \* time.Now() is after sync_sessions.expires_at
    imported,   \* archives ImportBundle has put into the hub, by session
    req,        \* the requests in flight
    cleaner     \* the transaction of CleanExpiredSessions

vars == <<status, job, parts, overdue, imported, req, cleaner>>
-------------------------------------------------------------------------------
Ended == {"committed", "aborted"}
Terminal == Ended \cup {"expired"}
Open == {"uploading", "ready"}
Status == {"none"} \cup Open \cup Terminal
JobStatus == {"none", "running", "succeeded", "failed", "aborted"}

Op == {"upload", "commit", "get"}
Blob == [Part -> Data \cup {NoData}]
NoParts == [i \in Part |-> NoData]

Idle == [pc |-> "idle"]

(* late: the session was already past its deadline when the request came;  *)
(* seen: the session row the handler has read last; next: the status       *)
(* UploadPart will write; blob: the archive CommitSession has gathered.    *)
InFlight == [pc : {"load", "check", "mark", "select", "insert", "reload", "recount",
                   "setstatus", "gather", "import", "committx", "failjob"},
             op : Op, sess : Session, idx : Part, data : Data, late : BOOLEAN,
             seen : Status, next : Open, blob : Blob]

NoRun == [pc |-> "idle", pick |-> {}, due |-> {}]
Run == [pc : {"idle", "write"}, pick : SUBSET Session, due : SUBSET Session]

TypeOK ==
    /\ status \in [Session -> Status]
    /\ job \in [Session -> JobStatus]
    /\ parts \in [Session -> Blob]
    /\ overdue \in [Session -> BOOLEAN]
    /\ imported \in [Session -> SUBSET Blob]
    /\ req \in [Request -> InFlight \cup {Idle}]
    /\ cleaner \in Run
-------------------------------------------------------------------------------
(* On to the next statement; a row that was read serves one check only.    *)
Goto(r, pc) == req' = [req EXCEPT ![r].pc = pc, ![r].seen = "none"]
Done(r) == req' = [req EXCEPT ![r] = Idle]

Received(s) == {i \in Part : parts[s][i] # NoData}
Complete(s) == Received(s) = Part

(* The status UploadPart derives from the rows it counts.                  *)
Progress(s) == IF Complete(s) THEN "ready" ELSE "uploading"

(* A run of SQL that only moves a job that is still running.               *)
FailIfRunning(j) == IF j = "running" THEN "failed" ELSE j

Init ==
    /\ status = [s \in Session |-> "none"]
    /\ job = [s \in Session |-> "none"]
    /\ parts = [s \in Session |-> NoParts]
    /\ overdue = [s \in Session |-> FALSE]
    /\ imported = [s \in Session |-> {}]
    /\ req = [r \in Request |-> Idle]
    /\ cleaner = NoRun
-------------------------------------------------------------------------------
(* StartSession: the job row and the session row in one transaction.       *)
StartSession(s) ==
    /\ status[s] = "none"
    /\ status' = [status EXCEPT ![s] = "uploading"]
    /\ job' = [job EXCEPT ![s] = "running"]
    /\ UNCHANGED <<parts, overdue, imported, req, cleaner>>

PassDeadline(s) ==
    /\ status[s] # "none"
    /\ ~overdue[s]
    /\ overdue' = [overdue EXCEPT ![s] = TRUE]
    /\ UNCHANGED <<status, job, parts, imported, req, cleaner>>

(* A request for a known session reaches its handler.  Only an upload has  *)
(* an index and bytes; the two fields of the others are never read.        *)
Arrive(r, op, s, i, d) ==
    /\ req[r] = Idle
    /\ status[s] # "none"
    /\ req' = [req EXCEPT ![r] = [pc |-> "load", op |-> op, sess |-> s, idx |-> i,
                                  data |-> d, late |-> overdue[s], seen |-> "none",
                                  next |-> "uploading", blob |-> NoParts]]
    /\ UNCHANGED <<status, job, parts, overdue, imported, cleaner>>

ArriveUpload(r, s, i, d) == Arrive(r, "upload", s, i, d)

ArriveOther(r, op, s) ==
    LET i == CHOOSE i \in Part : TRUE IN Arrive(r, op, s, i, Archive[i])

(* The client goes away (its context cancels every later statement), a     *)
(* statement fails, or the process dies: nothing later of the handler runs. *)
Cancel(r) ==
    /\ req[r] # Idle
    /\ Done(r)
    /\ UNCHANGED <<status, job, parts, overdue, imported, cleaner>>
-------------------------------------------------------------------------------
(* loadSessionState is two statements outside a transaction: the session   *)
(* row here, the part rows in the step that follows.                       *)
LoadSession(r) ==
    /\ req[r].pc \in {"load", "reload"}
    /\ req' = [req EXCEPT ![r].seen = status[req[r].sess],
                          ![r].pc = IF req[r].pc = "load" THEN "check" ELSE "recount"]
    /\ UNCHANGED <<status, job, parts, overdue, imported, cleaner>>

(* ensureActiveSession on the row that was read and the clock of now.      *)
SeenExpired(r) ==
    /\ req[r].seen \notin Ended
    /\ req[r].seen = "expired" \/ overdue[req[r].sess]

(* Mutant: the check trusts the status column and forgets the clock.       *)
ActiveByStatus(r) == req[r].seen \notin Terminal

Active(r) == req[r].seen \notin Terminal /\ ~overdue[req[r].sess]

CheckUpload(r) ==
    /\ req[r].pc = "check" /\ req[r].op = "upload"
    /\ \/ Active(r) /\ Goto(r, "select")
       \/ SeenExpired(r) /\ Goto(r, "mark")
       \/ req[r].seen \in Ended /\ Done(r)
    /\ UNCHANGED <<status, job, parts, overdue, imported, cleaner>>

(* Mutant: completeness is read off the status column.                     *)
CheckCommitByStatus(r) ==
    /\ req[r].pc = "check" /\ req[r].op = "commit"
    /\ \/ Active(r) /\ req[r].seen = "ready" /\ Goto(r, "gather")
       \/ Active(r) /\ req[r].seen # "ready" /\ Done(r)
       \/ SeenExpired(r) /\ Goto(r, "mark")
       \/ req[r].seen \in Ended /\ Done(r)
    /\ UNCHANGED <<status, job, parts, overdue, imported, cleaner>>

CheckCommit(r) ==
    /\ req[r].pc = "check" /\ req[r].op = "commit"
    /\ \/ Active(r) /\ Complete(req[r].sess) /\ Goto(r, "gather")
       \/ Active(r) /\ ~Complete(req[r].sess) /\ Done(r)
       \/ SeenExpired(r) /\ Goto(r, "mark")
       \/ req[r].seen \in Ended /\ Done(r)
    /\ UNCHANGED <<status, job, parts, overdue, imported, cleaner>>

(* GetSession writes too: it marks an overdue session on the way.          *)
CheckGet(r) ==
    /\ req[r].pc = "check" /\ req[r].op = "get"
    /\ IF req[r].seen \notin Ended /\ overdue[req[r].sess] THEN Goto(r, "mark") ELSE Done(r)
    /\ UNCHANGED <<status, job, parts, overdue, imported, cleaner>>

(* Mutant: the job is left to run.                                         *)
MarkExpiredKeepJob(r) ==
    LET s == req[r].sess IN
    /\ req[r].pc = "mark"
    /\ status' = [status EXCEPT ![s] = IF @ \in Ended THEN @ ELSE "expired"]
    /\ Done(r)
    /\ UNCHANGED <<job, parts, overdue, imported, cleaner>>

(* Mutant: the UPDATE has no "status NOT IN (committed, aborted)".         *)
MarkExpiredAlways(r) ==
    LET s == req[r].sess IN
    /\ req[r].pc = "mark"
    /\ status' = [status EXCEPT ![s] = "expired"]
    /\ job' = [job EXCEPT ![s] = FailIfRunning(@)]
    /\ Done(r)
    /\ UNCHANGED <<parts, overdue, imported, cleaner>>

(* markSessionExpired: one transaction whose updates are guarded in SQL.   *)
MarkExpired(r) ==
    LET s == req[r].sess IN
    /\ req[r].pc = "mark"
    /\ status' = [status EXCEPT ![s] = IF @ \in Ended THEN @ ELSE "expired"]
    /\ job' = [job EXCEPT ![s] = FailIfRunning(@)]
    /\ Done(r)
    /\ UNCHANGED <<parts, overdue, imported, cleaner>>
-------------------------------------------------------------------------------
(* UploadPart, its transaction: SELECT the part; the same bytes are only   *)
(* touched, other bytes are a conflict, no row leads to the INSERT.        *)
SelectPart(r) ==
    LET stored == parts[req[r].sess][req[r].idx] IN
    /\ req[r].pc = "select"
    /\ \/ stored = NoData /\ Goto(r, "insert")
       \/ stored = req[r].data /\ Goto(r, "reload")
       \/ stored \notin {NoData, req[r].data} /\ Done(r)
    /\ UNCHANGED <<status, job, parts, overdue, imported, cleaner>>

(* Mutant: INSERT ... ON CONFLICT DO UPDATE.                               *)
UpsertPart(r) ==
    /\ req[r].pc = "insert"
    /\ parts' = [parts EXCEPT ![req[r].sess][req[r].idx] = req[r].data]
    /\ Goto(r, "reload")
    /\ UNCHANGED <<status, job, overdue, imported, cleaner>>

(* The INSERT: a row that appeared since the SELECT violates the primary   *)
(* key and fails the request.                                              *)
InsertPart(r) ==
    LET s == req[r].sess
        i == req[r].idx IN
    /\ req[r].pc = "insert"
    /\ IF parts[s][i] = NoData
       THEN parts' = [parts EXCEPT ![s][i] = req[r].data] /\ Goto(r, "reload")
       ELSE Done(r) /\ UNCHANGED parts
    /\ UNCHANGED <<status, job, overdue, imported, cleaner>>

(* The second loadSessionState counts the parts; the status row read with  *)
(* it is compared, never checked again.                                    *)
Recount(r) ==
    LET next == Progress(req[r].sess) IN
    /\ req[r].pc = "recount"
    /\ IF req[r].seen = next
       THEN Done(r)
       ELSE req' = [req EXCEPT ![r].next = next, ![r].pc = "setstatus", ![r].seen = "none"]
    /\ UNCHANGED <<status, job, parts, overdue, imported, cleaner>>

(* updateSessionStatus: WHERE id = $1, whatever the row holds by now.      *)
SetStatus(r) ==
    /\ req[r].pc = "setstatus"
    /\ status' = [status EXCEPT ![req[r].sess] = req[r].next]
    /\ Done(r)
    /\ UNCHANGED <<job, parts, overdue, imported, cleaner>>
-------------------------------------------------------------------------------
(* Mutant: the archive is imported without comparing its hash.             *)
GatherUnverified(r) ==
    LET s == req[r].sess IN
    /\ req[r].pc = "gather"
    /\ \/ ~Complete(s) /\ Done(r)
       \/ /\ Complete(s)
          /\ req' = [req EXCEPT ![r].blob = parts[s], ![r].pc = "import"]
    /\ UNCHANGED <<status, job, parts, overdue, imported, cleaner>>

(* CommitSession after its checks: loadArchiveData reads and counts the    *)
(* rows again, ParseBundleArchive and the hash comparison accept only the  *)
(* announced archive.                                                      *)
Gather(r) ==
    LET s == req[r].sess IN
    /\ req[r].pc = "gather"
    /\ \/ ~Complete(s) /\ Done(r)
       \/ Complete(s) /\ parts[s] # Archive /\ Goto(r, "failjob")
       \/ /\ Complete(s) /\ parts[s] = Archive
          /\ req' = [req EXCEPT ![r].blob = parts[s], ![r].pc = "import"]
    /\ UNCHANGED <<status, job, parts, overdue, imported, cleaner>>

(* The request named a preview and the hub has changed since: the outcome  *)
(* of PreviewManifest depends on the hub, which this module leaves open.   *)
PreviewDrift(r) ==
    /\ req[r].pc = "import"
    /\ Done(r)
    /\ UNCHANGED <<status, job, parts, overdue, imported, cleaner>>

(* ImportBundle writes the hub in transactions of its own, long before the *)
(* session row is touched.                                                 *)
ImportBundle(r) ==
    /\ req[r].pc = "import"
    /\ imported' = [imported EXCEPT ![req[r].sess] = @ \cup {req[r].blob}]
    /\ Goto(r, "committx")
    /\ UNCHANGED <<status, job, parts, overdue, cleaner>>

(* Mutant: the error of ImportBundle is dropped.                           *)
ImportFailsUnnoticed(r) ==
    /\ req[r].pc = "import"
    /\ Goto(r, "committx")
    /\ UNCHANGED <<status, job, parts, overdue, imported, cleaner>>

ImportFails(r) ==
    /\ req[r].pc = "import"
    /\ Goto(r, "failjob")
    /\ UNCHANGED <<status, job, parts, overdue, imported, cleaner>>

(* finishSyncJob(failed): the session keeps its status and can be retried. *)
FailJob(r) ==
    /\ req[r].pc = "failjob"
    /\ job' = [job EXCEPT ![req[r].sess] = "failed"]
    /\ Done(r)
    /\ UNCHANGED <<status, parts, overdue, imported, cleaner>>

(* The closing transaction of CommitSession, with no condition on status.  *)
CommitTx(r) ==
    LET s == req[r].sess IN
    /\ req[r].pc = "committx"
    /\ status' = [status EXCEPT ![s] = "committed"]
    /\ parts' = [parts EXCEPT ![s] = NoParts]
    /\ job' = [job EXCEPT ![s] = "succeeded"]
    /\ Done(r)
    /\ UNCHANGED <<overdue, imported, cleaner>>

(* AbortSession: what it loads first is only the (constant) job id.        *)
AbortSession(s) ==
    /\ status[s] # "none"
    /\ status' = [status EXCEPT ![s] = "aborted"]
    /\ parts' = [parts EXCEPT ![s] = NoParts]
    /\ job' = [job EXCEPT ![s] = "aborted"]
    /\ UNCHANGED <<overdue, imported, req, cleaner>>
-------------------------------------------------------------------------------
(* CleanExpiredSessions under READ COMMITTED: the SELECT picks sessions,   *)
(* the later statements act on the picked ids without looking again.       *)
CleanSelect ==
    /\ cleaner.pc = "idle"
    /\ cleaner' = [pc |-> "write",
                   pick |-> {s \in Session : overdue[s] /\ status[s] \in Open},
                   due |-> {s \in Session : overdue[s]}]
    /\ UNCHANGED <<status, job, parts, overdue, imported, req>>

(* Mutant: only the sessions expired by this run lose their parts.         *)
CleanWritePicked ==
    /\ cleaner.pc = "write"
    /\ status' = [s \in Session |-> IF s \in cleaner.pick THEN "expired" ELSE status[s]]
    /\ job' = [s \in Session |-> IF s \in cleaner.pick THEN FailIfRunning(job[s]) ELSE job[s]]
    /\ parts' = [s \in Session |-> IF s \in cleaner.pick THEN NoParts ELSE parts[s]]
    /\ cleaner' = NoRun
    /\ UNCHANGED <<overdue, imported, req>>

CleanWrite ==
    /\ cleaner.pc = "write"
    /\ status' = [s \in Session |-> IF s \in cleaner.pick THEN "expired" ELSE status[s]]
    /\ job' = [s \in Session |-> IF s \in cleaner.pick THEN FailIfRunning(job[s]) ELSE job[s]]
    /\ parts' = [s \in Session |->
                    IF s \in cleaner.due \/ status'[s] \in Terminal THEN NoParts ELSE parts[s]]
    /\ cleaner' = NoRun
    /\ UNCHANGED <<overdue, imported, req>>

(* The transaction fails or the process dies: everything rolls back.       *)
CleanFail ==
    /\ cleaner.pc = "write"
    /\ cleaner' = NoRun
    /\ UNCHANGED <<status, job, parts, overdue, imported, req>>
-------------------------------------------------------------------------------
Handle(r) ==
    \/ LoadSession(r) \/ CheckUpload(r) \/ CheckCommit(r) \/ CheckGet(r) \/ MarkExpired(r)
    \/ SelectPart(r) \/ InsertPart(r) \/ Recount(r) \/ SetStatus(r)
    \/ Gather(r) \/ PreviewDrift(r) \/ ImportBundle(r) \/ ImportFails(r)
    \/ FailJob(r) \/ CommitTx(r)

Next ==
    \/ \E s \in Session : StartSession(s) \/ PassDeadline(s) \/ AbortSession(s)
    \/ \E r \in Request, s \in Session :
          \/ \E i \in Part, d \in Data : ArriveUpload(r, s, i, d)
          \/ \E op \in {"commit", "get"} : ArriveOther(r, op, s)
    \/ \E r \in Request : Handle(r) \/ Cancel(r)
    \/ CleanSelect \/ CleanWrite \/ CleanFail

Spec == Init /\ [][Next]_vars

(* A handler that runs is scheduled; the scheduler starts the cleanup      *)
(* every hour, and not every one of its transactions fails.                *)
Fairness ==
    /\ \A r \in Request : WF_vars(Handle(r))
    /\ WF_vars(CleanSelect)
    /\ SF_vars(CleanWrite)

FairSpec == Spec /\ Fairness
-------------------------------------------------------------------------------
(* Whatever reaches the hub through a session is the announced archive,    *)
(* whole and unmixed: neither parts of concurrent uploads with other bytes *)
(* nor a part deleted under the commit ever get into an import.            *)
ImportsGenuine == \A s \in Session : imported[s] \subseteq {Archive}

(* A job says "succeeded", and a session "committed", only when the import *)
(* did happen, although the import is not part of that transaction.        *)
SuccessWasImported ==
    \A s \in Session :
        job[s] = "succeeded" \/ status[s] = "committed" => Archive \in imported[s]

(* Whoever ends a session settles its job as well: no path (abort, commit, *)
(* cleanup, lazy expiry) leaves a terminal session with a running job.     *)
TerminalJobSettled == \A s \in Session : status[s] \in Terminal => job[s] # "running"

(* "Late cleanup does not bring a session back" (sync-audit.md): a request *)
(* that comes after the deadline stores no part and imports nothing, even  *)
(* if an older upload has just set the status back to uploading or ready.  *)
LateRequestsRefused ==
    \A r \in Request : req[r] # Idle /\ req[r].late => req[r].pc \in {"load", "check", "mark"}

(* Stored bytes never turn into other bytes: two uploads of one index with *)
(* different contents cannot both be accepted, whatever their interleaving.*)
PartsNotOverwritten ==
    [][\A s \in Session, i \in Part :
          parts[s][i] # NoData => parts'[s][i] \in {parts[s][i], NoData}]_vars

(* The handler in r is not past its check of session s: what it still does *)
(* to s is at most a guarded markSessionExpired.                           *)
Outside(r, s) ==
    \/ req[r] = Idle
    \/ req[r].sess # s
    \/ req[r].pc \in {"load", "mark"}
    \/ req[r].pc = "check" /\ req[r].seen \in Ended

Unattended(s) == s \notin cleaner.pick /\ \A r \in Request : Outside(r, s)

Final(s) == status[s] \in Ended /\ Unattended(s)

(* Once a session is committed or aborted with no racing handler or        *)
(* cleanup inside, it stays ended for good: no request that comes later    *)
(* can revive it, mark it expired, or start to race.                       *)
EndedIsFinal == [][\A s \in Session : Final(s) => Final(s)']_vars

(* Past its deadline a session eventually is terminal for good and its     *)
(* bytes are gone for good, although uploads that passed their check in    *)
(* time may still insert parts and reopen the status behind the cleanup.   *)
OverdueReclaimed ==
    \A s \in Session :
        overdue[s] ~> [](status[s] \in Terminal /\ parts[s] = NoParts)
-------------------------------------------------------------------------------
(* The integration test aborts a session and finds it aborted, and every   *)
(* handler refuses an aborted session.  Still an upload that passed its    *)
(* check before the abort sets the session back to uploading or ready.     *)
AbortedNeverReopens ==
    [][\A s \in Session : status[s] = "aborted" => status'[s] \notin Open]_vars
================================================================================
