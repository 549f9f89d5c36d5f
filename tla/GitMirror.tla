------------------------------ MODULE GitMirror ------------------------------
(***************************************************************************)
(* The hosted Git mirror of one user (internal/localgitsync): the row of   *)
(* local_git_mirrors is at once the settings and a queue of length one.    *)
(* A handler that wrote files, "Sync now" or the overwrite button queues   *)
(* the mirror by reading the row and upserting all of it; the scheduler    *)
(* goroutine of every server claims a queued row with one conditional      *)
(* UPDATE, copies the file tree into the user's Git working tree, commits, *)
(* pushes, and twice writes the whole row back from an image it read       *)
(* earlier.                                                                *)
(*                                                                         *)
(* One step is one SQL statement, one copy of the tree, or one exchange    *)
(* with the remote.  The mirror has a remote and pushes automatically, as  *)
(* hosted mirrors do.  The content of the tree is its number of writes.    *)
(* remote_conflict, last_error and the times that are only displayed are   *)
(* left out.                                                               *)
(***************************************************************************)
EXTENDS Integers, FiniteSets

CONSTANTS Request,      \* handlers: each queues the mirror or saves settings once
          Worker,       \* servers, each with one scheduler goroutine
          RetryLimit,   \* len(hostedRetryBackoff)
          MaxForeign,   \* bound: pushes to the remote by somebody else
          MaxFaults     \* bound: lost servers, requests and database writes

ASSUME RetryAssumption == RetryLimit \in Nat
ASSUME BoundAssumption == MaxForeign \in Nat /\ MaxFaults \in Nat
ASSUME ActorAssumption == Request \cap Worker = {}

VARIABLES
  tree,        \* writes committed to the file tree
  mirrored,    \* the tree version in the Git working tree
  remote,      \* head of the remote branch, and whether it has foreign commits
  row,         \* the user's row of local_git_mirrors
  clock,       \* the last timestamp taken
  req, worker, \* local state of the handlers and of the scheduler goroutines
  \* history, read by properties only
  reviewed,    \* remote heads at which a user confirmed an overwrite
  overwritten, \* heads with foreign commits that a forced push replaced
  stale,       \* actors whose image of the row is older than the row
  overlap,     \* TRUE once a stale image was written
  faults

db      == <<row, stale, overlap>>
git     == <<tree, mirrored, remote>>
history == <<reviewed, overwritten, faults>>
vars    == <<db, git, clock, req, worker, history>>

Actor == Request \cup Worker
Kind  == {"write", "manual", "confirm", "settings"}

(* Timestamps are counted; 0 is NULL.  due abstracts sync_next_attempt_at: *)
(* it is NULL or has passed.                                               *)
Row == [state : {"idle", "queued", "running", "error"}, force : BOOLEAN,
        requested : Nat, started : Nat, due : BOOLEAN, attempts : Nat]
NewRow == [state |-> "idle", force |-> FALSE, requested |-> 0, started |-> 0,
           due |-> TRUE, attempts |-> 0]

Handler   == [pc : {"new", "read", "save", "done"}, kind : Kind, image : Row]
Scheduler == [pc : {"idle", "listed", "claim", "read", "copy", "fetch", "push",
                    "save", "settle", "settled"},
              stamp : Nat, image : Row, lease : Nat, failed : BOOLEAN]
NoRun     == [pc |-> "idle", stamp |-> 0, image |-> NewRow, lease |-> 0,
              failed |-> FALSE]
NoRequest(pc) == [pc |-> pc, kind |-> "write", image |-> NewRow]

TypeOK ==
  /\ tree \in Nat /\ mirrored \in Nat /\ clock \in Nat
  /\ remote \in [head : Nat, foreign : BOOLEAN]
  /\ row \in Row
  /\ req \in [Request -> Handler]
  /\ worker \in [Worker -> Scheduler]
  /\ reviewed \subseteq Nat /\ overwritten \subseteq Nat
  /\ stale \subseteq Actor
  /\ overlap \in BOOLEAN
  /\ faults \in Nat

Init ==
  /\ tree = 0 /\ mirrored = 0 /\ clock = 0
  /\ remote = [head |-> 0, foreign |-> FALSE]
  /\ row = NewRow
  /\ req = [r \in Request |-> NoRequest("new")]
  /\ worker = [w \in Worker |-> NoRun]
  /\ reviewed = {} /\ overwritten = {}
  /\ stale = Actor /\ overlap = FALSE /\ faults = 0

(* GetActiveLocalGitMirror: the actor now holds the current row.           *)
Fresh(a) == stale' = stale \ {a} /\ UNCHANGED <<row, overlap>>

(* UpsertActiveLocalGitMirror: every column comes from the actor's image.  *)
Upsert(a, image) ==
  /\ row' = image
  /\ overlap' = (overlap \/ a \in stale)
  /\ stale' = Actor

-----------------------------------------------------------------------------
(* Handlers.                                                               *)

(* A handler commits its write to the file tree before it queues the       *)
(* mirror; the others start with the row.                                  *)
BeginRequest(r) ==
  /\ req[r].pc = "new"
  /\ \E kind \in Kind :
       /\ req' = [req EXCEPT ![r] = [NoRequest("read") EXCEPT !.kind = kind]]
       /\ tree' = IF kind = "write" THEN tree + 1 ELSE tree
       /\ reviewed' = IF kind = "confirm" THEN reviewed \cup {remote.head}
                                          ELSE reviewed
  /\ UNCHANGED <<db, mirrored, remote, clock, worker, overwritten, faults>>

(* What MarkMirrorQueued makes of the row it read.                         *)
Queued(r, kind, now) ==
  [r EXCEPT !.force     = (kind = "confirm") \/ @,
            !.requested = now,
            !.due       = TRUE,
            !.state     = IF @ = "running" THEN @ ELSE "queued",
            !.attempts  = IF r.state = "running" THEN @ ELSE 0]

ReadToQueue(r) ==
  /\ req[r].pc = "read" /\ req[r].kind # "settings"
  /\ clock' = clock + 1
  /\ req' = [req EXCEPT ![r].pc = "save",
                        ![r].image = Queued(row, req[r].kind, clock')]
  /\ Fresh(r)
  /\ UNCHANGED <<git, worker, history>>

(* UpdateMirrorSettings leaves the columns of the queue as it read them;   *)
(* a new remote clears the force flag.                                     *)
ReadSettings(r) ==
  /\ req[r].pc = "read" /\ req[r].kind = "settings"
  /\ \E force \in {row.force, FALSE} :
       req' = [req EXCEPT ![r].pc = "save", ![r].image = [row EXCEPT !.force = force]]
  /\ Fresh(r)
  /\ UNCHANGED <<git, clock, worker, history>>

SaveRequest(r) ==
  /\ req[r].pc = "save"
  /\ Upsert(r, req[r].image)
  /\ req' = [req EXCEPT ![r] = NoRequest("done")]
  /\ UNCHANGED <<git, clock, worker, history>>

-----------------------------------------------------------------------------
(* RunQueuedGitMirrorSyncs.                                                *)

(* Mutant: the last retry is queued and never claimed.                     *)
ClaimableBeforeLast == row.state = "queued" /\ row.due /\ row.attempts < RetryLimit

Claimable == row.state = "queued" /\ row.due

ListQueued(w) ==
  /\ worker[w].pc = "idle"
  /\ Claimable
  /\ worker' = [worker EXCEPT ![w].pc = "listed"]
  /\ UNCHANGED <<db, git, clock, req, history>>

StampStart(w) ==
  /\ worker[w].pc = "listed"
  /\ clock' = clock + 1
  /\ worker' = [worker EXCEPT ![w].pc = "claim", ![w].stamp = clock']
  /\ UNCHANGED <<db, git, req, history>>

Claim(w) ==
  /\ worker[w].pc = "claim"
  /\ IF Claimable
     THEN /\ row' = [row EXCEPT !.state = "running", !.started = worker[w].stamp]
          /\ stale' = Actor
          /\ worker' = [worker EXCEPT ![w] = [NoRun EXCEPT !.pc = "read"]]
     ELSE /\ worker' = [worker EXCEPT ![w] = NoRun]
          /\ UNCHANGED <<row, stale>>
  /\ UNCHANGED <<git, overlap, clock, req, history>>

(* SyncActiveMirror: the image it will write back, then the copy.          *)
ReadForSync(w) ==
  /\ worker[w].pc = "read"
  /\ worker' = [worker EXCEPT ![w].pc = "copy", ![w].image = row]
  /\ Fresh(w)
  /\ UNCHANGED <<git, clock, req, history>>

CopyTree(w) ==
  /\ worker[w].pc = "copy"
  /\ mirrored' = tree
  /\ worker' = [worker EXCEPT ![w].pc = "fetch"]
  /\ UNCHANGED <<db, tree, remote, clock, req, history>>

(* The end of a sync that failed, with the state its image then has.       *)
FailSync(w, state) ==
  worker' = [worker EXCEPT ![w] =
    [@ EXCEPT !.pc = "save", !.failed = TRUE,
              !.image = [worker[w].image EXCEPT !.state = state]]]

CopyFails(w) ==
  /\ worker[w].pc = "copy"
  /\ FailSync(w, "error")
  /\ UNCHANGED <<db, git, clock, req, history>>

(* git add, git commit or the token failed: the image already says idle.   *)
FinalizeFails(w) ==
  /\ worker[w].pc = "fetch"
  /\ FailSync(w, "idle")
  /\ UNCHANGED <<db, git, clock, req, history>>

(* Nothing is pushed and the sync still counts as done.                    *)
NoPush(w) ==
  worker' = [worker EXCEPT ![w] =
    [@ EXCEPT !.pc = "save",
              !.image = [worker[w].image EXCEPT !.state = "idle", !.force = FALSE]]]

(* prepareRemotePush: foreign commits block the push unless it is forced;  *)
(* a fetch that fails blocks every push.                                   *)
FetchBlocked(w) ==
  /\ worker[w].pc = "fetch"
  /\ NoPush(w)
  /\ UNCHANGED <<db, git, clock, req, history>>

Fetch(w) ==
  /\ worker[w].pc = "fetch"
  /\ ~remote.foreign \/ worker[w].image.force
  /\ worker' = [worker EXCEPT ![w].pc = "push", ![w].lease = remote.head]
  /\ UNCHANGED <<db, git, clock, req, history>>

(* Mutant: a plain --force.                                                *)
PushAcceptedAlways(w) == TRUE

(* git push, or git push --force-with-lease on the head that was fetched.  *)
PushAccepted(w) == IF worker[w].image.force
                     THEN remote.head = worker[w].lease
                     ELSE ~remote.foreign

Push(w) ==
  /\ worker[w].pc = "push"
  /\ PushAccepted(w)
  /\ remote' = [remote EXCEPT !.foreign = FALSE]
  /\ overwritten' = IF remote.foreign THEN overwritten \cup {remote.head}
                                      ELSE overwritten
  /\ NoPush(w)
  /\ UNCHANGED <<db, tree, mirrored, clock, req, reviewed, faults>>

PushFails(w) ==
  /\ worker[w].pc = "push"
  /\ NoPush(w)
  /\ UNCHANGED <<db, git, clock, req, history>>

SaveSync(w) ==
  /\ worker[w].pc = "save"
  /\ Upsert(w, worker[w].image)
  /\ worker' = [worker EXCEPT ![w] = [NoRun EXCEPT !.pc = "settle",
                                                   !.failed = worker[w].failed]]
  /\ UNCHANGED <<git, clock, req, history>>

(* Mutant: requests made during the run are not looked for.                *)
RequestIgnored(r) == FALSE

RequestedDuringRun(r) == r.requested # 0 /\ r.started # 0 /\ r.requested > r.started

AttemptsAfter(r) == r.attempts + 1

(* Mutant: one retry more than the backoff table has.                      *)
OneRetryMore(attempts) == attempts <= RetryLimit + 1

RetriesLeft(attempts) == attempts <= RetryLimit

(* What runQueuedMirror makes of the row it reads after the sync.          *)
Settled(r, failed) ==
  IF failed
    THEN LET again == RetriesLeft(AttemptsAfter(r)) IN
         [r EXCEPT !.attempts = AttemptsAfter(r), !.due = ~again,
                   !.state = IF again THEN "queued" ELSE "error"]
    ELSE [r EXCEPT !.attempts = 0, !.due = TRUE,
                   !.state = IF RequestedDuringRun(r) THEN "queued" ELSE "idle"]

ReadToSettle(w) ==
  /\ worker[w].pc = "settle"
  /\ worker' = [worker EXCEPT ![w] =
       [@ EXCEPT !.pc = "settled", !.image = Settled(row, worker[w].failed)]]
  /\ Fresh(w)
  /\ UNCHANGED <<git, clock, req, history>>

SaveSettled(w) ==
  /\ worker[w].pc = "settled"
  /\ Upsert(w, worker[w].image)
  /\ worker' = [worker EXCEPT ![w] = NoRun]
  /\ UNCHANGED <<git, clock, req, history>>

-----------------------------------------------------------------------------
(* Time, the rest of the world, and faults.                                *)

BackoffElapses ==
  /\ ~row.due
  /\ row' = [row EXCEPT !.due = TRUE]
  /\ UNCHANGED <<stale, overlap, git, clock, req, worker, history>>

ForeignPush ==
  /\ remote.head < MaxForeign
  /\ remote' = [head |-> remote.head + 1, foreign |-> TRUE]
  /\ UNCHANGED <<db, tree, mirrored, clock, req, worker, history>>

Fault == faults < MaxFaults /\ faults' = faults + 1

(* The server stops, or the statement fails: the handler ends there.       *)
LoseRequest(r) ==
  /\ req[r].pc \in {"read", "save"}
  /\ Fault
  /\ req' = [req EXCEPT ![r] = NoRequest("done")]
  /\ UNCHANGED <<db, git, clock, worker, reviewed, overwritten>>

(* The server restarts, or a statement outside SyncActiveMirror's save     *)
(* fails: the goroutine is back between two passes.                        *)
LoseWorker(w) ==
  /\ worker[w].pc # "idle"
  /\ Fault
  /\ worker' = [worker EXCEPT ![w] = NoRun]
  /\ UNCHANGED <<db, git, clock, req, reviewed, overwritten>>

SaveSyncFails(w) ==
  /\ worker[w].pc = "save"
  /\ Fault
  /\ worker' = [worker EXCEPT ![w] = [NoRun EXCEPT !.pc = "settle", !.failed = TRUE]]
  /\ UNCHANGED <<db, git, clock, req, reviewed, overwritten>>

-----------------------------------------------------------------------------
Handle(r) == BeginRequest(r) \/ ReadToQueue(r) \/ ReadSettings(r) \/ SaveRequest(r)

Run(w) ==
  \/ ListQueued(w) \/ StampStart(w) \/ Claim(w) \/ ReadForSync(w)
  \/ CopyTree(w) \/ CopyFails(w) \/ FinalizeFails(w)
  \/ FetchBlocked(w) \/ Fetch(w) \/ Push(w) \/ PushFails(w)
  \/ SaveSync(w) \/ ReadToSettle(w) \/ SaveSettled(w)

Next ==
  \/ \E r \in Request : Handle(r) \/ LoseRequest(r)
  \/ \E w \in Worker : Run(w) \/ LoseWorker(w) \/ SaveSyncFails(w)
  \/ BackoffElapses
  \/ ForeignPush

Spec == Init /\ [][Next]_vars

(* The scheduler ticks for ever and a pass ends: git and the database      *)
(* answer or fail.  A request that started goes on, and time passes.       *)
Fairness ==
  /\ \A w \in Worker : WF_vars(Run(w))
  /\ \A r \in Request : WF_vars(ReadToQueue(r) \/ ReadSettings(r) \/ SaveRequest(r))
  /\ WF_vars(BackoffElapses)

FairSpec == Spec /\ Fairness

-----------------------------------------------------------------------------
(* Properties.                                                             *)

AtRest ==
  /\ \A r \in Request : req[r].pc \in {"new", "done"}
  /\ \A w \in Worker : worker[w].pc = "idle"

(* With one server, the one way to lose a request is to write a row image  *)
(* that is out of date: while every upsert of queue.go and service.go      *)
(* happens to write an up-to-date image and nothing breaks, an idle mirror *)
(* holds every write to the file tree, and a mirror nobody works on is not *)
(* left running.                                                           *)
UndisturbedMirrorIsCurrent ==
  AtRest /\ ~overlap /\ faults = 0 =>
    /\ row.state # "running"
    /\ row.state = "idle" => mirrored = tree

(* Foreign commits on the remote are destroyed by a forced push only, and  *)
(* force_remote_overwrite is never set unless a user confirmed: whatever   *)
(* stale images, retries and races of git_ops.go write back.               *)
UnconfirmedNeverOverwritten == overwritten # {} => reviewed # {}

(* A row that waits or runs has retries left (queue.go): no interleaving   *)
(* of requests, settings and failing runs, of any number of servers, lets  *)
(* a run start beyond the backoff table.                                   *)
RetryBudgetKept == row.state \in {"queued", "running"} => row.attempts <= RetryLimit

(* With finitely many requests the queue runs dry, also when every sync    *)
(* fails: a request is claimed, and retries end.                           *)
QueueRunsDry == <>[](row.state # "queued")

(* docs/github-backup.md:92, "Click Sync now to write the current Vola     *)
(* file tree and push it": at rest, an idle mirror has the tree.           *)
IdleMirrorIsCurrent == AtRest /\ faults = 0 /\ row.state = "idle" => mirrored = tree

=============================================================================
