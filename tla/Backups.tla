------------------------------ MODULE Backups ------------------------------
(***************************************************************************)
(* External backups (internal/backups).  A backup target is a row that     *)
(* names a WebDAV or S3 store; a run exports the hub, puts the archive     *)
(* into that store, records the result on the target and in backup_runs,   *)
(* and then applies the retention policy: it lists the recorded runs and   *)
(* deletes the archives that the policy gives up.  Runs are started by     *)
(* HTTP handlers and by the scheduler of every server, which goes through  *)
(* the targets whose interval has passed; nothing keeps two runs of one    *)
(* target apart.                                                           *)
(*                                                                         *)
(* One step is one statement of the database or one request to the store.  *)
(* A statement can fail, a request too, with or without its effect, and a  *)
(* goroutine can end with its server: at most MaxUpsets times in all, but  *)
(* at every request to a store in broken.  A request to a store in silent  *)
(* gets no answer and is waited for: the client has no timeout, the        *)
(* scheduler's context no deadline.  The name of an archive is the second  *)
(* it was uploaded in, which is what the clock counts.                     *)
(***************************************************************************)
EXTENDS Integers, Sequences, FiniteSets

CONSTANTS Target,     \* rows of backup_targets
          Sweeper,    \* schedulers, one per server
          Handler,    \* goroutines that serve POST /backup/targets/{id}/run
          Interval,   \* auto_backup_interval_hours
          Mode,       \* enabled and auto_backup_enabled: off, manual, auto
          Policy,     \* values of retention_keep_last and retention_keep_days
          Limit,      \* targets run by one sweep: 20
          PageSize,   \* runs listed for retention: 50, as 500 exceeds 200
          MaxTime,    \* bound of the clock
          MaxRows,    \* bound: rows of backup_runs; the database refuses another
          MaxUpsets   \* bound: faults and saves of a target, in all

ASSUME NumberAssumption ==
  /\ Mode \subseteq {"off", "manual", "auto"} /\ Policy \subseteq [keep : Nat, days : Nat]
  /\ {Interval, Limit, PageSize, MaxTime, MaxRows, MaxUpsets} \subseteq Nat
  /\ MaxTime >= 1 /\ "auto" \in Mode
ASSUME TargetAssumption == IsFiniteSet(Target) /\ Target # {}

VARIABLES
  clock,
  target,    \* the rows of backup_targets
  rows,      \* the rows of backup_runs
  store,     \* archives in the stores, as <<target, name>>
  run,       \* the RunTargetWithTrigger of each goroutine
  queue,     \* what is left of each scheduler's sweep
  edit,      \* a SaveTarget between its read and its write
  broken,    \* targets whose store refuses everything
  silent,    \* targets whose store never answers
  upsets,    \* faults and saves still to come
  uploads, reused,   \* history: names uploaded, names uploaded twice
  floor      \* history: the least any policy applied to a target keeps

rest == <<clock, edit, broken, silent>>
vars == <<rest, target, rows, store, run, queue, upsets, uploads, reused, floor>>

Proc == Sweeper \cup Handler
None == 0                  \* no time, no object: the clock starts at 1
Time == None .. MaxTime

NoPolicy == [keep |-> 0, days |-> 0]

\* At rest every field of a run has one value, so that idle goroutines are alike.
NoRun(t) == [at |-> "idle", target |-> t, policy |-> NoPolicy, started |-> None,
             object |-> None, completed |-> None, prune |-> <<>>]
Idle == NoRun(CHOOSE t \in Target : TRUE)
NoEdit == [target |-> {}, last |-> None, object |-> None]

TypeOK ==
  /\ clock \in Time
  /\ target \in [Target -> [mode : Mode, policy : Policy, last : Time,
                            object : Time]]
  /\ rows \subseteq [id : Nat, target : Target, started : Time, object : Time,
                     completed : Time, ok : BOOLEAN, gone : BOOLEAN]
  /\ store \subseteq Target \X Time
  /\ \A p \in Proc :
       /\ run[p].at \in {"idle", "upload", "failed", "uploaded", "recorded",
                         "inserted", "delete", "gone", "kept", "waiting"}
       /\ run[p].target \in Target
       /\ run[p].prune \in Seq(Nat)
       /\ run[p].object \in Time
       /\ queue[p] \in Seq(Target)
  /\ \A r, q \in rows : r.id = q.id => r = q
-----------------------------------------------------------------------------
Init ==
  /\ clock = 1
  /\ target \in [Target -> [mode : {"auto"}, policy : Policy, last : {None},
                            object : {None}]]
  /\ rows = {} /\ store = {} /\ edit = NoEdit
  /\ run = [p \in Proc |-> Idle]
  /\ queue = [p \in Proc |-> <<>>]
  /\ broken \in SUBSET Target /\ silent \in SUBSET (Target \ broken)
  /\ upsets = MaxUpsets
  /\ uploads = {} /\ reused = {}
  /\ floor = [t \in Target |-> [keep |-> MaxRows, days |-> MaxTime]]

Tick ==
  /\ clock < MaxTime
  /\ clock' = clock + 1
  /\ UNCHANGED <<edit, broken, silent, target, rows, store, run, queue, upsets,
                 uploads, reused, floor>>

Step(p, changes) == run' = [run EXCEPT ![p] = changes]
Fault == upsets > 0 /\ upsets' = upsets - 1
\* A request to t's store fails.
StoreFault(t) == IF t \in broken THEN UNCHANGED upsets ELSE Fault

\* SaveTarget reads the row, and writes the whole row with the settings of
\* the request and the results it read.
ReadForSave(t) ==
  /\ edit = NoEdit /\ upsets > 0
  /\ edit' = [target |-> {t}, last |-> target[t].last, object |-> target[t].object]
  /\ upsets' = upsets - 1
  /\ UNCHANGED <<clock, broken, silent, target, rows, store, run, queue, uploads,
                 reused, floor>>

WriteSave(t) ==
  /\ edit.target = {t}
  /\ \E mode \in Mode, policy \in Policy :
       target' = [target EXCEPT ![t] =
         [mode |-> mode, policy |-> policy, last |-> edit.last,
          object |-> edit.object]]
  /\ edit' = NoEdit
  /\ UNCHANGED <<clock, broken, silent, rows, store, run, queue, upsets, uploads,
                 reused, floor>>

\* The image of the row that a run works with until its end.
Begin(p, t) ==
  LET image == target[t] IN
  Step(p, [NoRun(t) EXCEPT !.at = "upload", !.policy = image.policy,
             !.started = clock, !.object = image.object])

HasRoom == Cardinality(rows) < MaxRows

RunTarget(h, t) ==
  /\ run[h].at = "idle" /\ target[t].mode # "off" /\ HasRoom
  /\ Begin(h, t)
  /\ UNCHANGED <<rest, target, rows, store, queue, upsets, uploads, reused, floor>>

Due(t) == target[t].mode = "auto"
            /\ (target[t].last = None \/ target[t].last + Interval <= clock)

\* Sequences of the targets in S, longest without a backup first.
Orders(S) == {f \in [1 .. Cardinality(S) -> S] :
                \A i, j \in 1 .. Cardinality(S) : i < j =>
                  f[i] # f[j] /\ target[f[i]].last <= target[f[j]].last}

FirstOf(list, n) == SubSeq(list, 1, IF Len(list) < n THEN Len(list) ELSE n)

\* The rows and the time of a sweep are read once, so which targets are due,
\* and which of them are beyond the limit, is settled here.
RunDueTargets(s) ==
  /\ run[s].at = "idle" /\ queue[s] = <<>>
  /\ \E list \in Orders({t \in Target : Due(t)}) :
       queue' = [queue EXCEPT ![s] = FirstOf(list, Limit)]
  /\ UNCHANGED <<rest, target, rows, store, run, upsets, uploads, reused, floor>>

NextTarget(s) ==
  /\ run[s].at = "idle" /\ queue[s] # <<>>
  /\ queue' = [queue EXCEPT ![s] = Tail(@)]
  /\ LET t == Head(queue[s]) IN
     IF target[t].mode = "off" THEN UNCHANGED run ELSE Begin(s, t)
  /\ UNCHANGED <<rest, target, rows, store, upsets, uploads, reused, floor>>
-----------------------------------------------------------------------------
\* The archive reaches the store under the name of this second.
Put(p) ==
  LET archive == <<run[p].target, clock>> IN
  /\ store' = store \cup {archive}
  /\ uploads' = uploads \cup {archive}
  /\ reused' = IF archive \in uploads THEN reused \cup {archive} ELSE reused

Upload(p) ==
  /\ run[p].at = "upload" /\ run[p].target \notin broken \cup silent
  /\ Put(p)
  /\ Step(p, [run[p] EXCEPT !.at = "uploaded", !.object = clock])
  /\ UNCHANGED <<rest, target, rows, queue, upsets, floor>>

\* The credentials or the export fail, or the upload does.
ExportFails(p) ==
  /\ run[p].at = "upload" /\ Fault
  /\ Step(p, [run[p] EXCEPT !.at = "failed"])
  /\ UNCHANGED <<rest, target, rows, store, queue, uploads, reused, floor>>

UploadFails(p) ==
  /\ run[p].at = "upload" /\ run[p].target \notin silent /\ StoreFault(run[p].target)
  /\ Put(p) \/ UNCHANGED <<store, uploads, reused>>
  /\ Step(p, [run[p] EXCEPT !.at = "failed", !.object = clock])
  /\ UNCHANGED <<rest, target, rows, queue, floor>>

Row(p, ok) == [id |-> Cardinality(rows) + 1, target |-> run[p].target,
               started |-> run[p].started, object |-> run[p].object,
               completed |-> clock, ok |-> ok, gone |-> FALSE]

\* Mutant: a failure ends the whole sweep.
FinishFailureAborts(p) ==
  /\ run[p].at = "failed"
  /\ Step(p, Idle)
  /\ queue' = [queue EXCEPT ![p] = <<>>]
  /\ UNCHANGED <<rest, target, rows, store, upsets, uploads, reused, floor>>

\* finishFailure: what becomes of its two statements is ignored, and the
\* second changes only the error shown with the target.
FinishFailure(p) ==
  /\ run[p].at = "failed"
  /\ \/ HasRoom /\ rows' = rows \cup {Row(p, FALSE)} /\ UNCHANGED upsets
     \/ UNCHANGED rows /\ IF HasRoom THEN Fault ELSE UNCHANGED upsets
  /\ Step(p, Idle)
  /\ UNCHANGED <<rest, target, store, queue, uploads, reused, floor>>

Record(p) ==
  /\ run[p].at = "uploaded"
  /\ target' = [target EXCEPT ![run[p].target].last = clock,
                              ![run[p].target].object = run[p].object]
  /\ Step(p, [run[p] EXCEPT !.at = "recorded", !.completed = clock])
  /\ UNCHANGED <<rest, rows, store, queue, upsets, uploads, reused, floor>>

InsertRun(p) ==
  /\ run[p].at = "recorded" /\ HasRoom
  /\ rows' = rows \cup {[Row(p, TRUE) EXCEPT !.completed = run[p].completed]}
  /\ Step(p, [run[p] EXCEPT !.at = "inserted"])
  /\ UNCHANGED <<rest, target, store, queue, upsets, uploads, reused, floor>>

\* An error of the database ends the run with nothing said about it.
Abandon(p) ==
  /\ run[p].at \in {"uploaded", "recorded", "inserted"}
  /\ IF run[p].at = "recorded" /\ ~HasRoom THEN UNCHANGED upsets ELSE Fault
  /\ Step(p, Idle)
  /\ UNCHANGED <<rest, target, rows, store, queue, uploads, reused, floor>>
-----------------------------------------------------------------------------
\* Lists of the runs of t by started_at, latest first, cut at PageSize.
RunLists(t) ==
  LET S == {r \in rows : r.target = t}
      N == 1 .. Cardinality(S)
  IN {FirstOf(f, PageSize) : f \in {g \in [N -> S] :
        \A i, j \in N : i < j => g[i] # g[j] /\ g[i].started >= g[j].started}}

Counts(r) == r.ok /\ r.object # None /\ ~r.gone

\* Mutant: failed and deleted runs count too.
SuccessIndexOfAll(list, i) == i

\* The place of list[i] among the successful runs of the list.
SuccessIndex(list, i) == Cardinality({j \in 1 .. i : Counts(list[j])})

Prunable(p, list, i) ==
  /\ Counts(list[i])
  /\ ~(run[p].policy.keep > 0 /\ SuccessIndex(list, i) <= run[p].policy.keep)
  /\ ~(run[p].policy.days > 0 /\ list[i].completed > run[p].completed - run[p].policy.days)

\* The runs of the list that the policy gives up and applyRetention goes on
\* to, in order: never the archive this run has just made.
Places(p, list) == {i \in DOMAIN list : Prunable(p, list, i) /\ list[i].object # run[p].object}
ToPrune(p, list) ==
  LET N == 1 .. Cardinality(Places(p, list))
  IN {[k \in N |-> list[f[k]].id] : f \in
        {g \in [N -> Places(p, list)] : \A i, j \in N : i < j => g[i] < g[j]}}

Least(a, b) == IF a < b THEN a ELSE b

\* After the run at the head of prune: the next one, or the end.
Advance(p, prune) ==
  Step(p, IF prune = <<>> THEN Idle
          ELSE [run[p] EXCEPT !.at = "delete", !.prune = prune])

ApplyRetention(p) ==
  LET t == run[p].target IN
  /\ run[p].at = "inserted"
  /\ IF run[p].policy = NoPolicy
     THEN Step(p, Idle) /\ UNCHANGED floor
     ELSE /\ \E list \in RunLists(t) : \E ids \in ToPrune(p, list) : Advance(p, ids)
          /\ floor' = [floor EXCEPT ![t] = [keep |-> Least(@.keep, run[p].policy.keep),
                                            days |-> Least(@.days, run[p].policy.days)]]
  /\ UNCHANGED <<rest, target, rows, store, queue, upsets, uploads, reused>>

Pruned(p) == CHOOSE r \in rows : r.id = Head(run[p].prune)

\* An archive that is not there is as good as deleted.
DeleteRemote(p) ==
  LET t == run[p].target
      archive == <<t, Pruned(p).object>> IN
  /\ run[p].at = "delete"
  /\ t \notin silent
  /\ \/ /\ t \notin broken /\ UNCHANGED upsets
        /\ store' = store \ {archive}
        /\ Step(p, [run[p] EXCEPT !.at = "gone"])
     \/ /\ StoreFault(t)
        /\ store' \in {store, store \ {archive}}
        /\ Step(p, [run[p] EXCEPT !.at = "kept"])
  /\ UNCHANGED <<rest, target, rows, queue, uploads, reused, floor>>

\* A request that nobody answers, carried out or not.
Wait(p) ==
  /\ run[p].at \in {"upload", "delete"} /\ run[p].target \in silent
  /\ \/ UNCHANGED <<store, uploads, reused>>
     \/ run[p].at = "upload" /\ Put(p)
     \/ /\ run[p].at = "delete" /\ UNCHANGED <<uploads, reused>>
        /\ store' = store \ {<<run[p].target, Pruned(p).object>>}
  /\ Step(p, [run[p] EXCEPT !.at = "waiting"])
  /\ UNCHANGED <<rest, target, rows, queue, upsets, floor>>

\* Mutant: an error is not told from a deletion.
DeletedAlways(p) == TRUE

\* deletedAt, or nil after an error.
Deleted(p) == run[p].at = "gone"

\* UpdateBackupRunRemoteDelete sets the time of the deletion, or clears it
\* after an error; that it may fail is ignored.
MarkDeleted(p) ==
  /\ run[p].at \in {"gone", "kept"}
  /\ \/ /\ rows' = (rows \ {Pruned(p)})
                     \cup {[Pruned(p) EXCEPT !.gone = Deleted(p)]}
        /\ UNCHANGED upsets
     \/ Fault /\ UNCHANGED rows
  /\ Advance(p, Tail(run[p].prune))
  /\ UNCHANGED <<rest, target, store, queue, uploads, reused, floor>>

\* The server stops, or the client of a handler goes away.
Die(p) ==
  /\ run[p].at # "idle" \/ queue[p] # <<>>
  /\ Fault
  /\ Step(p, Idle)
  /\ queue' = [queue EXCEPT ![p] = <<>>]
  /\ UNCHANGED <<rest, target, rows, store, uploads, reused, floor>>
-----------------------------------------------------------------------------
RunStep(p) ==
  \/ Upload(p) \/ ExportFails(p) \/ UploadFails(p) \/ FinishFailure(p)
  \/ Record(p) \/ InsertRun(p) \/ Abandon(p) \/ ApplyRetention(p)
  \/ DeleteRemote(p) \/ Wait(p) \/ MarkDeleted(p)

Next ==
  \/ Tick
  \/ \E t \in Target : ReadForSave(t) \/ WriteSave(t)
  \/ \E h \in Handler, t \in Target : RunTarget(h, t)
  \/ \E s \in Sweeper : RunDueTargets(s) \/ NextTarget(s)
  \/ \E p \in Proc : RunStep(p) \/ Die(p)

Spec == Init /\ [][Next]_vars

\* A goroutine goes on; the scheduler's ticker starts sweep after sweep.
Fairness ==
  /\ \A p \in Proc : WF_vars(RunStep(p))
  /\ \A s \in Sweeper : WF_vars(NextTarget(s)) /\ WF_vars(RunDueTargets(s))

FairSpec == Spec /\ Fairness
-----------------------------------------------------------------------------
Successes(t) == {r \in rows : r.target = t /\ r.ok}
Stored(r) == <<r.target, r.object>> \in store \cup reused

\* An archive of a successful run (ListPrunableBackupRuns, applyRetention) is
\* given up only when as many runs as any policy kept began after it, and as
\* many days as any policy kept have passed: whatever runs overlap, fail half
\* way, or take a policy that has been changed since they began.  Archives
\* uploaded within one second share a name, and are left out.
KeptBackupsExist ==
  \A t \in Target : \A r \in Successes(t) : ~Stored(r) =>
    /\ Cardinality({q \in Successes(t) \ {r} : q.started >= r.started}) >= floor[t].keep
    /\ r.completed + floor[t].days <= clock

\* A run shown as deleted from its store (UpdateBackupRunRemoteDelete) has no
\* archive there any more, although a delete may fail, or time out after it
\* was carried out, and two goroutines may prune the same run.
GoneIsGone == \A r \in rows :
  r.gone /\ <<r.target, r.object>> \notin reused => <<r.target, r.object>> \notin store

\* A target whose interval has passed gets its backup (RunDueTargets), however
\* many others are always tried before it and fail, as long as those are fewer
\* than the limit of a sweep.  What it may be left out for is a store that does
\* not answer at all: when every scheduler waits for one, no target is served.
DueIsServed == \A t \in Target :
  (Due(t) /\ t \notin broken /\ Cardinality(broken) < Limit) ~>
    (~Due(t) \/ \A s \in Sweeper : run[s].at = "waiting")
=============================================================================
