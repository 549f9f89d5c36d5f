-------------------------------- MODULE FileTree --------------------------------
(***************************************************************************)
(* The file tree of one user on Postgres and its change feed               *)
(* (internal/services/filetree_service.go, filetree_quota.go).             *)
(*                                                                         *)
(* WriteEntry, EnsureDirectory and Delete are transactions over the rows   *)
(* of file_tree and the history in entry_versions.  Their row locks, and   *)
(* the lock on the users row the quota takes, are modelled: row locks by   *)
(* SELECT ... FOR UPDATE, "update" on the users row by the quota, "share"  *)
(* by the foreign key of entry_versions.  What a transaction has written   *)
(* is private to its record in tx until it commits; only the cursor, taken *)
(* from a sequence, is shared at once.  Readers start from a snapshot or   *)
(* from cursor 0 and then follow Changes.                                  *)
(***************************************************************************)
EXTENDS Integers, FiniteSets, FiniteSetsExt

CONSTANTS
    File,       \* paths of files
    Dir,        \* paths of directories
    Root,       \* the parent of a file that needs no directory row
    Parent,     \* the directory WriteEntry ensures for a file
    Rank,       \* order in which Delete visits the entries of a subtree
    Target,     \* the subtrees that may be deleted
    Tx,         \* database sessions that run the operations
    Client,     \* readers of the change feed
    ColdStart,  \* whether readers start with Snapshot (else from cursor 0)
    Size,       \* sizes of written contents
    Quota,      \* bytes the user may store, 0 for no limit
    Base,       \* expected versions of requests, AnyVersion for none
    MaxCursor   \* bound on the cursors of a run

Path == File \cup Dir

ASSUME PathAssumption == File \cap Dir = {} /\ Root \notin Path
ASSUME ParentAssumption == Parent \in [File -> Dir \cup {Root}]
ASSUME RankAssumption ==
    /\ Rank \in [Path -> Nat]
    /\ \A p, q \in Path : Rank[p] = Rank[q] => p = q
    /\ \A f \in File : Parent[f] \in Dir => Rank[f] < Rank[Parent[f]]
ASSUME TargetAssumption == Target \subseteq SUBSET Path
ASSUME SizeAssumption == Size \subseteq Nat /\ Quota \in Nat /\ MaxCursor \in Nat
ASSUME BaseAssumption == Base \subseteq {-1} \cup (Nat \ {0})
ASSUME ColdStartAssumption == ColdStart \in BOOLEAN

VARIABLES
    row,        \* file_tree, committed; version 0 means no row
    log,        \* entry_versions, committed
    next,       \* the next value of the cursor sequence
    tx,         \* the operation each database session runs
    client,     \* what each reader has
    overtaken   \* history: changes not committed when a later cursor was given out

vars == <<row, log, next, tx, client, overtaken>>
-------------------------------------------------------------------------------
Row == [version : Nat, live : BOOLEAN, size : Nat]
NoRow == [version |-> 0, live |-> FALSE, size |-> 0]

(* No expected_version in the request.                                     *)
AnyVersion == -1

Expected == Base \cup {AnyVersion}

Change == [cursor : Nat, path : Path, version : Nat, live : BOOLEAN, base : Expected]

Free == [pc |-> "free"]

Step == {"ensure", "ensureinsert", "revived", "ensurecommit", "lock", "quota", "apply",
         "delete", "share", "commit"}

(* path, base, size: the arguments of a write; todo: the entries Delete    *)
(* still has to visit; locks, user: locks held; wrote, sent: rows and       *)
(* history written and not yet committed.                                  *)
Running == [pc : Step, path : Path \cup {Root}, base : Expected, size : Nat, todo : SUBSET Path,
            locks : SUBSET Path, user : {"none", "share", "update"},
            wrote : [Path -> Row], sent : SUBSET Change]

(* cache: the version a reader holds of each live entry, 0 of the others.  *)
Reader == [pc : {"new", "listed", "ready"}, cursor : Nat, cache : [Path -> Nat]]

NoRows == [p \in Path |-> NoRow]

TypeOK ==
    /\ row \in [Path -> Row]
    /\ log \subseteq Change
    /\ next \in Nat
    /\ tx \in [Tx -> Running \cup {Free}]
    /\ client \in [Client -> Reader]
    /\ overtaken \subseteq Change

Init ==
    /\ row = NoRows
    /\ log = {}
    /\ next = 1
    /\ tx = [t \in Tx |-> Free]
    /\ client = [c \in Client |-> [pc |-> "new", cursor |-> 0, cache |-> [p \in Path |-> 0]]]
    /\ overtaken = {}
-------------------------------------------------------------------------------
Others(t) == {u \in Tx \ {t} : tx[u] # Free}

(* Row locks: a row is locked by one transaction; a row that does not      *)
(* exist cannot be locked.                                                 *)
Unlocked(t, p) == \A u \in Others(t) : p \notin tx[u].locks

(* FOR UPDATE on the users row conflicts with everything, the FOR KEY      *)
(* SHARE of a foreign key only with FOR UPDATE.                            *)
UserFree(t) == \A u \in Others(t) : tx[u].user = "none"
UserShareable(t) == \A u \in Others(t) : tx[u].user # "update"

(* The bytes of the live files (totalStorageUsageTx).                      *)
Usage == MapThenSumSet(LAMBDA p : IF row[p].live THEN row[p].size ELSE 0, File)

Latest(changes) == Max({0} \cup {e.cursor : e \in changes})

LiveVersion == [p \in Path |-> IF row[p].live THEN row[p].version ELSE 0]

(* The row of p after SET version = version + 1, or the first one.         *)
Bumped(p, live, size) == [version |-> row[p].version + 1, live |-> live, size |-> size]

(* A transaction writes row r of path p and its history record, whose      *)
(* cursor the sequence gives out at once (insertEntryVersion).             *)
Write(t, p, r, base, pc, user) ==
    /\ next <= MaxCursor
    /\ tx' = [tx EXCEPT ![t] = [tx[t] EXCEPT
                !.pc = pc, !.user = user,
                !.locks = @ \cup {p},
                !.todo = @ \ {p},
                !.wrote[p] = r,
                !.sent = @ \cup {[cursor |-> next, path |-> p, version |-> r.version,
                                  live |-> r.live, base |-> base]}]]
    /\ next' = next + 1
    /\ overtaken' = overtaken \cup UNION {tx[u].sent : u \in Others(t)}
    /\ UNCHANGED <<row, log, client>>

(* COMMIT publishes what the transaction wrote.                            *)
Publish(t) ==
    /\ row' = [p \in Path |-> IF tx[t].wrote[p] # NoRow THEN tx[t].wrote[p] ELSE row[p]]
    /\ log' = log \cup tx[t].sent

Begin(t, op) ==
    /\ tx[t] = Free
    /\ tx' = [tx EXCEPT ![t] = op]
    /\ UNCHANGED <<row, log, next, client, overtaken>>

End(t) ==
    /\ tx' = [tx EXCEPT ![t] = Free]
    /\ UNCHANGED <<row, log, next, client, overtaken>>

(* A step that changes nothing but the operation's own record.             *)
Continue(t, op) ==
    /\ tx' = [tx EXCEPT ![t] = op]
    /\ UNCHANGED <<row, log, next, client, overtaken>>

(* A second transaction of the same operation starts after the first one.  *)
Released(op, pc) ==
    [op EXCEPT !.pc = pc, !.locks = {}, !.user = "none", !.wrote = NoRows, !.sent = {}]
-------------------------------------------------------------------------------
(* WriteEntry(f, content of that size, expected_version = base).           *)
BeginWrite(t) == \E f \in File, size \in Size, base \in Base :
    Begin(t, [pc |-> IF Parent[f] = Root THEN "lock" ELSE "ensure", path |-> f, base |-> base,
              size |-> size, todo |-> {}, locks |-> {}, user |-> "none",
              wrote |-> NoRows, sent |-> {}])

(* Mutant: reviving a directory keeps its version.                         *)
EnsureFoundSameVersion(t) ==
    LET op == tx[t]  d == Parent[op.path] IN
    /\ op.pc = "ensure" /\ row[d] # NoRow /\ Unlocked(t, d)
    /\ IF row[d].live
       THEN Continue(t, Released(op, "lock"))
       ELSE Write(t, d, [row[d] EXCEPT !.live = TRUE], AnyVersion, "revived", op.user)

(* EnsureDirectory finds a row.  A live one keeps its version and has no   *)
(* history record; a tombstone is revived.                                 *)
EnsureFound(t) ==
    LET op == tx[t]  d == Parent[op.path] IN
    /\ op.pc = "ensure" /\ row[d] # NoRow /\ Unlocked(t, d)
    /\ IF row[d].live
       THEN Continue(t, Released(op, "lock"))
       ELSE Write(t, d, Bumped(d, TRUE, row[d].size), AnyVersion, "revived", op.user)

EnsureMissing(t) ==
    /\ tx[t].pc = "ensure" /\ row[Parent[tx[t].path]] = NoRow
    /\ Continue(t, [tx[t] EXCEPT !.pc = "ensureinsert"])

(* INSERT ... ON CONFLICT DO NOTHING waits for a pending insert of the     *)
(* same path.  If the path exists by now nothing is inserted, and the      *)
(* history record of the new id breaks its foreign key: the write fails.   *)
EnsureInsert(t) ==
    LET d == Parent[tx[t].path] IN
    /\ tx[t].pc = "ensureinsert" /\ Unlocked(t, d)
    /\ IF row[d] # NoRow
       THEN End(t)
       ELSE /\ UserShareable(t)
            /\ Write(t, d, Bumped(d, TRUE, 0), AnyVersion, "ensurecommit", "share")

EnsureCommit(t) ==
    /\ tx[t].pc = "ensurecommit"
    /\ Publish(t)
    /\ tx' = [tx EXCEPT ![t] = Released(@, "lock")]
    /\ UNCHANGED <<next, client, overtaken>>

(* Mutant: lockEntry reads without FOR UPDATE.                             *)
LockWriteNoWait(t) ==
    LET op == tx[t]  f == op.path IN
    /\ op.pc = "lock"
    /\ IF row[f] = NoRow
       THEN Continue(t, [op EXCEPT !.pc = "quota"])
       ELSE IF op.base \in {AnyVersion, row[f].version}
            THEN Continue(t, [op EXCEPT !.pc = "quota", !.locks = {f}])
            ELSE End(t)

(* lockEntry and the optimistic check, which a missing row skips.          *)
LockWrite(t) ==
    LET op == tx[t]  f == op.path IN
    /\ op.pc = "lock"
    /\ IF row[f] = NoRow
       THEN Continue(t, [op EXCEPT !.pc = "quota"])
       ELSE /\ Unlocked(t, f)
            /\ IF op.base \in {AnyVersion, row[f].version}
               THEN Continue(t, [op EXCEPT !.pc = "quota", !.locks = {f}])
               ELSE End(t)

(* enforceStorageQuotaTx, under a lock on the users row.  The total leaves *)
(* tombstones out, the size of the current entry does not.                 *)
WithinQuota(current, size) == Quota = 0 \/ Usage - current + size <= Quota

(* Mutant: the quota is read without FOR UPDATE.                           *)
EnforceQuotaUnlocked(t) ==
    LET op == tx[t] IN
    /\ op.pc = "quota" /\ UserShareable(t)
    /\ IF WithinQuota(IF op.path \in op.locks THEN row[op.path].size ELSE 0, op.size)
       THEN Continue(t, [op EXCEPT !.pc = "apply", !.user = "share"])
       ELSE End(t)

(* Mutant: users without a quota are not locked.                           *)
EnforceQuotaIfAny(t) ==
    LET op == tx[t] IN
    /\ op.pc = "quota" /\ IF Quota = 0 THEN UserShareable(t) ELSE UserFree(t)
    /\ IF WithinQuota(IF op.path \in op.locks THEN row[op.path].size ELSE 0, op.size)
       THEN Continue(t, [op EXCEPT !.pc = "apply", !.user = IF Quota = 0 THEN "share" ELSE "update"])
       ELSE End(t)

EnforceQuota(t) ==
    LET op == tx[t] IN
    /\ op.pc = "quota" /\ UserFree(t)
    /\ IF WithinQuota(IF op.path \in op.locks THEN row[op.path].size ELSE 0, op.size)
       THEN Continue(t, [op EXCEPT !.pc = "apply", !.user = "update"])
       ELSE End(t)

(* UPDATE ... SET version = version + 1, deleted_at = NULL, or an INSERT   *)
(* that waits for a pending one and fails when the path exists by now.     *)
Apply(t) ==
    LET op == tx[t]  f == op.path IN
    /\ op.pc = "apply" /\ Unlocked(t, f)
    /\ IF f \in op.locks \/ row[f] = NoRow
       THEN Write(t, f, Bumped(f, TRUE, op.size), op.base, "commit", op.user)
       ELSE End(t)

Commit(t) ==
    /\ tx[t].pc = "commit"
    /\ Publish(t)
    /\ tx' = [tx EXCEPT ![t] = Free]
    /\ UNCHANGED <<next, client, overtaken>>
-------------------------------------------------------------------------------
(* Delete lists the live entries of a subtree before its transaction.      *)
BeginDelete(t) == \E S \in Target :
    LET live == {p \in S : row[p].live} IN
    /\ live # {}
    /\ Begin(t, [pc |-> "delete", path |-> Root, base |-> AnyVersion, size |-> 0,
                 todo |-> live, locks |-> {}, user |-> "none",
                 wrote |-> NoRows, sent |-> {}])

(* It visits them deepest first and tombstones each as it is now, even one *)
(* that was rewritten or deleted since the listing.                        *)
DeleteEntry(t) ==
    LET op == tx[t] IN
    /\ op.pc = "delete"
    /\ \E p \in op.todo :
        /\ \A q \in op.todo : Rank[p] <= Rank[q]
        /\ Unlocked(t, p)
        /\ Write(t, p, Bumped(p, FALSE, row[p].size), AnyVersion, "share", op.user)

(* The foreign key of the new history record locks the users row, after    *)
(* the cursor was taken.                                                   *)
ShareUser(t) ==
    LET op == tx[t] IN
    /\ op.pc \in {"share", "revived"} /\ UserShareable(t)
    /\ Continue(t, [op EXCEPT !.user = "share",
                              !.pc = IF op.pc = "revived" THEN "ensurecommit"
                                     ELSE IF op.todo = {} THEN "commit" ELSE "delete"])

(* Mutant: the rows are written outside the transaction.                   *)
FailKeepsRows(t) ==
    /\ tx[t] # Free
    /\ row' = [p \in Path |-> IF tx[t].wrote[p] # NoRow THEN tx[t].wrote[p] ELSE row[p]]
    /\ tx' = [tx EXCEPT ![t] = Free]
    /\ UNCHANGED <<log, next, client, overtaken>>

(* Any statement may fail, be cancelled or lose a deadlock: ROLLBACK.      *)
Fail(t) == tx[t] # Free /\ End(t)

Operation(t) ==
    \/ BeginWrite(t) \/ EnsureFound(t) \/ EnsureMissing(t) \/ EnsureInsert(t) \/ EnsureCommit(t)
    \/ LockWrite(t) \/ EnforceQuota(t) \/ Apply(t) \/ Commit(t)
    \/ BeginDelete(t) \/ DeleteEntry(t) \/ ShareUser(t) \/ Fail(t)
-------------------------------------------------------------------------------
(* Snapshot is two statements: the live entries, then the latest cursor.   *)
SnapshotEntries(c) ==
    /\ ColdStart /\ client[c].pc = "new"
    /\ client' = [client EXCEPT ![c].pc = "listed", ![c].cache = LiveVersion]
    /\ UNCHANGED <<row, log, next, tx, overtaken>>

SnapshotCursor(c) ==
    /\ client[c].pc = "listed"
    /\ client' = [client EXCEPT ![c].pc = "ready", ![c].cursor = Latest(log)]
    /\ UNCHANGED <<row, log, next, tx, overtaken>>

(* A reader that has nothing starts from cursor 0.                         *)
StartEmpty(c) ==
    /\ ~ColdStart /\ client[c].pc = "new"
    /\ client' = [client EXCEPT ![c].pc = "ready"]
    /\ UNCHANGED <<row, log, next, tx, overtaken>>

(* Changes returns the history after the reader's cursor, in the order of  *)
(* the cursors, and the last of them; the reader applies it in that order. *)
After(changes, cursor) == {e \in changes : e.cursor > cursor}

Replay(cache, changes) ==
    [p \in Path |->
        LET mine == {e \in changes : e.path = p}
        IN IF mine = {} THEN cache[p]
           ELSE LET last == CHOOSE e \in mine : e.cursor = Latest(mine)
                IN IF last.live THEN last.version ELSE 0]

Poll(c) ==
    LET news == After(log, client[c].cursor) IN
    /\ client[c].pc = "ready" /\ news # {}
    /\ client' = [client EXCEPT ![c].cursor = Latest(news), ![c].cache = Replay(@, news)]
    /\ UNCHANGED <<row, log, next, tx, overtaken>>

Next ==
    \/ \E t \in Tx : Operation(t)
    \/ \E c \in Client : SnapshotEntries(c) \/ SnapshotCursor(c) \/ StartEmpty(c) \/ Poll(c)

Spec == Init /\ [][Next]_vars
-------------------------------------------------------------------------------
(* The history of a path has each version once, in the order of the        *)
(* cursors, and ends with the row as it is: the feed tells the whole and    *)
(* the true story of every entry, whatever writes, deletes and ensures     *)
(* race for it (insertEntryVersion next to every UPDATE and INSERT).       *)
HistoryMatchesTree ==
    /\ \A p \in Path :
        /\ {e.version : e \in {x \in log : x.path = p}} = 1..row[p].version
        /\ \A e \in log : e.path = p /\ e.version = row[p].version => e.live = row[p].live
    /\ \A d, e \in log : d.path = e.path => (d.cursor < e.cursor <=> d.version < e.version)

(* A write that names an expected version replaces exactly that version,   *)
(* or creates the entry: no two writers replace the same version           *)
(* (lockEntry, ErrOptimisticLockConflict).                                 *)
ExpectedVersionHonoured ==
    \A e \in log : e.base # AnyVersion => e.version \in {1, e.base + 1}

(* Concurrent writes do not add up to more than the quota.  Only a write   *)
(* to a deleted entry may raise the usage above it: its old size counts as *)
(* if it were still stored (enforceStorageQuotaTx).                        *)
QuotaHeldExceptRevival ==
    [][Quota > 0 /\ Usage' > Usage =>
        \/ Usage' <= Quota
        \/ \E f \in File : row[f] # NoRow /\ ~row[f].live /\ row'[f].live]_vars

(* The transactions, seen from outside, are atomic updates of a store of   *)
(* versioned entries: what VersionedTree promises.                         *)
Tree == INSTANCE VersionedTree WITH
    entry   <- row,
    history <- {[path |-> e.path, version |-> e.version, live |-> e.live, base |-> e.base] :
                e \in log}

(* WriteEntry, EnsureDirectory and Delete implement the versioned tree:    *)
(* however their statements interleave or fail, every commit is one        *)
(* atomic update on top of the versions it replaces.                       *)
ImplementsVersionedTree == Tree!Spec

Current(c) == client[c].pc = "ready" /\ client[c].cursor = Latest(log)

(* A reader whose cursor is the latest one has exactly the live entries:   *)
(* following Changes misses nothing.                                       *)
ClientsConverge == \A c \in Client : Current(c) => client[c].cache = LiveVersion

(* What such a reader may have wrong: the entries whose last change was    *)
(* not yet committed when a later one took its cursor.                     *)
Missable == {e.path : e \in {x \in overtaken \cap log : x.version = row[x.path].version}}

MissesOnlyOvertaken ==
    \A c \in Client, p \in Path : Current(c) /\ p \notin Missable =>
        client[c].cache[p] = LiveVersion[p]

(* Where nothing is deleted no reader misses a change of a file: the quota *)
(* locks the users row from before the cursor is drawn until the commit    *)
(* (enforceStorageQuotaTx), and keeps all others from drawing one.  It can *)
(* miss a directory that was inserted while another one was, since the     *)
(* foreign keys only share that row (EnsureDirectoryWithMetadata).         *)
FilesConverge ==
    /\ MissesOnlyOvertaken
    /\ \A c \in Client, f \in File : Current(c) => client[c].cache[f] = LiveVersion[f]
================================================================================
