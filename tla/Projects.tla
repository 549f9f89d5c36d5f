------------------------------ MODULE Projects ------------------------------
(***************************************************************************)
(* One project and the stores that hold it                                 *)
(* (internal/services/project_service.go, over Postgres).  A project is a  *)
(* row, and in the tree a directory with its status, a file with its       *)
(* context and a file with one line per event; the events are rows too.    *)
(* Each operation writes some of them one after the other, in no common    *)
(* transaction, and the file of events is read, extended and written back  *)
(* whole, without the version that was read.  The tree's own operations    *)
(* reach directory and files too, and leave the rows alone.                *)
(***************************************************************************)
EXTENDS Naturals, FiniteSets

CONSTANTS Handler,    \* goroutines that serve requests
          Context,    \* texts a context may get, told apart by their first
                      \* paragraph, the description; 0 has none
          MaxEvents,  \* bound on appended events
          DirectWhen  \* bound: {FALSE} keeps the tree's own operations to
                      \* projects that nothing disturbed yet; else BOOLEAN

VARIABLES row,        \* {} until the project is created
          events,     \* rows of project_logs
          log,        \* lines of the log file
          context,    \* the context file: {} or {its text}
          dir,        \* metadata of the directory
          req,        \* what each handler is at
          appended,   \* events appended so far
          disturbed,  \* history: requests overlapped, something failed, or
                      \* the tree's own operations were used
          erased      \* history: lines were in the log and no longer are

vars == <<row, events, log, context, dir, req, appended, disturbed, erased>>
tree == <<log, context, dir>>

NoReq == [at |-> "idle"]
Project == [status : {"active", "archived"}, context : Context]
NoDir == [status |-> "none", context |-> 0]

Init ==
  /\ row = {} /\ events = {} /\ log = {}
  /\ context = {} /\ dir = NoDir
  /\ req = [h \in Handler |-> NoReq]
  /\ appended = 0
  /\ disturbed = FALSE /\ erased = FALSE
-----------------------------------------------------------------------------
Goto(h, r) == req' = [req EXCEPT ![h] = r]

Begin(h, r) ==
  /\ req[h] = NoReq
  /\ Goto(h, r)
  /\ disturbed' = (disturbed \/ \E other \in Handler : req[other] # NoReq)
  /\ UNCHANGED <<tree, events, erased>>

\* The row and the worker role are one transaction; a name is used once.
Create(h) ==
  /\ row = {}
  /\ row' = {[status |-> "active", context |-> 0]}
  /\ Begin(h, [at |-> "dir", op |-> "create", status |-> "active", context |-> 0])
  /\ UNCHANGED appended

\* The callers of UpdateContext and AppendLog look the project up by name;
\* that of Archive does not.
UpdateContext(h) == \E c \in Context :
  /\ row # {}
  /\ Begin(h, [at |-> "context", op |-> "update", status |-> "active", context |-> c])
  /\ UNCHANGED <<row, appended>>

AppendLog(h) ==
  /\ row # {} /\ appended < MaxEvents
  /\ appended' = appended + 1
  /\ Begin(h, [at |-> "read", op |-> "append", event |-> appended + 1])
  /\ UNCHANGED row

Archive(h) ==
  /\ row' = {[p EXCEPT !.status = "archived"] : p \in row}
  /\ Begin(h, [at |-> "get", op |-> "archive"])
  /\ UNCHANGED appended
-----------------------------------------------------------------------------
\* AppendLog: a file that cannot be read counts as an empty one.
ReadLog(h) == \E misread \in BOOLEAN :
  LET r == req[h] IN
  /\ r.at = "read"
  /\ Goto(h, [at |-> "log", op |-> r.op, event |-> r.event,
              copy |-> IF misread THEN {} ELSE log])
  /\ disturbed' = (disturbed \/ misread)
  /\ UNCHANGED <<row, tree, events, appended, erased>>

\* Mutant: the test for an empty file is the wrong way round.
NextContentAlone(copy, event) == {event}

NextContent(copy, event) == copy \cup {event}

\* The last step of Create empties the file, whatever it is by then.
WriteLog(h) ==
  LET r == req[h] IN
  /\ r.at = "log"
  /\ log' = IF r.op = "create" THEN {} ELSE NextContent(r.copy, r.event)
  /\ erased' = (erased \/ ~(log \subseteq IF r.op = "create" THEN {} ELSE r.copy))
  /\ Goto(h, IF r.op = "create" THEN NoReq
             ELSE [at |-> "get", op |-> r.op, event |-> r.event])
  /\ UNCHANGED <<row, events, context, dir, appended, disturbed>>

\* Get, in AppendLog and Archive: the status of the row, and the context of
\* the file, or of the row when the file is not there; without the row, what
\* their defaults are.
GetProject(h) ==
  LET r      == req[h]
      known  == row # {}
      stored == CHOOSE p \in row : TRUE
      text   == IF context = {} THEN stored.context ELSE CHOOSE c \in context : TRUE
      status == IF r.op = "archive" THEN "archived"
                ELSE IF known THEN stored.status ELSE "active"
  IN
  /\ r.at = "get"
  /\ Goto(h, [at |-> "dir", op |-> r.op, status |-> status,
              context |-> IF known THEN text ELSE 0,
              event |-> IF r.op = "append" THEN r.event ELSE 0])
  /\ UNCHANGED <<row, tree, events, appended, disturbed, erased>>

WriteContext(h) ==
  LET r == req[h] IN
  /\ r.at = "context"
  /\ context' = {r.context}
  /\ Goto(h, [r EXCEPT !.at = IF r.op = "create" THEN "log" ELSE "dir"])
  /\ UNCHANGED <<row, events, log, dir, appended, disturbed, erased>>

\* EnsureDirectoryWithMetadata: the metadata are merged into those the
\* directory has, and an empty description is not among them.
EnsureDirectory(h) ==
  LET r == req[h] IN
  /\ r.at = "dir"
  /\ dir' = [status |-> r.status,
             context |-> IF r.context = 0 THEN dir.context ELSE r.context]
  /\ Goto(h, CASE r.op = "create"  -> [r EXCEPT !.at = "context"]
               [] r.op = "archive" -> NoReq
               [] OTHER            -> [r EXCEPT !.at = "row"])
  /\ UNCHANGED <<row, events, log, context, appended, disturbed, erased>>

\* The event's row, or the context in the project's row, comes last.
WriteRow(h) ==
  LET r == req[h] IN
  /\ r.at = "row"
  /\ Goto(h, NoReq)
  /\ IF r.op = "append" THEN events' = events \cup {r.event} /\ UNCHANGED row
     ELSE row' = {[p EXCEPT !.context = r.context] : p \in row} /\ UNCHANGED events
  /\ UNCHANGED <<tree, appended, disturbed, erased>>

\* A statement fails, or the server ends.
Fail(h) ==
  /\ req[h] # NoReq
  /\ Goto(h, NoReq)
  /\ disturbed' = TRUE
  /\ UNCHANGED <<row, tree, events, appended, erased>>
-----------------------------------------------------------------------------
\* A tree request on its own: the rows do not follow.
TreeRequest ==
  /\ disturbed \in DirectWhen
  /\ disturbed' = TRUE
  /\ erased' = (erased \/ ~(log \subseteq log'))
  /\ UNCHANGED <<row, events, req, appended>>

\* PUT of the context file, of the log file, or of the directory with metadata.
TreeWrite ==
  /\ \/ (\E c \in Context : context' = {c}) /\ UNCHANGED <<log, dir>>
     \/ log' \in SUBSET (1 .. appended) /\ UNCHANGED <<context, dir>>
     \/ dir' \in Project /\ UNCHANGED <<context, log>>
  /\ TreeRequest

\* DELETE of either file, or of both with the directory, whose metadata a
\* later EnsureDirectory finds in its tombstone; a deleted log counts as empty.
TreeDelete ==
  /\ context' \in {context, {}} /\ log' \in {log, {}} /\ UNCHANGED dir
  /\ <<context', log'>> # <<context, log>>
  /\ TreeRequest

Next ==
  \/ \E h \in Handler :
       \/ Create(h) \/ UpdateContext(h) \/ AppendLog(h) \/ Archive(h)
       \/ ReadLog(h) \/ WriteLog(h) \/ GetProject(h) \/ WriteContext(h)
       \/ EnsureDirectory(h) \/ WriteRow(h) \/ Fail(h)
  \/ TreeWrite \/ TreeDelete

Spec == Init /\ [][Next]_vars
-----------------------------------------------------------------------------
TypeOK ==
  /\ row \subseteq Project /\ Cardinality(row) <= 1
  /\ events \subseteq 1 .. MaxEvents /\ log \subseteq 1 .. MaxEvents
  /\ context \subseteq Context /\ Cardinality(context) <= 1 /\ dir \in Project \cup {NoDir}
  /\ \A h \in Handler : req[h].at \in {"idle", "read", "log", "get", "context", "dir", "row"}
  /\ appended \in 0 .. MaxEvents
  /\ disturbed \in BOOLEAN /\ erased \in BOOLEAN

\* Every event that has its row is in the log file, whatever fails or
\* overlaps, unless a write dropped lines it had not read; and as long as
\* requests came one after the other, nothing failed and the tree's own
\* operations left the project alone, no line is ever dropped and row, events,
\* context file and directory say the same - but for the status in the
\* directory of an archived project, which any later UpdateContext makes
\* "active", and for the description there, which outlives a context that is
\* emptied.
StoresAgree ==
  /\ ~erased => events \subseteq log
  /\ ~disturbed =>
       /\ ~erased
       /\ (\A h \in Handler : req[h] = NoReq) => \A p \in row :
            /\ log = events
            /\ context = {p.context} /\ (dir.context = p.context \/ p.context = 0)
            /\ dir.status = p.status \/ p.status = "archived"
=============================================================================
