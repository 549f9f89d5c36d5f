------------------------------- MODULE Inbox -------------------------------
(***************************************************************************)
(* One message of the inbox (internal/services/inbox_service.go, over      *)
(* Postgres): a row, and a file in the directory of its status, from which *)
(* the messages are listed.  To move it the row is read, the file of the   *)
(* old status deleted, the one of the new written, and the row updated,    *)
(* each on its own.                                                        *)
(***************************************************************************)
CONSTANT Handler      \* goroutines that serve requests, and the job

VARIABLES row,        \* status in inbox_messages; "none" is no row
          files,      \* statuses under which the message is in the tree
          run,        \* what each handler is at
          sent,       \* a message gets its id once
          cut,        \* history: a move ended without its file, none has ended since
          stayed      \* history: the old file could not be deleted

vars == <<row, files, run, sent, cut, stayed>>

Status == {"incoming", "archived"}
Idle == [at |-> "idle", from |-> "none"]

Init ==
  /\ row = "none" /\ files = {}
  /\ run = [h \in Handler |-> Idle]
  /\ sent = FALSE /\ cut = FALSE /\ stayed = FALSE
-----------------------------------------------------------------------------
Goto(h, at, from) == run' = [run EXCEPT ![h] = [at |-> at, from |-> from]]

Send(h) ==
  /\ run[h] = Idle /\ ~sent
  /\ sent' = TRUE
  /\ files' = {"incoming"}
  /\ Goto(h, "insert", "none")
  /\ UNCHANGED <<row, cut, stayed>>

InsertRow(h) ==
  /\ run[h].at = "insert"
  /\ row' = "incoming"
  /\ run' = [run EXCEPT ![h] = Idle]
  /\ UNCHANGED <<files, sent, cut, stayed>>

\* The job collects what is due and then archives one after the other.
ArchiveExpiredMessages(h) ==
  /\ run[h] = Idle /\ row = "incoming"
  /\ Goto(h, "lookup", "none")
  /\ UNCHANGED <<row, files, sent, cut, stayed>>

\* lookupMessage; nothing asks for the status the message has.
Archive(h) ==
  /\ run[h] = Idle \/ run[h].at = "lookup"
  /\ row # "none"
  /\ Goto(h, "delete", row)
  /\ UNCHANGED <<row, files, sent, cut, stayed>>

\* Mutant: the path is formed after the new status is set.
OldFileOfNewStatus(from) == "archived"

OldFile(from) == from

\* An error is ignored.
DeleteOld(h) == LET old == OldFile(run[h].from) IN
  /\ run[h].at = "delete"
  /\ \/ files' = files \ {old} /\ UNCHANGED stayed
     \/ UNCHANGED files /\ stayed' = (stayed \/ old = "incoming")
  /\ Goto(h, "write", run[h].from)
  /\ UNCHANGED <<row, sent, cut>>

WriteNew(h) ==
  /\ run[h].at = "write"
  /\ files' = files \cup {"archived"}
  /\ cut' = FALSE
  /\ Goto(h, "update", run[h].from)
  /\ UNCHANGED <<row, sent, stayed>>

UpdateRow(h) ==
  /\ run[h].at = "update"
  /\ row' = "archived"
  /\ run' = [run EXCEPT ![h] = Idle]
  /\ UNCHANGED <<files, sent, cut, stayed>>

\* A write fails, or the server ends.
Fail(h) ==
  /\ run[h] # Idle
  /\ run' = [run EXCEPT ![h] = Idle]
  /\ cut' = (cut \/ run[h].at = "write")
  /\ UNCHANGED <<row, files, sent, stayed>>

Next == \E h \in Handler :
  \/ Send(h) \/ InsertRow(h) \/ ArchiveExpiredMessages(h) \/ Archive(h)
  \/ DeleteOld(h) \/ WriteNew(h) \/ UpdateRow(h) \/ Fail(h)

Spec == Init /\ [][Next]_vars
-----------------------------------------------------------------------------
TypeOK ==
  /\ row \in Status \cup {"none"} /\ files \subseteq Status
  /\ run \in [Handler -> [at : {"idle", "insert", "lookup", "delete", "write", "update"},
                          from : Status \cup {"none"}]]
  /\ {sent, cut, stayed} \subseteq BOOLEAN

\* Whatever moves overlap, and however often one fails and is repeated, a
\* message with a row is among the files - unless it is being moved, or a
\* move was cut short and none has been finished since; and once its row is
\* archived, the file of the incoming one is gone, unless its deletion failed:
\* later moves start from the new status and do not come back to it.
MessageKept ==
  /\ row # "none" => \/ files # {} \/ cut
                     \/ \E h \in Handler : run[h].at = "write"
  /\ row = "archived" => "incoming" \notin files \/ stayed
=============================================================================
