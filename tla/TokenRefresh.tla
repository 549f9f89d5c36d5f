---------------------------- MODULE TokenRefresh ----------------------------
(***************************************************************************)
(* The refresh of an expired session by a local server that follows the    *)
(* events of a hub (silentRefreshToken and its callers in                  *)
(* internal/api/sse.go), with the rotation of refresh tokens in that hub   *)
(* (RefreshToken in internal/services/auth_service.go) and the other       *)
(* commands that read, change and rewrite the configuration file.  Pairs   *)
(* of an access and a refresh token are numbered as they are issued.       *)
(*                                                                         *)
(* A goroutine whose access token is refused takes a lock, reads the file, *)
(* and if that still has its token it exchanges the refresh token for a    *)
(* new pair and writes the file.  A listener keeps the token it was        *)
(* started with.  A request that is given up is cancelled in the hub.      *)
(***************************************************************************)
EXTENDS Naturals, FiniteSets

CONSTANTS Syncer,      \* the goroutine that asks for the teams every 30 s
          Listener,    \* one goroutine for each team
          Command,     \* vola commands that save the configuration
          MaxPairs,    \* bound: pairs issued after the first
          MaxUpsets    \* bound: time-outs, failed writes, sessions ended, saves

VARIABLES live,        \* access tokens not expired yet
          sessions,    \* rows of the sessions table, by refresh token
          issued,      \* the last pair
          disk,        \* access and refresh token of the current profile
          proc,        \* what each goroutine is at
          lock,        \* refreshMu
          command,     \* what each command has read
          upsets,      \* upsets still to come
          broken       \* history: an upset has cost the refresh token on disk

vars == <<live, sessions, issued, disk, proc, lock, command, upsets, broken>>

Goroutine == Syncer \cup Listener
Pair == [access : 0 .. MaxPairs, refresh : 0 .. MaxPairs]
First == [access |-> 0, refresh |-> 0]
NoProc == [at |-> "idle"]

Init ==
  /\ live = {0} /\ sessions = {0} /\ issued = 0
  /\ disk = First
  /\ proc = [g \in Goroutine |-> NoProc]
  /\ lock = {}
  /\ command = [c \in Command |-> {}]
  /\ upsets = MaxUpsets /\ broken = FALSE

Goto(g, p) == proc' = [proc EXCEPT ![g] = p]
Upset == upsets > 0 /\ upsets' = upsets - 1
-----------------------------------------------------------------------------
\* The hub answers 401.  syncTeamListeners sends the token on disk, a
\* listener the one it was started with.
Refused(g) ==
  LET token == IF g \in Syncer THEN disk.access ELSE First.access IN
  /\ proc[g].at = "idle" /\ token \notin live
  /\ Goto(g, [at |-> "lock", token |-> token])
  /\ UNCHANGED <<live, sessions, issued, disk, lock, command, upsets, broken>>

\* Mutant: whoever waits for the lock refreshes after it.
StillCurrentAlways(token) == TRUE

StillCurrent(token) == disk.access = token

\* refreshMu.Lock and LoadConfig; a token that is no longer the one on disk
\* has been refreshed by another goroutine, whose token is used.
LoadConfig(g) ==
  /\ proc[g].at = "lock" /\ lock = {}
  /\ IF StillCurrent(proc[g].token)
     THEN Goto(g, [at |-> "select", pair |-> disk]) /\ lock' = {g}
     ELSE Goto(g, NoProc) /\ UNCHANGED lock
  /\ UNCHANGED <<live, sessions, issued, disk, command, upsets, broken>>

\* The hub: a SELECT, a DELETE and an INSERT.
SelectSession(g) ==
  /\ proc[g].at = "select"
  /\ IF proc[g].pair.refresh \in sessions
     THEN Goto(g, [at |-> "delete", pair |-> proc[g].pair]) /\ UNCHANGED lock
     ELSE Goto(g, NoProc) /\ lock' = {}
  /\ UNCHANGED <<live, sessions, issued, disk, command, upsets, broken>>

DeleteSession(g) ==
  /\ proc[g].at = "delete"
  /\ sessions' = sessions \ {proc[g].pair.refresh}
  /\ Goto(g, [at |-> "insert", pair |-> proc[g].pair])
  /\ UNCHANGED <<live, issued, disk, lock, command, upsets, broken>>

InsertSession(g) ==
  /\ proc[g].at = "insert"
  /\ issued' = issued + 1
  /\ sessions' = sessions \cup {issued'} /\ live' = live \cup {issued'}
  /\ Goto(g, [at |-> "save", pair |-> [access |-> issued', refresh |-> issued']])
  /\ UNCHANGED <<disk, lock, command, upsets, broken>>

\* SaveConfig; that it fails goes unnoticed.
SaveConfig(g) ==
  /\ proc[g].at = "save"
  /\ \/ disk' = proc[g].pair /\ UNCHANGED <<upsets, broken>>
     \/ Upset /\ broken' = TRUE /\ UNCHANGED disk
  /\ Goto(g, NoProc) /\ lock' = {}
  /\ UNCHANGED <<live, sessions, issued, command>>

\* The client times out or is killed before the answer, wherever the hub is.
GiveUp(g) ==
  /\ proc[g].at \in {"select", "delete", "insert", "save"} /\ Upset
  /\ broken' = (broken \/ proc[g].at \in {"insert", "save"})
  /\ Goto(g, NoProc) /\ lock' = {}
  /\ UNCHANGED <<live, sessions, issued, disk, command>>
-----------------------------------------------------------------------------
\* Another command loads the configuration, and saves it with its changes.
CommandLoads(c) ==
  /\ command[c] = {}
  /\ command' = [command EXCEPT ![c] = {disk}]
  /\ UNCHANGED <<live, sessions, issued, disk, proc, lock, upsets, broken>>

CommandSaves(c) ==
  /\ command[c] # {} /\ Upset
  /\ disk' \in command[c]
  /\ broken' = (broken \/ disk' # disk)
  /\ command' = [command EXCEPT ![c] = {}]
  /\ UNCHANGED <<live, sessions, issued, proc, lock>>

\* Logout, RevokeSession, or thirty days.
EndSession(n) ==
  /\ Upset
  /\ sessions' = sessions \ {n} /\ broken' = TRUE
  /\ UNCHANGED <<live, issued, disk, proc, lock, command>>

Expire(n) ==
  /\ issued < MaxPairs
  /\ live' = live \ {n}
  /\ UNCHANGED <<sessions, issued, disk, proc, lock, command, upsets, broken>>

Next ==
  \/ \E g \in Goroutine : Refused(g) \/ LoadConfig(g) \/ SelectSession(g)
       \/ DeleteSession(g) \/ InsertSession(g) \/ SaveConfig(g) \/ GiveUp(g)
  \/ \E c \in Command : CommandLoads(c) \/ CommandSaves(c)
  \/ \E n \in sessions : EndSession(n)
  \/ \E n \in live : Expire(n)

Spec == Init /\ [][Next]_vars
-----------------------------------------------------------------------------
TypeOK ==
  /\ live \subseteq 0 .. issued /\ sessions \subseteq 0 .. issued
  /\ disk \in Pair
  /\ \A g \in Goroutine :
       /\ proc[g].at \in {"idle", "lock", "select", "delete", "insert", "save"}
       /\ lock = {g} <=> proc[g].at \notin {"idle", "lock"}
  /\ \A c \in Command : command[c] \subseteq Pair
  /\ upsets \in 0 .. MaxUpsets /\ broken \in BOOLEAN

\* However many goroutines find their token expired at once, a refresh is
\* asked for only when the access token on disk has expired, and with a
\* refresh token the hub still knows ("Only 1 actual refresh request should
\* hit the mock server", sse_test.go); unless an answer was lost, a save
\* failed, another command wrote old tokens back, or the session was ended.
RefreshOnlyWhenDue == broken \/ \A g \in Goroutine :
  proc[g].at = "select" =>
    proc[g].pair.refresh \in sessions /\ proc[g].pair.access \notin live
=============================================================================
