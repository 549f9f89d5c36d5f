----------------------------- MODULE MCPGateway -----------------------------
(***************************************************************************)
(* The gateway to external MCP servers (internal/mcp/gateway.go).  Every   *)
(* enabled server of /settings/mcp-servers.json is a child process; one    *)
(* reader goroutine per child takes JSON-RPC lines from its stdout and     *)
(* hands each answer to the goroutine that asked, through a channel of its *)
(* own, found by the id of the request.  The callers are HTTP handlers;    *)
(* Start makes two calls to each child (initialize, tools/list) itself.    *)
(*                                                                         *)
(* One step is one critical section, one write to a pipe, one line read or *)
(* one channel operation.  A call is named by its goroutine and a number,  *)
(* which names its request, its channel and the answer to it alike.  A     *)
(* child answers requests it was sent in any order, more than once, or     *)
(* never.  The RW lock g.mu is held exactly while gate is "starting" or    *)
(* "stopping"; its other holders read, in one step each.                   *)
(***************************************************************************)
EXTENDS Integers

CONSTANTS Server,     \* entries of the configuration, with different ids
          Caller,     \* goroutines that handle tools/call
          Boot,       \* the goroutine that runs Start and Stop
          NoServer,
          MaxCalls    \* bound: calls of one caller

ASSUME ActorAssumption == Boot \notin Caller /\ NoServer \notin Server
ASSUME BoundAssumption == MaxCalls \in Nat

VARIABLES
  gate,      \* where the gateway is in its life: running and g.mu
  todo,      \* configured servers that Start has not launched yet
  stage,     \* Start's progress with the server it launched last
  halt,      \* the server whose reader stopServer waits for
  servers,   \* g.servers
  active, child, reader, hold, nextID, pending,   \* the ManagedServers
  asked,     \* requests a child has been sent
  box,       \* answers put into a channel
  caller     \* the goroutines in CallExternalTool or call

life   == <<gate, todo, stage, halt, servers>>
proc   == <<active, child>>
reads  == <<reader, hold, box>>
tables == <<nextID, pending, asked>>
vars   == <<life, proc, reads, tables, caller>>

Process == Caller \cup {Boot}
Call    == [by : Process, no : Nat]
Entry   == [id : Nat, call : Call]
Answer  == [to : Call, of : Call]      \* the channel, the request answered

Resting == {"idle", "ok", "failed"}
Asking  == {"write", "wait", "forget"}

Goroutine == [pc : Resting \cup Asking \cup {"route", "register"}, no : Nat,
              server : Server \cup {NoServer}, id : Nat]

TypeOK ==
  /\ gate \in {"new", "starting", "serving", "stopping", "stopped"}
  /\ todo \subseteq Server /\ servers \subseteq Server
  /\ stage \in {"next", "initialize", "list"}
  /\ halt \in Server \cup {NoServer}
  /\ active \in [Server -> BOOLEAN]
  /\ child \in [Server -> {"none", "alive", "dead"}]
  /\ reader \in [Server -> {"none", "scan", "send", "done"}]
  /\ hold \in [Server -> Answer]
  /\ nextID \in [Server -> Nat]
  /\ pending \in [Server -> SUBSET Entry]
  /\ asked \in [Server -> SUBSET Entry]
  /\ box \subseteq Answer
  /\ caller \in [Process -> Goroutine]

NoCall   == [by |-> Boot, no |-> 0]
NoAnswer == [to |-> NoCall, of |-> NoCall]

Init ==
  /\ gate = "new" /\ todo = {} /\ stage = "next" /\ halt = NoServer
  /\ servers = {}
  /\ active = [s \in Server |-> FALSE]
  /\ child = [s \in Server |-> "none"]
  /\ reader = [s \in Server |-> "none"]
  /\ hold = [s \in Server |-> NoAnswer]
  /\ nextID = [s \in Server |-> 0]
  /\ pending = [s \in Server |-> {}]
  /\ asked = [s \in Server |-> {}]
  /\ box = {}
  /\ caller = [p \in Process |->
                 [pc |-> "idle", no |-> 0, server |-> NoServer, id |-> 0]]

Locked == gate \in {"starting", "stopping"}

(* The call that p is making, and what becomes of p.                       *)
Mine(p)      == [by |-> p, no |-> caller[p].no]
Goto(p, pc)  == caller' = [caller EXCEPT ![p].pc = pc]

-----------------------------------------------------------------------------
(* IsExternalTool, then CallExternalTool: two looks at the table of        *)
(* servers under two read locks.                                           *)

Route(c) ==
  /\ ~Locked
  /\ caller[c].pc \in Resting /\ caller[c].no < MaxCalls
  /\ \E s \in servers :
       /\ active[s]
       /\ caller' = [caller EXCEPT ![c].pc = "route", ![c].server = s]
  /\ UNCHANGED <<life, proc, reads, tables>>

LookUp(c) ==
  /\ ~Locked
  /\ caller[c].pc = "route"
  /\ LET s == caller[c].server
     IN Goto(c, IF s \in servers /\ active[s] THEN "register" ELSE "failed")
  /\ UNCHANGED <<life, proc, reads, tables>>

-----------------------------------------------------------------------------
(* ManagedServer.call.                                                     *)

(* Mutant: two goroutines read the counter before either writes it.        *)
FreshIDRacy(s) ==
  IF \E e \in pending[s] : e.id = nextID[s] THEN nextID[s] ELSE nextID[s] + 1

FreshID(s) == nextID[s] + 1

(* The channel is made and entered into the table before the request is    *)
(* written.                                                                *)
Register(p) ==
  /\ caller[p].pc = "register"
  /\ LET s    == caller[p].server
         call == [by |-> p, no |-> caller[p].no + 1]
     IN IF active[s]
        THEN /\ nextID' = [nextID EXCEPT ![s] = FreshID(s)]
             /\ pending' = [pending EXCEPT ![s] =
                              {e \in @ : e.id # FreshID(s)}
                                \cup {[id |-> FreshID(s), call |-> call]}]
             /\ caller' = [caller EXCEPT ![p].pc = "write", ![p].no = @ + 1,
                                         ![p].id = FreshID(s)]
        ELSE Goto(p, "failed") /\ UNCHANGED <<nextID, pending>>
  /\ UNCHANGED <<life, proc, reads, asked>>

(* Stdin is closed by stopServer; a pipe to a child that ended breaks.     *)
Write(p) ==
  /\ caller[p].pc = "write"
  /\ LET s == caller[p].server
     IN IF child[s] = "alive"
        THEN /\ asked' = [asked EXCEPT ![s] =
                            @ \cup {[id |-> caller[p].id, call |-> Mine(p)]}]
             /\ Goto(p, "wait")
        ELSE Goto(p, "forget") /\ UNCHANGED asked
  /\ UNCHANGED <<life, proc, reads, nextID, pending>>

Receive(p) ==
  /\ caller[p].pc = "wait"
  /\ \E a \in box : a.to = Mine(p)
  /\ Goto(p, "ok")
  /\ UNCHANGED <<life, proc, reads, tables>>

(* Mutant: a caller gives up when the child has ended, and has no timeout. *)
MayExpireOnExit(p) ==
  caller[p].pc = "wait" /\ child[caller[p].server] = "dead"

MayExpire(p) == caller[p].pc = "wait"

(* time.After fires; select may take it although an answer is there.       *)
Expire(p) ==
  /\ caller[p].pc = "wait" /\ MayExpire(p)
  /\ Goto(p, "forget")
  /\ UNCHANGED <<life, proc, reads, tables>>

(* Mutant: only the write error takes the entry out of the table.          *)
WithoutKept(s, id) ==
  IF child[s] = "alive" THEN pending[s] ELSE {e \in pending[s] : e.id # id}

Without(s, id) == {e \in pending[s] : e.id # id}

(* After a failed write or a timeout the entry is removed and the call     *)
(* returns an error.                                                       *)
Forget(p) ==
  /\ caller[p].pc = "forget"
  /\ LET s == caller[p].server
     IN pending' = [pending EXCEPT ![s] = Without(s, caller[p].id)]
  /\ Goto(p, "failed")
  /\ UNCHANGED <<life, proc, reads, nextID, asked>>

-----------------------------------------------------------------------------
(* runReader.                                                              *)

(* Mutant: answers are taken to come in the order of the requests.         *)
AnswersOldest(s, line, e) == \A other \in pending[s] : e.id <= other.id

(* The line carries the id of the request it answers.                      *)
Answers(s, line, e) == e.id = line.id

(* A line about a request that is no longer in the table is dropped, which *)
(* changes nothing.                                                        *)
ReadLine(s) ==
  /\ reader[s] = "scan"
  /\ \E line \in asked[s], e \in pending[s] :
       /\ Answers(s, line, e)
       /\ pending' = [pending EXCEPT ![s] = @ \ {e}]
       /\ hold' = [hold EXCEPT ![s] = [to |-> e.call, of |-> line.call]]
  /\ reader' = [reader EXCEPT ![s] = "send"]
  /\ UNCHANGED <<life, proc, box, nextID, asked, caller>>

(* Mutant: make(chan jsonRPCResponse), without the buffer of one.          *)
HasRoomUnbuffered(call) ==
  caller[call.by].pc = "wait" /\ caller[call.by].no = call.no

(* The channel has a buffer of one, and is closed after the first answer.  *)
HasRoom(call) == \A a \in box : a.to # call

Send(s) ==
  /\ reader[s] = "send"
  /\ HasRoom(hold[s].to)
  /\ box' = box \cup {hold[s]}
  /\ hold' = [hold EXCEPT ![s] = NoAnswer]
  /\ reader' = [reader EXCEPT ![s] = "scan"]
  /\ UNCHANGED <<life, proc, tables, caller>>

(* Scan ends when the pipe does.                                           *)
EndOfFile(s) ==
  /\ reader[s] = "scan" /\ child[s] = "dead"
  /\ reader' = [reader EXCEPT ![s] = "done"]
  /\ UNCHANGED <<life, proc, hold, box, tables, caller>>

(* Scan also ends at a line longer than the scanner's buffer; nobody is    *)
(* told.                                                                   *)
LineTooLong(s) ==
  /\ reader[s] = "scan" /\ child[s] = "alive"
  /\ reader' = [reader EXCEPT ![s] = "done"]
  /\ UNCHANGED <<life, proc, hold, box, tables, caller>>

(* A child may end on its own at any time; the gateway does not watch it.  *)
ChildExits(s) ==
  /\ child[s] = "alive"
  /\ child' = [child EXCEPT ![s] = "dead"]
  /\ UNCHANGED <<life, active, reads, tables, caller>>

-----------------------------------------------------------------------------
(* Start and Stop.                                                         *)

(* A configuration that cannot be read counts as an empty one.             *)
StartGateway ==
  /\ gate = "new"
  /\ gate' = "starting"
  /\ todo' \in SUBSET Server
  /\ UNCHANGED <<stage, halt, servers, proc, reads, tables, caller>>

(* startServer, up to its first call; a command that does not start is     *)
(* skipped.                                                                *)
Launch(s) ==
  /\ gate = "starting" /\ stage = "next" /\ halt = NoServer
  /\ s \in todo
  /\ todo' = todo \ {s}
  /\ \/ /\ active' = [active EXCEPT ![s] = TRUE]
        /\ child' = [child EXCEPT ![s] = "alive"]
        /\ reader' = [reader EXCEPT ![s] = "scan"]
        /\ stage' = "initialize"
        /\ caller' = [caller EXCEPT ![Boot].pc = "register", ![Boot].server = s]
     \/ UNCHANGED <<proc, reader, stage, caller>>
  /\ UNCHANGED <<gate, halt, servers, hold, box, tables>>

(* The answer to initialize was no error and the notification was written. *)
Initialized ==
  /\ stage = "initialize" /\ halt = NoServer /\ caller[Boot].pc = "ok"
  /\ child[caller[Boot].server] = "alive"
  /\ stage' = "list"
  /\ Goto(Boot, "register")
  /\ UNCHANGED <<gate, todo, halt, servers, proc, reads, tables>>

(* The tools are known: the server can be routed to.                       *)
Integrated ==
  /\ stage = "list" /\ halt = NoServer /\ caller[Boot].pc = "ok"
  /\ servers' = servers \cup {caller[Boot].server}
  /\ stage' = "next"
  /\ UNCHANGED <<gate, todo, halt, proc, reads, tables, caller>>

(* Mutant: the child is not killed.                                        *)
ShutWithoutKill(s) ==
  active' = [active EXCEPT ![s] = FALSE] /\ halt' = s /\ UNCHANGED child

(* stopServer, up to readerWG.Wait: inactive, stdin closed, child killed   *)
(* and reaped.                                                             *)
Shut(s) ==
  /\ active' = [active EXCEPT ![s] = FALSE]
  /\ child' = [child EXCEPT ![s] = "dead"]
  /\ halt' = s

(* A call failed, the answer was an error, or the notification was not     *)
(* written.                                                                *)
HandshakeFails ==
  /\ stage \in {"initialize", "list"} /\ halt = NoServer
  /\ caller[Boot].pc \in {"ok", "failed"}
  /\ Shut(caller[Boot].server)
  /\ UNCHANGED <<gate, todo, stage, servers, reads, tables, caller>>

StartDone ==
  /\ gate = "starting" /\ stage = "next" /\ halt = NoServer /\ todo = {}
  /\ gate' = "serving"
  /\ UNCHANGED <<todo, stage, halt, servers, proc, reads, tables, caller>>

StopGateway ==
  /\ gate = "serving"
  /\ gate' = "stopping"
  /\ UNCHANGED <<todo, stage, halt, servers, proc, reads, tables, caller>>

StopNext(s) ==
  /\ gate = "stopping" /\ halt = NoServer /\ s \in servers
  /\ Shut(s)
  /\ UNCHANGED <<gate, todo, stage, servers, reads, tables, caller>>

(* readerWG.Wait returns.                                                  *)
Reaped ==
  /\ halt # NoServer
  /\ reader[halt] = "done"
  /\ halt' = NoServer
  /\ stage' = "next"
  /\ servers' = servers \ {halt}
  /\ UNCHANGED <<gate, todo, proc, reads, tables, caller>>

StopDone ==
  /\ gate = "stopping" /\ halt = NoServer /\ servers = {}
  /\ gate' = "stopped"
  /\ UNCHANGED <<todo, stage, halt, servers, proc, reads, tables, caller>>

-----------------------------------------------------------------------------
BootStep ==
  \/ StartGateway \/ Initialized \/ Integrated \/ HandshakeFails \/ StartDone
  \/ StopGateway \/ Reaped \/ StopDone
  \/ \E s \in Server : Launch(s) \/ StopNext(s)

CallStep(p) ==
  Register(p) \/ Write(p) \/ Receive(p) \/ Expire(p) \/ Forget(p)

Next ==
  \/ BootStep
  \/ \E c \in Caller : Route(c) \/ LookUp(c)
  \/ \E p \in Process : CallStep(p)
  \/ \E s \in Server : ReadLine(s) \/ Send(s) \/ EndOfFile(s)
                         \/ LineTooLong(s) \/ ChildExits(s)

Spec == Init /\ [][Next]_vars

(* Goroutines run, timers fire, a closed pipe is noticed.  Nothing is      *)
(* asked of the children, of the users, or of whoever starts and stops the *)
(* gateway.                                                                *)
Fairness ==
  /\ \A c \in Caller : WF_vars(LookUp(c))
  /\ \A p \in Process : WF_vars(CallStep(p))
  /\ \A s \in Server : WF_vars(Send(s)) /\ WF_vars(EndOfFile(s))
  /\ WF_vars(BootStep /\ Locked)

FairSpec == Spec /\ Fairness

-----------------------------------------------------------------------------
(* The table of a child holds only calls that are still being made: no     *)
(* way out of call leaves its entry behind (gateway.go:351, 362).          *)
PendingIsAwaited ==
  \A s \in Server : \A e \in pending[s] :
    LET c == caller[e.call.by]
    IN c.pc \in Asking /\ c.no = e.call.no /\ c.server = s /\ c.id = e.id

(* An answer can always still reach a goroutine that waits for it: its     *)
(* channel is in the table, in the reader's hands, or already filled.      *)
WaitingIsReachable ==
  \A p \in Process : caller[p].pc = "wait" =>
    LET s == caller[p].server
    IN \/ [id |-> caller[p].id, call |-> Mine(p)] \in pending[s]
       \/ reader[s] = "send" /\ hold[s].to = Mine(p)
       \/ \E a \in box : a.to = Mine(p)

(* No call is given the answer to another one, however late, often or out  *)
(* of order the children answer (gateway.go:312).                          *)
OwnAnswer == \A a \in box : a.to = a.of

(* The reader never blocks on a channel nobody reads any more, and never   *)
(* sends to one that it closed (gateway.go:319).                           *)
ReaderNeverBlocked ==
  \A s \in Server : reader[s] = "send" =>
    /\ \A a \in box : a.to # hold[s].to
    /\ HasRoom(hold[s].to)

(* Every child that runs while the gateway serves can be routed to, and    *)
(* none runs, nor its reader, when Stop has returned, whatever failed      *)
(* during the handshakes (gateway.go:262, 268, 276).                       *)
NoStrayChild ==
  /\ gate = "serving" => \A s \in Server : child[s] = "alive" => s \in servers
  /\ gate = "stopped" => \A s \in Server : child[s] # "alive"
                                             /\ reader[s] \in {"none", "done"}

(* Every call returns, answered or not, also one that finds the gateway    *)
(* being stopped (gateway.go:361).                                         *)
CallsReturn ==
  \A p \in Process : caller[p].pc \notin Resting ~> caller[p].pc \in Resting

(* Start and Stop return, with calls in flight and children that never     *)
(* answer (gateway.go:285).                                                *)
LockIsReleased == Locked ~> ~Locked
=============================================================================
