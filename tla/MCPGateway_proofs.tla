------------------------- MODULE MCPGateway_proofs -------------------------
(***************************************************************************)
(* Theorems about MCPGateway, for any servers, callers and numbers of      *)
(* calls.                                                                  *)
(***************************************************************************)
EXTENDS MCPGateway, TLAPS

(* A goroutine in a call is in a call to some server, and so is Start      *)
(* during a handshake.                                                     *)
Engaged ==
  /\ \A p \in Process : caller[p].pc \notin Resting => caller[p].server \in Server
  /\ stage # "next" => caller[Boot].server \in Server

TypeInv == TypeOK /\ Engaged

-----------------------------------------------------------------------------
(* Type correctness.                                                       *)

LEMMA TypeInit == Init => TypeInv
<1> SUFFICES ASSUME Init PROVE TypeInv
  OBVIOUS
<1>1. NoAnswer \in Answer
  BY DEF NoAnswer, NoCall, Answer, Call, Process
<1>2. caller \in [Process -> Goroutine]
  BY DEF Init, Goroutine, Resting
<1> QED BY <1>1, <1>2 DEF Init, TypeInv, TypeOK, Engaged, Goroutine, Resting

LEMMA TypeRoute ==
    ASSUME TypeInv, NEW c \in Caller, Route(c) \/ LookUp(c)
    PROVE  TypeInv'
<1> USE DEF life, proc, reads, tables, Goto
<1>0. caller \in [Process -> Goroutine] /\ {c, Boot} \subseteq Process /\ c # Boot
  BY ActorAssumption DEF TypeInv, TypeOK, Goroutine, Process
<1>1. CASE Route(c)
  <2>1. PICK s \in Server :
          caller' = [caller EXCEPT ![c].pc = "route", ![c].server = s]
    BY <1>1 DEF Route, TypeInv, TypeOK
  <2>2. caller' \in [Process -> Goroutine]
    BY <1>0, <2>1 DEF Goroutine
  <2>3. \A q \in Process : caller'[q].server = IF q = c THEN s ELSE caller[q].server
    BY <1>0, <2>1 DEF Goroutine
  <2>4. \A q \in Process : q # c => caller'[q].pc = caller[q].pc
    BY <1>0, <2>1
  <2>5. UNCHANGED <<life, proc, reads, tables>>
    BY <1>1 DEF Route
  <2>6. Engaged'
    BY <1>0, <2>3, <2>4, <2>5 DEF TypeInv, Engaged
  <2> QED BY <2>2, <2>5, <2>6 DEF TypeInv, TypeOK
<1>2. CASE LookUp(c)
  <2>1. PICK pc \in {"register", "failed"} : caller' = [caller EXCEPT ![c].pc = pc]
    BY <1>2 DEF LookUp
  <2>2. caller' \in [Process -> Goroutine]
    BY <1>0, <2>1 DEF Goroutine, Resting
  <2>3. caller[c].server \in Server
    BY <1>0, <1>2 DEF LookUp, TypeInv, Engaged, Resting
  <2> QED BY <1>0, <1>2, <2>1, <2>2, <2>3
       DEF LookUp, TypeInv, TypeOK, Engaged, Goroutine
<1> QED BY <1>1, <1>2

LEMMA TypeCall ==
    ASSUME TypeInv, NEW p \in Process, CallStep(p)
    PROVE  TypeInv'
<1> USE DEF life, proc, reads, tables, Goto
<1> DEFINE s == caller[p].server
<1>0. /\ caller \in [Process -> Goroutine] /\ caller[p] \in Goroutine
      /\ s \in Server /\ Mine(p) \in Call /\ Boot \in Process
  BY DEF Process, TypeInv, TypeOK, Goroutine, Engaged, Resting, CallStep, Register, Write,
         Receive, Expire, Forget, Mine, Call
<1>1. CASE Register(p)
  <2> DEFINE call == [by |-> p, no |-> caller[p].no + 1]
  <2>0. FreshID(s) \in Nat /\ call \in Call
    BY <1>0 DEF FreshID, TypeInv, TypeOK, Call, Goroutine
  <2>1. CASE active[s]
    <3>1. /\ nextID' \in [Server -> Nat]
          /\ pending' \in [Server -> SUBSET Entry]
      BY <1>0, <1>1, <2>0, <2>1 DEF Register, TypeInv, TypeOK, Entry
    <3>2. caller' \in [Process -> Goroutine]
      BY <1>0, <1>1, <2>0, <2>1 DEF Register, Goroutine, Asking
    <3>3. \A q \in Process : caller'[q].server = caller[q].server
                             /\ (q # p => caller'[q].pc = caller[q].pc)
      BY <1>0, <1>1, <2>1 DEF Register, Goroutine
    <3>4. UNCHANGED <<life, proc, reads, asked>>
      BY <1>1 DEF Register
    <3>5. Engaged'
      BY <1>0, <3>3, <3>4 DEF TypeInv, Engaged
    <3> QED BY <3>1, <3>2, <3>4, <3>5 DEF TypeInv, TypeOK
  <2>2. CASE ~active[s]
    <3>1. caller' = [caller EXCEPT ![p].pc = "failed"]
      BY <1>1, <2>2 DEF Register
    <3>2. caller' \in [Process -> Goroutine]
      BY <1>0, <3>1 DEF Goroutine, Resting
    <3> QED BY <1>0, <1>1, <2>2, <3>1, <3>2
         DEF Register, TypeInv, TypeOK, Engaged, Goroutine
  <2> QED BY <2>1, <2>2
<1>2. CASE Write(p) \/ Receive(p) \/ Expire(p) \/ Forget(p)
  <2>1. PICK pc \in Resting \cup Asking : caller' = [caller EXCEPT ![p].pc = pc]
    BY <1>2 DEF Write, Receive, Expire, Forget, Resting, Asking
  <2>2. caller' \in [Process -> Goroutine]
    BY <1>0, <2>1 DEF Goroutine
  <2>3. \A q \in Process : caller'[q].server = caller[q].server
                           /\ (q # p => caller'[q].pc = caller[q].pc)
    BY <1>0, <2>1 DEF Goroutine
  <2>4. [id |-> caller[p].id, call |-> Mine(p)] \in Entry
    BY <1>0 DEF Entry, Goroutine
  <2>5. asked' \in [Server -> SUBSET Entry] /\ pending' \in [Server -> SUBSET Entry]
    BY <1>0, <1>2, <2>4 DEF Write, Receive, Expire, Forget, Without, TypeInv, TypeOK
  <2>6. UNCHANGED <<life, proc, reads, nextID>>
    BY <1>2 DEF Write, Receive, Expire, Forget
  <2>7. Engaged'
    BY <1>0, <2>3, <2>6 DEF TypeInv, Engaged
  <2> QED BY <2>2, <2>5, <2>6, <2>7 DEF TypeInv, TypeOK
<1> QED BY <1>1, <1>2 DEF CallStep

LEMMA TypeReader ==
    ASSUME TypeInv, NEW s \in Server,
           ReadLine(s) \/ Send(s) \/ EndOfFile(s) \/ LineTooLong(s) \/ ChildExits(s)
    PROVE  TypeInv'
<1> USE DEF life, proc, reads, tables
<1>1. CASE ReadLine(s)
  <2>1. PICK line \in asked[s], e \in pending[s] :
          /\ pending' = [pending EXCEPT ![s] = @ \ {e}]
          /\ hold' = [hold EXCEPT ![s] = [to |-> e.call, of |-> line.call]]
    BY <1>1 DEF ReadLine
  <2>2. [to |-> e.call, of |-> line.call] \in Answer
    BY DEF TypeInv, TypeOK, Entry, Answer
  <2> QED BY <1>1, <2>1, <2>2 DEF ReadLine, TypeInv, TypeOK, Engaged
<1>2. CASE Send(s)
  <2>1. NoAnswer \in Answer
    BY DEF NoAnswer, NoCall, Answer, Call, Process
  <2> QED BY <1>2, <2>1 DEF Send, TypeInv, TypeOK, Engaged
<1>3. CASE EndOfFile(s) \/ LineTooLong(s) \/ ChildExits(s)
  BY <1>3 DEF EndOfFile, LineTooLong, ChildExits, TypeInv, TypeOK, Engaged
<1> QED BY <1>1, <1>2, <1>3

LEMMA TypeBoot == ASSUME TypeInv, BootStep PROVE TypeInv'
<1> USE DEF life, proc, reads, tables
<1>0. caller \in [Process -> Goroutine] /\ Boot \in Process /\ caller[Boot] \in Goroutine
  BY DEF TypeInv, TypeOK, Goroutine, Process
<1>1. CASE StartGateway \/ Integrated \/ StartDone \/ StopGateway \/ Reaped \/ StopDone
  BY <1>1 DEF StartGateway, Integrated, StartDone, StopGateway, Reaped, StopDone,
              TypeInv, TypeOK, Engaged
<1>2. CASE Initialized
  <2>1. caller' = [caller EXCEPT ![Boot].pc = "register"]
    BY <1>2 DEF Initialized, Goto
  <2>2. caller' \in [Process -> Goroutine]
    BY <1>0, <2>1 DEF Goroutine
  <2> QED BY <1>0, <1>2, <2>1, <2>2 DEF Initialized, TypeInv, TypeOK, Engaged, Goroutine
<1>3. CASE HandshakeFails \/ \E s \in Server : StopNext(s)
  BY <1>3 DEF HandshakeFails, StopNext, Shut, TypeInv, TypeOK, Engaged
<1>4. ASSUME NEW s \in Server, Launch(s) PROVE TypeInv'
  <2>1. CASE UNCHANGED <<proc, reader, stage, caller>>
    BY <1>4, <2>1 DEF Launch, TypeInv, TypeOK, Engaged
  <2>2. CASE caller' = [caller EXCEPT ![Boot].pc = "register", ![Boot].server = s]
    <3>1. caller' \in [Process -> Goroutine]
      BY <1>0, <2>2 DEF Goroutine
    <3>2. stage' \in {"next", "initialize"} /\ UNCHANGED <<gate, halt, servers, hold, box, tables>>
      BY <1>4 DEF Launch, TypeInv, TypeOK
    <3>3. \A q \in Process : caller'[q].server = IF q = Boot THEN s ELSE caller[q].server
      BY <1>0, <2>2 DEF Goroutine
    <3>4. \A q \in Process : q # Boot => caller'[q].pc = caller[q].pc
      BY <1>0, <2>2
    <3>5. Engaged'
      BY <1>0, <3>3, <3>4 DEF TypeInv, Engaged
    <3>6. /\ todo' \subseteq Server
          /\ active' \in [Server -> BOOLEAN]
          /\ child' \in [Server -> {"none", "alive", "dead"}]
          /\ reader' \in [Server -> {"none", "scan", "send", "done"}]
      BY <1>4 DEF Launch, TypeInv, TypeOK
    <3> QED BY <3>1, <3>2, <3>5, <3>6 DEF TypeInv, TypeOK
  <2> QED BY <1>4, <2>1, <2>2 DEF Launch
<1> QED BY <1>1, <1>2, <1>3, <1>4 DEF BootStep

LEMMA TypeNext == TypeInv /\ [Next]_vars => TypeInv'
<1> SUFFICES ASSUME TypeInv, [Next]_vars PROVE TypeInv'
  OBVIOUS
<1>1. CASE UNCHANGED vars
  BY <1>1 DEF vars, life, proc, reads, tables, TypeInv, TypeOK, Engaged
<1>2. CASE Next
  BY <1>2, TypeRoute, TypeCall, TypeReader, TypeBoot DEF Next
<1> QED BY <1>1, <1>2

(* The gateway, its children and its goroutines are always well typed.     *)
THEOREM Typing == Spec => []TypeOK
<1>1. TypeInv => TypeOK
  BY DEF TypeInv
<1> QED BY <1>1, TypeInit, TypeNext, PTL DEF Spec

-----------------------------------------------------------------------------
(* The inductive invariant of Start and Stop: a child that runs, or whose  *)
(* reader does, is in the table or in its handshake.                       *)

Known(s) == s \in servers \/ (stage # "next" /\ caller[Boot].server = s)

LifeInv ==
  /\ \A s \in Server : child[s] = "alive" => Known(s)
  /\ \A s \in Server : reader[s] \in {"scan", "send"} => Known(s)
  /\ \A s \in Server : gate = "new" \/ s \in todo => reader[s] = "none"
  /\ gate # "starting" => stage = "next"
  /\ stage = "next" \/ halt # NoServer => caller[Boot].pc \in Resting
  /\ halt # NoServer => /\ child[halt] = "dead"
                        /\ gate \in {"starting", "stopping"}
                        /\ gate = "starting" => stage # "next" /\ halt = caller[Boot].server
  /\ gate = "stopped" => servers = {}

LEMMA LifeInit == Init => LifeInv
BY DEF Init, LifeInv, Known, Resting, Process

LEMMA LifeFrame ==
    ASSUME TypeInv, LifeInv, UNCHANGED life,
           \A s \in Server : child'[s] # child[s] => child'[s] = "dead",
           \A s \in Server : reader'[s] # reader[s] => reader[s] \in {"scan", "send"},
           caller'[Boot].server = caller[Boot].server,
           caller[Boot].pc \in Resting => caller'[Boot].pc \in Resting
    PROVE  LifeInv'
<1>1. UNCHANGED <<gate, todo, stage, halt, servers>>
  BY DEF life
<1>2. \A s \in Server : Known(s)' <=> Known(s)
  BY <1>1 DEF Known
<1>3. \A s \in Server : gate = "new" \/ s \in todo => reader'[s] = "none"
  BY DEF LifeInv
<1>4. halt \in Server /\ child[halt] = "dead" => child'[halt] = "dead"
  OBVIOUS
<1> QED BY <1>1, <1>2, <1>3, <1>4 DEF LifeInv, TypeInv, TypeOK

LEMMA LifeStart ==
    ASSUME TypeInv, LifeInv,
           StartGateway \/ Initialized \/ Integrated \/ HandshakeFails \/ StartDone
    PROVE  LifeInv'
<1> USE DEF life, proc, reads, tables, Resting
<1>0. caller \in [Process -> Goroutine] /\ Boot \in Process
  BY DEF TypeInv, TypeOK, Process
<1>1. CASE StartGateway
  BY <1>1 DEF StartGateway, LifeInv, Known, TypeInv, TypeOK
<1>2. CASE Initialized
  <2>1. caller'[Boot].server = caller[Boot].server
    BY <1>0, <1>2 DEF Initialized, Goto, Goroutine
  <2> QED BY <1>2, <2>1 DEF Initialized, LifeInv, Known
<1>3. CASE Integrated
  BY <1>3 DEF Integrated, LifeInv, Known
<1>4. CASE HandshakeFails
  <2>1. caller[Boot].server \in Server /\ gate = "starting"
    BY <1>4 DEF HandshakeFails, LifeInv, TypeInv, Engaged
  <2>2. child' = [child EXCEPT ![caller[Boot].server] = "dead"]
        /\ halt' = caller[Boot].server /\ caller[Boot].pc \in Resting
        /\ UNCHANGED <<gate, todo, stage, servers, reader, caller>>
    BY <1>4 DEF HandshakeFails, Shut
  <2>3. stage # "next" /\ child'[halt'] = "dead"
        /\ \A s \in Server : child'[s] = "alive" => child[s] = "alive"
    BY <1>4, <2>1, <2>2 DEF HandshakeFails, TypeInv, TypeOK
  <2> QED BY <2>1, <2>2, <2>3 DEF LifeInv, Known
<1>5. CASE StartDone
  BY <1>5 DEF StartDone, LifeInv, Known
<1> QED BY <1>1, <1>2, <1>3, <1>4, <1>5

LEMMA LifeLaunch ==
    ASSUME TypeInv, LifeInv, NEW s \in Server, Launch(s)
    PROVE  LifeInv'
<1> USE DEF life, proc, reads, tables, Resting
<1>0. caller \in [Process -> Goroutine] /\ Boot \in Process /\ s \in todo
      /\ gate = "starting" /\ stage = "next" /\ halt = NoServer
      /\ todo' = todo \ {s} /\ UNCHANGED <<gate, halt, servers>>
  BY DEF Launch, TypeInv, TypeOK, Process
<1>1. CASE UNCHANGED <<proc, reader, stage, caller>>
  BY <1>0, <1>1 DEF LifeInv, Known
<1>2. CASE /\ child' = [child EXCEPT ![s] = "alive"]
           /\ reader' = [reader EXCEPT ![s] = "scan"]
           /\ stage' = "initialize"
           /\ caller' = [caller EXCEPT ![Boot].pc = "register", ![Boot].server = s]
  <2>1. caller'[Boot].server = s
    BY <1>0, <1>2 DEF Goroutine
  <2>2. \A t \in Server : t # s => child'[t] = child[t] /\ reader'[t] = reader[t]
    BY <1>2 DEF TypeInv, TypeOK
  <2> QED BY <1>0, <1>2, <2>1, <2>2 DEF LifeInv, Known
<1> QED BY <1>1, <1>2 DEF Launch

LEMMA LifeStop ==
    ASSUME TypeInv, LifeInv,
           StopGateway \/ Reaped \/ StopDone \/ \E s \in Server : StopNext(s)
    PROVE  LifeInv'
<1> USE DEF life, proc, reads, tables, Resting
<1>1. CASE StopGateway
  BY <1>1 DEF StopGateway, LifeInv, Known
<1>2. CASE Reaped
  <2>1. halt # NoServer /\ reader[halt] = "done" /\ halt \in Server
        /\ halt' = NoServer /\ stage' = "next" /\ servers' = servers \ {halt}
        /\ UNCHANGED <<gate, todo, child, reader, caller>>
    BY <1>2 DEF Reaped, TypeInv, TypeOK
  <2>2. \A s \in Server : s # halt /\ Known(s) => s \in servers'
    BY <2>1 DEF LifeInv, Known
  <2>3. \A s \in Server : s # halt /\ Known(s) => Known(s)'
    BY <2>2 DEF Known
  <2> QED BY <2>1, <2>3 DEF LifeInv
<1>3. CASE StopDone
  BY <1>3 DEF StopDone, LifeInv, Known
<1>4. ASSUME NEW s \in Server, StopNext(s) PROVE LifeInv'
  <2>1. /\ gate = "stopping" /\ child' = [child EXCEPT ![s] = "dead"] /\ halt' = s
        /\ UNCHANGED <<gate, todo, stage, servers, reader, caller>>
    BY <1>4 DEF StopNext, Shut
  <2>2. child'[halt'] = "dead" /\ \A t \in Server : child'[t] = "alive" => child[t] = "alive"
    BY <2>1 DEF TypeInv, TypeOK
  <2> QED BY <2>1, <2>2 DEF LifeInv, Known
<1> QED BY <1>1, <1>2, <1>3, <1>4

LEMMA LifeNext == TypeInv /\ LifeInv /\ [Next]_vars => LifeInv'
<1> SUFFICES ASSUME TypeInv, LifeInv, [Next]_vars PROVE LifeInv'
  OBVIOUS
<1> USE DEF proc, reads, tables
<1>0. caller \in [Process -> Goroutine] /\ Boot \in Process /\ Caller \subseteq Process
      /\ Boot \notin Caller
  BY ActorAssumption DEF TypeInv, TypeOK, Process
<1>1. CASE UNCHANGED vars
  BY <1>1, LifeFrame DEF vars
<1>2. ASSUME NEW c \in Caller, Route(c) \/ LookUp(c) PROVE LifeInv'
  <2>1. caller'[Boot] = caller[Boot]
    BY <1>0, <1>2 DEF Route, LookUp, Goto
  <2> QED BY <1>2, <2>1, LifeFrame DEF Route, LookUp
<1>3. ASSUME NEW p \in Process, CallStep(p) PROVE LifeInv'
  <2>1. caller'[Boot].server = caller[Boot].server
    BY <1>0, <1>3 DEF CallStep, Register, Write, Receive, Expire, Forget, Goto, Goroutine
  <2>2. caller[p].pc \notin Resting
    BY <1>3 DEF CallStep, Register, Write, Receive, Expire, Forget, Resting
  <2>3. \A q \in Process : q # p => caller'[q] = caller[q]
    BY <1>0, <1>3 DEF CallStep, Register, Write, Receive, Expire, Forget, Goto
  <2>4. UNCHANGED <<life, proc, reads>>
    BY <1>3 DEF CallStep, Register, Write, Receive, Expire, Forget
  <2> QED BY <1>0, <2>1, <2>2, <2>3, <2>4, LifeFrame
<1>4. ASSUME NEW s \in Server,
             ReadLine(s) \/ Send(s) \/ EndOfFile(s) \/ LineTooLong(s) \/ ChildExits(s)
      PROVE  LifeInv'
  <2>1. UNCHANGED <<life, caller>>
    BY <1>4 DEF ReadLine, Send, EndOfFile, LineTooLong, ChildExits
  <2>2. \A t \in Server : child'[t] # child[t] => child'[t] = "dead"
    BY <1>4 DEF ReadLine, Send, EndOfFile, LineTooLong, ChildExits, TypeInv, TypeOK
  <2>3. \A t \in Server : reader'[t] # reader[t] => reader[t] \in {"scan", "send"}
    BY <1>4 DEF ReadLine, Send, EndOfFile, LineTooLong, ChildExits, TypeInv, TypeOK
  <2> QED BY <2>1, <2>2, <2>3, LifeFrame
<1>5. CASE BootStep
  BY <1>5, LifeStart, LifeLaunch, LifeStop DEF BootStep
<1> QED BY <1>1, <1>2, <1>3, <1>4, <1>5 DEF Next

(* Whatever fails during the handshakes: every child that runs while the   *)
(* gateway serves is in its table, and Stop leaves no child and no reader. *)
THEOREM NoStray == Spec => []NoStrayChild
<1>1. TypeInv /\ LifeInv => NoStrayChild
  BY DEF NoStrayChild, LifeInv, Known, TypeInv, TypeOK
<1> QED BY <1>1, TypeInit, TypeNext, LifeInit, LifeNext, PTL DEF Spec

-----------------------------------------------------------------------------
(* The inductive invariant of the calls.  A goroutine that is in a call to *)
(* a child has an id of its own there, and the channel of its call is in   *)
(* one place: the table, the hands of a reader, or already filled.         *)

IdsBounded ==
  /\ \A s \in Server : \A e \in pending[s] \cup asked[s] : e.id <= nextID[s]
  /\ \A p \in Process : caller[p].pc \in Asking =>
       caller[p].id <= nextID[caller[p].server]

DistinctIds ==
  \A p, q \in Process :
    /\ p # q /\ caller[p].server = caller[q].server
    /\ caller[p].pc \in Asking /\ caller[q].pc \in Asking
    => caller[p].id # caller[q].id

(* A line and the entry that it finds belong to the same call.             *)
LinesMatch ==
  \A s \in Server : \A line \in asked[s], e \in pending[s] :
    line.id = e.id => line.call = e.call

(* No child has seen a call that is still to be written, or a later one.   *)
AskedCalls ==
  \A s \in Server : \A line \in asked[s] :
    /\ line.call.no <= caller[line.call.by].no
    /\ line.call.no = caller[line.call.by].no => caller[line.call.by].pc # "write"

WritingIsPending ==
  \A p \in Process : caller[p].pc = "write" =>
    [id |-> caller[p].id, call |-> Mine(p)] \in pending[caller[p].server]

HeldOwn ==
  \A s \in Server : reader[s] = "send" =>
    /\ hold[s].to = hold[s].of
    /\ hold[s].to.no <= caller[hold[s].to.by].no

HeldOnce ==
  \A s, t \in Server :
    s # t /\ reader[s] = "send" /\ reader[t] = "send" => hold[s].to # hold[t].to

FilledBefore == \A a \in box : a.to.no <= caller[a.to.by].no

PendingUnsent ==
  \A s \in Server : \A e \in pending[s] :
    /\ \A a \in box : a.to # e.call
    /\ \A t \in Server : reader[t] = "send" => hold[t].to # e.call

HeldUnsent ==
  \A s \in Server : reader[s] = "send" => \A a \in box : a.to # hold[s].to

CallInv ==
  /\ IdsBounded /\ DistinctIds /\ LinesMatch /\ AskedCalls /\ WritingIsPending
  /\ HeldOwn /\ HeldOnce /\ FilledBefore /\ PendingUnsent /\ HeldUnsent
  /\ PendingIsAwaited /\ WaitingIsReachable /\ OwnAnswer

LEMMA CallInit == Init => CallInv
BY DEF Init, CallInv, IdsBounded, DistinctIds, LinesMatch, AskedCalls, WritingIsPending,
       HeldOwn, HeldOnce, FilledBefore, PendingUnsent, HeldUnsent, PendingIsAwaited,
       WaitingIsReachable, OwnAnswer, Asking

(* Goroutines outside of call, and readers between two lines, do nothing   *)
(* to the calls.                                                           *)
LEMMA CallFrame ==
    ASSUME TypeInv, CallInv,
           UNCHANGED <<hold, box, nextID, pending, asked>>,
           \A s \in Server : reader'[s] = "send" <=> reader[s] = "send",
           \A p \in Process :
             \/ caller'[p] = caller[p]
             \/ /\ caller[p].pc \notin Asking /\ caller'[p].pc \notin Asking
                /\ caller'[p].no = caller[p].no
    PROVE  CallInv'
<1>1. \A s \in Server : pending[s] \subseteq Entry /\ asked[s] \subseteq Entry
      /\ hold[s] \in Answer
  BY DEF TypeInv, TypeOK
<1>2. \A e \in Entry : e.call \in Call /\ e.call.by \in Process
  BY DEF Entry, Call
<1>3. \A a \in Answer : a.to \in Call /\ a.to.by \in Process
  BY DEF Answer, Call
<1>4. \A p \in Process : /\ caller'[p].no = caller[p].no
                         /\ Mine(p)' = Mine(p)
                         /\ caller'[p].pc \in Asking <=> caller[p].pc \in Asking
                         /\ caller'[p].pc \in Asking => caller'[p] = caller[p]
  BY DEF Mine
<1>5. {"write", "wait"} \subseteq Asking
  BY DEF Asking
<1>6. (IdsBounded /\ DistinctIds /\ LinesMatch /\ OwnAnswer)'
  BY <1>4 DEF CallInv, IdsBounded, DistinctIds, LinesMatch, OwnAnswer
<1>7. (AskedCalls /\ WritingIsPending)'
  BY <1>1, <1>2, <1>4, <1>5 DEF CallInv, AskedCalls, WritingIsPending
<1>8. (HeldOwn /\ HeldOnce /\ FilledBefore /\ PendingUnsent /\ HeldUnsent)'
  <2>1. (HeldOwn /\ FilledBefore)'
    BY <1>1, <1>3, <1>4 DEF CallInv, HeldOwn, FilledBefore, TypeInv, TypeOK
  <2>2. (HeldOnce /\ PendingUnsent /\ HeldUnsent)'
    BY DEF CallInv, HeldOnce, PendingUnsent, HeldUnsent
  <2> QED BY <2>1, <2>2
<1>9. PendingIsAwaited'
  BY <1>1, <1>2, <1>4 DEF CallInv, PendingIsAwaited
<1>10. WaitingIsReachable'
  BY <1>4, <1>5 DEF CallInv, WaitingIsReachable, TypeInv, Engaged, Resting, Asking
<1> QED BY <1>6, <1>7, <1>8, <1>9, <1>10 DEF CallInv

LEMMA CallRegister ==
    ASSUME TypeInv, CallInv, NEW p \in Process, Register(p), active[caller[p].server]
    PROVE  CallInv'
<1> DEFINE s == caller[p].server
           n == FreshID(s)
           new == [id |-> n, call |-> [by |-> p, no |-> caller[p].no + 1]]
<1>1. /\ caller \in [Process -> Goroutine] /\ caller[p].no \in Nat /\ s \in Server
      /\ caller[p].pc = "register"
      /\ nextID[s] \in Nat /\ n = nextID[s] + 1
  BY DEF Register, TypeInv, TypeOK, Engaged, Goroutine, Resting, FreshID
<1>2. /\ nextID' = [nextID EXCEPT ![s] = n]
      /\ caller' = [caller EXCEPT ![p].pc = "write", ![p].no = @ + 1, ![p].id = n]
      /\ pending' = [pending EXCEPT ![s] = {e \in @ : e.id # n} \cup {new}]
      /\ UNCHANGED <<reader, hold, box, asked>>
  BY <1>1 DEF Register, reads
<1>3. \A q \in Process : q # p => caller'[q] = caller[q]
  BY <1>1, <1>2
<1>4. /\ caller'[p].pc = "write" /\ caller'[p].no = caller[p].no + 1
      /\ caller'[p].id = n /\ caller'[p].server = s
  BY <1>1, <1>2 DEF Goroutine
<1>5. \A t \in Server : /\ nextID[t] \in Nat /\ nextID'[t] \in Nat
                        /\ nextID'[t] = IF t = s THEN n ELSE nextID[t]
                        /\ pending[t] \subseteq Entry /\ asked[t] \subseteq Entry
                        /\ hold[t] \in Answer
  BY <1>1, <1>2 DEF TypeInv, TypeOK
<1>6. \A t \in Server : /\ \A e \in pending'[t] : e \in pending[t] \/ (t = s /\ e = new)
                        /\ pending[t] \subseteq pending'[t]
  <2>1. \A e \in pending[s] : e.id # n
    BY <1>1, <1>5 DEF CallInv, IdsBounded, Entry
  <2> QED BY <1>1, <1>2, <2>1 DEF TypeInv, TypeOK
<1>7. new \in pending'[s]
  BY <1>1, <1>2 DEF TypeInv, TypeOK
<1>8. /\ \A e \in Entry : e.id \in Nat /\ e.call \in Call /\ e.call.by \in Process
      /\ \A a \in Answer : a.to \in Call
      /\ \A c \in Call : c.by \in Process /\ c.no \in Nat
      /\ \A q \in Process : caller[q].no \in Nat /\ caller[q].id \in Nat
      /\ box \subseteq Answer
  BY <1>1 DEF Entry, Answer, Call, Goroutine, TypeInv, TypeOK
<1>9. \A q \in Process : caller'[q].no >= caller[q].no /\ caller'[q].no \in Nat
  BY <1>1, <1>3, <1>4, <1>8
<1>10. /\ p \in Process /\ new.id = n /\ new.call.by = p /\ new.call.no = caller[p].no + 1
       /\ Mine(p)' = new.call /\ {"write", "wait"} \subseteq Asking
       /\ \A q \in Process : q # p => Mine(q)' = Mine(q)
  BY <1>3, <1>4 DEF Mine, Asking
<1>11. \A c \in Call : c = new.call => c.by = p /\ c.no > caller[p].no
  BY <1>1, <1>10
<1>12. \A q \in Process : caller[q].pc \in Asking /\ caller[q].server = s => caller[q].id < n
  BY <1>1, <1>8 DEF CallInv, IdsBounded
<1>13. IdsBounded'
  <2>1. \A t \in Server : \A e \in pending'[t] \cup asked'[t] : e.id <= nextID'[t]
    BY <1>1, <1>2, <1>5, <1>6, <1>8, <1>10 DEF CallInv, IdsBounded
  <2>2. \A q \in Process : q # p /\ caller[q].pc \in Asking =>
          caller[q].server \in Server /\ caller[q].id <= nextID[caller[q].server]
    BY DEF CallInv, IdsBounded, TypeInv, Engaged, Asking, Resting
  <2>3. \A q \in Process : q # p /\ caller[q].pc \in Asking =>
          caller[q].id <= nextID'[caller[q].server]
    BY <1>1, <1>5, <1>8, <2>2
  <2> QED BY <1>1, <1>3, <1>4, <1>5, <2>1, <2>3 DEF IdsBounded
<1>14. DistinctIds'
  BY <1>1, <1>3, <1>4, <1>8, <1>12 DEF CallInv, DistinctIds
<1>15. LinesMatch'
  <2>1. \A line \in asked[s] : line.id # n
    BY <1>1, <1>5, <1>8 DEF CallInv, IdsBounded
  <2> QED BY <1>2, <1>6, <1>10, <2>1 DEF CallInv, LinesMatch
<1>16. AskedCalls'
  <2> SUFFICES ASSUME NEW t \in Server, NEW line \in asked[t]
               PROVE  /\ line.call.no <= caller'[line.call.by].no
                      /\ line.call.no = caller'[line.call.by].no =>
                           caller'[line.call.by].pc # "write"
    BY <1>2 DEF AskedCalls
  <2>1. line.call.by \in Process /\ line.call.no \in Nat
        /\ line.call.no <= caller[line.call.by].no
    BY <1>5, <1>8 DEF CallInv, AskedCalls
  <2>2. CASE line.call.by = p
    BY <1>1, <1>4, <2>1, <2>2
  <2>3. CASE line.call.by # p
    BY <1>3, <2>1, <2>3 DEF CallInv, AskedCalls
  <2> QED BY <2>2, <2>3
<1>17. WritingIsPending'
  <2>1. \A q \in Process : q # p /\ caller[q].pc = "write" =>
          /\ caller[q].server \in Server
          /\ [id |-> caller[q].id, call |-> Mine(q)] \in pending[caller[q].server]
    BY DEF CallInv, WritingIsPending, TypeInv, Engaged, Resting
  <2> QED BY <1>3, <1>4, <1>6, <1>7, <1>10, <2>1 DEF WritingIsPending
<1>18. HeldOwn' /\ FilledBefore'
  <2>1. \A t \in Server : reader[t] = "send" =>
          hold[t].to.no <= caller'[hold[t].to.by].no
    BY <1>5, <1>8, <1>9 DEF CallInv, HeldOwn
  <2>2. \A a \in box : a.to.no <= caller'[a.to.by].no
    BY <1>8, <1>9 DEF CallInv, FilledBefore
  <2> QED BY <1>2, <2>1, <2>2 DEF CallInv, HeldOwn, FilledBefore
<1>19. PendingUnsent'
  <2>1. \A a \in box : a.to # new.call
    BY <1>1, <1>8, <1>11 DEF CallInv, FilledBefore
  <2>2. \A t \in Server : reader[t] = "send" => hold[t].to # new.call
    BY <1>1, <1>5, <1>8, <1>11 DEF CallInv, HeldOwn
  <2> QED BY <1>2, <1>6, <2>1, <2>2 DEF CallInv, PendingUnsent
<1>20. HeldOnce' /\ HeldUnsent' /\ OwnAnswer'
  BY <1>2 DEF CallInv, HeldOnce, HeldUnsent, OwnAnswer
<1>21. PendingIsAwaited'
  <2> SUFFICES ASSUME NEW t \in Server, NEW e \in pending'[t]
               PROVE  /\ caller'[e.call.by].pc \in Asking
                      /\ caller'[e.call.by].no = e.call.no
                      /\ caller'[e.call.by].server = t
                      /\ caller'[e.call.by].id = e.id
    BY DEF PendingIsAwaited
  <2>1. CASE e \in pending[t]
    <3>1. /\ caller[e.call.by].pc \in Asking /\ caller[e.call.by].no = e.call.no
          /\ caller[e.call.by].server = t /\ caller[e.call.by].id = e.id
      BY <2>1 DEF CallInv, PendingIsAwaited
    <3>2. e.call.by \in Process /\ e.call.by # p
      BY <1>1, <1>5, <1>8, <2>1, <3>1 DEF Asking
    <3> QED BY <1>3, <3>1, <3>2
  <2>2. CASE t = s /\ e = new
    BY <1>4, <1>10, <2>2
  <2> QED BY <1>6, <2>1, <2>2
<1>22. WaitingIsReachable'
  <2>1. \A q \in Process : caller'[q].pc = "wait" =>
          /\ q # p /\ caller'[q] = caller[q] /\ Mine(q)' = Mine(q)
          /\ caller[q].server \in Server
    BY <1>3, <1>4, <1>10 DEF TypeInv, Engaged, Resting
  <2>2. \A q \in Process : caller'[q].pc = "wait" =>
          \/ [id |-> caller[q].id, call |-> Mine(q)] \in pending[caller[q].server]
          \/ reader[caller[q].server] = "send" /\ hold[caller[q].server].to = Mine(q)
          \/ \E a \in box : a.to = Mine(q)
    BY <2>1 DEF CallInv, WaitingIsReachable
  <2>3. ASSUME NEW q \in Process, caller'[q].pc = "wait"
        PROVE  \/ [id |-> caller'[q].id, call |-> Mine(q)'] \in pending'[caller'[q].server]
               \/ reader'[caller'[q].server] = "send" /\ hold'[caller'[q].server].to = Mine(q)'
               \/ \E a \in box' : a.to = Mine(q)'
    <3>1. /\ caller'[q].id = caller[q].id /\ caller'[q].server = caller[q].server
          /\ Mine(q)' = Mine(q) /\ caller[q].server \in Server
      BY <2>1, <2>3
    <3>2. [id |-> caller[q].id, call |-> Mine(q)] \in pending[caller[q].server] =>
            [id |-> caller[q].id, call |-> Mine(q)] \in pending'[caller[q].server]
      BY <1>6, <3>1
    <3> QED BY <1>2, <2>2, <2>3, <3>1, <3>2
  <2> QED BY <2>3 DEF WaitingIsReachable
<1> QED BY <1>13, <1>14, <1>15, <1>16, <1>17, <1>18, <1>19, <1>20, <1>21, <1>22 DEF CallInv

LEMMA Members ==
    ASSUME TypeInv
    PROVE  /\ \A e \in Entry : e.id \in Nat /\ e.call \in Call
           /\ \A a \in Answer : a.to \in Call /\ a.of \in Call
           /\ \A c \in Call : c.by \in Process /\ c.no \in Nat
           /\ \A t \in Server : /\ pending[t] \subseteq Entry /\ asked[t] \subseteq Entry
                                /\ hold[t] \in Answer /\ nextID[t] \in Nat
           /\ \A q \in Process : /\ caller[q].no \in Nat /\ caller[q].id \in Nat
                                 /\ Mine(q) \in Call
                                 /\ caller[q].pc \in Asking => caller[q].server \in Server
           /\ box \subseteq Answer
BY DEF Entry, Answer, Call, Goroutine, Mine, TypeInv, TypeOK, Engaged, Asking, Resting

(* An entry belongs to the call that its goroutine is making.              *)
LEMMA Owner ==
    ASSUME TypeInv, CallInv, NEW s \in Server, NEW e \in pending[s]
    PROVE  /\ e \in Entry /\ e.call.by \in Process /\ e.call = Mine(e.call.by)
           /\ caller[e.call.by].pc \in Asking
           /\ caller[e.call.by].server = s
           /\ caller[e.call.by].id = e.id
<1>1. e \in Entry /\ e.call \in Call /\ e.call.by \in Process
  BY Members DEF Call
<1>2. /\ caller[e.call.by].pc \in Asking /\ caller[e.call.by].no = e.call.no
      /\ caller[e.call.by].server = s /\ caller[e.call.by].id = e.id
  BY DEF CallInv, PendingIsAwaited
<1> QED BY <1>1, <1>2 DEF Call, Mine

(* One entry per id, one per call.                                         *)
LEMMA OneEntry ==
    ASSUME TypeInv, CallInv, NEW s \in Server, NEW t \in Server,
           NEW e \in pending[s], NEW f \in pending[t],
           \/ e.call = f.call
           \/ s = t /\ e.id = f.id
    PROVE  s = t /\ e = f
<1>1. /\ e \in Entry /\ e.call.by \in Process /\ e.call = Mine(e.call.by)
      /\ caller[e.call.by].pc \in Asking
      /\ caller[e.call.by].server = s /\ caller[e.call.by].id = e.id
  BY Owner
<1>2. /\ f \in Entry /\ f.call.by \in Process /\ f.call = Mine(f.call.by)
      /\ caller[f.call.by].pc \in Asking
      /\ caller[f.call.by].server = t /\ caller[f.call.by].id = f.id
  BY Owner
<1>3. e.call = f.call => s = t /\ e.id = f.id
  BY <1>1, <1>2
<1>4. s = t /\ e.id = f.id => e.call = f.call
  BY <1>1, <1>2 DEF CallInv, DistinctIds
<1> QED BY <1>1, <1>2, <1>3, <1>4 DEF Entry

(* What a step of call, once registered, leaves alone.                     *)
LEMMA CallMoves ==
    ASSUME TypeInv, CallInv, NEW p \in Process, NEW pc \in Resting \cup Asking,
           caller[p].pc \in Asking,
           caller' = [caller EXCEPT ![p].pc = pc],
           pc # "write",
           \A t \in Server : pending'[t] \subseteq pending[t],
           UNCHANGED <<reader, hold, box, nextID>>
    PROVE  /\ \A q \in Process :
                /\ caller'[q].no = caller[q].no /\ caller'[q].id = caller[q].id
                /\ caller'[q].server = caller[q].server /\ Mine(q)' = Mine(q)
                /\ caller'[q].pc = IF q = p THEN pc ELSE caller[q].pc
           /\ (DistinctIds /\ HeldOwn /\ HeldOnce /\ FilledBefore /\ PendingUnsent
                /\ HeldUnsent /\ OwnAnswer)'
<1>1. \A q \in Process :
        /\ caller'[q].no = caller[q].no /\ caller'[q].id = caller[q].id
        /\ caller'[q].server = caller[q].server
        /\ caller'[q].pc = IF q = p THEN pc ELSE caller[q].pc
  BY DEF TypeInv, TypeOK, Goroutine
<1>2. \A q \in Process : Mine(q)' = Mine(q)
  BY <1>1 DEF Mine
<1>3. DistinctIds'
  BY <1>1 DEF CallInv, DistinctIds
<1>4. HeldOwn' /\ FilledBefore'
  BY <1>1, Members DEF CallInv, HeldOwn, FilledBefore
<1>5. (HeldOnce /\ PendingUnsent /\ HeldUnsent /\ OwnAnswer)'
  BY DEF CallInv, HeldOnce, PendingUnsent, HeldUnsent, OwnAnswer
<1> QED BY <1>1, <1>2, <1>3, <1>4, <1>5

LEMMA CallWrite ==
    ASSUME TypeInv, CallInv, NEW p \in Process, Write(p)
    PROVE  CallInv'
<1> DEFINE s == caller[p].server
           mine == [id |-> caller[p].id, call |-> Mine(p)]
<1>1. /\ caller[p].pc = "write" /\ caller[p].pc \in Asking
      /\ UNCHANGED <<reader, hold, box, nextID, pending>>
  BY DEF Write, reads, Asking
<1>2. /\ s \in Server /\ mine \in pending[s] /\ caller[p].id <= nextID[s]
      /\ mine.id = caller[p].id /\ mine.call = Mine(p)
  BY <1>1, Members DEF CallInv, WritingIsPending, IdsBounded
<1>3. PICK pc \in {"wait", "forget"} :
        /\ caller' = [caller EXCEPT ![p].pc = pc]
        /\ pc = "wait" => asked' = [asked EXCEPT ![s] = @ \cup {mine}]
        /\ pc = "forget" => UNCHANGED asked
  BY DEF Write, Goto
<1>4. pc \in Resting \cup Asking /\ pc \in Asking /\ pc # "write"
  BY DEF Resting, Asking
<1>5. /\ \A q \in Process :
           /\ caller'[q].no = caller[q].no /\ caller'[q].id = caller[q].id
           /\ caller'[q].server = caller[q].server /\ Mine(q)' = Mine(q)
           /\ caller'[q].pc = IF q = p THEN pc ELSE caller[q].pc
      /\ (DistinctIds /\ HeldOwn /\ HeldOnce /\ FilledBefore /\ PendingUnsent
           /\ HeldUnsent /\ OwnAnswer)'
  BY <1>1, <1>3, <1>4, CallMoves
<1>6. \A t \in Server : \A line \in asked'[t] :
        line \in asked[t] \/ (t = s /\ line = mine /\ pc = "wait")
  BY <1>2, <1>3 DEF TypeInv, TypeOK
<1>7. IdsBounded'
  BY <1>1, <1>2, <1>4, <1>5, <1>6 DEF CallInv, IdsBounded
<1>8. LinesMatch'
  <2> SUFFICES ASSUME NEW t \in Server, NEW line \in asked'[t], NEW e \in pending[t],
                      line.id = e.id
               PROVE  line.call = e.call
    BY <1>1 DEF LinesMatch
  <2>1. CASE line \in asked[t]
    BY <2>1 DEF CallInv, LinesMatch
  <2>2. CASE t = s /\ line = mine
    BY <1>2, <2>2, OneEntry
  <2> QED BY <1>6, <2>1, <2>2
<1>9. AskedCalls'
  <2> SUFFICES ASSUME NEW t \in Server, NEW line \in asked'[t]
               PROVE  /\ line.call.no <= caller'[line.call.by].no
                      /\ line.call.no = caller'[line.call.by].no =>
                           caller'[line.call.by].pc # "write"
    BY DEF AskedCalls
  <2>1. CASE line \in asked[t]
    <3>1. line.call.by \in Process
      BY <2>1, Members
    <3> QED BY <1>4, <1>5, <2>1, <3>1 DEF CallInv, AskedCalls
  <2>2. CASE line = mine
    <3>1. line.call.by = p /\ line.call.no = caller[p].no /\ caller[p].no \in Nat
      BY <1>2, <2>2, Members DEF Mine
    <3> QED BY <1>4, <1>5, <3>1
  <2> QED BY <1>6, <2>1, <2>2
<1>10. WritingIsPending'
  BY <1>1, <1>4, <1>5 DEF CallInv, WritingIsPending
<1>11. PendingIsAwaited'
  <2>1. \A t \in Server : \A e \in pending[t] : e.call.by \in Process
    BY Owner
  <2> QED BY <1>1, <1>4, <1>5, <2>1 DEF CallInv, PendingIsAwaited
<1>12. WaitingIsReachable'
  <2>1. \A q \in Process : caller'[q].pc = "wait" =>
          \/ [id |-> caller[q].id, call |-> Mine(q)] \in pending[caller[q].server]
          \/ reader[caller[q].server] = "send" /\ hold[caller[q].server].to = Mine(q)
          \/ \E a \in box : a.to = Mine(q)
    BY <1>2, <1>5 DEF CallInv, WaitingIsReachable
  <2> QED BY <1>1, <1>5, <2>1 DEF WaitingIsReachable
<1> QED BY <1>5, <1>7, <1>8, <1>9, <1>10, <1>11, <1>12 DEF CallInv

LEMMA CallEnds ==
    ASSUME TypeInv, CallInv, NEW p \in Process, Receive(p) \/ Expire(p) \/ Forget(p)
    PROVE  CallInv'
<1> DEFINE s == caller[p].server
           id == caller[p].id
<1>1. /\ caller[p].pc \in {"wait", "forget"} /\ caller[p].pc \in Asking
      /\ UNCHANGED <<reader, hold, box, nextID, asked>>
      /\ s \in Server
  BY Members DEF Receive, Expire, Forget, reads, tables, Asking
<1>2. PICK pc \in {"ok", "forget", "failed"} :
        /\ caller' = [caller EXCEPT ![p].pc = pc]
        /\ pc = "ok" => UNCHANGED pending /\ \E a \in box : a.to = Mine(p)
        /\ pc = "forget" => UNCHANGED pending
        /\ pc = "failed" => pending' = [pending EXCEPT ![s] = {e \in pending[s] : e.id # id}]
  BY DEF Receive, Expire, Forget, Goto, tables, Without
<1>3. pc \in Resting \cup Asking /\ pc \notin {"write", "wait"}
      /\ {"write", "wait"} \subseteq Asking /\ (pc \in Asking => pc = "forget")
  BY DEF Resting, Asking
<1>4. \A t \in Server : /\ pending'[t] \subseteq pending[t]
                        /\ \A e \in pending[t] : e \notin pending'[t] => t = s /\ e.id = id
  BY <1>1, <1>2 DEF TypeInv, TypeOK
<1>5. /\ \A q \in Process :
           /\ caller'[q].no = caller[q].no /\ caller'[q].id = caller[q].id
           /\ caller'[q].server = caller[q].server /\ Mine(q)' = Mine(q)
           /\ caller'[q].pc = IF q = p THEN pc ELSE caller[q].pc
      /\ (DistinctIds /\ HeldOwn /\ HeldOnce /\ FilledBefore /\ PendingUnsent
           /\ HeldUnsent /\ OwnAnswer)'
  BY <1>1, <1>2, <1>3, <1>4, CallMoves
<1>6. \A q \in Process : q # p /\ caller[q].pc \in Asking /\ caller[q].server = s =>
        caller[q].id # id
  BY <1>1 DEF CallInv, DistinctIds
<1>7. IdsBounded' /\ LinesMatch'
  BY <1>1, <1>3, <1>4, <1>5 DEF CallInv, IdsBounded, LinesMatch
<1>8. AskedCalls'
  <2>1. \A t \in Server : \A line \in asked[t] : line.call.by \in Process
    BY Members
  <2> QED BY <1>1, <1>3, <1>5, <2>1 DEF CallInv, AskedCalls
<1>9. \A q \in Process :
        LET e == [id |-> caller[q].id, call |-> Mine(q)]
        IN q # p /\ caller[q].pc \in Asking /\ e \in pending[caller[q].server] =>
             e \in pending'[caller[q].server]
  BY <1>4, <1>6, Members
<1>10. WritingIsPending'
  BY <1>3, <1>5, <1>9 DEF CallInv, WritingIsPending
<1>11. WaitingIsReachable'
  <2> SUFFICES ASSUME NEW q \in Process, caller'[q].pc = "wait"
               PROVE  \/ [id |-> caller[q].id, call |-> Mine(q)] \in pending'[caller[q].server]
                      \/ reader[caller[q].server] = "send"
                           /\ hold[caller[q].server].to = Mine(q)
                      \/ \E a \in box : a.to = Mine(q)
    BY <1>1, <1>5 DEF WaitingIsReachable
  <2>1. q # p /\ caller[q].pc = "wait"
    BY <1>3, <1>5
  <2> QED BY <1>3, <1>9, <2>1 DEF CallInv, WaitingIsReachable
<1>12. PendingIsAwaited'
  <2> SUFFICES ASSUME NEW t \in Server, NEW e \in pending'[t]
               PROVE  /\ caller'[e.call.by].pc \in Asking
                      /\ caller'[e.call.by].no = e.call.no
                      /\ caller'[e.call.by].server = t
                      /\ caller'[e.call.by].id = e.id
    BY DEF PendingIsAwaited
  <2>1. /\ e \in pending[t] /\ e.call.by \in Process /\ e.call = Mine(e.call.by)
        /\ caller[e.call.by].pc \in Asking /\ caller[e.call.by].no = e.call.no
        /\ caller[e.call.by].server = t /\ caller[e.call.by].id = e.id
    BY <1>4, Owner DEF CallInv, PendingIsAwaited
  <2>2. CASE e.call.by # p
    BY <1>5, <2>1, <2>2
  <2>3. CASE e.call.by = p
    <3>1. pc # "ok"
      BY <1>2, <2>1, <2>3 DEF CallInv, PendingUnsent
    <3>2. pc # "failed"
      BY <1>1, <1>2, <2>1, <2>3 DEF TypeInv, TypeOK
    <3>3. pc \in Asking
      BY <1>2, <3>1, <3>2 DEF Asking
    <3> QED BY <1>5, <2>1, <2>3, <3>3
  <2> QED BY <2>2, <2>3
<1> QED BY <1>5, <1>7, <1>8, <1>10, <1>11, <1>12 DEF CallInv

LEMMA CallReadLine ==
    ASSUME TypeInv, CallInv, NEW s \in Server, ReadLine(s)
    PROVE  CallInv'
<1>1. PICK line \in asked[s], e \in pending[s] :
        /\ line.id = e.id
        /\ pending' = [pending EXCEPT ![s] = @ \ {e}]
        /\ hold' = [hold EXCEPT ![s] = [to |-> e.call, of |-> line.call]]
  BY DEF ReadLine, Answers
<1>2. /\ reader[s] # "send" /\ reader' = [reader EXCEPT ![s] = "send"]
      /\ UNCHANGED <<box, nextID, asked, caller>>
  BY DEF ReadLine
<1>3. line.call = e.call
  BY <1>1 DEF CallInv, LinesMatch
<1>4. /\ e.call.by \in Process /\ e.call = Mine(e.call.by)
      /\ caller[e.call.by].server = s /\ caller[e.call.by].id = e.id
  BY Owner
<1>5. \A t \in Server :
        /\ pending'[t] = IF t = s THEN pending[s] \ {e} ELSE pending[t]
        /\ reader'[t] = "send" <=> t = s \/ reader[t] = "send"
        /\ t # s => hold'[t] = hold[t]
        /\ pending'[t] \subseteq pending[t]
  BY <1>1, <1>2 DEF TypeInv, TypeOK
<1>6. hold'[s].to = e.call /\ hold'[s].of = e.call
  BY <1>1, <1>3 DEF TypeInv, TypeOK
<1>7. \A q \in Process : Mine(q)' = Mine(q)
  BY <1>2 DEF Mine
<1>8. (IdsBounded /\ DistinctIds /\ LinesMatch /\ AskedCalls)'
  BY <1>2, <1>5 DEF CallInv, IdsBounded, DistinctIds, LinesMatch, AskedCalls
<1>9. (OwnAnswer /\ FilledBefore /\ PendingIsAwaited)'
  BY <1>2, <1>5 DEF CallInv, OwnAnswer, FilledBefore, PendingIsAwaited
<1>10. WritingIsPending'
  <2>1. caller[e.call.by].no \in Nat /\ e.call.no = caller[e.call.by].no
    BY <1>4, Members DEF Mine
  <2>2. caller[e.call.by].pc # "write"
    BY <1>3, <2>1 DEF CallInv, AskedCalls
  <2>3. \A q \in Process : caller[q].pc = "write" =>
          LET f == [id |-> caller[q].id, call |-> Mine(q)]
          IN f \in pending[caller[q].server] /\ f.call.by = q /\ caller[q].server \in Server
    BY Members DEF CallInv, WritingIsPending, Mine, Asking
  <2> QED BY <1>2, <1>5, <1>7, <2>2, <2>3 DEF WritingIsPending
<1>11. WaitingIsReachable'
  <2> SUFFICES ASSUME NEW q \in Process, caller[q].pc = "wait"
               PROVE  \/ [id |-> caller[q].id, call |-> Mine(q)] \in pending'[caller[q].server]
                      \/ reader'[caller[q].server] = "send"
                           /\ hold'[caller[q].server].to = Mine(q)
                      \/ \E a \in box : a.to = Mine(q)
    BY <1>2, <1>7 DEF WaitingIsReachable
  <2> DEFINE f == [id |-> caller[q].id, call |-> Mine(q)]
  <2>1. caller[q].server \in Server
    BY Members DEF Asking
  <2>2. CASE f \in pending[caller[q].server]
    <3>1. CASE f = e
      <4>1. e.call = Mine(q) /\ q = e.call.by
        BY <3>1 DEF Mine
      <4> QED BY <1>4, <1>5, <1>6, <4>1, <2>1
    <3>2. CASE f # e
      BY <1>5, <2>1, <2>2, <3>2
    <3> QED BY <3>1, <3>2
  <2>3. CASE reader[caller[q].server] = "send" /\ hold[caller[q].server].to = Mine(q)
    BY <1>2, <1>5, <2>1, <2>3
  <2> QED BY <2>2, <2>3 DEF CallInv, WaitingIsReachable
<1>12. HeldOwn'
  <2>1. e.call.no <= caller[e.call.by].no
    BY <1>4, Members DEF Mine
  <2> QED BY <1>2, <1>5, <1>6, <2>1 DEF CallInv, HeldOwn
<1>13. (HeldOnce /\ HeldUnsent)'
  BY <1>2, <1>5, <1>6 DEF CallInv, HeldOnce, HeldUnsent, PendingUnsent
<1>14. PendingUnsent'
  <2>1. ASSUME NEW t \in Server, NEW f \in pending'[t]
        PROVE  f.call # e.call
    BY <1>5, <2>1, OneEntry
  <2> QED BY <1>2, <1>5, <1>6, <2>1 DEF CallInv, PendingUnsent
<1> QED BY <1>8, <1>9, <1>10, <1>11, <1>12, <1>13, <1>14 DEF CallInv

LEMMA CallSend ==
    ASSUME TypeInv, CallInv, NEW s \in Server, Send(s)
    PROVE  CallInv'
<1>1. /\ reader[s] = "send" /\ box' = box \cup {hold[s]}
      /\ \A t \in Server : /\ reader'[t] = "send" <=> t # s /\ reader[t] = "send"
                           /\ t # s => hold'[t] = hold[t]
      /\ UNCHANGED <<nextID, pending, asked, caller>>
  BY DEF Send, tables, TypeInv, TypeOK
<1>2. \A q \in Process : Mine(q)' = Mine(q)
  BY <1>1 DEF Mine
<1>3. (IdsBounded /\ DistinctIds /\ LinesMatch /\ AskedCalls /\ PendingIsAwaited)'
  BY <1>1 DEF CallInv, IdsBounded, DistinctIds, LinesMatch, AskedCalls, PendingIsAwaited
<1>4. WritingIsPending'
  BY <1>1, <1>2 DEF CallInv, WritingIsPending
<1>5. (HeldOwn /\ HeldOnce /\ FilledBefore /\ PendingUnsent /\ HeldUnsent /\ OwnAnswer)'
  BY <1>1 DEF CallInv, HeldOwn, HeldOnce, FilledBefore, PendingUnsent, HeldUnsent, OwnAnswer
<1>6. WaitingIsReachable'
  <2> SUFFICES ASSUME NEW q \in Process, caller[q].pc = "wait"
               PROVE  \/ [id |-> caller[q].id, call |-> Mine(q)] \in pending[caller[q].server]
                      \/ reader'[caller[q].server] = "send"
                           /\ hold'[caller[q].server].to = Mine(q)
                      \/ \E a \in box' : a.to = Mine(q)
    BY <1>1, <1>2 DEF WaitingIsReachable
  <2>1. caller[q].server \in Server
    BY Members DEF Asking
  <2> QED BY <1>1, <2>1 DEF CallInv, WaitingIsReachable
<1> QED BY <1>3, <1>4, <1>5, <1>6 DEF CallInv

LEMMA CallNext == TypeInv /\ LifeInv /\ CallInv /\ [Next]_vars => CallInv'
<1> SUFFICES ASSUME TypeInv, LifeInv, CallInv, [Next]_vars PROVE CallInv'
  OBVIOUS
<1> USE DEF life, proc, reads, tables
<1>0. caller \in [Process -> Goroutine] /\ Boot \in Process /\ Caller \subseteq Process
      /\ Resting \cap Asking = {} /\ {"route", "register"} \cap Asking = {}
  BY DEF TypeInv, TypeOK, Process, Resting, Asking
<1>1. CASE UNCHANGED vars
  BY <1>1, CallFrame DEF vars
<1>2. ASSUME NEW c \in Caller, Route(c) \/ LookUp(c) PROVE CallInv'
  <2>1. \A q \in Process : q # c => caller'[q] = caller[q]
    BY <1>0, <1>2 DEF Route, LookUp, Goto
  <2>2. caller[c].pc \notin Asking /\ caller'[c].pc \notin Asking
        /\ caller'[c].no = caller[c].no
    BY <1>0, <1>2 DEF Route, LookUp, Goto, Goroutine, Resting, Asking
  <2>3. UNCHANGED <<reader, hold, box, nextID, pending, asked>>
    BY <1>2 DEF Route, LookUp
  <2> QED BY <2>1, <2>2, <2>3, CallFrame
<1>3. ASSUME NEW p \in Process, Register(p), ~active[caller[p].server] PROVE CallInv'
  <2>1. /\ caller[p].pc = "register" /\ caller' = [caller EXCEPT ![p].pc = "failed"]
        /\ UNCHANGED <<reader, hold, box, nextID, pending, asked>>
    BY <1>3 DEF Register, Goto
  <2>2. /\ \A q \in Process : q # p => caller'[q] = caller[q]
        /\ caller'[p].pc = "failed" /\ caller'[p].no = caller[p].no
    BY <1>0, <2>1 DEF Goroutine
  <2> QED BY <1>0, <2>1, <2>2, CallFrame DEF Resting
<1>4. ASSUME NEW p \in Process, CallStep(p) PROVE CallInv'
  BY <1>3, <1>4, CallRegister, CallWrite, CallEnds DEF CallStep
<1>5. ASSUME NEW s \in Server, EndOfFile(s) \/ LineTooLong(s) \/ ChildExits(s)
      PROVE  CallInv'
  <2>1. \A t \in Server : reader'[t] = "send" <=> reader[t] = "send"
    BY <1>5 DEF EndOfFile, LineTooLong, ChildExits, TypeInv, TypeOK
  <2>2. UNCHANGED <<caller, hold, box, nextID, pending, asked>>
    BY <1>5 DEF EndOfFile, LineTooLong, ChildExits
  <2> QED BY <2>1, <2>2, CallFrame
<1>6. CASE BootStep
  <2>1. UNCHANGED <<hold, box, nextID, pending, asked>>
    BY <1>6 DEF BootStep, StartGateway, Initialized, Integrated, HandshakeFails, StartDone,
                StopGateway, Reaped, StopDone, Launch, StopNext
  <2>2. \A t \in Server : reader'[t] = "send" <=> reader[t] = "send"
    <3>1. CASE UNCHANGED reader
      BY <3>1
    <3>2. ASSUME NEW s \in Server, Launch(s) PROVE <2>2
      BY <3>2 DEF Launch, LifeInv, TypeInv, TypeOK
    <3> QED BY <1>6, <3>1, <3>2
         DEF BootStep, StartGateway, Initialized, Integrated, HandshakeFails, StartDone,
             StopGateway, Reaped, StopDone, StopNext
  <2>3. UNCHANGED caller
          \/ /\ caller[Boot].pc \in Resting /\ caller'[Boot].pc = "register"
             /\ caller'[Boot].no = caller[Boot].no
             /\ \A q \in Process : q # Boot => caller'[q] = caller[q]
    <3>1. CASE Initialized
      BY <1>0, <3>1 DEF Initialized, Goto, Goroutine, Resting
    <3>2. ASSUME NEW s \in Server, Launch(s) PROVE <2>3
      <4>1. caller[Boot].pc \in Resting
        BY <3>2 DEF Launch, LifeInv
      <4> QED BY <1>0, <3>2, <4>1 DEF Launch, Goroutine
    <3> QED BY <1>6, <3>1, <3>2
         DEF BootStep, StartGateway, Integrated, HandshakeFails, StartDone,
             StopGateway, Reaped, StopDone, StopNext
  <2> QED BY <1>0, <2>1, <2>2, <2>3, CallFrame
<1> QED BY <1>1, <1>2, <1>4, <1>5, <1>6, CallReadLine, CallSend DEF Next

LEMMA AllInit == Init => TypeInv /\ LifeInv /\ CallInv
BY TypeInit, LifeInit, CallInit

LEMMA AllNext ==
    TypeInv /\ LifeInv /\ CallInv /\ [Next]_vars => (TypeInv /\ LifeInv /\ CallInv)'
BY TypeNext, LifeNext, CallNext

(* No way out of a call leaves its entry in the table of pending calls.    *)
THEOREM NoLeak == Spec => []PendingIsAwaited
<1>1. CallInv => PendingIsAwaited
  BY DEF CallInv
<1> QED BY <1>1, AllInit, AllNext, PTL DEF Spec

(* A goroutine that waits can always still be answered.                    *)
THEOREM Reachable == Spec => []WaitingIsReachable
<1>1. CallInv => WaitingIsReachable
  BY DEF CallInv
<1> QED BY <1>1, AllInit, AllNext, PTL DEF Spec

(* No call receives the answer to another, in whatever order, however      *)
(* often and however late the children answer.                             *)
THEOREM OwnAnswers == Spec => []OwnAnswer
<1>1. CallInv => OwnAnswer
  BY DEF CallInv
<1> QED BY <1>1, AllInit, AllNext, PTL DEF Spec

(* A reader that has taken an answer never blocks on handing it over.      *)
THEOREM FreeReaders == Spec => []ReaderNeverBlocked
<1>1. CallInv => ReaderNeverBlocked
  BY DEF CallInv, HeldUnsent, ReaderNeverBlocked, HasRoom
<1> QED BY <1>1, AllInit, AllNext, PTL DEF Spec
=============================================================================
