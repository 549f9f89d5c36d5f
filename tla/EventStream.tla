----------------------------- MODULE EventStream -----------------------------
(***************************************************************************)
(* The events of one team (EventBroker and handleTeamEvents of             *)
(* internal/api/sse.go).  An event is added to the history under the       *)
(* broker's lock, which also drops what is older than five minutes, and    *)
(* then, with the lock taken anew, offered to the channel of every stream: *)
(* a full channel misses it.  A stream first replays the history after the *)
(* moment its client names, then subscribes.  Events are the numbers in    *)
(* the order of the history; a stream that ends takes what it has not      *)
(* written with it.                                                        *)
(***************************************************************************)
EXTENDS Sequences, Naturals, FiniteSets

CONSTANTS Publisher,    \* goroutines that publish
          Stream,       \* GET /api/teams/{team}/events
          Capacity,     \* of a stream's channel: 32
          MaxEvents     \* bound

VARIABLES last,         \* events published so far
          oldest,       \* the history is oldest .. last
          sending,      \* the event each publisher has yet to offer, or 0
          stream,       \* what each stream is at
          pruned        \* history: for each stream, events gone before its replay

vars == <<last, oldest, sending, stream, pruned>>

\* since: last_seen_ms, as the last event before it; base, gap and overflow
\* are history: the last event when the replay was read, the events offered to
\* all between the replay and the subscription, and those a full channel missed.
Off == [at |-> "off", since |-> 0, base |-> 0, chan |-> <<>>, written |-> {},
        gap |-> {}, overflow |-> {}]

Init ==
  /\ last = 0 /\ oldest = 1
  /\ sending = [p \in Publisher |-> 0]
  /\ stream = [s \in Stream |-> Off]
  /\ pruned = [s \in Stream |-> {}]

BeingSent == {sending[p] : p \in Publisher} \ {0}
Queued(s) == {stream[s].chan[i] : i \in 1 .. Len(stream[s].chan)}
-----------------------------------------------------------------------------
\* Publish, first half; any number of old events is dropped, never this one.
Publish(p) ==
  /\ sending[p] = 0 /\ last < MaxEvents
  /\ last' = last + 1
  /\ oldest' \in oldest .. last'
  /\ sending' = [sending EXCEPT ![p] = last']
  /\ UNCHANGED <<stream, pruned>>

\* Mutant: the loop over the listeners ends at a full channel.
OfferUntilFull(s, e) ==
  IF \E q \in Stream : stream[q].at = "live" /\ Len(stream[q].chan) = Capacity
  THEN stream[s]
  ELSE [stream[s] EXCEPT !.chan = Append(@, e)]

Offer(s, e) ==
  IF Len(stream[s].chan) < Capacity
  THEN [stream[s] EXCEPT !.chan = Append(@, e)]
  ELSE [stream[s] EXCEPT !.overflow = @ \cup {e}]

\* Publish, second half.
Deliver(p) ==
  /\ sending[p] # 0
  /\ stream' = [s \in Stream |-> IF stream[s].at = "live" THEN Offer(s, sending[p])
                                 ELSE stream[s]]
  /\ sending' = [sending EXCEPT ![p] = 0]
  /\ UNCHANGED <<last, oldest, pruned>>

\* A client without a last_seen_ms gets no replay.
Connect(s) ==
  /\ stream[s].at = "off"
  /\ \/ \E since \in 0 .. last :
            stream' = [stream EXCEPT ![s] = [Off EXCEPT !.at = "replay", !.since = since]]
     \/ stream' = [stream EXCEPT ![s] = [Off EXCEPT !.at = "subscribe", !.since = last,
                                                      !.base = last]]
  /\ UNCHANGED <<last, oldest, sending, pruned>>

\* GetHistory, and writing what it gives.
Replay(s) ==
  LET since == stream[s].since IN
  /\ stream[s].at = "replay"
  /\ stream' = [stream EXCEPT ![s].at = "subscribe", ![s].base = last,
                              ![s].written = {e \in oldest .. last : e > since}]
  /\ pruned' = [pruned EXCEPT ![s] = {e \in 1 .. oldest - 1 : e > since}]
  /\ UNCHANGED <<last, oldest, sending>>

Subscribe(s) ==
  /\ stream[s].at = "subscribe"
  /\ stream' = [stream EXCEPT ![s].at = "live",
                  ![s].gap = {e \in 1 .. last : e > stream[s].base} \ BeingSent]
  /\ UNCHANGED <<last, oldest, sending, pruned>>

WriteEvent(s) ==
  /\ stream[s].at = "live" /\ stream[s].chan # <<>>
  /\ stream' = [stream EXCEPT ![s].written = @ \cup {Head(stream[s].chan)},
                              ![s].chan = Tail(@)]
  /\ UNCHANGED <<last, oldest, sending, pruned>>

\* The request's context is done, also before the subscription.
Disconnect(s) ==
  /\ stream[s].at # "off"
  /\ stream' = [stream EXCEPT ![s] = Off]
  /\ pruned' = [pruned EXCEPT ![s] = {}]
  /\ UNCHANGED <<last, oldest, sending>>

Next ==
  \/ \E p \in Publisher : Publish(p) \/ Deliver(p)
  \/ \E s \in Stream : Connect(s) \/ Replay(s) \/ Subscribe(s) \/ WriteEvent(s)
                       \/ Disconnect(s)

Spec == Init /\ [][Next]_vars
-----------------------------------------------------------------------------
TypeOK ==
  /\ last \in 0 .. MaxEvents /\ oldest \in 1 .. last + 1
  /\ sending \in [Publisher -> 0 .. last]
  /\ \A s \in Stream :
       /\ stream[s].at \in {"off", "replay", "subscribe", "live"}
       /\ Queued(s) \subseteq 1 .. last /\ Len(stream[s].chan) <= Capacity
       /\ pruned[s] \subseteq 1 .. oldest - 1

\* "Replay missed events during brief disconnection": a live stream has
\* written, or will be offered or has queued, every event after the moment its
\* client named, but for those dropped from the history before the replay,
\* those that came and went between the replay and the subscription, and those
\* its own full channel missed.  The replay alone gives no such promise.
OnlyGapLoses == \A s \in Stream : stream[s].at = "live" =>
  {e \in 1 .. last : e > stream[s].since} \subseteq
    stream[s].written \cup Queued(s) \cup BeingSent \cup pruned[s]
      \cup stream[s].gap \cup stream[s].overflow
=============================================================================
