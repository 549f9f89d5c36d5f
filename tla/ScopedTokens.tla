---------------------------- MODULE ScopedTokens ----------------------------
(***************************************************************************)
(* One scoped token and the requests that use it at once                   *)
(* (internal/services/token_service.go, called by handleScopedTokenAuth of *)
(* internal/api/router.go and by the MCP endpoint).  A request reads the   *)
(* token's row and then the clock, and decides on what it read whether the *)
(* hour's uses are spent or a new hour begins; what it then writes is one  *)
(* UPDATE, which may come after those of requests that read the clock      *)
(* later, and puts reset_at back to the older time.                        *)
(***************************************************************************)
EXTENDS Naturals, FiniteSets

CONSTANTS Request,      \* requests under way at once
          Limit,        \* rate_limit
          Hour,         \* in units of the clock
          MaxTime       \* bound

VARIABLES clock,
          token,        \* the row, or {} before it is created
          seen,         \* the row as each request has read it, or {}
          moment,       \* the time each request has read since, or {}
          start,        \* history: when the hour that is counted began
          uses,         \* history: requests let in since then
          late          \* history: UPDATEs since then with an older time

vars == <<clock, token, seen, moment, start, uses, late>>

Row == [request_count : Nat, reset_at : Nat, expires_at : Nat, revoked : BOOLEAN]

Init ==
  /\ clock = 0
  /\ token = {}
  /\ seen = [r \in Request |-> {}] /\ moment = [r \in Request |-> {}]
  /\ start = 0 /\ uses = 0 /\ late = 0
-----------------------------------------------------------------------------
CreateToken(life) ==
  /\ token = {}
  /\ token' = {[request_count |-> 0, reset_at |-> clock, expires_at |-> clock + life,
                revoked |-> FALSE]}
  /\ start' = clock
  /\ UNCHANGED <<clock, seen, moment, uses, late>>

ValidateToken(r) ==
  /\ seen[r] = {}
  /\ \E t \in token : ~t.revoked /\ clock <= t.expires_at
  /\ seen' = [seen EXCEPT ![r] = token]
  /\ UNCHANGED <<clock, token, moment, start, uses, late>>

\* CheckRateLimit, its first line.
TimeNow(r) ==
  /\ seen[r] # {} /\ moment[r] = {}
  /\ moment' = [moment EXCEPT ![r] = {clock}]
  /\ UNCHANGED <<clock, token, seen, start, uses, late>>

HourIsOver(t, time) == time > t.reset_at + Hour

\* Mutant: the last use is let in once more.
SpentAfter(t) == t.request_count > Limit

Spent(t) == t.request_count >= Limit

Write(count, reset) ==
  token' = {[t EXCEPT !.request_count = count, !.reset_at = reset] : t \in token}

Done(r) == seen' = [seen EXCEPT ![r] = {}] /\ moment' = [moment EXCEPT ![r] = {}]

\* A new hour is counted from the time that is written, if that is after the
\* end of the one counted so far.
LetIn(time) ==
  IF time > start + Hour THEN start' = time /\ uses' = 1 /\ late' = 0
  ELSE /\ uses' = uses + 1
       /\ late' = IF time < start THEN late + 1 ELSE late
       /\ UNCHANGED start

\* CheckRateLimit, the rest: the UPDATE sets the count to one and the time to
\* what was read, or adds one to what the count is by then.  The token may
\* have been revoked since it was read.
CheckRateLimit(r) == \E t \in seen[r], time \in moment[r], row \in token :
  /\ Done(r)
  /\ \/ HourIsOver(t, time) /\ Write(1, time) /\ LetIn(time)
     \/ ~HourIsOver(t, time) /\ ~Spent(t)
          /\ Write(row.request_count + 1, row.reset_at) /\ LetIn(start)
     \/ ~HourIsOver(t, time) /\ Spent(t) /\ UNCHANGED <<token, start, uses, late>>
  /\ UNCHANGED clock

\* The request is cancelled, or the UPDATE fails.
Fail(r) ==
  /\ seen[r] # {}
  /\ Done(r)
  /\ UNCHANGED <<clock, token, start, uses, late>>

Revoke == token' = {[t EXCEPT !.revoked = TRUE] : t \in token}

RevokeToken ==
  /\ \E t \in token : ~t.revoked
  /\ Revoke
  /\ UNCHANGED <<clock, seen, moment, start, uses, late>>

DeactivateExpiredTokens ==
  /\ \E t \in token : ~t.revoked /\ t.expires_at < clock
  /\ Revoke
  /\ UNCHANGED <<clock, seen, moment, start, uses, late>>

Tick ==
  /\ clock < MaxTime
  /\ clock' = clock + 1
  /\ UNCHANGED <<token, seen, moment, start, uses, late>>

Next ==
  \/ \E life \in 0 .. MaxTime : CreateToken(life)
  \/ \E r \in Request : ValidateToken(r) \/ TimeNow(r) \/ CheckRateLimit(r) \/ Fail(r)
  \/ RevokeToken \/ DeactivateExpiredTokens \/ Tick

Spec == Init /\ [][Next]_vars
-----------------------------------------------------------------------------
TypeOK ==
  /\ clock \in 0 .. MaxTime
  /\ token \subseteq Row /\ Cardinality(token) <= 1
  /\ seen \in [Request -> SUBSET Row]
  /\ moment \in [Request -> SUBSET (0 .. MaxTime)]
  /\ start \in 0 .. MaxTime /\ uses \in Nat /\ late \in Nat

\* "rate limit exceeded (%d/%d per hour)": because a request decides on the
\* row it has read, n requests at once can begin the hour n times over, and
\* each time as many can slip in after the last use as have begun it; an
\* UPDATE that comes late can have it all begin anew, but less than n UPDATEs
\* can be late in an hour.  They never let in more than that.
HourlyUses ==
  LET n == Cardinality(Request) IN
  /\ late < n \/ uses = 0
  /\ uses <= (late + 1) * (n * Limit + (n * (n - 1)) \div 2)
=============================================================================
