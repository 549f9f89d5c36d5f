------------------------------- MODULE Teams -------------------------------
(***************************************************************************)
(* The members of one team (internal/services/team_service.go and the      *)
(* handlers of internal/api/teams.go).  A request is let in by the role    *)
(* its caller has when it arrives.  A request that would take a role of    *)
(* owner away first reads the member's row, then counts the owners, then   *)
(* writes: three statements, each in a transaction of its own, between     *)
(* which the other handlers go on.  Adding a member is an upsert that does *)
(* not look at the row it replaces.                                        *)
(***************************************************************************)
EXTENDS FiniteSets, Naturals

CONSTANTS User,       \* accounts
          Founder,    \* one of them: it created the team
          Handler     \* goroutines that serve /teams/{id}/members

VARIABLES role,       \* rows of team_members; "none" is no row
          call,       \* what each handler is at
          overlapped, \* history: two guarded requests were under way at once
          replaced    \* history: an upsert replaced the row of an owner

vars == <<role, call, overlapped, replaced>>

Role == {"owner", "admin", "member"}      \* a viewer is as good as a member
Managers == {"owner", "admin"}
NoCall == [at |-> "idle", user |-> Founder, to |-> "none"]

Owners == {u \in User : role[u] = "owner"}

TypeOK ==
  /\ role \in [User -> Role \cup {"none"}]
  /\ call \in [Handler -> [at : {"idle", "add", "promote", "role", "count", "write"},
                           user : User, to : Role \cup {"none"}]]
  /\ overlapped \in BOOLEAN /\ replaced \in BOOLEAN
-----------------------------------------------------------------------------
\* Create inserts the team and its owner in one transaction.
Init ==
  /\ role = [u \in User |-> IF u = Founder THEN "owner" ELSE "none"]
  /\ call = [h \in Handler |-> NoCall]
  /\ overlapped = FALSE /\ replaced = FALSE

Guarded(h) == call[h].at \in {"role", "count", "write"}

\* currentTeam: some user with a managing role asks for u to have the role
\* to; "none" is a request to remove u.
Request(h, u, at, to) ==
  /\ call[h].at = "idle"
  /\ \E caller \in User : role[caller] \in Managers
  /\ call' = [call EXCEPT ![h] = [at |-> at, user |-> u, to |-> to]]
  /\ overlapped' = (overlapped \/ (at = "role" /\ \E g \in Handler \ {h} : Guarded(g)))
  /\ UNCHANGED <<role, replaced>>

AddMember(h, u) == \E to \in Role \ {"owner"} : Request(h, u, "add", to)
UpdateMemberRole(h, u) == \/ Request(h, u, "promote", "owner")
                          \/ \E to \in Role \ {"owner"} : Request(h, u, "role", to)
RemoveMember(h, u) == Request(h, u, "role", "none")

Goto(h, at) == /\ call' = [call EXCEPT ![h].at = at]
               /\ UNCHANGED <<role, overlapped, replaced>>
Refuse(h) == /\ call' = [call EXCEPT ![h] = NoCall]
             /\ UNCHANGED <<role, overlapped, replaced>>

\* ensureOwnerWouldRemain, first statement: only an owner's row is guarded.
ReadRole(h) ==
  /\ call[h].at = "role"
  /\ Goto(h, IF role[call[h].user] = "owner" THEN "count" ELSE "write")

\* Mutant: off by one.
EnoughOwnersAny == Cardinality(Owners) > 0

EnoughOwners == Cardinality(Owners) > 1

CountOwners(h) ==
  /\ call[h].at = "count"
  /\ IF EnoughOwners THEN Goto(h, "write") ELSE Refuse(h)

\* The UPDATE or DELETE; without a row it changes nothing.
Write(h) ==
  LET u == call[h].user IN
  /\ call[h].at \in {"promote", "write"}
  /\ role' = IF role[u] = "none" THEN role ELSE [role EXCEPT ![u] = call[h].to]
  /\ call' = [call EXCEPT ![h] = NoCall]
  /\ UNCHANGED <<overlapped, replaced>>

\* INSERT ... ON CONFLICT DO UPDATE SET role.
Upsert(h) ==
  LET u == call[h].user IN
  /\ call[h].at = "add"
  /\ role' = [role EXCEPT ![u] = call[h].to]
  /\ replaced' = (replaced \/ role[u] = "owner")
  /\ call' = [call EXCEPT ![h] = NoCall]
  /\ UNCHANGED overlapped

Next == \E h \in Handler :
  \/ ReadRole(h) \/ CountOwners(h) \/ Write(h) \/ Upsert(h)
  \/ \E u \in User : AddMember(h, u) \/ UpdateMemberRole(h, u) \/ RemoveMember(h, u)

Spec == Init /\ [][Next]_vars
-----------------------------------------------------------------------------
\* "Team must keep at least one owner" (ensureOwnerWouldRemain).  As the count
\* and the write are apart, and an upsert counts nothing, this holds only as
\* long as no two requests that take roles away overlap and no owner is added
\* as a member; a request to make somebody an owner may overlap with anything.
OwnerRemains == overlapped \/ replaced \/ Owners # {}
=============================================================================
