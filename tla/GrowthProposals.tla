-------------------------- MODULE GrowthProposals --------------------------
(***************************************************************************)
(* Proposals to change a skill, and what becomes of them                   *)
(* (internal/services/growth_proposal_service.go).  A proposal is a JSON   *)
(* file of its own in the tree, with its status; applying it changes       *)
(* another file, and nothing joins the two.  A request reads the proposal, *)
(* checks its status, and writes the file of the target and then that of   *)
(* the proposal, whole and without the versions it has read.               *)
(* A proposal of Edits adds a section to the one skill they share; one of  *)
(* Drafts writes a candidate skill of its own, whatever is there.          *)
(***************************************************************************)
EXTENDS SequencesExt

CONSTANTS Edits, Drafts,  \* ids of proposals
          Handler         \* goroutines that serve requests, the learning run too

VARIABLES status,         \* in the file of each proposal
          sections,       \* the sections that were added to the skill
          candidate,      \* the file of each candidate skill
          req,            \* what each handler is at
          removed,        \* history: what the user took out himself
          overwritten     \* history: the skill was written over a later text

vars == <<status, sections, candidate, req, removed, overwritten>>

Proposal == Edits \cup Drafts
Status == {"none", "pending", "accepted", "dismissed", "applied"}
NoReq == [at |-> "idle"]

Init ==
  /\ status = [p \in Proposal |-> "none"]
  /\ sections = <<>>
  /\ candidate = [p \in Drafts |-> "none"]
  /\ req = [h \in Handler |-> NoReq]
  /\ removed = {} /\ overwritten = FALSE
-----------------------------------------------------------------------------
Goto(h, r) == req' = [req EXCEPT ![h] = r]

\* writeProposal, for CreateNewSkillProposal and the learning run: unless
\* the proposal is found, it is written.  Its note is left out.
Propose(h, p) ==
  /\ req[h].at = "idle" /\ status[p] = "none"
  /\ Goto(h, [at |-> "mark", p |-> p, as |-> "pending"])
  /\ UNCHANGED <<status, sections, candidate, removed, overwritten>>

\* updateStatus, for Accept and Dismiss.
UpdateStatus(h, p, s) ==
  /\ req[h].at = "idle" /\ status[p] \notin {"none", "applied"}
  /\ Goto(h, [at |-> "mark", p |-> p, as |-> s])
  /\ UNCHANGED <<status, sections, candidate, removed, overwritten>>

Apply(h, p) ==
  /\ req[h].at = "idle" /\ status[p] \in {"pending", "accepted"}
  /\ Goto(h, [at |-> IF p \in Edits THEN "read" ELSE "draft", p |-> p])
  /\ UNCHANGED <<status, sections, candidate, removed, overwritten>>

ReadTarget(h) ==
  /\ req[h].at = "read"
  /\ Goto(h, [at |-> "write", p |-> req[h].p, text |-> sections])
  /\ UNCHANGED <<status, sections, candidate, removed, overwritten>>

\* Mutant: the heading is not looked for.
AddSectionAlways(text, p) == Append(text, p)

\* applyGrowthProposalChange: nothing to do if the heading is there.
AddSection(text, p) == IF Contains(text, p) THEN text ELSE Append(text, p)

WriteTarget(h) ==
  LET r == req[h] IN
  /\ r.at = "write"
  /\ sections' = AddSection(r.text, r.p)
  /\ overwritten' = (overwritten \/ r.text # sections)
  /\ removed' = removed \ {r.p}
  /\ Goto(h, [at |-> "mark", p |-> r.p, as |-> "applied"])
  /\ UNCHANGED <<status, candidate>>

WriteDraft(h) ==
  LET p == req[h].p IN
  /\ req[h].at = "draft"
  /\ candidate' = [candidate EXCEPT ![p] = "suggested"]
  /\ removed' = removed \ {p}
  /\ Goto(h, [at |-> "mark", p |-> p, as |-> "applied"])
  /\ UNCHANGED <<status, sections, overwritten>>

\* writeProposalAtPath: the file as it was read, with the new status.
Mark(h) ==
  LET r == req[h] IN
  /\ r.at = "mark"
  /\ status' = [status EXCEPT ![r.p] = r.as]
  /\ Goto(h, NoReq)
  /\ UNCHANGED <<sections, candidate, removed, overwritten>>

\* A read or write fails, or the server ends.
Fail(h) ==
  /\ req[h].at # "idle"
  /\ Goto(h, NoReq)
  /\ UNCHANGED <<status, sections, candidate, removed, overwritten>>

\* The user saves the skill without a section, or edits or deletes a candidate.
UserRemoves(p) ==
  /\ \E i \in DOMAIN sections : sections[i] = p /\ sections' = RemoveAt(sections, i)
  /\ removed' = removed \cup {p}
  /\ UNCHANGED <<status, candidate, req, overwritten>>

UserEditsDraft(p, new) ==
  /\ candidate[p] # "none" /\ candidate[p] # new
  /\ candidate' = [candidate EXCEPT ![p] = new]
  /\ removed' = IF new = "none" THEN removed \cup {p} ELSE removed
  /\ UNCHANGED <<status, sections, req, overwritten>>

Next ==
  \/ \E h \in Handler :
       \/ \E p \in Proposal : \/ Propose(h, p) \/ Apply(h, p)
                              \/ \E s \in {"accepted", "dismissed"} : UpdateStatus(h, p, s)
       \/ ReadTarget(h) \/ WriteTarget(h) \/ WriteDraft(h) \/ Mark(h) \/ Fail(h)
  \/ \E p \in Edits : UserRemoves(p)
  \/ \E p \in Drafts : UserEditsDraft(p, "none") \/ UserEditsDraft(p, "edited")

Spec == Init /\ [][Next]_vars
-----------------------------------------------------------------------------
TypeOK ==
  /\ status \in [Proposal -> Status]
  /\ sections \in Seq(Edits)
  /\ candidate \in [Drafts -> {"none", "suggested", "edited"}]
  /\ \A h \in Handler : req[h].at \in {"idle", "read", "write", "draft", "mark"}
  /\ removed \subseteq Proposal /\ overwritten \in BOOLEAN

Present(p) == IF p \in Edits THEN Contains(sections, p) ELSE candidate[p] # "none"

\* However requests overlap, fail half-way and are repeated, a section is
\* in the skill once; and a proposal that says it was applied is in its
\* target or was taken out by the user - unless a request wrote the skill
\* back over a text it had not read, by which any section may be lost.
AppliedOnce ==
  /\ IsInjective(sections)
  /\ \A p \in Proposal :
       status[p] = "applied" => \/ Present(p) \/ p \in removed
                                \/ p \in Edits /\ overwritten
=============================================================================
