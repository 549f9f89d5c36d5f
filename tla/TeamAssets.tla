----------------------------- MODULE TeamAssets -----------------------------
(***************************************************************************)
(* What a team's members see of its skills and agents                      *)
(* (internal/api/team_skill_assets.go).  The state of publication of all   *)
(* skills is one JSON document in the team's tree, an agent is a document  *)
(* of its own.  A request that changes one reads the document, changes its *)
(* item in the copy and writes the whole copy back, without the version it *)
(* has read; then it does the same to the history of reviews, which keeps  *)
(* the newest events.  The role of the caller is looked up once, when the  *)
(* request arrives.  A skill that the document does not name counts as     *)
(* published.  The documents are files of the team's tree: whoever may     *)
(* write can also replace or delete them there.  A document that cannot be *)
(* parsed shows nothing and fails its requests: hidden items, and Fail.    *)
(***************************************************************************)
EXTENDS Sequences, Naturals, FiniteSetsExt

CONSTANTS Skill, Agent,   \* paths of skills, slugs of agents
          Top,            \* of a skill: the one whose path is its first component
          Handler,        \* goroutines that serve these requests
          MaxEvents,      \* length of the history: 300
          MaxRequests     \* bound

VARIABLES doc,            \* what the documents say of each item
          history,        \* items of the review events, the newest first
          call,           \* what each handler is at
          requests,       \* requests still to come
          released,       \* history: items last made visible, by a manager
          overwritten,    \* history: a copy was written over a later document
          direct,         \* history: items last changed in the tree itself
          rewritten        \* history: so was the history of reviews

vars == <<doc, history, call, requests, released, overwritten, direct, rewritten>>

Item == Skill \cup Agent
\* Published to the team; drafts, archived and private items; not recorded.
Look == {"visible", "hidden", "none"}
NoCall == [at |-> "idle"]
Call == [at : {"read"}, op : {"save", "request", "resolve"}, item : Item,
         look : Look, manager : BOOLEAN]

Init ==
  /\ doc = [i \in Item |-> "none"]
  /\ history = <<>>
  /\ call = [h \in Handler |-> NoCall]
  /\ requests = MaxRequests
  /\ released = Skill
  /\ overwritten = FALSE
  /\ direct = {} /\ rewritten = FALSE

\* filterTeamSkillSummariesForVisibility, teamAgentVisible: what the lists show
\* a member who manages nothing.
Visible(i) == doc[i] = "visible" \/ (i \in Skill /\ doc[i] = "none")

\* teamSkillTreePathVisible: what he can read in the tree.  The first component
\* below /skills decides; every path outside of it passes, the agents' too.
Readable(i) == i \in Skill => Visible(Top[i])
-----------------------------------------------------------------------------
Goto(h, c) == /\ call' = [call EXCEPT ![h] = c]
              /\ UNCHANGED requests

Arrive(h, c) ==
  /\ call[h].at = "idle" /\ requests > 0
  /\ call' = [call EXCEPT ![h] = c]
  /\ requests' = requests - 1
  /\ UNCHANGED <<doc, history, released, overwritten, direct, rewritten>>

\* teamSkillPublicationNeedsAdmin.  Archiving needs it too, but hides the
\* item as a draft does.
NeedsAdmin(c) == c.look = "visible"

SaveState(h) == \E c \in Call :
  /\ c.op = "save" /\ c.look # "none"
  /\ NeedsAdmin(c) => c.manager
  /\ Arrive(h, c)

\* Approved, or changes requested.
Resolve(h) == \E c \in Call :
  /\ c.op = "resolve" /\ c.look # "none" /\ c.manager
  /\ Arrive(h, c)

\* A skill becomes a draft for it, an agent stays what it is in the copy.
RequestReview(h) == \E c \in Call :
  /\ c.op = "request" /\ c.look = IF c.item \in Skill THEN "hidden" ELSE "none"
  /\ Arrive(h, c)

\* The agent of a review must exist.
Read(h) ==
  LET c == call[h] IN
  /\ c.at = "read"
  /\ Goto(h, IF c.item \in Agent /\ c.op # "save" /\ doc[c.item] = "none" THEN NoCall
             ELSE [at |-> "write", item |-> c.item, look |-> c.look,
                   manager |-> c.manager, copy |-> doc])
  /\ UNCHANGED <<doc, history, released, overwritten, direct, rewritten>>

\* Mutant: only the new record is kept.
UpsertAlone(c, d) == [i \in Item |-> IF i = c.item THEN c.look ELSE "none"]

\* upsertTeamSkillPublication; "none" in the request changes nothing here.
Upsert(c, d) == IF c.look = "none" THEN d ELSE [d EXCEPT ![c.item] = c.look]

\* The document that is written: that of all skills or that of one agent.
Written(c) == IF c.item \in Skill THEN Skill ELSE {c.item}

Write(h) ==
  LET c    == call[h]
      new  == Upsert(c, c.copy)
      look == new[c.item]
  IN
  /\ c.at = "write"
  /\ doc' = [i \in Item |-> IF i \in Written(c) THEN new[i] ELSE doc[i]]
  /\ overwritten' = (overwritten \/ \E i \in Written(c) : new[i] # Upsert(c, doc)[i])
  /\ released' = IF c.look = "none" THEN released
                 ELSE IF look = "visible" /\ c.manager THEN released \cup {c.item}
                 ELSE released \ {c.item}
  /\ direct' = IF c.look = "none" THEN direct ELSE direct \ {c.item}
  /\ Goto(h, [at |-> "history", item |-> c.item])
  /\ UNCHANGED <<history, rewritten>>

\* Mutant: nothing is cut off.
NewestAll(events) == events

Newest(events) == SubSeq(events, 1, Min({Len(events), MaxEvents}))

\* appendTeamSkillReviewEvent: read, add, cut off, write back.
ReadHistory(h) ==
  /\ call[h].at = "history"
  /\ Goto(h, [at |-> "append", item |-> call[h].item, copy |-> history])
  /\ UNCHANGED <<doc, history, released, overwritten, direct, rewritten>>

AppendEvent(h) ==
  /\ call[h].at = "append"
  /\ history' = Newest(<<call[h].item>> \o call[h].copy)
  /\ rewritten' = FALSE
  /\ Goto(h, NoCall)
  /\ UNCHANGED <<doc, released, overwritten, direct>>

\* A read or write fails, or the server ends: what is written stays.
Fail(h) ==
  /\ call[h].at # "idle"
  /\ Goto(h, NoCall)
  /\ UNCHANGED <<doc, history, released, overwritten, direct, rewritten>>

-----------------------------------------------------------------------------
\* handleTeamTreeWrite, handleTeamTreeDelete: any role that can write puts its
\* own content, or nothing, in the place of a document.
TreeWrite ==
  /\ requests > 0 /\ requests' = requests - 1
  /\ \E written \in {Skill} \cup {{a} : a \in Agent} : \E look \in [written -> Look] :
       /\ doc' = [i \in Item |-> IF i \in written THEN look[i] ELSE doc[i]]
       /\ direct' = direct \cup {i \in written : look[i] # doc[i]}
  /\ UNCHANGED <<history, call, released, overwritten, rewritten>>

\* Of the longer histories one stands for all.
TreeWriteHistory ==
  /\ requests > 0 /\ requests' = requests - 1
  /\ \E i \in Item : history' \in {<<>>, [k \in 1 .. MaxEvents + 1 |-> i]}
  /\ rewritten' = TRUE
  /\ UNCHANGED <<doc, call, released, overwritten, direct>>

Next ==
  \/ TreeWrite \/ TreeWriteHistory
  \/ \E h \in Handler :
       \/ SaveState(h) \/ Resolve(h) \/ RequestReview(h)
       \/ Read(h) \/ Write(h) \/ ReadHistory(h) \/ AppendEvent(h) \/ Fail(h)

Spec == Init /\ [][Next]_vars
-----------------------------------------------------------------------------
TypeOK ==
  /\ doc \in [Item -> Look] /\ released \subseteq Item /\ direct \subseteq Item
  /\ history \in Seq(Item) /\ (Len(history) <= MaxEvents \/ rewritten)
  /\ \A h \in Handler : call[h].at \in {"idle", "read", "write", "history", "append"}
  /\ requests \in 0 .. MaxRequests /\ {overwritten, rewritten} \subseteq BOOLEAN

\* A member finds in the lists only what nobody ever recorded a state of, or a
\* manager has published since it was last taken back, and reads in the tree
\* only skills below such a one; whatever is done to other items, and whatever
\* fails.  Two things void that: a request that writes its copy over a later
\* document can bring back what was taken back in between, and what is written
\* to a document in the tree itself is asked of no manager.
HiddenUntilReleased ==
  LET allowed == released \cup direct IN
  overwritten \/ \A i \in Item :
    /\ Visible(i) => i \in allowed
    /\ i \in Skill /\ Readable(i) => Top[i] \in allowed
=============================================================================
