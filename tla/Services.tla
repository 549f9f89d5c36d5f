------------------------------ MODULE Services ------------------------------
(***************************************************************************)
(* Components of the server that share nothing, side by side: the initial  *)
(* state chooses one of them, and only that one takes steps, so that the   *)
(* states are the sum of the components' states.  A variable or a constant *)
(* is named after its component where two of them have one of that name.   *)
(***************************************************************************)
EXTENDS Naturals, FiniteSets

CONSTANTS
  Handler,                                  \* goroutines that serve requests
  Target, Scheduler, SweepLimit, LastDay,             \* Backups
  User, Founder,                                      \* Teams
  Skill, Agent, Top, HistoryLength, MaxRequests,      \* TeamAssets
  LocalSkill, Nested, SkillFile, HubText, Sqlite, Applier, Cleaner,
  MaxEdits, MaxFaults,                                \* LocalSkills
  Publisher, Stream, Capacity, MaxPublished,          \* EventStream
  Syncer, Listener, Command, MaxPairs, MaxUpsets,     \* TokenRefresh
  TokenUser, HourlyLimit, Hour, MaxTime,              \* ScopedTokens
  Edits, Drafts,                                      \* GrowthProposals
  ContextText, MaxLines, DirectWhen,                  \* Projects
  Entry, Bytes,                                       \* FileBlobs
  Mover                                               \* Inbox

ASSUME FounderAssumption == Founder \in User
ASSUME TopAssumption == Top \in [Skill -> Skill]
ASSUME NestAssumption == \A k, p, q \in LocalSkill :
  <<k, p>> \in Nested /\ <<p, q>> \in Nested => <<k, q>> \in Nested
ASSUME BoundAssumption ==
  {MaxEdits, MaxFaults, MaxLines, HistoryLength, MaxRequests, Capacity, MaxPublished,
   MaxPairs, MaxUpsets, SweepLimit} \subseteq Nat
ASSUME ScheduleAssumption == IsFiniteSet(Target) /\ Target # {} /\ LastDay \in Nat \ {0}
ASSUME TokenAssumption ==
  IsFiniteSet(TokenUser) /\ HourlyLimit \in Nat \ {0} /\ {Hour, MaxTime} \subseteq Nat
ASSUME ContextAssumption == 0 \in ContextText

VARIABLES focus,
  clock, target, rows, store, run, queue, edit, broken, silent, upsets,
  uploads, reused, floor,                                   \* Backups
  role, call, overlapped, replaced,                         \* Teams
  doc, history, assetCall, requests, released, overwritten, direct,
  rewritten,                                                \* TeamAssets
  assigned, hub, listed, local, skillRun, mine, edits, faults,      \* LocalSkills
  last, oldest, sending, stream, pruned,                    \* EventStream
  live, sessions, issued, disk, proc, lock, command,
  sessionUpsets, lost,                                      \* TokenRefresh
  now, token, seen, moment, start, uses, late,              \* ScopedTokens
  status, sections, candidate, req, removed, textLost,      \* GrowthProposals
  row, events, log, context, dir, projectReq, appended, disturbed,
  erased,                                                   \* Projects
  enabled, blob, object, tx, undone,                        \* FileBlobs
  message, files, move, sent, cut, stayed                   \* Inbox

\* Only the schedule: no handler, no retention and no fault.
B == INSTANCE Backups WITH
  Sweeper <- Scheduler, Handler <- {}, Interval <- 1, Mode <- {"off", "auto"},
  Policy <- {[keep |-> 0, days |-> 0]}, Limit <- SweepLimit, PageSize <- 3,
  MaxTime <- LastDay, MaxRows <- 0, MaxUpsets <- 0
T == INSTANCE Teams
A == INSTANCE TeamAssets WITH MaxEvents <- HistoryLength, call <- assetCall
L == INSTANCE LocalSkills WITH
  Skill <- LocalSkill, Inside <- Nested, File <- SkillFile, Version <- HubText,
  run <- skillRun
E == INSTANCE EventStream WITH MaxEvents <- MaxPublished
R == INSTANCE TokenRefresh WITH upsets <- sessionUpsets, broken <- lost
K == INSTANCE ScopedTokens WITH
  Request <- TokenUser, Limit <- HourlyLimit, clock <- now
G == INSTANCE GrowthProposals WITH overwritten <- textLost
P == INSTANCE Projects WITH
  Context <- ContextText, MaxEvents <- MaxLines, req <- projectReq
F == INSTANCE FileBlobs WITH Content <- Bytes
I == INSTANCE Inbox WITH Handler <- Mover, row <- message, run <- move

bvars == <<clock, target, rows, store, run, queue, edit, broken, silent,
           upsets, uploads, reused, floor>>
tvars == <<role, call, overlapped, replaced>>
avars == <<doc, history, assetCall, requests, released, overwritten, direct, rewritten>>
lvars == <<assigned, hub, listed, local, skillRun, mine, edits, faults>>
evars == <<last, oldest, sending, stream, pruned>>
rvars == <<live, sessions, issued, disk, proc, lock, command, sessionUpsets, lost>>
kvars == <<now, token, seen, moment, start, uses, late>>
gvars == <<status, sections, candidate, req, removed, textLost>>
pvars == <<row, events, log, context, dir, projectReq, appended, disturbed, erased>>
fvars == <<enabled, blob, object, tx, undone>>
ivars == <<message, files, move, sent, cut, stayed>>
vars  == <<focus, bvars, tvars, avars, lvars, evars, rvars, kvars, gvars, pvars,
           fvars, ivars>>
-----------------------------------------------------------------------------
\* The components that are not looked at begin in one of their initial states.
Init ==
  /\ B!Init /\ T!Init /\ A!Init /\ L!Init /\ E!Init /\ R!Init /\ K!Init
  /\ G!Init /\ P!Init /\ F!Init /\ I!Init
  /\ focus \in {"backups", "teams", "assets", "skills", "events", "sessions", "tokens",
               "proposals", "projects", "blobs", "inbox"}
  /\ focus # "backups" => broken = {} /\ silent = {}
  /\ focus # "skills" => assigned = {}
  /\ focus # "blobs" => enabled

BackupsStep == /\ focus = "backups" /\ B!Next
               /\ UNCHANGED <<focus, tvars, avars, lvars, evars, rvars, kvars, gvars, pvars, fvars, ivars>>
TeamsStep   == /\ focus = "teams" /\ T!Next
               /\ UNCHANGED <<focus, bvars, avars, lvars, evars, rvars, kvars, gvars, pvars, fvars, ivars>>
AssetsStep  == /\ focus = "assets" /\ A!Next
               /\ UNCHANGED <<focus, bvars, tvars, lvars, evars, rvars, kvars, gvars, pvars, fvars, ivars>>
SkillsStep  == /\ focus = "skills" /\ L!Next
               /\ UNCHANGED <<focus, bvars, tvars, avars, evars, rvars, kvars, gvars, pvars, fvars, ivars>>
EventsStep  == /\ focus = "events" /\ E!Next
               /\ UNCHANGED <<focus, bvars, tvars, avars, lvars, rvars, kvars, gvars, pvars, fvars, ivars>>
SessionStep == /\ focus = "sessions" /\ R!Next
               /\ UNCHANGED <<focus, bvars, tvars, avars, lvars, evars, kvars, gvars, pvars, fvars, ivars>>
TokensStep  == /\ focus = "tokens" /\ K!Next
               /\ UNCHANGED <<focus, bvars, tvars, avars, lvars, evars, rvars, gvars, pvars, fvars, ivars>>
GrowthStep  == /\ focus = "proposals" /\ G!Next
               /\ UNCHANGED <<focus, bvars, tvars, avars, lvars, evars, rvars, kvars, pvars, fvars, ivars>>
ProjectStep == /\ focus = "projects" /\ P!Next
               /\ UNCHANGED <<focus, bvars, tvars, avars, lvars, evars, rvars, kvars, gvars, fvars, ivars>>
BlobsStep   == /\ focus = "blobs" /\ F!Next
               /\ UNCHANGED <<focus, bvars, tvars, avars, lvars, evars, rvars, kvars, gvars, pvars, ivars>>
InboxStep   == /\ focus = "inbox" /\ I!Next
               /\ UNCHANGED <<focus, bvars, tvars, avars, lvars, evars, rvars, kvars, gvars, pvars, fvars>>

Next == \/ BackupsStep \/ TeamsStep \/ AssetsStep \/ SkillsStep \/ EventsStep
        \/ SessionStep \/ TokensStep \/ GrowthStep \/ ProjectStep \/ BlobsStep \/ InboxStep

\* As in Backups and in LocalSkills.
Fairness ==
  /\ \A s \in Scheduler :
       /\ WF_bvars(focus = "backups" /\ B!RunStep(s))
       /\ WF_bvars(focus = "backups" /\ B!NextTarget(s))
       /\ WF_bvars(focus = "backups" /\ B!RunDueTargets(s))
  /\ \A h \in Applier :
       /\ WF_lvars(focus = "skills" /\ L!StartApply(h))
       /\ WF_lvars(focus = "skills" /\ L!ApplyStep(h))

Spec == Init /\ [][Next]_vars /\ Fairness

\* Every component keeps the types of its state.
TypeOK == B!TypeOK /\ T!TypeOK /\ A!TypeOK /\ L!TypeOK /\ E!TypeOK /\ R!TypeOK /\ K!TypeOK
          /\ G!TypeOK /\ P!TypeOK /\ F!TypeOK /\ I!TypeOK

\* What follows is stated, with the code it is about, in the component's module.
-----------------------------------------------------------------------------
\* A target that is due is backed up, or is not due any more.
DueIsServed == focus = "backups" => B!DueIsServed

\* A team has an owner, unless requests overlapped or an upsert replaced him.
OwnerRemains == T!OwnerRemains

\* What no manager has released is hidden from the members.
HiddenUntilReleased == A!HiddenUntilReleased

\* No apply and no cleanup changes a directory of the user's.
UserDirsKept == L!UserDirsKept


\* A stream loses no event but in the three ways it may.
OnlyGapLoses == E!OnlyGapLoses

\* A session is refreshed only when its token has expired.
RefreshOnlyWhenDue == R!RefreshOnlyWhenDue

\* An hour lets in no more uses of a token than its requests can count at once.
HourlyUses == K!HourlyUses

\* What is marked applied is in the skill, once.
AppliedOnce == G!AppliedOnce

\* The log, the rows and the context of a project say the same.
StoresAgree == P!StoresAgree

\* A row of a file names bytes that are there.
BlobsReadable == F!BlobsReadable

\* A message has a file, and an archived one is not listed.
MessageKept == I!MessageKept
=============================================================================
