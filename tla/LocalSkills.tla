----------------------------- MODULE LocalSkills -----------------------------
(***************************************************************************)
(* The skills of the hub written to the skill directory of a local agent   *)
(* (internal/api/local_skill_sync.go), beside what the user keeps there.   *)
(* An apply looks at every assigned skill, plans the files to write, gives *)
(* up on any conflict, then writes the files one by one and at last the    *)
(* marker file of each skill directory, which makes it Vola's.  A cleanup  *)
(* walks the root and removes the marked directories of skills that are no *)
(* longer assigned.  Requests share no lock, the user edits the same       *)
(* directory, every write can fail, leaving half a file, without ending    *)
(* its run, and the server can end at any step.  One agent and one scope   *)
(* are modelled, the user's own: a directory marked for another scope is   *)
(* as untouchable as one of the user's.  A skill's files are all those     *)
(* below its path in the hub, the skills inside it included.               *)
(***************************************************************************)
EXTENDS Naturals, FiniteSets

CONSTANTS Skill,      \* skill paths, numbered in the order of a walk
          Inside,     \* pairs <<k, p>>: the directory of k is inside that of p
          File,       \* files of a skill, numbered in their order
          Version,    \* contents of a file in the hub
          Sqlite,     \* the hub's database: SQLite, or else Postgres
          Applier,    \* goroutines that serve /local/skills/sync/apply
          Cleaner,    \* and .../cleanup
          MaxEdits,   \* bound: what users do
          MaxFaults   \* bound: failed calls, refusals of the quality gate, crashes

VARIABLES assigned,   \* skills assigned to the agent
          hub,        \* the hub's files of each skill; "none" is no file
          listed,     \* skills with a directory in the hub
          local,      \* the directory of each skill
          run,        \* what each request is at
          mine,       \* history: directories the user made
          edits, faults

vars == <<assigned, hub, listed, local, run, mine, edits, faults>>

Goroutine == Applier \cup Cleaner
Content == Version \cup {"none", "mine", "torn"}
Gone == [there |-> FALSE, file |-> [f \in File |-> "none"], marker |-> "none"]
NoRun == [at |-> "idle", assigned |-> {}, todo |-> {}, writes |-> {}, marks |-> {},
          deletes |-> {}, conflict |-> FALSE, seen |-> {}]
Above(k) == {p \in Skill : <<k, p>> \in Inside}
Under(k) == {j \in Skill : j = k \/ k \in Above(j)}
Managed(k) == local[k].marker = "ours"

\* Snapshot: SQLite has an error for a path with nothing at it or below it,
\* and Postgres has an empty answer.  The directory outlives its last file.
Available(k) == Sqlite => k \in listed

TypeOK ==
  /\ assigned \subseteq Skill /\ mine \subseteq Skill /\ listed \subseteq Skill
  /\ hub \in [Skill -> [File -> Version \cup {"none"}]]
  /\ local \in [Skill -> [there : BOOLEAN, file : [File -> Content],
                          marker : {"none", "ours", "torn"}]]
  /\ edits \in 0 .. MaxEdits /\ faults \in 0 .. MaxFaults
-----------------------------------------------------------------------------
Init ==
  /\ assigned \in SUBSET Skill
  /\ hub \in [Skill -> {[f \in File |-> v] : v \in Version}] /\ listed = Skill
  /\ local = [k \in Skill |-> Gone]
  /\ run = [h \in Goroutine |-> NoRun]
  /\ mine = {} /\ edits = MaxEdits /\ faults = MaxFaults

Edit == edits > 0 /\ edits' = edits - 1
Fault == faults > 0 /\ faults' = faults - 1
Same == UNCHANGED <<assigned, hub, listed, edits>>

Least(S) == {k \in S : \A j \in S : k <= j}
FirstWrite(W) == {w \in W : \A x \in W :
  \/ w.of < x.of
  \/ w.of = x.of /\ (w.skill < x.skill \/ (w.skill = x.skill /\ w.file <= x.file))}

\* MkdirAll(k) on the way to d: the directories above k come to be as well.
WithDirs(k, d) == [j \in Skill |->
  [IF j = k THEN d ELSE local[j] EXCEPT !.there = @ \/ j = k \/ j \in Above(k)]]
-----------------------------------------------------------------------------
\* buildLocalSkillSyncResponse reads the assignments first.
StartApply(h) ==
  /\ run[h].at = "idle"
  /\ run' = [run EXCEPT ![h] = [NoRun EXCEPT !.at = "plan", !.todo = assigned]]
  /\ Same /\ UNCHANGED <<local, mine, faults>>

StartCleanup(c) ==
  /\ run[c].at = "idle"
  /\ run' = [run EXCEPT ![c] = [NoRun EXCEPT !.at = "walk", !.assigned = assigned]]
  /\ Same /\ UNCHANGED <<local, mine, faults>>

\* Mutant: the directory may be anybody's, only files are compared.
PlannableAny(k) == TRUE

Plannable(k) == local[k].there => Managed(k)


\* Added and updated files, those of the skills inside it with them, whoever's
\* directory that is; what the hub has no longer stays.
ToWrite(k) == {[of |-> k, skill |-> x[1], file |-> x[2], data |-> hub[x[1]][x[2]]] : x \in
  {x \in Under(k) \X File : hub[x[1]][x[2]] \notin {"none", local[x[1]].file[x[2]]}}}

\* What one round of the loop over the assigned skills adds to a plan.
Planned(r, k) ==
  LET planned == Available(k) /\ Plannable(k) IN
  [r EXCEPT !.todo = @ \ {k},
            !.conflict = @ \/ (Available(k) /\ ~Plannable(k)),
            !.writes = IF planned THEN @ \cup ToWrite(k) ELSE @,
            !.marks = IF planned THEN @ \cup {k} ELSE @,
            !.seen = IF planned THEN @ \cup ({k} \ mine) ELSE @]

PlanSkill(h) ==
  /\ run[h].at = "plan"
  /\ \E k \in Least(run[h].todo) : run' = [run EXCEPT ![h] = Planned(@, k)]
  /\ Same /\ UNCHANGED <<local, mine, faults>>

\* applyLocalSkillWrites writes nothing if there was any conflict; the
\* quality gate may refuse as well.
EndPlan(h) ==
  /\ run[h].at = "plan" /\ run[h].todo = {}
  /\ \/ UNCHANGED faults
        /\ run' = [run EXCEPT ![h] = IF run[h].conflict \/ run[h].marks = {} THEN NoRun
                                     ELSE [run[h] EXCEPT !.at = "write"]]
     \/ Fault /\ run' = [run EXCEPT ![h] = NoRun]
  /\ Same /\ UNCHANGED <<local, mine>>

\* An add or update: MkdirAll and WriteFile, which can fail after it has
\* emptied the file.  A failure is noted and the run goes on.
WriteFile(h) == \E w \in FirstWrite(run[h].writes) :
  LET here == local[w.skill] IN
  /\ run[h].at = "write"
  /\ \/ /\ local' = WithDirs(w.skill, [here EXCEPT !.file[w.file] = w.data])
        /\ UNCHANGED faults
     \/ /\ Fault
        /\ local' \in {local, WithDirs(w.skill, [here EXCEPT !.file[w.file] = "torn"])}
  /\ run' = [run EXCEPT ![h].writes = @ \ {w}]
  /\ Same /\ UNCHANGED mine

\* writeLocalSkillManagedMarker, after all files: the markers are planned in
\* the order of a Go map.
WriteMarker(h) ==
  /\ run[h].at = "write" /\ run[h].writes = {}
  /\ \E k \in run[h].marks :
       /\ \/ /\ local' = WithDirs(k, [local[k] EXCEPT !.marker = "ours"])
             /\ mine' = mine \ {k}
             /\ UNCHANGED faults
          \/ /\ Fault
             /\ local' \in {local, WithDirs(k, [local[k] EXCEPT !.marker = "torn"])}
             /\ UNCHANGED mine
       /\ run' = [run EXCEPT ![h] = IF run[h].marks = {k} THEN NoRun
                                    ELSE [run[h] EXCEPT !.marks = @ \ {k}]]
  /\ Same

\* The walk does not enter a directory with a marker of ours, and ends at a
\* marker it cannot parse; what it has found by then is removed.
CollectDeletes(c) ==
  LET visited == {k \in Skill : local[k].there /\ \A p \in Above(k) : ~Managed(p)}
      reached == {k \in visited : \A j \in visited : local[j].marker = "torn" => k < j}
      found   == {k \in reached : Managed(k)} \ run[c].assigned
  IN
  /\ run[c].at = "walk"
  /\ run' = [run EXCEPT ![c] = IF found = {} THEN NoRun
                               ELSE [run[c] EXCEPT !.at = "delete", !.deletes = found,
                                                   !.seen = found \ mine]]
  /\ Same /\ UNCHANGED <<local, mine, faults>>

\* RemoveAll, with whatever is inside; if it fails, some of it is left.
Delete(c) == \E k \in Least(run[c].deletes) :
  /\ run[c].at = "delete"
  /\ \/ /\ local' = [j \in Skill |-> IF j \in Under(k) THEN Gone ELSE local[j]]
        /\ mine' = mine \ Under(k)
        /\ UNCHANGED faults
     \/ /\ Fault
        /\ \E gone \in SUBSET (Under(k) \ {k}), bare \in SUBSET Under(k),
              lost \in SUBSET (Under(k) \X File) :
             /\ \A j \in gone : Under(j) \subseteq gone
             /\ local' = [j \in Skill |-> IF j \in gone THEN Gone ELSE
                  [there  |-> local[j].there,
                   file   |-> [f \in File |-> IF <<j, f>> \in lost THEN "none"
                                             ELSE local[j].file[f]],
                   marker |-> IF j \in bare THEN "none" ELSE local[j].marker]]
             /\ mine' = mine \ gone
  /\ run' = [run EXCEPT ![c] = IF run[c].deletes = {k} THEN NoRun
                               ELSE [run[c] EXCEPT !.deletes = @ \ {k}]]
  /\ Same

Crash ==
  /\ Fault
  /\ run' = [h \in Goroutine |-> NoRun]
  /\ Same /\ UNCHANGED <<local, mine>>
-----------------------------------------------------------------------------
\* PUT /skills/assignments, and what is written and deleted in the hub: a file
\* brings its directories with it, and a directory goes with what is below it.
SaveAssignments ==
  /\ Edit
  /\ assigned' \in SUBSET Skill \ {assigned}
  /\ UNCHANGED <<hub, listed, local, run, mine, faults>>

EditHub(k, f) ==
  /\ Edit
  /\ \E v \in (Version \cup {"none"}) \ {hub[k][f]} :
       /\ hub' = [hub EXCEPT ![k][f] = v]
       /\ listed' = IF v = "none" THEN listed ELSE listed \cup {k} \cup Above(k)
  /\ UNCHANGED <<assigned, local, run, mine, faults>>

DeleteSkill(k) ==
  /\ Edit /\ k \in listed
  /\ hub' = [j \in Skill |-> IF j \in Under(k) THEN [f \in File |-> "none"] ELSE hub[j]]
  /\ listed' = listed \ Under(k)
  /\ UNCHANGED <<assigned, local, run, mine, faults>>

\* The user's own skills, and his changes to those of Vola.
UserWrites(k, f) ==
  /\ Edit
  /\ local' = WithDirs(k, [local[k] EXCEPT !.file[f] = "mine"])
  /\ mine' = mine \cup {j \in {k} \cup Above(k) : ~local[j].there}
  /\ UNCHANGED <<assigned, hub, listed, run, faults>>

UserRemoves(k) ==
  /\ Edit /\ local[k].there
  /\ local' = [j \in Skill |-> IF j \in Under(k) THEN Gone ELSE local[j]]
  /\ mine' = mine \ Under(k)
  /\ UNCHANGED <<assigned, hub, listed, run, faults>>

ApplyStep(h) == PlanSkill(h) \/ EndPlan(h) \/ WriteFile(h) \/ WriteMarker(h)
CleanStep(c) == CollectDeletes(c) \/ Delete(c)

Next ==
  \/ \E h \in Applier : StartApply(h) \/ ApplyStep(h)
  \/ \E c \in Cleaner : StartCleanup(c) \/ CleanStep(c)
  \/ Crash \/ SaveAssignments
  \/ \E k \in Skill : DeleteSkill(k) \/ UserRemoves(k) \/ \E f \in File : EditHub(k, f) \/ UserWrites(k, f)

\* Somebody applies again and again; a request once begun goes on.
Spec == /\ Init /\ [][Next]_vars
        /\ \A h \in Applier : WF_vars(StartApply(h)) /\ WF_vars(ApplyStep(h))
-----------------------------------------------------------------------------
SeenAround(h, k) == ({k} \cup Above(k)) \cap run[h].seen # {}

\* "Only directories with .vola-managed.json are updated or cleaned"
\* (skill_assignments.go) holds as far as this: what is in a directory the user
\* made is changed only by himself, or by a run that looked at that directory,
\* or at one around it, while that was not the user's.  A directory he makes
\* inside a managed one is not safe: it is removed with it, and it is given the
\* files of a skill of the hub that lies there.
UserDirsKept ==
  [][\A k \in mine : local'[k] # local[k] =>
       \/ edits' # edits
       \/ \E h \in Goroutine : run'[h] # run[h] /\ SeenAround(h, k)]_vars

\* Applying again installs every assigned skill whole, with the hub's
\* contents and with what is inside it, whatever failed writes, half-done
\* removals, crashes and edits left behind; unless some assigned skill finds an
\* unmarked directory in its place.  That may be what an interrupted first
\* install of it has left, or what the apply of a skill around it wrote there.
Installed(k) == \A j \in Under(k), f \in File : hub[j][f] \in {"none", local[j].file[f]}
Blocked == \E j \in assigned : Available(j) /\ local[j].there /\ ~Managed(j)
=============================================================================
