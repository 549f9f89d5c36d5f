-------------------------- MODULE Services_proofs ---------------------------
(***************************************************************************)
(* What is stored stays: proofs about LocalSkills, GrowthProposals,        *)
(* Projects, FileBlobs and Inbox as Services names their variables and     *)
(* constants, and that the composition keeps what its components keep.     *)
(***************************************************************************)
EXTENDS Access_proofs

-----------------------------------------------------------------------------
(*                               LocalSkills                               *)

Directory == [there : BOOLEAN, file : [SkillFile -> L!Content],
              marker : {"none", "ours", "torn"}]
PlannedWrite == [of : LocalSkill, skill : LocalSkill, file : SkillFile, data : HubText]
RunType == [at : {"idle", "plan", "walk", "write", "delete"},
            assigned : SUBSET LocalSkill, todo : SUBSET LocalSkill,
            writes : SUBSET PlannedWrite, marks : SUBSET LocalSkill,
            deletes : SUBSET LocalSkill, conflict : BOOLEAN,
            seen : SUBSET LocalSkill]

SkillTypes == L!TypeOK /\ skillRun \in [L!Goroutine -> RunType]

\* A marker is inside a directory; a directory of the user's is there and has
\* no marker of ours; and a directory is inside those above it.
DirsOK ==
  \A k \in LocalSkill :
    /\ ~local[k].there => local[k].marker = "none"
    /\ k \in mine => local[k].there /\ ~L!Managed(k)
    /\ \A p \in L!Above(k) : local[k].there => local[p].there

\* A run touches only what was not the user's when the run looked, and what
\* was inside that.
Looked(r) ==
  /\ r.marks \subseteq r.seen /\ r.deletes \subseteq r.seen
  /\ \A w \in r.writes : w.of \in r.seen /\ w.skill \in L!Under(w.of)
  /\ r.at = "walk" => r.writes = {} /\ r.marks = {}

SkillsInv == SkillTypes /\ DirsOK /\ \A h \in L!Goroutine : Looked(skillRun[h])

LEMMA SkillsInit == L!Init => SkillsInv
<1> SUFFICES ASSUME L!Init PROVE SkillsInv
  OBVIOUS
<1>1. L!NoRun \in RunType /\ Looked(L!NoRun)
  BY DEF L!NoRun, RunType, Looked
<1>2. L!Gone \in Directory /\ L!Gone.marker = "none" /\ ~L!Gone.there
  BY DEF L!Gone, Directory, L!Content
<1>3. hub \in [LocalSkill -> [SkillFile -> HubText \cup {"none"}]]
  BY DEF L!Init
<1>4. MaxEdits \in 0 .. MaxEdits /\ MaxFaults \in 0 .. MaxFaults
  BY BoundAssumption
<1> QED
  BY <1>1, <1>2, <1>3, <1>4
  DEF L!Init, SkillsInv, SkillTypes, DirsOK, L!TypeOK, Directory, L!Content

\* Steps that leave the directories alone.
LEMMA RunStep ==
  ASSUME SkillsInv, NEW h \in L!Goroutine, NEW r \in RunType, Looked(r),
         skillRun' = [skillRun EXCEPT ![h] = r] \/ skillRun' = skillRun,
         UNCHANGED <<local, mine>>,
         assigned' \subseteq LocalSkill, listed' \subseteq LocalSkill,
         hub' \in [LocalSkill -> [SkillFile -> HubText \cup {"none"}]],
         edits' \in 0 .. MaxEdits, faults' \in 0 .. MaxFaults
  PROVE  SkillsInv'
<1>1. /\ skillRun' \in [L!Goroutine -> RunType]
      /\ \A g \in L!Goroutine : Looked(skillRun'[g])
  BY DEF SkillsInv, SkillTypes
<1>2. DirsOK'
  BY DEF SkillsInv, DirsOK, L!Managed
<1> QED
  BY <1>1, <1>2 DEF SkillsInv, SkillTypes, L!TypeOK, Looked

\* A call that may fail.
LEMMA FaultStep ==
  ASSUME SkillsInv, L!Fault \/ UNCHANGED faults PROVE faults' \in 0 .. MaxFaults
<1>1. faults \in 0 .. MaxFaults /\ MaxFaults \in Nat
  BY BoundAssumption DEF SkillsInv, SkillTypes, L!TypeOK
<1> QED
  BY <1>1 DEF L!Fault

LEMMA FaultMoves ==
  ASSUME SkillsInv, L!Fault PROVE faults' # faults
<1>1. faults \in 0 .. MaxFaults /\ MaxFaults \in Nat
  BY BoundAssumption DEF SkillsInv, SkillTypes, L!TypeOK
<1> QED
  BY <1>1 DEF L!Fault

LEMMA EditStep ==
  ASSUME SkillsInv, L!Edit PROVE edits' \in 0 .. MaxEdits /\ edits' # edits
<1>1. edits \in 0 .. MaxEdits /\ MaxEdits \in Nat
  BY BoundAssumption DEF SkillsInv, SkillTypes, L!TypeOK
<1> QED
  BY <1>1 DEF L!Edit

LEMMA PlanSteps ==
  ASSUME SkillsInv, NEW h \in L!Goroutine,
         \/ L!StartApply(h) \/ L!StartCleanup(h)
         \/ L!PlanSkill(h) \/ L!EndPlan(h) \/ L!CollectDeletes(h)
  PROVE  SkillsInv'
<1>0. /\ L!TypeOK /\ skillRun[h] \in RunType /\ Looked(skillRun[h])
      /\ UNCHANGED <<assigned, hub, listed, edits, local, mine>>
  BY DEF SkillsInv, SkillTypes, L!StartApply, L!StartCleanup, L!PlanSkill, L!EndPlan,
         L!CollectDeletes, L!Same
<1>1. /\ assigned' \subseteq LocalSkill /\ listed' \subseteq LocalSkill
      /\ hub' \in [LocalSkill -> [SkillFile -> HubText \cup {"none"}]]
      /\ edits' \in 0 .. MaxEdits
  BY <1>0 DEF L!TypeOK
<1>2. L!NoRun \in RunType /\ Looked(L!NoRun)
  BY DEF L!NoRun, RunType, Looked
<1>3. CASE L!StartApply(h)
  <2>1. PICK r : r = [L!NoRun EXCEPT !.at = "plan", !.todo = assigned]
    OBVIOUS
  <2>2. r \in RunType /\ Looked(r)
    BY <1>0, <2>1 DEF L!NoRun, RunType, Looked, L!TypeOK
  <2> QED
    BY <1>0, <1>1, <1>3, <2>1, <2>2, FaultStep, RunStep DEF L!StartApply
<1>4. CASE L!StartCleanup(h)
  <2>1. PICK r : r = [L!NoRun EXCEPT !.at = "walk", !.assigned = assigned]
    OBVIOUS
  <2>2. r \in RunType /\ Looked(r)
    BY <1>0, <2>1 DEF L!NoRun, RunType, Looked, L!TypeOK
  <2> QED
    BY <1>0, <1>1, <1>4, <2>1, <2>2, FaultStep, RunStep DEF L!StartCleanup
<1>5. CASE L!PlanSkill(h)
  <2>1. PICK k \in L!Least(skillRun[h].todo) :
          /\ skillRun[h].at = "plan"
          /\ skillRun' = [skillRun EXCEPT ![h] = L!Planned(skillRun[h], k)]
    BY <1>5 DEF L!PlanSkill
  <2> DEFINE planned == L!Available(k) /\ L!Plannable(k)
             writes  == L!ToWrite(k)
             r == L!Planned(skillRun[h], k)
  <2>2. k \in LocalSkill
    BY <1>0, <2>1 DEF L!Least, RunType
  <2>3. writes \subseteq PlannedWrite /\ \A w \in writes : w.of = k /\ w.skill \in L!Under(k)
    <3>1. SUFFICES ASSUME NEW w \in writes
                   PROVE  w \in PlannedWrite /\ w.of = k /\ w.skill \in L!Under(k)
      OBVIOUS
    <3>2. PICK j \in L!Under(k), f \in SkillFile :
            /\ w = [of |-> k, skill |-> j, file |-> f, data |-> hub[j][f]]
            /\ hub[j][f] # "none"
      BY <3>1 DEF L!ToWrite
    <3>3. j \in LocalSkill /\ hub[j][f] \in HubText
      BY <1>0, <3>2 DEF L!Under, L!TypeOK
    <3> QED
      BY <2>2, <3>2, <3>3 DEF PlannedWrite
  <2>4. planned => k \notin mine
    BY <2>1, <2>2 DEF L!Plannable, SkillsInv, DirsOK
  <2>5. skillRun' = [skillRun EXCEPT ![h] = r]
    BY <2>1
  <2>6. /\ r \in RunType /\ r.at = "plan" /\ r.deletes = skillRun[h].deletes
        /\ r.marks = IF planned THEN skillRun[h].marks \cup {k} ELSE skillRun[h].marks
        /\ r.writes = IF planned THEN skillRun[h].writes \cup writes ELSE skillRun[h].writes
        /\ r.seen = IF planned THEN skillRun[h].seen \cup ({k} \ mine) ELSE skillRun[h].seen
    <3>1. r = [skillRun[h] EXCEPT
                 !.todo = @ \ {k},
                 !.conflict = @ \/ (L!Available(k) /\ ~L!Plannable(k)),
                 !.writes = IF planned THEN @ \cup writes ELSE @,
                 !.marks = IF planned THEN @ \cup {k} ELSE @,
                 !.seen = IF planned THEN @ \cup ({k} \ mine) ELSE @]
      BY Zenon DEF L!Planned
    <3> HIDE DEF planned, writes, r
    <3> QED
      BY <1>0, <2>1, <2>2, <2>3, <3>1 DEF RunType
  <2> HIDE DEF r, planned, writes
  <2>7. Looked(r)
    BY <1>0, <2>3, <2>4, <2>6 DEF Looked
  <2>8. UNCHANGED faults
    BY <1>5 DEF L!PlanSkill
  <2> QED
    BY <1>0, <1>1, <2>5, <2>6, <2>7, <2>8, FaultStep, RunStep
<1>6. CASE L!EndPlan(h)
  <2>1. PICK r : r = [skillRun[h] EXCEPT !.at = "write"]
    OBVIOUS
  <2>2. r \in RunType /\ Looked(r)
    BY <1>0, <2>1 DEF RunType, Looked
  <2>3. \/ skillRun' = [skillRun EXCEPT ![h] = r]
        \/ skillRun' = [skillRun EXCEPT ![h] = L!NoRun]
    <3>1. \/ skillRun' = [skillRun EXCEPT ![h] =
                          IF skillRun[h].conflict \/ skillRun[h].marks = {} THEN L!NoRun
                          ELSE [skillRun[h] EXCEPT !.at = "write"]]
          \/ skillRun' = [skillRun EXCEPT ![h] = L!NoRun]
      BY <1>6 DEF L!EndPlan
    <3>2. CASE skillRun[h].conflict \/ skillRun[h].marks = {}
      BY <3>1, <3>2
    <3>3. CASE ~(skillRun[h].conflict \/ skillRun[h].marks = {})
      BY <2>1, <3>1, <3>3
    <3> QED
      BY <3>2, <3>3
  <2>4. L!Fault \/ UNCHANGED faults
    BY <1>6 DEF L!EndPlan
  <2> QED
    BY <1>0, <1>1, <1>2, <2>2, <2>3, <2>4, FaultStep, RunStep
<1>7. CASE L!CollectDeletes(h)
  <2>1. PICK found, r :
          /\ found \subseteq {k \in LocalSkill : local[k].there /\ L!Managed(k)}
          /\ r = [skillRun[h] EXCEPT !.at = "delete", !.deletes = found, !.seen = found \ mine]
          /\ \/ skillRun' = [skillRun EXCEPT ![h] = r]
             \/ skillRun' = [skillRun EXCEPT ![h] = L!NoRun]
    <3> DEFINE visited == {k \in LocalSkill : local[k].there /\ \A p \in L!Above(k) : ~L!Managed(p)}
               reached == {k \in visited : \A j \in visited : local[j].marker = "torn" => k < j}
               found   == {k \in reached : L!Managed(k)} \ skillRun[h].assigned
    <3>1. found \subseteq {k \in LocalSkill : local[k].there /\ L!Managed(k)}
      OBVIOUS
    <3>2. skillRun' = [skillRun EXCEPT ![h] = IF found = {} THEN L!NoRun
                        ELSE [skillRun[h] EXCEPT !.at = "delete", !.deletes = found,
                                       !.seen = found \ mine]]
      BY <1>7 DEF L!CollectDeletes
    <3> HIDE DEF found
    <3>3. PICK f, r : /\ f = found
                      /\ r = [skillRun[h] EXCEPT !.at = "delete", !.deletes = f, !.seen = f \ mine]
      OBVIOUS
    <3>4. CASE found = {}
      BY <3>1, <3>2, <3>3, <3>4
    <3>5. CASE found # {}
      <4>1. skillRun' = [skillRun EXCEPT ![h] = r]
        BY <3>2, <3>3, <3>5
      <4> QED
        BY <3>1, <3>3, <4>1
    <3> QED
      BY <3>4, <3>5
  <2>2. found \cap mine = {}
    BY <2>1 DEF SkillsInv, DirsOK
  <2>3. r \in RunType
    BY <1>0, <2>1 DEF RunType
  <2>4. Looked(r)
    <3>1. skillRun[h].writes = {} /\ skillRun[h].marks = {}
      BY <1>0, <1>7 DEF L!CollectDeletes, Looked
    <3> QED
      BY <1>0, <2>1, <2>2, <3>1 DEF RunType, Looked
  <2>5. UNCHANGED faults
    BY <1>7 DEF L!CollectDeletes
  <2> QED
    BY <1>0, <1>1, <1>2, <2>1, <2>3, <2>4, <2>5, FaultStep, RunStep
<1> QED
  BY <1>3, <1>4, <1>5, <1>6, <1>7

\* MkdirAll and a change to what is in the directory: what becomes of one of them.
LEMMA DirMade ==
  ASSUME SkillsInv, NEW k \in LocalSkill, NEW d \in Directory,
         NEW new, new = L!WithDirs(k, d), NEW j \in LocalSkill
  PROVE  /\ new[j] \in Directory
         /\ j = k => new[j].marker = d.marker
         /\ j # k => new[j].marker = local[j].marker
         /\ new[j].there <=> (IF j = k THEN d ELSE local[j]).there \/ j = k \/ j \in L!Above(k)
         /\ j # k /\ local[j].there => new[j] = local[j]
<1>0. local \in [LocalSkill -> Directory] /\ mine \subseteq LocalSkill
  BY DEF SkillsInv, SkillTypes, L!TypeOK, Directory
<1>1. \E was \in Directory :
        /\ was = IF j = k THEN d ELSE local[j]
        /\ new[j] = [was EXCEPT !.there = @ \/ j = k \/ j \in L!Above(k)]
  BY <1>0, Zenon DEF L!WithDirs
<1> DEFINE made(e, b) == [e EXCEPT !.there = b]
<1>2. ASSUME NEW e \in Directory, NEW b \in BOOLEAN
      PROVE  /\ made(e, b) \in Directory
             /\ made(e, b).there = b
             /\ made(e, b).marker = e.marker
             /\ e.there = b => made(e, b) = e
  BY DEF Directory
<1>3. PICK was \in Directory, b \in BOOLEAN :
        /\ was = IF j = k THEN d ELSE local[j]
        /\ b = (was.there \/ j = k \/ j \in L!Above(k))
        /\ new[j] = made(was, b)
  BY <1>1
<1> HIDE DEF made
<1>4. new[j] = made(was, b)
  BY <1>3
<1>5. new[j] \in Directory /\ new[j].there = b
  BY <1>2, <1>4
<1>6. new[j].marker = was.marker
  BY <1>2, <1>4
<1>7. was.there = b => new[j] = was
  BY <1>2, <1>4
<1>8. was.there \in BOOLEAN
  BY DEF Directory
<1> QED
  BY <1>3, <1>5, <1>6, <1>7, <1>8

\* And of all.
LEMMA DirsMade ==
  ASSUME SkillsInv, NEW k \in LocalSkill, NEW d \in Directory,
         NEW new, new = L!WithDirs(k, d)
  PROVE  /\ new \in [LocalSkill -> Directory]
         /\ new[k].marker = d.marker
         /\ \A j \in LocalSkill : j # k => new[j].marker = local[j].marker
         /\ \A j \in LocalSkill : new[j].there <=> local[j].there \/ j = k \/ j \in L!Above(k)
         /\ \A j \in mine : j # k => new[j] = local[j]
         /\ \A j \in LocalSkill : \A p \in L!Above(j) : new[j].there => new[p].there
<1>0. local \in [LocalSkill -> Directory] /\ mine \subseteq LocalSkill
  BY DEF SkillsInv, SkillTypes, L!TypeOK, Directory
<1>3. ASSUME NEW j \in LocalSkill
      PROVE  /\ new[j] \in Directory
             /\ j = k => new[j].marker = d.marker
             /\ j # k => new[j].marker = local[j].marker
             /\ new[j].there <=> (IF j = k THEN d ELSE local[j]).there \/ j = k \/ j \in L!Above(k)
             /\ j # k /\ local[j].there => new[j] = local[j]
  BY DirMade
<1>4. new = [j \in LocalSkill |-> new[j]]
  BY DEF L!WithDirs
<1>5. new \in [LocalSkill -> Directory]
  <2>1. \A j \in LocalSkill : new[j] \in Directory
    BY <1>3
  <2> QED
    BY <1>4, <2>1
<1>6. /\ new[k].marker = d.marker
      /\ \A j \in LocalSkill : j # k => new[j].marker = local[j].marker
  BY <1>3
<1>7. ASSUME NEW j \in LocalSkill
      PROVE  new[j].there <=> local[j].there \/ j = k \/ j \in L!Above(k)
  BY <1>3
<1>8. \A j \in mine : j # k => new[j] = local[j]
  BY <1>0, <1>3 DEF SkillsInv, DirsOK
<1>9. ASSUME NEW j \in LocalSkill, NEW p \in L!Above(j), new[j].there
      PROVE  new[p].there
  <2>1. p \in LocalSkill /\ <<j, p>> \in Nested
    BY DEF L!Above
  <2>2. CASE local[j].there
    BY <1>7, <2>1, <2>2 DEF SkillsInv, DirsOK
  <2>3. CASE j = k
    BY <1>7, <2>1, <2>3
  <2>4. CASE j \in L!Above(k)
    <3>1. p \in L!Above(k)
      BY <2>1, <2>4, NestAssumption DEF L!Above
    <3> QED
      BY <1>7, <2>1, <3>1
  <2> QED
    BY <1>7, <1>9, <2>2, <2>3, <2>4
<1> QED
  BY <1>5, <1>6, <1>7, <1>8, <1>9

\* The rules of the directories after MkdirAll.
LEMMA DirsKept ==
  ASSUME SkillsInv, NEW k \in LocalSkill, NEW d \in Directory,
         local' = L!WithDirs(k, d),
         \A j \in mine' : \/ j \in mine /\ j # k
                          \/ d.marker # "ours" /\ j = k
                          \/ local[j].marker # "ours" /\ j \in L!Above(k) /\ j # k,
         mine' \subseteq LocalSkill
  PROVE  local' \in [LocalSkill -> Directory] /\ DirsOK'
<1>0. PICK new : new = local'
  OBVIOUS
<1>1. /\ local' \in [LocalSkill -> Directory]
      /\ local'[k].marker = d.marker
      /\ \A j \in LocalSkill : j # k => local'[j].marker = local[j].marker
      /\ \A j \in LocalSkill : local'[j].there <=> local[j].there \/ j = k \/ j \in L!Above(k)
      /\ \A j \in mine : j # k => local'[j] = local[j]
      /\ \A j \in LocalSkill : \A p \in L!Above(j) : local'[j].there => local'[p].there
  <2>1. new = L!WithDirs(k, d)
    BY <1>0
  <2>2. /\ new \in [LocalSkill -> Directory]
        /\ new[k].marker = d.marker
        /\ \A j \in LocalSkill : j # k => new[j].marker = local[j].marker
        /\ \A j \in LocalSkill : new[j].there <=> local[j].there \/ j = k \/ j \in L!Above(k)
        /\ \A j \in mine : j # k => new[j] = local[j]
        /\ \A j \in LocalSkill : \A p \in L!Above(j) : new[j].there => new[p].there
    <3>1. new \in [LocalSkill -> Directory]
      BY <2>1, DirsMade
    <3>2. new[k].marker = d.marker
      BY <2>1, DirsMade
    <3>3. ASSUME NEW j \in LocalSkill, j # k PROVE new[j].marker = local[j].marker
      BY <2>1, <3>3, DirMade
    <3>4. \A j \in LocalSkill : new[j].there <=> local[j].there \/ j = k \/ j \in L!Above(k)
      BY <2>1, DirsMade
    <3>5. \A j \in mine : j # k => new[j] = local[j]
      BY <2>1, DirsMade
    <3>6. \A j \in LocalSkill : \A p \in L!Above(j) : new[j].there => new[p].there
      BY <2>1, DirsMade
    <3> QED
      BY <3>1, <3>2, <3>3, <3>4, <3>5, <3>6
  <2> QED
    BY <1>0, <2>2
<1>2. \A j \in LocalSkill : ~local'[j].there => local'[j].marker = "none"
  BY <1>1 DEF SkillsInv, DirsOK
<1>3. ASSUME NEW j \in mine' PROVE local'[j].there /\ local'[j].marker # "ours"
  BY <1>1 DEF SkillsInv, DirsOK, L!Managed, L!Above
<1> QED
  BY <1>1, <1>2, <1>3 DEF DirsOK, L!Managed

\* RemoveAll of a directory, with all that is inside.
LEMMA DirsRemoved ==
  ASSUME SkillsInv, NEW k \in LocalSkill, NEW under,
         under = L!Under(k),
         local' = [j \in LocalSkill |-> IF j \in under THEN L!Gone ELSE local[j]],
         mine' = mine \ under
  PROVE  local' \in [LocalSkill -> Directory] /\ DirsOK'
<1>0. local \in [LocalSkill -> Directory] /\ mine \subseteq LocalSkill
  BY DEF SkillsInv, SkillTypes, L!TypeOK, Directory
<1>1. L!Gone \in Directory /\ L!Gone.marker = "none" /\ ~L!Gone.there
  BY DEF L!Gone, Directory, L!Content
<1>2. local' \in [LocalSkill -> Directory]
  BY <1>0, <1>1
<1>3. \A j \in LocalSkill : ~local'[j].there => local'[j].marker = "none"
  BY <1>0, <1>1 DEF SkillsInv, DirsOK
<1>4. \A j \in mine' : local'[j].there /\ local'[j].marker # "ours"
  BY <1>0 DEF SkillsInv, DirsOK, L!Managed
<1>5. ASSUME NEW j \in LocalSkill, NEW p \in L!Above(j), local'[j].there PROVE local'[p].there
  <2>1. p \in LocalSkill /\ <<j, p>> \in Nested
    BY DEF L!Above
  <2>2. j \notin under /\ local'[j] = local[j]
    BY <1>1, <1>5
  <2>3. p \notin under
    BY <2>1, <2>2, NestAssumption DEF L!Above, L!Under
  <2> QED
    BY <1>5, <2>1, <2>2, <2>3 DEF SkillsInv, DirsOK
<1> QED
  BY <1>2, <1>3, <1>4, <1>5 DEF DirsOK, L!Managed

\* A run takes off its list what it has done, or ends.
LEMMA RunMoves ==
  ASSUME SkillsInv, NEW h \in L!Goroutine, NEW r \in RunType, Looked(r),
         skillRun' = [skillRun EXCEPT ![h] = r], L!Same,
         L!Fault \/ UNCHANGED faults,
         local' \in [LocalSkill -> Directory], mine' \subseteq LocalSkill, DirsOK'
  PROVE  SkillsInv'
<1>1. /\ skillRun' \in [L!Goroutine -> RunType]
      /\ \A g \in L!Goroutine : Looked(skillRun'[g])
  BY DEF SkillsInv, SkillTypes
<1>2. L!TypeOK'
  BY FaultStep DEF SkillsInv, SkillTypes, L!TypeOK, L!Same, Directory
<1> QED
  BY <1>1, <1>2 DEF SkillsInv, SkillTypes, Looked

\* What a step may do to the user's directories.
UserDirsOnly ==
  \A k \in mine : local'[k] # local[k] =>
    \/ edits' # edits
    \/ \E h \in L!Goroutine : skillRun'[h] # skillRun[h] /\ L!SeenAround(h, k)

LEMMA FileStep ==
  ASSUME SkillsInv, NEW h \in L!Goroutine, L!WriteFile(h)
  PROVE  SkillsInv' /\ UserDirsOnly
<1>0. /\ local \in [LocalSkill -> Directory] /\ mine \subseteq LocalSkill
      /\ skillRun[h] \in RunType /\ Looked(skillRun[h])
      /\ DOMAIN skillRun = L!Goroutine
  BY DEF SkillsInv, SkillTypes, L!TypeOK, Directory
<1>1. PICK w \in skillRun[h].writes :
        /\ \/ /\ local' = L!WithDirs(w.skill, [local[w.skill] EXCEPT !.file[w.file] = w.data])
              /\ UNCHANGED faults
           \/ /\ L!Fault
              /\ local' \in {local, L!WithDirs(w.skill, [local[w.skill] EXCEPT !.file[w.file] = "torn"])}
        /\ skillRun' = [skillRun EXCEPT ![h].writes = @ \ {w}]
        /\ L!Same /\ UNCHANGED mine
  BY DEF L!WriteFile, L!FirstWrite
<1>2. /\ w \in PlannedWrite /\ w.skill \in LocalSkill
      /\ w.of \in skillRun[h].seen /\ w.skill \in L!Under(w.of)
  BY <1>0 DEF RunType, Looked, PlannedWrite
<1>a. w.of = w.skill \/ w.of \in L!Above(w.skill)
  BY <1>2 DEF L!Under
<1>3. PICK k : k = w.skill
  OBVIOUS
<1>r. PICK r : r = [skillRun[h] EXCEPT !.writes = @ \ {w}]
  OBVIOUS
<1>4. r \in RunType /\ Looked(r) /\ skillRun' = [skillRun EXCEPT ![h] = r]
  <2>1. /\ r \in RunType /\ r.writes = skillRun[h].writes \ {w} /\ r.marks = skillRun[h].marks
        /\ r.seen = skillRun[h].seen /\ r.deletes = skillRun[h].deletes /\ r.at = skillRun[h].at
    BY <1>0, <1>r DEF RunType
  <2> QED
    BY <1>0, <1>1, <1>r, <2>1 DEF Looked
<1>5. skillRun'[h] # skillRun[h]
  <2>1. skillRun'[h].writes = skillRun[h].writes \ {w}
    BY <1>0, <1>4, <1>r DEF RunType
  <2> QED
    BY <2>1
<1>6. PICK d \in Directory : /\ d.marker = local[k].marker
                             /\ local' = local \/ local' = L!WithDirs(k, d)
  <2>1. ASSUME NEW c \in L!Content
        PROVE  /\ [local[k] EXCEPT !.file[w.file] = c] \in Directory
               /\ [local[k] EXCEPT !.file[w.file] = c].marker = local[k].marker
    BY <1>0, <1>2, <1>3 DEF Directory, PlannedWrite
  <2>2. w.data \in L!Content /\ "torn" \in L!Content
    BY <1>2 DEF PlannedWrite, L!Content
  <2> QED
    BY <1>1, <1>3, <2>1, <2>2
<1>7. CASE local' = local
  <2>1. DirsOK'
    BY <1>1, <1>7 DEF SkillsInv, DirsOK, L!Managed
  <2> QED
    BY <1>0, <1>1, <1>4, <1>7, <2>1, RunMoves DEF UserDirsOnly
<1>8. CASE local' = L!WithDirs(k, d)
  <2>1. \A j \in mine' : \/ j \in mine /\ j # k
                         \/ d.marker # "ours" /\ j = k
    BY <1>0, <1>1, <1>2, <1>3, <1>6 DEF SkillsInv, DirsOK, L!Managed
  <2>2. local' \in [LocalSkill -> Directory] /\ DirsOK'
    BY <1>0, <1>1, <1>2, <1>3, <1>8, <2>1, DirsKept
  <2>3. SkillsInv'
    BY <1>0, <1>1, <1>4, <2>2, RunMoves
  <2>4. \A j \in mine : j # k => local'[j] = local[j]
    <3> PICK new : new = local'
      OBVIOUS
    <3>1. new = L!WithDirs(k, d)
      BY <1>8
    <3> QED
      BY <1>2, <1>3, <3>1, DirsMade
  <2> QED
    BY <1>2, <1>3, <1>5, <1>a, <2>3, <2>4 DEF UserDirsOnly, L!SeenAround
<1> QED
  BY <1>6, <1>7, <1>8

LEMMA MarkerStep ==
  ASSUME SkillsInv, NEW h \in L!Goroutine, L!WriteMarker(h)
  PROVE  SkillsInv' /\ UserDirsOnly
<1>0. /\ local \in [LocalSkill -> Directory] /\ mine \subseteq LocalSkill
      /\ skillRun[h] \in RunType /\ Looked(skillRun[h])
      /\ DOMAIN skillRun = L!Goroutine
  BY DEF SkillsInv, SkillTypes, L!TypeOK, Directory
<1>1. PICK k \in skillRun[h].marks :
        /\ \/ /\ local' = L!WithDirs(k, [local[k] EXCEPT !.marker = "ours"])
              /\ mine' = mine \ {k}
              /\ UNCHANGED faults
           \/ /\ L!Fault
              /\ local' \in {local, L!WithDirs(k, [local[k] EXCEPT !.marker = "torn"])}
              /\ UNCHANGED mine
        /\ skillRun' = [skillRun EXCEPT ![h] = IF skillRun[h].marks = {k} THEN L!NoRun
                                               ELSE [skillRun[h] EXCEPT !.marks = @ \ {k}]]
        /\ L!Same
  BY DEF L!WriteMarker
<1>2. k \in LocalSkill /\ k \in skillRun[h].seen
  BY <1>0 DEF RunType, Looked
<1>3. PICK r : /\ \/ skillRun[h].marks = {k} /\ r = L!NoRun
                  \/ skillRun[h].marks # {k} /\ r = [skillRun[h] EXCEPT !.marks = @ \ {k}]
               /\ skillRun' = [skillRun EXCEPT ![h] = r]
  <2>1. CASE skillRun[h].marks = {k}
    <3>1. skillRun' = [skillRun EXCEPT ![h] = L!NoRun]
      BY <1>1, <2>1
    <3> QED
      BY <2>1, <3>1
  <2>2. CASE skillRun[h].marks # {k}
    <3>1. PICK r : r = [skillRun[h] EXCEPT !.marks = @ \ {k}]
      OBVIOUS
    <3>2. skillRun' = [skillRun EXCEPT ![h] = [skillRun[h] EXCEPT !.marks = @ \ {k}]]
      BY <1>1, <2>2
    <3>3. skillRun' = [skillRun EXCEPT ![h] = r]
      BY <3>1, <3>2
    <3> QED
      BY <2>2, <3>1, <3>3
  <2> QED
    BY <2>1, <2>2
<1>4. r \in RunType /\ Looked(r) /\ r.marks = skillRun[h].marks \ {k}
  <2>1. CASE skillRun[h].marks = {k} /\ r = L!NoRun
    BY <2>1 DEF L!NoRun, RunType, Looked
  <2>2. CASE r = [skillRun[h] EXCEPT !.marks = @ \ {k}]
    <3>1. /\ r \in RunType /\ r.writes = skillRun[h].writes /\ r.marks = skillRun[h].marks \ {k}
          /\ r.seen = skillRun[h].seen /\ r.deletes = skillRun[h].deletes
          /\ r.at = skillRun[h].at
      BY <1>0, <2>2 DEF RunType
    <3> QED
      BY <1>0, <3>1 DEF Looked
  <2> QED
    BY <1>3, <2>1, <2>2
<1>5. skillRun'[h] # skillRun[h]
  BY <1>0, <1>3, <1>4
<1>6. ASSUME NEW m \in {"ours", "torn"}
      PROVE  /\ [local[k] EXCEPT !.marker = m] \in Directory
             /\ [local[k] EXCEPT !.marker = m].marker = m
  BY <1>0, <1>2 DEF Directory
<1>7. CASE local' = local /\ UNCHANGED mine
  <2>1. DirsOK'
    BY <1>7 DEF SkillsInv, DirsOK, L!Managed
  <2> QED
    BY <1>0, <1>1, <1>3, <1>4, <1>7, <2>1, RunMoves DEF UserDirsOnly
<1>8. ASSUME NEW m \in {"ours", "torn"},
             local' = L!WithDirs(k, [local[k] EXCEPT !.marker = m]),
             mine' = IF m = "ours" THEN mine \ {k} ELSE mine
      PROVE  SkillsInv' /\ UserDirsOnly
  <2>0. PICK d \in Directory : d = [local[k] EXCEPT !.marker = m] /\ d.marker = m
    BY <1>6
  <2>1. \A j \in mine' : \/ j \in mine /\ j # k
                         \/ d.marker # "ours" /\ j = k
    BY <1>8, <2>0
  <2>2. local' \in [LocalSkill -> Directory] /\ DirsOK'
    BY <1>0, <1>2, <1>8, <2>0, <2>1, DirsKept
  <2>3. SkillsInv'
    BY <1>0, <1>1, <1>3, <1>4, <1>8, <2>2, RunMoves
  <2>4. \A j \in mine : j # k => local'[j] = local[j]
    <3> PICK new : new = local'
      OBVIOUS
    <3>1. new = L!WithDirs(k, d)
      BY <1>8, <2>0
    <3> QED
      BY <1>2, <3>1, DirsMade
  <2> QED
    BY <1>2, <1>5, <2>3, <2>4 DEF UserDirsOnly, L!SeenAround
<1> QED
  BY <1>1, <1>7, <1>8

\* A cleanup removes a directory, or fails and leaves some of it.
LEMMA RemoveStep ==
  ASSUME SkillsInv, NEW h \in L!Goroutine, L!Delete(h)
  PROVE  SkillsInv' /\ UserDirsOnly
<1>0. /\ local \in [LocalSkill -> Directory] /\ mine \subseteq LocalSkill
      /\ skillRun[h] \in RunType /\ Looked(skillRun[h])
      /\ DOMAIN skillRun = L!Goroutine
  BY DEF SkillsInv, SkillTypes, L!TypeOK, Directory
<1>1. PICK k \in skillRun[h].deletes :
        /\ \/ /\ local' = [j \in LocalSkill |-> IF j \in L!Under(k) THEN L!Gone ELSE local[j]]
              /\ mine' = mine \ L!Under(k)
              /\ UNCHANGED faults
           \/ /\ L!Fault
              /\ \E gone \in SUBSET (L!Under(k) \ {k}), bare \in SUBSET L!Under(k),
                    torn \in SUBSET (L!Under(k) \X SkillFile) :
                   /\ \A j \in gone : L!Under(j) \subseteq gone
                   /\ local' = [j \in LocalSkill |-> IF j \in gone THEN L!Gone ELSE
                        [there  |-> local[j].there,
                         file   |-> [f \in SkillFile |-> IF <<j, f>> \in torn THEN "none"
                                                       ELSE local[j].file[f]],
                         marker |-> IF j \in bare THEN "none" ELSE local[j].marker]]
                   /\ mine' = mine \ gone
        /\ skillRun' = [skillRun EXCEPT ![h] = IF skillRun[h].deletes = {k} THEN L!NoRun
                                               ELSE [skillRun[h] EXCEPT !.deletes = @ \ {k}]]
        /\ L!Same
  BY DEF L!Delete, L!Least
<1>2. k \in LocalSkill /\ k \in skillRun[h].seen
  BY <1>0 DEF RunType, Looked
<1>3. PICK r : /\ \/ skillRun[h].deletes = {k} /\ r = L!NoRun
                  \/ skillRun[h].deletes # {k} /\ r = [skillRun[h] EXCEPT !.deletes = @ \ {k}]
               /\ skillRun' = [skillRun EXCEPT ![h] = r]
  <2>1. CASE skillRun[h].deletes = {k}
    <3>1. skillRun' = [skillRun EXCEPT ![h] = L!NoRun]
      BY <1>1, <2>1
    <3> QED
      BY <2>1, <3>1
  <2>2. CASE skillRun[h].deletes # {k}
    <3>1. PICK r : r = [skillRun[h] EXCEPT !.deletes = @ \ {k}]
      OBVIOUS
    <3>2. skillRun' = [skillRun EXCEPT ![h] = [skillRun[h] EXCEPT !.deletes = @ \ {k}]]
      BY <1>1, <2>2
    <3>3. skillRun' = [skillRun EXCEPT ![h] = r]
      BY <3>1, <3>2
    <3> QED
      BY <2>2, <3>1, <3>3
  <2> QED
    BY <2>1, <2>2
<1>4. r \in RunType /\ Looked(r) /\ r.deletes = skillRun[h].deletes \ {k}
  <2>1. CASE skillRun[h].deletes = {k} /\ r = L!NoRun
    BY <2>1 DEF L!NoRun, RunType, Looked
  <2>2. CASE r = [skillRun[h] EXCEPT !.deletes = @ \ {k}]
    <3>1. /\ r \in RunType /\ r.writes = skillRun[h].writes /\ r.marks = skillRun[h].marks
          /\ r.seen = skillRun[h].seen /\ r.deletes = skillRun[h].deletes \ {k}
          /\ r.at = skillRun[h].at
      BY <1>0, <2>2 DEF RunType
    <3> QED
      BY <1>0, <3>1 DEF Looked
  <2> QED
    BY <1>3, <2>1, <2>2
<1>5. skillRun'[h] # skillRun[h]
  BY <1>0, <1>3, <1>4
<1>a. \A j \in L!Under(k) : j = k \/ k \in L!Above(j)
  BY DEF L!Under
<1>6. CASE /\ local' = [j \in LocalSkill |-> IF j \in L!Under(k) THEN L!Gone ELSE local[j]]
           /\ mine' = mine \ L!Under(k)
           /\ UNCHANGED faults
  <2>0. PICK gone : gone = L!Under(k)
    OBVIOUS
  <2>1. local' \in [LocalSkill -> Directory] /\ DirsOK' /\ mine' \subseteq LocalSkill
    <3>1. local' = [j \in LocalSkill |-> IF j \in gone THEN L!Gone ELSE local[j]]
      BY <1>6, <2>0
    <3>2. gone = L!Under(k) /\ mine' = mine \ gone
      BY <1>6, <2>0
    <3>3. local' \in [LocalSkill -> Directory] /\ DirsOK'
      BY <1>2, <3>1, <3>2, DirsRemoved
    <3> QED
      BY <1>0, <3>2, <3>3
  <2>2. SkillsInv'
    BY <1>1, <1>3, <1>4, <1>6, <2>1, RunMoves
  <2>3. ASSUME NEW j \in mine, local'[j] # local[j], j # k
        PROVE  k \in L!Above(j)
    BY <1>0, <1>6, <1>a, <2>3
  <2> QED
    BY <1>2, <1>5, <2>2, <2>3 DEF UserDirsOnly, L!SeenAround
<1>7. ASSUME L!Fault, NEW gone \in SUBSET (L!Under(k) \ {k}), NEW bare \in SUBSET L!Under(k),
             NEW torn \in SUBSET (L!Under(k) \X SkillFile),
             \A j \in gone : L!Under(j) \subseteq gone,
             local' = [j \in LocalSkill |-> IF j \in gone THEN L!Gone ELSE
               [there  |-> local[j].there,
                file   |-> [f \in SkillFile |-> IF <<j, f>> \in torn THEN "none"
                                              ELSE local[j].file[f]],
                marker |-> IF j \in bare THEN "none" ELSE local[j].marker]],
             mine' = mine \ gone
      PROVE  SkillsInv' /\ UserDirsOnly
  <2>1. L!Gone \in Directory /\ L!Gone.marker = "none" /\ ~L!Gone.there
    BY DEF L!Gone, Directory, L!Content
  <2>2. ASSUME NEW j \in LocalSkill, j \notin gone
        PROVE  /\ local'[j] \in Directory /\ local'[j].there = local[j].there
               /\ local'[j].marker \in {"none", local[j].marker}
               /\ j \notin L!Under(k) => local'[j] = local[j]
    <3>1. PICK left, mark : /\ left = [f \in SkillFile |-> IF <<j, f>> \in torn THEN "none"
                                                         ELSE local[j].file[f]]
                            /\ mark = IF j \in bare THEN "none" ELSE local[j].marker
      OBVIOUS
    <3>2. local'[j] = [there |-> local[j].there, file |-> left, marker |-> mark]
      BY <1>7, <2>2, <3>1
    <3>3. /\ left \in [SkillFile -> L!Content] /\ mark \in {"none", local[j].marker}
          /\ local[j].there \in BOOLEAN /\ local[j].marker \in {"none", "ours", "torn"}
      BY <1>0, <3>1 DEF Directory, L!Content
    <3>4. ASSUME j \notin L!Under(k) PROVE local'[j] = local[j]
      <4>1. mark = local[j].marker
        BY <1>7, <3>1, <3>4
      <4>2. left = local[j].file
        BY <1>0, <1>7, <3>1, <3>4 DEF Directory
      <4> QED
        BY <1>0, <3>2, <4>1, <4>2 DEF Directory
    <3> QED
      BY <3>2, <3>3, <3>4 DEF Directory
  <2>3. ASSUME NEW j \in gone PROVE j \in LocalSkill /\ local'[j] = L!Gone
    BY <1>7 DEF L!Under
  <2>4. local' \in [LocalSkill -> Directory] /\ mine' \subseteq LocalSkill
    <3>1. \A j \in LocalSkill : local'[j] \in Directory
      BY <2>1, <2>2, <2>3
    <3>2. local' = [j \in LocalSkill |-> local'[j]]
      BY <1>7
    <3> QED
      BY <1>0, <1>7, <3>1, <3>2
  <2>5. DirsOK'
    <3>1. \A j \in LocalSkill : ~local'[j].there => local'[j].marker = "none"
      BY <2>1, <2>2, <2>3 DEF SkillsInv, DirsOK
    <3>2. \A j \in mine' : local'[j].there /\ local'[j].marker # "ours"
      BY <1>0, <1>7, <2>2 DEF SkillsInv, DirsOK, L!Managed
    <3>3. ASSUME NEW j \in LocalSkill, NEW p \in L!Above(j), local'[j].there
          PROVE  local'[p].there
      <4>1. p \in LocalSkill /\ j \in L!Under(p)
        BY DEF L!Above, L!Under
      <4>2. j \notin gone
        BY <2>1, <2>3, <3>3
      <4>3. p \notin gone
        BY <1>7, <4>1, <4>2
      <4> QED
        BY <2>2, <3>3, <4>1, <4>2, <4>3 DEF SkillsInv, DirsOK
    <3> QED
      BY <3>1, <3>2, <3>3 DEF DirsOK, L!Managed
  <2>6. SkillsInv'
    BY <1>1, <1>3, <1>4, <1>7, <2>4, <2>5, RunMoves
  <2>7. ASSUME NEW j \in mine, local'[j] # local[j] PROVE j = k \/ k \in L!Above(j)
    <3>1. j \in LocalSkill
      BY <1>0
    <3>2. j \in L!Under(k)
      BY <1>7, <2>2, <2>7, <3>1
    <3> QED
      BY <1>a, <3>2
  <2> QED
    BY <1>0, <1>2, <1>5, <2>6, <2>7 DEF UserDirsOnly, L!SeenAround
<1>8. CASE L!Fault
  <2>1. PICK gone \in SUBSET (L!Under(k) \ {k}), bare \in SUBSET L!Under(k),
             torn \in SUBSET (L!Under(k) \X SkillFile) :
          /\ \A j \in gone : L!Under(j) \subseteq gone
          /\ local' = [j \in LocalSkill |-> IF j \in gone THEN L!Gone ELSE
               [there  |-> local[j].there,
                file   |-> [f \in SkillFile |-> IF <<j, f>> \in torn THEN "none"
                                              ELSE local[j].file[f]],
                marker |-> IF j \in bare THEN "none" ELSE local[j].marker]]
          /\ mine' = mine \ gone
    <3>1. ~(UNCHANGED faults)
      BY <1>0, <1>8, FaultMoves
    <3> QED
      BY <1>1, <3>1
  <2> QED
    BY <1>7, <1>8, <2>1
<1> QED
  BY <1>1, <1>6, <1>8

LEMMA SkillsCrash ==
  ASSUME SkillsInv, L!Crash
  PROVE  SkillsInv' /\ UserDirsOnly
<1>1. L!NoRun \in RunType /\ Looked(L!NoRun)
  BY DEF L!NoRun, RunType, Looked
<1>2. /\ skillRun' \in [L!Goroutine -> RunType]
      /\ \A h \in L!Goroutine : Looked(skillRun'[h])
  BY <1>1 DEF L!Crash
<1>3. faults' \in 0 .. MaxFaults
  BY FaultStep DEF L!Crash
<1>4. UNCHANGED <<local, mine, assigned, hub, listed, edits>>
  BY DEF L!Crash, L!Same
<1>5. DirsOK'
  BY <1>4 DEF SkillsInv, DirsOK, L!Managed
<1> QED
  BY <1>2, <1>3, <1>4, <1>5 DEF SkillsInv, SkillTypes, L!TypeOK, UserDirsOnly, Looked

\* What the user may do: anything, in the directory or in the hub.
LEMMA UserSteps ==
  ASSUME SkillsInv,
         \/ L!SaveAssignments
         \/ \E k \in LocalSkill :
              L!DeleteSkill(k) \/ L!UserRemoves(k) \/ \E f \in SkillFile : L!EditHub(k, f) \/ L!UserWrites(k, f)
  PROVE  SkillsInv' /\ UserDirsOnly
<1>0. /\ local \in [LocalSkill -> Directory] /\ mine \subseteq LocalSkill /\ L!TypeOK
  BY DEF SkillsInv, SkillTypes, L!TypeOK, Directory
<1>1. edits' \in 0 .. MaxEdits /\ edits' # edits
  BY EditStep DEF L!SaveAssignments, L!DeleteSkill, L!UserRemoves, L!EditHub, L!UserWrites
<1>2. UserDirsOnly
  BY <1>1 DEF UserDirsOnly
<1>3. UNCHANGED <<skillRun, faults>>
  BY DEF L!SaveAssignments, L!DeleteSkill, L!UserRemoves, L!EditHub, L!UserWrites
<1>4. ASSUME local' \in [LocalSkill -> Directory], mine' \subseteq LocalSkill, DirsOK',
             UNCHANGED <<assigned, hub, listed>>
      PROVE  SkillsInv'
  BY <1>0, <1>1, <1>3, <1>4 DEF SkillsInv, SkillTypes, L!TypeOK, Directory, Looked
<1>5. ASSUME UNCHANGED <<local, mine>>, assigned' \subseteq LocalSkill,
             listed' \subseteq LocalSkill,
             hub' \in [LocalSkill -> [SkillFile -> HubText \cup {"none"}]]
      PROVE  SkillsInv'
  <2>1. DirsOK'
    BY <1>5 DEF SkillsInv, DirsOK, L!Managed
  <2> QED
    BY <1>0, <1>1, <1>3, <1>5, <2>1 DEF SkillsInv, SkillTypes, L!TypeOK, Looked
<1>6. CASE L!SaveAssignments
  <2>1. assigned' \subseteq LocalSkill /\ UNCHANGED <<local, mine, hub, listed>>
    BY <1>6 DEF L!SaveAssignments
  <2> QED
    BY <1>0, <1>2, <1>5, <2>1 DEF L!TypeOK
<1>7. ASSUME NEW k \in LocalSkill, NEW f \in SkillFile, L!EditHub(k, f)
      PROVE  SkillsInv' /\ UserDirsOnly
  <2>1. PICK v \in HubText \cup {"none"} : hub' = [hub EXCEPT ![k][f] = v]
    BY <1>7 DEF L!EditHub
  <2>2. hub' \in [LocalSkill -> [SkillFile -> HubText \cup {"none"}]]
    <3>1. [hub[k] EXCEPT ![f] = v] \in [SkillFile -> HubText \cup {"none"}]
      BY <1>0 DEF L!TypeOK
    <3> QED
      BY <1>0, <2>1, <3>1 DEF L!TypeOK
  <2>3. /\ UNCHANGED <<local, mine>>
        /\ assigned' \subseteq LocalSkill /\ listed' \subseteq LocalSkill
    BY <1>0, <1>7 DEF L!EditHub, L!TypeOK, L!Above
  <2> QED
    BY <1>2, <1>5, <2>2, <2>3
<1>8. ASSUME NEW k \in LocalSkill, NEW f \in SkillFile, L!UserWrites(k, f)
      PROVE  SkillsInv' /\ UserDirsOnly
  <2>1. PICK d \in Directory : /\ local' = L!WithDirs(k, d) /\ d.marker = local[k].marker
    <3>1. [local[k] EXCEPT !.file[f] = "mine"] \in Directory
          /\ [local[k] EXCEPT !.file[f] = "mine"].marker = local[k].marker
      BY <1>0 DEF Directory, L!Content
    <3> QED
      BY <1>8, <3>1 DEF L!UserWrites
  <2>2. mine' = mine \cup {j \in {k} \cup L!Above(k) : ~local[j].there}
    BY <1>8 DEF L!UserWrites
  <2>3. mine' \subseteq LocalSkill
    BY <1>0, <2>2 DEF L!Above
  <2>4. ASSUME NEW j \in mine'
        PROVE  \/ j \in mine /\ j # k
               \/ d.marker # "ours" /\ j = k
               \/ local[j].marker # "ours" /\ j \in L!Above(k) /\ j # k
    BY <1>0, <2>1, <2>2, <2>3 DEF SkillsInv, DirsOK, L!Managed
  <2>5. local' \in [LocalSkill -> Directory] /\ DirsOK'
    BY <2>1, <2>3, <2>4, DirsKept
  <2>6. UNCHANGED <<assigned, hub, listed>>
    BY <1>8 DEF L!UserWrites
  <2> QED
    BY <1>2, <1>4, <2>3, <2>5, <2>6
<1>9. ASSUME NEW k \in LocalSkill, L!UserRemoves(k)
      PROVE  SkillsInv' /\ UserDirsOnly
  <2>0. PICK gone : gone = L!Under(k)
    OBVIOUS
  <2>1. /\ local' = [j \in LocalSkill |-> IF j \in gone THEN L!Gone ELSE local[j]]
        /\ mine' = mine \ gone
        /\ UNCHANGED <<assigned, hub, listed>>
    BY <1>9, <2>0 DEF L!UserRemoves
  <2>2. local' \in [LocalSkill -> Directory] /\ DirsOK'
    BY <2>0, <2>1, DirsRemoved
  <2> QED
    BY <1>0, <1>2, <1>4, <2>1, <2>2
<1>10. ASSUME NEW k \in LocalSkill, L!DeleteSkill(k)
       PROVE  SkillsInv' /\ UserDirsOnly
  <2>1. [f \in SkillFile |-> "none"] \in [SkillFile -> HubText \cup {"none"}]
    OBVIOUS
  <2>2. hub' \in [LocalSkill -> [SkillFile -> HubText \cup {"none"}]]
    BY <1>0, <1>10, <2>1 DEF L!DeleteSkill, L!TypeOK
  <2>3. /\ UNCHANGED <<local, mine>>
        /\ assigned' \subseteq LocalSkill /\ listed' \subseteq LocalSkill
    BY <1>0, <1>10 DEF L!DeleteSkill, L!TypeOK
  <2> QED
    BY <1>2, <1>5, <2>2, <2>3
<1> QED
  BY <1>6, <1>7, <1>8, <1>9, <1>10

LEMMA SkillsNext ==
  ASSUME SkillsInv, [L!Next]_(L!vars) PROVE SkillsInv' /\ [UserDirsOnly]_(L!vars)
<1>1. CASE UNCHANGED L!vars
  <2>1. DirsOK'
    BY <1>1 DEF SkillsInv, DirsOK, L!Managed, L!vars
  <2> QED
    BY <1>1, <2>1 DEF SkillsInv, SkillTypes, L!TypeOK, Looked, L!vars
<1>2. ASSUME NEW h \in L!Goroutine,
             \/ L!StartApply(h) \/ L!StartCleanup(h)
             \/ L!PlanSkill(h) \/ L!EndPlan(h) \/ L!CollectDeletes(h)
      PROVE  SkillsInv' /\ UserDirsOnly
  <2>1. SkillsInv'
    BY <1>2, PlanSteps
  <2>2. UNCHANGED local
    BY <1>2 DEF L!StartApply, L!StartCleanup, L!PlanSkill, L!EndPlan, L!CollectDeletes
  <2> QED
    BY <2>1, <2>2 DEF UserDirsOnly
<1>3. CASE L!Next
  <2>1. ASSUME NEW h \in Applier, L!StartApply(h) \/ L!ApplyStep(h)
        PROVE  SkillsInv' /\ UserDirsOnly
    BY <1>2, <2>1, FileStep, MarkerStep DEF L!ApplyStep, L!Goroutine
  <2>2. ASSUME NEW c \in Cleaner, L!StartCleanup(c) \/ L!CleanStep(c)
        PROVE  SkillsInv' /\ UserDirsOnly
    BY <1>2, <2>2, RemoveStep DEF L!CleanStep, L!Goroutine
  <2> QED
    BY <1>3, <2>1, <2>2, SkillsCrash, UserSteps DEF L!Next
<1> QED
  BY <1>1, <1>3

\* What is in a directory the user made is changed only by himself, or by a run
\* that looked at it, or at a directory around it, while that was not the user's.
THEOREM OnlyManagedDirsChange == L!Spec => UserDirsKept
<1>1. SkillsInv /\ [L!Next]_(L!vars) => [UserDirsOnly]_(L!vars)
  BY SkillsNext
<1> QED
  BY <1>1, SkillsInit, SkillsNext, PTL DEF L!Spec, UserDirsKept, L!UserDirsKept, UserDirsOnly

-----------------------------------------------------------------------------
(*                             GrowthProposals                             *)

\* What AppliedOnce says of one proposal.
Done(p) == G!Present(p) \/ p \in removed \/ (p \in Edits /\ textLost)

\* A request holds a text without repetitions, and marks a proposal applied
\* only after it has written its target.
ReqOK(h) ==
  /\ req[h].at \in {"idle", "read", "write", "draft", "mark"}
  /\ req[h].at # "idle" => req[h].p \in G!Proposal
  /\ req[h].at \in {"read", "write"} => req[h].p \in Edits
  /\ req[h].at = "draft" => req[h].p \in Drafts \ Edits
  /\ req[h].at = "write" => req[h].text \in Seq(Edits) /\ G!IsInjective(req[h].text)
  /\ req[h].at = "mark" => /\ req[h].as \in G!Status
                           /\ req[h].as = "applied" => Done(req[h].p)

GrowthInv ==
  /\ status \in [G!Proposal -> G!Status]
  /\ sections \in Seq(Edits) /\ G!IsInjective(sections)
  /\ candidate \in [Drafts -> {"none", "suggested", "edited"}]
  /\ DOMAIN req = Handler /\ \A h \in Handler : ReqOK(h)
  /\ removed \subseteq G!Proposal /\ textLost \in BOOLEAN
  /\ \A p \in G!Proposal : status[p] = "applied" => Done(p)

\* A section is added once, and none is lost by it.
LEMMA SectionAdded ==
  ASSUME NEW text \in Seq(Edits), G!IsInjective(text), NEW p \in Edits
  PROVE  /\ G!AddSection(text, p) \in Seq(Edits)
         /\ G!IsInjective(G!AddSection(text, p))
         /\ G!Contains(G!AddSection(text, p), p)
         /\ \A q : G!Contains(text, q) => G!Contains(G!AddSection(text, p), q)
<1>1. CASE G!Contains(text, p)
  BY <1>1 DEF G!AddSection
<1>2. CASE ~G!Contains(text, p)
  <2> DEFINE t == Append(text, p)
  <2>1. /\ t \in Seq(Edits) /\ Len(t) = Len(text) + 1 /\ t[Len(t)] = p
        /\ \A i \in 1..Len(text) : t[i] = text[i]
    OBVIOUS
  <2>2. \A i \in 1..Len(text) : text[i] # p
    BY <1>2 DEF G!Contains
  <2>3. G!IsInjective(t)
    BY <2>1, <2>2 DEF G!IsInjective
  <2>4. G!Contains(t, p) /\ \A q : G!Contains(text, q) => G!Contains(t, q)
    BY <2>1 DEF G!Contains
  <2> QED
    BY <1>2, <2>1, <2>3, <2>4 DEF G!AddSection
<1> QED
  BY <1>1, <1>2

\* What is left when one place of a text is taken out.
LEMMA SectionRemoved ==
  ASSUME NEW text \in Seq(Edits), G!IsInjective(text), NEW i \in DOMAIN text
  PROVE  /\ G!RemoveAt(text, i) \in Seq(Edits)
         /\ G!IsInjective(G!RemoveAt(text, i))
         /\ \A q : G!Contains(text, q) /\ q # text[i] => G!Contains(G!RemoveAt(text, i), q)
<1> DEFINE t == G!RemoveAt(text, i)
<1>1. /\ t \in Seq(Edits) /\ Len(t) = Len(text) - 1
      /\ \A j \in 1..Len(t) : t[j] = text[IF j < i THEN j ELSE j + 1]
  <2> DEFINE a == SubSeq(text, 1, i - 1)
             b == SubSeq(text, i + 1, Len(text))
  <2>1. i \in 1..Len(text) /\ Len(text) \in Nat
    OBVIOUS
  <2>2. a \in Seq(Edits) /\ Len(a) = i - 1 /\ \A j \in 1..(i - 1) : a[j] = text[j]
    <3>1. i - 1 \in Int /\ \A j \in 1..(i - 1) : text[j] \in Edits
      BY <2>1
    <3> QED
      BY <2>1, <3>1, SubSeqProperties
  <2>3. b \in Seq(Edits) /\ Len(b) = Len(text) - i /\ \A j \in 1..Len(b) : b[j] = text[i + j]
    <3>1. i + 1 \in Int /\ \A j \in (i + 1)..Len(text) : text[j] \in Edits
      BY <2>1
    <3>2. /\ b \in Seq(Edits)
          /\ Len(b) = IF i + 1 <= Len(text) THEN Len(text) - (i + 1) + 1 ELSE 0
          /\ \A j \in 1..(Len(text) - (i + 1) + 1) : b[j] = text[(i + 1) + j - 1]
      BY <2>1, <3>1, SubSeqProperties
    <3> HIDE DEF b
    <3>3. Len(b) = Len(text) - i
      BY <2>1, <3>2
    <3>4. ASSUME NEW j \in 1..Len(b) PROVE b[j] = text[i + j]
      <4>1. (i + 1) + j - 1 = i + j /\ j \in 1..(Len(text) - (i + 1) + 1)
        BY <2>1, <3>3
      <4> QED
        BY <3>2, <4>1
    <3> QED
      BY <3>2, <3>3, <3>4
  <2>4. t = a \o b
    BY DEF G!RemoveAt
  <2> HIDE DEF a, b, t
  <2>5. t \in Seq(Edits) /\ Len(t) = Len(a) + Len(b)
    BY <2>2, <2>3, <2>4, ConcatProperties
  <2>6. \A j \in 1..Len(t) : t[j] = IF j <= Len(a) THEN a[j] ELSE b[j - Len(a)]
    BY <2>2, <2>3, <2>4, ConcatProperties
  <2>8. Len(a) = i - 1 /\ Len(t) = (i - 1) + (Len(text) - i)
    BY <2>2, <2>3, <2>5
  <2>7. ASSUME NEW j \in 1..Len(t) PROVE t[j] = text[IF j < i THEN j ELSE j + 1]
    <3>1. CASE j < i
      BY <2>1, <2>2, <2>6, <3>1
    <3>2. CASE ~(j < i)
      <4>1. i \in Nat /\ j \in Nat /\ Len(a) = i - 1 /\ j <= (i - 1) + (Len(text) - i) /\ i <= j
        BY <2>1, <2>8, <3>2
      <4>2. /\ j - (i - 1) \in 1..(Len(text) - i) /\ i + (j - (i - 1)) = j + 1
            /\ ~(j <= i - 1)
        <5>1. ASSUME NEW n \in Nat, NEW x \in Nat, NEW y \in Nat, x <= y, y <= (x - 1) + (n - x)
              PROVE  /\ y - (x - 1) \in 1..(n - x) /\ x + (y - (x - 1)) = y + 1
                     /\ ~(y <= x - 1)
          BY <5>1
        <5> QED
          BY <2>1, <4>1, <5>1
      <4>3. t[j] = b[j - (i - 1)]
        BY <2>6, <4>1, <4>2
      <4> QED
        BY <2>3, <3>2, <4>2, <4>3
    <3> QED
      BY <3>1, <3>2
  <2> QED
    BY <2>1, <2>2, <2>3, <2>5, <2>7
<1> HIDE DEF t
<1>2. G!IsInjective(t)
  <2> SUFFICES ASSUME NEW j \in 1..Len(t), NEW k \in 1..Len(t), t[j] = t[k] PROVE j = k
    BY <1>1 DEF G!IsInjective
  <2> DEFINE up(x) == IF x < i THEN x ELSE x + 1
  <2>1. up(j) \in 1..Len(text) /\ up(k) \in 1..Len(text) /\ i \in Nat
    BY <1>1
  <2>2. text[up(j)] = text[up(k)]
    BY <1>1
  <2>3. up(j) = up(k)
    BY <2>1, <2>2 DEF G!IsInjective
  <2> QED
    BY <2>1, <2>3
<1>3. ASSUME NEW q, G!Contains(text, q), q # text[i] PROVE G!Contains(t, q)
  <2>1. PICK j \in 1..Len(text) : text[j] = q
    BY <1>3 DEF G!Contains
  <2>2. CASE j < i
    BY <1>1, <2>1, <2>2 DEF G!Contains
  <2>3. CASE j > i
    <3>1. j - 1 \in 1..Len(t) /\ t[j - 1] = q
      BY <1>1, <2>1, <2>3
    <3> QED
      BY <3>1 DEF G!Contains
  <2> QED
    BY <1>3, <2>1, <2>2, <2>3
<1> QED
  BY <1>1, <1>2, <1>3 DEF t

LEMMA GrowthInit == G!Init => GrowthInv
<1> SUFFICES ASSUME G!Init PROVE GrowthInv
  OBVIOUS
<1>1. sections = <<>> /\ sections \in Seq(Edits) /\ G!IsInjective(sections)
  BY DEF G!Init, G!IsInjective
<1>2. \A h \in Handler : ReqOK(h)
  BY DEF G!Init, ReqOK, G!NoReq
<1>3. \A p \in G!Proposal : status[p] = "none"
  BY DEF G!Init
<1> QED
  BY <1>1, <1>2, <1>3 DEF G!Init, GrowthInv, G!Status

\* Steps that change the request and at most a status.
LEMMA RequestStep ==
  ASSUME GrowthInv, NEW h \in Handler, NEW r, G!Goto(h, r),
         UNCHANGED <<sections, candidate, removed, textLost>>,
         \/ status' = status
         \/ \E p \in G!Proposal, s \in G!Status :
              /\ status' = [status EXCEPT ![p] = s]
              /\ s = "applied" => Done(p),
         r.at \in {"idle", "read", "write", "draft", "mark"},
         r.at # "idle" => r.p \in G!Proposal,
         r.at \in {"read", "write"} => r.p \in Edits,
         r.at = "draft" => r.p \in Drafts \ Edits,
         r.at = "write" => r.text \in Seq(Edits) /\ G!IsInjective(r.text),
         r.at = "mark" => r.as \in G!Status /\ (r.as = "applied" => Done(r.p))
  PROVE  GrowthInv'
<1>1. \A p : Done(p)' <=> Done(p)
  BY DEF Done, G!Present, G!Contains
<1>2. /\ DOMAIN req' = Handler
      /\ req'[h] = r
      /\ \A g \in Handler : g # h => req'[g] = req[g]
  BY DEF G!Goto, GrowthInv
<1>3. \A g \in Handler : ReqOK(g)'
  BY <1>1, <1>2 DEF GrowthInv, ReqOK
<1>4. /\ status' \in [G!Proposal -> G!Status]
      /\ \A p \in G!Proposal : status'[p] = "applied" => Done(p)'
  BY <1>1 DEF GrowthInv
<1> QED
  BY <1>2, <1>3, <1>4 DEF GrowthInv

LEMMA ReadsAndMarks ==
  ASSUME GrowthInv, NEW h \in Handler,
         \/ \E p \in G!Proposal : \/ G!Propose(h, p) \/ G!Apply(h, p)
                                  \/ \E s \in {"accepted", "dismissed"} : G!UpdateStatus(h, p, s)
         \/ G!ReadTarget(h) \/ G!Mark(h) \/ G!Fail(h)
  PROVE  GrowthInv'
<1>1. ASSUME NEW p \in G!Proposal, G!Propose(h, p) PROVE GrowthInv'
  <2> DEFINE r == [at |-> "mark", p |-> p, as |-> "pending"]
  <2>1. G!Goto(h, r) /\ r.at = "mark" /\ r.p = p /\ r.as = "pending"
    BY <1>1 DEF G!Propose
  <2> HIDE DEF r
  <2> QED
    BY <1>1, <2>1, RequestStep DEF G!Propose, G!Status
<1>2. ASSUME NEW p \in G!Proposal, G!Apply(h, p) PROVE GrowthInv'
  <2> DEFINE r == [at |-> IF p \in Edits THEN "read" ELSE "draft", p |-> p]
  <2>1. G!Goto(h, r) /\ r.p = p /\ r.at = IF p \in Edits THEN "read" ELSE "draft"
    BY <1>2 DEF G!Apply
  <2> HIDE DEF r
  <2> QED
    BY <1>2, <2>1, RequestStep DEF G!Apply, G!Proposal
<1>3. ASSUME NEW p \in G!Proposal, NEW s \in {"accepted", "dismissed"}, G!UpdateStatus(h, p, s)
      PROVE  GrowthInv'
  <2> DEFINE r == [at |-> "mark", p |-> p, as |-> s]
  <2>1. G!Goto(h, r) /\ r.at = "mark" /\ r.p = p /\ r.as = s
    BY <1>3 DEF G!UpdateStatus
  <2> HIDE DEF r
  <2> QED
    BY <1>3, <2>1, RequestStep DEF G!UpdateStatus, G!Status
<1>4. CASE G!ReadTarget(h)
  <2> DEFINE r == [at |-> "write", p |-> req[h].p, text |-> sections]
  <2>1. G!Goto(h, r) /\ r.at = "write" /\ r.p = req[h].p /\ r.text = sections
    BY <1>4 DEF G!ReadTarget
  <2>2. req[h].p \in Edits
    BY <1>4 DEF G!ReadTarget, GrowthInv, ReqOK
  <2> HIDE DEF r
  <2> QED
    BY <1>4, <2>1, <2>2, RequestStep DEF G!ReadTarget, G!Proposal, GrowthInv
<1>5. CASE G!Mark(h)
  <2>1. /\ req[h].p \in G!Proposal /\ req[h].as \in G!Status
        /\ req[h].as = "applied" => Done(req[h].p)
    BY <1>5 DEF G!Mark, GrowthInv, ReqOK
  <2>2. G!Goto(h, G!NoReq) /\ G!NoReq.at = "idle"
    BY <1>5 DEF G!Mark, G!NoReq
  <2> QED
    BY <1>5, <2>1, <2>2, RequestStep DEF G!Mark
<1>6. CASE G!Fail(h)
  <2>1. G!Goto(h, G!NoReq) /\ G!NoReq.at = "idle"
    BY <1>6 DEF G!Fail, G!NoReq
  <2> QED
    BY <1>6, <2>1, RequestStep DEF G!Fail
<1> QED
  BY <1>1, <1>2, <1>3, <1>4, <1>5, <1>6

LEMMA TargetWritten ==
  ASSUME GrowthInv, NEW h \in Handler, G!WriteTarget(h)
  PROVE  GrowthInv'
<1>0. PICK p, text : p = req[h].p /\ text = req[h].text
  OBVIOUS
<1>1. /\ req[h].at = "write" /\ p \in Edits /\ p \in G!Proposal
      /\ text \in Seq(Edits) /\ G!IsInjective(text)
  BY <1>0 DEF G!WriteTarget, GrowthInv, ReqOK
<1>2. /\ sections' = G!AddSection(text, p)
      /\ textLost' = (textLost \/ text # sections)
      /\ removed' = removed \ {p}
      /\ UNCHANGED <<status, candidate>>
  BY <1>0 DEF G!WriteTarget
<1>3. /\ sections' \in Seq(Edits) /\ G!IsInjective(sections') /\ G!Contains(sections', p)
      /\ \A q : G!Contains(text, q) => G!Contains(sections', q)
  BY <1>1, <1>2, SectionAdded
<1>4. ASSUME NEW q, Done(q) PROVE Done(q)'
  <2>1. CASE q \in Edits
    <3>1. textLost' \/ (text = sections /\ textLost' = textLost)
      BY <1>2 DEF GrowthInv
    <3>2. CASE textLost'
      BY <2>1, <3>2 DEF Done
    <3>3. CASE q = p
      BY <1>1, <1>3, <3>3 DEF Done, G!Present
    <3>4. CASE q # p /\ text = sections /\ textLost' = textLost
      BY <1>2, <1>3, <1>4, <2>1, <3>4 DEF Done, G!Present
    <3> QED
      BY <3>1, <3>2, <3>3, <3>4
  <2>2. CASE q \notin Edits
    BY <1>1, <1>2, <1>4, <2>2 DEF Done, G!Present
  <2> QED
    BY <2>1, <2>2
<1>5. Done(p)'
  BY <1>1, <1>3 DEF Done, G!Present
<1> DEFINE r == [at |-> "mark", p |-> p, as |-> "applied"]
<1>6. /\ DOMAIN req' = Handler /\ req'[h] = r
      /\ \A g \in Handler : g # h => req'[g] = req[g]
  BY <1>0 DEF G!WriteTarget, G!Goto, GrowthInv
<1>7. \A g \in Handler : ReqOK(g)'
  BY <1>1, <1>4, <1>5, <1>6 DEF GrowthInv, ReqOK, G!Status
<1>8. textLost' \in BOOLEAN
  BY <1>2 DEF GrowthInv
<1>9. \A q \in G!Proposal : status'[q] = "applied" => Done(q)'
  BY <1>2, <1>4 DEF GrowthInv
<1> QED
  BY <1>2, <1>3, <1>6, <1>7, <1>8, <1>9 DEF GrowthInv

LEMMA DraftWritten ==
  ASSUME GrowthInv, NEW h \in Handler, G!WriteDraft(h)
  PROVE  GrowthInv'
<1>0. PICK p : p = req[h].p
  OBVIOUS
<1> DEFINE r == [at |-> "mark", p |-> p, as |-> "applied"]
<1>1. req[h].at = "draft" /\ p \in Drafts /\ p \notin Edits /\ p \in G!Proposal
  BY <1>0 DEF G!WriteDraft, GrowthInv, ReqOK
<1>2. /\ candidate' = [candidate EXCEPT ![p] = "suggested"]
      /\ removed' = removed \ {p}
      /\ UNCHANGED <<status, sections, textLost>>
  BY <1>0 DEF G!WriteDraft
<1>3. candidate'[p] = "suggested" /\ \A q : q # p => candidate'[q] = candidate[q]
  BY <1>1, <1>2 DEF GrowthInv
<1>4. Done(p)' /\ \A q : Done(q) => Done(q)'
  BY <1>1, <1>2, <1>3 DEF Done, G!Present
<1>5. /\ DOMAIN req' = Handler /\ req'[h] = r
      /\ \A g \in Handler : g # h => req'[g] = req[g]
  BY <1>0 DEF G!WriteDraft, G!Goto, GrowthInv
<1>6. \A g \in Handler : ReqOK(g)'
  BY <1>1, <1>4, <1>5 DEF GrowthInv, ReqOK, G!Status
<1> QED
  BY <1>2, <1>4, <1>5, <1>6 DEF GrowthInv

LEMMA UserStep ==
  ASSUME GrowthInv,
         \/ \E p \in Edits : G!UserRemoves(p)
         \/ \E p \in Drafts : G!UserEditsDraft(p, "none") \/ G!UserEditsDraft(p, "edited")
  PROVE  GrowthInv'
<1>1. ASSUME NEW p \in Edits, G!UserRemoves(p) PROVE GrowthInv'
  <2>1. PICK i \in DOMAIN sections : sections[i] = p /\ sections' = G!RemoveAt(sections, i)
    BY <1>1 DEF G!UserRemoves
  <2>2. removed' = removed \cup {p} /\ UNCHANGED <<status, candidate, req, textLost>>
    BY <1>1 DEF G!UserRemoves
  <2>3. /\ sections' \in Seq(Edits) /\ G!IsInjective(sections')
        /\ \A q : G!Contains(sections, q) /\ q # p => G!Contains(sections', q)
    BY <2>1, SectionRemoved DEF GrowthInv
  <2>4. \A q : Done(q) => Done(q)'
    BY <2>2, <2>3 DEF Done, G!Present
  <2>5. \A g \in Handler : ReqOK(g)'
    BY <2>2, <2>4 DEF GrowthInv, ReqOK
  <2> QED
    BY <2>2, <2>3, <2>4, <2>5 DEF GrowthInv, G!Proposal
<1>2. ASSUME NEW p \in Drafts, NEW new \in {"none", "edited"}, G!UserEditsDraft(p, new)
      PROVE  GrowthInv'
  <2>1. /\ candidate' = [candidate EXCEPT ![p] = new]
        /\ removed' = IF new = "none" THEN removed \cup {p} ELSE removed
        /\ UNCHANGED <<status, sections, req, textLost>>
    BY <1>2 DEF G!UserEditsDraft
  <2>2. candidate'[p] = new /\ \A q : q # p => candidate'[q] = candidate[q]
    BY <2>1 DEF GrowthInv
  <2>3. \A q : Done(q) => Done(q)'
    BY <2>1, <2>2 DEF Done, G!Present
  <2>4. \A g \in Handler : ReqOK(g)'
    BY <2>1, <2>3 DEF GrowthInv, ReqOK
  <2> QED
    BY <2>1, <2>3, <2>4 DEF GrowthInv, G!Proposal
<1> QED
  BY <1>1, <1>2

LEMMA GrowthNext == GrowthInv /\ [G!Next]_(G!vars) => GrowthInv'
<1> SUFFICES ASSUME GrowthInv, [G!Next]_(G!vars) PROVE GrowthInv'
  OBVIOUS
<1>1. CASE UNCHANGED G!vars
  BY <1>1 DEF GrowthInv, ReqOK, Done, G!Present, G!Contains, G!vars
<1>2. CASE G!Next
  BY <1>2, ReadsAndMarks, TargetWritten, DraftWritten, UserStep DEF G!Next
<1> QED
  BY <1>1, <1>2

LEMMA GrowthPromise == GrowthInv => AppliedOnce
  BY DEF GrowthInv, Done, AppliedOnce, G!AppliedOnce

\* However requests overlap, fail and are repeated, a section is in the skill
\* once; and what is marked applied is there, or was taken out by the user, or
\* was lost with a text that a request wrote back without having read it.
THEOREM AppliedIsThere == G!Spec => []AppliedOnce
  BY GrowthInit, GrowthNext, GrowthPromise, PTL DEF G!Spec

-----------------------------------------------------------------------------
(*                                 Projects                                *)

CreateReq  == [at : {"dir", "context", "log"}, op : {"create"},
               status : {"active"}, context : {0}]
UpdateReq  == [at : {"context", "dir", "row"}, op : {"update"},
               status : {"active"}, context : ContextText]
ReadReq    == [at : {"read"}, op : {"append"}, event : 1 .. MaxLines]
LogReq     == [at : {"log"}, op : {"append"}, event : 1 .. MaxLines,
               copy : SUBSET (1 .. MaxLines)]
LookupReq  == [at : {"get"}, op : {"append"}, event : 1 .. MaxLines]
AppendReq  == [at : {"dir", "row"}, op : {"append"}, status : {"active", "archived"},
               context : ContextText, event : 1 .. MaxLines]
FreezeReq  == [at : {"get"}, op : {"archive"}]
ArchiveReq == [at : {"dir"}, op : {"archive"}, status : {"archived"},
               context : ContextText, event : {0}]
ActiveReq  == CreateReq \cup UpdateReq \cup ReadReq \cup LogReq \cup LookupReq
              \cup AppendReq \cup FreezeReq \cup ArchiveReq

ContextFile == {{}} \cup {{c} : c \in ContextText}

ProjectTypes ==
  /\ row = {} \/ \E p \in P!Project : row = {p}
  /\ events \subseteq 1 .. MaxLines /\ log \subseteq 1 .. MaxLines
  /\ context \in ContextFile /\ dir \in P!Project \cup {P!NoDir}
  /\ projectReq \in [Handler -> ActiveReq \cup {P!NoReq}]
  /\ appended \in 0 .. MaxLines
  /\ disturbed \in BOOLEAN /\ erased \in BOOLEAN

\* A line stays in the log from the time it is written.
LinesOK ==
  /\ ~erased => events \subseteq log
  /\ \A h \in Handler :
       projectReq[h] \in LookupReq \cup AppendReq => projectReq[h].event \in log \/ erased

RestAgrees == \A p \in row :
  /\ context = {p.context} /\ (dir.context = p.context \/ p.context = 0)
  /\ dir.status = p.status \/ p.status = "archived"

\* What a request that runs alone has done so far.
Alone(r) ==
  /\ r \in CreateReq =>
       /\ row = {[status |-> "active", context |-> 0]} /\ log = {} /\ events = {}
       /\ r.at # "dir" => dir.status = "active"
       /\ r.at = "log" => context = {0}
  /\ r \in UpdateReq =>
       /\ log = events /\ row # {}
       /\ r.at = "context" => RestAgrees
       /\ r.at # "context" => context = {r.context}
       /\ r.at = "row" => /\ dir.status = "active"
                          /\ dir.context = r.context \/ r.context = 0
  /\ r \in ReadReq \cup LogReq \cup LookupReq \cup AppendReq => RestAgrees /\ row # {}
  /\ r \in ReadReq => log = events
  /\ r \in LogReq => log = events /\ r.copy = log
  /\ r \in LookupReq \cup AppendReq => log = events \cup {r.event}
  /\ r \in AppendReq => \A p \in row : r.status = p.status /\ r.context = p.context
  /\ r \in FreezeReq \cup ArchiveReq =>
       /\ log = events /\ RestAgrees
       /\ \A p \in row : p.status = "archived"
  /\ r \in ArchiveReq => \A p \in row : r.context = p.context

Undisturbed ==
  /\ ~erased
  /\ row = {} => log = {} /\ events = {}
  /\ \A h, g \in Handler :
       projectReq[h] # P!NoReq /\ projectReq[g] # P!NoReq => h = g
  /\ (\A h \in Handler : projectReq[h] = P!NoReq) => log = events /\ RestAgrees
  /\ \A h \in Handler : Alone(projectReq[h])

ProjectInv == ProjectTypes /\ LinesOK /\ (~disturbed => Undisturbed)

LEMMA ReqKinds ==
  ASSUME NEW r
  PROVE  /\ P!NoReq \notin ActiveReq
         /\ r \in CreateReq => r \notin UpdateReq \cup ReadReq \cup LogReq \cup LookupReq \cup AppendReq \cup FreezeReq \cup ArchiveReq
         /\ r \in UpdateReq => r \notin ReadReq \cup LogReq \cup LookupReq \cup AppendReq \cup FreezeReq \cup ArchiveReq
         /\ r \in ReadReq => r \notin LogReq \cup LookupReq \cup AppendReq \cup FreezeReq \cup ArchiveReq
         /\ r \in LogReq => r \notin LookupReq \cup AppendReq \cup FreezeReq \cup ArchiveReq
         /\ r \in LookupReq => r \notin AppendReq \cup FreezeReq \cup ArchiveReq
         /\ r \in AppendReq => r \notin FreezeReq \cup ArchiveReq
         /\ r \in FreezeReq => r \notin ArchiveReq
<1> USE DEF CreateReq, UpdateReq, ReadReq, LogReq, LookupReq, AppendReq, FreezeReq, ArchiveReq
<1>1. P!NoReq.at = "idle" /\ (r \in ActiveReq => r.at # "idle")
  BY DEF P!NoReq, ActiveReq
<1>1a. P!NoReq \notin ActiveReq
  BY DEF P!NoReq, ActiveReq
<1>2. r \in CreateReq => r.op = "create"
  OBVIOUS
<1>3. r \in UpdateReq => r.op = "update"
  OBVIOUS
<1>4. r \in ReadReq => r.op = "append" /\ r.at = "read"
  OBVIOUS
<1>5. r \in LogReq => r.op = "append" /\ r.at = "log"
  OBVIOUS
<1>6. r \in LookupReq => r.op = "append" /\ r.at = "get"
  OBVIOUS
<1>7. r \in AppendReq => r.op = "append" /\ r.at \in {"dir", "row"}
  OBVIOUS
<1>8. r \in FreezeReq => r.op = "archive" /\ r.at = "get"
  OBVIOUS
<1>9. r \in ArchiveReq => r.op = "archive" /\ r.at = "dir"
  OBVIOUS
<1> HIDE DEF CreateReq, UpdateReq, ReadReq, LogReq, LookupReq, AppendReq, FreezeReq, ArchiveReq
<1> QED
  BY <1>1a, <1>2, <1>3, <1>4, <1>5, <1>6, <1>7, <1>8, <1>9

LEMMA ProjectInit == P!Init => ProjectInv
<1> SUFFICES ASSUME P!Init PROVE ProjectInv
  OBVIOUS
<1>1. ProjectTypes
  <2>1. 0 \in 0 .. MaxLines
    BY BoundAssumption
  <2> QED
    BY <2>1, ContextAssumption DEF P!Init, ProjectTypes, ContextFile
<1>2. \A h \in Handler : projectReq[h] = P!NoReq /\ projectReq[h] \notin ActiveReq
  BY ReqKinds DEF P!Init
<1>3. LinesOK
  BY <1>2 DEF P!Init, LinesOK, ActiveReq
<1>4. Undisturbed
  BY <1>2 DEF P!Init, Undisturbed, RestAgrees, Alone, ActiveReq
<1> QED
  BY <1>1, <1>3, <1>4 DEF ProjectInv

\* What is common to all steps: one request moves on, lines are added, and the
\* other requests, if nothing was disturbed, are idle.
LEMMA ProjectMove ==
  ASSUME ProjectInv, NEW h \in Handler, NEW r \in ActiveReq \cup {P!NoReq}, P!Goto(h, r),
         row' = {} \/ \E p \in P!Project : row' = {p},
         events' \subseteq 1 .. MaxLines, log' \subseteq 1 .. MaxLines,
         context' \in ContextFile, dir' \in P!Project \cup {P!NoDir},
         appended' \in 0 .. MaxLines, disturbed' \in BOOLEAN, erased' \in BOOLEAN,
         erased => erased',
         ~erased' => log \subseteq log' /\ events' \subseteq log',
         r \in LookupReq \cup AppendReq => r.event \in log' \/ erased',
         ~disturbed' => /\ \A g \in Handler : g # h => projectReq[g] = P!NoReq
                        /\ ~erased'
                        /\ row' = {} => log' = {} /\ events' = {}
                        /\ Alone(r)'
                        /\ r = P!NoReq => log' = events' /\ RestAgrees'
  PROVE  ProjectInv'
<1>1. /\ projectReq' \in [Handler -> ActiveReq \cup {P!NoReq}]
      /\ projectReq'[h] = r
      /\ \A g \in Handler : g # h => projectReq'[g] = projectReq[g]
  BY DEF P!Goto, ProjectInv, ProjectTypes
<1>2. ProjectTypes'
  BY <1>1 DEF ProjectTypes
<1>3. LinesOK'
  BY <1>1 DEF ProjectInv, LinesOK
<1>4. ASSUME ~disturbed' PROVE Undisturbed'
  <2>1. \A g \in Handler : g # h => projectReq'[g] = P!NoReq
    BY <1>1, <1>4
  <2>2. \A g \in Handler : Alone(projectReq[g])'
    <3>1. Alone(P!NoReq)'
      BY ReqKinds DEF Alone, ActiveReq
    <3> QED
      BY <1>1, <1>4, <2>1, <3>1 DEF Alone
  <2>3. \A g \in Handler : projectReq'[g] # P!NoReq => g = h
    BY <2>1
  <2> QED
    BY <1>1, <1>4, <2>2, <2>3 DEF Undisturbed
<1> QED
  BY <1>2, <1>3, <1>4 DEF ProjectInv

LEMMA BeginStep ==
  ASSUME ProjectInv, NEW h \in Handler, NEW r \in ActiveReq, r \notin LookupReq \cup AppendReq,
         P!Begin(h, r), row' = {} \/ \E p \in P!Project : row' = {p},
         row' = {} => row = {}, appended' \in 0 .. MaxLines,
         (~disturbed /\ log = events /\ RestAgrees) => Alone(r)'
  PROVE  ProjectInv'
<1>1. /\ P!Goto(h, r) /\ UNCHANGED <<log, context, dir, events, erased>>
      /\ projectReq[h] = P!NoReq
      /\ disturbed' = (disturbed \/ \E other \in Handler : projectReq[other] # P!NoReq)
  BY DEF P!Begin, P!tree
<1>2. /\ events' \subseteq 1 .. MaxLines /\ log' \subseteq 1 .. MaxLines
      /\ context' \in ContextFile /\ dir' \in P!Project \cup {P!NoDir}
      /\ disturbed' \in BOOLEAN /\ erased' \in BOOLEAN
  BY <1>1 DEF ProjectInv, ProjectTypes
<1>3. ~erased' => log \subseteq log' /\ events' \subseteq log'
  BY <1>1 DEF ProjectInv, LinesOK
<1>4. ASSUME ~disturbed'
      PROVE  /\ \A g \in Handler : g # h => projectReq[g] = P!NoReq
             /\ ~erased'
             /\ row' = {} => log' = {} /\ events' = {}
             /\ Alone(r)'
  <2>1. ~disturbed /\ \A g \in Handler : projectReq[g] = P!NoReq
    BY <1>1, <1>4
  <2>2. ~erased /\ log = events /\ RestAgrees /\ (row = {} => log = {} /\ events = {})
    BY <2>1 DEF ProjectInv, Undisturbed
  <2> QED
    BY <1>1, <2>1, <2>2
<1>5. r # P!NoReq
  BY ReqKinds
<1> QED
  BY <1>1, <1>2, <1>3, <1>4, <1>5, ProjectMove

LEMMA BeginSteps ==
  ASSUME ProjectInv, NEW h \in Handler,
         P!Create(h) \/ P!UpdateContext(h) \/ P!AppendLog(h) \/ P!Archive(h)
  PROVE  ProjectInv'
<1>0. ProjectTypes /\ appended \in 0 .. MaxLines /\ MaxLines \in Nat /\ 0 \in ContextText
  BY ContextAssumption, BoundAssumption DEF ProjectInv, ProjectTypes
<1>1. CASE P!Create(h)
  <2> DEFINE r == [at |-> "dir", op |-> "create", status |-> "active", context |-> 0]
             p == [status |-> "active", context |-> 0]
  <2>1. r \in CreateReq /\ r \in ActiveReq /\ p \in P!Project
    BY <1>0 DEF CreateReq, ActiveReq, P!Project
  <2>2. P!Begin(h, r) /\ row = {} /\ row' = {p} /\ appended' = appended
    BY <1>1 DEF P!Create
  <2>3. r.at = "dir"
    OBVIOUS
  <2> HIDE DEF r
  <2>4. ASSUME ~disturbed, log = events, RestAgrees PROVE Alone(r)'
    <3>1. log = {} /\ events = {}
      BY <2>2, <2>4 DEF ProjectInv, Undisturbed
    <3> QED
      BY <2>1, <2>2, <2>3, <3>1, ReqKinds DEF Alone, P!Begin, P!tree
  <2>5. r \notin LookupReq \cup AppendReq
    BY <2>1, ReqKinds
  <2> QED
    BY <1>0, <2>1, <2>2, <2>4, <2>5, BeginStep
<1>2. CASE P!UpdateContext(h)
  <2>1. PICK c \in ContextText :
          /\ row # {}
          /\ P!Begin(h, [at |-> "context", op |-> "update", status |-> "active", context |-> c])
          /\ UNCHANGED <<row, appended>>
    BY <1>2 DEF P!UpdateContext
  <2> DEFINE r == [at |-> "context", op |-> "update", status |-> "active", context |-> c]
  <2>2. r \in UpdateReq /\ r \in ActiveReq /\ r.at = "context"
    BY DEF UpdateReq, ActiveReq
  <2>3. P!Begin(h, r)
    BY <2>1
  <2> HIDE DEF r
  <2>4. ASSUME ~disturbed, log = events, RestAgrees PROVE Alone(r)'
    <3>1. RestAgrees' /\ UNCHANGED <<row, log, events>>
      BY <2>1, <2>3, <2>4 DEF RestAgrees, P!Begin, P!tree
    <3> QED
      BY <2>1, <2>2, <2>4, <3>1, ReqKinds DEF Alone
  <2>5. r \notin LookupReq \cup AppendReq
    BY <2>2, ReqKinds
  <2> QED
    BY <1>0, <2>1, <2>2, <2>3, <2>4, <2>5, BeginStep DEF ProjectTypes
<1>3. CASE P!AppendLog(h)
  <2>r. PICK r : r = [at |-> "read", op |-> "append", event |-> appended + 1]
    OBVIOUS
  <2>0. appended + 1 \in 1 .. MaxLines /\ appended + 1 \in 0 .. MaxLines
    BY <1>0, <1>3 DEF P!AppendLog
  <2>1. r \in ReadReq /\ r \in ActiveReq
    BY <2>r, <2>0 DEF ReadReq, ActiveReq
  <2>2. P!Begin(h, r) /\ row # {} /\ row' = row /\ appended' = appended + 1
    BY <2>r, <1>3 DEF P!AppendLog
  <2>3. /\ row' = {} \/ \E p \in P!Project : row' = {p}
        /\ appended' \in 0 .. MaxLines
    BY <1>0, <2>0, <2>2 DEF ProjectTypes
  <2>4. ASSUME ~disturbed, log = events, RestAgrees PROVE Alone(r)'
    <3>1. RestAgrees' /\ UNCHANGED <<row, log, events>>
      BY <2>2, <2>4 DEF RestAgrees, P!Begin, P!tree
    <3> QED
      BY <2>1, <2>2, <2>4, <3>1, ReqKinds DEF Alone
  <2>5. r \notin LookupReq \cup AppendReq
    BY <2>1, ReqKinds
  <2> QED
    BY <2>1, <2>2, <2>3, <2>4, <2>5, BeginStep
<1>4. CASE P!Archive(h)
  <2> DEFINE r == [at |-> "get", op |-> "archive"]
  <2>1. r \in FreezeReq /\ r \in ActiveReq
    BY DEF FreezeReq, ActiveReq
  <2>2. P!Begin(h, r) /\ row' = {[p EXCEPT !.status = "archived"] : p \in row}
        /\ appended' = appended
    BY <1>4 DEF P!Archive
  <2>3. /\ row' = {} \/ \E p \in P!Project : row' = {p}
        /\ row' = {} => row = {}
        /\ \A p \in row' : p.status = "archived" /\ \E q \in row : p.context = q.context
    <3>1. CASE row = {}
      BY <2>2, <3>1
    <3>2. ASSUME NEW p \in P!Project, row = {p} PROVE <2>3!1 /\ <2>3!2 /\ <2>3!3
      <4>1. /\ row' = {[p EXCEPT !.status = "archived"]}
            /\ [p EXCEPT !.status = "archived"] \in P!Project
            /\ [p EXCEPT !.status = "archived"].status = "archived"
            /\ [p EXCEPT !.status = "archived"].context = p.context
        BY <2>2, <3>2 DEF P!Project
      <4> QED
        BY <3>2, <4>1
    <3> QED
      BY <1>0, <3>1, <3>2 DEF ProjectTypes
  <2> HIDE DEF r
  <2>4. ASSUME ~disturbed, log = events, RestAgrees PROVE Alone(r)'
    <3>1. RestAgrees'
      BY <2>2, <2>3, <2>4 DEF RestAgrees, P!Begin, P!tree
    <3> QED
      BY <2>1, <2>2, <2>3, <2>4, <3>1, ReqKinds DEF Alone, P!Begin, P!tree
  <2>5. r \notin LookupReq \cup AppendReq
    BY <2>1, ReqKinds
  <2> QED
    BY <1>0, <2>1, <2>2, <2>3, <2>4, <2>5, BeginStep
<1> QED
  BY <1>1, <1>2, <1>3, <1>4

\* A request that runs alone, and those beside it.
LEMMA OnlyOne ==
  ASSUME ProjectInv, NEW h \in Handler, projectReq[h] # P!NoReq, ~disturbed
  PROVE  /\ \A g \in Handler : g # h => projectReq[g] = P!NoReq
         /\ ~erased /\ Alone(projectReq[h])
         /\ row = {} => log = {} /\ events = {}
  BY DEF ProjectInv, Undisturbed

\* What the place of a request says of it.
LEMMA ReqAt ==
  ASSUME ProjectInv, NEW h \in Handler, projectReq[h].at # "idle"
  PROVE  LET r == projectReq[h] IN
         /\ r \in ActiveReq /\ r # P!NoReq
         /\ r.at = "read" => r \in ReadReq
         /\ r.at = "log" => r \in LogReq \/ (r \in CreateReq /\ r.op = "create")
         /\ r.at = "get" => r \in LookupReq \/ r \in FreezeReq
         /\ r.at = "context" => r \in CreateReq \/ r \in UpdateReq
         /\ r.at = "dir" => r \in CreateReq \cup UpdateReq \cup AppendReq \cup ArchiveReq
         /\ r.at = "row" => r \in UpdateReq \/ r \in AppendReq
<1>1. projectReq[h] \in ActiveReq
  BY DEF ProjectInv, ProjectTypes, P!NoReq
<1> PICK r : r = projectReq[h]
  OBVIOUS
<1>2. \/ r \in CreateReq /\ r.at \in {"dir", "context", "log"} /\ r.op = "create"
      \/ r \in UpdateReq /\ r.at \in {"context", "dir", "row"}
      \/ r \in ReadReq /\ r.at = "read"
      \/ r \in LogReq /\ r.at = "log"
      \/ r \in LookupReq /\ r.at = "get"
      \/ r \in AppendReq /\ r.at \in {"dir", "row"}
      \/ r \in FreezeReq /\ r.at = "get"
      \/ r \in ArchiveReq /\ r.at = "dir"
  <2>1. r \in ActiveReq
    BY <1>1
  <2>2. r \in CreateReq => r.at \in {"dir", "context", "log"} /\ r.op = "create"
    BY DEF CreateReq
  <2>3. r \in UpdateReq => r.at \in {"context", "dir", "row"}
    BY DEF UpdateReq
  <2>4. r \in ReadReq => r.at = "read"
    BY DEF ReadReq
  <2>5. r \in LogReq => r.at = "log"
    BY DEF LogReq
  <2>6. r \in LookupReq => r.at = "get"
    BY DEF LookupReq
  <2>7. r \in AppendReq => r.at \in {"dir", "row"}
    BY DEF AppendReq
  <2>8. r \in FreezeReq => r.at = "get"
    BY DEF FreezeReq
  <2>9. r \in ArchiveReq => r.at = "dir"
    BY DEF ArchiveReq
  <2> QED
    BY <2>1, <2>2, <2>3, <2>4, <2>5, <2>6, <2>7, <2>8, <2>9 DEF ActiveReq
<1> QED
  BY <1>1, <1>2, ReqKinds

LEMMA ReadLogStep ==
  ASSUME ProjectInv, NEW h \in Handler, P!ReadLog(h)
  PROVE  ProjectInv'
<1>0. PICK q : q = projectReq[h]
  OBVIOUS
<1>1. PICK misread \in BOOLEAN :
        /\ P!Goto(h, [at |-> "log", op |-> q.op, event |-> q.event,
                      copy |-> IF misread THEN {} ELSE log])
        /\ disturbed' = (disturbed \/ misread)
        /\ UNCHANGED <<row, log, context, dir, events, appended, erased>>
  BY <1>0 DEF P!ReadLog, P!tree
<1>2. q.at = "read" /\ q \in ReadReq /\ q # P!NoReq
  BY <1>0, ReqAt DEF P!ReadLog
<1>r. PICK r : r = [at |-> "log", op |-> q.op, event |-> q.event,
                    copy |-> IF misread THEN {} ELSE log]
  OBVIOUS
<1>3. log \in SUBSET (1 .. MaxLines)
  BY DEF ProjectInv, ProjectTypes
<1>4. r \in LogReq /\ r \in ActiveReq /\ (~misread => r.copy = log)
  BY <1>r, <1>2, <1>3 DEF LogReq, ReadReq, ActiveReq
<1>5. P!Goto(h, r)
  BY <1>r, <1>1
<1>6. ASSUME ~disturbed'
      PROVE  /\ \A g \in Handler : g # h => projectReq[g] = P!NoReq
             /\ ~erased'
             /\ row' = {} => log' = {} /\ events' = {}
             /\ Alone(r)'
  <2>1. ~disturbed /\ ~misread
    BY <1>1, <1>6
  <2>2. log = events /\ RestAgrees /\ row # {}
    BY <1>0, <1>2, <2>1, OnlyOne DEF Alone
  <2>3. RestAgrees'
    BY <1>1, <2>2 DEF RestAgrees
  <2> QED
    BY <1>0, <1>1, <1>2, <1>4, <2>1, <2>2, <2>3, OnlyOne, ReqKinds DEF Alone
<1>7. /\ r \notin LookupReq \cup AppendReq /\ r # P!NoReq
      /\ ~erased' => log \subseteq log' /\ events' \subseteq log'
  BY <1>1, <1>4, ReqKinds DEF ProjectInv, LinesOK
<1>8. /\ row' = {} \/ \E p \in P!Project : row' = {p}
      /\ events' \subseteq 1 .. MaxLines /\ log' \subseteq 1 .. MaxLines
      /\ context' \in ContextFile /\ dir' \in P!Project \cup {P!NoDir}
      /\ appended' \in 0 .. MaxLines /\ disturbed' \in BOOLEAN /\ erased' \in BOOLEAN
  BY <1>1 DEF ProjectInv, ProjectTypes
<1> QED
  BY <1>1, <1>4, <1>5, <1>6, <1>7, <1>8, ProjectMove

LEMMA WriteLogStep ==
  ASSUME ProjectInv, NEW h \in Handler, P!WriteLog(h)
  PROVE  ProjectInv'
<1>0. PICK q : q = projectReq[h]
  OBVIOUS
<1>1. /\ q.at = "log" /\ q # P!NoReq
      /\ q \in LogReq \/ (q \in CreateReq /\ q.op = "create")
  BY <1>0, ReqAt DEF P!WriteLog
<1>2. UNCHANGED <<row, events, context, dir, appended, disturbed>>
  BY DEF P!WriteLog
<1>3. /\ row' = {} \/ \E p \in P!Project : row' = {p}
      /\ events' \subseteq 1 .. MaxLines
      /\ context' \in ContextFile /\ dir' \in P!Project \cup {P!NoDir}
      /\ appended' \in 0 .. MaxLines /\ disturbed' \in BOOLEAN
  BY <1>2 DEF ProjectInv, ProjectTypes
<1>4. CASE q \in CreateReq
  <2>1. q.op = "create"
    BY <1>4 DEF CreateReq
  <2>2. P!Goto(h, P!NoReq) /\ log' = {} /\ erased' = (erased \/ ~(log \subseteq {}))
    BY <1>0, <2>1 DEF P!WriteLog
  <2>3. /\ erased' \in BOOLEAN /\ (erased => erased')
        /\ ~erased' => log \subseteq log' /\ events' \subseteq log'
    BY <1>2, <2>2 DEF ProjectInv, ProjectTypes, LinesOK
  <2>4. ASSUME ~disturbed'
        PROVE  /\ \A g \in Handler : g # h => projectReq[g] = P!NoReq
               /\ ~erased'
               /\ row' = {} => log' = {} /\ events' = {}
               /\ log' = events' /\ RestAgrees'
    <3>1. /\ \A g \in Handler : g # h => projectReq[g] = P!NoReq
          /\ ~erased /\ Alone(q)
      BY <1>0, <1>1, <1>2, <2>4, OnlyOne
    <3>2. /\ row = {[status |-> "active", context |-> 0]} /\ log = {} /\ events = {}
          /\ dir.status = "active" /\ context = {0}
      BY <1>1, <1>4, <3>1 DEF Alone
    <3>3. RestAgrees'
      BY <1>2, <3>2 DEF RestAgrees
    <3> QED
      BY <1>2, <2>2, <3>1, <3>2, <3>3
  <2>5. Alone(P!NoReq)' /\ P!NoReq \notin LookupReq \cup AppendReq
    BY ReqKinds DEF Alone, ActiveReq
  <2> QED
    BY <1>3, <2>2, <2>3, <2>4, <2>5, ProjectMove
<1>5. CASE q \in LogReq
  <2> DEFINE r == [at |-> "get", op |-> q.op, event |-> q.event]
  <2>1. /\ q.op = "append" /\ q.event \in 1 .. MaxLines /\ q.copy \subseteq 1 .. MaxLines
        /\ r \in LookupReq /\ r \in ActiveReq /\ r.event = q.event
    BY <1>5 DEF LogReq, LookupReq, ActiveReq
  <2>2. /\ P!Goto(h, r) /\ log' = q.copy \cup {q.event}
        /\ erased' = (erased \/ ~(log \subseteq q.copy))
    BY <1>0, <2>1 DEF P!WriteLog, P!NextContent
  <2> HIDE DEF r
  <2>3. /\ erased' \in BOOLEAN /\ (erased => erased') /\ log' \subseteq 1 .. MaxLines
        /\ ~erased' => log \subseteq log' /\ events' \subseteq log'
        /\ r.event \in log'
    BY <1>2, <2>1, <2>2 DEF ProjectInv, ProjectTypes, LinesOK
  <2>4. ASSUME ~disturbed'
        PROVE  /\ \A g \in Handler : g # h => projectReq[g] = P!NoReq
               /\ ~erased'
               /\ row' = {} => log' = {} /\ events' = {}
               /\ Alone(r)'
    <3>1. /\ \A g \in Handler : g # h => projectReq[g] = P!NoReq
          /\ ~erased /\ Alone(q)
      BY <1>0, <1>1, <1>2, <2>4, OnlyOne
    <3>2. log = events /\ q.copy = log /\ RestAgrees /\ row # {}
      BY <1>5, <3>1 DEF Alone
    <3>3. RestAgrees'
      BY <1>2, <3>2 DEF RestAgrees
    <3>4. ~erased' /\ log' = events' \cup {r.event} /\ row' # {}
      BY <1>2, <2>1, <2>2, <3>1, <3>2
    <3> QED
      BY <2>1, <3>1, <3>3, <3>4, ReqKinds DEF Alone
  <2> QED
    BY <1>3, <2>1, <2>2, <2>3, <2>4, ReqKinds, ProjectMove
<1> QED
  BY <1>1, <1>4, <1>5

LEMMA GetStep ==
  ASSUME ProjectInv, NEW h \in Handler, P!GetProject(h)
  PROVE  ProjectInv'
<1>0. PICK q : q = projectReq[h]
  OBVIOUS
<1>1. q.at = "get" /\ q # P!NoReq /\ (q \in LookupReq \/ q \in FreezeReq)
  BY <1>0, ReqAt DEF P!GetProject
<1>q. PICK stored0 : stored0 = CHOOSE p \in row : TRUE
  OBVIOUS
<1>u. PICK text0 : text0 = IF context = {} THEN stored0.context ELSE CHOOSE c \in context : TRUE
  OBVIOUS
<1>r. PICK status0, context0, event0 :
        /\ status0 = IF q.op = "archive" THEN "archived"
                     ELSE IF row # {} THEN stored0.status ELSE "active"
        /\ context0 = IF row # {} THEN text0 ELSE 0
        /\ event0 = IF q.op = "append" THEN q.event ELSE 0
  OBVIOUS
<1> DEFINE r == [at |-> "dir", op |-> q.op, status |-> status0, context |-> context0,
                 event |-> event0]
<1>2. P!Goto(h, r) /\ UNCHANGED <<row, log, context, dir, events, appended, disturbed, erased>>
  BY <1>0, <1>q, <1>u, <1>r DEF P!GetProject, P!tree
<1>3. /\ row' = {} \/ \E p \in P!Project : row' = {p}
      /\ events' \subseteq 1 .. MaxLines /\ log' \subseteq 1 .. MaxLines
      /\ context' \in ContextFile /\ dir' \in P!Project \cup {P!NoDir}
      /\ appended' \in 0 .. MaxLines /\ disturbed' \in BOOLEAN /\ erased' \in BOOLEAN
      /\ ~erased' => log \subseteq log' /\ events' \subseteq log'
  BY <1>2 DEF ProjectInv, ProjectTypes, LinesOK
<1>s. ASSUME NEW p \in P!Project, row = {p} PROVE stored0 = p
  BY <1>q, <1>s
<1>4. /\ context0 \in ContextText
      /\ \A p \in row : context = {p.context} => context0 = p.context
  <2>1. CASE row = {}
    BY <1>r, <2>1, ContextAssumption
  <2>2. ASSUME NEW p \in P!Project, row = {p} PROVE <1>4!1 /\ <1>4!2
    <3>1. stored0 = p /\ p.context \in ContextText /\ context0 = text0
      BY <1>r, <1>s, <2>2 DEF P!Project
    <3>2. CASE context = {}
      BY <1>u, <2>2, <3>1, <3>2
    <3>3. ASSUME NEW c \in ContextText, context = {c} PROVE <1>4!1 /\ <1>4!2
      <4>1. text0 = c
        <5>1. (CHOOSE x \in context : TRUE) = c
          BY <3>3
        <5> QED
          BY <1>u, <3>3, <5>1
      <4> QED
        BY <2>2, <3>1, <3>3, <4>1
    <3> QED
      BY <3>2, <3>3 DEF ProjectInv, ProjectTypes, ContextFile
  <2> QED
    BY <2>1, <2>2 DEF ProjectInv, ProjectTypes
<1>5. /\ status0 \in {"active", "archived"}
      /\ q.op # "archive" => \A p \in row : status0 = p.status
  <2>1. CASE row = {}
    BY <1>r, <2>1
  <2>2. ASSUME NEW p \in P!Project, row = {p} PROVE <1>5!1 /\ <1>5!2
    <3>1. stored0 = p
      BY <1>s, <2>2
    <3> QED
      BY <1>r, <2>2, <3>1 DEF P!Project
  <2> QED
    BY <2>1, <2>2 DEF ProjectInv, ProjectTypes
<1>6. ASSUME ~disturbed'
      PROVE  /\ \A g \in Handler : g # h => projectReq[g] = P!NoReq
             /\ ~erased' /\ Alone(q)
             /\ row' = {} => log' = {} /\ events' = {}
             /\ RestAgrees => RestAgrees'
  <2>1. ~disturbed
    BY <1>2, <1>6
  <2>2. RestAgrees => RestAgrees'
    BY <1>2 DEF RestAgrees
  <2> QED
    BY <1>0, <1>1, <1>2, <2>1, <2>2, OnlyOne
<1>7. CASE q \in LookupReq
  <2>1. /\ q.op = "append" /\ q.event \in 1 .. MaxLines
        /\ event0 = q.event /\ q.op # "archive"
    BY <1>r, <1>7 DEF LookupReq
  <2>2. /\ r \in AppendReq /\ r \in ActiveReq
        /\ r.event = q.event /\ r.status = status0 /\ r.context = context0
    BY <1>4, <1>5, <2>1 DEF AppendReq, ActiveReq
  <2>3. r.event \in log' \/ erased'
    BY <1>0, <1>2, <1>7, <2>2 DEF ProjectInv, LinesOK
  <2> HIDE DEF r
  <2>4. ~disturbed' => Alone(r)'
    <3> SUFFICES ASSUME ~disturbed' PROVE Alone(r)'
      OBVIOUS
    <3>1. RestAgrees /\ row # {} /\ log = events \cup {q.event}
      BY <1>6, <1>7 DEF Alone
    <3>2. \A p \in row : r.status = p.status /\ r.context = p.context
      BY <1>4, <1>5, <2>1, <2>2, <3>1 DEF RestAgrees
    <3> QED
      BY <1>2, <1>6, <2>2, <3>1, <3>2, ReqKinds DEF Alone
  <2> QED
    BY <1>2, <1>3, <1>6, <2>2, <2>3, <2>4, ReqKinds, ProjectMove
<1>8. CASE q \in FreezeReq
  <2>1. q.op = "archive" /\ event0 = 0 /\ status0 = "archived"
    BY <1>r, <1>8 DEF FreezeReq
  <2>2. r \in ArchiveReq /\ r \in ActiveReq /\ r.context = context0
    BY <1>4, <2>1 DEF ArchiveReq, ActiveReq
  <2> HIDE DEF r
  <2>3. ~disturbed' => Alone(r)'
    <3> SUFFICES ASSUME ~disturbed' PROVE Alone(r)'
      OBVIOUS
    <3>1. RestAgrees /\ log = events /\ \A p \in row : p.status = "archived"
      BY <1>6, <1>8 DEF Alone
    <3>2. \A p \in row : r.context = p.context
      BY <1>4, <2>2, <3>1 DEF RestAgrees
    <3> QED
      BY <1>2, <1>6, <2>2, <3>1, <3>2, ReqKinds DEF Alone
  <2> QED
    BY <1>2, <1>3, <1>6, <2>2, <2>3, ReqKinds, ProjectMove
<1> QED
  BY <1>1, <1>7, <1>8

LEMMA WriteContextStep ==
  ASSUME ProjectInv, NEW h \in Handler, P!WriteContext(h)
  PROVE  ProjectInv'
<1>0. PICK q : q = projectReq[h]
  OBVIOUS
<1>1. q.at = "context" /\ q # P!NoReq /\ (q \in CreateReq \/ q \in UpdateReq)
  BY <1>0, ReqAt DEF P!WriteContext
<1> DEFINE r == [q EXCEPT !.at = IF q.op = "create" THEN "log" ELSE "dir"]
<1>2. /\ P!Goto(h, r) /\ context' = {q.context}
      /\ UNCHANGED <<row, events, log, dir, appended, disturbed, erased>>
  BY <1>0 DEF P!WriteContext
<1>3. /\ q \in CreateReq => /\ r \in CreateReq /\ r.at = "log"
                            /\ r.context = q.context /\ q.context = 0
      /\ q \in UpdateReq => r \in UpdateReq /\ r.at = "dir" /\ r.context = q.context
      /\ r \in ActiveReq
      /\ q.context \in ContextText
  BY <1>1, ContextAssumption DEF CreateReq, UpdateReq, ActiveReq
<1> HIDE DEF r
<1>4. /\ row' = {} \/ \E p \in P!Project : row' = {p}
      /\ events' \subseteq 1 .. MaxLines /\ log' \subseteq 1 .. MaxLines
      /\ context' \in ContextFile /\ dir' \in P!Project \cup {P!NoDir}
      /\ appended' \in 0 .. MaxLines /\ disturbed' \in BOOLEAN /\ erased' \in BOOLEAN
      /\ ~erased' => log \subseteq log' /\ events' \subseteq log'
  BY <1>2, <1>3 DEF ProjectInv, ProjectTypes, LinesOK, ContextFile
<1>5. ASSUME ~disturbed'
      PROVE  /\ \A g \in Handler : g # h => projectReq[g] = P!NoReq
             /\ ~erased' /\ Alone(r)'
             /\ row' = {} => log' = {} /\ events' = {}
  <2>1. /\ \A g \in Handler : g # h => projectReq[g] = P!NoReq
        /\ ~erased /\ Alone(q)
        /\ row = {} => log = {} /\ events = {}
    BY <1>0, <1>1, <1>2, <1>5, OnlyOne
  <2>2. Alone(r)'
    <3>1. CASE q \in CreateReq
      BY <1>1, <1>2, <1>3, <2>1, <3>1, ReqKinds DEF Alone
    <3>2. CASE q \in UpdateReq
      BY <1>1, <1>2, <1>3, <2>1, <3>2, ReqKinds DEF Alone
    <3> QED
      BY <1>1, <3>1, <3>2
  <2> QED
    BY <1>2, <2>1, <2>2
<1>6. r \notin LookupReq \cup AppendReq /\ r # P!NoReq
  BY <1>1, <1>3, ReqKinds
<1> QED
  BY <1>2, <1>3, <1>4, <1>5, <1>6, ProjectMove

LEMMA EnsureDirectoryStep ==
  ASSUME ProjectInv, NEW h \in Handler, P!EnsureDirectory(h)
  PROVE  ProjectInv'
<1>0. PICK q : q = projectReq[h]
  OBVIOUS
<1>1. /\ q.at = "dir" /\ q # P!NoReq
      /\ q \in CreateReq \cup UpdateReq \cup AppendReq \cup ArchiveReq
  BY <1>0, ReqAt DEF P!EnsureDirectory
<1> DEFINE r == CASE q.op = "create"  -> [q EXCEPT !.at = "context"]
                  [] q.op = "archive" -> P!NoReq
                  [] OTHER            -> [q EXCEPT !.at = "row"]
<1>t. PICK text0 : text0 = IF q.context = 0 THEN dir.context ELSE q.context
  OBVIOUS
<1>2. /\ P!Goto(h, r) /\ dir' = [status |-> q.status, context |-> text0]
      /\ UNCHANGED <<row, events, log, context, appended, disturbed, erased>>
  BY <1>0, <1>t DEF P!EnsureDirectory
<1>3. /\ q \in CreateReq => r \in CreateReq /\ r.at = "context" /\ q.context = 0 /\ q.status = "active"
      /\ q \in UpdateReq => r \in UpdateReq /\ r.at = "row" /\ r.context = q.context /\ q.status = "active"
      /\ q \in AppendReq => /\ r \in AppendReq /\ r.event = q.event
                            /\ r.status = q.status /\ r.context = q.context
      /\ q \in ArchiveReq => r = P!NoReq /\ q.status = "archived"
  BY <1>1 DEF CreateReq, UpdateReq, AppendReq, ArchiveReq
<1>4. r \in ActiveReq \cup {P!NoReq} /\ dir' \in P!Project
  <2>1. r \in ActiveReq \cup {P!NoReq}
    BY <1>1, <1>3 DEF ActiveReq
  <2>2. q.status \in {"active", "archived"} /\ q.context \in ContextText
    BY <1>1, ContextAssumption DEF CreateReq, UpdateReq, AppendReq, ArchiveReq
  <2>3. dir.context \in ContextText
    BY ContextAssumption DEF ProjectInv, ProjectTypes, P!Project, P!NoDir
  <2>4. text0 \in ContextText
    BY <1>t, <2>2, <2>3
  <2> QED
    BY <1>2, <2>1, <2>2, <2>4 DEF P!Project
<1> HIDE DEF r
<1>5. /\ row' = {} \/ \E p \in P!Project : row' = {p}
      /\ events' \subseteq 1 .. MaxLines /\ log' \subseteq 1 .. MaxLines
      /\ context' \in ContextFile
      /\ appended' \in 0 .. MaxLines /\ disturbed' \in BOOLEAN /\ erased' \in BOOLEAN
      /\ ~erased' => log \subseteq log' /\ events' \subseteq log'
  BY <1>2 DEF ProjectInv, ProjectTypes, LinesOK
<1>6. r \in LookupReq \cup AppendReq => r.event \in log' \/ erased'
  BY <1>0, <1>1, <1>2, <1>3, ReqKinds DEF ProjectInv, LinesOK, ActiveReq
<1>7. ASSUME ~disturbed'
      PROVE  /\ \A g \in Handler : g # h => projectReq[g] = P!NoReq
             /\ ~erased' /\ Alone(r)'
             /\ row' = {} => log' = {} /\ events' = {}
             /\ r = P!NoReq => log' = events' /\ RestAgrees'
  <2>1. /\ \A g \in Handler : g # h => projectReq[g] = P!NoReq
        /\ ~erased /\ Alone(q)
        /\ row = {} => log = {} /\ events = {}
    BY <1>0, <1>1, <1>2, <1>7, OnlyOne
  <2>0. /\ dir'.status = q.status
        /\ dir'.context = q.context \/ q.context = 0
    BY <1>2, <1>t
  <2>2. CASE q \in CreateReq
    BY <1>1, <1>2, <1>3, <2>0, <2>1, <2>2, ReqKinds DEF Alone, ActiveReq
  <2>3. CASE q \in UpdateReq
    BY <1>1, <1>2, <1>3, <2>0, <2>1, <2>3, ReqKinds DEF Alone, ActiveReq
  <2>4. CASE q \in AppendReq
    <3>1. RestAgrees /\ row # {} /\ log = events \cup {q.event}
          /\ \A p \in row : q.status = p.status /\ q.context = p.context
      BY <2>1, <2>4 DEF Alone
    <3>2. RestAgrees'
      BY <1>2, <2>0, <3>1 DEF RestAgrees
    <3> QED
      BY <1>2, <1>3, <2>1, <2>4, <3>1, <3>2, ReqKinds DEF Alone, ActiveReq
  <2>5. CASE q \in ArchiveReq
    <3>1. /\ RestAgrees /\ log = events
          /\ \A p \in row : p.status = "archived" /\ q.context = p.context
      BY <2>1, <2>5 DEF Alone
    <3>2. RestAgrees'
      BY <1>2, <2>0, <3>1 DEF RestAgrees
    <3> QED
      BY <1>2, <1>3, <2>1, <2>5, <3>1, <3>2, ReqKinds DEF Alone, ActiveReq
  <2> QED
    BY <1>1, <2>2, <2>3, <2>4, <2>5
<1> QED
  BY <1>2, <1>4, <1>5, <1>6, <1>7, ProjectMove

LEMMA WriteRowStep ==
  ASSUME ProjectInv, NEW h \in Handler, P!WriteRow(h)
  PROVE  ProjectInv'
<1>0. PICK q : q = projectReq[h]
  OBVIOUS
<1>1. q.at = "row" /\ q # P!NoReq /\ (q \in UpdateReq \/ q \in AppendReq)
  BY <1>0, ReqAt DEF P!WriteRow
<1>2. /\ P!Goto(h, P!NoReq)
      /\ UNCHANGED <<log, context, dir, appended, disturbed, erased>>
  BY DEF P!WriteRow, P!tree
<1>3. Alone(P!NoReq)' /\ P!NoReq \notin LookupReq \cup AppendReq
  BY ReqKinds DEF Alone, ActiveReq
<1>4. /\ log' \subseteq 1 .. MaxLines /\ context' \in ContextFile
      /\ dir' \in P!Project \cup {P!NoDir}
      /\ appended' \in 0 .. MaxLines /\ disturbed' \in BOOLEAN /\ erased' \in BOOLEAN
  BY <1>2 DEF ProjectInv, ProjectTypes
<1>5. ASSUME ~disturbed'
      PROVE  /\ \A g \in Handler : g # h => projectReq[g] = P!NoReq
             /\ ~erased' /\ Alone(q)
             /\ row = {} => log = {} /\ events = {}
  BY <1>0, <1>1, <1>2, <1>5, OnlyOne
<1>6. CASE q \in AppendReq
  <2>1. /\ q.op = "append" /\ q.event \in 1 .. MaxLines
        /\ events' = events \cup {q.event} /\ row' = row
    BY <1>0, <1>6 DEF AppendReq, P!WriteRow
  <2>2. /\ row' = {} \/ \E p \in P!Project : row' = {p}
        /\ events' \subseteq 1 .. MaxLines
    BY <2>1 DEF ProjectInv, ProjectTypes
  <2>3. ~erased' => log \subseteq log' /\ events' \subseteq log'
    BY <1>0, <1>2, <1>6, <2>1 DEF ProjectInv, LinesOK
  <2>4. ASSUME ~disturbed'
        PROVE  /\ row' = {} => log' = {} /\ events' = {}
               /\ log' = events' /\ RestAgrees'
    <3>1. RestAgrees /\ row # {} /\ log = events \cup {q.event}
      BY <1>5, <1>6, <2>4 DEF Alone
    <3> QED
      BY <1>2, <2>1, <3>1 DEF RestAgrees
  <2> QED
    BY <1>2, <1>3, <1>4, <1>5, <2>2, <2>3, <2>4, ProjectMove
<1>7. CASE q \in UpdateReq
  <2>1. /\ q.op # "append" /\ q.context \in ContextText
        /\ events' = events /\ row' = {[p EXCEPT !.context = q.context] : p \in row}
    BY <1>0, <1>7 DEF UpdateReq, P!WriteRow
  <2>2. /\ row' = {} \/ \E p \in P!Project : row' = {p}
        /\ row' = {} => row = {}
        /\ \A p \in row' : p.context = q.context /\ p.status \in {"active", "archived"}
    <3>1. CASE row = {}
      BY <2>1, <3>1
    <3>2. ASSUME NEW p \in P!Project, row = {p} PROVE <2>2!1 /\ <2>2!2 /\ <2>2!3
      <4>1. /\ row' = {[p EXCEPT !.context = q.context]}
            /\ [p EXCEPT !.context = q.context] \in P!Project
            /\ [p EXCEPT !.context = q.context].context = q.context
            /\ [p EXCEPT !.context = q.context].status \in {"active", "archived"}
        BY <2>1, <3>2 DEF P!Project
      <4> QED
        BY <3>2, <4>1
    <3> QED
      BY <3>1, <3>2 DEF ProjectInv, ProjectTypes
  <2>3. /\ events' \subseteq 1 .. MaxLines
        /\ ~erased' => log \subseteq log' /\ events' \subseteq log'
    BY <1>2, <2>1 DEF ProjectInv, ProjectTypes, LinesOK
  <2>4. ASSUME ~disturbed'
        PROVE  /\ row' = {} => log' = {} /\ events' = {}
               /\ log' = events' /\ RestAgrees'
    <3>1. /\ log = events /\ row # {} /\ context = {q.context}
          /\ dir.status = "active" /\ (dir.context = q.context \/ q.context = 0)
      BY <1>1, <1>5, <1>7, <2>4 DEF Alone
    <3> QED
      BY <1>2, <2>1, <2>2, <3>1 DEF RestAgrees
  <2> QED
    BY <1>2, <1>3, <1>4, <1>5, <2>2, <2>3, <2>4, ProjectMove
<1> QED
  BY <1>1, <1>6, <1>7

LEMMA ProjectFail ==
  ASSUME ProjectInv, NEW h \in Handler, P!Fail(h)
  PROVE  ProjectInv'
<1>1. /\ P!Goto(h, P!NoReq) /\ disturbed' = TRUE
      /\ UNCHANGED <<row, log, context, dir, events, appended, erased>>
  BY DEF P!Fail, P!tree
<1>2. /\ row' = {} \/ \E p \in P!Project : row' = {p}
      /\ events' \subseteq 1 .. MaxLines /\ log' \subseteq 1 .. MaxLines
      /\ context' \in ContextFile /\ dir' \in P!Project \cup {P!NoDir}
      /\ appended' \in 0 .. MaxLines /\ erased' \in BOOLEAN
      /\ ~erased' => log \subseteq log' /\ events' \subseteq log'
  BY <1>1 DEF ProjectInv, ProjectTypes, LinesOK
<1>3. P!NoReq \notin LookupReq \cup AppendReq
  BY ReqKinds DEF ActiveReq
<1> QED
  BY <1>1, <1>2, <1>3, ProjectMove

LEMMA TreeStep ==
  ASSUME ProjectInv, P!TreeWrite \/ P!TreeDelete
  PROVE  ProjectInv'
<1>1. /\ disturbed' = TRUE /\ erased' = (erased \/ ~(log \subseteq log'))
      /\ UNCHANGED <<row, events, projectReq, appended>>
  BY DEF P!TreeWrite, P!TreeDelete, P!TreeRequest
<1>2. /\ context' \in ContextFile /\ dir' \in P!Project \cup {P!NoDir}
      /\ log' \subseteq 1 .. MaxLines
  <2>1. /\ context \in ContextFile /\ dir \in P!Project \cup {P!NoDir}
        /\ log \subseteq 1 .. MaxLines /\ 1 .. appended \subseteq 1 .. MaxLines
    BY BoundAssumption DEF ProjectInv, ProjectTypes
  <2>2. CASE P!TreeWrite
    <3>1. CASE (\E c \in ContextText : context' = {c}) /\ UNCHANGED <<log, dir>>
      BY <2>1, <3>1 DEF ContextFile
    <3>2. CASE log' \in SUBSET (1 .. appended) /\ UNCHANGED <<context, dir>>
      BY <2>1, <3>2
    <3>3. CASE dir' \in P!Project /\ UNCHANGED <<context, log>>
      BY <2>1, <3>3
    <3> QED
      BY <2>2, <3>1, <3>2, <3>3 DEF P!TreeWrite
  <2>3. CASE P!TreeDelete
    BY <2>1, <2>3 DEF P!TreeDelete, ContextFile
  <2> QED
    BY <2>2, <2>3
<1>3. ProjectTypes'
  BY <1>1, <1>2 DEF ProjectInv, ProjectTypes
<1>4. LinesOK'
  BY <1>1 DEF ProjectInv, LinesOK
<1> QED
  BY <1>1, <1>3, <1>4 DEF ProjectInv

LEMMA ProjectNext == ProjectInv /\ [P!Next]_(P!vars) => ProjectInv'
<1> SUFFICES ASSUME ProjectInv, [P!Next]_(P!vars) PROVE ProjectInv'
  OBVIOUS
<1>1. CASE UNCHANGED P!vars
  BY <1>1 DEF ProjectInv, ProjectTypes, LinesOK, Undisturbed, Alone, RestAgrees, P!vars
<1>2. CASE P!Next
  BY <1>2, BeginSteps, ReadLogStep, WriteLogStep, GetStep, WriteContextStep,
     EnsureDirectoryStep, WriteRowStep, ProjectFail, TreeStep DEF P!Next
<1> QED
  BY <1>1, <1>2

LEMMA ProjectPromise == ProjectInv => StoresAgree
  BY DEF ProjectInv, LinesOK, Undisturbed, RestAgrees, StoresAgree, P!StoresAgree

\* Every event with a row is in the log file unless a write dropped lines it
\* had not read; and while requests come one after the other, none fails and
\* the tree's own operations stay away, nothing is dropped and the stores of a
\* project say the same.
THEOREM StoresDoAgree == P!Spec => []StoresAgree
  BY ProjectInit, ProjectNext, ProjectPromise, PTL DEF P!Spec

-----------------------------------------------------------------------------
(*                                FileBlobs                                *)

\* What BlobsReadable says of one row, after deletions by the transactions of gs.
Kept(e, b, gs) == \/ F!Readable(e, b)
                  \/ F!ObjectKey(e, b.bytes) \in undone
                  \/ \E g \in gs : F!ObjectKey(e, b.bytes) \in tx[g].deleted

\* An object holds the bytes its key is made of.
ObjectsOK ==
  /\ object \in [F!Key -> SUBSET Bytes]
  /\ \A k \in F!Key : object[k] \subseteq {k[2]}

\* A transaction deletes objects of the entries it holds only.
TxOK(h) ==
  /\ tx[h] = [rows |-> tx[h].rows, deleted |-> tx[h].deleted]
  /\ F!Touched(h) \subseteq Entry /\ tx[h].deleted \subseteq F!Key
  /\ \A k \in tx[h].deleted : k[1] \in F!Touched(h)
  /\ \A g \in Handler : g # h => F!Touched(g) \cap F!Touched(h) = {}
  /\ \A e \in F!Touched(h) : /\ tx[h].rows[e] \subseteq F!Blob
                             /\ \A b \in tx[h].rows[e] : Kept(e, b, {})

BlobsInv ==
  /\ enabled \in BOOLEAN
  /\ blob \in [Entry -> SUBSET F!Blob]
  /\ undone \subseteq F!Key
  /\ ObjectsOK
  /\ DOMAIN tx = Handler /\ \A h \in Handler : TxOK(h)
  /\ \A e \in Entry : \A b \in blob[e] : Kept(e, b, Handler)

LEMMA BlobsInit == F!Init => BlobsInv
<1> SUFFICES ASSUME F!Init PROVE BlobsInv
  OBVIOUS
<1>0. DOMAIN <<>> = {}
  OBVIOUS
<1>1. \A h \in Handler : /\ tx[h] = F!NoTx /\ F!Touched(h) = {}
                        /\ tx[h].rows = <<>> /\ tx[h].deleted = {}
  BY <1>0 DEF F!Init, F!NoTx, F!Touched
<1>2. ObjectsOK
  BY DEF F!Init, ObjectsOK
<1>3. \A h \in Handler : TxOK(h)
  BY <1>1 DEF TxOK, F!NoTx
<1> QED
  BY <1>2, <1>3 DEF F!Init, BlobsInv

\* A failed change: whatever it has done to objects nobody holds, a row stays
\* readable, or its object is known to be deleted for a change that was undone.
LEMMA UndoStep ==
  ASSUME BlobsInv, NEW h \in Handler, NEW deleting \in SUBSET F!Key,
         F!Undo(h, deleting), ObjectsOK',
         \A k \in F!Key :
           \/ object'[k] = object[k]
           \/ /\ \A g \in Handler : k[1] \notin F!Touched(g)
              /\ object'[k] = {k[2]} \/ (object'[k] = {} /\ k \in deleting)
  PROVE  BlobsInv'
<1> DEFINE gone(keys) == {k \in keys : object'[k] = {}}
<1>0. ASSUME NEW e \in Entry, NEW b \in F!Blob
      PROVE  F!ObjectKey(e, b.bytes) \in F!Key /\ F!ObjectKey(e, b.bytes) = <<e, b.bytes>>
  BY DEF F!ObjectKey, F!Key, F!Blob
<1>1. UNCHANGED <<enabled, blob>> /\ undone \subseteq undone' /\ gone(deleting) \subseteq undone'
  BY DEF F!Undo
<1>2. ASSUME NEW e \in Entry, NEW b \in F!Blob, F!Readable(e, b)
      PROVE  F!Readable(e, b)' \/ F!ObjectKey(e, b.bytes) \in undone'
  BY <1>0, <1>1, <1>2 DEF F!Readable
<1>3. ASSUME NEW g \in Handler, tx'[g] = tx[g] PROVE TxOK(g)'
  <2>1. TxOK(g) /\ F!Touched(g)' = F!Touched(g)
    BY <1>3 DEF BlobsInv, F!Touched
  <2>2. \A f \in Handler : F!Touched(f)' \subseteq F!Touched(f)
    BY DEF F!Undo, F!Touched, F!NoTx, BlobsInv
  <2>3. \A e \in F!Touched(g) : \A b \in tx[g].rows[e] : Kept(e, b, {})'
    BY <1>1, <1>2, <2>1 DEF TxOK, Kept, F!ObjectKey
  <2> QED
    BY <1>3, <2>1, <2>2, <2>3 DEF TxOK
<1>4. CASE tx' = tx
  <2>1. undone' \subseteq F!Key
    BY <1>4 DEF F!Undo, BlobsInv, F!NoTx, TxOK
  <2>2. \A e \in Entry : \A b \in blob[e] : Kept(e, b, Handler)'
    BY <1>1, <1>2, <1>4 DEF BlobsInv, Kept, F!ObjectKey
  <2> QED
    BY <1>1, <1>3, <1>4, <2>1, <2>2 DEF BlobsInv
<1>5. CASE /\ tx' = [tx EXCEPT ![h] = F!NoTx]
           /\ undone' = undone \cup gone(deleting \cup tx[h].deleted)
  <2>1. undone' \subseteq F!Key
    BY <1>5 DEF BlobsInv, TxOK
  <2>2. \A g \in Handler : g # h => tx'[g] = tx[g]
    BY <1>5 DEF BlobsInv
  <2>3. tx'[h] = F!NoTx /\ F!Touched(h)' = {} /\ tx'[h].deleted = {}
    BY <1>5 DEF BlobsInv, F!NoTx, F!Touched
  <2>4. TxOK(h)'
    BY <2>3 DEF TxOK, F!NoTx
  <2>5. ASSUME NEW e \in Entry, NEW b \in blob[e] PROVE Kept(e, b, Handler)'
    <3> DEFINE k == F!ObjectKey(e, b.bytes)
    <3>1. b \in F!Blob /\ Kept(e, b, Handler) /\ k \in F!Key /\ k = <<e, b.bytes>>
      BY <1>0 DEF BlobsInv
    <3>2. CASE F!Readable(e, b)
      BY <1>2, <3>1, <3>2 DEF Kept, F!ObjectKey
    <3>3. CASE k \in undone
      BY <1>1, <3>3 DEF Kept, F!ObjectKey
    <3>4. CASE k \in tx[h].deleted /\ object'[k] = {}
      BY <1>5, <3>4 DEF Kept, F!ObjectKey
    <3>5. CASE object'[k] # {}
      <4>1. object'[k] = {b.bytes}
        BY <3>1, <3>5 DEF ObjectsOK
      <4> QED
        BY <4>1, <3>1 DEF Kept, F!Readable, F!ObjectKey
    <3>6. CASE \E g \in Handler : g # h /\ k \in tx[g].deleted
      BY <2>2, <3>6 DEF Kept, F!ObjectKey
    <3> QED
      BY <3>1, <3>2, <3>3, <3>4, <3>5, <3>6 DEF Kept
  <2> QED
    BY <1>1, <1>3, <1>5, <2>1, <2>2, <2>4, <2>5 DEF BlobsInv
<1> QED
  BY <1>4, <1>5 DEF F!Undo


\* A change that goes through: the entry is the handler's own from now on.
LEMMA TouchStep ==
  ASSUME BlobsInv, NEW h \in Handler, NEW e \in Entry, F!MayTouch(h, e),
         NEW new \in SUBSET F!Blob, NEW deleted \in SUBSET F!Key,
         F!Touch(h, e, new, deleted), ObjectsOK', undone' \subseteq F!Key,
         \A k \in deleted : k \in tx[h].deleted \/ k[1] = e,
         \A k \in F!Key : k[1] # e =>
            /\ object'[k] = object[k]
            /\ k \in undone' <=> k \in undone
            /\ k \in tx[h].deleted => k \in deleted,
         \A b \in new : Kept(e, b, {})',
         \A b \in blob[e] : Kept(e, b, Handler)'
  PROVE  BlobsInv'
<1>0. ASSUME NEW x \in Entry, NEW b \in F!Blob
      PROVE  F!ObjectKey(x, b.bytes) \in F!Key /\ F!ObjectKey(x, b.bytes) = <<x, b.bytes>>
  BY DEF F!ObjectKey, F!Key, F!Blob
<1>1. /\ UNCHANGED <<enabled, blob>>
      /\ \A g \in Handler : g # h => tx'[g] = tx[g] /\ F!Touched(g)' = F!Touched(g)
  BY DEF F!Touch, BlobsInv, F!Touched
<1>2. /\ tx'[h] = [rows |-> [x \in F!Touched(h) \cup {e} |-> IF x = e THEN new ELSE F!Row(h, x)],
                    deleted |-> deleted]
      /\ DOMAIN tx' = Handler
  BY DEF F!Touch, BlobsInv
<1>3. /\ F!Touched(h)' = F!Touched(h) \cup {e} /\ tx'[h].deleted = deleted
      /\ tx'[h].rows[e] = new
      /\ \A x \in F!Touched(h) : x # e => tx'[h].rows[x] = tx[h].rows[x]
  BY <1>2 DEF F!Touched, F!Row
<1>4. ASSUME NEW x \in Entry, x # e, NEW b \in F!Blob, Kept(x, b, {})
      PROVE  Kept(x, b, {})'
  BY <1>0, <1>4 DEF Kept, F!Readable, F!ObjectKey
<1>5. ASSUME NEW g \in Handler, g # h PROVE TxOK(g)'
  <2>1. TxOK(g) /\ e \notin F!Touched(g)
    BY DEF BlobsInv, F!MayTouch
  <2>2. \A x \in F!Touched(g) : \A b \in tx[g].rows[x] : Kept(x, b, {})'
    BY <1>4, <2>1 DEF TxOK
  <2>3. \A f \in Handler : f # g => F!Touched(f)' \cap F!Touched(g) = {}
    BY <1>1, <1>3, <2>1 DEF TxOK
  <2> QED
    BY <1>1, <1>5, <2>1, <2>2, <2>3 DEF TxOK
<1>6. TxOK(h)'
  <2>1. TxOK(h)
    BY DEF BlobsInv
  <2>2. tx'[h] = [rows |-> tx'[h].rows, deleted |-> tx'[h].deleted]
    BY <1>2
  <2>3. \A x \in F!Touched(h)' : /\ tx'[h].rows[x] \subseteq F!Blob
                                /\ \A b \in tx'[h].rows[x] : Kept(x, b, {})'
    BY <1>3, <1>4, <2>1 DEF TxOK
  <2>4. \A k \in deleted : k[1] \in F!Touched(h) \cup {e}
    BY <2>1 DEF TxOK
  <2>5. \A g \in Handler : g # h => F!Touched(g)' \cap F!Touched(h)' = {}
    BY <1>1, <1>3, <2>1 DEF TxOK, F!MayTouch
  <2> QED
    BY <1>3, <2>1, <2>2, <2>3, <2>4, <2>5 DEF TxOK
<1>7. ASSUME NEW x \in Entry, NEW b \in blob[x] PROVE Kept(x, b, Handler)'
  <2>1. b \in F!Blob /\ Kept(x, b, Handler)
    BY DEF BlobsInv
  <2>2. CASE x = e
    BY <2>2
  <2>3. CASE x # e
    <3> DEFINE k == F!ObjectKey(x, b.bytes)
    <3>1. k \in F!Key /\ k[1] # e
      BY <1>0, <2>1, <2>3
    <3>2. \A g \in Handler : k \in tx[g].deleted => k \in tx'[g].deleted
      BY <1>1, <1>3, <3>1
    <3> QED
      BY <2>1, <3>1, <3>2 DEF Kept, F!Readable, F!ObjectKey
  <2> QED
    BY <2>2, <2>3
<1> QED
  BY <1>1, <1>2, <1>5, <1>6, <1>7 DEF BlobsInv

LEMMA StoreStep ==
  ASSUME BlobsInv, NEW h \in Handler, NEW e \in Entry, NEW c \in Bytes, F!StoreBlob(h, e, c)
  PROVE  BlobsInv'
<1> DEFINE k   == <<e, c>>
           put == IF enabled THEN [object EXCEPT ![k] = {c}] ELSE object
           new == {[at |-> IF enabled THEN "store" ELSE "row", bytes |-> c]}
<1>0. k \in F!Key /\ k = F!ObjectKey(e, c) /\ new \subseteq F!Blob
  BY DEF F!Key, F!ObjectKey, F!Blob
<1>1. /\ put \in [F!Key -> SUBSET Bytes]
      /\ \A x \in F!Key : put[x] = object[x] \/ (x[1] = e /\ put[x] = {x[2]})
      /\ \A x \in F!Key : put[x] \subseteq {x[2]}
  BY <1>0 DEF BlobsInv, ObjectsOK
<1>2. CASE object' \in {object, put} /\ F!Undo(h, {})
  <2>1. ObjectsOK'
    BY <1>1, <1>2 DEF BlobsInv, ObjectsOK, F!Key
  <2>2. \A g \in Handler : e \notin F!Touched(g)
    BY DEF F!StoreBlob, F!MayTouch
  <2>3. \A x \in F!Key :
          \/ object'[x] = object[x]
          \/ /\ \A g \in Handler : x[1] \notin F!Touched(g)
             /\ object'[x] = {x[2]} \/ (object'[x] = {} /\ x \in {})
    BY <1>1, <1>2, <2>2
  <2> QED
    BY <1>2, <2>1, <2>3, UndoStep
<1>3. CASE /\ object' = put
           /\ F!Touch(h, e, new, IF enabled THEN tx[h].deleted \ {k} ELSE tx[h].deleted)
           /\ undone' = IF enabled THEN undone \ {k} ELSE undone
  <2> DEFINE deleted == IF enabled THEN tx[h].deleted \ {k} ELSE tx[h].deleted
  <2>1. ObjectsOK' /\ undone' \subseteq F!Key /\ deleted \in SUBSET F!Key
    BY <1>1, <1>3 DEF BlobsInv, ObjectsOK, F!Key, TxOK
  <2>2. \A x \in F!Key : x[1] # e =>
           /\ object'[x] = object[x]
           /\ x \in undone' <=> x \in undone
           /\ x \in tx[h].deleted => x \in deleted
    BY <1>1, <1>3
  <2>3. enabled => object'[k] = {c}
    BY <1>0, <1>3 DEF BlobsInv, ObjectsOK
  <2>4. \A b \in new : Kept(e, b, {})'
    BY <1>0, <2>3 DEF Kept, F!Readable, F!ObjectKey
  <2>5. ASSUME NEW b \in blob[e] PROVE Kept(e, b, Handler)'
    <3> DEFINE x == F!ObjectKey(e, b.bytes)
    <3>1. b \in F!Blob /\ Kept(e, b, Handler) /\ x \in F!Key /\ x = <<e, b.bytes>>
      BY DEF BlobsInv, F!ObjectKey, F!Key, F!Blob
    <3>2. CASE x = k /\ enabled
      BY <2>3, <3>1, <3>2 DEF Kept, F!Readable, F!ObjectKey
    <3>3. CASE ~(x = k /\ enabled)
      <4>1. object'[x] = object[x] /\ (x \in undone' <=> x \in undone)
        BY <1>3, <3>1, <3>3 DEF BlobsInv, ObjectsOK
      <4>2. x \in tx[h].deleted => x \in deleted
        BY <3>3
      <4>3. /\ tx'[h].deleted = deleted
            /\ \A g \in Handler : g # h => tx'[g] = tx[g]
        BY <1>3 DEF F!Touch, BlobsInv
      <4>4. \A g \in Handler : x \in tx[g].deleted => x \in tx'[g].deleted
        BY <4>2, <4>3
      <4> QED
        BY <3>1, <4>1, <4>4 DEF Kept, F!Readable, F!ObjectKey
    <3> QED
      BY <3>2, <3>3
  <2>6. \A x \in deleted : x \in tx[h].deleted \/ x[1] = e
    OBVIOUS
  <2>7. F!MayTouch(h, e)
    BY DEF F!StoreBlob
  <2> HIDE DEF deleted, new, put
  <2> QED
    BY <1>0, <1>3, <2>1, <2>2, <2>4, <2>5, <2>6, <2>7, TouchStep DEF deleted
<1> QED
  BY <1>0, <1>2, <1>3 DEF F!StoreBlob

LEMMA DeleteStep ==
  ASSUME BlobsInv, NEW h \in Handler, NEW e \in Entry, F!DeleteBlob(h, e)
  PROVE  BlobsInv'
<1> DEFINE named   == {F!ObjectKey(e, b.bytes) : b \in {r \in F!Row(h, e) : enabled /\ r.at = "store"}}
           without == [x \in F!Key |-> IF x \in named THEN {} ELSE object[x]]
<1>0. \A g \in Handler : e \notin F!Touched(g)
  BY DEF F!DeleteBlob, F!MayTouch
<1>1. /\ F!Row(h, e) \subseteq F!Blob
      /\ named \subseteq F!Key
      /\ \A x \in named : x[1] = e
  BY <1>0 DEF BlobsInv, F!Row, F!Key, F!ObjectKey, F!Blob
<1>2. /\ without \in [F!Key -> SUBSET Bytes]
      /\ \A x \in F!Key : \/ without[x] = object[x] /\ x \notin named
                          \/ x[1] = e /\ without[x] = {} /\ x \in named
      /\ \A x \in F!Key : without[x] \subseteq {x[2]}
  BY <1>1 DEF BlobsInv, ObjectsOK
<1> HIDE DEF without, named
<1>3. CASE object' \in {object, without} /\ F!Undo(h, named)
  <2>1. ObjectsOK'
    BY <1>2, <1>3 DEF BlobsInv, ObjectsOK, F!Key
  <2>2. \A x \in F!Key :
          \/ object'[x] = object[x]
          \/ /\ \A g \in Handler : x[1] \notin F!Touched(g)
             /\ object'[x] = {x[2]} \/ (object'[x] = {} /\ x \in named)
    BY <1>0, <1>2, <1>3
  <2> QED
    BY <1>1, <1>3, <2>1, <2>2, UndoStep
<1>4. CASE /\ object' = without
           /\ F!Touch(h, e, {}, tx[h].deleted \cup named)
           /\ UNCHANGED undone
  <2>1. ObjectsOK' /\ undone' \subseteq F!Key /\ tx[h].deleted \cup named \in SUBSET F!Key
    BY <1>1, <1>2, <1>4 DEF BlobsInv, ObjectsOK, F!Key, TxOK
  <2>2. \A x \in F!Key : x[1] # e =>
           /\ object'[x] = object[x]
           /\ x \in undone' <=> x \in undone
           /\ x \in tx[h].deleted => x \in tx[h].deleted \cup named
    BY <1>2, <1>4
  <2>3. ASSUME NEW b \in blob[e] PROVE Kept(e, b, Handler)'
    <3> DEFINE x == F!ObjectKey(e, b.bytes)
    <3>1. b \in F!Blob /\ Kept(e, b, Handler) /\ x \in F!Key /\ x = <<e, b.bytes>>
      BY DEF BlobsInv, F!ObjectKey, F!Key, F!Blob
    <3>2. /\ tx'[h].deleted = tx[h].deleted \cup named
          /\ \A g \in Handler : g # h => tx'[g] = tx[g]
      BY <1>4 DEF F!Touch, BlobsInv
    <3>3. CASE x \in named
      BY <3>2, <3>3 DEF Kept, F!ObjectKey
    <3>4. CASE x \notin named
      <4>1. object'[x] = object[x]
        BY <1>2, <1>4, <3>1, <3>4
      <4>2. \A g \in Handler : x \in tx[g].deleted => x \in tx'[g].deleted
        BY <3>2
      <4> QED
        BY <1>4, <3>1, <4>1, <4>2 DEF Kept, F!Readable, F!ObjectKey
    <3> QED
      BY <3>3, <3>4
  <2>4. \A x \in tx[h].deleted \cup named : x \in tx[h].deleted \/ x[1] = e
    BY <1>1
  <2>5. F!MayTouch(h, e)
    BY DEF F!DeleteBlob
  <2> QED
    BY <1>4, <2>1, <2>2, <2>3, <2>4, <2>5, TouchStep
<1> QED
  BY <1>3, <1>4 DEF F!DeleteBlob, named, without

\* The rows of a transaction become the committed ones, with what they say.
LEMMA CommitStep ==
  ASSUME BlobsInv, NEW h \in Handler, F!Commit(h)
  PROVE  BlobsInv'
<1>1. /\ blob' = [e \in Entry |-> F!Row(h, e)]
      /\ tx' = [tx EXCEPT ![h] = F!NoTx]
      /\ UNCHANGED <<enabled, object, undone>>
  BY DEF F!Commit
<1>0. DOMAIN <<>> = {}
  OBVIOUS
<1>2. /\ tx'[h] = F!NoTx /\ F!Touched(h)' = {} /\ tx'[h].deleted = {}
      /\ \A g \in Handler : g # h => tx'[g] = tx[g] /\ F!Touched(g)' = F!Touched(g)
  BY <1>0, <1>1 DEF BlobsInv, F!NoTx, F!Touched
<1>3. ASSUME NEW g \in Handler PROVE TxOK(g)'
  <2>1. CASE g = h
    BY <1>2, <2>1 DEF TxOK, F!NoTx
  <2>2. CASE g # h
    BY <1>1, <1>2, <2>2 DEF BlobsInv, TxOK, Kept, F!Readable, F!ObjectKey
  <2> QED
    BY <2>1, <2>2
<1>4. ASSUME NEW e \in Entry PROVE F!Row(h, e) \subseteq F!Blob
  BY DEF BlobsInv, TxOK, F!Row
<1>5. ASSUME NEW e \in Entry, NEW b \in F!Row(h, e) PROVE Kept(e, b, Handler)'
  <2> DEFINE k == F!ObjectKey(e, b.bytes)
  <2>0. b \in F!Blob /\ k = <<e, b.bytes>>
    BY <1>4 DEF F!ObjectKey
  <2>1. CASE e \in F!Touched(h)
    <3>1. Kept(e, b, {})
      BY <2>1 DEF BlobsInv, TxOK, F!Row
    <3> QED
      BY <1>1, <3>1 DEF Kept, F!Readable, F!ObjectKey
  <2>2. CASE e \notin F!Touched(h)
    <3>1. Kept(e, b, Handler) /\ k \notin tx[h].deleted
      BY <2>0, <2>2 DEF BlobsInv, TxOK, F!Row
    <3> QED
      BY <1>1, <1>2, <3>1 DEF Kept, F!Readable, F!ObjectKey
  <2> QED
    BY <2>1, <2>2
<1>6. ObjectsOK'
  BY <1>1 DEF BlobsInv, ObjectsOK
<1>7. blob' \in [Entry -> SUBSET F!Blob]
  BY <1>1, <1>4
<1>8. \A e \in Entry : \A b \in blob'[e] : Kept(e, b, Handler)'
  BY <1>1, <1>5
<1> QED
  BY <1>1, <1>3, <1>6, <1>7, <1>8 DEF BlobsInv

LEMMA RollbackStep ==
  ASSUME BlobsInv, NEW h \in Handler, F!Rollback(h)
  PROVE  BlobsInv'
<1>1. object' = object /\ F!Undo(h, {})
  BY DEF F!Rollback
<1>2. ObjectsOK'
  BY <1>1 DEF BlobsInv, ObjectsOK
<1> QED
  BY <1>1, <1>2, UndoStep

LEMMA ConfigureStep == BlobsInv /\ (F!Configure \/ UNCHANGED F!vars) => BlobsInv'
<1> SUFFICES ASSUME BlobsInv, F!Configure \/ UNCHANGED F!vars PROVE BlobsInv'
  OBVIOUS
<1>1. UNCHANGED <<blob, object, tx, undone>> /\ enabled' \in BOOLEAN
  BY DEF F!Configure, F!vars, BlobsInv
<1>2. /\ \A e \in Entry, b \in F!Blob, gs \in {{}, Handler} : Kept(e, b, gs)' <=> Kept(e, b, gs)
      /\ \A g \in Handler : F!Touched(g)' = F!Touched(g)
  BY <1>1 DEF Kept, F!Readable, F!ObjectKey, F!Touched
<1>3. ObjectsOK' /\ \A g \in Handler : TxOK(g)'
  BY <1>1, <1>2 DEF BlobsInv, ObjectsOK, TxOK
<1> QED
  BY <1>1, <1>2, <1>3 DEF BlobsInv

LEMMA BlobsNext == BlobsInv /\ [F!Next]_(F!vars) => BlobsInv'
  BY StoreStep, DeleteStep, CommitStep, RollbackStep, ConfigureStep DEF F!Next

LEMMA BlobsPromise == BlobsInv => BlobsReadable
  BY DEF BlobsInv, Kept, BlobsReadable, F!BlobsReadable

\* Whatever transactions overlap, fail half-way or skip a file, a committed row
\* names bytes that are there and are its own, or that a change deleted that is
\* open or was undone.
THEOREM BlobsAreReadable == F!Spec => []BlobsReadable
  BY BlobsInit, BlobsNext, BlobsPromise, PTL DEF F!Spec

-----------------------------------------------------------------------------
(*                                  Inbox                                  *)

\* A message is sent once, before its row there are no moves; a move that has
\* deleted the file of the incoming message leaves none behind, and one that
\* starts from the archived status finds it in the row.
MoveOK(h) ==
  /\ move[h].at = "insert" => message = "none" /\ files # {}
  /\ move[h].at \in {"lookup", "delete", "write", "update"} => message # "none"
  /\ move[h].at \in {"delete", "write", "update"} =>
       /\ move[h].from \in I!Status
       /\ move[h].from = "archived" => message = "archived"
  /\ move[h].at \in {"write", "update"} /\ move[h].from = "incoming" =>
       "incoming" \notin files \/ stayed

OneInsert ==
  /\ ~sent => message = "none" /\ \A h \in Mover : move[h].at # "insert"
  /\ \A h, g \in Mover : move[h].at = "insert" /\ move[g].at = "insert" => h = g

InboxInv == I!TypeOK /\ OneInsert /\ MessageKept /\ \A h \in Mover : MoveOK(h)

LEMMA InboxInit == I!Init => InboxInv
<1> SUFFICES ASSUME I!Init PROVE InboxInv
  OBVIOUS
<1>1. /\ move = [h \in Mover |-> [at |-> "idle", from |-> "none"]]
      /\ message = "none" /\ files = {} /\ sent = FALSE /\ cut = FALSE /\ stayed = FALSE
  BY DEF I!Init, I!Idle
<1>2. I!TypeOK
  BY <1>1 DEF I!TypeOK, I!Status
<1> QED
  BY <1>1, <1>2 DEF InboxInv, OneInsert, MoveOK, MessageKept, I!MessageKept

LEMMA SendStep ==
  ASSUME InboxInv, NEW h \in Mover, I!Send(h) \/ I!InsertRow(h)
  PROVE  InboxInv'
<1> USE DEF InboxInv, OneInsert, MoveOK, MessageKept, I!MessageKept, I!TypeOK, I!Status,
            I!Goto, I!Idle
<1>1. CASE I!Send(h)
  BY <1>1 DEF I!Send
<1>2. CASE I!InsertRow(h)
  BY <1>2 DEF I!InsertRow
<1> QED
  BY <1>1, <1>2

LEMMA MoveStep ==
  ASSUME InboxInv, NEW h \in Mover,
         \/ I!ArchiveExpiredMessages(h) \/ I!Archive(h) \/ I!DeleteOld(h)
         \/ I!WriteNew(h) \/ I!UpdateRow(h)
  PROVE  InboxInv'
<1> USE DEF InboxInv, OneInsert, MoveOK, MessageKept, I!MessageKept, I!TypeOK, I!Status,
            I!Goto, I!Idle
<1>1. CASE I!ArchiveExpiredMessages(h)
  BY <1>1 DEF I!ArchiveExpiredMessages
<1>2. CASE I!Archive(h)
  BY <1>2 DEF I!Archive
<1>3. CASE I!DeleteOld(h)
  <2>1. PICK from \in I!Status : from = move[h].from /\ move[h].at = "delete"
    BY <1>3 DEF I!DeleteOld
  <2>2. /\ move' = [move EXCEPT ![h] = [at |-> "write", from |-> from]]
        /\ UNCHANGED <<message, sent, cut>>
        /\ \/ files' = files \ {I!OldFile(from)} /\ stayed' = stayed
           \/ files' = files /\ stayed' = (stayed \/ I!OldFile(from) = "incoming")
    BY <1>3, <2>1 DEF I!DeleteOld
  <2> QED
    BY <2>1, <2>2 DEF I!OldFile
<1>4. CASE I!WriteNew(h)
  BY <1>4 DEF I!WriteNew
<1>5. CASE I!UpdateRow(h)
  BY <1>5 DEF I!UpdateRow
<1> QED
  BY <1>1, <1>2, <1>3, <1>4, <1>5

LEMMA InboxFail ==
  ASSUME InboxInv, NEW h \in Mover, I!Fail(h)
  PROVE  InboxInv'
  BY DEF InboxInv, OneInsert, MoveOK, MessageKept, I!MessageKept, I!TypeOK, I!Status,
         I!Idle, I!Fail

LEMMA InboxNext == InboxInv /\ [I!Next]_(I!vars) => InboxInv'
<1> SUFFICES ASSUME InboxInv, [I!Next]_(I!vars) PROVE InboxInv'
  OBVIOUS
<1>1. CASE UNCHANGED I!vars
  BY <1>1 DEF InboxInv, OneInsert, MoveOK, MessageKept, I!MessageKept, I!TypeOK, I!vars
<1>2. CASE I!Next
  BY <1>2, SendStep, MoveStep, InboxFail DEF I!Next
<1> QED
  BY <1>1, <1>2

LEMMA InboxPromise == InboxInv => MessageKept
  BY DEF InboxInv

\* Whatever moves overlap, fail and are repeated, a message keeps a file, and
\* an archived one is not listed among the incoming.
THEOREM MessagesKept == I!Spec => []MessageKept
  BY InboxInit, InboxNext, InboxPromise, PTL DEF I!Spec

-----------------------------------------------------------------------------
(*                        The types of the state                           *)

\* Published states and review events: a document is written whole, and the
\* history is cut off at its length.
AssetsTypes ==
  /\ history \in Seq(A!Item) /\ (Len(history) <= HistoryLength \/ rewritten)
  /\ rewritten \in BOOLEAN
  /\ \A h \in Handler :
       /\ assetCall[h].at \in {"history", "append"} => assetCall[h].item \in A!Item
       /\ assetCall[h].at = "append" => assetCall[h].copy \in Seq(A!Item)
  /\ requests \in 0 .. MaxRequests

LEMMA CutOff ==
  ASSUME NEW s \in Seq(A!Item)
  PROVE  A!Newest(s) \in Seq(A!Item) /\ Len(A!Newest(s)) <= HistoryLength
<1> DEFINE S == {Len(s), HistoryLength}
<1>1. Len(s) \in Nat /\ HistoryLength \in Nat
  BY BoundAssumption
<1>2. \E x \in S : \A y \in S : x <= y
  <2>1. CASE Len(s) <= HistoryLength
    BY <1>1, <2>1
  <2>2. CASE ~(Len(s) <= HistoryLength)
    BY <1>1, <2>2
  <2> QED
    BY <2>1, <2>2
<1>3. A!Min(S) \in S /\ \A y \in S : A!Min(S) <= y
  BY <1>2 DEF A!Min
<1>4. PICK n \in Nat : n = A!Min({Len(s), HistoryLength}) /\ n <= Len(s) /\ n <= HistoryLength
  BY <1>1, <1>3
<1>5. /\ SubSeq(s, 1, n) \in Seq(A!Item)
      /\ Len(SubSeq(s, 1, n)) = IF 1 <= n THEN n - 1 + 1 ELSE 0
      /\ \A i \in 1 .. n - 1 + 1 : SubSeq(s, 1, n)[i] = s[1 + i - 1]
  <2>1. \A i \in 1 .. n : s[i] \in A!Item
    BY <1>1, <1>4
  <2>2. 1 \in Int /\ n \in Int
    BY <1>4
  <2> QED
    BY <2>1, <2>2, SubSeqProperties
<1>6. A!Newest(s) = SubSeq(s, 1, n)
  BY <1>4 DEF A!Newest
<1>7. Len(SubSeq(s, 1, n)) <= HistoryLength
  BY <1>1, <1>4, <1>5
<1> QED
  BY <1>5, <1>6, <1>7

LEMMA AssetsTypesInit == A!Init => AssetsTypes
<1> SUFFICES ASSUME A!Init PROVE AssetsTypes
  OBVIOUS
<1>1. \A h \in Handler : assetCall[h].at = "idle"
  BY DEF A!Init, A!NoCall
<1>2. history \in Seq(A!Item) /\ Len(history) = 0 /\ requests = MaxRequests
  BY DEF A!Init
<1>3. rewritten \in BOOLEAN
  BY Zenon DEF A!Init
<1> QED
  BY <1>1, <1>2, <1>3, BoundAssumption DEF AssetsTypes

LEMMA AssetsTypesNext ==
  ASSUME AssetsInv, AssetsTypes, [A!Next]_(A!vars) PROVE AssetsTypes'
<1>0. DOMAIN assetCall = Handler
  BY DEF AssetsInv
<1>1. CASE UNCHANGED A!vars
  BY <1>1 DEF AssetsTypes, A!vars
<1>2. ASSUME NEW h \in Handler, NEW c, assetCall' = [assetCall EXCEPT ![h] = c],
             c.at \notin {"history", "append"}, UNCHANGED <<history, rewritten>>,
             requests' \in 0 .. MaxRequests
      PROVE  AssetsTypes'
  BY <1>0, <1>2 DEF AssetsTypes
<1>3. ASSUME NEW h \in Handler, A!SaveState(h) \/ A!Resolve(h) \/ A!RequestReview(h)
      PROVE  AssetsTypes'
  <2>1. PICK c \in A!Call : A!Arrive(h, c)
    BY <1>3 DEF A!SaveState, A!Resolve, A!RequestReview
  <2>2. c.at = "read"
    BY DEF A!Call
  <2>3. requests' \in 0 .. MaxRequests
    BY <2>1, BoundAssumption DEF A!Arrive, AssetsTypes
  <2> QED
    BY <1>2, <2>1, <2>2, <2>3 DEF A!Arrive
<1>4. ASSUME NEW h \in Handler, A!Read(h) PROVE AssetsTypes'
  <2> DEFINE c == assetCall[h]
             new == IF c.item \in Agent /\ c.op # "save" /\ doc[c.item] = "none" THEN A!NoCall
                    ELSE [at |-> "write", item |-> c.item, look |-> c.look,
                          manager |-> c.manager, copy |-> doc]
  <2>1. new.at \in {"idle", "write"}
    BY DEF A!NoCall
  <2>2. assetCall' = [assetCall EXCEPT ![h] = new] /\ UNCHANGED <<history, requests, rewritten>>
    BY <1>4 DEF A!Read, A!Goto
  <2>3. requests' \in 0 .. MaxRequests
    BY <2>2 DEF AssetsTypes
  <2> HIDE DEF new
  <2> QED
    BY <1>2, <2>1, <2>2, <2>3
<1>5. ASSUME NEW h \in Handler, A!Write(h) PROVE AssetsTypes'
  <2>1. assetCall[h].item \in A!Item
    BY <1>5 DEF A!Write, AssetsInv, AssetCallOK
  <2>2. /\ assetCall' = [assetCall EXCEPT ![h] = [at |-> "history", item |-> assetCall[h].item]]
        /\ UNCHANGED <<history, requests, rewritten>>
    BY <1>5 DEF A!Write, A!Goto
  <2> QED
    BY <1>0, <2>1, <2>2 DEF AssetsTypes
<1>6. ASSUME NEW h \in Handler, A!ReadHistory(h) PROVE AssetsTypes'
  BY <1>0, <1>6 DEF A!ReadHistory, A!Goto, AssetsTypes
<1>7. ASSUME NEW h \in Handler, A!AppendEvent(h) PROVE AssetsTypes'
  <2> DEFINE new == <<assetCall[h].item>> \o assetCall[h].copy
  <2>1. new \in Seq(A!Item)
    BY <1>7 DEF A!AppendEvent, AssetsTypes
  <2>2. history' = A!Newest(new)
    BY <1>7 DEF A!AppendEvent
  <2> HIDE DEF new
  <2>3. history' \in Seq(A!Item) /\ Len(history') <= HistoryLength
    BY <2>1, <2>2, CutOff
  <2> QED
    BY <1>0, <1>7, <2>3 DEF A!AppendEvent, A!Goto, A!NoCall, AssetsTypes
<1>8. ASSUME NEW h \in Handler, A!Fail(h) PROVE AssetsTypes'
  BY <1>0, <1>8 DEF A!Fail, A!Goto, A!NoCall, AssetsTypes
<1>9. CASE A!TreeWrite
  <2>1. requests' \in 0 .. MaxRequests /\ UNCHANGED <<history, rewritten, assetCall>>
    BY <1>9, BoundAssumption DEF A!TreeWrite, AssetsTypes
  <2> QED
    BY <2>1 DEF AssetsTypes
<1>10. CASE A!TreeWriteHistory
  <2>1. requests' \in 0 .. MaxRequests /\ UNCHANGED assetCall /\ rewritten' = TRUE
    BY <1>10, BoundAssumption DEF A!TreeWriteHistory, AssetsTypes
  <2>2. PICK i \in A!Item : history' \in {<<>>, [k \in 1 .. HistoryLength + 1 |-> i]}
    BY <1>10 DEF A!TreeWriteHistory
  <2>3. PICK n \in Nat : n = HistoryLength + 1
    BY BoundAssumption
  <2>4. PICK z : z = [k \in 1 .. n |-> i]
    OBVIOUS
  <2>5. z \in Seq(A!Item) /\ <<>> \in Seq(A!Item)
    BY <2>4
  <2>6. history' = <<>> \/ history' = z
    BY <2>2, <2>3, <2>4
  <2>7. history' \in Seq(A!Item)
    BY <2>5, <2>6
  <2> QED
    BY <2>1, <2>7 DEF AssetsTypes
<1> QED
  BY <1>1, <1>3, <1>4, <1>5, <1>6, <1>7, <1>8, <1>9, <1>10 DEF A!Next

LEMMA AssetsAreTyped == AssetsInv /\ AssetsTypes => A!TypeOK
<1>1. AssetsInv => \A h \in Handler : assetCall[h].at \in {"idle", "read", "write", "history", "append"}
  BY DEF AssetsInv, AssetCallOK
<1> QED
  BY <1>1 DEF AssetsInv, AssetsTypes, A!TypeOK

\* A refresh never goes beyond the last pair: only the newest refresh token is
\* a session, and the access token that came with it is alive when it is the
\* last one, so that nobody refreshes it.
IsPair(pair) == pair \in [access : 0 .. issued, refresh : 0 .. issued] /\ pair.access = pair.refresh

SessionsTypes ==
  /\ issued \in 0 .. MaxPairs
  /\ issued = MaxPairs => MaxPairs \in live
  /\ sessions \subseteq {issued}
  /\ IsPair(disk)
  /\ \A g \in R!Goroutine :
       /\ proc[g].at \in {"idle", "lock", "select", "delete", "insert", "save"}
       /\ proc[g].at \in {"select", "save"} => IsPair(proc[g].pair)
       /\ proc[g].at = "select" => proc[g].pair.access \notin live
       /\ proc[g].at \in {"delete", "insert"} => issued < MaxPairs
       /\ proc[g].at = "delete" => proc[g].pair.refresh = issued
       /\ proc[g].at = "insert" => sessions = {}
  /\ \A c \in Command : \A pair \in command[c] : IsPair(pair)
  /\ sessionUpsets \in 0 .. MaxUpsets

LEMMA SessionsTypesInit == R!Init => SessionsTypes
<1> SUFFICES ASSUME R!Init PROVE SessionsTypes
  OBVIOUS
<1>1. MaxPairs \in Nat /\ MaxUpsets \in Nat
  BY BoundAssumption
<1>2. \A g \in R!Goroutine : proc[g].at = "idle"
  BY DEF R!Init, R!NoProc
<1>3. issued = 0 /\ live = {0} /\ sessions = {0} /\ disk = R!First /\ sessionUpsets = MaxUpsets
      /\ \A c \in Command : command[c] = {}
  BY DEF R!Init
<1>4. IsPair(disk)
  BY <1>3 DEF IsPair, R!First
<1> QED
  BY <1>1, <1>2, <1>3, <1>4 DEF SessionsTypes

LEMMA UpsetTypes ==
  ASSUME SessionsTypes, R!Upset \/ UNCHANGED sessionUpsets
  PROVE  sessionUpsets' \in 0 .. MaxUpsets
  BY BoundAssumption DEF SessionsTypes, R!Upset

\* Steps of one goroutine that issue nothing.
LEMMA ProcTypes ==
  ASSUME SessionsInv, SessionsTypes, NEW g \in R!Goroutine, NEW new,
         proc' = [proc EXCEPT ![g] = new], UNCHANGED <<live, issued>>,
         sessions' \subseteq sessions, IsPair(disk'), UNCHANGED command,
         R!Upset \/ UNCHANGED sessionUpsets,
         new.at \in {"idle", "lock", "select", "delete", "insert", "save"},
         new.at \in {"select", "save"} => IsPair(new.pair),
         new.at = "select" => new.pair.access \notin live,
         new.at \in {"delete", "insert"} => issued < MaxPairs,
         new.at = "delete" => new.pair.refresh = issued,
         new.at = "insert" => sessions' = {}
  PROVE  SessionsTypes'
<1>1. \A f \in R!Goroutine : proc'[f] = IF f = g THEN new ELSE proc[f]
  BY DEF SessionsInv, LockOK
<1>2. sessionUpsets' \in 0 .. MaxUpsets
  BY UpsetTypes
<1> QED
  BY <1>1, <1>2 DEF SessionsTypes, IsPair

LEMMA SessionsTypesNext ==
  ASSUME SessionsInv, SessionsTypes, [R!Next]_(R!vars) PROVE SessionsTypes'
<1>0. /\ MaxPairs \in Nat /\ issued \in 0 .. MaxPairs /\ live \subseteq 0 .. issued
      /\ sessions \subseteq {issued} /\ IsPair(disk) /\ DOMAIN proc = R!Goroutine
      /\ DOMAIN command = Command
  BY BoundAssumption DEF SessionsInv, SessionsTypes, NumbersOK, LockOK
<1>1. CASE UNCHANGED R!vars
  BY <1>1 DEF SessionsTypes, IsPair, R!vars
<1>2. ASSUME NEW g \in R!Goroutine, R!Refused(g) PROVE SessionsTypes'
  <2>1. PICK new : /\ new.at = "lock" /\ proc' = [proc EXCEPT ![g] = new]
                   /\ UNCHANGED <<live, sessions, issued, disk, lock, command, sessionUpsets, lost>>
    BY <1>2 DEF R!Refused, R!Goto
  <2>2. IsPair(disk')
    BY <1>0, <2>1
  <2> QED
    BY <2>1, <2>2, ProcTypes
<1>3. ASSUME NEW g \in R!Goroutine, R!LoadConfig(g) PROVE SessionsTypes'
  <2>1. /\ proc[g].at = "lock"
        /\ UNCHANGED <<live, sessions, issued, disk, command, sessionUpsets, lost>>
    BY <1>3 DEF R!LoadConfig
  <2>2. IsPair(disk')
    BY <1>0, <2>1
  <2>3. CASE R!StillCurrent(proc[g].token)
    <3>1. PICK new : new = [at |-> "select", pair |-> disk]
      OBVIOUS
    <3>2. proc' = [proc EXCEPT ![g] = new]
      BY <1>3, <2>3, <3>1 DEF R!LoadConfig, R!Goto
    <3>3. disk.access \notin live
      BY <2>1, <2>3 DEF SessionsInv, RefusedOK, R!StillCurrent
    <3>4. new.at = "select" /\ new.pair = disk
      BY <3>1
    <3> QED
      BY <1>0, <2>1, <2>2, <3>2, <3>3, <3>4, ProcTypes
  <2>4. CASE ~R!StillCurrent(proc[g].token)
    <3>1. proc' = [proc EXCEPT ![g] = R!NoProc] /\ R!NoProc.at = "idle"
      BY <1>3, <2>4 DEF R!LoadConfig, R!Goto, R!NoProc
    <3> QED
      BY <2>1, <2>2, <3>1, ProcTypes
  <2> QED
    BY <2>3, <2>4
<1>4. ASSUME NEW g \in R!Goroutine, R!SelectSession(g) PROVE SessionsTypes'
  <2>1. /\ proc[g].at = "select"
        /\ UNCHANGED <<live, sessions, issued, disk, command, sessionUpsets, lost>>
    BY <1>4 DEF R!SelectSession
  <2>2. IsPair(disk')
    BY <1>0, <2>1
  <2>3. CASE proc[g].pair.refresh \in sessions
    <3>1. PICK new : new = [at |-> "delete", pair |-> proc[g].pair]
      OBVIOUS
    <3>2. proc' = [proc EXCEPT ![g] = new] /\ new.at = "delete" /\ new.pair = proc[g].pair
      BY <1>4, <2>3, <3>1 DEF R!SelectSession, R!Goto
    <3>3. /\ proc[g].pair.refresh = issued /\ proc[g].pair.access = issued
          /\ issued \notin live
      BY <1>0, <2>1, <2>3 DEF SessionsTypes, IsPair
    <3>4. issued < MaxPairs
      BY <1>0, <3>3 DEF SessionsTypes
    <3> QED
      BY <2>1, <2>2, <3>2, <3>3, <3>4, ProcTypes
  <2>4. CASE proc[g].pair.refresh \notin sessions
    <3>1. proc' = [proc EXCEPT ![g] = R!NoProc] /\ R!NoProc.at = "idle"
      BY <1>4, <2>4 DEF R!SelectSession, R!Goto, R!NoProc
    <3> QED
      BY <2>1, <2>2, <3>1, ProcTypes
  <2> QED
    BY <2>3, <2>4
<1>5. ASSUME NEW g \in R!Goroutine, R!DeleteSession(g) PROVE SessionsTypes'
  <2>1. /\ proc[g].at = "delete" /\ sessions' = sessions \ {proc[g].pair.refresh}
        /\ UNCHANGED <<live, issued, disk, command, sessionUpsets>>
    BY <1>5 DEF R!DeleteSession
  <2>2. PICK new : new.at = "insert" /\ proc' = [proc EXCEPT ![g] = new]
    BY <1>5 DEF R!DeleteSession, R!Goto
  <2>3. issued < MaxPairs /\ sessions' = {}
    BY <1>0, <2>1 DEF SessionsTypes
  <2>4. IsPair(disk')
    BY <1>0, <2>1
  <2> QED
    BY <2>1, <2>2, <2>3, <2>4, ProcTypes
<1>6. ASSUME NEW g \in R!Goroutine, R!InsertSession(g) PROVE SessionsTypes'
  <2>1. PICK n : n = issued + 1
    OBVIOUS
  <2>2. PICK new : new = [at |-> "save", pair |-> [access |-> n, refresh |-> n]]
    OBVIOUS
  <2>3. /\ proc[g].at = "insert" /\ issued' = n
        /\ sessions' = sessions \cup {n} /\ live' = live \cup {n}
        /\ proc' = [proc EXCEPT ![g] = new]
        /\ UNCHANGED <<disk, lock, command, sessionUpsets, lost>>
    BY <1>6, <2>1, <2>2 DEF R!InsertSession, R!Goto
  <2>4. sessions = {} /\ issued < MaxPairs /\ n \in 0 .. MaxPairs /\ n \in Nat /\ issued < n
    BY <1>0, <2>1, <2>3 DEF SessionsTypes
  <2>5. lock = {g} /\ \A f \in R!Goroutine \ {g} : proc[f].at \in {"idle", "lock"}
    BY <2>3, OneHolder DEF SessionsInv, LockOK, Holds
  <2>6. ASSUME NEW pair, IsPair(pair)
        PROVE  pair \in [access : 0 .. n, refresh : 0 .. n]
    BY <1>0, <2>4, <2>6 DEF IsPair
  <2>7. \A f \in R!Goroutine : proc'[f] = IF f = g THEN new ELSE proc[f]
    BY <1>0, <2>3
  <2>8. new.at = "save" /\ new.pair \in [access : 0 .. n, refresh : 0 .. n]
        /\ new.pair.access = new.pair.refresh
    BY <2>2, <2>4
  <2>9. /\ \A c \in Command : \A pair \in command[c] : IsPair(pair)
        /\ IsPair(disk)
    BY DEF SessionsTypes
  <2>10. disk' \in [access : 0 .. n, refresh : 0 .. n] /\ disk'.access = disk'.refresh
    BY <2>3, <2>6, <2>9 DEF IsPair
  <2>11. ASSUME NEW c \in Command, NEW pair \in command[c]
         PROVE  pair \in [access : 0 .. n, refresh : 0 .. n] /\ pair.access = pair.refresh
    BY <2>6, <2>9 DEF IsPair
  <2>12. ASSUME NEW f \in R!Goroutine, f # g PROVE proc'[f].at \in {"idle", "lock"}
    BY <2>5, <2>7, <2>12
  <2>13. sessionUpsets' \in 0 .. MaxUpsets
    BY <2>3, UpsetTypes
  <2>14. issued' \in 0 .. MaxPairs /\ (issued' = MaxPairs => MaxPairs \in live')
         /\ sessions' \subseteq {issued'}
    BY <2>3, <2>4
  <2> QED
    BY <2>3, <2>7, <2>8, <2>10, <2>11, <2>12, <2>13, <2>14 DEF SessionsTypes, IsPair
<1>7. ASSUME NEW g \in R!Goroutine, R!SaveConfig(g) PROVE SessionsTypes'
  <2>1. /\ proc[g].at = "save" /\ UNCHANGED <<live, sessions, issued, command>>
        /\ proc' = [proc EXCEPT ![g] = R!NoProc] /\ R!NoProc.at = "idle"
        /\ R!Upset \/ UNCHANGED sessionUpsets
        /\ disk' = proc[g].pair \/ disk' = disk
    BY <1>7 DEF R!SaveConfig, R!Goto, R!NoProc
  <2>2. IsPair(proc[g].pair)
    BY <2>1 DEF SessionsTypes
  <2>3. IsPair(disk')
    BY <1>0, <2>1, <2>2
  <2> QED
    BY <2>1, <2>3, ProcTypes
<1>8. ASSUME NEW g \in R!Goroutine, R!GiveUp(g) PROVE SessionsTypes'
  <2>1. /\ UNCHANGED <<live, sessions, issued, disk, command>>
        /\ proc' = [proc EXCEPT ![g] = R!NoProc] /\ R!NoProc.at = "idle"
        /\ R!Upset \/ UNCHANGED sessionUpsets
    BY <1>8 DEF R!GiveUp, R!Goto, R!NoProc
  <2>2. IsPair(disk')
    BY <1>0, <2>1
  <2> QED
    BY <2>1, <2>2, ProcTypes
<1>9. ASSUME NEW c \in Command, R!CommandLoads(c) \/ R!CommandSaves(c) PROVE SessionsTypes'
  <2>1. /\ UNCHANGED <<live, sessions, issued, proc>>
        /\ disk' = disk \/ disk' \in command[c]
        /\ command' = [command EXCEPT ![c] = {disk}] \/ command' = [command EXCEPT ![c] = {}]
        /\ R!Upset \/ UNCHANGED sessionUpsets
    BY <1>9 DEF R!CommandLoads, R!CommandSaves
  <2>2. \A d \in Command : \A pair \in command[d] : IsPair(pair)
    BY DEF SessionsTypes
  <2>3. IsPair(disk')
    BY <1>0, <2>1, <2>2
  <2>4. \A d \in Command : \A pair \in command'[d] : IsPair(pair)
    BY <1>0, <2>1, <2>2
  <2>5. sessionUpsets' \in 0 .. MaxUpsets
    BY <2>1, UpsetTypes
  <2> QED
    BY <2>1, <2>3, <2>4, <2>5 DEF SessionsTypes, IsPair
<1>10. ASSUME NEW n \in sessions, R!EndSession(n) PROVE SessionsTypes'
  <2>1. /\ UNCHANGED <<live, issued, disk, proc, lock, command>> /\ sessions' \subseteq sessions
        /\ sessionUpsets' \in 0 .. MaxUpsets
    BY <1>10, UpsetTypes DEF R!EndSession
  <2>2. \A g \in R!Goroutine : proc[g].at = "insert" => sessions' = {}
    BY <2>1 DEF SessionsTypes
  <2>3. sessions' \subseteq {issued}
    BY <1>0, <2>1
  <2> QED
    BY <2>1, <2>2, <2>3 DEF SessionsTypes, IsPair
<1>11. ASSUME NEW n \in live, R!Expire(n) PROVE SessionsTypes'
  <2>1. /\ UNCHANGED <<sessions, issued, disk, proc, lock, command, sessionUpsets>>
        /\ live' \subseteq live /\ issued < MaxPairs
    BY <1>11 DEF R!Expire
  <2> QED
    BY <1>0, <2>1 DEF SessionsTypes, IsPair
<1> QED
  BY <1>1, <1>2, <1>3, <1>4, <1>5, <1>6, <1>7, <1>8, <1>9, <1>10, <1>11 DEF R!Next

LEMMA SessionsAreTyped == SessionsInv /\ SessionsTypes => R!TypeOK
<1> SUFFICES ASSUME SessionsInv, SessionsTypes PROVE R!TypeOK
  OBVIOUS
<1>1. issued \in 0 .. MaxPairs /\ MaxPairs \in Nat
  BY BoundAssumption DEF SessionsTypes
<1>2. \A pair : IsPair(pair) => pair \in R!Pair
  BY <1>1 DEF IsPair, R!Pair
<1> QED
  BY <1>1, <1>2 DEF SessionsInv, SessionsTypes, NumbersOK, LockOK, Holds, R!TypeOK

TokensTimes == now <= MaxTime

LEMMA TokensTimesNext == TokensInv /\ TokensTimes /\ [K!Next]_(K!vars) => TokensTimes'
<1> SUFFICES ASSUME TokensInv, TokensTimes, [K!Next]_(K!vars) PROVE TokensTimes'
  OBVIOUS
<1>1. \/ UNCHANGED now
      \/ now < MaxTime /\ now' = now + 1
  BY DEF K!Next, K!vars, K!CreateToken, K!ValidateToken, K!TimeNow, K!CheckRateLimit, K!Fail,
         K!RevokeToken, K!DeactivateExpiredTokens, K!Tick
<1> QED
  BY <1>1, TokenAssumption DEF TokensInv, TokensTimes

LEMMA TokensAreTyped == TokensInv /\ TokensTimes => K!TypeOK
<1> SUFFICES ASSUME TokensInv, TokensTimes PROVE K!TypeOK
  OBVIOUS
<1>1. token \subseteq K!Row /\ Cardinality(token) <= 1
  <2>1. CASE token = {}
    BY <2>1, FS_EmptySet
  <2>2. CASE token # {}
    <3>1. PICK t \in K!Row : token = {t}
      BY <2>2 DEF TokensInv, AtMostOne
    <3> QED
      BY <3>1, FS_Singleton
  <2> QED
    BY <2>1, <2>2
<1>2. now \in 0 .. MaxTime /\ start \in 0 .. MaxTime
  BY TokenAssumption DEF TokensInv, TokensTimes
<1>3. moment \in [TokenUser -> SUBSET (0 .. MaxTime)]
  <2>1. MaxTime \in Nat /\ now \in Nat /\ now <= MaxTime
    BY <1>2, TokenAssumption
  <2>2. 0 .. now \subseteq 0 .. MaxTime
    BY <2>1
  <2> QED
    BY <2>2 DEF TokensInv
<1> QED
  BY <1>1, <1>2, <1>3, TokensCardinality DEF TokensInv, K!TypeOK

LEMMA ProposalsAreTyped == GrowthInv => G!TypeOK
  BY DEF GrowthInv, ReqOK, G!TypeOK

LEMMA BlobsAreTyped == BlobsInv => F!TypeOK
  BY DEF BlobsInv, TxOK, ObjectsOK, F!TypeOK

LEMMA ProjectsCardinality == \A S : P!Cardinality(S) = Cardinality(S)
  BY DEF P!Cardinality, Cardinality

LEMMA ProjectsAreTyped == ProjectInv => P!TypeOK
<1> SUFFICES ASSUME ProjectInv PROVE P!TypeOK
  OBVIOUS
<1>0. row \subseteq P!Project /\ Cardinality(row) <= 1
  <2>1. CASE row = {}
    BY <2>1, FS_EmptySet
  <2>2. CASE row # {}
    <3>1. PICK p \in P!Project : row = {p}
      BY <2>2 DEF ProjectInv, ProjectTypes
    <3> QED
      BY <3>1, FS_Singleton
  <2> QED
    BY <2>1, <2>2
<1>1. row \subseteq P!Project /\ P!Cardinality(row) <= 1
  BY <1>0, ProjectsCardinality
<1>4. Cardinality(context) <= 1 /\ context \subseteq ContextText
  <2>1. CASE context = {}
    BY <2>1, FS_EmptySet
  <2>2. CASE context # {}
    <3>1. PICK c \in ContextText : context = {c}
      BY <2>2 DEF ProjectInv, ProjectTypes, ContextFile
    <3> QED
      BY <3>1, FS_Singleton
  <2> QED
    BY <2>1, <2>2
<1>5. P!Cardinality(context) <= 1
  BY <1>4, ProjectsCardinality
<1>2. \A r \in ActiveReq \cup {P!NoReq} :
        r.at \in {"idle", "read", "log", "get", "context", "dir", "row"}
  BY DEF ActiveReq, CreateReq, UpdateReq, ReadReq, LogReq, LookupReq, AppendReq, FreezeReq,
         ArchiveReq, P!NoReq
<1>3. \A h \in Handler : projectReq[h] \in ActiveReq \cup {P!NoReq}
  BY DEF ProjectInv, ProjectTypes
<1> QED
  BY <1>1, <1>2, <1>3, <1>4, <1>5 DEF ProjectInv, ProjectTypes, P!TypeOK

LEMMA OthersAreTyped == TeamsInv /\ SkillsInv /\ InboxInv => T!TypeOK /\ L!TypeOK /\ I!TypeOK
  BY DEF TeamsInv, SkillsInv, SkillTypes, InboxInv

\* Events are numbered as they come, and a channel holds what it has room for.
EventsTypes ==
  /\ last \in 0 .. MaxPublished /\ oldest \in 1 .. last + 1
  /\ sending \in [Publisher -> 0 .. last]
  /\ \A s \in Stream :
       /\ \A i \in 1 .. Len(stream[s].chan) : stream[s].chan[i] \in 1 .. last
       /\ Len(stream[s].chan) <= Capacity
       /\ pruned[s] \subseteq 1 .. oldest - 1

LEMMA EventsTypesInit == E!Init => EventsTypes
<1> SUFFICES ASSUME E!Init PROVE EventsTypes
  OBVIOUS
<1>1. 0 \in 0 .. MaxPublished /\ 0 <= Capacity
  BY BoundAssumption
<1>2. \A s \in Stream : stream[s].chan = <<>> /\ pruned[s] = {}
  BY DEF E!Init, E!Off
<1> QED
  BY <1>1, <1>2 DEF E!Init, EventsTypes

\* Steps of a stream: the events and their publishers stay.
LEMMA StreamTypes ==
  ASSUME EventsInv, EventsTypes, UNCHANGED <<last, oldest, sending>>,
         NEW s \in Stream, NEW new, stream' = [stream EXCEPT ![s] = new],
         \/ new.chan = stream[s].chan
         \/ new.chan = <<>>
         \/ stream[s].chan # <<>> /\ new.chan = Tail(stream[s].chan),
         \/ pruned' = pruned
         \/ \E gone \in SUBSET (1 .. oldest - 1) : pruned' = [pruned EXCEPT ![s] = gone]
  PROVE  EventsTypes'
<1>1. /\ DOMAIN stream = Stream /\ DOMAIN pruned = Stream /\ last \in Nat /\ Capacity \in Nat
      /\ stream[s].chan \in Seq(Nat)
  BY BoundAssumption DEF EventsInv, EventsTypeInv, StreamOK, StreamRecord
<1>2. /\ \A i \in 1 .. Len(new.chan) : new.chan[i] \in 1 .. last
      /\ Len(new.chan) <= Capacity
  <2>1. CASE new.chan = stream[s].chan
    BY <2>1 DEF EventsTypes
  <2>2. CASE new.chan = <<>>
    BY <1>1, <2>2
  <2>3. CASE stream[s].chan # <<>> /\ new.chan = Tail(stream[s].chan)
    <3>1. /\ Len(new.chan) = Len(stream[s].chan) - 1 /\ Len(stream[s].chan) \in Nat
          /\ \A i \in 1 .. Len(new.chan) : new.chan[i] = stream[s].chan[i + 1]
      BY <1>1, <2>3
    <3>2. ASSUME NEW i \in 1 .. Len(new.chan) PROVE new.chan[i] \in 1 .. last
      <4>1. i + 1 \in 1 .. Len(stream[s].chan)
        BY <3>1
      <4>2. stream[s].chan[i + 1] \in 1 .. last
        BY <4>1 DEF EventsTypes
      <4> QED
        BY <3>1, <4>2
    <3>3. Len(stream[s].chan) <= Capacity
      BY DEF EventsTypes
    <3> QED
      BY <1>1, <3>1, <3>2, <3>3
  <2> QED
    BY <2>1, <2>2, <2>3
<1>3. \A q \in Stream : stream'[q] = IF q = s THEN new ELSE stream[q]
  BY <1>1
<1>4. \A q \in Stream : pruned'[q] \subseteq 1 .. oldest - 1
  BY <1>1 DEF EventsTypes
<1> QED
  BY <1>2, <1>3, <1>4 DEF EventsTypes

LEMMA EventsTypesNext ==
  ASSUME EventsInv, EventsTypes, [E!Next]_(E!vars) PROVE EventsTypes'
<1>0. /\ DOMAIN stream = Stream /\ DOMAIN pruned = Stream /\ last \in Nat /\ oldest \in Nat
      /\ MaxPublished \in Nat /\ Capacity \in Nat
      /\ \A s \in Stream : stream[s].chan \in Seq(Nat)
  BY BoundAssumption DEF EventsInv, EventsTypeInv, StreamOK, StreamRecord
<1>1. CASE UNCHANGED E!vars
  BY <1>1 DEF EventsTypes, E!vars
<1>2. ASSUME NEW p \in Publisher, E!Publish(p) PROVE EventsTypes'
  <2>1. /\ last < MaxPublished /\ last' = last + 1 /\ oldest' \in oldest .. last + 1
        /\ sending' = [sending EXCEPT ![p] = last + 1] /\ UNCHANGED <<stream, pruned>>
    BY <1>2 DEF E!Publish
  <2>2. last' \in 0 .. MaxPublished /\ oldest' \in 1 .. last' + 1
    BY <1>0, <2>1 DEF EventsTypes
  <2>3. sending' \in [Publisher -> 0 .. last']
    BY <1>0, <2>1 DEF EventsTypes
  <2>4. \A s \in Stream : /\ \A i \in 1 .. Len(stream[s].chan) : stream[s].chan[i] \in 1 .. last'
                          /\ pruned[s] \subseteq 1 .. oldest' - 1
    <3>1. last' \in Nat /\ last <= last' /\ oldest' \in Nat /\ oldest <= oldest'
      BY <1>0, <2>1
    <3>2. 1 .. last \subseteq 1 .. last'
      BY <1>0, <3>1
    <3>3. ASSUME NEW e \in 1 .. oldest - 1 PROVE e \in 1 .. oldest' - 1
      <4>1. \A d, o \in Nat : d <= o => \A x \in 1 .. d - 1 : x \in 1 .. o - 1
        OBVIOUS
      <4> QED
        BY <1>0, <3>1, <4>1
    <3>4. \A s \in Stream : /\ \A i \in 1 .. Len(stream[s].chan) : stream[s].chan[i] \in 1 .. last
                            /\ pruned[s] \subseteq 1 .. oldest - 1
      BY DEF EventsTypes
    <3> QED
      BY <3>2, <3>3, <3>4
  <2> QED
    BY <2>1, <2>2, <2>3, <2>4 DEF EventsTypes
<1>3. ASSUME NEW p \in Publisher, E!Deliver(p) PROVE EventsTypes'
  <2>1. /\ sending[p] # 0 /\ UNCHANGED <<last, oldest, pruned>>
        /\ stream' = [s \in Stream |-> IF stream[s].at = "live" THEN E!Offer(s, sending[p])
                                       ELSE stream[s]]
        /\ sending' = [sending EXCEPT ![p] = 0]
    BY <1>3 DEF E!Deliver
  <2>2. sending[p] \in 1 .. last /\ sending' \in [Publisher -> 0 .. last]
    BY <1>0, <2>1 DEF EventsTypes
  <2>3. ASSUME NEW s \in Stream
        PROVE  /\ \A i \in 1 .. Len(stream'[s].chan) : stream'[s].chan[i] \in 1 .. last
               /\ Len(stream'[s].chan) <= Capacity
    <3>1. \/ stream'[s].chan = stream[s].chan
          \/ /\ Len(stream[s].chan) < Capacity
             /\ stream'[s].chan = Append(stream[s].chan, sending[p])
      <4>1. stream[s] \in StreamRecord
        BY DEF EventsInv, StreamOK
      <4> QED
        BY <2>1, <4>1 DEF E!Offer, StreamRecord
    <3>2. CASE stream'[s].chan = stream[s].chan
      BY <3>2 DEF EventsTypes
    <3>3. CASE /\ Len(stream[s].chan) < Capacity
               /\ stream'[s].chan = Append(stream[s].chan, sending[p])
      <4>1. /\ Len(stream'[s].chan) = Len(stream[s].chan) + 1 /\ Len(stream[s].chan) \in Nat
            /\ \A i \in 1 .. Len(stream[s].chan) : stream'[s].chan[i] = stream[s].chan[i]
            /\ stream'[s].chan[Len(stream[s].chan) + 1] = sending[p]
        BY <1>0, <2>2, <3>3
      <4>2. \A i \in 1 .. Len(stream[s].chan) : stream[s].chan[i] \in 1 .. last
        BY DEF EventsTypes
      <4>3. Len(stream'[s].chan) <= Capacity
        BY <1>0, <3>3, <4>1
      <4>4. ASSUME NEW i \in 1 .. Len(stream'[s].chan) PROVE stream'[s].chan[i] \in 1 .. last
        <5>1. i \in 1 .. Len(stream[s].chan) \/ i = Len(stream[s].chan) + 1
          BY <4>1
        <5> QED
          BY <2>2, <4>1, <4>2, <5>1
      <4> QED
        BY <4>3, <4>4
    <3> QED
      BY <3>1, <3>2, <3>3
  <2> QED
    BY <2>1, <2>2, <2>3 DEF EventsTypes
<1>4. ASSUME NEW s \in Stream, E!Connect(s) PROVE EventsTypes'
  <2>1. \E new : stream' = [stream EXCEPT ![s] = new] /\ new.chan = <<>>
    <3>1. CASE \E since \in 0 .. last :
                 stream' = [stream EXCEPT ![s] = [E!Off EXCEPT !.at = "replay", !.since = since]]
      <4>1. PICK since \in 0 .. last :
                 stream' = [stream EXCEPT ![s] = [E!Off EXCEPT !.at = "replay", !.since = since]]
        BY <3>1
      <4>2. [E!Off EXCEPT !.at = "replay", !.since = since].chan = <<>>
        BY DEF E!Off
      <4> QED
        BY <4>1, <4>2
    <3>2. CASE stream' = [stream EXCEPT ![s] = [E!Off EXCEPT !.at = "subscribe",
                                                  !.since = last, !.base = last]]
      <4>1. [E!Off EXCEPT !.at = "subscribe", !.since = last, !.base = last].chan = <<>>
        BY DEF E!Off
      <4> QED
        BY <3>2, <4>1
    <3> QED
      BY <1>4, <3>1, <3>2 DEF E!Connect
  <2>2. UNCHANGED <<last, oldest, sending, pruned>>
    BY <1>4 DEF E!Connect
  <2> QED
    BY <2>1, <2>2, StreamTypes
<1>5. ASSUME NEW s \in Stream, E!Replay(s) PROVE EventsTypes'
  <2>1. PICK new : new = [stream[s] EXCEPT !.at = "subscribe", !.base = last,
                              !.written = {e \in oldest .. last : e > stream[s].since}]
    OBVIOUS
  <2>2. stream' = [stream EXCEPT ![s] = new]
    BY <1>0, <1>5, <2>1 DEF E!Replay
  <2>3. new.chan = stream[s].chan
    <3>1. stream[s] \in StreamRecord
      BY DEF EventsInv, StreamOK
    <3> QED
      BY <2>1, <3>1 DEF StreamRecord
  <2>4. PICK gone : gone = {e \in 1 .. oldest - 1 : e > stream[s].since}
    OBVIOUS
  <2>5. pruned' = [pruned EXCEPT ![s] = gone] /\ UNCHANGED <<last, oldest, sending>>
    BY <1>5, <2>4 DEF E!Replay
  <2>6. gone \in SUBSET (1 .. oldest - 1)
    BY <2>4
  <2> QED
    BY <2>2, <2>3, <2>5, <2>6, StreamTypes
<1>6. ASSUME NEW s \in Stream, E!Subscribe(s) PROVE EventsTypes'
  <2>1. PICK new : new = [stream[s] EXCEPT !.at = "live",
                  !.gap = {e \in 1 .. last : e > stream[s].base} \ E!BeingSent]
    OBVIOUS
  <2>2. stream' = [stream EXCEPT ![s] = new] /\ UNCHANGED <<last, oldest, sending, pruned>>
    BY <1>0, <1>6, <2>1 DEF E!Subscribe
  <2>3. new.chan = stream[s].chan
    <3>1. stream[s] \in StreamRecord
      BY DEF EventsInv, StreamOK
    <3> QED
      BY <2>1, <3>1 DEF StreamRecord
  <2> QED
    BY <2>2, <2>3, StreamTypes
<1>7. ASSUME NEW s \in Stream, E!WriteEvent(s) PROVE EventsTypes'
  <2>1. PICK new : new = [stream[s] EXCEPT !.written = @ \cup {Head(stream[s].chan)},
                                           !.chan = Tail(@)]
    OBVIOUS
  <2>2. /\ stream' = [stream EXCEPT ![s] = new] /\ stream[s].chan # <<>>
        /\ UNCHANGED <<last, oldest, sending, pruned>>
    BY <1>0, <1>7, <2>1 DEF E!WriteEvent
  <2>3. new.chan = Tail(stream[s].chan)
    <3>1. stream[s] \in StreamRecord
      BY DEF EventsInv, StreamOK
    <3> QED
      BY <2>1, <3>1 DEF StreamRecord
  <2> QED
    BY <2>2, <2>3, StreamTypes
<1>8. ASSUME NEW s \in Stream, E!Disconnect(s) PROVE EventsTypes'
  <2>1. PICK new : new = E!Off
    OBVIOUS
  <2>2. /\ stream' = [stream EXCEPT ![s] = new] /\ pruned' = [pruned EXCEPT ![s] = {}]
        /\ UNCHANGED <<last, oldest, sending>>
    BY <1>8, <2>1 DEF E!Disconnect
  <2>3. new.chan = <<>> /\ {} \in SUBSET (1 .. oldest - 1)
    BY <2>1 DEF E!Off
  <2> QED
    BY <2>2, <2>3, StreamTypes
<1> QED
  BY <1>1, <1>2, <1>3, <1>4, <1>5, <1>6, <1>7, <1>8 DEF E!Next

LEMMA EventsAreTyped == EventsInv /\ EventsTypes => E!TypeOK
  BY DEF EventsInv, EventsTypeInv, StreamOK, StreamRecord, EventsTypes, E!TypeOK, E!Queued

\* With the schedule alone nothing fails and nothing is recorded: backup_runs
\* is full, and a run ends when it has been recorded on its target.
ScheduledRun ==
  [at : {"idle", "upload", "failed", "uploaded", "recorded", "waiting"}, target : Target,
   policy : {B!NoPolicy}, started : B!Time, object : B!Time, completed : B!Time,
   prune : {<<>>}]

ScheduleInv ==
  /\ clock \in 1 .. LastDay
  /\ target \in [Target -> [mode : {"off", "auto"}, policy : {B!NoPolicy},
                            last : B!Time, object : B!Time]]
  /\ rows = {} /\ store \subseteq Target \X B!Time
  /\ edit = B!NoEdit /\ upsets = 0
  /\ run \in [Scheduler -> ScheduledRun]
  /\ queue \in [Scheduler -> Seq(Target)]

LEMMA ScheduleTimes ==
  /\ LastDay \in Nat /\ B!None = 0 /\ B!None \in B!Time /\ B!Time = 0 .. LastDay
  /\ B!Proc = Scheduler
  BY ScheduleAssumption DEF B!None, B!Time, B!Proc

LEMMA BackupsCardinality == \A S : B!Cardinality(S) = Cardinality(S)
  BY DEF B!Cardinality, Cardinality

LEMMA IdleRun ==
  /\ B!Idle \in ScheduledRun /\ B!Idle.prune = <<>>
  /\ \A t \in Target : B!NoRun(t) \in ScheduledRun
<1>1. \A t \in Target : B!NoRun(t) \in ScheduledRun
  BY ScheduleTimes DEF B!NoRun, ScheduledRun
<1>2. (CHOOSE t \in Target : TRUE) \in Target
  BY ScheduleAssumption
<1>3. B!Idle \in ScheduledRun
  BY <1>1, <1>2 DEF B!Idle
<1> QED
  BY <1>1, <1>3 DEF ScheduledRun

LEMMA NoRoom == rows = {} => ~B!HasRoom
  BY BackupsCardinality, FS_EmptySet DEF B!HasRoom

LEMMA ScheduleInit == B!Init => ScheduleInv
<1> SUFFICES ASSUME B!Init PROVE ScheduleInv
  OBVIOUS
<1>1. clock \in 1 .. LastDay /\ rows = {} /\ store = {} /\ edit = B!NoEdit /\ upsets = 0
  BY ScheduleAssumption DEF B!Init
<1>2. target \in [Target -> [mode : {"off", "auto"}, policy : {B!NoPolicy},
                             last : B!Time, object : B!Time]]
  <2>1. /\ {"auto"} \subseteq {"off", "auto"} /\ {B!None} \subseteq B!Time
        /\ {[keep |-> 0, days |-> 0]} \subseteq {B!NoPolicy}
    BY ScheduleTimes DEF B!NoPolicy
  <2>2. target \in [Target -> [mode : {"auto"}, policy : {[keep |-> 0, days |-> 0]},
                               last : {B!None}, object : {B!None}]]
    BY DEF B!Init
  <2> QED
    BY <2>1, <2>2
<1>3. run \in [Scheduler -> ScheduledRun] /\ queue \in [Scheduler -> Seq(Target)]
  <2>1. run = [p \in Scheduler |-> B!Idle] /\ queue = [p \in Scheduler |-> <<>>]
    BY ScheduleTimes DEF B!Init
  <2>2. <<>> \in Seq(Target)
    OBVIOUS
  <2> QED
    BY <2>1, <2>2, IdleRun
<1> QED
  BY <1>1, <1>2, <1>3 DEF ScheduleInv

\* A goroutine of the scheduler goes on, and what it does to the rest is typed.
LEMMA ScheduleStep ==
  ASSUME ScheduleInv, NEW p \in Scheduler, NEW r \in ScheduledRun, run' = [run EXCEPT ![p] = r],
         UNCHANGED <<clock, rows, edit, upsets>>,
         target' \in [Target -> [mode : {"off", "auto"}, policy : {B!NoPolicy},
                                 last : B!Time, object : B!Time]],
         store' \subseteq Target \X B!Time,
         queue' \in [Scheduler -> Seq(Target)]
  PROVE  ScheduleInv'
<1>1. run' \in [Scheduler -> ScheduledRun]
  BY DEF ScheduleInv
<1> QED
  BY <1>1 DEF ScheduleInv

\* The due targets in an order, cut at the limit, are a sequence of targets.
LEMMA DueSequence ==
  ASSUME NEW S \in SUBSET Target, NEW list \in B!Orders(S)
  PROVE  B!FirstOf(list, SweepLimit) \in Seq(Target)
<1>1. PICK n \in Nat : n = Cardinality(S)
  BY ScheduleAssumption, FS_Subset, FS_CardinalityType
<1>2. list \in [1 .. n -> S]
  BY <1>1, BackupsCardinality DEF B!Orders
<1>3. list \in [1 .. n -> Target]
  BY <1>2
<1>4. list \in Seq(Target) /\ Len(list) = n
  BY <1>1, <1>3
<1>5. PICK m : m = IF n < SweepLimit THEN n ELSE SweepLimit
  OBVIOUS
<1>6. m \in 0 .. n
  BY <1>1, <1>5, BoundAssumption
<1>7. B!FirstOf(list, SweepLimit) = SubSeq(list, 1, m)
  BY <1>4, <1>5 DEF B!FirstOf
<1>8. SubSeq(list, 1, m) \in Seq(Target)
  BY <1>1, <1>4, <1>6
<1> QED
  BY <1>7, <1>8

LEMMA RunDueStep ==
  ASSUME ScheduleInv, NEW s \in Scheduler, B!RunDueTargets(s) PROVE ScheduleInv'
<1>1. PICK list \in B!Orders({t \in Target : B!Due(t)}) :
        queue' = [queue EXCEPT ![s] = B!FirstOf(list, SweepLimit)]
  BY DEF B!RunDueTargets
<1>2. queue' \in [Scheduler -> Seq(Target)]
  BY <1>1, DueSequence DEF ScheduleInv
<1> QED
  BY <1>2 DEF B!RunDueTargets, B!rest, ScheduleInv

LEMMA NextTargetStep ==
  ASSUME ScheduleInv, NEW s \in Scheduler, B!NextTarget(s) PROVE ScheduleInv'
<1>1. /\ queue[s] \in Seq(Target) /\ queue[s] # <<>>
      /\ queue' = [queue EXCEPT ![s] = Tail(queue[s])]
      /\ UNCHANGED <<clock, edit, target, rows, store, upsets>>
  BY DEF B!NextTarget, B!rest, ScheduleInv
<1>2. Head(queue[s]) \in Target /\ Tail(queue[s]) \in Seq(Target)
  BY <1>1
<1>3. queue' \in [Scheduler -> Seq(Target)]
  BY <1>1, <1>2 DEF ScheduleInv
<1>4. PICK t \in Target : t = Head(queue[s])
  BY <1>2
<1>5. CASE UNCHANGED run
  BY <1>1, <1>3, <1>5 DEF ScheduleInv
<1>6. CASE B!Begin(s, t)
  <2>1. PICK r : r = [B!NoRun(t) EXCEPT !.at = "upload", !.policy = target[t].policy,
                        !.started = clock, !.object = target[t].object]
    OBVIOUS
  <2>2. run' = [run EXCEPT ![s] = r]
    BY <1>6, <2>1 DEF B!Begin, B!Step
  <2>3. target[t].policy \in {B!NoPolicy} /\ target[t].object \in B!Time /\ clock \in B!Time
    BY ScheduleTimes DEF ScheduleInv
  <2>4. r \in ScheduledRun
    BY <2>1, <2>3, IdleRun DEF ScheduledRun
  <2>5. /\ target' \in [Target -> [mode : {"off", "auto"}, policy : {B!NoPolicy},
                                   last : B!Time, object : B!Time]]
        /\ store' \subseteq Target \X B!Time
        /\ UNCHANGED <<clock, rows, edit, upsets>>
    BY <1>1 DEF ScheduleInv
  <2> QED
    BY <1>3, <2>2, <2>4, <2>5, ScheduleStep
<1> QED
  BY <1>4, <1>5, <1>6 DEF B!NextTarget

LEMMA UploadStep ==
  ASSUME ScheduleInv, NEW p \in Scheduler,
         B!Upload(p) \/ B!UploadFails(p) \/ B!FinishFailure(p) \/ B!Record(p) \/ B!Abandon(p)
         \/ B!Wait(p)
  PROVE  ScheduleInv'
<1>0. /\ run[p] \in ScheduledRun /\ run[p].target \in Target /\ clock \in B!Time
      /\ upsets = 0 /\ ~B!HasRoom
      /\ store \subseteq Target \X B!Time /\ queue \in [Scheduler -> Seq(Target)]
      /\ target \in [Target -> [mode : {"off", "auto"}, policy : {B!NoPolicy},
                                last : B!Time, object : B!Time]]
  BY ScheduleTimes, NoRoom DEF ScheduleInv, ScheduledRun
<1>1. ~B!Fault
  BY <1>0 DEF B!Fault
<1>2. \A store1 : store1 = store \cup {<<run[p].target, clock>>} => store1 \subseteq Target \X B!Time
  BY <1>0
<1>3. CASE B!Upload(p)
  <2>1. PICK r : r = [run[p] EXCEPT !.at = "uploaded", !.object = clock]
    OBVIOUS
  <2>2. r \in ScheduledRun
    BY <1>0, <2>1 DEF ScheduledRun
  <2>3. /\ run' = [run EXCEPT ![p] = r] /\ store' = store \cup {<<run[p].target, clock>>}
        /\ UNCHANGED <<clock, edit, target, rows, queue, upsets>>
    BY <1>3, <2>1 DEF B!Upload, B!Put, B!Step, B!rest
  <2> QED
    BY <1>0, <1>2, <2>2, <2>3, ScheduleStep
<1>4. CASE B!UploadFails(p)
  <2>1. PICK r : r = [run[p] EXCEPT !.at = "failed", !.object = clock]
    OBVIOUS
  <2>2. r \in ScheduledRun
    BY <1>0, <2>1 DEF ScheduledRun
  <2>3. /\ run' = [run EXCEPT ![p] = r]
        /\ store' = store \cup {<<run[p].target, clock>>} \/ store' = store
        /\ UNCHANGED <<clock, edit, target, rows, queue>>
    BY <1>4, <2>1 DEF B!UploadFails, B!Put, B!Step, B!rest
  <2>4. UNCHANGED upsets
    BY <1>1, <1>4 DEF B!UploadFails, B!StoreFault
  <2> QED
    BY <1>0, <1>2, <2>2, <2>3, <2>4, ScheduleStep
<1>5. CASE B!FinishFailure(p)
  <2>1. /\ run' = [run EXCEPT ![p] = B!Idle]
        /\ UNCHANGED <<clock, edit, target, store, queue>>
    BY <1>5 DEF B!FinishFailure, B!Step, B!rest
  <2>2. UNCHANGED <<rows, upsets>>
    BY <1>0, <1>5 DEF B!FinishFailure
  <2> QED
    BY <1>0, <2>1, <2>2, IdleRun, ScheduleStep
<1>6. CASE B!Record(p)
  <2>1. PICK r : r = [run[p] EXCEPT !.at = "recorded", !.completed = clock]
    OBVIOUS
  <2>2. r \in ScheduledRun
    BY <1>0, <2>1 DEF ScheduledRun
  <2>3. PICK t \in Target : t = run[p].target
    BY <1>0
  <2>4. PICK x : x = [target[t] EXCEPT !.last = clock, !.object = run[p].object]
    OBVIOUS
  <2>5. x \in [mode : {"off", "auto"}, policy : {B!NoPolicy}, last : B!Time, object : B!Time]
    <3>1. run[p].object \in B!Time
      BY <1>0 DEF ScheduledRun
    <3> QED
      BY <1>0, <2>4, <3>1
  <2>6. /\ run' = [run EXCEPT ![p] = r] /\ target' = [target EXCEPT ![t] = x]
        /\ UNCHANGED <<clock, edit, store, rows, queue, upsets>>
    BY <1>0, <1>6, <2>1, <2>3, <2>4 DEF B!Record, B!Step, B!rest
  <2>7. target' \in [Target -> [mode : {"off", "auto"}, policy : {B!NoPolicy},
                                last : B!Time, object : B!Time]]
    BY <1>0, <2>5, <2>6
  <2> QED
    BY <1>0, <2>2, <2>6, <2>7, ScheduleStep
<1>7. CASE B!Abandon(p)
  <2>1. /\ run' = [run EXCEPT ![p] = B!Idle]
        /\ UNCHANGED <<clock, edit, target, rows, store, queue>>
    BY <1>7 DEF B!Abandon, B!Step, B!rest
  <2>2. UNCHANGED upsets
    BY <1>1, <1>7 DEF B!Abandon
  <2> QED
    BY <1>0, <2>1, <2>2, IdleRun, ScheduleStep
<1>8. CASE B!Wait(p)
  <2>1. PICK r : r = [run[p] EXCEPT !.at = "waiting"]
    OBVIOUS
  <2>2. r \in ScheduledRun
    BY <1>0, <2>1 DEF ScheduledRun
  <2>3. run[p].at # "delete"
    BY <1>0 DEF ScheduledRun
  <2>4. /\ run' = [run EXCEPT ![p] = r]
        /\ store' = store \cup {<<run[p].target, clock>>} \/ store' = store
        /\ UNCHANGED <<clock, edit, target, rows, queue, upsets>>
    BY <1>8, <2>1, <2>3 DEF B!Wait, B!Put, B!Step, B!rest
  <2> QED
    BY <1>0, <1>2, <2>2, <2>4, ScheduleStep
<1> QED
  BY <1>3, <1>4, <1>5, <1>6, <1>7, <1>8

LEMMA ScheduleNext == ScheduleInv /\ [B!Next]_(B!vars) => ScheduleInv'
<1> SUFFICES ASSUME ScheduleInv, [B!Next]_(B!vars) PROVE ScheduleInv'
  OBVIOUS
<1>1. CASE UNCHANGED B!vars
  BY <1>1 DEF B!vars, B!rest, ScheduleInv
<1>2. CASE B!Tick
  <2>1. clock' \in 1 .. LastDay
    BY <1>2, ScheduleTimes DEF B!Tick, ScheduleInv
  <2> QED
    BY <1>2, <2>1 DEF B!Tick, ScheduleInv
<1>3. ~B!Fault /\ \A t \in Target : ~B!ReadForSave(t) /\ ~B!WriteSave(t)
  BY DEF ScheduleInv, B!ReadForSave, B!WriteSave, B!NoEdit, B!Fault
<1>4. ASSUME NEW s \in Scheduler, B!RunDueTargets(s) \/ B!NextTarget(s) PROVE ScheduleInv'
  BY <1>4, RunDueStep, NextTargetStep
<1>5. ASSUME NEW p \in Scheduler, B!RunStep(p) \/ B!Die(p) PROVE ScheduleInv'
  <2>1. /\ ~B!Die(p) /\ ~B!ExportFails(p)
    BY <1>3 DEF B!Die, B!ExportFails
  <2>2. ~B!InsertRun(p)
    BY NoRoom DEF B!InsertRun, ScheduleInv
  <2>3. ~B!ApplyRetention(p) /\ ~B!DeleteRemote(p) /\ ~B!MarkDeleted(p)
    <3>1. run[p].at \in {"idle", "upload", "failed", "uploaded", "recorded", "waiting"}
      BY DEF ScheduleInv, ScheduledRun
    <3> QED
      BY <3>1 DEF B!ApplyRetention, B!DeleteRemote, B!MarkDeleted
  <2> QED
    BY <1>5, <2>1, <2>2, <2>3, UploadStep DEF B!RunStep
<1> QED
  BY <1>1, <1>2, <1>3, <1>4, <1>5, ScheduleTimes DEF B!Next

LEMMA BackupsAreTyped == ScheduleInv => B!TypeOK
<1> SUFFICES ASSUME ScheduleInv PROVE B!TypeOK
  OBVIOUS
<1>1. clock \in B!Time
  BY ScheduleTimes DEF ScheduleInv
<1>2. target \in [Target -> [mode : {"off", "auto"}, policy : {[keep |-> 0, days |-> 0]},
                             last : B!Time, object : B!Time]]
  BY DEF ScheduleInv, B!NoPolicy
<1>3. \A p \in Scheduler :
        /\ run[p].at \in {"idle", "upload", "failed", "uploaded", "recorded",
                          "inserted", "delete", "gone", "kept", "waiting"}
        /\ run[p].target \in Target /\ run[p].object \in B!Time
        /\ queue[p] \in Seq(Target)
  BY DEF ScheduleInv, ScheduledRun
<1>4. \A p \in Scheduler : run[p].prune \in Seq(Nat)
  <2>1. <<>> \in Seq(Nat)
    OBVIOUS
  <2> QED
    BY <2>1 DEF ScheduleInv, ScheduledRun
<1>5. rows = {} /\ store \subseteq Target \X B!Time
  BY DEF ScheduleInv
<1> QED
  BY <1>1, <1>2, <1>3, <1>4, <1>5, ScheduleTimes DEF B!TypeOK

-----------------------------------------------------------------------------
(*                             The composition                             *)

\* A step of the composition is a step of a component or leaves it alone.
LEMMA PartSteps ==
  ASSUME [Next]_vars
  PROVE  /\ [B!Next]_(B!vars)
         /\ [T!Next]_(T!vars)
         /\ [A!Next]_(A!vars)
         /\ [L!Next]_(L!vars)
         /\ [E!Next]_(E!vars)
         /\ [R!Next]_(R!vars)
         /\ [K!Next]_(K!vars)
         /\ [G!Next]_(G!vars)
         /\ [P!Next]_(P!vars)
         /\ [F!Next]_(F!vars)
         /\ [I!Next]_(I!vars)
<1>1. CASE UNCHANGED vars
  BY <1>1 DEF vars, bvars, tvars, avars, lvars, evars, rvars, kvars, gvars, pvars, fvars, ivars,
              B!vars, B!rest, T!vars, A!vars, L!vars, E!vars, R!vars, K!vars, G!vars, P!vars, F!vars, I!vars
<1>2. CASE BackupsStep
  BY <1>2 DEF BackupsStep, bvars, tvars, avars, lvars, evars, rvars, kvars, gvars, pvars, fvars, ivars,
              B!vars, B!rest, T!vars, A!vars, L!vars, E!vars, R!vars, K!vars, G!vars, P!vars, F!vars, I!vars
<1>3. CASE TeamsStep
  BY <1>3 DEF TeamsStep, bvars, tvars, avars, lvars, evars, rvars, kvars, gvars, pvars, fvars, ivars,
              B!vars, B!rest, T!vars, A!vars, L!vars, E!vars, R!vars, K!vars, G!vars, P!vars, F!vars, I!vars
<1>4. CASE AssetsStep
  BY <1>4 DEF AssetsStep, bvars, tvars, avars, lvars, evars, rvars, kvars, gvars, pvars, fvars, ivars,
              B!vars, B!rest, T!vars, A!vars, L!vars, E!vars, R!vars, K!vars, G!vars, P!vars, F!vars, I!vars
<1>5. CASE SkillsStep
  BY <1>5 DEF SkillsStep, bvars, tvars, avars, lvars, evars, rvars, kvars, gvars, pvars, fvars, ivars,
              B!vars, B!rest, T!vars, A!vars, L!vars, E!vars, R!vars, K!vars, G!vars, P!vars, F!vars, I!vars
<1>6. CASE EventsStep
  BY <1>6 DEF EventsStep, bvars, tvars, avars, lvars, evars, rvars, kvars, gvars, pvars, fvars, ivars,
              B!vars, B!rest, T!vars, A!vars, L!vars, E!vars, R!vars, K!vars, G!vars, P!vars, F!vars, I!vars
<1>7. CASE SessionStep
  BY <1>7 DEF SessionStep, bvars, tvars, avars, lvars, evars, rvars, kvars, gvars, pvars, fvars, ivars,
              B!vars, B!rest, T!vars, A!vars, L!vars, E!vars, R!vars, K!vars, G!vars, P!vars, F!vars, I!vars
<1>8. CASE TokensStep
  BY <1>8 DEF TokensStep, bvars, tvars, avars, lvars, evars, rvars, kvars, gvars, pvars, fvars, ivars,
              B!vars, B!rest, T!vars, A!vars, L!vars, E!vars, R!vars, K!vars, G!vars, P!vars, F!vars, I!vars
<1>9. CASE GrowthStep
  BY <1>9 DEF GrowthStep, bvars, tvars, avars, lvars, evars, rvars, kvars, gvars, pvars, fvars, ivars,
              B!vars, B!rest, T!vars, A!vars, L!vars, E!vars, R!vars, K!vars, G!vars, P!vars, F!vars, I!vars
<1>10. CASE ProjectStep
  BY <1>10 DEF ProjectStep, bvars, tvars, avars, lvars, evars, rvars, kvars, gvars, pvars, fvars, ivars,
              B!vars, B!rest, T!vars, A!vars, L!vars, E!vars, R!vars, K!vars, G!vars, P!vars, F!vars, I!vars
<1>11. CASE BlobsStep
  BY <1>11 DEF BlobsStep, bvars, tvars, avars, lvars, evars, rvars, kvars, gvars, pvars, fvars, ivars,
              B!vars, B!rest, T!vars, A!vars, L!vars, E!vars, R!vars, K!vars, G!vars, P!vars, F!vars, I!vars
<1>12. CASE InboxStep
  BY <1>12 DEF InboxStep, bvars, tvars, avars, lvars, evars, rvars, kvars, gvars, pvars, fvars, ivars,
              B!vars, B!rest, T!vars, A!vars, L!vars, E!vars, R!vars, K!vars, G!vars, P!vars, F!vars, I!vars
<1> QED
  BY <1>1, <1>2, <1>3, <1>4, <1>5, <1>6, <1>7, <1>8, <1>9, <1>10, <1>11, <1>12 DEF Next

PartsInv == /\ TeamsInv /\ AssetsInv /\ SkillsInv /\ EventsInv /\ SessionsInv
            /\ TokensInv /\ GrowthInv /\ ProjectInv /\ BlobsInv /\ InboxInv

\* Whichever component is looked at, the composition keeps what each of its
\* components keeps by itself; the next theorem is about its steps.
THEOREM PartsAreSafe ==
  Spec => [](/\ OwnerRemains /\ HiddenUntilReleased /\ OnlyGapLoses
             /\ RefreshOnlyWhenDue /\ HourlyUses /\ AppliedOnce
             /\ StoresAgree /\ BlobsReadable /\ MessageKept)
<1>1. Init => PartsInv
  BY TeamsInit, AssetsInit, SkillsInit, EventsInit, SessionsInit, TokensInit, GrowthInit,
     ProjectInit, BlobsInit, InboxInit DEF Init, PartsInv
<1>2. PartsInv /\ [Next]_vars => PartsInv'
  BY PartSteps, TeamsNext, AssetsNext, SkillsNext, EventsNext, SessionsNext, TokensNext,
     GrowthNext, ProjectNext, BlobsNext, InboxNext DEF PartsInv
<1>3. PartsInv => /\ OwnerRemains /\ HiddenUntilReleased /\ OnlyGapLoses
                  /\ RefreshOnlyWhenDue /\ HourlyUses /\ AppliedOnce
                  /\ StoresAgree /\ BlobsReadable /\ MessageKept
  BY TeamsPromise, AssetsPromise, EventsPromise, SessionsPromise, TokensPromise,
     GrowthPromise, ProjectPromise, BlobsPromise, InboxPromise DEF PartsInv
<1> QED
  BY <1>1, <1>2, <1>3, PTL DEF Spec

\* No step of the composition changes a directory of the user's but those
\* that UserDirsKept allows.
THEOREM PartsKeepDirs == Spec => UserDirsKept
<1>1. Init => PartsInv
  BY TeamsInit, AssetsInit, SkillsInit, EventsInit, SessionsInit, TokensInit, GrowthInit,
     ProjectInit, BlobsInit, InboxInit DEF Init, PartsInv
<1>2. PartsInv /\ [Next]_vars => PartsInv'
  BY PartSteps, TeamsNext, AssetsNext, SkillsNext, EventsNext, SessionsNext, TokensNext,
     GrowthNext, ProjectNext, BlobsNext, InboxNext DEF PartsInv
<1>3. PartsInv /\ [Next]_vars => [UserDirsOnly]_(L!vars)
  BY PartSteps, SkillsNext DEF PartsInv
<1> QED
  BY <1>1, <1>2, <1>3, PTL DEF Spec, UserDirsKept, L!UserDirsKept, UserDirsOnly

\* The types of a component need more of its state than its promise does.
TypesInv == PartsInv /\ AssetsTypes /\ SessionsTypes /\ TokensTimes /\ EventsTypes /\ ScheduleInv

\* Every component keeps the types of its state, and the bounds it has of its
\* own: the length of the review history (appendTeamSkillReviewEvent), the
\* room of a listener's channel (EventBroker.Publish), one row of a token and
\* of a project; the schedule runs a target it has read (RunDueTargets).
THEOREM PartsKeepTypes == Spec => []TypeOK
<1>1. Init => TypesInv
  <2>1. Init => PartsInv
    BY TeamsInit, AssetsInit, SkillsInit, EventsInit, SessionsInit, TokensInit, GrowthInit,
       ProjectInit, BlobsInit, InboxInit DEF Init, PartsInv
  <2>2. K!Init => TokensTimes
    BY TokenAssumption DEF K!Init, TokensTimes
  <2> QED
    BY <2>1, <2>2, AssetsTypesInit, SessionsTypesInit, EventsTypesInit, ScheduleInit
    DEF Init, TypesInv
<1>2. TypesInv /\ [Next]_vars => TypesInv'
  <2> SUFFICES ASSUME TypesInv, [Next]_vars PROVE TypesInv'
    OBVIOUS
  <2>1. PartsInv'
    BY PartSteps, TeamsNext, AssetsNext, SkillsNext, EventsNext, SessionsNext, TokensNext,
       GrowthNext, ProjectNext, BlobsNext, InboxNext DEF PartsInv, TypesInv
  <2>2. AssetsTypes' /\ SessionsTypes' /\ TokensTimes' /\ EventsTypes' /\ ScheduleInv'
    BY PartSteps, AssetsTypesNext, SessionsTypesNext, TokensTimesNext, EventsTypesNext,
       ScheduleNext DEF PartsInv, TypesInv
  <2> QED
    BY <2>1, <2>2 DEF TypesInv
<1>3. TypesInv => TypeOK
  BY BackupsAreTyped, AssetsAreTyped, EventsAreTyped, SessionsAreTyped, TokensAreTyped,
     ProposalsAreTyped, ProjectsAreTyped, BlobsAreTyped, OthersAreTyped
  DEF TypesInv, PartsInv, TypeOK
<1> QED
  BY <1>1, <1>2, <1>3, PTL DEF Spec
=============================================================================
