--------------------------- MODULE Backups_proofs ---------------------------
(***************************************************************************)
(* Proofs about Backups: whatever runs overlap, fail half way or die, no   *)
(* archive is given up that every policy applied to its target would keep, *)
(* and no run is shown as deleted whose archive is still there.            *)
(***************************************************************************)
EXTENDS Backups, SequenceTheorems, FiniteSetTheorems, TLAPS

-----------------------------------------------------------------------------
(*                       The inductive invariant                           *)

RowType == [id : Nat, target : Target, started : Time, object : Time,
            completed : Time, ok : BOOLEAN, gone : BOOLEAN]
RunType == [at : {"idle", "upload", "failed", "uploaded", "recorded",
                  "inserted", "delete", "gone", "kept", "waiting"},
            target : Target, policy : [keep : Nat, days : Nat], started : Time,
            object : Time, completed : Time, prune : Seq(Nat)]

Types ==
  /\ clock \in Time /\ clock >= 1
  /\ target \in [Target -> [mode : Mode, policy : Policy, last : Time,
                            object : Time]]
  /\ edit \in [target : SUBSET Target, last : Time, object : Time]
  /\ rows \subseteq RowType /\ IsFiniteSet(rows)
  /\ \A r, q \in rows : r.id = q.id => r = q
  /\ store \subseteq Target \X Time
  /\ run \in [Proc -> RunType]
  /\ queue \in [Proc -> Seq(Target)]
  /\ floor \in [Target -> [keep : Nat, days : Nat]]

Archive(r) == <<r.target, r.object>>

\* An archive that is not in its store, as far as its name tells.
Vacant(a) == a \notin store \/ a \in reused

\* A run between its upload and the insertion of its row.
Making(c) == c.at \in {"uploaded", "recorded"}

\* Successful runs of r's target that began with r or later.
Newer(R, r) == {q \in R : q.target = r.target /\ q.ok /\ q # r
                            /\ q.started >= r.started}

\* No policy applied to r's target keeps r.
GivenUp(r) ==
  /\ Cardinality(Newer(rows, r)) >= floor[r.target].keep
  /\ r.completed + floor[r.target].days <= clock

RowsOK ==
  \A r \in rows : /\ r.id \in 1 .. Cardinality(rows) /\ r.completed <= clock
                  /\ r.gone => r.ok

RunsOK == \A p \in Proc : run[p].completed <= clock

\* A name is of one successful run, recorded or on the way, or is reused.
UploadsOK ==
  /\ \A r \in rows : r.ok => Archive(r) \in uploads
  /\ \A p \in Proc : Making(run[p]) =>
       Archive(run[p]) \in uploads /\ Archive(run[p]) \in store \cup reused
OwnersOK ==
  /\ \A r, q \in rows :
       r.ok /\ q.ok /\ Archive(r) = Archive(q) => r = q \/ Archive(r) \in reused
  /\ \A p \in Proc, r \in rows :
       Making(run[p]) /\ r.ok /\ Archive(run[p]) = Archive(r)
         => Archive(r) \in reused
  /\ \A p, q \in Proc :
       Making(run[p]) /\ Making(run[q]) /\ Archive(run[p]) = Archive(run[q])
         => p = q \/ Archive(run[p]) \in reused

KeptOK == \A r \in rows : r.ok /\ Archive(r) \notin store \cup reused => GivenUp(r)
GoneOK == \A r \in rows : r.gone => Vacant(Archive(r))

\* What is left for the run c to prune is given up, and what it is about to
\* mark as deleted is.
PruneOK(c) ==
  /\ c.at \in {"delete", "gone", "kept"} => c.prune # <<>>
  /\ \A i \in DOMAIN c.prune : \E r \in rows :
       r.id = c.prune[i] /\ r.ok /\ r.target = c.target /\ GivenUp(r)
  /\ c.at = "gone" => \E r \in rows : r.id = c.prune[1] /\ r.ok /\ Vacant(Archive(r))

Inv ==
  /\ Types /\ RowsOK /\ RunsOK /\ UploadsOK /\ OwnersOK /\ KeptOK /\ GoneOK
  /\ \A p \in Proc : PruneOK(run[p])

-----------------------------------------------------------------------------
(*                     Sequences, sets and the constants                   *)

LEMMA ConstantsAreNat ==
  /\ MaxTime \in Nat /\ MaxTime >= 1 /\ MaxRows \in Nat /\ Interval \in Nat
  /\ Limit \in Nat /\ PageSize \in Nat /\ MaxUpsets \in Nat
  /\ Time \subseteq Nat /\ 0 \in Time /\ 1 \in Time
  /\ Policy \subseteq [keep : Nat, days : Nat]
  BY NumberAssumption DEF Time, None

LEMMA IdleIsRun ==
  /\ \A t \in Target : NoRun(t) \in RunType
  /\ Idle \in RunType /\ Idle.at = "idle" /\ Idle.prune = <<>> /\ Idle.completed = 0
<1>1. NoPolicy \in [keep : Nat, days : Nat] /\ None \in Time /\ None = 0
  BY ConstantsAreNat DEF NoPolicy, None
<1>2. <<>> \in Seq(Nat)
  OBVIOUS
<1>3. \A t \in Target : NoRun(t) \in RunType
  BY <1>1, <1>2 DEF NoRun, RunType
<1>4. (CHOOSE t \in Target : TRUE) \in Target
  BY TargetAssumption
<1> QED
  BY <1>1, <1>3, <1>4 DEF Idle, NoRun

\* A list cut at n: its elements, and their places.
LEMMA FirstOfList ==
  ASSUME NEW S, NEW m \in Nat, NEW g \in [1 .. m -> S], NEW n \in Nat
  PROVE  /\ FirstOf(g, n) \in Seq(S) /\ Len(FirstOf(g, n)) \in 0 .. m
         /\ \A i \in 1 .. Len(FirstOf(g, n)) : FirstOf(g, n)[i] = g[i]
<1>1. g \in Seq(S) /\ Len(g) = m
  OBVIOUS
<1> DEFINE k == IF m < n THEN m ELSE n
<1>2. k \in 0 .. m /\ FirstOf(g, n) = SubSeq(g, 1, k)
  BY <1>1 DEF FirstOf
<1> HIDE DEF k
<1>3. \A i \in 1 .. k : g[i] \in S
  BY <1>1, <1>2
<1>4. /\ SubSeq(g, 1, k) \in Seq(S)
      /\ Len(SubSeq(g, 1, k)) = IF 1 <= k THEN k - 1 + 1 ELSE 0
      /\ \A i \in 1 .. k - 1 + 1 : SubSeq(g, 1, k)[i] = g[1 + i - 1]
  BY <1>2, <1>3, SubSeqProperties
<1> QED
  BY <1>2, <1>4

\* Replacing an element of a finite set by a new one.
LEMMA Replaced ==
  ASSUME NEW S, IsFiniteSet(S), NEW x \in S, NEW y, y \notin S \ {x}
  PROVE  /\ IsFiniteSet((S \ {x}) \cup {y})
         /\ Cardinality((S \ {x}) \cup {y}) = Cardinality(S)
<1>1. /\ IsFiniteSet(S \ {x}) /\ Cardinality(S) \in Nat
      /\ Cardinality(S \ {x}) = Cardinality(S) - 1
  BY FS_RemoveElement, FS_CardinalityType
<1> DEFINE R == S \ {x}
<1>2. IsFiniteSet(R) /\ y \notin R
  BY <1>1
<1>3. IsFiniteSet(R \cup {y}) /\ Cardinality(R \cup {y}) = Cardinality(R) + 1
  BY <1>2, FS_AddElement
<1> QED
  BY <1>1, <1>3

-----------------------------------------------------------------------------
(*                      From one state to a later one                      *)

\* The same run of a backup, but for its mark of deletion.
Twin(r, q) ==
  /\ q.id = r.id /\ q.target = r.target /\ q.started = r.started
  /\ q.object = r.object /\ q.completed = r.completed /\ q.ok = r.ok

Later ==
  /\ clock <= clock' /\ clock' \in Nat
  /\ floor' \in [Target -> [keep : Nat, days : Nat]]
  /\ \A t \in Target : /\ floor'[t].keep <= floor[t].keep
                       /\ floor'[t].days <= floor[t].days
  /\ uploads \subseteq uploads' /\ reused \subseteq reused'
  /\ \A a \in uploads : Vacant(a) => Vacant(a)'
  /\ rows' \subseteq RowType /\ IsFiniteSet(rows')
  /\ \A r \in rows : \E q \in rows' : Twin(r, q)

LEMMA TypesOfRows ==
  ASSUME Inv
  PROVE  /\ rows \subseteq RowType /\ IsFiniteSet(rows)
         /\ \A r, q \in rows : r.id = q.id => r = q
         /\ clock \in Time /\ clock \in Nat /\ run \in [Proc -> RunType]
         /\ floor \in [Target -> [keep : Nat, days : Nat]]
  BY ConstantsAreNat DEF Inv, Types

\* The runs newer than r are still there later on.
LEMMA NewerLater ==
  ASSUME Inv, Later, NEW r \in rows, NEW s \in rows', Twin(r, s)
  PROVE  Cardinality(Newer(rows, r)) <= Cardinality(Newer(rows', s))
<1> DEFINE S == Newer(rows, r)
           T == Newer(rows', s)
           f == [x \in S |-> CHOOSE z \in rows' : Twin(x, z)]
<1>1. \A x \in S : f[x] \in rows' /\ Twin(x, f[x])
  BY DEF Newer, Later
<1>2. \A x \in S : x \in rows /\ x.target = r.target /\ x.ok /\ x # r /\ x.started >= r.started
  BY DEF Newer
<1> HIDE DEF f
<1>3. \A x \in S : f[x] \in T
  <2> SUFFICES ASSUME NEW x \in S PROVE f[x] \in T
    OBVIOUS
  <2>1. x.id # r.id
    BY <1>2, TypesOfRows
  <2> QED
    BY <1>1, <1>2, <2>1 DEF Newer, Twin
<1>4. \A x, y \in S : f[x] = f[y] => x = y
  BY <1>1, <1>2, TypesOfRows DEF Twin
<1>5. IsFiniteSet(T)
  BY FS_Subset DEF Newer, Later
<1>6. f \in [S -> T]
  BY <1>3 DEF f
<1>7. f \in Injection(S, T)
  BY <1>4, <1>6 DEF Injection, IsInjective
<1> HIDE DEF S, T
<1>8. Cardinality(S) <= Cardinality(T)
  BY <1>5, <1>7, FS_Injection
<1> QED
  BY <1>8 DEF S, T

\* What every policy has given up stays given up.
LEMMA GivenUpLater ==
  ASSUME Inv, Later, NEW r \in rows, NEW s \in rows', Twin(r, s), GivenUp(r)
  PROVE  GivenUp(s)'
<1>1. Cardinality(Newer(rows, r)) <= Cardinality(Newer(rows', s))
  BY NewerLater
<1>2. IsFiniteSet(Newer(rows, r)) /\ IsFiniteSet(Newer(rows', s))
  BY TypesOfRows, FS_Subset DEF Newer, Later
<1>3. Cardinality(Newer(rows, r)) \in Nat /\ Cardinality(Newer(rows', s)) \in Nat
  BY <1>2, FS_CardinalityType
<1>4. r \in RowType /\ s \in RowType
  BY TypesOfRows DEF Later
<1>5. r.target \in Target /\ s.target = r.target /\ s.completed = r.completed
      /\ r.completed \in Nat
  BY <1>4, ConstantsAreNat DEF Twin, RowType
<1>6. PICK k \in Nat, d \in Nat : floor[r.target].keep = k /\ floor[r.target].days = d
  BY <1>5, TypesOfRows
<1>7. PICK m \in Nat, e \in Nat : floor'[r.target].keep = m /\ floor'[r.target].days = e
  BY <1>5 DEF Later
<1>8. m <= k /\ e <= d
  BY <1>5, <1>6, <1>7 DEF Later
<1>9. Cardinality(Newer(rows, r)) >= k /\ r.completed + d <= clock
  BY <1>6 DEF GivenUp
<1>10. clock \in Nat /\ clock' \in Nat /\ clock <= clock'
  BY TypesOfRows DEF Later
<1>11. Cardinality(Newer(rows', s)) >= m /\ s.completed + e <= clock'
  BY <1>1, <1>3, <1>5, <1>8, <1>9, <1>10
<1> QED
  BY <1>5, <1>7, <1>11 DEF GivenUp

\* What a run is about to prune may still be pruned later on.
LEMMA PruneLater ==
  ASSUME Inv, Later, NEW c, PruneOK(c)
  PROVE  PruneOK(c)'
<1>1. c.at \in {"delete", "gone", "kept"} => c.prune # <<>>
  BY DEF PruneOK
<1>2. ASSUME NEW i \in DOMAIN c.prune
      PROVE  \E s \in rows' : s.id = c.prune[i] /\ s.ok /\ s.target = c.target /\ GivenUp(s)'
  <2>1. PICK r \in rows : r.id = c.prune[i] /\ r.ok /\ r.target = c.target /\ GivenUp(r)
    BY DEF PruneOK
  <2>2. PICK s \in rows' : Twin(r, s)
    BY DEF Later
  <2>3. GivenUp(s)'
    BY <2>1, <2>2, GivenUpLater
  <2> QED
    BY <2>1, <2>2, <2>3 DEF Twin
<1>3. ASSUME c.at = "gone"
      PROVE  \E s \in rows' : s.id = c.prune[1] /\ s.ok /\ Vacant(Archive(s))'
  <2>1. PICK r \in rows : r.id = c.prune[1] /\ r.ok /\ Vacant(Archive(r))
    BY <1>3 DEF PruneOK
  <2>2. PICK s \in rows' : Twin(r, s)
    BY DEF Later
  <2>3. s.id = r.id /\ s.ok = r.ok /\ Archive(s) = Archive(r)
    BY <2>2 DEF Twin, Archive
  <2>4. Archive(r) \in uploads
    BY <2>1 DEF Inv, UploadsOK
  <2>5. Vacant(Archive(r))'
    BY <2>1, <2>4 DEF Later
  <2> QED
    BY <2>1, <2>3, <2>5
<1> QED
  BY <1>1, <1>2, <1>3 DEF PruneOK


\* A run goes on as c: the others are as well off as before.
LEMMA RunsLater ==
  ASSUME Inv, Later, NEW p, NEW c \in RunType,
         run' = [run EXCEPT ![p] = c] \/ run' = run,
         c.completed <= clock', PruneOK(c)'
  PROVE  /\ run' \in [Proc -> RunType] /\ RunsOK'
         /\ \A q \in Proc : PruneOK(run[q])'
<1>1. run \in [Proc -> RunType] /\ clock \in Nat /\ clock' \in Nat /\ clock <= clock'
  BY TypesOfRows DEF Later
<1>2. \A q \in Proc : run'[q] = run[q] \/ run'[q] = c
  BY <1>1
<1>3. \A q \in Proc : run[q].completed <= clock /\ run[q].completed \in Nat
  BY <1>1, ConstantsAreNat DEF Inv, RunsOK, RunType
<1>4. \A q \in Proc : run'[q].completed <= clock'
  BY <1>1, <1>2, <1>3
<1>5. ASSUME NEW q \in Proc PROVE PruneOK(run[q])'
  <2>1. PICK d : d = run[q]
    OBVIOUS
  <2>2. PruneOK(d)'
    BY <2>1, PruneLater DEF Inv
  <2>3. run'[q] = d \/ run'[q] = c
    BY <1>2, <2>1
  <2> QED
    BY <2>2, <2>3 DEF PruneOK
<1> QED
  BY <1>1, <1>4, <1>5 DEF RunsOK

\* Only runs that were on the way with an archive are, but for those in P.
OnlyMaking(P) ==
  \A q \in Proc \ P : Making(run'[q]) =>
    Making(run[q]) /\ Archive(run'[q]) = Archive(run[q])

Records == RowsOK /\ UploadsOK /\ OwnersOK /\ KeptOK /\ GoneOK

\* Rows, archives and names stay.
LEMMA QuietStep ==
  ASSUME Inv, Later, UNCHANGED <<rows, store, uploads, reused>>, OnlyMaking({})
  PROVE  Records'
<1>1. /\ RowsOK /\ UploadsOK /\ OwnersOK /\ KeptOK /\ GoneOK
      /\ clock \in Nat /\ clock' \in Nat /\ clock <= clock' /\ rows \subseteq RowType
  BY TypesOfRows DEF Inv, Later
<1>2. RowsOK'
  <2>1. \A r \in rows : r.completed \in Nat
    BY <1>1, ConstantsAreNat DEF RowType
  <2> QED
    BY <1>1, <2>1 DEF RowsOK
<1>3. UploadsOK' /\ OwnersOK' /\ GoneOK'
  BY <1>1 DEF UploadsOK, OwnersOK, GoneOK, OnlyMaking, Archive, Vacant
<1>4. KeptOK'
  <2> SUFFICES ASSUME NEW r \in rows, r.ok, Archive(r) \notin store \cup reused
               PROVE  GivenUp(r)'
    BY <1>1 DEF KeptOK, Archive
  <2>1. GivenUp(r)
    BY <1>1 DEF KeptOK
  <2>2. Twin(r, r) /\ r \in rows'
    BY DEF Twin
  <2> QED
    BY <2>1, <2>2, GivenUpLater
<1> QED
  BY <1>2, <1>3, <1>4 DEF Records

\* An archive reaches its store, under a name that may be in use.
LEMMA PutStep ==
  ASSUME Inv, Later, NEW p \in Proc, Put(p), UNCHANGED rows, OnlyMaking({p}),
         Making(run'[p]) => Archive(run'[p]) = <<run[p].target, clock>>
  PROVE  Records'
<1> DEFINE a == <<run[p].target, clock>>
<1>1. /\ RowsOK /\ UploadsOK /\ OwnersOK /\ KeptOK /\ GoneOK
      /\ clock \in Nat /\ clock' \in Nat /\ clock <= clock' /\ rows \subseteq RowType
  BY TypesOfRows DEF Inv, Later
<1>2. RowsOK'
  <2>1. \A r \in rows : r.completed \in Nat
    BY <1>1, ConstantsAreNat DEF RowType
  <2> QED
    BY <1>1, <2>1 DEF RowsOK
<1>3. PICK n : n = a
  OBVIOUS
<1>4. /\ store' = store \cup {n} /\ uploads' = uploads \cup {n}
      /\ reused' = IF n \in uploads THEN reused \cup {n} ELSE reused
  BY <1>3 DEF Put
<1>5. \A q \in Proc : Making(run'[q]) =>
        \/ Making(run[q]) /\ Archive(run'[q]) = Archive(run[q]) /\ q # p
        \/ q = p /\ Archive(run'[q]) = n
  BY <1>3 DEF OnlyMaking
<1> HIDE DEF a
<1>6. UploadsOK'
  <2>1. \A r \in rows' : r.ok => (Archive(r) \in uploads)'
    BY <1>1, <1>4 DEF UploadsOK, Archive
  <2>2. ASSUME NEW q \in Proc, Making(run'[q])
        PROVE  Archive(run'[q]) \in uploads' /\ Archive(run'[q]) \in store' \cup reused'
    BY <1>1, <1>4, <1>5, <2>2 DEF UploadsOK
  <2> QED
    BY <2>1, <2>2 DEF UploadsOK, Making, Archive
<1>7. OwnersOK'
  <2>1. \A r, q \in rows : r.ok /\ q.ok /\ Archive(r) = Archive(q)
           => r = q \/ Archive(r) \in reused'
    BY <1>1, <1>4 DEF OwnersOK
  <2>2. ASSUME NEW q \in Proc, NEW r \in rows, Making(run'[q]), r.ok,
               Archive(run'[q]) = Archive(r)
        PROVE  Archive(r) \in reused'
    BY <1>1, <1>4, <1>5, <2>2 DEF OwnersOK, UploadsOK
  <2>3. ASSUME NEW q \in Proc, NEW s \in Proc, Making(run'[q]), Making(run'[s]),
               Archive(run'[q]) = Archive(run'[s])
        PROVE  q = s \/ Archive(run'[q]) \in reused'
    BY <1>1, <1>4, <1>5, <2>3 DEF OwnersOK, UploadsOK
  <2> QED
    BY <2>1, <2>2, <2>3 DEF OwnersOK, Making, Archive
<1>8. GoneOK'
  <2> SUFFICES ASSUME NEW r \in rows, r.gone PROVE Vacant(Archive(r))'
    BY DEF GoneOK
  <2>1. Vacant(Archive(r)) /\ Archive(r) \in uploads
    BY <1>1 DEF GoneOK, RowsOK, UploadsOK
  <2> QED
    BY <1>4, <2>1 DEF Vacant, Archive
<1>9. KeptOK'
  <2> SUFFICES ASSUME NEW r \in rows, r.ok, Archive(r) \notin store' \cup reused'
               PROVE  GivenUp(r)'
    BY DEF KeptOK, Archive
  <2>1. GivenUp(r)
    BY <1>1, <1>4 DEF KeptOK
  <2>2. Twin(r, r) /\ r \in rows'
    BY DEF Twin
  <2> QED
    BY <2>1, <2>2, GivenUpLater
<1> QED
  BY <1>2, <1>6, <1>7, <1>8, <1>9 DEF Records
\* The run p records what it has done, or that it has failed.
LEMMA InsertStep ==
  ASSUME Inv, Later, NEW p \in Proc, NEW n \in RowType, rows' = rows \cup {n},
         UNCHANGED <<store, uploads, reused>>,
         n.id = Cardinality(rows) + 1, n.completed <= clock', ~n.gone,
         n.ok => Making(run[p]) /\ Archive(n) = Archive(run[p]),
         OnlyMaking({}), ~Making(run'[p])
  PROVE  Records' /\ \A r, q \in rows' : r.id = q.id => r = q
<1>1. /\ RowsOK /\ UploadsOK /\ OwnersOK /\ KeptOK /\ GoneOK
      /\ clock \in Nat /\ clock' \in Nat /\ clock <= clock' /\ rows \subseteq RowType
      /\ IsFiniteSet(rows) /\ \A r, q \in rows : r.id = q.id => r = q
  BY TypesOfRows DEF Inv, Later
<1>2. Cardinality(rows) \in Nat
  BY <1>1, FS_CardinalityType
<1>3. \A r \in rows : r.id # n.id
  BY <1>1, <1>2 DEF RowsOK
<1>4. n \notin rows
  BY <1>3
<1>5. Cardinality(rows') = Cardinality(rows) + 1
  BY <1>1, <1>4, FS_AddElement
<1>6. RowsOK'
  <2>1. \A r \in rows : r.completed \in Nat /\ r.id \in 1 .. Cardinality(rows)
                        /\ r.completed <= clock /\ (r.gone => r.ok)
    BY <1>1, ConstantsAreNat DEF RowType, RowsOK
  <2>2. n.completed \in Nat
    BY ConstantsAreNat DEF RowType
  <2>3. ASSUME NEW r \in rows'
        PROVE  r.id \in 1 .. Cardinality(rows') /\ r.completed <= clock' /\ (r.gone => r.ok)
    BY <1>1, <1>2, <1>5, <2>1, <2>2, <2>3
  <2> QED
    BY <2>3 DEF RowsOK
<1>7. \A q \in Proc : Making(run'[q]) =>
        Making(run[q]) /\ Archive(run'[q]) = Archive(run[q]) /\ q # p
  BY DEF OnlyMaking
<1>8. n.ok => /\ Archive(n) \in uploads /\ Archive(n) \in store \cup reused
              /\ \A r \in rows : r.ok /\ Archive(r) = Archive(n) => Archive(n) \in reused
              /\ \A q \in Proc \ {p} : Making(run[q]) /\ Archive(run[q]) = Archive(n)
                   => Archive(n) \in reused
  BY <1>1 DEF UploadsOK, OwnersOK
<1>9. UploadsOK'
  <2>1. \A r \in rows' : r.ok => (Archive(r) \in uploads)'
    BY <1>1, <1>8 DEF UploadsOK, Archive
  <2>2. ASSUME NEW q \in Proc, Making(run'[q])
        PROVE  Archive(run'[q]) \in uploads' /\ Archive(run'[q]) \in store' \cup reused'
    BY <1>1, <1>7, <2>2 DEF UploadsOK
  <2> QED
    BY <2>1, <2>2 DEF UploadsOK, Making, Archive
<1>10. OwnersOK'
  <2>1. \A r, q \in rows' : r.ok /\ q.ok /\ Archive(r) = Archive(q)
           => r = q \/ Archive(r) \in reused'
    BY <1>1, <1>8 DEF OwnersOK
  <2>2. ASSUME NEW q \in Proc, NEW r \in rows', Making(run'[q]), r.ok,
               Archive(run'[q]) = Archive(r)
        PROVE  Archive(r) \in reused'
    BY <1>1, <1>7, <1>8, <2>2 DEF OwnersOK
  <2>3. ASSUME NEW q \in Proc, NEW s \in Proc, Making(run'[q]), Making(run'[s]),
               Archive(run'[q]) = Archive(run'[s])
        PROVE  q = s \/ Archive(run'[q]) \in reused'
    BY <1>1, <1>7, <2>3 DEF OwnersOK
  <2> QED
    BY <2>1, <2>2, <2>3 DEF OwnersOK, Making, Archive
<1>11. GoneOK'
  BY <1>1 DEF GoneOK, Vacant, Archive
<1>12. KeptOK'
  <2> SUFFICES ASSUME NEW r \in rows', r.ok, Archive(r) \notin store \cup reused
               PROVE  GivenUp(r)'
    BY DEF KeptOK, Archive
  <2>1. r \in rows
    BY <1>8
  <2>2. GivenUp(r)
    BY <1>1, <2>1 DEF KeptOK
  <2>3. Twin(r, r)
    BY DEF Twin
  <2> QED
    BY <2>1, <2>2, <2>3, GivenUpLater
<1>13. \A r, q \in rows' : r.id = q.id => r = q
  BY <1>1, <1>3
<1> QED
  BY <1>6, <1>9, <1>10, <1>11, <1>12, <1>13 DEF Records

\* The archive of a run that every policy has given up may leave its store.
LEMMA RemoveStep ==
  ASSUME Inv, Later, NEW r \in rows, r.ok, GivenUp(r),
         store' \subseteq store, store \ {Archive(r)} \subseteq store',
         UNCHANGED <<rows, uploads, reused>>, OnlyMaking({})
  PROVE  Records'
<1>1. /\ RowsOK /\ UploadsOK /\ OwnersOK /\ KeptOK /\ GoneOK
      /\ clock \in Nat /\ clock' \in Nat /\ clock <= clock' /\ rows \subseteq RowType
  BY TypesOfRows DEF Inv, Later
<1>2. RowsOK'
  <2>1. \A s \in rows : s.completed \in Nat
    BY <1>1, ConstantsAreNat DEF RowType
  <2> QED
    BY <1>1, <2>1 DEF RowsOK
<1>3. UploadsOK'
  <2>1. ASSUME NEW q \in Proc, Making(run'[q])
        PROVE  Archive(run'[q]) \in uploads /\ Archive(run'[q]) \in store' \cup reused
    <3>1. Making(run[q]) /\ Archive(run'[q]) = Archive(run[q])
      BY <2>1 DEF OnlyMaking
    <3>2. Archive(run[q]) = Archive(r) => Archive(run[q]) \in reused
      BY <1>1, <3>1 DEF OwnersOK
    <3> QED
      BY <1>1, <3>1, <3>2 DEF UploadsOK
  <2> QED
    BY <1>1, <2>1 DEF UploadsOK, Making, Archive
<1>4. OwnersOK' /\ GoneOK'
  BY <1>1 DEF OwnersOK, GoneOK, OnlyMaking, Archive, Vacant
<1>5. KeptOK'
  <2> SUFFICES ASSUME NEW s \in rows, s.ok, Archive(s) \notin store' \cup reused
               PROVE  GivenUp(s)'
    BY <1>1 DEF KeptOK, Archive
  <2>1. GivenUp(s)
    <3>1. CASE Archive(s) = Archive(r)
      BY <1>1, <3>1 DEF OwnersOK
    <3>2. CASE Archive(s) # Archive(r)
      BY <1>1, <3>2 DEF KeptOK
    <3> QED
      BY <3>1, <3>2
  <2>2. Twin(s, s) /\ s \in rows'
    BY DEF Twin
  <2> QED
    BY <2>1, <2>2, GivenUpLater
<1> QED
  BY <1>2, <1>3, <1>4, <1>5 DEF Records

\* A run is marked as deleted when its archive is, or the mark is cleared.
LEMMA MarkStep ==
  ASSUME Inv, Later, NEW r \in rows, r.ok, NEW b \in BOOLEAN, NEW n,
         n = [r EXCEPT !.gone = b],
         b => Vacant(Archive(r)), rows' = (rows \ {r}) \cup {n},
         UNCHANGED <<store, uploads, reused>>, OnlyMaking({})
  PROVE  Records' /\ \A s, q \in rows' : s.id = q.id => s = q
<1>1. /\ RowsOK /\ UploadsOK /\ OwnersOK /\ KeptOK /\ GoneOK
      /\ clock \in Nat /\ clock' \in Nat /\ clock <= clock' /\ rows \subseteq RowType
      /\ IsFiniteSet(rows) /\ \A s, q \in rows : s.id = q.id => s = q
  BY TypesOfRows DEF Inv, Later
<1>2. Twin(r, n) /\ n \in RowType /\ n.gone = b
  BY <1>1 DEF Twin, RowType
<1>3. n \notin rows \ {r}
  BY <1>1, <1>2 DEF Twin
<1>4. Cardinality(rows') = Cardinality(rows)
  BY <1>1, <1>3, Replaced
<1>5. \A s \in rows' : \E q \in rows : Twin(q, s) /\ (s.gone => q.gone \/ (q = r /\ b))
                                       /\ (q = r => s = n)
  BY <1>1, <1>2 DEF Twin
<1>6. \A s, q \in rows' : s.id = q.id => s = q
  <2>1. \A s \in rows' : (s \in rows /\ s # r) \/ s = n
    OBVIOUS
  <2>2. n.id = r.id
    BY <1>2 DEF Twin
  <2>3. \A s \in rows : s.id = r.id => s = r
    BY <1>1
  <2>4. \A s, q \in rows : s.id = q.id => s = q
    BY <1>1
  <2>5. ASSUME NEW s \in rows', NEW q \in rows', s.id = q.id PROVE s = q
    <3>1. CASE s = n
      BY <2>1, <2>2, <2>3, <2>5, <3>1
    <3>2. CASE q = n
      BY <2>1, <2>2, <2>3, <2>5, <3>2
    <3>3. CASE s # n /\ q # n
      BY <2>1, <2>4, <2>5, <3>3
    <3> QED
      BY <3>1, <3>2, <3>3
  <2> QED
    BY <2>5
<1>7. RowsOK'
  <2>1. \A s \in rows : s.completed \in Nat /\ s.id \in 1 .. Cardinality(rows)
                        /\ s.completed <= clock /\ (s.gone => s.ok)
    BY <1>1, ConstantsAreNat DEF RowType, RowsOK
  <2>2. ASSUME NEW s \in rows'
        PROVE  s.id \in 1 .. Cardinality(rows') /\ s.completed <= clock' /\ (s.gone => s.ok)
    BY <1>1, <1>4, <1>5, <2>1, <2>2 DEF Twin
  <2> QED
    BY <2>2 DEF RowsOK
<1>8. \A s, q : Twin(s, q) => Archive(s) = Archive(q) /\ q.ok = s.ok
  BY DEF Twin, Archive
<1>9. UploadsOK'
  <2>1. \A s \in rows' : s.ok => (Archive(s) \in uploads)'
    BY <1>1, <1>5, <1>8 DEF UploadsOK
  <2>2. ASSUME NEW q \in Proc, Making(run'[q])
        PROVE  Archive(run'[q]) \in uploads' /\ Archive(run'[q]) \in store' \cup reused'
    BY <1>1, <2>2 DEF UploadsOK, OnlyMaking
  <2> QED
    BY <2>1, <2>2 DEF UploadsOK, Making, Archive
<1>10. OwnersOK'
  <2>1. ASSUME NEW s \in rows', NEW q \in rows', s.ok, q.ok, Archive(s) = Archive(q)
        PROVE  s = q \/ Archive(s) \in reused'
    <3>1. PICK s1 \in rows, q1 \in rows : Twin(s1, s) /\ Twin(q1, q)
      BY <1>5
    <3>2. s1 = q1 \/ Archive(s1) \in reused
      BY <1>1, <1>8, <2>1, <3>1 DEF OwnersOK
    <3>3. s1 = q1 => s = q
      BY <1>6, <3>1 DEF Twin
    <3> QED
      BY <1>8, <3>1, <3>2, <3>3
  <2>2. ASSUME NEW q \in Proc, NEW s \in rows', Making(run'[q]), s.ok,
               Archive(run'[q]) = Archive(s)
        PROVE  Archive(s) \in reused'
    <3>1. PICK s1 \in rows : Twin(s1, s)
      BY <1>5
    <3> QED
      BY <1>1, <1>8, <2>2, <3>1 DEF OwnersOK, OnlyMaking
  <2>3. ASSUME NEW q \in Proc, NEW s \in Proc, Making(run'[q]), Making(run'[s]),
               Archive(run'[q]) = Archive(run'[s])
        PROVE  q = s \/ Archive(run'[q]) \in reused'
    BY <1>1, <2>3 DEF OwnersOK, OnlyMaking
  <2> QED
    BY <2>1, <2>2, <2>3 DEF OwnersOK, Making, Archive
<1>11. GoneOK'
  <2> SUFFICES ASSUME NEW s \in rows', s.gone PROVE Vacant(Archive(s))'
    BY DEF GoneOK
  <2>1. Vacant(Archive(s))
    BY <1>1, <1>5, <1>8 DEF GoneOK
  <2> QED
    BY <2>1 DEF Vacant, Archive
<1>12. KeptOK'
  <2> SUFFICES ASSUME NEW s \in rows', s.ok, Archive(s) \notin store \cup reused
               PROVE  GivenUp(s)'
    BY DEF KeptOK, Archive
  <2>1. PICK q \in rows : Twin(q, s)
    BY <1>5
  <2>2. GivenUp(q)
    BY <1>1, <1>8, <2>1 DEF KeptOK
  <2> QED
    BY <2>1, <2>2, GivenUpLater
<1> QED
  BY <1>6, <1>7, <1>9, <1>10, <1>11, <1>12 DEF Records
-----------------------------------------------------------------------------
(*                                 Steps                                   *)

LEMMA LaterSame ==
  ASSUME Inv, clock' \in Time, clock <= clock', store' \subseteq store,
         UNCHANGED <<rows, uploads, reused, floor>>
  PROVE  Later
<1>1. \A r \in rows : Twin(r, r)
  BY DEF Twin
<1>2. \A t \in Target : floor[t].keep \in Nat /\ floor[t].days \in Nat
  BY TypesOfRows
<1> QED
  BY <1>1, <1>2, TypesOfRows, ConstantsAreNat DEF Later, Vacant

LEMMA LaterPut ==
  ASSUME Inv, NEW p, Put(p), UNCHANGED <<clock, rows, floor>>
  PROVE  Later
<1>1. \A r \in rows : Twin(r, r)
  BY DEF Twin
<1>2. \A t \in Target : floor[t].keep \in Nat /\ floor[t].days \in Nat
  BY TypesOfRows
<1>3. \A a \in uploads : Vacant(a) => a \notin store' \/ a \in reused'
  BY DEF Put, Vacant
<1>4. uploads \subseteq uploads' /\ reused \subseteq reused'
  BY DEF Put
<1> QED
  BY <1>1, <1>2, <1>3, <1>4, TypesOfRows, ConstantsAreNat DEF Later, Vacant

LEMMA LaterInsert ==
  ASSUME Inv, NEW n \in RowType, rows' = rows \cup {n},
         UNCHANGED <<clock, store, uploads, reused, floor>>
  PROVE  Later
<1>1. \A r \in rows : Twin(r, r) /\ r \in rows'
  BY DEF Twin
<1>2. \A t \in Target : floor[t].keep \in Nat /\ floor[t].days \in Nat
  BY TypesOfRows
<1>3. rows' \subseteq RowType /\ IsFiniteSet(rows')
  BY TypesOfRows, FS_AddElement
<1> QED
  BY <1>1, <1>2, <1>3, TypesOfRows, ConstantsAreNat DEF Later, Vacant

LEMMA LaterMark ==
  ASSUME Inv, NEW r \in rows, NEW n \in RowType, Twin(r, n),
         rows' = (rows \ {r}) \cup {n},
         UNCHANGED <<clock, store, uploads, reused, floor>>
  PROVE  Later
<1>1. \A q \in rows : \E s \in rows' : Twin(q, s)
  BY DEF Twin
<1>2. \A t \in Target : floor[t].keep \in Nat /\ floor[t].days \in Nat
  BY TypesOfRows
<1>3. n \notin rows \ {r}
  BY TypesOfRows DEF Twin
<1>4. rows' \subseteq RowType /\ IsFiniteSet(rows')
  BY <1>3, TypesOfRows, Replaced
<1> QED
  BY <1>1, <1>2, <1>4, TypesOfRows, ConstantsAreNat DEF Later, Vacant

\* The parts of the invariant together.
LEMMA Whole ==
  ASSUME Records', RunsOK', \A q \in Proc : PruneOK(run[q])', Types'
  PROVE  Inv'
  BY DEF Inv, Records

LEMMA NothingToPrune ==
  ASSUME NEW c, c.prune = <<>>, c.at \notin {"delete", "gone", "kept"}
  PROVE  PruneOK(c)
  BY DEF PruneOK

LEMMA SameToPrune ==
  ASSUME NEW d, PruneOK(d), NEW c, c.prune = d.prune, c.target = d.target,
         c.at \notin {"delete", "gone", "kept"}
  PROVE  PruneOK(c)
  BY DEF PruneOK

\* Steps that leave archives, names, rows and floors alone.
LEMMA CalmStep ==
  ASSUME Inv, NEW p, NEW c \in RunType,
         run' = [run EXCEPT ![p] = c] \/ run' = run,
         Making(c) => Making(run[p]) /\ Archive(c) = Archive(run[p]),
         c.completed <= clock, PruneOK(c),
         UNCHANGED <<rows, store, uploads, reused, floor>>,
         clock' \in Time, clock <= clock',
         target' \in [Target -> [mode : Mode, policy : Policy, last : Time,
                                 object : Time]],
         edit' \in [target : SUBSET Target, last : Time, object : Time],
         queue' \in [Proc -> Seq(Target)]
  PROVE  Inv'
<1>1. Later
  BY LaterSame
<1>2. PruneOK(c)'
  BY <1>1, PruneLater
<1>3. c.completed <= clock'
  <2>1. c.completed \in Time
    BY DEF RunType
  <2>2. c.completed \in Nat /\ clock \in Nat /\ clock' \in Nat
    BY <2>1, TypesOfRows, ConstantsAreNat
  <2> QED
    BY <2>2
<1>4. /\ run' \in [Proc -> RunType] /\ RunsOK'
      /\ \A q \in Proc : PruneOK(run[q])'
  BY <1>1, <1>2, <1>3, RunsLater
<1>5. OnlyMaking({})
  BY TypesOfRows DEF OnlyMaking
<1>6. Records'
  BY <1>1, <1>5, QuietStep
<1>7. Types'
  BY <1>4, ConstantsAreNat DEF Inv, Types
<1> QED
  BY <1>4, <1>6, <1>7, Whole

\* What each field of a run may be.
LEMMA RunFields ==
  ASSUME Inv, NEW p \in Proc
  PROVE  /\ run[p] \in RunType /\ PruneOK(run[p]) /\ run[p].completed <= clock
         /\ run[p].target \in Target /\ clock \in Nat /\ clock \in Time
         /\ target \in [Target -> [mode : Mode, policy : Policy, last : Time,
                                   object : Time]]
         /\ edit \in [target : SUBSET Target, last : Time, object : Time]
         /\ queue \in [Proc -> Seq(Target)] /\ store \subseteq Target \X Time
  BY TypesOfRows DEF Inv, Types, RunsOK, RunType

LEMMA StateTypes ==
  ASSUME Inv
  PROVE  /\ clock \in Nat /\ clock \in Time /\ clock >= 1
         /\ target \in [Target -> [mode : Mode, policy : Policy, last : Time,
                                   object : Time]]
         /\ edit \in [target : SUBSET Target, last : Time, object : Time]
         /\ queue \in [Proc -> Seq(Target)] /\ store \subseteq Target \X Time
  BY TypesOfRows DEF Inv, Types

LEMMA TickStep == ASSUME Inv, Tick PROVE Inv'
<1>1. clock' \in Time /\ clock <= clock'
  BY StateTypes, ConstantsAreNat DEF Tick, Time, None
<1>2. Idle \in RunType /\ ~Making(Idle) /\ PruneOK(Idle) /\ Idle.completed <= clock
  BY IdleIsRun, NothingToPrune, StateTypes DEF Making
<1> QED
  BY <1>1, <1>2, StateTypes, CalmStep DEF Tick

LEMMA SaveStep ==
  ASSUME Inv, NEW t \in Target, ReadForSave(t) \/ WriteSave(t)
  PROVE  Inv'
<1>1. Idle \in RunType /\ ~Making(Idle) /\ PruneOK(Idle) /\ Idle.completed <= clock
  BY IdleIsRun, NothingToPrune, StateTypes DEF Making
<1>2. clock' = clock /\ clock' \in Time /\ clock <= clock'
  BY StateTypes DEF ReadForSave, WriteSave
<1>3. target' \in [Target -> [mode : Mode, policy : Policy, last : Time,
                              object : Time]]
  BY StateTypes DEF ReadForSave, WriteSave
<1>4. edit' \in [target : SUBSET Target, last : Time, object : Time]
  <2>1. NoEdit \in [target : SUBSET Target, last : Time, object : Time]
    BY ConstantsAreNat DEF NoEdit, None
  <2> QED
    BY <2>1, StateTypes DEF ReadForSave, WriteSave
<1>5. UNCHANGED <<rows, store, run, uploads, reused, floor, queue>>
  BY DEF ReadForSave, WriteSave
<1> QED
  BY <1>1, <1>2, <1>3, <1>4, <1>5, StateTypes, CalmStep

\* The image of the row with which a run begins.
LEMMA BeginIsRun ==
  ASSUME Inv, NEW t \in Target, NEW p, Begin(p, t)
  PROVE  \E c \in RunType : /\ run' = [run EXCEPT ![p] = c] /\ ~Making(c)
                            /\ PruneOK(c) /\ c.completed <= clock
<1> DEFINE c == [NoRun(t) EXCEPT !.at = "upload", !.policy = target[t].policy,
                   !.started = clock, !.object = target[t].object]
<1>1. target[t].policy \in [keep : Nat, days : Nat] /\ target[t].object \in Time
  BY StateTypes, ConstantsAreNat
<1>2. NoRun(t) \in RunType
  BY IdleIsRun
<1>3. c \in RunType
  BY <1>1, <1>2, StateTypes DEF RunType
<1>4. c.at = "upload" /\ c.prune = <<>> /\ c.completed = 0
  BY DEF NoRun, None
<1>5. run' = [run EXCEPT ![p] = c]
  BY DEF Begin, Step
<1> HIDE DEF c
<1>6. PruneOK(c) /\ ~Making(c) /\ c.completed <= clock
  BY <1>4, NothingToPrune, StateTypes DEF Making
<1> QED
  BY <1>3, <1>5, <1>6

LEMMA StartStep ==
  ASSUME Inv, NEW t \in Target, NEW p, Begin(p, t), queue' \in [Proc -> Seq(Target)],
         UNCHANGED <<rest, target, rows, store, uploads, reused, floor>>
  PROVE  Inv'
<1>1. PICK c \in RunType : /\ run' = [run EXCEPT ![p] = c] /\ ~Making(c)
                           /\ PruneOK(c) /\ c.completed <= clock
  BY BeginIsRun
<1>2. UNCHANGED <<clock, edit>>
  BY DEF rest
<1>3. /\ clock' \in Time /\ clock <= clock'
      /\ target' \in [Target -> [mode : Mode, policy : Policy, last : Time,
                                 object : Time]]
      /\ edit' \in [target : SUBSET Target, last : Time, object : Time]
  BY <1>2, StateTypes
<1>4. UNCHANGED <<rows, store, uploads, reused, floor>>
  OBVIOUS
<1> QED
  BY <1>1, <1>3, <1>4, CalmStep

LEMMA QueueStep ==
  ASSUME Inv, queue' \in [Proc -> Seq(Target)],
         UNCHANGED <<rest, target, rows, store, run, uploads, reused, floor>>
  PROVE  Inv'
<1>1. Idle \in RunType /\ ~Making(Idle) /\ PruneOK(Idle) /\ Idle.completed <= clock
  BY IdleIsRun, NothingToPrune, StateTypes DEF Making
<1>2. UNCHANGED <<clock, edit>>
  BY DEF rest
<1>3. /\ clock' \in Time /\ clock <= clock'
      /\ target' \in [Target -> [mode : Mode, policy : Policy, last : Time,
                                 object : Time]]
      /\ edit' \in [target : SUBSET Target, last : Time, object : Time]
  BY <1>2, StateTypes
<1>4. UNCHANGED <<rows, store, uploads, reused, floor>>
  OBVIOUS
<1> QED
  BY <1>1, <1>3, <1>4, CalmStep

LEMMA RunTargetStep ==
  ASSUME Inv, NEW h \in Handler, NEW t \in Target, RunTarget(h, t)
  PROVE  Inv'
<1>1. queue' = queue /\ Begin(h, t)
      /\ UNCHANGED <<rest, target, rows, store, uploads, reused, floor>>
  BY DEF RunTarget
<1> QED
  BY <1>1, StateTypes, StartStep

LEMMA SweepStep ==
  ASSUME Inv, NEW s \in Sweeper, RunDueTargets(s) \/ NextTarget(s)
  PROVE  Inv'
<1>0. s \in Proc
  BY DEF Proc
<1>1. CASE RunDueTargets(s)
  <2> DEFINE S == {t \in Target : Due(t)}
  <2>1. PICK list \in Orders(S) : queue' = [queue EXCEPT ![s] = FirstOf(list, Limit)]
    BY <1>1 DEF RunDueTargets
  <2>2. IsFiniteSet(S)
    BY TargetAssumption, FS_Subset
  <2>3. Cardinality(S) \in Nat
    BY <2>2, FS_CardinalityType
  <2>4. list \in [1 .. Cardinality(S) -> S]
    BY DEF Orders
  <2>5. list \in [1 .. Cardinality(S) -> Target]
    BY <2>4
  <2>6. FirstOf(list, Limit) \in Seq(Target)
    BY <2>3, <2>5, FirstOfList, ConstantsAreNat
  <2>7. queue' \in [Proc -> Seq(Target)]
    BY <2>1, <2>6, StateTypes
  <2> QED
    BY <1>1, <2>7, QueueStep DEF RunDueTargets
<1>2. CASE NextTarget(s)
  <2>1. queue[s] \in Seq(Target) /\ queue[s] # <<>>
    BY <1>0, <1>2, StateTypes DEF NextTarget
  <2>2. Tail(queue[s]) \in Seq(Target) /\ Head(queue[s]) \in Target
    BY <2>1, HeadTailProperties
  <2>3. queue' \in [Proc -> Seq(Target)]
    BY <1>2, <2>2, StateTypes DEF NextTarget
  <2>4. PICK t \in Target : t = Head(queue[s])
    BY <2>2
  <2>5. UNCHANGED run \/ Begin(s, t)
    BY <1>2, <2>4 DEF NextTarget
  <2>6. UNCHANGED <<rest, target, rows, store, uploads, reused, floor>>
    BY <1>2 DEF NextTarget
  <2> QED
    BY <2>3, <2>5, <2>6, QueueStep, StartStep
<1> QED
  BY <1>1, <1>2

\* A run ends, or goes on without touching store or rows.
LEMMA GoOn ==
  ASSUME Inv, NEW p \in Proc, NEW c \in RunType, run' = [run EXCEPT ![p] = c],
         Making(c) => Making(run[p]) /\ Archive(c) = Archive(run[p]),
         c.completed <= clock, PruneOK(c),
         target' \in [Target -> [mode : Mode, policy : Policy, last : Time,
                                 object : Time]],
         UNCHANGED <<rest, rows, store, uploads, reused, floor>>,
         queue' \in [Proc -> Seq(Target)]
  PROVE  Inv'
<1>1. UNCHANGED <<clock, edit>>
  BY DEF rest
<1>2. /\ clock' \in Time /\ clock <= clock'
      /\ target' \in [Target -> [mode : Mode, policy : Policy, last : Time,
                                 object : Time]]
      /\ edit' \in [target : SUBSET Target, last : Time, object : Time]
  BY <1>1, StateTypes
<1>3. UNCHANGED <<rows, store, uploads, reused, floor>>
  OBVIOUS
<1> QED
  BY <1>2, <1>3, CalmStep

LEMMA IdleMayEnd ==
  ASSUME Inv
  PROVE  Idle \in RunType /\ ~Making(Idle) /\ PruneOK(Idle) /\ Idle.completed <= clock
  BY IdleIsRun, NothingToPrune, StateTypes DEF Making

LEMMA EndStep ==
  ASSUME Inv, NEW p \in Proc, Abandon(p) \/ Die(p)
  PROVE  Inv'
<1>0. <<>> \in Seq(Target)
  OBVIOUS
<1>1. queue' \in [Proc -> Seq(Target)]
  BY <1>0, StateTypes DEF Abandon, Die
<1>2. run' = [run EXCEPT ![p] = Idle] /\ target' = target
      /\ UNCHANGED <<rest, rows, store, uploads, reused, floor>>
  BY DEF Abandon, Die, Step
<1> QED
  BY <1>1, <1>2, IdleMayEnd, StateTypes, GoOn

LEMMA ExportFailsStep ==
  ASSUME Inv, NEW p \in Proc, ExportFails(p)
  PROVE  Inv'
<1>1. PICK c : c = [run[p] EXCEPT !.at = "failed"]
  OBVIOUS
<1>2. c \in RunType /\ c.at = "failed" /\ c.prune = run[p].prune
      /\ c.target = run[p].target /\ c.completed = run[p].completed
  BY <1>1, RunFields DEF RunType
<1>3. PruneOK(c) /\ ~Making(c) /\ c.completed <= clock
  BY <1>2, RunFields, SameToPrune DEF Making
<1>4. run' = [run EXCEPT ![p] = c] /\ target' = target /\ queue' = queue
      /\ UNCHANGED <<rest, rows, store, uploads, reused, floor>>
  BY <1>1 DEF ExportFails, Step
<1> QED
  BY <1>2, <1>3, <1>4, StateTypes, GoOn

LEMMA RecordStep ==
  ASSUME Inv, NEW p \in Proc, Record(p)
  PROVE  Inv'
<1>1. PICK c : c = [run[p] EXCEPT !.at = "recorded", !.completed = clock]
  OBVIOUS
<1>2. c \in RunType /\ c.at = "recorded" /\ c.prune = run[p].prune
      /\ c.target = run[p].target /\ c.completed = clock /\ c.object = run[p].object
  BY <1>1, RunFields DEF RunType
<1>3. PruneOK(c) /\ Making(run[p]) /\ Archive(c) = Archive(run[p]) /\ c.completed <= clock
  BY <1>2, RunFields, SameToPrune DEF Making, Archive, Record
<1>4. run' = [run EXCEPT ![p] = c] /\ queue' = queue
      /\ UNCHANGED <<rest, rows, store, uploads, reused, floor>>
  BY <1>1 DEF Record, Step
<1>5. run[p].object \in Time
  BY RunFields DEF RunType
<1>6. target' \in [Target -> [mode : Mode, policy : Policy, last : Time, object : Time]]
  BY <1>5, RunFields DEF Record
<1> QED
  BY <1>2, <1>3, <1>4, <1>6, StateTypes, GoOn

\* The run p goes on as c while it changes rows, store or floors.
LEMMA WorkStep ==
  ASSUME Inv, NEW p \in Proc, NEW c \in RunType, run' = [run EXCEPT ![p] = c],
         Later, Records', c.completed <= clock, PruneOK(c)',
         \A r, q \in rows' : r.id = q.id => r = q,
         store' \subseteq Target \X Time, UNCHANGED <<rest, target, queue>>
  PROVE  Inv'
<1>1. UNCHANGED <<clock, edit>>
  BY DEF rest
<1>2. /\ run' \in [Proc -> RunType] /\ RunsOK'
      /\ \A q \in Proc : PruneOK(run[q])'
  BY <1>1, RunsLater
<1>3. Types'
  BY <1>1, <1>2 DEF Inv, Types, Later
<1> QED
  BY <1>2, <1>3, Whole

LEMMA UploadStep ==
  ASSUME Inv, NEW p \in Proc, Upload(p)
  PROVE  Inv'
<1>1. PICK c : c = [run[p] EXCEPT !.at = "uploaded", !.object = clock]
  OBVIOUS
<1>2. c \in RunType /\ c.at = "uploaded" /\ c.prune = run[p].prune
      /\ c.target = run[p].target /\ c.completed = run[p].completed /\ c.object = clock
  BY <1>1, RunFields DEF RunType
<1>3. PruneOK(c) /\ c.completed <= clock
  BY <1>2, RunFields, SameToPrune
<1>4. run' = [run EXCEPT ![p] = c] /\ Put(p)
      /\ UNCHANGED <<rest, target, rows, queue, floor>>
  BY <1>1 DEF Upload, Step
<1>5. UNCHANGED <<clock, rows, floor>>
  BY <1>4 DEF rest
<1>6. Later
  BY <1>4, <1>5, LaterPut
<1>7. run'[p] = c /\ \A q \in Proc \ {p} : run'[q] = run[q]
  BY <1>4, TypesOfRows
<1>8. OnlyMaking({p}) /\ Archive(run'[p]) = <<run[p].target, clock>>
  BY <1>2, <1>7 DEF OnlyMaking, Archive
<1>9. Records'
  BY <1>4, <1>5, <1>6, <1>8, PutStep
<1>10. store' \subseteq Target \X Time
  BY <1>4, RunFields DEF Put
<1>11. PruneOK(c)'
  BY <1>3, <1>6, PruneLater
<1>12. \A r, q \in rows' : r.id = q.id => r = q
  BY <1>5, TypesOfRows
<1> QED
  BY <1>2, <1>3, <1>4, <1>6, <1>9, <1>10, <1>11, <1>12, WorkStep

LEMMA UploadFailsStep ==
  ASSUME Inv, NEW p \in Proc, UploadFails(p)
  PROVE  Inv'
<1>1. PICK c : c = [run[p] EXCEPT !.at = "failed", !.object = clock]
  OBVIOUS
<1>2. c \in RunType /\ c.at = "failed" /\ c.prune = run[p].prune
      /\ c.target = run[p].target /\ c.completed = run[p].completed
  BY <1>1, RunFields DEF RunType
<1>3. PruneOK(c) /\ c.completed <= clock /\ ~Making(c)
  BY <1>2, RunFields, SameToPrune DEF Making
<1>4. run' = [run EXCEPT ![p] = c] /\ UNCHANGED <<rest, target, rows, queue, floor>>
  BY <1>1 DEF UploadFails, Step
<1>5. UNCHANGED <<clock, rows, floor>>
  BY <1>4 DEF rest
<1>6. CASE Put(p)
  <2>1. Later
    BY <1>5, <1>6, LaterPut
  <2>2. run'[p] = c /\ \A q \in Proc \ {p} : run'[q] = run[q]
    BY <1>4, TypesOfRows
  <2>3. OnlyMaking({p}) /\ ~Making(run'[p])
    BY <1>3, <2>2 DEF OnlyMaking
  <2>4. Records'
    BY <1>5, <1>6, <2>1, <2>3, PutStep
  <2>5. store' \subseteq Target \X Time
    BY <1>6, RunFields DEF Put
  <2>6. PruneOK(c)'
    BY <1>3, <2>1, PruneLater
  <2>7. \A r, q \in rows' : r.id = q.id => r = q
    BY <1>5, TypesOfRows
  <2> QED
    BY <1>2, <1>3, <1>4, <2>1, <2>4, <2>5, <2>6, <2>7, WorkStep
<1>7. CASE UNCHANGED <<store, uploads, reused>>
  <2>1. UNCHANGED <<rest, rows, store, uploads, reused, floor>>
    BY <1>4, <1>7
  <2>2. queue' \in [Proc -> Seq(Target)]
    BY <1>4, StateTypes
  <2>3. target' \in [Target -> [mode : Mode, policy : Policy, last : Time,
                                object : Time]]
    BY <1>4, StateTypes
  <2> QED
    BY <1>2, <1>3, <1>4, <2>1, <2>2, <2>3, GoOn
<1> QED
  BY <1>6, <1>7 DEF UploadFails

\* A row for what the run p has done.
LEMMA RowIsRow ==
  ASSUME Inv, NEW p \in Proc, NEW ok \in BOOLEAN
  PROVE  /\ Row(p, ok) \in RowType
         /\ Row(p, ok).id = Cardinality(rows) + 1 /\ Row(p, ok).ok = ok
         /\ Row(p, ok).completed = clock /\ Row(p, ok).gone = FALSE
         /\ Row(p, ok).target = run[p].target /\ Row(p, ok).object = run[p].object
<1>1. Cardinality(rows) \in Nat
  BY TypesOfRows, FS_CardinalityType
<1>2. run[p] \in RunType /\ clock \in Time
  BY RunFields
<1>3. Row(p, ok) \in RowType
  BY <1>1, <1>2 DEF Row, RowType, RunType
<1> QED
  BY <1>3 DEF Row

LEMMA FinishFailureStep ==
  ASSUME Inv, NEW p \in Proc, FinishFailure(p)
  PROVE  Inv'
<1>1. run' = [run EXCEPT ![p] = Idle]
      /\ UNCHANGED <<rest, target, store, queue, uploads, reused, floor>>
  BY DEF FinishFailure, Step
<1>2. CASE UNCHANGED rows
  <2>1. UNCHANGED <<rest, rows, store, uploads, reused, floor>>
    BY <1>1, <1>2
  <2>2. queue' \in [Proc -> Seq(Target)]
    BY <1>1, StateTypes
  <2>3. target' \in [Target -> [mode : Mode, policy : Policy, last : Time,
                                object : Time]]
    BY <1>1, StateTypes
  <2> QED
    BY <1>1, <2>1, <2>2, <2>3, IdleMayEnd, GoOn
<1>3. CASE rows' = rows \cup {Row(p, FALSE)}
  <2>1. PICK n \in RowType : n = Row(p, FALSE)
    BY RowIsRow
  <2>2. n.id = Cardinality(rows) + 1 /\ ~n.ok /\ n.completed = clock /\ ~n.gone
    BY <2>1, RowIsRow
  <2>3. UNCHANGED <<clock, store, uploads, reused, floor>>
    BY <1>1 DEF rest
  <2>4. rows' = rows \cup {n}
    BY <1>3, <2>1
  <2>5. Later
    BY <2>3, <2>4, LaterInsert
  <2>6. OnlyMaking({}) /\ ~Making(run'[p])
    BY <1>1, IdleMayEnd, TypesOfRows DEF OnlyMaking
  <2>7. n.completed <= clock'
    BY <2>2, <2>3, StateTypes
  <2>8. Records' /\ \A r, q \in rows' : r.id = q.id => r = q
    BY <2>2, <2>3, <2>4, <2>5, <2>6, <2>7, InsertStep
  <2>9. PruneOK(Idle)'
    BY <2>5, IdleMayEnd, PruneLater DEF Idle
  <2>10. store' \subseteq Target \X Time
    BY <2>3, StateTypes
  <2> QED
    BY <1>1, <2>5, <2>8, <2>9, <2>10, IdleMayEnd, WorkStep
<1> QED
  BY <1>2, <1>3 DEF FinishFailure

LEMMA InsertRunStep ==
  ASSUME Inv, NEW p \in Proc, InsertRun(p)
  PROVE  Inv'
<1>1. PICK c : c = [run[p] EXCEPT !.at = "inserted"]
  OBVIOUS
<1>2. c \in RunType /\ c.at = "inserted" /\ c.prune = run[p].prune
      /\ c.target = run[p].target /\ c.completed = run[p].completed
  BY <1>1, RunFields DEF RunType
<1>3. PruneOK(c) /\ c.completed <= clock /\ ~Making(c)
  BY <1>2, RunFields, SameToPrune DEF Making
<1>4. run' = [run EXCEPT ![p] = c]
      /\ UNCHANGED <<rest, target, store, queue, uploads, reused, floor>>
  BY <1>1 DEF InsertRun, Step
<1>5. PICK m \in RowType : m = Row(p, TRUE)
  BY RowIsRow
<1>6. PICK n : n = [m EXCEPT !.completed = run[p].completed]
  OBVIOUS
<1>7. run[p].completed \in Time
  BY RunFields DEF RunType
<1>8. n \in RowType /\ n.id = m.id /\ n.ok = m.ok /\ n.gone = m.gone
      /\ n.target = m.target /\ n.object = m.object /\ n.completed = run[p].completed
  BY <1>6, <1>7 DEF RowType
<1>9. n.id = Cardinality(rows) + 1 /\ ~n.gone /\ Archive(n) = Archive(run[p])
  BY <1>5, <1>8, RowIsRow DEF Archive
<1>10. UNCHANGED <<clock, store, uploads, reused, floor>>
  BY <1>4 DEF rest
<1>11. rows' = rows \cup {n}
  BY <1>5, <1>6 DEF InsertRun
<1>12. Later
  BY <1>8, <1>10, <1>11, LaterInsert
<1>13. run'[p] = c /\ \A q \in Proc \ {p} : run'[q] = run[q]
  BY <1>4, TypesOfRows
<1>14. OnlyMaking({}) /\ ~Making(run'[p])
  BY <1>3, <1>13 DEF OnlyMaking
<1>15. n.completed <= clock'
  BY <1>2, <1>3, <1>8, <1>10
<1>16. Making(run[p])
  BY DEF InsertRun, Making
<1>17. Records' /\ \A r, q \in rows' : r.id = q.id => r = q
  BY <1>8, <1>9, <1>10, <1>11, <1>12, <1>14, <1>15, <1>16, InsertStep
<1>18. PruneOK(c)'
  BY <1>3, <1>12, PruneLater
<1>19. store' \subseteq Target \X Time
  BY <1>10, StateTypes
<1> QED
  BY <1>2, <1>3, <1>4, <1>12, <1>17, <1>18, <1>19, WorkStep
-----------------------------------------------------------------------------
(*                               Retention                                 *)

\* A list of runs is of recorded runs of the target, the latest first.
LEMMA ListOfRuns ==
  ASSUME Inv, NEW t \in Target, NEW list \in RunLists(t)
  PROVE  \E k \in Nat :
           /\ list \in Seq(rows) /\ Len(list) = k
           /\ \A i \in 1 .. k : list[i] \in rows /\ list[i].target = t
           /\ \A i, j \in 1 .. k : i < j =>
                list[i] # list[j] /\ list[i].started >= list[j].started
<1> DEFINE S == {r \in rows : r.target = t}
           m == Cardinality(S)
<1>1. m \in Nat
  BY TypesOfRows, FS_Subset, FS_CardinalityType
<1>2. PICK g \in [1 .. m -> S] :
        /\ list = FirstOf(g, PageSize)
        /\ \A i, j \in 1 .. m : i < j => g[i] # g[j] /\ g[i].started >= g[j].started
  BY DEF RunLists
<1> HIDE DEF m
<1>3. g \in [1 .. m -> rows] /\ \A i \in 1 .. m : g[i] \in rows /\ g[i].target = t
  OBVIOUS
<1>4. PICK k \in 0 .. m : /\ list \in Seq(rows) /\ Len(list) = k
                          /\ \A i \in 1 .. k : list[i] = g[i]
  <2>1. PageSize \in Nat
    BY ConstantsAreNat
  <2>2. /\ FirstOf(g, PageSize) \in Seq(rows) /\ Len(FirstOf(g, PageSize)) \in 0 .. m
        /\ \A i \in 1 .. Len(FirstOf(g, PageSize)) : FirstOf(g, PageSize)[i] = g[i]
    BY <1>1, <1>3, <2>1, FirstOfList
  <2> QED
    BY <1>2, <2>2
<1>5. k \in Nat /\ \A i \in 1 .. k : i \in 1 .. m
  BY <1>1
<1> QED
  BY <1>2, <1>3, <1>4, <1>5

\* A place below i that counts is of a newer run, and no two of the same.
LEMMA CountedAreNewer ==
  ASSUME Inv, NEW t \in Target, NEW list \in RunLists(t), NEW i \in DOMAIN list,
         Counts(list[i])
  PROVE  /\ SuccessIndex(list, i) \in Nat
         /\ SuccessIndex(list, i) - 1 <= Cardinality(Newer(rows, list[i]))
<1>1. PICK k \in Nat :
        /\ list \in Seq(rows) /\ Len(list) = k
        /\ \A j \in 1 .. k : list[j] \in rows /\ list[j].target = t
        /\ \A h, j \in 1 .. k : h < j =>
             list[h] # list[j] /\ list[h].started >= list[j].started
  BY ListOfRuns
<1>2. i \in 1 .. k
  BY <1>1
<1> DEFINE J == {j \in 1 .. i : Counts(list[j])}
           I == J \ {i}
           T == Newer(rows, list[i])
           f == [j \in I |-> list[j]]
<1>3. IsFiniteSet(1 .. i)
  BY <1>2, FS_Interval
<1>4. IsFiniteSet(J) /\ i \in J
  BY <1>2, <1>3, FS_Subset
<1>5. Cardinality(J) \in Nat /\ Cardinality(I) = Cardinality(J) - 1
  BY <1>4, FS_CardinalityType, FS_RemoveElement
<1>6. \A j \in I : j \in 1 .. k /\ j < i /\ Counts(list[j])
  BY <1>1, <1>2
<1>7. \A j \in I : list[j] \in T
  BY <1>1, <1>2, <1>6 DEF Newer, Counts
<1>8. \A h, j \in I : list[h] = list[j] => h = j
  <2>1. ASSUME NEW h \in I, NEW j \in I, h # j PROVE list[h] # list[j]
    <3>1. h \in 1 .. k /\ j \in 1 .. k
      BY <1>6
    <3>2. h < j \/ j < h
      BY <2>1, <3>1
    <3> QED
      BY <1>1, <3>1, <3>2
  <2> QED
    BY <2>1
<1>9. f \in Injection(I, T)
  BY <1>7, <1>8 DEF Injection, IsInjective
<1>10. IsFiniteSet(T)
  BY TypesOfRows, FS_Subset DEF Newer
<1> HIDE DEF I, T, f
<1>11. Cardinality(I) <= Cardinality(T)
  BY <1>9, <1>10, FS_Injection
<1>12. SuccessIndex(list, i) = Cardinality(J)
  BY DEF SuccessIndex
<1> HIDE DEF J
<1> QED
  BY <1>5, <1>11, <1>12 DEF T

\* What the policy of the run p prunes, it does not keep.
LEMMA PolicyGivesUp ==
  ASSUME Inv, NEW p \in Proc, NEW list \in RunLists(run[p].target),
         NEW i \in DOMAIN list, Prunable(p, list, i)
  PROVE  /\ list[i] \in rows /\ list[i].ok /\ list[i].target = run[p].target
         /\ Cardinality(Newer(rows, list[i])) >= run[p].policy.keep
         /\ list[i].completed + run[p].policy.days <= clock
<1> DEFINE r == list[i]
<1>1. run[p].target \in Target /\ run[p] \in RunType
  BY RunFields
<1>2. r \in rows /\ r.target = run[p].target
  BY <1>1, ListOfRuns
<1>3. Counts(r)
  BY DEF Prunable
<1>4. PICK keep \in Nat, days \in Nat : run[p].policy.keep = keep /\ run[p].policy.days = days
  BY <1>1 DEF RunType
<1>5. r.completed <= clock /\ r.completed \in Nat
  BY <1>2, TypesOfRows, ConstantsAreNat DEF Inv, RowsOK, RowType
<1>6. run[p].completed \in Nat /\ run[p].completed <= clock /\ clock \in Nat
  BY <1>1, RunFields, ConstantsAreNat DEF RunType
<1>7. PICK n : n = SuccessIndex(list, i)
  OBVIOUS
<1>8. PICK m : m = Cardinality(Newer(rows, r))
  OBVIOUS
<1>9. n \in Nat /\ n - 1 <= m
  BY <1>1, <1>3, <1>7, <1>8, CountedAreNewer
<1>10. m \in Nat
  BY <1>8, TypesOfRows, FS_Subset, FS_CardinalityType DEF Newer
<1>11. ~(keep > 0 /\ n <= keep) /\ ~(days > 0 /\ r.completed > run[p].completed - days)
  BY <1>4, <1>7 DEF Prunable
<1>12. m >= keep
  BY <1>4, <1>9, <1>10, <1>11
<1>13. r.completed + days <= clock
  BY <1>4, <1>5, <1>6, <1>11
<1> QED
  BY <1>2, <1>3, <1>4, <1>8, <1>12, <1>13 DEF Counts

\* The ids of what the run p prunes.
LEMMA IdsToPrune ==
  ASSUME Inv, NEW p \in Proc, NEW list \in RunLists(run[p].target),
         NEW ids \in ToPrune(p, list)
  PROVE  /\ ids \in Seq(Nat)
         /\ \A k \in DOMAIN ids : \E i \in DOMAIN list :
              Prunable(p, list, i) /\ ids[k] = list[i].id
<1> DEFINE W == Places(p, list)
           N == 1 .. Cardinality(W)
<1>1. run[p].target \in Target
  BY RunFields
<1>2. PICK n \in Nat :
        /\ list \in Seq(rows) /\ Len(list) = n
        /\ \A j \in 1 .. n : list[j] \in rows
  BY <1>1, ListOfRuns
<1>3. DOMAIN list = 1 .. n
  BY <1>2
<1>4. IsFiniteSet(DOMAIN list) /\ W \subseteq DOMAIN list
  BY <1>2, <1>3, FS_Interval DEF Places
<1>5. Cardinality(W) \in Nat
  BY <1>4, FS_Subset, FS_CardinalityType
<1>6. PICK f \in [N -> W] : ids = [k \in N |-> list[f[k]].id]
  BY DEF ToPrune
<1>7. \A i \in W : i \in DOMAIN list /\ Prunable(p, list, i) /\ list[i].id \in Nat
  BY <1>2, <1>3, TypesOfRows DEF Places, RowType
<1> HIDE DEF W
<1>8. \A k \in N : f[k] \in W /\ ids[k] = list[f[k]].id
  BY <1>6
<1>9. ids \in [N -> Nat]
  BY <1>6, <1>7
<1>10. ids \in Seq(Nat) /\ DOMAIN ids = N
  BY <1>5, <1>9
<1> QED
  BY <1>7, <1>8, <1>10

LEMMA LaterRetention ==
  ASSUME Inv, NEW p \in Proc, UNCHANGED <<clock, rows, store, uploads, reused>>,
         floor' = [floor EXCEPT ![run[p].target] =
                     [keep |-> Least(@.keep, run[p].policy.keep),
                      days |-> Least(@.days, run[p].policy.days)]]
  PROVE  /\ Later
         /\ floor'[run[p].target].keep <= run[p].policy.keep
         /\ floor'[run[p].target].days <= run[p].policy.days
<1>1. \A r \in rows : Twin(r, r)
  BY DEF Twin
<1>2. \A t \in Target : floor[t].keep \in Nat /\ floor[t].days \in Nat
  BY TypesOfRows
<1>3. PICK t \in Target : t = run[p].target
  BY RunFields
<1>4. PICK k \in Nat, d \in Nat : k = run[p].policy.keep /\ d = run[p].policy.days
  BY RunFields DEF RunType
<1>5. PICK m \in Nat, e \in Nat : m = floor[t].keep /\ e = floor[t].days
  BY <1>2
<1>6. /\ Least(m, k) \in Nat /\ Least(m, k) <= m /\ Least(m, k) <= k
      /\ Least(e, d) \in Nat /\ Least(e, d) <= e /\ Least(e, d) <= d
  BY DEF Least
<1>7. PICK v \in [keep : Nat, days : Nat] : v = [keep |-> Least(m, k), days |-> Least(e, d)]
  BY <1>6
<1>8. floor' = [floor EXCEPT ![t] = v]
  BY <1>3, <1>4, <1>5, <1>7
<1>9. floor'[t] = v /\ \A u \in Target \ {t} : floor'[u] = floor[u]
  BY <1>8, TypesOfRows
<1>10. floor' \in [Target -> [keep : Nat, days : Nat]]
  BY <1>8, TypesOfRows
<1>11. \A u \in Target : /\ floor'[u].keep <= floor[u].keep
                         /\ floor'[u].days <= floor[u].days
  BY <1>2, <1>5, <1>6, <1>7, <1>9
<1>12. Later
  BY <1>1, <1>10, <1>11, TypesOfRows, ConstantsAreNat DEF Later, Vacant
<1> QED
  BY <1>3, <1>4, <1>6, <1>7, <1>9, <1>12

LEMMA ApplyRetentionStep ==
  ASSUME Inv, NEW p \in Proc, ApplyRetention(p)
  PROVE  Inv'
<1>1. UNCHANGED <<rest, target, rows, store, queue, uploads, reused>>
  BY DEF ApplyRetention
<1>2. UNCHANGED <<clock, rows, store, uploads, reused>>
  BY <1>1 DEF rest
<1>3. CASE run[p].policy = NoPolicy
  <2>1. run' = [run EXCEPT ![p] = Idle] /\ floor' = floor
    BY <1>3 DEF ApplyRetention, Step
  <2>2. UNCHANGED <<rest, rows, store, uploads, reused, floor>>
    BY <1>1, <2>1
  <2>3. queue' \in [Proc -> Seq(Target)]
    BY <1>1, StateTypes
  <2>4. target' \in [Target -> [mode : Mode, policy : Policy, last : Time,
                                object : Time]]
    BY <1>1, StateTypes
  <2> QED
    BY <2>1, <2>2, <2>3, <2>4, IdleMayEnd, GoOn
<1>4. CASE run[p].policy # NoPolicy
  <2>1. PICK list \in RunLists(run[p].target) : \E ids \in ToPrune(p, list) : Advance(p, ids)
    BY <1>4 DEF ApplyRetention
  <2>2. PICK ids \in ToPrune(p, list) : Advance(p, ids)
    BY <2>1
  <2>3. floor' = [floor EXCEPT ![run[p].target] =
                    [keep |-> Least(@.keep, run[p].policy.keep),
                     days |-> Least(@.days, run[p].policy.days)]]
    BY <1>4 DEF ApplyRetention
  <2>4. /\ Later
        /\ floor'[run[p].target].keep <= run[p].policy.keep
        /\ floor'[run[p].target].days <= run[p].policy.days
    BY <1>2, <2>3, LaterRetention
  <2>5. ids \in Seq(Nat)
    BY IdsToPrune
  <2>6. PICK c : c = IF ids = <<>> THEN Idle
                     ELSE [run[p] EXCEPT !.at = "delete", !.prune = ids]
    OBVIOUS
  <2>7. run' = [run EXCEPT ![p] = c]
    BY <2>2, <2>6 DEF Advance, Step
  <2>8. \/ c = Idle
        \/ /\ c \in RunType /\ c.at = "delete" /\ c.prune = ids /\ ids # <<>>
           /\ c.target = run[p].target /\ c.completed = run[p].completed
    BY <2>5, <2>6, RunFields DEF RunType
  <2>9. c \in RunType /\ c.completed <= clock /\ ~Making(c)
    BY <2>8, RunFields, IdleMayEnd DEF Making
  <2>10. ASSUME NEW k \in DOMAIN ids
         PROVE  \E r \in rows : /\ r.id = ids[k] /\ r.ok /\ r.target = run[p].target
                                /\ GivenUp(r)'
    <3>1. PICK i \in DOMAIN list : Prunable(p, list, i) /\ ids[k] = list[i].id
      BY IdsToPrune
    <3>2. PICK r : r = list[i]
      OBVIOUS
    <3>3. /\ r \in rows /\ r.ok /\ r.target = run[p].target
          /\ Cardinality(Newer(rows, r)) >= run[p].policy.keep
          /\ r.completed + run[p].policy.days <= clock
      BY <3>1, <3>2, PolicyGivesUp
    <3>4. PICK keep \in Nat, days \in Nat :
            run[p].policy.keep = keep /\ run[p].policy.days = days
      BY RunFields DEF RunType
    <3>5. PICK m \in Nat, e \in Nat :
            floor'[run[p].target].keep = m /\ floor'[run[p].target].days = e
      BY <2>4, RunFields DEF Later
    <3>6. Cardinality(Newer(rows, r)) \in Nat /\ r.completed \in Nat /\ clock \in Nat
      BY <3>3, TypesOfRows, FS_Subset, FS_CardinalityType, ConstantsAreNat
      DEF Newer, RowType
    <3>7. Cardinality(Newer(rows, r)) >= m /\ r.completed + e <= clock
      BY <2>4, <3>3, <3>4, <3>5, <3>6
    <3>8. GivenUp(r)'
      BY <1>2, <3>3, <3>5, <3>7 DEF GivenUp, Newer
    <3> QED
      BY <3>1, <3>2, <3>3, <3>8
  <2>11. PruneOK(c)'
    <3>1. CASE c = Idle
      BY <2>4, <3>1, IdleMayEnd, PruneLater DEF Idle
    <3>2. CASE c # Idle
      BY <1>2, <2>8, <2>10, <3>2 DEF PruneOK
    <3> QED
      BY <3>1, <3>2
  <2>12. OnlyMaking({})
    BY <2>7, <2>9, TypesOfRows DEF OnlyMaking
  <2>13. Records'
    BY <1>2, <2>4, <2>12, QuietStep
  <2>14. store' \subseteq Target \X Time /\ \A r, q \in rows' : r.id = q.id => r = q
    BY <1>2, StateTypes, TypesOfRows
  <2> QED
    BY <1>1, <2>4, <2>7, <2>9, <2>11, <2>13, <2>14, WorkStep
<1> QED
  BY <1>3, <1>4

\* The run at the head of what p prunes is recorded, and given up.
LEMMA HeadOfPrune ==
  ASSUME Inv, NEW p \in Proc, run[p].at \in {"delete", "gone", "kept"}
  PROVE  /\ run[p].prune \in Seq(Nat) /\ run[p].prune # <<>>
         /\ Pruned(p) \in rows /\ Pruned(p).ok /\ Pruned(p).target = run[p].target
         /\ Pruned(p).id = run[p].prune[1] /\ GivenUp(Pruned(p))
         /\ run[p].at = "gone" => Vacant(Archive(Pruned(p)))
<1>1. PICK c \in RunType : c = run[p] /\ PruneOK(c)
  BY RunFields
<1>2. c.prune \in Seq(Nat) /\ c.prune # <<>>
  BY <1>1 DEF PruneOK, RunType
<1>3. 1 \in DOMAIN c.prune /\ Head(c.prune) = c.prune[1]
  BY <1>2
<1>4. PICK r \in rows : r.id = c.prune[1] /\ r.ok /\ r.target = c.target /\ GivenUp(r)
  BY <1>1, <1>3 DEF PruneOK
<1>5. Pruned(p) \in rows /\ Pruned(p).id = c.prune[1]
  BY <1>1, <1>3, <1>4 DEF Pruned
<1>6. Pruned(p) = r
  BY <1>4, <1>5, TypesOfRows
<1>7. c.at = "gone" => \E s \in rows : s.id = c.prune[1] /\ s.ok /\ Vacant(Archive(s))
  BY <1>1 DEF PruneOK
<1>8. c.at = "gone" => Vacant(Archive(r))
  BY <1>4, <1>7, TypesOfRows
<1> QED
  BY <1>1, <1>2, <1>4, <1>6, <1>8

LEMMA DeleteRemoteStep ==
  ASSUME Inv, NEW p \in Proc, DeleteRemote(p)
  PROVE  Inv'
<1>1. run[p].at = "delete" /\ UNCHANGED <<rest, target, rows, queue, uploads, reused, floor>>
  BY DEF DeleteRemote
<1>2. PICK r \in rows : /\ r = Pruned(p) /\ r.ok /\ r.target = run[p].target
                        /\ r.id = run[p].prune[1] /\ GivenUp(r)
  BY <1>1, HeadOfPrune
<1>3. <<run[p].target, Pruned(p).object>> = Archive(r)
  BY <1>2 DEF Archive
<1>4. /\ store' \subseteq store /\ store \ {Archive(r)} \subseteq store'
      /\ \/ run' = [run EXCEPT ![p] = [run[p] EXCEPT !.at = "gone"]]
            /\ Archive(r) \notin store'
         \/ run' = [run EXCEPT ![p] = [run[p] EXCEPT !.at = "kept"]]
  <2>1. CASE /\ store' = store \ {Archive(r)}
             /\ Step(p, [run[p] EXCEPT !.at = "gone"])
    BY <2>1 DEF Step
  <2>2. CASE /\ store' \in {store, store \ {Archive(r)}}
             /\ Step(p, [run[p] EXCEPT !.at = "kept"])
    BY <2>2 DEF Step
  <2> QED
    BY <1>3, <2>1, <2>2 DEF DeleteRemote
<1>5. PICK at \in {"gone", "kept"} :
        /\ run' = [run EXCEPT ![p] = [run[p] EXCEPT !.at = at]]
        /\ at = "gone" => Archive(r) \notin store'
  BY <1>4
<1>6. PICK c : c = [run[p] EXCEPT !.at = at]
  OBVIOUS
<1>7. c \in RunType /\ c.at = at /\ c.prune = run[p].prune
      /\ c.target = run[p].target /\ c.completed = run[p].completed
  BY <1>6, RunFields DEF RunType
<1>8. run' = [run EXCEPT ![p] = c]
  BY <1>5, <1>6
<1>9. UNCHANGED <<clock, rows, uploads, reused, floor>>
  BY <1>1 DEF rest
<1>10. Later
  BY <1>4, <1>9, LaterSame, StateTypes
<1>11. c.completed <= clock /\ ~Making(c)
  BY <1>5, <1>7, RunFields DEF Making
<1>12. OnlyMaking({})
  BY <1>8, <1>11, TypesOfRows DEF OnlyMaking
<1>13. Records'
  BY <1>2, <1>4, <1>9, <1>10, <1>12, RemoveStep
<1>14. PruneOK(c)'
  <2>1. PICK d : d = run[p] /\ PruneOK(d)
    BY RunFields
  <2>2. PruneOK(d)'
    BY <2>1, <1>10, PruneLater
  <2>3. c.prune = d.prune /\ c.target = d.target /\ c.prune # <<>>
    BY <1>1, <1>7, <2>1, HeadOfPrune
  <2>4. c.at = "gone" => r \in rows' /\ r.id = c.prune[1] /\ r.ok /\ Vacant(Archive(r))'
    BY <1>2, <1>5, <1>7, <1>9 DEF Vacant, Archive
  <2> QED
    BY <2>2, <2>3, <2>4 DEF PruneOK
<1>15. store' \subseteq Target \X Time /\ \A s, q \in rows' : s.id = q.id => s = q
  BY <1>4, <1>9, StateTypes, TypesOfRows
<1> QED
  BY <1>1, <1>7, <1>8, <1>10, <1>11, <1>13, <1>14, <1>15, WorkStep

\* A request without an answer may have done what an answered one does.
LEMMA WaitStep ==
  ASSUME Inv, NEW p \in Proc, Wait(p)
  PROVE  Inv'
<1>1. PICK c : c = [run[p] EXCEPT !.at = "waiting"]
  OBVIOUS
<1>2. c \in RunType /\ c.at = "waiting" /\ c.prune = run[p].prune
      /\ c.target = run[p].target /\ c.completed = run[p].completed
  BY <1>1, RunFields DEF RunType
<1>3. PruneOK(c) /\ c.completed <= clock /\ ~Making(c)
  BY <1>2, RunFields, SameToPrune DEF Making
<1>4. run' = [run EXCEPT ![p] = c] /\ UNCHANGED <<rest, target, rows, queue, floor>>
  BY <1>1 DEF Wait, Step
<1>5. UNCHANGED <<clock, rows, floor>>
  BY <1>4 DEF rest
<1>6. \A r, q \in rows' : r.id = q.id => r = q
  BY <1>5, TypesOfRows
<1>7. run'[p] = c /\ \A q \in Proc \ {p} : run'[q] = run[q]
  BY <1>4, TypesOfRows
<1>8. CASE Put(p)
  <2>1. Later
    BY <1>5, <1>8, LaterPut
  <2>2. OnlyMaking({p}) /\ ~Making(run'[p])
    BY <1>3, <1>7 DEF OnlyMaking
  <2>3. Records'
    BY <1>5, <1>8, <2>1, <2>2, PutStep
  <2>4. store' \subseteq Target \X Time
    BY <1>8, RunFields DEF Put
  <2>5. PruneOK(c)'
    BY <1>3, <2>1, PruneLater
  <2> QED
    BY <1>2, <1>3, <1>4, <1>6, <2>1, <2>3, <2>4, <2>5, WorkStep
<1>9. CASE UNCHANGED <<store, uploads, reused>>
  <2>1. UNCHANGED <<rest, rows, store, uploads, reused, floor>>
    BY <1>4, <1>9
  <2>2. queue' \in [Proc -> Seq(Target)]
    BY <1>4, StateTypes
  <2>3. target' \in [Target -> [mode : Mode, policy : Policy, last : Time,
                                object : Time]]
    BY <1>4, StateTypes
  <2> QED
    BY <1>2, <1>3, <1>4, <2>1, <2>2, <2>3, GoOn
<1>10. CASE /\ run[p].at = "delete" /\ UNCHANGED <<uploads, reused>>
            /\ store' = store \ {<<run[p].target, Pruned(p).object>>}
  <2>1. PICK r \in rows : /\ r = Pruned(p) /\ r.ok /\ r.target = run[p].target
                          /\ GivenUp(r)
    BY <1>10, HeadOfPrune
  <2>2. store' = store \ {Archive(r)}
    BY <1>10, <2>1 DEF Archive
  <2>3. Later
    BY <1>5, <1>10, <2>2, LaterSame, StateTypes
  <2>4. OnlyMaking({})
    BY <1>3, <1>7 DEF OnlyMaking
  <2>5. Records'
    BY <1>5, <1>10, <2>1, <2>2, <2>3, <2>4, RemoveStep
  <2>6. PruneOK(c)' /\ store' \subseteq Target \X Time
    BY <1>3, <2>2, <2>3, PruneLater, StateTypes
  <2> QED
    BY <1>2, <1>3, <1>4, <1>6, <2>3, <2>5, <2>6, WorkStep
<1> QED
  BY <1>8, <1>9, <1>10 DEF Wait

\* What is left to prune after the head is as good as before.
LEMMA TailToPrune ==
  ASSUME Inv, NEW p \in Proc, run[p].at \in {"gone", "kept"}, NEW c,
         c = IF Tail(run[p].prune) = <<>> THEN Idle
             ELSE [run[p] EXCEPT !.at = "delete", !.prune = Tail(run[p].prune)]
  PROVE  c \in RunType /\ c.completed <= clock /\ ~Making(c) /\ PruneOK(c)
<1>1. run[p].prune \in Seq(Nat) /\ run[p].prune # <<>>
  BY HeadOfPrune
<1>2. PICK t \in Seq(Nat) :
        /\ t = Tail(run[p].prune) /\ Len(t) = Len(run[p].prune) - 1
        /\ \A i \in 1 .. Len(t) : t[i] = run[p].prune[i + 1]
  <2>1. PICK s \in Seq(Nat) : s = run[p].prune /\ s # <<>>
    BY <1>1
  <2>2. /\ Tail(s) \in Seq(Nat) /\ Len(Tail(s)) = Len(s) - 1
        /\ \A i \in 1 .. Len(Tail(s)) : Tail(s)[i] = s[i + 1]
    BY <2>1, HeadTailProperties
  <2> QED
    BY <2>1, <2>2
<1>3. \/ c = Idle
      \/ /\ c \in RunType /\ c.at = "delete" /\ c.prune = t /\ t # <<>>
         /\ c.target = run[p].target /\ c.completed = run[p].completed
  BY <1>2, RunFields DEF RunType
<1>4. c \in RunType /\ c.completed <= clock /\ ~Making(c)
  BY <1>3, RunFields, IdleMayEnd DEF Making
<1>5. ASSUME c # Idle PROVE PruneOK(c)
  <2>1. \A i \in DOMAIN t : i + 1 \in DOMAIN run[p].prune /\ t[i] = run[p].prune[i + 1]
    BY <1>1, <1>2
  <2>2. \A j \in DOMAIN run[p].prune : \E r \in rows :
          r.id = run[p].prune[j] /\ r.ok /\ r.target = run[p].target /\ GivenUp(r)
    BY RunFields DEF PruneOK
  <2>3. \A i \in DOMAIN t : \E r \in rows :
          r.id = t[i] /\ r.ok /\ r.target = run[p].target /\ GivenUp(r)
    BY <2>1, <2>2
  <2>4. c.at = "delete" /\ c.prune = t /\ t # <<>> /\ c.target = run[p].target
    BY <1>3, <1>5
  <2>5. \A i \in DOMAIN c.prune : \E r \in rows :
          r.id = c.prune[i] /\ r.ok /\ r.target = c.target /\ GivenUp(r)
    <3>1. c.prune = t /\ c.target = run[p].target
      BY <2>4
    <3>2. DOMAIN c.prune = DOMAIN t
      BY <3>1
    <3> SUFFICES ASSUME NEW i \in DOMAIN c.prune
                 PROVE  \E r \in rows : /\ r.id = c.prune[i] /\ r.ok
                                        /\ r.target = c.target /\ GivenUp(r)
      OBVIOUS
    <3>3. PICK r \in rows : r.id = t[i] /\ r.ok /\ r.target = run[p].target /\ GivenUp(r)
      BY <2>3, <3>2
    <3>4. r.id = c.prune[i] /\ r.target = c.target
      BY <3>1, <3>3
    <3> QED
      BY <3>3, <3>4
  <2>6. c.prune # <<>> /\ c.at # "gone"
    BY <2>4
  <2> QED
    BY <2>5, <2>6 DEF PruneOK
<1> QED
  BY <1>4, <1>5, IdleMayEnd

LEMMA MarkDeletedStep ==
  ASSUME Inv, NEW p \in Proc, MarkDeleted(p)
  PROVE  Inv'
<1>1. /\ run[p].at \in {"gone", "kept"}
      /\ UNCHANGED <<rest, target, store, queue, uploads, reused, floor>>
  BY DEF MarkDeleted
<1>2. PICK c : c = IF Tail(run[p].prune) = <<>> THEN Idle
                   ELSE [run[p] EXCEPT !.at = "delete", !.prune = Tail(run[p].prune)]
  OBVIOUS
<1>3. run' = [run EXCEPT ![p] = c]
  BY <1>2 DEF MarkDeleted, Advance, Step
<1>4. c \in RunType /\ c.completed <= clock /\ ~Making(c) /\ PruneOK(c)
  BY <1>1, <1>2, TailToPrune
<1>5. CASE UNCHANGED rows
  <2>1. UNCHANGED <<rest, rows, store, uploads, reused, floor>>
    BY <1>1, <1>5
  <2>2. queue' \in [Proc -> Seq(Target)]
    BY <1>1, StateTypes
  <2>3. target' \in [Target -> [mode : Mode, policy : Policy, last : Time,
                                object : Time]]
    BY <1>1, StateTypes
  <2> QED
    BY <1>3, <1>4, <2>1, <2>2, <2>3, GoOn
<1>6. CASE rows' = (rows \ {Pruned(p)}) \cup {[Pruned(p) EXCEPT !.gone = Deleted(p)]}
  <2>1. PICK r \in rows : /\ r = Pruned(p) /\ r.ok
                          /\ run[p].at = "gone" => Vacant(Archive(r))
    BY <1>1, HeadOfPrune
  <2>2. PICK b \in BOOLEAN : b = Deleted(p)
    BY DEF Deleted
  <2>3. b => Vacant(Archive(r))
    BY <2>1, <2>2 DEF Deleted
  <2>4. PICK n : n = [r EXCEPT !.gone = b]
    OBVIOUS
  <2>5. r \in RowType
    BY TypesOfRows
  <2>6. n \in RowType /\ Twin(r, n)
    BY <2>4, <2>5 DEF RowType, Twin
  <2>7. rows' = (rows \ {r}) \cup {n}
    BY <1>6, <2>1, <2>2, <2>4
  <2>8. UNCHANGED <<clock, store, uploads, reused, floor>>
    BY <1>1 DEF rest
  <2>9. Later
    BY <2>6, <2>7, <2>8, LaterMark
  <2>10. OnlyMaking({})
    BY <1>3, <1>4, TypesOfRows DEF OnlyMaking
  <2>11. Records' /\ \A s, q \in rows' : s.id = q.id => s = q
    BY <2>1, <2>3, <2>4, <2>7, <2>8, <2>9, <2>10, MarkStep
  <2>12. PruneOK(c)'
    BY <1>4, <2>9, PruneLater
  <2>13. store' \subseteq Target \X Time
    BY <2>8, StateTypes
  <2> QED
    BY <1>1, <1>3, <1>4, <2>9, <2>11, <2>12, <2>13, WorkStep
<1> QED
  BY <1>5, <1>6 DEF MarkDeleted

-----------------------------------------------------------------------------
(*                               Theorems                                  *)

LEMMA InitInv == Init => Inv
<1> SUFFICES ASSUME Init PROVE Inv
  OBVIOUS
<1>1. <<>> \in Seq(Target) /\ None \in Time /\ MaxRows \in Nat /\ MaxTime \in Nat
  BY ConstantsAreNat DEF None
<1>2. IsFiniteSet(rows)
  BY FS_EmptySet DEF Init
<1>3. NoEdit \in [target : SUBSET Target, last : Time, object : Time]
  BY <1>1 DEF NoEdit
<1>4. target \in [Target -> [mode : Mode, policy : Policy, last : Time, object : Time]]
  BY <1>1, NumberAssumption DEF Init
<1>5. run \in [Proc -> RunType] /\ queue \in [Proc -> Seq(Target)]
      /\ floor \in [Target -> [keep : Nat, days : Nat]]
  BY <1>1, IdleIsRun DEF Init
<1>6. Types
  BY <1>2, <1>3, <1>4, <1>5, ConstantsAreNat DEF Init, Types
<1>7. \A p \in Proc : run[p] = Idle /\ ~Making(run[p]) /\ PruneOK(run[p])
                      /\ run[p].completed <= clock
  <2>1. PruneOK(Idle) /\ ~Making(Idle) /\ Idle.completed <= 1
    BY IdleIsRun, NothingToPrune DEF Making
  <2> QED
    BY <2>1 DEF Init
<1> QED
  BY <1>6, <1>7 DEF Init, Inv, RowsOK, RunsOK, UploadsOK, OwnersOK, KeptOK, GoneOK

LEMMA NextInv == ASSUME Inv, [Next]_vars PROVE Inv'
<1>1. CASE UNCHANGED vars
  <2>1. UNCHANGED <<rest, target, rows, store, run, queue, upsets, uploads,
                    reused, floor>>
    BY <1>1 DEF vars
  <2> QED
    BY <2>1, StateTypes, QueueStep
<1>2. CASE Tick
  BY <1>2, TickStep
<1>3. ASSUME NEW t \in Target, ReadForSave(t) \/ WriteSave(t) PROVE Inv'
  BY <1>3, SaveStep
<1>4. ASSUME NEW h \in Handler, NEW t \in Target, RunTarget(h, t) PROVE Inv'
  BY <1>4, RunTargetStep
<1>5. ASSUME NEW s \in Sweeper, RunDueTargets(s) \/ NextTarget(s) PROVE Inv'
  BY <1>5, SweepStep
<1>6. ASSUME NEW p \in Proc, RunStep(p) \/ Die(p) PROVE Inv'
  BY <1>6, UploadStep, ExportFailsStep, UploadFailsStep, FinishFailureStep, RecordStep,
     InsertRunStep, EndStep, ApplyRetentionStep, DeleteRemoteStep, WaitStep,
     MarkDeletedStep
  DEF RunStep
<1> QED
  BY <1>1, <1>2, <1>3, <1>4, <1>5, <1>6 DEF Next

\* The invariant holds throughout, for any number of targets, servers and
\* handlers, and any policies.
THEOREM Invariant == Spec => []Inv
<1>1. Inv /\ [Next]_vars => Inv'
  BY NextInv
<1> QED
  BY InitInv, <1>1, PTL DEF Spec

\* The state is of its types: rows of backup_runs have ids of their own, and a
\* run of RunTargetWithTrigger is at one of its stages.
THEOREM TypeIsOK == Spec => []TypeOK
<1>1. Inv => TypeOK
  <2> SUFFICES ASSUME Inv PROVE TypeOK
    OBVIOUS
  <2>1. \A p \in Proc : /\ run[p] \in RunType /\ queue[p] \in Seq(Target)
    BY DEF Inv, Types
  <2> QED
    BY <2>1 DEF Inv, Types, TypeOK, RowType, RunType
<1> QED
  BY <1>1, Invariant, PTL

\* KeptBackupsExist: an archive that ListPrunableBackupRuns and applyRetention
\* give up has as many later successful runs, and as many days behind it, as
\* the least that any policy applied to its target kept.
THEOREM BackupsAreKept == Spec => []KeptBackupsExist
<1>1. Inv => KeptBackupsExist
  <2> SUFFICES ASSUME Inv, NEW t \in Target, NEW r \in Successes(t), ~Stored(r)
               PROVE  /\ Cardinality({q \in Successes(t) \ {r} : q.started >= r.started})
                           >= floor[t].keep
                      /\ r.completed + floor[t].days <= clock
    BY DEF KeptBackupsExist
  <2>1. r \in rows /\ r.target = t /\ r.ok
    BY DEF Successes
  <2>2. Archive(r) \notin store \cup reused
    BY DEF Archive, Stored
  <2>3. GivenUp(r)
    BY <2>1, <2>2 DEF Inv, KeptOK
  <2>4. Newer(rows, r) = {q \in Successes(t) \ {r} : q.started >= r.started}
    BY <2>1 DEF Newer, Successes
  <2> QED
    BY <2>1, <2>3, <2>4 DEF GivenUp
<1> QED
  BY <1>1, Invariant, PTL

\* GoneIsGone: a run that UpdateBackupRunRemoteDelete shows as deleted has no
\* archive in its store, although requests fail after they were carried out
\* and two goroutines may prune one run.
THEOREM DeletedIsGone == Spec => []GoneIsGone
<1>1. Inv => GoneIsGone
  BY DEF Inv, GoneOK, GoneIsGone, Vacant, Archive
<1> QED
  BY <1>1, Invariant, PTL

=============================================================================
