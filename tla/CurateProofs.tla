---------------------------- MODULE CurateProofs ----------------------------
(***************************************************************************)
(* Proofs about Curate, for every finite set of rows and of tasks, every   *)
(* trip_id and event date of the rows, and every choice of faults.         *)
(***************************************************************************)
EXTENDS Curate, SumLemmas

(***************************************************************************)
(* Part 1: equal counts.  A task that inserted its copies finds more than  *)
(* them only if it counts more; the sums add nothing to that.              *)
(***************************************************************************)
LEMMA CopiesFinite == IsFiniteSet(CuratedCopies)
<1> DEFINE f == [p \in RawCopies \X CurateTasks |-> [src |-> p[1], task |-> p[2]]]
<1>1. IsFiniteSet(RawCopies \X CurateTasks)
  BY FS_Product, CurateAssumption
<1>2. f \in Surjection(RawCopies \X CurateTasks, CuratedCopies)
  <2>1. f \in [RawCopies \X CurateTasks -> CuratedCopies]
    BY DEF CuratedCopies
  <2>2. ASSUME NEW k \in CuratedCopies
        PROVE  \E p \in RawCopies \X CurateTasks : f[p] = k
    <3>1. k = [src |-> k.src, task |-> k.task]
          /\ k.src \in RawCopies /\ k.task \in CurateTasks
      BY DEF CuratedCopies
    <3>2. <<k.src, k.task>> \in RawCopies \X CurateTasks
          /\ f[<<k.src, k.task>>] = k
      BY <3>1
    <3> QED BY <3>2
  <2> QED BY <2>1, <2>2 DEF Surjection
<1> QED BY <1>1, <1>2, FS_Surjection

LEMMA CopiesCounted ==
    ASSUME NEW R \in SUBSET RawCopies, NEW c \in CurateTasks
    PROVE  Cardinality(CuratedOf(c, R)) = Cardinality(R)
<1> DEFINE f == [r \in R |-> [src |-> r, task |-> c]]
<1>1. IsFiniteSet(R)
  BY FS_Subset, CurateAssumption
<1>2. f \in Bijection(R, CuratedOf(c, R))
  <2>1. f \in [R -> CuratedOf(c, R)]
    BY DEF CuratedOf
  <2>2. \A a, b \in R : f[a] = f[b] => a = b
    OBVIOUS
  <2>3. \A k \in CuratedOf(c, R) : \E r \in R : f[r] = k
    BY DEF CuratedOf
  <2> QED BY <2>1, <2>2, <2>3 DEF Bijection, Injection, Surjection, IsInjective
<1> QED BY <1>1, <1>2, FS_Bijection DEF ExistsBijection

LEMMA CountTells ==
    ASSUME NEW R \in SUBSET RawCopies, NEW c \in CurateTasks,
           NEW K \in SUBSET CuratedCopies, CuratedOf(c, R) \subseteq K,
           Cardinality(K) = Cardinality(R)
    PROVE  K = CuratedOf(c, R)
BY CopiesFinite, CopiesCounted, FS_Subset

-----------------------------------------------------------------------------
(***************************************************************************)
(* Part 2: the inductive invariant.                                        *)
(***************************************************************************)
Values == {Cardinality(R) : R \in SUBSET RawCopies}
            \cup {Cardinality(K) : K \in SUBSET CuratedCopies}
            \cup {RawSum(R) : R \in SUBSET RawCopies}
            \cup {CuratedSum(K) : K \in SUBSET CuratedCopies}
            \cup {0}
Records == [rawCount : Values, rawSum : Values, count : Values, sum : Values]
StoredManifests == [task : CurateTasks, rowCount : Values, checksum : Values,
                    success : BOOLEAN]

\* A statement has rows of its date only.
OfDate(R, d) == \A r \in R : RawDate[r] = d

\* A task that has started has a date, and reads rows of that date.
Dated(c) == /\ cpc[c] # "off" => runDate[c] \in Dates
            /\ cpc[c] = "off" => reading[c] = {}
            /\ OfDate(reading[c], runDate[c])

CTypes ==
    /\ raw \subseteq RawCopies
    /\ curated \subseteq CuratedCopies
    /\ curateInflight \subseteq CurateStatements
    /\ \A s \in curateInflight : OfDate(s.rows, s.date)
    /\ curateManifest \in [Dates -> StoredManifests \cup {None}]
    /\ cpc \in [CurateTasks -> CuratePCs]
    /\ runDate \in [CurateTasks -> Dates \cup {None}]
    /\ reading \in [CurateTasks -> SUBSET RawCopies]
    /\ rec \in [CurateTasks -> Records]
    /\ lastCurator \in [Dates -> CurateTasks \cup {None}]
    /\ steady \subseteq CurateTasks
    /\ \A c \in CurateTasks : Dated(c)

AfterCount == {"rawsum", "delete", "select", "insert", "count", "sum", "manifest"}

\* What a task has counted in its curated date, as long as nobody else writes.
CountOK(c) == \A d \in Dates :
    d = runDate[c] /\ lastCurator[d] = c /\ cpc[c] \in {"sum", "manifest"}
        => rec[c].count = Cardinality(CuratedRows(d))

\* What a task knows of its date d, as long as the raw rows are the ones it
\* found, and the curated ones those it left.
RawKnown(c) == \A d \in Dates : c \in steady /\ d = runDate[c] =>
    /\ cpc[c] \in AfterCount => rec[c].rawCount = Cardinality(RawRows(d))
    /\ cpc[c] \in AfterCount \ {"rawsum"} => rec[c].rawSum = RawSum(RawRows(d))
    /\ cpc[c] = "insert" => reading[c] = RawRows(d)
    /\ lastCurator[d] = c =>
        /\ cpc[c] \in {"count", "sum", "manifest"} =>
              CuratedOf(c, RawRows(d)) \subseteq CuratedRows(d)
        /\ cpc[c] \in {"sum", "manifest"} =>
              rec[c].count = Cardinality(CuratedRows(d))
        /\ cpc[c] = "ok" => CuratedRows(d) = CuratedOf(c, RawRows(d))

TaskOK(c) == CountOK(c) /\ RawKnown(c)

\* A manifest is written as the last thing, and by then no statement of its
\* task is on its way if it says success.
ManifestOK(d) == LET m == curateManifest[d] IN m # None =>
    /\ cpc[m.task] \in CurateExits /\ runDate[m.task] = d
    /\ m.success => \A s \in curateInflight : s.task # m.task
    /\ m.success /\ lastCurator[d] = m.task =>
           m.rowCount = Cardinality(CuratedRows(d))
    /\ m.success /\ lastCurator[d] = m.task /\ m.task \in steady =>
        /\ CuratedRows(d) = CuratedOf(m.task, RawRows(d))
        /\ m.rowCount = Cardinality(RawRows(d))
        /\ m.checksum = RawSum(RawRows(d))

InflightOK == \A s \in curateInflight :
    cpc[s.task] \in {"failed", "error", "crashed"}

CInv == /\ CTypes
        /\ InflightOK
        /\ \A c \in CurateTasks : TaskOK(c)
        /\ \A d \in Dates : ManifestOK(d)

-----------------------------------------------------------------------------
(***************************************************************************)
(* Part 3: what a step leaves as it is for the tasks that do not take it.  *)
(***************************************************************************)
RawKept(e) == e \in steady' => /\ e \in steady
                               /\ \A d \in Dates : d = runDate[e] =>
                                     RawRows(d)' = RawRows(d)
CuratedKept(e) == \A d \in Dates : lastCurator'[d] = e =>
    lastCurator[d] = e /\ CuratedRows(d)' = CuratedRows(d)

LocalsKept(e) == /\ cpc'[e] = cpc[e] /\ runDate'[e] = runDate[e]
                 /\ reading'[e] = reading[e] /\ rec'[e] = rec[e]

LEMMA OtherTask ==
    ASSUME NEW e \in CurateTasks, TaskOK(e), LocalsKept(e), RawKept(e),
           CuratedKept(e)
    PROVE  TaskOK(e)'
BY DEF TaskOK, CountOK, RawKnown, LocalsKept, RawKept, CuratedKept

LEMMA SameManifest ==
    ASSUME NEW d \in Dates, ManifestOK(d), curateManifest'[d] = curateManifest[d],
           NEW m, m = curateManifest[d],
           m # None => /\ m.task \in CurateTasks
                       /\ LocalsKept(m.task) /\ RawKept(m.task)
                       /\ m.success => CuratedKept(m.task)
                       /\ \A s \in curateInflight' :
                              s \in curateInflight \/ s.task # m.task
    PROVE  ManifestOK(d)'
<1>1. CASE m = None
  BY <1>1 DEF ManifestOK
<1>2. CASE m # None
  <2>1. cpc'[m.task] \in CurateExits /\ runDate'[m.task] = d
    BY <1>2 DEF ManifestOK, LocalsKept
  <2>2. m.success => \A s \in curateInflight' : s.task # m.task
    BY <1>2 DEF ManifestOK
  <2>3. m.success /\ lastCurator'[d] = m.task /\ m.task \in steady'
          => /\ CuratedRows(d)' = CuratedRows(d)
             /\ RawRows(d)' = RawRows(d)
             /\ lastCurator[d] = m.task /\ m.task \in steady
    BY <1>2, <2>1 DEF ManifestOK, RawKept, CuratedKept
  <2>5. m.success /\ lastCurator'[d] = m.task
          => m.rowCount = Cardinality(CuratedRows(d)')
    BY <1>2 DEF ManifestOK, CuratedKept
  <2>4. m.success /\ lastCurator'[d] = m.task /\ m.task \in steady'
          => /\ CuratedRows(d)' = CuratedOf(m.task, RawRows(d)')
             /\ m.rowCount = Cardinality(RawRows(d)')
             /\ m.checksum = RawSum(RawRows(d)')
    BY <1>2, <2>3 DEF ManifestOK
  <2> QED BY <2>1, <2>2, <2>4, <2>5 DEF ManifestOK
<1> QED BY <1>1, <1>2

\* The step of one task, as the others see it.
LEMMA OthersKept ==
    ASSUME CInv, NEW c \in CurateTasks, cpc[c] \notin CurateExits,
           \A e \in CurateTasks : e # c =>
               LocalsKept(e) /\ RawKept(e) /\ CuratedKept(e),
           \A s \in curateInflight' : s \in curateInflight \/ s.task = c
    PROVE  /\ \A e \in CurateTasks : e # c => TaskOK(e)'
           /\ \A d \in Dates : curateManifest'[d] = curateManifest[d]
                                => ManifestOK(d)'
<1>1. \A e \in CurateTasks : e # c => TaskOK(e)'
  BY OtherTask DEF CInv
<1>2. ASSUME NEW d \in Dates, curateManifest'[d] = curateManifest[d]
      PROVE  ManifestOK(d)'
  <2> DEFINE m == curateManifest[d]
  <2>1. m # None => m.task \in CurateTasks /\ m.task # c
    BY DEF CInv, CTypes, ManifestOK, StoredManifests
  <2>2. ManifestOK(d)
    BY DEF CInv
  <2> QED BY <1>2, <2>1, <2>2, SameManifest
<1> QED BY <1>1, <1>2

\* A statement of one task does not look like the work of another.
LEMMA EffectKept ==
    ASSUME CTypes, NEW s \in CurateStatements, OfDate(s.rows, s.date),
           CurateEffect(s), NEW e \in CurateTasks, e # s.task
    PROVE  CuratedKept(e)
<1> SUFFICES ASSUME NEW d \in Dates, lastCurator'[d] = e
             PROVE  lastCurator[d] = e /\ CuratedRows(d)' = CuratedRows(d)
  BY DEF CuratedKept
<1>1. s.date \in Dates /\ s.task \in CurateTasks /\ s.rows \subseteq RawCopies
  BY DEF CurateStatements
<1>2. d # s.date /\ lastCurator[d] = e
  BY <1>1 DEF CurateEffect, CTypes
<1>3. CASE s.kind = "delete"
  BY <1>2, <1>3 DEF CurateEffect, CuratedRows
<1>4. CASE s.kind # "delete"
  <2>1. curated' = curated \cup CuratedOf(s.task, s.rows)
    BY <1>4 DEF CurateEffect
  <2>2. \A k \in CuratedOf(s.task, s.rows) : RawDate[k.src] = s.date
    BY DEF CuratedOf, OfDate
  <2> QED BY <1>2, <2>1, <2>2 DEF CuratedRows
<1> QED BY <1>2, <1>3, <1>4

\* A statement leaves the types of the table.
LEMMA EffectTypes ==
    ASSUME CTypes, NEW s \in CurateStatements, CurateEffect(s)
    PROVE  /\ curated' \subseteq CuratedCopies
           /\ lastCurator' \in [Dates -> CurateTasks \cup {None}]
<1>1. s.date \in Dates /\ s.task \in CurateTasks /\ s.rows \subseteq RawCopies
  BY DEF CurateStatements
<1>2. CuratedOf(s.task, s.rows) \subseteq CuratedCopies
  BY <1>1 DEF CuratedOf, CuratedCopies
<1> QED BY <1>1, <1>2 DEF CurateEffect, CTypes, CuratedRows

-----------------------------------------------------------------------------
(***************************************************************************)
(* Part 4: each step keeps the invariant.                                  *)
(***************************************************************************)
LEMMA RawKeeps ==
    ASSUME CInv, NEW R \in SUBSET RawCopies, RawChanges(R)
    PROVE  CInv'
<1>1. /\ raw' = R /\ UNCHANGED <<curated, curateInflight, lastCurator,
                                 curateManifest, cpc, runDate, reading, rec>>
      /\ steady' = {c \in steady : \A r \in (raw \cup raw') \ (raw \cap raw') :
                                     RawDate[r] # runDate[c]}
  BY DEF RawChanges, RawStep, curateTable, curateLocals
<1>2. CTypes'
  BY <1>1 DEF CInv, CTypes, Dated
<1>3. \A e \in CurateTasks : LocalsKept(e) /\ CuratedKept(e)
  BY <1>1 DEF LocalsKept, CuratedKept, CuratedRows
<1>4. \A e \in CurateTasks : RawKept(e)
  BY <1>1 DEF RawKept, RawRows
<1>5. \A e \in CurateTasks : TaskOK(e)'
  BY <1>3, <1>4, OtherTask DEF CInv
<1>6. ASSUME NEW d \in Dates PROVE ManifestOK(d)'
  <2> DEFINE m == curateManifest[d]
  <2>1. m # None => m.task \in CurateTasks
    BY DEF CInv, CTypes, StoredManifests
  <2>2. ManifestOK(d) /\ curateManifest'[d] = m /\ curateInflight' = curateInflight
    BY <1>1 DEF CInv
  <2> QED BY <1>3, <1>4, <2>1, <2>2, SameManifest
<1>7. InflightOK'
  BY <1>1 DEF CInv, InflightOK
<1> QED BY <1>2, <1>5, <1>6, <1>7 DEF CInv

\* A statement comes late: its task has ended, or is about to, without success.
LEMMA LateKeeps ==
    ASSUME CInv, NEW s \in curateInflight, CurateAthenaEnds(s)
    PROVE  CInv'
<1>1. /\ curateInflight' = curateInflight \ {s}
      /\ UNCHANGED <<raw, curateManifest, cpc, runDate, reading, rec, steady>>
      /\ CurateEffect(s) \/ UNCHANGED <<curated, lastCurator>>
  BY DEF CurateAthenaEnds, curateLocals
<1>2. /\ s \in CurateStatements /\ s.task \in CurateTasks
      /\ OfDate(s.rows, s.date)
      /\ cpc[s.task] \in {"failed", "error", "crashed"}
  BY DEF CInv, CTypes, InflightOK, CurateStatements
<1>3. CTypes'
  BY <1>1, <1>2, EffectTypes DEF CInv, CTypes, Dated
<1>4. \A e \in CurateTasks : LocalsKept(e) /\ RawKept(e)
  BY <1>1 DEF LocalsKept, RawKept, RawRows
<1>5. \A e \in CurateTasks : e # s.task => CuratedKept(e)
  <2>1. CASE CurateEffect(s)
    BY <1>2, <2>1, EffectKept DEF CInv
  <2>2. CASE UNCHANGED <<curated, lastCurator>>
    BY <2>2 DEF CuratedKept, CuratedRows
  <2> QED BY <1>1, <2>1, <2>2
<1>6. ASSUME NEW e \in CurateTasks PROVE TaskOK(e)'
  <2>1. CASE e # s.task
    BY <1>4, <1>5, <2>1, OtherTask DEF CInv
  <2>2. CASE e = s.task
    <3>1. cpc'[e] \in {"failed", "error", "crashed"}
      BY <1>1, <1>2, <2>2
    <3> QED BY <3>1 DEF TaskOK, CountOK, RawKnown, AfterCount
  <2> QED BY <2>1, <2>2
<1>7. ASSUME NEW d \in Dates PROVE ManifestOK(d)'
  <2> DEFINE m == curateManifest[d]
  <2>1. m # None => m.task \in CurateTasks
    BY DEF CInv, CTypes, StoredManifests
  <2>2. ManifestOK(d) /\ curateManifest'[d] = m
    BY <1>1 DEF CInv
  <2>3. m # None /\ m.success => s.task # m.task
    BY <2>2 DEF ManifestOK
  <2> QED BY <1>1, <1>4, <1>5, <2>1, <2>2, <2>3, SameManifest
<1>8. InflightOK'
  BY <1>1 DEF CInv, InflightOK
<1> QED BY <1>3, <1>6, <1>7, <1>8 DEF CInv

LocalTypes ==
    /\ cpc \in [CurateTasks -> CuratePCs]
    /\ runDate \in [CurateTasks -> Dates \cup {None}]
    /\ reading \in [CurateTasks -> SUBSET RawCopies]
    /\ rec \in [CurateTasks -> Records]
    /\ \A c \in CurateTasks : Dated(c)

TableTypes ==
    /\ raw \subseteq RawCopies
    /\ curated \subseteq CuratedCopies
    /\ curateInflight \subseteq CurateStatements
    /\ \A s \in curateInflight : OfDate(s.rows, s.date)
    /\ curateManifest \in [Dates -> StoredManifests \cup {None}]
    /\ lastCurator \in [Dates -> CurateTasks \cup {None}]
    /\ steady \subseteq CurateTasks

LEMMA TypeParts == /\ CTypes <=> TableTypes /\ LocalTypes
                   /\ CTypes' <=> TableTypes' /\ LocalTypes'
BY DEF CTypes, TableTypes, LocalTypes

LEMMA ExitTypes ==
    ASSUME CTypes, NEW c \in CurateTasks, NEW from, from # "off", NEW exit,
           exit \in CurateExits, CurateExit(c, from, exit)
    PROVE  /\ LocalTypes' /\ cpc'[c] = exit /\ cpc[c] = from
           /\ runDate' = runDate
           /\ \A e \in CurateTasks : e # c => LocalsKept(e)
<1>1. /\ cpc' = [cpc EXCEPT ![c] = exit] /\ cpc[c] = from
      /\ reading' = [reading EXCEPT ![c] = {}]
      /\ rec' = [rec EXCEPT ![c] = NoCounts] /\ runDate' = runDate
  BY DEF CurateExit, CurateStep
<1>2. NoCounts \in Records
  BY DEF NoCounts, Records, Values
<1>3. exit \in CuratePCs
  BY DEF CuratePCs
<1>4. /\ cpc' \in [CurateTasks -> CuratePCs]
      /\ reading' \in [CurateTasks -> SUBSET RawCopies]
      /\ rec' \in [CurateTasks -> Records]
      /\ runDate' \in [CurateTasks -> Dates \cup {None}]
  BY <1>1, <1>2, <1>3 DEF CTypes
<1>5. \A e \in CurateTasks : Dated(e)'
  BY <1>1 DEF CTypes, Dated, OfDate, CurateExits
<1>6. LocalTypes'
  BY <1>4, <1>5 DEF LocalTypes
<1>7. cpc'[c] = exit /\ \A e \in CurateTasks : e # c => LocalsKept(e)
  BY <1>1 DEF LocalsKept, CTypes
<1> QED BY <1>1, <1>6, <1>7

\* The step of one task, put together from its parts.
LEMMA TaskTogether ==
    ASSUME CInv, NEW c \in CurateTasks, cpc[c] \notin CurateExits,
           TableTypes', LocalTypes', InflightOK', TaskOK(c)',
           \A e \in CurateTasks : e # c =>
               LocalsKept(e) /\ RawKept(e) /\ CuratedKept(e),
           \A s \in curateInflight' : s \in curateInflight \/ s.task = c,
           \A d \in Dates : curateManifest'[d] # curateManifest[d]
                            => ManifestOK(d)'
    PROVE  CInv'
<1>1. /\ \A e \in CurateTasks : e # c => TaskOK(e)'
      /\ \A d \in Dates : curateManifest'[d] = curateManifest[d] => ManifestOK(d)'
  BY OthersKept
<1> QED BY <1>1, TypeParts DEF CInv

\* A step that changes nothing but the task itself.
LEMMA LocalStep ==
    ASSUME CInv, NEW c \in CurateTasks, cpc[c] \notin CurateExits, LocalTypes',
           UNCHANGED <<raw, curateTable, curateManifest>>,
           steady' \subseteq steady \cup {c},
           \A e \in CurateTasks : e # c => LocalsKept(e),
           cpc[c] \notin {"failed"} \/ cpc'[c] = "error",
           TaskOK(c)'
    PROVE  CInv'
<1>1. UNCHANGED <<raw, curated, curateInflight, lastCurator, curateManifest>>
  BY DEF curateTable
<1>2. TableTypes'
  BY <1>1 DEF CInv, CTypes, TableTypes
<1>3. \A e \in CurateTasks : e # c => RawKept(e) /\ CuratedKept(e)
  BY <1>1 DEF RawKept, CuratedKept, RawRows, CuratedRows
<1>4. InflightOK'
  <2> SUFFICES ASSUME NEW s \in curateInflight
               PROVE  cpc'[s.task] \in {"failed", "error", "crashed"}
    BY <1>1 DEF InflightOK
  <2>1. s.task \in CurateTasks /\ cpc[s.task] \in {"failed", "error", "crashed"}
    BY DEF CInv, CTypes, InflightOK, CurateStatements
  <2> QED BY <2>1 DEF LocalsKept, CurateExits
<1> QED BY <1>1, <1>2, <1>3, <1>4, TaskTogether

LEMMA StartKeeps ==
    ASSUME CInv, NEW c \in CurateTasks, NEW d \in Dates, StartCurate(c, d)
    PROVE  CInv'
<1>1. /\ cpc[c] = "off" /\ cpc' = [cpc EXCEPT ![c] = "rawcount"]
      /\ runDate' = [runDate EXCEPT ![c] = d]
      /\ UNCHANGED <<reading, rec, steady>>
      /\ UNCHANGED <<raw, curateTable, curateManifest>>
  BY DEF StartCurate, CurateStep
<1>2. "rawcount" \in CuratePCs \ {"off"} /\ cpc[c] \notin CurateExits
      /\ cpc[c] # "failed"
  BY <1>1 DEF CuratePCs, CurateExits
<1>3. /\ cpc' \in [CurateTasks -> CuratePCs]
      /\ runDate' \in [CurateTasks -> Dates \cup {None}]
      /\ reading' \in [CurateTasks -> SUBSET RawCopies]
      /\ rec' \in [CurateTasks -> Records]
  BY <1>1, <1>2 DEF CInv, CTypes
<1>4. \A e \in CurateTasks : Dated(e)'
  BY <1>1 DEF CInv, CTypes, Dated, OfDate
<1>5. cpc'[c] = "rawcount" /\ \A e \in CurateTasks : e # c => LocalsKept(e)
  BY <1>1 DEF CInv, CTypes, LocalsKept
<1>6. TaskOK(c)'
  BY <1>5 DEF TaskOK, CountOK, RawKnown, AfterCount
<1>7. LocalTypes'
  BY <1>3, <1>4 DEF LocalTypes
<1> QED BY <1>1, <1>2, <1>5, <1>6, <1>7, LocalStep

\* One of the four queries: it answers, or the task ends.
Answered(c, to, field, value) ==
    /\ cpc'[c] = to
    /\ UNCHANGED <<runDate, reading>>
    /\ rec'[c] = [rec[c] EXCEPT ![field] = value]

LEMMA QueryLocals ==
    ASSUME CInv, NEW c \in CurateTasks,
           NEW from, from # "off",
           NEW to \in CuratePCs \ {"off"},
           NEW field \in {"rawCount", "rawSum", "count", "sum"},
           NEW value \in Values, Query(c, from, to, field, value)
    PROVE  /\ LocalTypes' /\ cpc[c] = from /\ runDate' = runDate
           /\ \A e \in CurateTasks : e # c => LocalsKept(e)
           /\ Answered(c, to, field, value) \/ cpc'[c] = "error"
           /\ UNCHANGED <<raw, curateTable, curateManifest>>
<1>1. UNCHANGED <<raw, curateTable, curateManifest>>
  BY DEF Query
<1>2. CASE CurateExit(c, from, "error")
  <2>1. CTypes /\ "error" \in CurateExits
    BY DEF CInv, CurateExits
  <2> QED BY <1>1, <1>2, <2>1, ExitTypes
<1>3. CASE /\ CurateStep(c, from, to)
           /\ rec' = [rec EXCEPT ![c][field] = value]
           /\ UNCHANGED <<runDate, reading>>
  <2>1. cpc[c] = from /\ cpc' = [cpc EXCEPT ![c] = to]
    BY <1>3 DEF CurateStep
  <2>2. rec' = [rec EXCEPT ![c] = [rec[c] EXCEPT ![field] = value]]
    BY <1>3
  <2>3. [rec[c] EXCEPT ![field] = value] \in Records
    <3>1. rec[c] \in Records
      BY DEF CInv, CTypes
    <3> QED BY <3>1 DEF Records
  <2>4. /\ cpc' \in [CurateTasks -> CuratePCs]
        /\ runDate' \in [CurateTasks -> Dates \cup {None}]
        /\ reading' \in [CurateTasks -> SUBSET RawCopies]
        /\ rec' \in [CurateTasks -> Records]
    BY <1>3, <2>1, <2>2, <2>3 DEF CInv, CTypes
  <2>5. \A e \in CurateTasks : Dated(e)'
    BY <1>3, <2>1 DEF CInv, CTypes, Dated, OfDate
  <2>6. \A e \in CurateTasks : e # c => LocalsKept(e)
    BY <1>3, <2>1, <2>2 DEF CInv, CTypes, LocalsKept
  <2>7. Answered(c, to, field, value)
    BY <1>3, <2>1, <2>2 DEF CInv, CTypes, Answered
  <2>8. LocalTypes'
    BY <2>4, <2>5 DEF LocalTypes
  <2> QED BY <1>1, <1>3, <2>1, <2>6, <2>7, <2>8
<1> QED BY <1>2, <1>3 DEF Query

LEMMA RowTypes ==
    ASSUME CInv, NEW d
    PROVE  /\ RawRows(d) \in SUBSET RawCopies
           /\ CuratedRows(d) \in SUBSET CuratedCopies
           /\ Cardinality(RawRows(d)) \in Values
           /\ RawSum(RawRows(d)) \in Values
           /\ Cardinality(CuratedRows(d)) \in Values
           /\ CuratedSum(CuratedRows(d)) \in Values
<1>1. /\ RawRows(d) \in SUBSET RawCopies
      /\ CuratedRows(d) \in SUBSET CuratedCopies
  BY DEF CInv, CTypes, RawRows, CuratedRows
<1> QED BY <1>1 DEF Values

LEMMA CountRawKeeps ==
    ASSUME CInv, NEW c \in CurateTasks, CountRaw(c)
    PROVE  CInv'
<1> DEFINE n == Cardinality(RawRows(runDate[c]))
<1>1. /\ LocalTypes' /\ cpc[c] = "rawcount" /\ runDate' = runDate
      /\ \A e \in CurateTasks : e # c => LocalsKept(e)
      /\ Answered(c, "rawsum", "rawCount", n) \/ cpc'[c] = "error"
      /\ UNCHANGED <<raw, curateTable, curateManifest>>
  <2>1. n \in Values
    BY RowTypes
  <2>2. "rawsum" \in CuratePCs \ {"off"} /\ Query(c, "rawcount", "rawsum", "rawCount", n)
    BY DEF CountRaw, CuratePCs
  <2> HIDE DEF n
  <2> QED BY <2>1, <2>2, QueryLocals
<1>2. TaskOK(c)'
  <2>1. CASE Answered(c, "rawsum", "rawCount", n)
    <3> SUFFICES ASSUME NEW d \in Dates, d = runDate[c]
                 PROVE  rec'[c].rawCount = Cardinality(RawRows(d)')
      BY <1>1, <2>1 DEF TaskOK, CountOK, RawKnown, AfterCount, Answered
    <3>1. rec[c] \in Records /\ RawRows(d)' = RawRows(d)
      BY <1>1 DEF CInv, CTypes, RawRows
    <3> QED BY <2>1, <3>1 DEF Answered, Records
  <2>2. CASE cpc'[c] = "error"
    BY <2>2 DEF TaskOK, CountOK, RawKnown, AfterCount
  <2> QED BY <1>1, <2>1, <2>2
<1>3. steady' \subseteq steady \cup {c}
  BY DEF CountRaw
<1> QED BY <1>1, <1>2, <1>3, LocalStep DEF CurateExits

LEMMA SumRawKeeps ==
    ASSUME CInv, NEW c \in CurateTasks, SumRaw(c)
    PROVE  CInv'
<1> DEFINE n == RawSum(RawRows(runDate[c]))
<1>1. /\ LocalTypes' /\ cpc[c] = "rawsum" /\ runDate' = runDate
      /\ \A e \in CurateTasks : e # c => LocalsKept(e)
      /\ Answered(c, "delete", "rawSum", n) \/ cpc'[c] = "error"
      /\ UNCHANGED <<raw, curateTable, curateManifest>>
  <2>1. n \in Values
    BY RowTypes
  <2>2. "delete" \in CuratePCs \ {"off"} /\ Query(c, "rawsum", "delete", "rawSum", n)
    BY DEF SumRaw, CuratePCs
  <2> HIDE DEF n
  <2> QED BY <2>1, <2>2, QueryLocals
<1>2. steady' = steady
  BY DEF SumRaw
<1>3. TaskOK(c)'
  <2>1. CASE Answered(c, "delete", "rawSum", n)
    <3> SUFFICES ASSUME NEW d \in Dates, d = runDate[c], c \in steady
                 PROVE  /\ rec'[c].rawCount = Cardinality(RawRows(d)')
                        /\ rec'[c].rawSum = RawSum(RawRows(d)')
      BY <1>1, <1>2, <2>1 DEF TaskOK, CountOK, RawKnown, AfterCount, Answered
    <3>1. rec[c] \in Records /\ RawRows(d)' = RawRows(d)
      BY <1>1 DEF CInv, CTypes, RawRows
    <3>2. rec[c].rawCount = Cardinality(RawRows(d))
      BY <1>1 DEF CInv, TaskOK, CountOK, RawKnown, AfterCount
    <3> QED BY <2>1, <3>1, <3>2 DEF Answered, Records
  <2>2. CASE cpc'[c] = "error"
    BY <2>2 DEF TaskOK, CountOK, RawKnown, AfterCount
  <2> QED BY <1>1, <2>1, <2>2
<1> QED BY <1>1, <1>2, <1>3, LocalStep DEF CurateExits

LEMMA CountCuratedKeeps ==
    ASSUME CInv, NEW c \in CurateTasks, CountCurated(c)
    PROVE  CInv'
<1> DEFINE n == Cardinality(CuratedRows(runDate[c]))
<1>1. /\ LocalTypes' /\ cpc[c] = "count" /\ runDate' = runDate
      /\ \A e \in CurateTasks : e # c => LocalsKept(e)
      /\ Answered(c, "sum", "count", n) \/ cpc'[c] = "error"
      /\ UNCHANGED <<raw, curateTable, curateManifest>>
  <2>1. n \in Values
    BY RowTypes
  <2>2. "sum" \in CuratePCs \ {"off"} /\ Query(c, "count", "sum", "count", n)
    BY DEF CountCurated, CuratePCs
  <2> HIDE DEF n
  <2> QED BY <2>1, <2>2, QueryLocals
<1>2. steady' = steady
  BY DEF CountCurated
<1>3. TaskOK(c)'
  <2>0. Answered(c, "sum", "count", n) => CountOK(c)'
    <3> SUFFICES ASSUME Answered(c, "sum", "count", n), NEW d \in Dates,
                        d = runDate[c]
                 PROVE  rec'[c].count = Cardinality(CuratedRows(d)')
      BY <1>1 DEF CountOK
    <3>1. rec[c] \in Records /\ CuratedRows(d)' = CuratedRows(d)
      BY <1>1 DEF CInv, CTypes, CuratedRows, curateTable
    <3> QED BY <3>1 DEF Answered, Records
  <2>1. CASE Answered(c, "sum", "count", n)
    <3> SUFFICES ASSUME NEW d \in Dates, d = runDate[c], c \in steady
                 PROVE  /\ rec'[c].rawCount = Cardinality(RawRows(d)')
                        /\ rec'[c].rawSum = RawSum(RawRows(d)')
                        /\ lastCurator'[d] = c =>
                             /\ CuratedOf(c, RawRows(d)') \subseteq CuratedRows(d)'
                             /\ rec'[c].count = Cardinality(CuratedRows(d)')
      BY <1>1, <1>2, <2>1, <2>0 DEF TaskOK, RawKnown, AfterCount, Answered
    <3>1. /\ rec[c] \in Records /\ lastCurator' = lastCurator
          /\ RawRows(d)' = RawRows(d) /\ CuratedRows(d)' = CuratedRows(d)
      BY <1>1 DEF CInv, CTypes, RawRows, CuratedRows, curateTable
    <3>2. /\ rec[c].rawCount = Cardinality(RawRows(d))
          /\ rec[c].rawSum = RawSum(RawRows(d))
          /\ lastCurator[d] = c => CuratedOf(c, RawRows(d)) \subseteq CuratedRows(d)
      BY <1>1 DEF CInv, TaskOK, CountOK, RawKnown, AfterCount
    <3> QED BY <2>1, <3>1, <3>2 DEF Answered, Records
  <2>2. CASE cpc'[c] = "error"
    BY <2>2 DEF TaskOK, CountOK, RawKnown, AfterCount
  <2> QED BY <1>1, <2>1, <2>2
<1> QED BY <1>1, <1>2, <1>3, LocalStep DEF CurateExits

LEMMA SumCuratedKeeps ==
    ASSUME CInv, NEW c \in CurateTasks, SumCurated(c)
    PROVE  CInv'
<1> DEFINE n == CuratedSum(CuratedRows(runDate[c]))
<1>1. /\ LocalTypes' /\ cpc[c] = "sum" /\ runDate' = runDate
      /\ \A e \in CurateTasks : e # c => LocalsKept(e)
      /\ Answered(c, "manifest", "sum", n) \/ cpc'[c] = "error"
      /\ UNCHANGED <<raw, curateTable, curateManifest>>
  <2>1. n \in Values
    BY RowTypes
  <2>2. "manifest" \in CuratePCs \ {"off"} /\ Query(c, "sum", "manifest", "sum", n)
    BY DEF SumCurated, CuratePCs
  <2> HIDE DEF n
  <2> QED BY <2>1, <2>2, QueryLocals
<1>2. steady' = steady
  BY DEF SumCurated
<1>3. TaskOK(c)'
  <2>0. Answered(c, "manifest", "sum", n) => CountOK(c)'
    <3> SUFFICES ASSUME Answered(c, "manifest", "sum", n), NEW d \in Dates,
                        d = runDate[c], lastCurator[d] = c
                 PROVE  rec'[c].count = Cardinality(CuratedRows(d)')
      BY <1>1 DEF CountOK, curateTable
    <3>1. rec[c] \in Records /\ CuratedRows(d)' = CuratedRows(d)
      BY <1>1 DEF CInv, CTypes, CuratedRows, curateTable
    <3>2. rec[c].count = Cardinality(CuratedRows(d))
      BY <1>1 DEF CInv, TaskOK, CountOK
    <3> QED BY <3>1, <3>2 DEF Answered, Records
  <2>1. CASE Answered(c, "manifest", "sum", n)
    <3> SUFFICES ASSUME NEW d \in Dates, d = runDate[c], c \in steady
                 PROVE  /\ rec'[c].rawCount = Cardinality(RawRows(d)')
                        /\ rec'[c].rawSum = RawSum(RawRows(d)')
                        /\ lastCurator'[d] = c =>
                             /\ CuratedOf(c, RawRows(d)') \subseteq CuratedRows(d)'
                             /\ rec'[c].count = Cardinality(CuratedRows(d)')
      BY <1>1, <1>2, <2>1, <2>0 DEF TaskOK, RawKnown, AfterCount, Answered
    <3>1. /\ rec[c] \in Records /\ lastCurator' = lastCurator
          /\ RawRows(d)' = RawRows(d) /\ CuratedRows(d)' = CuratedRows(d)
      BY <1>1 DEF CInv, CTypes, RawRows, CuratedRows, curateTable
    <3>2. /\ rec[c].rawCount = Cardinality(RawRows(d))
          /\ rec[c].rawSum = RawSum(RawRows(d))
          /\ lastCurator[d] = c =>
               /\ CuratedOf(c, RawRows(d)) \subseteq CuratedRows(d)
               /\ rec[c].count = Cardinality(CuratedRows(d))
      BY <1>1 DEF CInv, TaskOK, CountOK, RawKnown, AfterCount
    <3> QED BY <2>1, <3>1, <3>2 DEF Answered, Records
  <2>2. CASE cpc'[c] = "error"
    BY <2>2 DEF TaskOK, CountOK, RawKnown, AfterCount
  <2> QED BY <1>1, <2>1, <2>2
<1> QED BY <1>1, <1>2, <1>3, LocalStep DEF CurateExits

LEMMA SelectKeeps ==
    ASSUME CInv, NEW c \in CurateTasks, SelectRaw(c)
    PROVE  CInv'
<1>1. /\ cpc[c] = "select" /\ cpc' = [cpc EXCEPT ![c] = "insert"]
      /\ reading' = [reading EXCEPT ![c] = RawRows(runDate[c])]
      /\ UNCHANGED <<runDate, rec, steady>>
      /\ UNCHANGED <<raw, curateTable, curateManifest>>
  BY DEF SelectRaw, CurateStep
<1>2. /\ cpc' \in [CurateTasks -> CuratePCs]
      /\ runDate' \in [CurateTasks -> Dates \cup {None}]
      /\ reading' \in [CurateTasks -> SUBSET RawCopies]
      /\ rec' \in [CurateTasks -> Records]
  <2>1. RawRows(runDate[c]) \in SUBSET RawCopies /\ "insert" \in CuratePCs
    BY RowTypes DEF CuratePCs
  <2> QED BY <1>1, <2>1 DEF CInv, CTypes
<1>3. \A e \in CurateTasks : Dated(e)'
  BY <1>1 DEF CInv, CTypes, Dated, OfDate, RawRows
<1>4. LocalTypes'
  BY <1>2, <1>3 DEF LocalTypes
<1>5. \A e \in CurateTasks : e # c => LocalsKept(e)
  BY <1>1 DEF CInv, CTypes, LocalsKept
<1>6. TaskOK(c)'
  <2>1. cpc'[c] = "insert" /\ reading'[c] = RawRows(runDate[c])
    BY <1>1 DEF CInv, CTypes
  <2> SUFFICES ASSUME NEW d \in Dates, d = runDate[c], c \in steady
               PROVE  /\ rec[c].rawCount = Cardinality(RawRows(d)')
                      /\ rec[c].rawSum = RawSum(RawRows(d)')
                      /\ reading'[c] = RawRows(d)'
    BY <1>1, <2>1 DEF TaskOK, CountOK, RawKnown, AfterCount
  <2>2. RawRows(d)' = RawRows(d)
    BY <1>1 DEF RawRows
  <2>3. /\ rec[c].rawCount = Cardinality(RawRows(d))
        /\ rec[c].rawSum = RawSum(RawRows(d))
    BY <1>1 DEF CInv, TaskOK, CountOK, RawKnown, AfterCount
  <2> QED BY <2>1, <2>2, <2>3
<1> QED BY <1>1, <1>4, <1>5, <1>6, LocalStep DEF CurateExits

\* DELETE and INSERT.
LEMMA StatementKeeps ==
    ASSUME CInv, NEW c \in CurateTasks, NEW kind \in CurateKinds, NEW next,
           kind = "delete" => next = "select", kind = "insert" => next = "count",
           CuratedStatement(c, kind, next)
    PROVE  CInv'
<1> DEFINE s == [kind |-> kind, task |-> c, date |-> runDate[c],
                 rows |-> reading[c]]
<1>1. /\ \/ /\ CurateStep(c, kind, next)
            /\ CurateEffect(s)
            /\ UNCHANGED curateInflight
         \/ /\ CurateStep(c, kind, "failed")
            /\ UNCHANGED <<curated, lastCurator>>
            /\ UNCHANGED curateInflight \/ curateInflight' = curateInflight \cup {s}
      /\ UNCHANGED <<raw, curateManifest, runDate, reading, rec, steady>>
  BY DEF CuratedStatement
<1>2. /\ cpc[c] = kind /\ kind \in {"delete", "insert"}
      /\ next \in {"select", "count"} /\ "failed" \in CuratePCs
      /\ next \in CuratePCs
  BY <1>1 DEF CurateStep, CurateKinds, CuratePCs
<1>3. /\ s \in CurateStatements /\ OfDate(s.rows, s.date) /\ s.task = c
      /\ s.date = runDate[c] /\ s.rows = reading[c] /\ s.kind = kind
  BY <1>2 DEF CInv, CTypes, Dated, CurateStatements
<1> HIDE DEF s
<1>4. /\ cpc' \in [CurateTasks -> CuratePCs]
      /\ \A e \in CurateTasks : e # c => cpc'[e] = cpc[e]
      /\ cpc'[c] = next \/ cpc'[c] = "failed"
      /\ CurateStep(c, kind, next) => cpc'[c] = next
      /\ CurateStep(c, kind, "failed") => cpc'[c] = "failed"
  BY <1>1, <1>2 DEF CurateStep, CInv, CTypes
<1>5. LocalTypes' /\ \A e \in CurateTasks : e # c => LocalsKept(e)
  <2>1. \A e \in CurateTasks : Dated(e)'
    BY <1>1, <1>2, <1>4 DEF CInv, CTypes, Dated, OfDate
  <2> QED BY <1>1, <1>4, <2>1 DEF CInv, CTypes, LocalTypes, LocalsKept
<1>6. TableTypes'
  <2>1. /\ curated' \subseteq CuratedCopies
        /\ lastCurator' \in [Dates -> CurateTasks \cup {None}]
    BY <1>1, <1>3, EffectTypes DEF CInv, CTypes
  <2>2. /\ curateInflight' \subseteq CurateStatements
        /\ \A u \in curateInflight' : OfDate(u.rows, u.date)
    BY <1>1, <1>3 DEF CInv, CTypes
  <2> QED BY <1>1, <2>1, <2>2 DEF CInv, CTypes, TableTypes, OfDate
<1>7. \A e \in CurateTasks : e # c => RawKept(e) /\ CuratedKept(e)
  <2>1. \A e \in CurateTasks : RawKept(e)
    BY <1>1 DEF RawKept, RawRows
  <2>2. CASE CurateEffect(s)
    BY <1>3, <2>1, <2>2, EffectKept DEF CInv
  <2>3. CASE UNCHANGED <<curated, lastCurator>>
    BY <2>1, <2>3 DEF CuratedKept, CuratedRows
  <2> QED BY <1>1, <2>2, <2>3
<1>8. InflightOK'
  <2> SUFFICES ASSUME NEW u \in curateInflight'
               PROVE  cpc'[u.task] \in {"failed", "error", "crashed"}
    BY DEF InflightOK
  <2>1. CASE u \in curateInflight
    <3>1. u.task \in CurateTasks /\ cpc[u.task] \in {"failed", "error", "crashed"}
      BY <2>1 DEF CInv, CTypes, InflightOK, CurateStatements
    <3> QED BY <3>1, <1>2, <1>4
  <2>2. CASE u \notin curateInflight
    BY <2>2, <1>1, <1>3, <1>4
  <2> QED BY <2>1, <2>2
<1>9. \A u \in curateInflight' : u \in curateInflight \/ u.task = c
  BY <1>1, <1>3
<1>10. TaskOK(c)'
  <2>1. CASE cpc'[c] # "count" /\ cpc'[c] # "select"
    BY <1>2, <1>4, <2>1 DEF TaskOK, CountOK, RawKnown, AfterCount
  <2>2. ASSUME NEW d \in Dates, d = runDate[c], c \in steady,
               cpc'[c] = "count" \/ cpc'[c] = "select"
        PROVE  /\ rec[c].rawCount = Cardinality(RawRows(d)')
               /\ rec[c].rawSum = RawSum(RawRows(d)')
               /\ cpc'[c] = "count" =>
                     CuratedOf(c, RawRows(d)') \subseteq CuratedRows(d)'
    <3>1. RawRows(d)' = RawRows(d)
      BY <1>1 DEF RawRows
    <3>2. /\ rec[c].rawCount = Cardinality(RawRows(d))
          /\ rec[c].rawSum = RawSum(RawRows(d))
          /\ kind = "insert" => reading[c] = RawRows(d)
      BY <1>2, <2>2 DEF CInv, TaskOK, CountOK, RawKnown, AfterCount
    <3>3. cpc'[c] = "count" => kind = "insert" /\ CurateEffect(s)
      BY <1>1, <1>2, <1>4
    <3>4. kind = "insert" /\ CurateEffect(s) =>
              CuratedOf(c, RawRows(d)) \subseteq CuratedRows(d)'
      <4> SUFFICES ASSUME kind = "insert", CurateEffect(s)
                   PROVE  CuratedOf(c, RawRows(d)) \subseteq CuratedRows(d)'
        OBVIOUS
      <4>1. curated' = curated \cup CuratedOf(c, RawRows(d))
        BY <1>3, <3>2 DEF CurateEffect
      <4>2. \A k \in CuratedOf(c, RawRows(d)) : RawDate[k.src] = d
        BY DEF CuratedOf, RawRows
      <4> QED BY <4>1, <4>2 DEF CuratedRows
    <3> QED BY <3>1, <3>2, <3>3, <3>4
  <2>3. CASE cpc'[c] = "count" \/ cpc'[c] = "select"
    BY <1>1, <2>2, <2>3 DEF TaskOK, CountOK, RawKnown, AfterCount
  <2> QED BY <2>1, <2>3
<1> QED
  BY <1>1, <1>2, <1>5, <1>6, <1>7, <1>8, <1>9, <1>10, TaskTogether DEF CurateExits

\* The comparison: equal counts, so the task's own copies are all there is.
LEMMA MatchTells ==
    ASSUME CInv, NEW c \in CurateTasks, cpc[c] = "manifest", CuratedMatch(c),
           NEW d \in Dates, d = runDate[c], c \in steady, lastCurator[d] = c
    PROVE  /\ CuratedRows(d) = CuratedOf(c, RawRows(d))
           /\ rec[c].count = Cardinality(RawRows(d))
           /\ rec[c].sum = RawSum(RawRows(d))
<1>1. /\ rec[c].rawCount = Cardinality(RawRows(d))
      /\ rec[c].rawSum = RawSum(RawRows(d))
      /\ CuratedOf(c, RawRows(d)) \subseteq CuratedRows(d)
      /\ rec[c].count = Cardinality(CuratedRows(d))
  BY DEF CInv, TaskOK, CountOK, RawKnown, AfterCount
<1>2. rec[c].rawCount = rec[c].count /\ rec[c].rawSum = rec[c].sum
  BY DEF CuratedMatch
<1>3. RawRows(d) \in SUBSET RawCopies /\ CuratedRows(d) \in SUBSET CuratedCopies
  BY RowTypes
<1>4. CuratedRows(d) = CuratedOf(c, RawRows(d))
  BY <1>1, <1>2, <1>3, CountTells
<1> QED BY <1>1, <1>2, <1>4

\* A task ends: successfully, with an error, or killed.
LEMMA EndKeeps ==
    ASSUME CInv, NEW c \in CurateTasks,
           NEW from \in CuratePCs, from \notin {"off"} \cup CurateExits,
           NEW exit \in CurateExits, CurateExit(c, from, exit),
           UNCHANGED <<raw, curated, lastCurator, steady>>,
           exit = "ok" => from = "manifest" /\ CuratedMatch(c),
           NEW success \in BOOLEAN,
           success => from = "manifest" /\ CuratedMatch(c),
           UNCHANGED curateManifest \/ PutCurateManifest(c, success),
           NEW s, s = [kind |-> from, task |-> c, date |-> runDate[c],
                       rows |-> reading[c]],
           \/ UNCHANGED curateInflight
           \/ from \in CurateKinds /\ curateInflight' = curateInflight \cup {s}
    PROVE  CInv'
<1> DEFINE m == [task |-> c, rowCount |-> rec[c].count,
                 checksum |-> rec[c].sum, success |-> success]
<1>1. /\ LocalTypes' /\ cpc'[c] = exit /\ cpc[c] = from /\ runDate' = runDate
      /\ \A e \in CurateTasks : e # c => LocalsKept(e)
  <2>1. from # "off" /\ CTypes
    BY DEF CInv
  <2> QED BY <2>1, ExitTypes
<1>2. runDate[c] \in Dates /\ rec[c] \in Records
  BY <1>1 DEF CInv, CTypes, Dated
<1>3. m \in StoredManifests
  BY <1>2 DEF Records, StoredManifests
<1>4. /\ s.task = c
      /\ from \in CurateKinds => s \in CurateStatements /\ OfDate(s.rows, s.date)
  BY <1>2 DEF CInv, CTypes, Dated, CurateStatements
<1>5. \A u \in curateInflight' : u \in curateInflight \/ u.task = c
  BY <1>4
<1>6. \/ UNCHANGED curateManifest
      \/ curateManifest' = [curateManifest EXCEPT ![runDate[c]] = m]
  BY DEF PutCurateManifest
<1> HIDE DEF m
<1>7. TableTypes'
  <2>1. /\ curateInflight' \subseteq CurateStatements
        /\ \A u \in curateInflight' : OfDate(u.rows, u.date)
    BY <1>4 DEF CInv, CTypes
  <2>2. curateManifest' \in [Dates -> StoredManifests \cup {None}]
    BY <1>3, <1>6 DEF CInv, CTypes
  <2> QED BY <2>1, <2>2 DEF CInv, CTypes, TableTypes, OfDate
<1>8. \A e \in CurateTasks : e # c => RawKept(e) /\ CuratedKept(e)
  BY DEF RawKept, CuratedKept, RawRows, CuratedRows
<1>9. InflightOK'
  <2> SUFFICES ASSUME NEW u \in curateInflight'
               PROVE  cpc'[u.task] \in {"failed", "error", "crashed"}
    BY DEF InflightOK
  <2>1. exit # "ok" => exit \in {"failed", "error", "crashed"}
    BY DEF CurateExits
  <2>2. CASE u \in curateInflight
    <3>1. u.task \in CurateTasks /\ cpc[u.task] \in {"failed", "error", "crashed"}
      BY <2>2 DEF CInv, CTypes, InflightOK, CurateStatements
    <3> QED BY <3>1, <2>1, <1>1 DEF LocalsKept
  <2>3. CASE u \notin curateInflight
    <3>1. u = s /\ from \in CurateKinds
      BY <2>3
    <3>2. exit # "ok"
      BY <3>1 DEF CurateKinds
    <3> QED BY <3>1, <3>2, <2>1, <1>1, <1>4
  <2> QED BY <2>2, <2>3
<1>10. TaskOK(c)'
  <2>1. CASE exit = "ok"
    <3>1. ASSUME NEW d \in Dates, d = runDate[c], c \in steady, lastCurator[d] = c
          PROVE  CuratedRows(d)' = CuratedOf(c, RawRows(d)')
      <4>1. CuratedRows(d) = CuratedOf(c, RawRows(d))
        BY <1>1, <2>1, <3>1, MatchTells
      <4> QED BY <4>1 DEF RawRows, CuratedRows
    <3> QED BY <1>1, <2>1, <3>1 DEF TaskOK, CountOK, RawKnown, AfterCount
  <2>2. CASE exit # "ok"
    BY <1>1, <2>2 DEF TaskOK, CountOK, RawKnown, AfterCount, CurateExits
  <2> QED BY <2>1, <2>2
<1>11. ASSUME NEW d \in Dates, curateManifest'[d] # curateManifest[d]
       PROVE  ManifestOK(d)'
  <2>1. d = runDate[c] /\ curateManifest'[d] = m
    BY <1>2, <1>6, <1>11 DEF CInv, CTypes
  <2>2. /\ m.task = c /\ m.success = success
        /\ m.rowCount = rec[c].count /\ m.checksum = rec[c].sum
    BY DEF m
  <2>3. success => \A u \in curateInflight' : u.task # c
    <3> SUFFICES ASSUME success, NEW u \in curateInflight' PROVE u.task # c
      OBVIOUS
    <3>1. u \in curateInflight
      BY DEF CurateKinds
    <3> QED BY <3>1, <1>1 DEF CInv, InflightOK
  <2>4. success /\ lastCurator[d] = c /\ c \in steady =>
          /\ CuratedRows(d) = CuratedOf(c, RawRows(d))
          /\ rec[c].count = Cardinality(RawRows(d))
          /\ rec[c].sum = RawSum(RawRows(d))
    BY <1>1, <2>1, MatchTells
  <2>5. RawRows(d)' = RawRows(d) /\ CuratedRows(d)' = CuratedRows(d)
    BY DEF RawRows, CuratedRows
  <2>6. success /\ lastCurator[d] = c =>
          rec[c].count = Cardinality(CuratedRows(d))
    BY <1>1, <2>1 DEF CInv, TaskOK, CountOK
  <2> QED BY <1>1, <2>1, <2>2, <2>3, <2>4, <2>5, <2>6 DEF ManifestOK
<1> QED
  BY <1>1, <1>5, <1>7, <1>8, <1>9, <1>10, <1>11, TaskTogether

LEMMA ReportKeeps ==
    ASSUME CInv, NEW c \in CurateTasks, CurateFailed(c) \/ CurateReconcile(c)
    PROVE  CInv'
<1> DEFINE exit == IF CuratedMatch(c) THEN "ok" ELSE "error"
<1>1. "failed" \in CuratePCs /\ "manifest" \in CuratePCs
      /\ "failed" \notin {"off"} \cup CurateExits
      /\ "manifest" \notin {"off"} \cup CurateExits
      /\ "ok" \in CurateExits /\ "error" \in CurateExits
  BY DEF CuratePCs, CurateExits
<1>2. /\ CuratedMatch(c) \in BOOLEAN /\ exit \in CurateExits
      /\ exit = "ok" => CuratedMatch(c)
  BY <1>1 DEF CuratedMatch
<1>3. CASE CurateFailed(c)
  <2>1. /\ CurateExit(c, "failed", "error")
        /\ UNCHANGED <<raw, curated, lastCurator, steady, curateInflight>>
        /\ UNCHANGED curateManifest \/ PutCurateManifest(c, FALSE)
    BY <1>3 DEF CurateFailed, UploadCurateManifest, curateTable
  <2> QED BY <1>1, <2>1, EndKeeps
<1>4. CASE CurateReconcile(c)
  <2>1. /\ CurateExit(c, "manifest", exit)
        /\ UNCHANGED <<raw, curated, lastCurator, steady, curateInflight>>
        /\ UNCHANGED curateManifest \/ PutCurateManifest(c, CuratedMatch(c))
    BY <1>4 DEF CurateReconcile, UploadCurateManifest, curateTable
  <2> HIDE DEF exit
  <2> QED BY <1>1, <1>2, <2>1, EndKeeps
<1> QED BY <1>3, <1>4

LEMMA CrashKeeps ==
    ASSUME CInv, NEW c \in CurateTasks, CrashCurate(c)
    PROVE  CInv'
<1>1. /\ cpc[c] \in CuratePCs /\ cpc[c] \notin {"off"} \cup CurateExits
      /\ CurateExit(c, cpc[c], "crashed")
      /\ UNCHANGED <<raw, curated, lastCurator, steady>>
      /\ "crashed" \in CurateExits
  BY DEF CrashCurate, Curating, CInv, CTypes, CurateExits
<1>2. CuratedMatch(c) \in BOOLEAN
  BY DEF CuratedMatch
<1>3. CASE UNCHANGED <<curateInflight, curateManifest>>
  BY <1>1, <1>3, EndKeeps
<1>4. CASE /\ cpc[c] \in CurateKinds /\ UNCHANGED curateManifest
           /\ curateInflight' = curateInflight \cup
                 {[kind |-> cpc[c], task |-> c, date |-> runDate[c],
                   rows |-> reading[c]]}
  BY <1>1, <1>4, EndKeeps
<1>5. CASE /\ cpc[c] = "failed" /\ PutCurateManifest(c, FALSE)
           /\ UNCHANGED curateInflight
  BY <1>1, <1>5, EndKeeps
<1>6. CASE /\ cpc[c] = "manifest" /\ PutCurateManifest(c, CuratedMatch(c))
           /\ UNCHANGED curateInflight
  BY <1>1, <1>2, <1>6, EndKeeps
<1> QED BY <1>3, <1>4, <1>5, <1>6 DEF CrashCurate

-----------------------------------------------------------------------------
(***************************************************************************)
(* Part 5: the theorems.                                                   *)
(***************************************************************************)
LEMMA CurateInitial == Init => CInv
<1> SUFFICES ASSUME Init PROVE CInv
  OBVIOUS
<1>1. NoCounts \in Records /\ "off" \in CuratePCs
  BY DEF NoCounts, Records, Values, CuratePCs
<1>2. CTypes
  BY <1>1 DEF Init, CurateInit, CTypes, Dated, OfDate
<1>3. InflightOK /\ \A d \in Dates : ManifestOK(d)
  BY DEF Init, CurateInit, InflightOK, ManifestOK
<1>4. \A c \in CurateTasks : TaskOK(c)
  BY DEF Init, CurateInit, TaskOK, CountOK, RawKnown
<1> QED BY <1>2, <1>3, <1>4 DEF CInv

LEMMA CurateInductive ==
    ASSUME CInv, [Next]_vars
    PROVE  CInv'
<1>1. CASE Next
  <2>1. CASE \E R \in SUBSET RawCopies : RawChanges(R)
    BY <2>1, RawKeeps
  <2>2. CASE \E s \in curateInflight : CurateAthenaEnds(s)
    BY <2>2, LateKeeps
  <2>3. ASSUME NEW c \in CurateTasks, DeleteCurated(c) \/ InsertCurated(c)
        PROVE  CInv'
    BY <2>3, StatementKeeps DEF DeleteCurated, InsertCurated, CurateKinds
  <2>4. ASSUME NEW c \in CurateTasks,
               \/ \E d \in Dates : StartCurate(c, d)
               \/ CurateJobStep(c) \/ CrashCurate(c)
        PROVE  CInv'
    BY <2>3, <2>4, StartKeeps, CountRawKeeps, SumRawKeeps, SelectKeeps,
       CountCuratedKeeps, SumCuratedKeeps, ReportKeeps, CrashKeeps
       DEF CurateJobStep
  <2> QED BY <1>1, <2>1, <2>2, <2>4 DEF Next
<1>2. CASE UNCHANGED vars
  <2>1. UNCHANGED <<raw, curated, curateInflight, lastCurator, curateManifest,
                    cpc, runDate, reading, rec, steady>>
    BY <1>2 DEF vars, curateVars, curateTable, curateLocals
  <2>2. CTypes' /\ InflightOK'
    BY <2>1 DEF CInv, CTypes, Dated, InflightOK
  <2>3. \A e \in CurateTasks : LocalsKept(e) /\ RawKept(e) /\ CuratedKept(e)
    BY <2>1 DEF LocalsKept, RawKept, CuratedKept, RawRows, CuratedRows
  <2>4. \A e \in CurateTasks : TaskOK(e)'
    BY <2>3, OtherTask DEF CInv
  <2>5. ASSUME NEW d \in Dates PROVE ManifestOK(d)'
    <3> DEFINE m == curateManifest[d]
    <3>1. m # None => m.task \in CurateTasks
      BY DEF CInv, CTypes, StoredManifests
    <3>2. ManifestOK(d) /\ curateManifest'[d] = m
          /\ curateInflight' = curateInflight
      BY <2>1 DEF CInv
    <3> QED BY <2>3, <3>1, <3>2, SameManifest
  <2> QED BY <2>2, <2>4, <2>5 DEF CInv
<1> QED BY <1>1, <1>2

\* A curate task that ends with zero left the curated date a copy of the raw
\* one until somebody touches either: for any number of tasks that overlap,
\* crash and leave statements behind (curate/main.go:113-159).
THEOREM CurateSteadyCopy == Spec => []SteadyCopy
<1>1. Init => CInv
  BY CurateInitial
<1>2. CInv /\ [Next]_vars => CInv'
  BY CurateInductive
<1>3. CInv => SteadyCopy
  <2> SUFFICES ASSUME CInv, NEW c \in steady, cpc[c] = "ok",
                      lastCurator[runDate[c]] = c
               PROVE  CopiesRaw(c, runDate[c])
    BY DEF SteadyCopy
  <2>1. c \in CurateTasks /\ runDate[c] \in Dates
    BY DEF CInv, CTypes, Dated
  <2> QED BY <2>1 DEF CInv, TaskOK, CountOK, RawKnown, CopiesRaw
<1> QED BY <1>1, <1>2, <1>3, PTL DEF Spec

\* A curate manifest that says success counts and sums exactly the rows of
\* both tables until somebody touches either (curate/main.go:145-155).
THEOREM CurateEvidenceHolds == Spec => []CuratedEvidence
<1>1. Init => CInv
  BY CurateInitial
<1>2. CInv /\ [Next]_vars => CInv'
  BY CurateInductive
<1>3. CInv => CuratedEvidence
  BY DEF CInv, ManifestOK, CuratedEvidence, CopiesRaw
<1> QED BY <1>1, <1>2, <1>3, PTL DEF Spec

-----------------------------------------------------------------------------
(***************************************************************************)
(* Part 6: the types.  What a task counts and sums are numbers: the counts *)
(* of finite sets and, by SumLemmas, the sums of their trip_ids.           *)
(***************************************************************************)
\* The checksum of raw rows is a number.
LEMMA RawSumIsNumber ==
    ASSUME NEW S \in SUBSET RawCopies
    PROVE  RawSum(S) \in Nat
<1> DEFINE weight(x) == RawID[x]
           w == [x \in S |-> weight(x)]
           Fold(f) == [s \in SUBSET S |->
                         IF s = {} THEN 0
                         ELSE weight(CHOOSE x \in s : TRUE)
                                 + f[s \ {CHOOSE x \in s : TRUE}]]
           sum == CHOOSE f : f = Fold(f)
<1>1. RawSum(S) = sum[S]
  BY DEF RawSum, MapThenSumSet, MapThenFoldSet
<1>2. w \in [S -> Nat] /\ IsFiniteSet(S)
  BY CurateAssumption, FS_Subset
<1>3. \A s \in SUBSET S : s # {} =>
        w[CHOOSE x \in s : TRUE] = weight(CHOOSE x \in s : TRUE)
  <2> SUFFICES ASSUME NEW s \in SUBSET S, s # {}
               PROVE  w[CHOOSE x \in s : TRUE] = weight(CHOOSE x \in s : TRUE)
    OBVIOUS
  <2>1. (CHOOSE x \in s : TRUE) \in S
    OBVIOUS
  <2> HIDE DEF weight
  <2> QED BY <2>1
<1> HIDE DEF w, weight
<1>4. \E F : F = Fold(F)
  <2>1. PICK F : IsSum(F, w, S)
    BY <1>2, SumExists
  <2>2. IsFold(F, w, S) /\ F = [s \in SUBSET S |-> F[s]]
    BY <2>1, SumIsFold DEF IsSum
  <2>3. \A s \in SUBSET S : F[s] = IF s = {} THEN 0
                           ELSE weight(CHOOSE x \in s : TRUE)
                                   + F[s \ {CHOOSE x \in s : TRUE}]
    BY <1>3, <2>2 DEF IsFold
  <2>4. F = Fold(F)
    BY <2>2, <2>3, Zenon
  <2> HIDE DEF Fold
  <2> QED BY <2>4
<1>5. sum = Fold(sum)
  <2> HIDE DEF Fold
  <2> QED BY <1>4
<1> HIDE DEF sum
<1>6. IsFold(sum, w, S)
  <2>1. \A s \in SUBSET S : sum[s] = IF s = {} THEN 0
                           ELSE weight(CHOOSE x \in s : TRUE)
                                   + sum[s \ {CHOOSE x \in s : TRUE}]
    BY <1>5
  <2> QED BY <1>3, <2>1 DEF IsFold
<1> QED BY <1>1, <1>2, <1>6, FoldIsNumber

\* The checksum of curated rows is a number.
LEMMA CuratedSumIsNumber ==
    ASSUME NEW S \in SUBSET CuratedCopies
    PROVE  CuratedSum(S) \in Nat
<1> DEFINE weight(x) == RawID[x.src]
           w == [x \in S |-> weight(x)]
           Fold(f) == [s \in SUBSET S |->
                         IF s = {} THEN 0
                         ELSE weight(CHOOSE x \in s : TRUE)
                                 + f[s \ {CHOOSE x \in s : TRUE}]]
           sum == CHOOSE f : f = Fold(f)
<1>1. CuratedSum(S) = sum[S]
  BY DEF CuratedSum, MapThenSumSet, MapThenFoldSet
<1>2. w \in [S -> Nat] /\ IsFiniteSet(S)
  BY CurateAssumption, CopiesFinite, FS_Subset DEF CuratedCopies
<1>3. \A s \in SUBSET S : s # {} =>
        w[CHOOSE x \in s : TRUE] = weight(CHOOSE x \in s : TRUE)
  <2> SUFFICES ASSUME NEW s \in SUBSET S, s # {}
               PROVE  w[CHOOSE x \in s : TRUE] = weight(CHOOSE x \in s : TRUE)
    OBVIOUS
  <2>1. (CHOOSE x \in s : TRUE) \in S
    OBVIOUS
  <2> HIDE DEF weight
  <2> QED BY <2>1
<1> HIDE DEF w, weight
<1>4. \E F : F = Fold(F)
  <2>1. PICK F : IsSum(F, w, S)
    BY <1>2, SumExists
  <2>2. IsFold(F, w, S) /\ F = [s \in SUBSET S |-> F[s]]
    BY <2>1, SumIsFold DEF IsSum
  <2>3. \A s \in SUBSET S : F[s] = IF s = {} THEN 0
                           ELSE weight(CHOOSE x \in s : TRUE)
                                   + F[s \ {CHOOSE x \in s : TRUE}]
    BY <1>3, <2>2 DEF IsFold
  <2>4. F = Fold(F)
    BY <2>2, <2>3, Zenon
  <2> HIDE DEF Fold
  <2> QED BY <2>4
<1>5. sum = Fold(sum)
  <2> HIDE DEF Fold
  <2> QED BY <1>4
<1> HIDE DEF sum
<1>6. IsFold(sum, w, S)
  <2>1. \A s \in SUBSET S : sum[s] = IF s = {} THEN 0
                           ELSE weight(CHOOSE x \in s : TRUE)
                                   + sum[s \ {CHOOSE x \in s : TRUE}]
    BY <1>5
  <2> QED BY <1>3, <2>1 DEF IsFold
<1> QED BY <1>1, <1>2, <1>6, FoldIsNumber

LEMMA ValuesAreNumbers == Values \subseteq Nat
<1>1. \A R \in SUBSET RawCopies : Cardinality(R) \in Nat /\ RawSum(R) \in Nat
  BY CurateAssumption, FS_Subset, FS_CardinalityType, RawSumIsNumber
<1>2. \A K \in SUBSET CuratedCopies :
        Cardinality(K) \in Nat /\ CuratedSum(K) \in Nat
  BY CopiesFinite, FS_Subset, FS_CardinalityType, CuratedSumIsNumber
<1> QED BY <1>1, <1>2 DEF Values

\* The variables of the curate tasks hold what their types say: every count and
\* checksum that a task compares or writes down is a number, a task has one of
\* the states of its program, and a statement left behind is one of the two of
\* commitToCurated (curate/main.go:113-159).
THEOREM CurateTypeCorrect == Spec => []CurateTypeOK
<1>1. Init => CInv
  BY CurateInitial
<1>2. CInv /\ [Next]_vars => CInv'
  BY CurateInductive
<1>3. CInv => CurateTypeOK
  <2> SUFFICES ASSUME CTypes PROVE CurateTypeOK
    BY DEF CInv
  <2>1. Records \subseteq [rawCount : Nat, rawSum : Nat, count : Nat, sum : Nat]
    BY ValuesAreNumbers DEF Records
  <2>2. StoredManifests \subseteq CurateManifests
    BY ValuesAreNumbers DEF StoredManifests, CurateManifests
  <2>3. curateManifest \in [Dates -> CurateManifests \cup {None}]
    BY <2>2 DEF CTypes
  <2>4. rec \in [CurateTasks -> [rawCount : Nat, rawSum : Nat,
                                 count : Nat, sum : Nat]]
    BY <2>1 DEF CTypes
  <2> QED BY <2>3, <2>4 DEF CTypes, CurateTypeOK
<1> QED BY <1>1, <1>2, <1>3, PTL DEF Spec

-----------------------------------------------------------------------------
(***************************************************************************)
(* Part 7: who works on which date.  What others rely on that compose      *)
(* Curate with the writers of the raw table.                               *)
(***************************************************************************)
\* A task that changed a date, or whose statement still may, was started for it.
Owners ==
    /\ \A d \in Dates : lastCurator[d] # None =>
          /\ cpc[lastCurator[d]] # "off"
          /\ runDate[lastCurator[d]] = d
    /\ \A s \in curateInflight : /\ cpc[s.task] # "off"
                                 /\ runDate[s.task] = s.date

\* A step of a task, seen from outside.
LEMMA TaskShape ==
    ASSUME CTypes, NEW c \in CurateTasks, CurateJobStep(c) \/ CrashCurate(c)
    PROVE  /\ cpc[c] # "off" /\ cpc'[c] # "off" /\ runDate' = runDate
           /\ \A e \in CurateTasks : e # c => cpc'[e] = cpc[e]
           /\ \/ lastCurator' = lastCurator
              \/ lastCurator' = [lastCurator EXCEPT ![runDate[c]] = c]
           /\ \A s \in curateInflight' : \/ s \in curateInflight
                                         \/ s.task = c /\ s.date = runDate[c]
           /\ steady \subseteq steady'
           /\ cpc'[c] \in AfterCount \cup {"ok"} =>
                 cpc[c] \in AfterCount \/ c \in steady'
<1> USE DEF curateTable, curateLocals, CurateStep, CurateExit, CurateExits,
            AfterCount, CTypes
<1>1. CASE CountRaw(c) \/ SumRaw(c) \/ CountCurated(c) \/ SumCurated(c)
  BY <1>1 DEF CountRaw, SumRaw, CountCurated, SumCurated, Query
<1>2. CASE DeleteCurated(c) \/ InsertCurated(c)
  <2>1. PICK kind \in CurateKinds, next \in {"select", "count"} :
           CuratedStatement(c, kind, next)
    BY <1>2 DEF DeleteCurated, InsertCurated, CurateKinds
  <2> DEFINE st == [kind |-> kind, task |-> c, date |-> runDate[c],
                    rows |-> reading[c]]
  <2>2. /\ cpc[c] = kind /\ UNCHANGED <<runDate, steady>>
        /\ \E label \in {next, "failed"} : cpc' = [cpc EXCEPT ![c] = label]
        /\ CurateEffect(st) \/ lastCurator' = lastCurator
        /\ curateInflight' \subseteq curateInflight \cup {st}
    BY <2>1 DEF CuratedStatement
  <2>3. st.task = c /\ st.date = runDate[c]
    OBVIOUS
  <2>4. \/ lastCurator' = lastCurator
        \/ lastCurator' = [lastCurator EXCEPT ![runDate[c]] = c]
    BY <2>2, <2>3 DEF CurateEffect
  <2> HIDE DEF st
  <2>5. /\ cpc'[c] \in {next, "failed"}
        /\ \A e \in CurateTasks : e # c => cpc'[e] = cpc[e]
        /\ cpc[c] \in AfterCount
    BY <2>2 DEF CurateKinds
  <2>6. \A q \in curateInflight' : \/ q \in curateInflight
                                   \/ q.task = c /\ q.date = runDate[c]
    BY <2>2, <2>3
  <2>7. cpc[c] # "off" /\ cpc'[c] # "off" /\ runDate' = runDate
        /\ steady \subseteq steady'
    BY <2>2, <2>5
  <2> QED BY <2>4, <2>5, <2>6, <2>7
<1>3. CASE SelectRaw(c)
  BY <1>3 DEF SelectRaw
<1>4. CASE CurateFailed(c) \/ CurateReconcile(c)
  BY <1>4 DEF CurateFailed, CurateReconcile, UploadCurateManifest
<1>5. CASE CrashCurate(c)
  <2>1. /\ cpc[c] # "off" /\ cpc' = [cpc EXCEPT ![c] = "crashed"]
        /\ UNCHANGED <<runDate, lastCurator, steady>>
    BY <1>5 DEF CrashCurate, Curating
  <2>2. /\ cpc'[c] = "crashed"
        /\ \A e \in CurateTasks : e # c => cpc'[e] = cpc[e]
    BY <2>1
  <2>3. \A s \in curateInflight' : \/ s \in curateInflight
                                   \/ s.task = c /\ s.date = runDate[c]
    <3> DEFINE st == [kind |-> cpc[c], task |-> c, date |-> runDate[c],
                      rows |-> reading[c]]
    <3>1. curateInflight' \subseteq curateInflight \cup {st}
      <4> HIDE DEF st
      <4> QED BY <1>5 DEF CrashCurate, st
    <3>2. st.task = c /\ st.date = runDate[c]
      OBVIOUS
    <3> HIDE DEF st
    <3> QED BY <3>1, <3>2
  <2> QED BY <2>1, <2>2, <2>3
<1> QED BY <1>1, <1>2, <1>3, <1>4, <1>5 DEF CurateJobStep

LEMMA OwnersInitial == Init => Owners
BY DEF Init, CurateInit, Owners

LEMMA OwnersKept ==
    ASSUME CInv, Owners, [Next]_vars
    PROVE  Owners'
<1>0. /\ CTypes
      /\ \A d \in Dates : lastCurator[d] # None => lastCurator[d] \in CurateTasks
      /\ \A s \in curateInflight : s.task \in CurateTasks /\ s.date \in Dates
  BY DEF CInv, CTypes, CurateStatements
<1>1. CASE \/ \E R \in SUBSET RawCopies : RawChanges(R)
           \/ UNCHANGED vars
  BY <1>1 DEF RawChanges, vars, curateVars, curateTable, curateLocals, Owners
<1>2. ASSUME NEW c \in CurateTasks, NEW d \in Dates, StartCurate(c, d)
      PROVE  Owners'
  BY <1>0, <1>2 DEF StartCurate, CurateStep, curateTable, CTypes, Owners
<1>3. ASSUME NEW c \in CurateTasks, CurateJobStep(c) \/ CrashCurate(c)
      PROVE  Owners'
  <2>1. /\ cpc[c] # "off" /\ cpc'[c] # "off" /\ runDate' = runDate
        /\ \A e \in CurateTasks : e # c => cpc'[e] = cpc[e]
        /\ \/ lastCurator' = lastCurator
           \/ lastCurator' = [lastCurator EXCEPT ![runDate[c]] = c]
        /\ \A s \in curateInflight' : \/ s \in curateInflight
                                      \/ s.task = c /\ s.date = runDate[c]
    BY <1>0, <1>3, TaskShape
  <2>2. ASSUME NEW e \in CurateTasks, cpc[e] # "off" PROVE cpc'[e] # "off"
    BY <2>1, <2>2
  <2>3. ASSUME NEW d \in Dates, lastCurator'[d] # None
        PROVE  /\ cpc'[lastCurator'[d]] # "off"
               /\ runDate'[lastCurator'[d]] = d
    <3>1. lastCurator'[d] = lastCurator[d] \/ (lastCurator'[d] = c /\ runDate[c] = d)
      BY <1>0, <2>1 DEF CTypes
    <3> QED BY <1>0, <2>1, <2>2, <2>3, <3>1 DEF Owners
  <2>4. ASSUME NEW s \in curateInflight'
        PROVE  cpc'[s.task] # "off" /\ runDate'[s.task] = s.date
    BY <1>0, <2>1, <2>2 DEF Owners
  <2> QED BY <2>3, <2>4 DEF Owners
<1>4. ASSUME NEW s \in curateInflight, CurateAthenaEnds(s)
      PROVE  Owners'
  <2>1. /\ curateInflight' \subseteq curateInflight
        /\ UNCHANGED <<cpc, runDate>>
        /\ \/ lastCurator' = lastCurator
           \/ lastCurator' = [lastCurator EXCEPT ![s.date] = s.task]
    BY <1>4 DEF CurateAthenaEnds, CurateEffect, curateLocals
  <2>2. ASSUME NEW d \in Dates, lastCurator'[d] # None
        PROVE  /\ cpc[lastCurator'[d]] # "off"
               /\ runDate[lastCurator'[d]] = d
    BY <1>0, <2>1, <2>2 DEF Owners, CTypes
  <2> QED BY <2>1, <2>2 DEF Owners
<1> QED BY <1>1, <1>2, <1>3, <1>4 DEF Next

-----------------------------------------------------------------------------
(***************************************************************************)
(* Part 8: what is copied.  Seen from the copies of one task, a step keeps *)
(* them, takes the date away, or adds all that one SELECT saw.             *)
(***************************************************************************)
CopiedBy(c, d) == {k.src : k \in {l \in CuratedRows(d) : l.task = c}}

\* The copies of e on d after a statement of c for date has taken effect.
Copied(e, d, c, date, R) ==
    \/ CopiedBy(e, d)' = CopiedBy(e, d)
    \/ CopiedBy(e, d)' = {}
    \/ e = c /\ d = date /\ CopiedBy(e, d)' = CopiedBy(e, d) \cup R

LEMMA EffectCopies ==
    ASSUME CTypes, NEW s, CurateEffect(s), OfDate(s.rows, s.date)
    PROVE  \A e \in CurateTasks, d \in Dates : Copied(e, d, s.task, s.date, s.rows)
<1> SUFFICES ASSUME NEW e \in CurateTasks, NEW d \in Dates
             PROVE  Copied(e, d, s.task, s.date, s.rows)
  OBVIOUS
<1>1. CASE s.kind = "delete"
  <2>1. curated' = curated \ CuratedRows(s.date)
    BY <1>1 DEF CurateEffect
  <2>2. CASE d = s.date
    <3>1. CuratedRows(d)' = {}
      BY <2>1, <2>2 DEF CuratedRows
    <3> QED BY <3>1 DEF Copied, CopiedBy
  <2>3. CASE d # s.date
    <3>1. CuratedRows(d)' = CuratedRows(d)
      BY <2>1, <2>3 DEF CuratedRows
    <3> QED BY <3>1 DEF Copied, CopiedBy
  <2> QED BY <2>2, <2>3
<1>2. CASE s.kind # "delete"
  <2>1. curated' = curated \cup CuratedOf(s.task, s.rows)
    BY <1>2 DEF CurateEffect
  <2>2. \A k \in CuratedOf(s.task, s.rows) :
           k.src \in s.rows /\ k.task = s.task /\ RawDate[k.src] = s.date
    BY DEF CuratedOf, OfDate
  <2>3. CASE d # s.date \/ e # s.task
    <3>1. {l \in CuratedRows(d)' : l.task = e} = {l \in CuratedRows(d) : l.task = e}
      BY <2>1, <2>2, <2>3 DEF CuratedRows
    <3> QED BY <3>1 DEF Copied, CopiedBy
  <2>4. CASE d = s.date /\ e = s.task
    <3>1. {l \in CuratedRows(d)' : l.task = e}
             = {l \in CuratedRows(d) : l.task = e} \cup CuratedOf(e, s.rows)
      BY <2>1, <2>2, <2>4 DEF CuratedRows
    <3>2. {k.src : k \in CuratedOf(e, s.rows)} = s.rows
      <4>1. \A k \in CuratedOf(e, s.rows) : k.src \in s.rows
        BY <2>2, <2>4
      <4>2. \A r \in s.rows : \E k \in CuratedOf(e, s.rows) : k.src = r
        <5> SUFFICES ASSUME NEW r \in s.rows
                     PROVE  \E k \in CuratedOf(e, s.rows) : k.src = r
          OBVIOUS
        <5>1. [src |-> r, task |-> e] \in CuratedOf(e, s.rows)
          BY DEF CuratedOf
        <5>2. [src |-> r, task |-> e].src = r
          OBVIOUS
        <5> QED BY <5>1, <5>2
      <4> QED BY <4>1, <4>2
    <3>3. CopiedBy(e, d)' = CopiedBy(e, d) \cup s.rows
      BY <3>1, <3>2 DEF CopiedBy
    <3> QED BY <2>4, <3>3 DEF Copied
  <2> QED BY <2>3, <2>4
<1> QED BY <1>1, <1>2

\* A step of a task: what it reads, what it leaves in Athena, what it writes.
LEMMA TaskCopies ==
    ASSUME CTypes, NEW c \in CurateTasks, CurateJobStep(c) \/ CrashCurate(c)
    PROVE  /\ \A e \in CurateTasks : e # c => reading'[e] = reading[e]
           /\ reading'[c] \in {reading[c], {}, RawRows(runDate[c])}
           /\ \A s \in curateInflight' : \/ s \in curateInflight
                                         \/ s.date = runDate[c] /\ s.rows = reading[c]
           /\ \A e \in CurateTasks, d \in Dates :
                 Copied(e, d, c, runDate[c], reading[c])
<1> USE DEF curateTable, curateLocals
<1> DEFINE Reads == /\ \A e \in CurateTasks : e # c => reading'[e] = reading[e]
                    /\ reading'[c] \in {reading[c], {}, RawRows(runDate[c])}
           Leaves == \A s \in curateInflight' :
                        \/ s \in curateInflight
                        \/ s.date = runDate[c] /\ s.rows = reading[c]
           Writes == \A e \in CurateTasks, d \in Dates :
                        Copied(e, d, c, runDate[c], reading[c])
<1>0. reading \in [CurateTasks -> SUBSET RawCopies]
  BY DEF CTypes
<1>a. ASSUME UNCHANGED curated PROVE Writes
  BY <1>a DEF Copied, CopiedBy, CuratedRows
<1>b. ASSUME UNCHANGED curateInflight PROVE Leaves
  BY <1>b
<1>c. ASSUME \/ reading' = reading
             \/ reading' = [reading EXCEPT ![c] = {}]
             \/ reading' = [reading EXCEPT ![c] = RawRows(runDate[c])]
      PROVE  Reads
  BY <1>0, <1>c
<1> SUFFICES Reads /\ Leaves /\ Writes
  OBVIOUS
<1> HIDE DEF Reads, Leaves, Writes
<1>1. CASE CountRaw(c) \/ SumRaw(c) \/ CountCurated(c) \/ SumCurated(c)
  <2>1. /\ UNCHANGED <<curated, curateInflight>>
        /\ reading' = reading \/ reading' = [reading EXCEPT ![c] = {}]
    BY <1>1 DEF CountRaw, SumRaw, CountCurated, SumCurated, Query, CurateExit
  <2> QED BY <2>1, <1>a, <1>b, <1>c
<1>2. CASE DeleteCurated(c) \/ InsertCurated(c)
  <2>1. PICK kind \in CurateKinds, next \in {"select", "count"} :
           CuratedStatement(c, kind, next)
    BY <1>2 DEF DeleteCurated, InsertCurated, CurateKinds
  <2> DEFINE st == [kind |-> kind, task |-> c, date |-> runDate[c],
                    rows |-> reading[c]]
  <2>2. st.task = c /\ st.date = runDate[c] /\ st.rows = reading[c]
    OBVIOUS
  <2>3. /\ reading' = reading
        /\ CurateEffect(st) \/ UNCHANGED curated
        /\ curateInflight' \subseteq curateInflight \cup {st}
    BY <2>1 DEF CuratedStatement
  <2> HIDE DEF st
  <2>4. CurateEffect(st) => Writes
    <3>1. OfDate(st.rows, st.date)
      BY <2>2 DEF CTypes, Dated
    <3> QED BY <2>2, <3>1, EffectCopies DEF Writes
  <2>5. Leaves
    BY <2>2, <2>3 DEF Leaves
  <2> QED BY <2>3, <2>4, <2>5, <1>a, <1>c
<1>3. CASE SelectRaw(c)
  BY <1>3, <1>a, <1>b, <1>c DEF SelectRaw
<1>4. CASE CurateFailed(c) \/ CurateReconcile(c)
  <2>1. /\ UNCHANGED <<curated, curateInflight>>
        /\ reading' = [reading EXCEPT ![c] = {}]
    BY <1>4 DEF CurateFailed, CurateReconcile, UploadCurateManifest, CurateExit
  <2> QED BY <2>1, <1>a, <1>b, <1>c
<1>5. CASE CrashCurate(c)
  <2>1. UNCHANGED curated /\ reading' = [reading EXCEPT ![c] = {}]
    BY <1>5 DEF CrashCurate, CurateExit
  <2>2. Leaves
    <3> DEFINE st == [kind |-> cpc[c], task |-> c, date |-> runDate[c],
                      rows |-> reading[c]]
    <3>1. st.date = runDate[c] /\ st.rows = reading[c]
      OBVIOUS
    <3> HIDE DEF st
    <3>2. curateInflight' \subseteq curateInflight \cup {st}
      BY <1>5 DEF CrashCurate, st
    <3> QED BY <3>1, <3>2 DEF Leaves
  <2> QED BY <2>1, <2>2, <1>a, <1>c
<1> QED BY <1>1, <1>2, <1>3, <1>4, <1>5 DEF CurateJobStep
=============================================================================
