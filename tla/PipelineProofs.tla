--------------------------- MODULE PipelineProofs ---------------------------
(***************************************************************************)
(* Proofs about Pipeline, for every set of trips, dates, export tasks and  *)
(* curate tasks, and every choice of faults.                               *)
(***************************************************************************)
EXTENDS Pipeline, ExportProofs

\* Curate and what is proved of it, about the rows that exports write.
CP == INSTANCE CurateProofs WITH
    raw <- lake,
    RawCopies <- Copies,
    RawID <- [k \in Copies |-> k.id],
    RawDate <- [k \in Copies |-> EventDate[k.id]]

(***************************************************************************)
(* Part 1: Curate's invariant, of the rows of the lake.  CP's definitions  *)
(* are C's, and what Curate assumes of its rows holds of the exports'.     *)
(***************************************************************************)
LEMMA CurationAssumption == CP!CurateAssumption
<1>1. /\ [k \in Copies |-> k.id] \in [Copies -> Nat \ {0}]
      /\ [k \in Copies |-> EventDate[k.id]] \in [Copies -> Dates]
  BY TripsAssumption DEF Copies
<1>2. CP!IsFiniteSet(Copies) /\ CP!IsFiniteSet(CurateTasks)
  BY PipelineAssumption, CopiesFinite DEF IsFiniteSet, CP!IsFiniteSet
<1>3. /\ CurateFaults \subseteq CP!CurateFaultKinds
      /\ None \notin Dates \cup CurateTasks
  BY PipelineAssumption DEF C!CurateFaultKinds, CP!CurateFaultKinds
<1> QED BY <1>1, <1>2, <1>3 DEF CP!CurateAssumption

LEMMA SameCardinality == \A S : C!Cardinality(S) = CP!Cardinality(S)
BY DEF C!Cardinality, CP!Cardinality

LEMMA SameSums ==
    /\ \A R : C!RawSum(R) = CP!RawSum(R)
    /\ \A K : C!CuratedSum(K) = CP!CuratedSum(K)
BY DEF C!RawSum, CP!RawSum, C!CuratedSum, CP!CuratedSum,
       C!MapThenSumSet, CP!MapThenSumSet, C!MapThenFoldSet, CP!MapThenFoldSet

\* The helpers of the actions.
LEMMA SameHelpers ==
    /\ \A d : C!RawRows(d) = CP!RawRows(d)
    /\ \A d : C!CuratedRows(d) = CP!CuratedRows(d)
    /\ \A c, R : C!CuratedOf(c, R) = CP!CuratedOf(c, R)
    /\ C!AthenaFails <=> CP!AthenaFails
    /\ C!NoCounts = CP!NoCounts
    /\ C!CurateExits = CP!CurateExits
    /\ C!CurateKinds = CP!CurateKinds
    /\ \A c : C!CuratedMatch(c) <=> CP!CuratedMatch(c)
    /\ \A c : C!Curating(c) <=> CP!Curating(c)
BY DEF C!RawRows, CP!RawRows, C!CuratedRows, CP!CuratedRows, C!CuratedOf,
       CP!CuratedOf, C!AthenaFails, CP!AthenaFails, C!NoCounts, CP!NoCounts,
       C!CurateExits, CP!CurateExits, C!CurateKinds, CP!CurateKinds,
       C!CuratedMatch, CP!CuratedMatch, C!Curating, CP!Curating

LEMMA SameMoves ==
    /\ \A c, from, to : C!CurateStep(c, from, to) <=> CP!CurateStep(c, from, to)
    /\ \A c, from, exit : C!CurateExit(c, from, exit) <=> CP!CurateExit(c, from, exit)
    /\ \A s : C!CurateEffect(s) <=> CP!CurateEffect(s)
    /\ \A c, success : C!PutCurateManifest(c, success)
                          <=> CP!PutCurateManifest(c, success)
    /\ C!curateTable = CP!curateTable /\ C!curateLocals = CP!curateLocals
<1>1. \A c, from, to : C!CurateStep(c, from, to) <=> CP!CurateStep(c, from, to)
  BY DEF C!CurateStep, CP!CurateStep
<1>2. \A c, from, exit : C!CurateExit(c, from, exit) <=> CP!CurateExit(c, from, exit)
  BY <1>1, SameHelpers DEF C!CurateExit, CP!CurateExit
<1>3. \A s : C!CurateEffect(s) <=> CP!CurateEffect(s)
  BY SameHelpers DEF C!CurateEffect, CP!CurateEffect
<1>4. \A c, success : C!PutCurateManifest(c, success)
                          <=> CP!PutCurateManifest(c, success)
  BY DEF C!PutCurateManifest, CP!PutCurateManifest
<1>5. C!curateTable = CP!curateTable /\ C!curateLocals = CP!curateLocals
  BY DEF C!curateTable, CP!curateTable, C!curateLocals, CP!curateLocals
<1> QED BY <1>1, <1>2, <1>3, <1>4, <1>5

LEMMA SameQueries ==
    ASSUME NEW c, C!CountRaw(c) \/ C!SumRaw(c) \/ C!CountCurated(c) \/ C!SumCurated(c)
    PROVE  CP!CountRaw(c) \/ CP!SumRaw(c) \/ CP!CountCurated(c) \/ CP!SumCurated(c)
<1>1. \A from, to, field, value :
         C!Query(c, from, to, field, value) <=> CP!Query(c, from, to, field, value)
  BY SameMoves, SameHelpers DEF C!Query, CP!Query, C!curateTable, CP!curateTable
<1> QED
  BY <1>1, SameHelpers, SameCardinality, SameSums
  DEF C!CountRaw, CP!CountRaw, C!SumRaw, CP!SumRaw, C!CountCurated, CP!CountCurated,
      C!SumCurated, CP!SumCurated

LEMMA SameJobStep ==
    ASSUME NEW c, C!CurateJobStep(c)
    PROVE  CP!CurateJobStep(c)
<1> USE DEF C!curateTable, CP!curateTable, C!curateLocals, CP!curateLocals
<1>1. \A kind, next : C!CuratedStatement(c, kind, next)
                         <=> CP!CuratedStatement(c, kind, next)
  BY SameMoves, SameHelpers DEF C!CuratedStatement, CP!CuratedStatement
<1>2. C!DeleteCurated(c) \/ C!InsertCurated(c)
         => CP!DeleteCurated(c) \/ CP!InsertCurated(c)
  BY <1>1 DEF C!DeleteCurated, CP!DeleteCurated, C!InsertCurated, CP!InsertCurated
<1>3. C!SelectRaw(c) => CP!SelectRaw(c)
  BY SameMoves, SameHelpers DEF C!SelectRaw, CP!SelectRaw
<1>4. \A success : C!UploadCurateManifest(c, success)
                      <=> CP!UploadCurateManifest(c, success)
  BY SameMoves DEF C!UploadCurateManifest, CP!UploadCurateManifest
<1>5. C!CurateFailed(c) => CP!CurateFailed(c)
  BY SameMoves, <1>4 DEF C!CurateFailed, CP!CurateFailed
<1>6. C!CurateReconcile(c) => CP!CurateReconcile(c)
  BY SameMoves, <1>4
  DEF C!CurateReconcile, CP!CurateReconcile, C!CuratedMatch, CP!CuratedMatch
<1> QED
  BY <1>2, <1>3, <1>5, <1>6, SameQueries DEF C!CurateJobStep, CP!CurateJobStep

LEMMA SameCrash ==
    ASSUME NEW c, C!CrashCurate(c)
    PROVE  CP!CrashCurate(c)
<1>1. C!PutCurateManifest(c, C!CuratedMatch(c))
         <=> CP!PutCurateManifest(c, CP!CuratedMatch(c))
  BY DEF C!PutCurateManifest, CP!PutCurateManifest, C!CuratedMatch, CP!CuratedMatch
<1>2. C!CurateKinds = CP!CurateKinds /\ (C!Curating(c) <=> CP!Curating(c))
  BY SameHelpers
<1>3. /\ C!CurateExit(c, cpc[c], "crashed") <=> CP!CurateExit(c, cpc[c], "crashed")
      /\ C!PutCurateManifest(c, FALSE) <=> CP!PutCurateManifest(c, FALSE)
  BY SameMoves
<1> QED BY <1>1, <1>2, <1>3 DEF C!CrashCurate, CP!CrashCurate

LEMMA SameLate ==
    ASSUME NEW s, C!CurateAthenaEnds(s)
    PROVE  CP!CurateAthenaEnds(s)
BY SameMoves, SameHelpers DEF C!CurateAthenaEnds, CP!CurateAthenaEnds, C!curateLocals, CP!curateLocals

LEMMA SameStart ==
    ASSUME NEW c, NEW d, C!StartCurate(c, d)
    PROVE  CP!StartCurate(c, d)
BY SameMoves DEF C!StartCurate, CP!StartCurate, C!curateTable, CP!curateTable

-----------------------------------------------------------------------------
(***************************************************************************)
(* Part 2: the two together.  A step of the pipeline is a step, or no      *)
(* step, of each: to the curation an export is one of the others that      *)
(* change the raw table.                                                   *)
(***************************************************************************)
PipelineInv == SafeInv /\ ExitInv /\ CP!CInv

LEMMA CurationInductive ==
    ASSUME CP!CInv, [CP!Next]_CP!vars
    PROVE  CP!CInv'
BY CurationAssumption, CP!CurateInductive DEF CP!CurateAssumption

LEMMA CurationInitial ==
    ASSUME CP!Init
    PROVE  CP!CInv
BY CurationAssumption, CP!CurateInitial DEF CP!CurateAssumption

LEMMA ExportSteps ==
    ASSUME TypeOK, [PipelineNext]_pipelineVars
    PROVE  [Next]_vars
<1>1. CASE \E j \in Jobs, s \in Spans : StartExport(j, s)
  BY <1>1 DEF StartExport, Next
<1>2. CASE ExportStep
  <2>1. inflight \subseteq Statements
    BY DEF TypeOK
  <2> QED BY <1>2, <2>1 DEF ExportStep, Next
<1>3. CASE \E c \in CurateTasks, d \in Dates : StartCuration(c, d)
  BY <1>3 DEF StartCuration
<1>4. CASE CurationStep
  BY <1>4 DEF CurationStep
<1>5. CASE UNCHANGED pipelineVars
  BY <1>5 DEF pipelineVars
<1> QED BY <1>1, <1>2, <1>3, <1>4, <1>5 DEF PipelineNext

LEMMA CurationSteps ==
    ASSUME TypeOK, TypeOK', steady \subseteq CurateTasks,
           [PipelineNext]_pipelineVars
    PROVE  [CP!Next]_CP!vars
<1> USE DEF CP!vars, CP!curateVars, CP!curateTable, CP!curateLocals, curateState
<1>1. CASE \E j \in Jobs, s \in Spans : StartExport(j, s)
  BY <1>1 DEF StartExport, StartTask, lakeVars
<1>2. CASE ExportStep
  <2>1. lake' \in SUBSET Copies
    BY DEF TypeOK
  <2>2. CASE lake' = lake
    <3>1. steady' = steady
      BY <1>2, <2>2 DEF ExportStep, C!RawStep
    <3> QED BY <1>2, <2>2, <3>1 DEF ExportStep
  <2>3. CASE lake' # lake
    <3>1. CP!RawStep
      BY <1>2 DEF ExportStep, C!RawStep, CP!RawStep
    <3>2. CP!RawChanges(lake')
      BY <1>2, <2>3, <3>1 DEF ExportStep, CP!RawChanges
    <3> QED BY <2>1, <3>2 DEF CP!Next
  <2> QED BY <2>2, <2>3
<1>3. CASE \E c \in CurateTasks, d \in Dates : StartCuration(c, d)
  BY <1>3, SameStart DEF StartCuration, CP!Next
<1>4. CASE CurationStep
  BY <1>4, SameJobStep, SameCrash, SameLate DEF CurationStep, CP!Next
<1>5. CASE UNCHANGED pipelineVars
  BY <1>5 DEF pipelineVars, vars, lakeVars
<1> QED BY <1>1, <1>2, <1>3, <1>4, <1>5 DEF PipelineNext

LEMMA PipelineInitial == PipelineInit => PipelineInv
<1> SUFFICES ASSUME PipelineInit PROVE PipelineInv
  OBVIOUS
<1>1. SafeInv /\ ExitInv /\ TypeOK
  BY SafeInit, ExitInit DEF PipelineInit, SafeInv, TypeInv
<1>2. CP!Init
  BY <1>1, SameHelpers DEF PipelineInit, C!CurateInit, CP!CurateInit, CP!Init, TypeOK
<1> QED BY <1>1, <1>2, CurationInitial DEF PipelineInv

LEMMA PipelineStep ==
    ASSUME PipelineInv, [PipelineNext]_pipelineVars
    PROVE  PipelineInv'
<1>1. SafeInv /\ ExitInv /\ TypeOK /\ CP!CInv
  BY DEF PipelineInv, SafeInv, TypeInv
<1>2. [Next]_vars
  BY <1>1, ExportSteps
<1>3. SafeInv' /\ ExitInv' /\ TypeOK'
  BY <1>1, <1>2, SafeStep, ExitStep DEF SafeInv, TypeInv
<1>4. CP!CInv'
  <2>1. steady \subseteq CurateTasks
    BY <1>1 DEF CP!CInv, CP!CTypes
  <2> QED BY <1>1, <1>3, <2>1, CurationSteps, CurationInductive
<1> QED BY <1>3, <1>4 DEF PipelineInv

-----------------------------------------------------------------------------
(***************************************************************************)
(* Part 3: reads.  Rows only arrive, so what two runs read of a date is    *)
(* nested; and as each INSERT adds all that a run read, or nothing, every  *)
(* set of rows that a curation can see is whole: with one row of a run it  *)
(* has them all.  What a curation inserts is whole again.                  *)
(***************************************************************************)
\* The run of j on d is past its upload: its file is final.
Filed(j, d) == /\ pc[j] # "off"
               /\ InRun(j) => d < date[j] \/ (d = date[j] /\ Uploaded(j))

\* What runs have read of a date, until their file is up and after.
ReadsOf(d) == {staged[<<j, d>>] : j \in Jobs}
                \cup {rows[j] : j \in {i \in Jobs : pc[i] = "upload" /\ date[i] = d}}

ReadsNested == \A d \in Dates : \A A, B \in ReadsOf(d) :
    A \subseteq PgRows(d) /\ (A \subseteq B \/ B \subseteq A)

Whole(d, R) == \A r \in R :
    /\ r.job \in Jobs /\ Filed(r.job, d)
    /\ r.id \in staged[<<r.job, d>>]
    /\ CopiesOf(r.job, staged[<<r.job, d>>]) \subseteq R

WholeRaw == /\ \A d \in Dates : Whole(d, Partition(d))
            /\ \A s \in inflight : s.kind = "insert" => Filed(s.job, s.date)
WholeCurated ==
    /\ \A c \in CurateTasks : cpc[c] # "off" => Whole(runDate[c], reading[c])
    /\ \A s \in curateInflight : Whole(s.date, s.rows)
    /\ \A d \in Dates, c \in CurateTasks : Whole(d, CP!CopiedBy(c, d))

ReadInv == ReadsNested /\ WholeRaw /\ WholeCurated

LEMMA JobsRun ==
    ASSUME NEW j \in Jobs, JobStep(j) \/ Crash(j)
    PROVE  Running(j)
BY DEF JobStep, Crash, ReadPostgres, UploadParquet, CreateStaging,
       DeletePartition, InsertPartition, CommitStatement, DropStaging,
       UploadFailure, CountLake, SumLake, Reconcile, UploadSummary, Step,
       Running, Exits

\* A run goes on, or ends, and a file that is final stays.
LEMMA EndRunFiled ==
    ASSUME TypeInv, NEW j \in Jobs, InRun(j), NEW success, NEW count,
           EndRun(j, success, count), NEW d \in Dates, d <= date[j]
    PROVE  Filed(j, d)'
<1>1. date[j] \in Int /\ d \in Int
  BY TripsAssumption DEF TypeInv, LoopOK, InRun
<1>2. pc'[j] # "off" /\ (InRun(j)' => date'[j] = date[j] + 1)
  BY DEF EndRun, TypeInv, TypeOK, InRun, Running, Exits
<1> QED BY <1>1, <1>2 DEF Filed

\* What a step of one task leaves alone of the others.
OthersRest(i) == \A j \in Jobs : j # i =>
    pc'[j] = pc[j] /\ date'[j] = date[j] /\ rows'[j] = rows[j]

LEMMA EndRunReads ==
    ASSUME TypeInv, NEW i \in Jobs, NEW success, NEW count, EndRun(i, success, count)
    PROVE  OthersRest(i) /\ pc'[i] # "upload"
<1>1. \A j \in Jobs : j # i => rows'[j] = rows[j]
  BY DEF EndRun, ForgetLocals, TypeInv, TypeOK
<1>2. /\ \A j \in Jobs : j # i => pc'[j] = pc[j] /\ date'[j] = date[j]
      /\ pc'[i] # "upload"
  BY DEF EndRun, TypeInv, TypeOK
<1> QED BY <1>1, <1>2 DEF OthersRest

LEMMA GotoReads ==
    ASSUME TypeInv, NEW i \in Jobs, NEW label, Goto(i, label),
           \A j \in Jobs : j # i => rows'[j] = rows[j]
    PROVE  OthersRest(i) /\ pc'[i] = label /\ date' = date
BY DEF Goto, OthersRest, TypeInv, TypeOK

\* What a task reads.
LEMMA TaskReads ==
    ASSUME TypeInv, NEW i \in Jobs, JobStep(i) \/ Crash(i)
    PROVE  /\ pg' = pg /\ OthersRest(i)
           /\ \/ UNCHANGED staged
              \/ pc[i] = "upload"
                 /\ staged' = [staged EXCEPT ![<<i, date[i]>>] = rows[i]]
           /\ pc'[i] = "upload" => /\ date'[i] = date[i]
                                   /\ rows'[i] = PgRows(date[i])
<1> USE DEF lakeVars, bucketVars, localVars
<1> DEFINE Goal ==
      /\ pg' = pg /\ OthersRest(i)
      /\ \/ UNCHANGED staged
         \/ pc[i] = "upload"
            /\ staged' = [staged EXCEPT ![<<i, date[i]>>] = rows[i]]
      /\ pc'[i] = "upload" => /\ date'[i] = date[i]
                              /\ rows'[i] = PgRows(date[i])
<1> SUFFICES Goal
  OBVIOUS
<1>1. ASSUME NEW success, NEW count, EndRun(i, success, count), UNCHANGED <<pg, staged>>
      PROVE  Goal
  BY <1>1, EndRunReads
<1>2. ASSUME NEW label, Goto(i, label), label # "upload", rows' = rows,
             UNCHANGED <<pg, staged>>
      PROVE  Goal
  BY <1>2, GotoReads
<1>3. CASE ReadPostgres(i)
  <2>1. CASE EndRun(i, FALSE, 0)
    BY <1>1, <1>3, <2>1 DEF ReadPostgres
  <2>2. CASE /\ Step(i, "read", "upload")
             /\ rows' = [rows EXCEPT ![i] = PgRows(date[i])]
    <3>1. Goto(i, "upload") /\ UNCHANGED <<pg, staged>>
      BY <1>3, <2>2 DEF ReadPostgres, Step
    <3>2. /\ \A j \in Jobs : j # i => rows'[j] = rows[j]
          /\ rows'[i] = PgRows(date[i])
      BY <2>2 DEF TypeInv, TypeOK
    <3>3. OthersRest(i) /\ date' = date
      BY <3>1, <3>2, GotoReads
    <3> QED BY <3>1, <3>2, <3>3
  <2> QED BY <1>3, <2>1, <2>2 DEF ReadPostgres
<1>4. CASE UploadParquet(i)
  <2>1. CASE EndRun(i, FALSE, 0) /\ UNCHANGED staged
    BY <1>1, <1>4, <2>1 DEF UploadParquet
  <2>2. CASE /\ Step(i, "upload", "create") /\ UNCHANGED localVars
             /\ staged' = [staged EXCEPT ![<<i, date[i]>>] = rows[i]]
    <3>1. Goto(i, "create") /\ pc[i] = "upload" /\ rows' = rows /\ pg' = pg
      BY <1>4, <2>2 DEF UploadParquet, Step
    <3>2. OthersRest(i) /\ pc'[i] = "create"
      BY <3>1, GotoReads
    <3> QED BY <2>2, <3>1, <3>2
  <2> QED BY <1>4, <2>1, <2>2 DEF UploadParquet
<1> HIDE DEF Goal
<1>5. CASE CreateStaging(i) \/ DeletePartition(i) \/ InsertPartition(i) \/ DropStaging(i)
  <2>1. \E label : label # "upload" /\ Goto(i, label)
    BY <1>5 DEF CreateStaging, DeletePartition, InsertPartition, DropStaging,
                CommitStatement, Step
  <2>2. UNCHANGED <<pg, staged, rows>>
    BY <1>5 DEF CreateStaging, DeletePartition, InsertPartition, DropStaging,
                CommitStatement
  <2> QED BY <1>2, <2>1, <2>2
<1>6. CASE UploadFailure(i) \/ Reconcile(i)
  BY <1>1, <1>6 DEF UploadFailure, Reconcile
<1>7. CASE CountLake(i) \/ SumLake(i)
  <2>1. UNCHANGED <<pg, staged>>
    BY <1>7 DEF CountLake, SumLake
  <2>2. \/ EndRun(i, FALSE, 0)
        \/ rows' = rows /\ \E label : label # "upload" /\ Goto(i, label)
    BY <1>7 DEF CountLake, SumLake, Step, QueryFails
  <2> QED BY <1>1, <1>2, <2>1, <2>2
<1>8. CASE UploadSummary(i)
  <2>1. /\ UNCHANGED <<pg, staged, rows>>
        /\ Goto(i, "ok") \/ Goto(i, "error")
    BY <1>8 DEF UploadSummary
  <2> QED BY <1>2, <2>1
<1>9. CASE Crash(i)
  <2>1. UNCHANGED <<pg, staged>> /\ Goto(i, "crashed")
        /\ rows' = [rows EXCEPT ![i] = {}]
    BY <1>9 DEF Crash, ForgetLocals
  <2>2. \A j \in Jobs : j # i => rows'[j] = rows[j]
    BY <2>1 DEF TypeInv, TypeOK
  <2>3. OthersRest(i) /\ pc'[i] = "crashed"
    BY <2>1, <2>2, GotoReads
  <2> QED BY <2>1, <2>3 DEF Goal
<1> QED BY <1>3, <1>4, <1>5, <1>6, <1>7, <1>8, <1>9 DEF JobStep

LEMMA OwnFiled ==
    ASSUME TypeInv, NEW j \in Jobs, JobStep(j) \/ Crash(j), NEW d \in Dates,
           Filed(j, d)
    PROVE  Filed(j, d)'
<1> USE DEF TypeInv, TypeOK
<1>0. Running(j) /\ pc[j] # "off"
  BY JobsRun DEF Filed
<1>1. date[j] \in Int /\ d \in Int
  BY <1>0, TripsAssumption DEF LoopOK
<1>2. ASSUME InRun(j), NEW success, NEW count, EndRun(j, success, count)
      PROVE  Filed(j, d)'
  <2>1. d <= date[j]
    BY <1>1, <1>2 DEF Filed
  <2> QED BY <1>2, <2>1, EndRunFiled
<1>3. ASSUME NEW label, Goto(j, label), label # "off",
             \/ d < date[j] /\ InRun(j)
             \/ label \in {"create", "delete", "insert", "drop", "cleanup",
                           "failed", "count", "sum", "manifest"} /\ d = date[j]
             \/ label \in Exits
      PROVE  Filed(j, d)'
  BY <1>1, <1>3 DEF Filed, Goto, InRun, Running, Uploaded
<1>4. CASE ReadPostgres(j) \/ UploadParquet(j)
  <2>1. InRun(j) /\ d < date[j]
    BY <1>1, <1>4 DEF ReadPostgres, UploadParquet, Step, InRun, Running, Exits,
                      Filed, Uploaded
  <2> QED BY <1>2, <1>3, <1>4, <2>1 DEF ReadPostgres, UploadParquet, Step
<1>5. CASE CreateStaging(j) \/ DeletePartition(j) \/ InsertPartition(j) \/ DropStaging(j)
  <2>1. InRun(j) /\ (d < date[j] \/ d = date[j])
    BY <1>1, <1>5 DEF CreateStaging, DeletePartition, InsertPartition, DropStaging,
                      CommitStatement, Step, InRun, Running, Exits, Filed
  <2> QED BY <1>3, <1>5, <2>1 DEF CreateStaging, DeletePartition, InsertPartition,
                      DropStaging, CommitStatement, Step
<1>6. CASE UploadFailure(j) \/ Reconcile(j)
  BY <1>2, <1>6 DEF UploadFailure, Reconcile, InRun, Running, Exits
<1>7. CASE CountLake(j) \/ SumLake(j)
  <2>1. InRun(j) /\ (d < date[j] \/ d = date[j])
    BY <1>1, <1>7 DEF CountLake, SumLake, Step, InRun, Running, Exits, Filed
  <2> QED BY <1>2, <1>3, <1>7, <2>1 DEF CountLake, SumLake, Step, QueryFails
<1>8. CASE UploadSummary(j) \/ Crash(j)
  <2>1. \E label \in Exits : Goto(j, label)
    BY <1>8 DEF UploadSummary, Crash, Exits
  <2> QED BY <1>3, <2>1 DEF Exits
<1> QED BY <1>4, <1>5, <1>6, <1>7, <1>8 DEF JobStep

LEMMA FiledStays ==
    ASSUME TypeInv, [Next]_vars, NEW j \in Jobs, NEW d \in Dates, Filed(j, d)
    PROVE  Filed(j, d)' /\ staged'[<<j, d>>] = staged[<<j, d>>]
<1> USE DEF lakeVars, bucketVars, localVars, loopVars
<1>1. CASE UNCHANGED <<pc, date, staged>>
  BY <1>1 DEF Filed, InRun, Running, Uploaded
<1>2. ASSUME NEW i \in Jobs, NEW s \in Spans, StartTask(i, s)
      PROVE  Filed(j, d)' /\ staged'[<<j, d>>] = staged[<<j, d>>]
  <2>1. i # j /\ staged' = staged
    BY <1>2 DEF StartTask, Filed
  <2>2. pc'[j] = pc[j] /\ date'[j] = date[j]
    BY <1>2, <2>1 DEF StartTask, TypeInv, TypeOK
  <2> QED BY <2>1, <2>2 DEF Filed, InRun, Running, Uploaded
<1>3. ASSUME NEW i \in Jobs, JobStep(i) \/ Crash(i)
      PROVE  Filed(j, d)' /\ staged'[<<j, d>>] = staged[<<j, d>>]
  <2>1. Filed(j, d)'
    <3>1. CASE i = j
      BY <1>3, <3>1, OwnFiled
    <3>2. CASE i # j
      <4>1. pc'[j] = pc[j] /\ date'[j] = date[j]
        BY <1>3, <3>2, TaskReads DEF OthersRest
      <4> QED BY <4>1 DEF Filed, InRun, Running, Uploaded
    <3> QED BY <3>1, <3>2
  <2>2. CASE pc[i] = "upload"
             /\ staged' = [staged EXCEPT ![<<i, date[i]>>] = rows[i]]
    <3>1. <<j, d>> # <<i, date[i]>>
      <4>1. pc[i] = "upload" => InRun(i) /\ ~Uploaded(i) /\ date[i] \in Int
        BY TripsAssumption DEF InRun, Running, Exits, Uploaded, TypeInv, LoopOK
      <4>2. i = j /\ d = date[i] => FALSE
        BY <2>2, <4>1 DEF Filed
      <4> QED BY <4>2
    <3>2. <<j, d>> \in Runs
      BY DEF Runs
    <3> QED BY <2>1, <2>2, <3>1, <3>2 DEF TypeInv, TypeOK
  <2> QED BY <1>3, <2>1, <2>2, TaskReads
<1>4. CASE \E t \in TripIDs : RowArrives(t)
  BY <1>1, <1>4 DEF RowArrives
<1>5. CASE \E s \in Statements : AthenaEnds(s)
  BY <1>1, <1>5 DEF AthenaEnds
<1>6. CASE UNCHANGED vars
  BY <1>1, <1>6 DEF vars
<1> QED BY <1>2, <1>3, <1>4, <1>5, <1>6 DEF Next

LEMMA FiledStay ==
    ASSUME TypeInv, [Next]_vars
    PROVE  \A j \in Jobs, d \in Dates : Filed(j, d) =>
               Filed(j, d)' /\ staged'[<<j, d>>] = staged[<<j, d>>]
BY FiledStays

LEMMA WholeStays ==
    ASSUME TypeInv, [Next]_vars, NEW d \in Dates, NEW R, Whole(d, R)
    PROVE  Whole(d, R)'
BY FiledStay DEF Whole, CopiesOf

\* Rows only arrive, and a read takes all that there are.
LEMMA ReadsGrow ==
    ASSUME TypeInv, [Next]_vars, NEW d \in Dates
    PROVE  /\ pg \subseteq pg'
           /\ ReadsOf(d)' \subseteq ReadsOf(d) \cup {PgRows(d)}
<1> USE DEF lakeVars, bucketVars, localVars, loopVars
<1>1. CASE UNCHANGED <<pc, date, staged, rows>> /\ pg \subseteq pg'
  BY <1>1 DEF ReadsOf
<1>2. ASSUME NEW i \in Jobs, NEW s \in Spans, StartTask(i, s)
      PROVE  /\ pg \subseteq pg'
             /\ ReadsOf(d)' \subseteq ReadsOf(d) \cup {PgRows(d)}
  <2>1. /\ UNCHANGED <<pg, staged, rows>> /\ pc'[i] # "upload"
        /\ \A j \in Jobs : j # i => pc'[j] = pc[j] /\ date'[j] = date[j]
    BY <1>2 DEF StartTask, TypeInv, TypeOK
  <2> QED BY <2>1 DEF ReadsOf
<1>3. ASSUME NEW i \in Jobs, JobStep(i) \/ Crash(i)
      PROVE  /\ pg \subseteq pg'
             /\ ReadsOf(d)' \subseteq ReadsOf(d) \cup {PgRows(d)}
  <2>1. /\ pg' = pg
        /\ \A j \in Jobs : j # i => /\ pc'[j] = pc[j] /\ date'[j] = date[j]
                                    /\ rows'[j] = rows[j]
        /\ pc'[i] = "upload" => date'[i] = date[i] /\ rows'[i] = PgRows(date[i])
    BY <1>3, TaskReads DEF OthersRest
  <2>2. \A j \in Jobs : pc'[j] = "upload" /\ date'[j] = d =>
            rows'[j] \in ReadsOf(d) \cup {PgRows(d)}
    BY <2>1 DEF ReadsOf
  <2>3. \A j \in Jobs : staged'[<<j, d>>] \in ReadsOf(d)
    <3>1. CASE UNCHANGED staged
      BY <3>1 DEF ReadsOf
    <3>2. CASE pc[i] = "upload"
               /\ staged' = [staged EXCEPT ![<<i, date[i]>>] = rows[i]]
      <4> SUFFICES ASSUME NEW j \in Jobs PROVE staged'[<<j, d>>] \in ReadsOf(d)
        OBVIOUS
      <4>1. CASE j = i /\ d = date[i]
        <5>1. staged'[<<j, d>>] = rows[i]
          BY <3>2, <4>1 DEF TypeInv, TypeOK, Runs
        <5> QED BY <3>2, <4>1, <5>1 DEF ReadsOf
      <4>2. CASE ~(j = i /\ d = date[i])
        <5>1. <<j, d>> # <<i, date[i]>> /\ <<j, d>> \in Runs
          BY <4>2 DEF Runs
        <5>2. staged'[<<j, d>>] = staged[<<j, d>>]
          BY <3>2, <5>1 DEF TypeInv, TypeOK
        <5> QED BY <5>2 DEF ReadsOf
      <4> QED BY <4>1, <4>2
    <3> QED BY <1>3, <3>1, <3>2, TaskReads
  <2> QED BY <2>1, <2>2, <2>3 DEF ReadsOf
<1>4. CASE \E t \in TripIDs : RowArrives(t)
  BY <1>1, <1>4 DEF RowArrives
<1>5. CASE \E s \in Statements : AthenaEnds(s)
  BY <1>1, <1>5 DEF AthenaEnds
<1>6. CASE UNCHANGED vars
  BY <1>1, <1>6 DEF vars
<1> QED BY <1>2, <1>3, <1>4, <1>5, <1>6 DEF Next

LEMMA NestedKept ==
    ASSUME TypeInv, [Next]_vars, ReadsNested
    PROVE  ReadsNested'
<1> SUFFICES ASSUME NEW d \in Dates, NEW A \in ReadsOf(d)', NEW B \in ReadsOf(d)'
             PROVE  A \subseteq PgRows(d)' /\ (A \subseteq B \/ B \subseteq A)
  BY DEF ReadsNested
<1>1. pg \subseteq pg' /\ {A, B} \subseteq ReadsOf(d) \cup {PgRows(d)}
  BY ReadsGrow
<1>2. PgRows(d) \subseteq PgRows(d)'
  BY <1>1 DEF PgRows
<1>3. /\ \A R \in ReadsOf(d) : R \subseteq PgRows(d)
      /\ \A R, Q \in ReadsOf(d) : R \subseteq Q \/ Q \subseteq R
  BY DEF ReadsNested
<1> QED BY <1>1, <1>2, <1>3

\* What statements of the exports do, in step or late.
LEMMA ExportWrites ==
    ASSUME TypeInv, WholeRaw, [Next]_vars
    PROVE  /\ \/ lake' = lake
              \/ \E s \in Statements : /\ Effect(s)
                                       /\ s.kind = "insert" => Filed(s.job, s.date)
           /\ \A s \in inflight' : s.kind = "insert" => Filed(s.job, s.date)
<1> USE DEF lakeVars, bucketVars, localVars, loopVars
<1> DEFINE Goal == /\ \/ lake' = lake
                      \/ \E s \in Statements :
                            /\ Effect(s)
                            /\ s.kind = "insert" => Filed(s.job, s.date)
                   /\ \A s \in inflight' : s.kind = "insert" => Filed(s.job, s.date)
<1> SUFFICES Goal
  OBVIOUS
<1>1. \A s \in inflight : s.kind = "insert" => Filed(s.job, s.date)
  BY DEF WholeRaw
<1>2. CASE lake' = lake /\ inflight' = inflight
  BY <1>1, <1>2
<1>3. ASSUME NEW j \in Jobs, NEW kind \in Kinds, Running(j),
             kind = "insert" => pc[j] = "insert",
             \/ RunSucceeds(j, kind) \/ RunFails(j, kind)
             \/ lake' = lake /\ inflight' = inflight \cup {Statement(j, kind)}
      PROVE  Goal
  <2>1. /\ Statement(j, kind) \in Statements
        /\ Statement(j, kind).kind = kind /\ Statement(j, kind).job = j
        /\ Statement(j, kind).date = date[j]
    BY <1>3 DEF Statement, Statements, TypeInv, LoopOK
  <2>2. kind = "insert" => Filed(j, date[j])
    BY <1>3 DEF Filed, Uploaded
  <2> QED BY <1>1, <1>3, <2>1, <2>2 DEF RunSucceeds, RunFails
<1> HIDE DEF Goal
<1>4. ASSUME NEW i \in Jobs, JobStep(i) PROVE Goal
  <2>1. Running(i)
    BY <1>4, JobsRun
  <2>2. CASE CreateStaging(i) \/ DeletePartition(i) \/ InsertPartition(i) \/ DropStaging(i)
    <3>1. \E kind \in Kinds : /\ kind = "insert" => pc[i] = "insert"
                              /\ RunSucceeds(i, kind) \/ RunFails(i, kind)
      BY <2>2 DEF CreateStaging, DeletePartition, InsertPartition, DropStaging,
                  CommitStatement, Step, Kinds
    <3> QED BY <1>3, <2>1, <3>1
  <2>3. CASE ~(CreateStaging(i) \/ DeletePartition(i) \/ InsertPartition(i) \/ DropStaging(i))
    <3>1. lake' = lake /\ inflight' = inflight
      BY <1>4, <2>3 DEF JobStep, ReadPostgres, UploadParquet, UploadFailure,
         CountLake, SumLake, Reconcile, UploadSummary
    <3> QED BY <1>2, <3>1 DEF Goal
  <2> QED BY <2>2, <2>3
<1>5. ASSUME NEW i \in Jobs, Crash(i) PROVE Goal
  <2>1. Running(i) /\ lake' = lake
    BY <1>5 DEF Crash
  <2>2. \/ inflight' = inflight
        \/ \E kind \in Kinds :
              /\ pc[i] = kind \/ (pc[i] = "cleanup" /\ kind = "drop")
              /\ inflight' = inflight \cup {Statement(i, kind)}
    BY <1>5 DEF Crash
  <2>3. CASE inflight' = inflight
    BY <1>2, <2>1, <2>3 DEF Goal
  <2>4. CASE \E kind \in Kinds :
                /\ pc[i] = kind \/ (pc[i] = "cleanup" /\ kind = "drop")
                /\ inflight' = inflight \cup {Statement(i, kind)}
    BY <1>3, <2>1, <2>4
  <2> QED BY <2>2, <2>3, <2>4
<1>6. ASSUME NEW s \in Statements, AthenaEnds(s) PROVE Goal
  BY <1>1, <1>6 DEF AthenaEnds, Goal
<1>7. CASE (\E t \in TripIDs : RowArrives(t)) \/ UNCHANGED vars
  BY <1>2, <1>7 DEF RowArrives, vars, Goal
<1>8. ASSUME NEW j \in Jobs, NEW s \in Spans, StartTask(j, s) PROVE Goal
  BY <1>2, <1>8 DEF StartTask, Goal
<1> QED BY <1>4, <1>5, <1>6, <1>7, <1>8 DEF Next

\* What becomes of the rows of a date: as they were, without the date, or with
\* all that one run has read.
LEMMA PartitionSteps ==
    ASSUME TypeInv, StagedOfDate, WholeRaw, [Next]_vars, NEW d \in Dates
    PROVE  \/ Partition(d)' = Partition(d)
           \/ Partition(d)' = {}
           \/ \E j \in Jobs :
                 /\ Filed(j, d)
                 /\ Partition(d)' = Partition(d) \cup CopiesOf(j, staged[<<j, d>>])
<1>1. CASE lake' = lake
  BY <1>1 DEF Partition
<1>2. ASSUME NEW s \in Statements, Effect(s),
             s.kind = "insert" => Filed(s.job, s.date), s.date = d
      PROVE  \/ Partition(d)' = Partition(d)
             \/ Partition(d)' = {}
             \/ \E j \in Jobs :
                   /\ Filed(j, d)
                   /\ Partition(d)' = Partition(d) \cup CopiesOf(j, staged[<<j, d>>])
  <2>1. s.job \in Jobs /\ s.kind \in Kinds
    BY DEF Statements
  <2>2. CASE s.kind = "insert"
    <3> DEFINE new == CopiesOf(s.job, staged[<<s.job, d>>])
    <3>1. \A c \in new : EventDate[c.id] = d
      BY <2>1 DEF CopiesOf, StagedOfDate, OfDate
    <3>2. lake' = lake \cup new
      BY <1>2, <2>2 DEF Effect
    <3> HIDE DEF new
    <3>3. Partition(d)' = Partition(d) \cup new
      BY <3>1, <3>2 DEF Partition
    <3> QED BY <1>2, <2>1, <2>2, <3>3 DEF new
  <2>3. CASE s.kind = "delete"
    <3>1. lake' = lake \ Partition(d)
      BY <1>2, <2>3 DEF Effect
    <3> QED BY <3>1 DEF Partition
  <2>4. CASE s.kind \notin {"insert", "delete"}
    <3>1. lake' = lake
      BY <1>2, <2>1, <2>4, EffectLocal DEF Writing
    <3> QED BY <1>1, <3>1
  <2> QED BY <2>2, <2>3, <2>4
<1>3. ASSUME NEW s \in Statements, Effect(s), s.date # d
      PROVE  Partition(d)' = Partition(d)
  BY <1>3, EffectLocal
<1> QED BY <1>1, <1>2, <1>3, ExportWrites

LEMMA WholeUnion ==
    ASSUME TypeInv, NEW d \in Dates, NEW j \in Jobs, Filed(j, d),
           NEW R, Whole(d, R)
    PROVE  Whole(d, R \cup CopiesOf(j, staged[<<j, d>>]))
BY DEF Whole, CopiesOf

LEMMA WholeRawKept ==
    ASSUME TypeInv, StagedOfDate, WholeRaw, [Next]_vars, TypeInv'
    PROVE  WholeRaw'
<1>1. \A s \in inflight' : s.kind = "insert" => Filed(s.job, s.date)'
  <2>1. \A s \in inflight' : s.job \in Jobs /\ s.date \in Dates
    BY DEF TypeInv, TypeOK, Statements
  <2> QED BY <2>1, ExportWrites, FiledStay
<1>2. ASSUME NEW d \in Dates PROVE Whole(d, Partition(d))'
  <2>1. PICK R : R = Partition(d)'
    OBVIOUS
  <2>2. Whole(d, R)
    <3>1. Whole(d, Partition(d)) /\ Whole(d, {})
      BY DEF WholeRaw, Whole
    <3>2. \A j \in Jobs : Filed(j, d) =>
              Whole(d, Partition(d) \cup CopiesOf(j, staged[<<j, d>>]))
      BY <3>1, WholeUnion
    <3> QED BY <2>1, <3>1, <3>2, PartitionSteps
  <2>3. Whole(d, R)'
    BY <2>2, WholeStays
  <2> QED BY <2>1, <2>3 DEF Whole
<1> QED BY <1>1, <1>2 DEF WholeRaw

\* The raw rows that a curation sees, and so what its INSERT adds, are whole.
LEMMA CurationCopies ==
    ASSUME CP!CTypes, NEW c \in CurateTasks,
           CP!CurateJobStep(c) \/ CP!CrashCurate(c)
    PROVE  /\ cpc[c] # "off" /\ runDate' = runDate
           /\ \A e \in CurateTasks : e # c =>
                 cpc'[e] = cpc[e] /\ reading'[e] = reading[e]
           /\ reading'[c] \in {reading[c], {}, CP!RawRows(runDate[c])}
           /\ \A s \in curateInflight' : \/ s \in curateInflight
                                         \/ s.date = runDate[c] /\ s.rows = reading[c]
           /\ \A e \in CurateTasks, d \in Dates :
                 CP!Copied(e, d, c, runDate[c], reading[c])
BY CurationAssumption, CP!TaskShape, CP!TaskCopies DEF CP!CurateAssumption

LEMMA LateCopies ==
    ASSUME CP!CTypes, NEW s, CP!CurateEffect(s), CP!OfDate(s.rows, s.date)
    PROVE  \A e \in CurateTasks, d \in Dates :
              CP!Copied(e, d, s.task, s.date, s.rows)
BY CurationAssumption, CP!EffectCopies DEF CP!CurateAssumption

LEMMA WholeTogether ==
    ASSUME NEW d, NEW R, NEW Q, Whole(d, R), Whole(d, Q)
    PROVE  Whole(d, R \cup Q)
BY DEF Whole

\* Copies stay whole when nothing is added, or what is added is whole.
LEMMA CopiesStayWhole ==
    ASSUME TypeInv, [Next]_vars, WholeCurated, NEW e \in CurateTasks, NEW d \in Dates,
           NEW c, NEW D, NEW R, CP!Copied(e, d, c, D, R),
           d = D => Whole(d, R)
    PROVE  Whole(d, CP!CopiedBy(e, d))'
<1>1. PICK Q : Q = CP!CopiedBy(e, d)'
  OBVIOUS
<1>2. Whole(d, CP!CopiedBy(e, d)) /\ Whole(d, {})
  BY DEF WholeCurated, Whole
<1>3. Whole(d, Q)
  BY <1>1, <1>2, WholeTogether DEF CP!Copied
<1>4. Whole(d, Q)'
  BY <1>3, WholeStays
<1> QED BY <1>1, <1>4 DEF Whole

LEMMA WholeCuratedKept ==
    ASSUME TypeInv, CP!CTypes, WholeRaw, WholeCurated,
           [Next]_vars, [PipelineNext]_pipelineVars
    PROVE  WholeCurated'
<1> USE DEF curateState
<1>0. /\ \A c \in CurateTasks : cpc[c] # "off" => Whole(runDate[c], reading[c])
      /\ \A c \in CurateTasks : cpc[c] # "off" => runDate[c] \in Dates
      /\ \A s \in curateInflight : Whole(s.date, s.rows)
      /\ \A s \in curateInflight : s.date \in Dates /\ CP!OfDate(s.rows, s.date)
      /\ \A d \in Dates : Whole(d, {})
  BY DEF WholeCurated, Whole, CP!CTypes, CP!Dated, CP!CurateStatements
<1>1. \A d \in Dates : \A R : Whole(d, R) => Whole(d, R)'
  BY WholeStays
<1>2. ASSUME UNCHANGED curated
      PROVE  \A d \in Dates, c \in CurateTasks : Whole(d, CP!CopiedBy(c, d))'
  BY <1>1, <1>2 DEF WholeCurated, CP!CopiedBy, CP!CuratedRows
<1>3. CASE UNCHANGED <<curated, curateInflight, cpc, runDate, reading>>
  BY <1>0, <1>1, <1>2, <1>3 DEF WholeCurated
<1>4. ASSUME NEW c \in CurateTasks, NEW d \in Dates, StartCuration(c, d)
      PROVE  WholeCurated'
  <2>1. /\ UNCHANGED <<curated, curateInflight, reading>>
        /\ cpc[c] = "off" /\ runDate' = [runDate EXCEPT ![c] = d]
        /\ cpc' = [cpc EXCEPT ![c] = "rawcount"]
    BY <1>4 DEF StartCuration, C!StartCurate, C!CurateStep, C!curateTable
  <2>2. ASSUME NEW e \in CurateTasks, cpc'[e] # "off"
        PROVE  Whole(runDate[e], reading[e])' 
    <3>1. CASE e = c
      <4>1. reading'[e] = {}
        BY <2>1, <3>1 DEF CP!CTypes, CP!Dated
      <4> QED BY <4>1 DEF Whole
    <3>2. CASE e # c
      <4>1. cpc[e] # "off" /\ runDate'[e] = runDate[e] /\ reading'[e] = reading[e]
        BY <2>1, <2>2, <3>2 DEF CP!CTypes
      <4>2. PICK D, R : D \in Dates /\ D = runDate[e] /\ R = reading[e]
        BY <1>0, <4>1
      <4>3. Whole(D, R)'
        BY <1>0, <1>1, <4>1, <4>2
      <4> QED BY <4>1, <4>2, <4>3 DEF Whole
    <3> QED BY <3>1, <3>2
  <2> QED BY <1>0, <1>1, <1>2, <2>1, <2>2 DEF WholeCurated
<1>5. ASSUME NEW c \in CurateTasks, CP!CurateJobStep(c) \/ CP!CrashCurate(c)
      PROVE  WholeCurated'
  <2>1. /\ cpc[c] # "off" /\ runDate' = runDate
        /\ \A e \in CurateTasks : e # c =>
              cpc'[e] = cpc[e] /\ reading'[e] = reading[e]
        /\ reading'[c] \in {reading[c], {}, CP!RawRows(runDate[c])}
        /\ \A s \in curateInflight' : \/ s \in curateInflight
                                      \/ s.date = runDate[c] /\ s.rows = reading[c]
        /\ \A e \in CurateTasks, d \in Dates :
              CP!Copied(e, d, c, runDate[c], reading[c])
    BY <1>5, CurationCopies
  <2>2. PICK D, R : /\ D \in Dates /\ D = runDate[c] /\ R = reading[c]
                     /\ Whole(D, R)
    BY <1>0, <2>1
  <2>3. Whole(D, CP!RawRows(D))
    <3>1. CP!RawRows(D) = Partition(D)
      BY DEF CP!RawRows, Partition, TypeInv, TypeOK
    <3> QED BY <2>2, <3>1 DEF WholeRaw
  <2>4. ASSUME NEW e \in CurateTasks, cpc'[e] # "off"
        PROVE  Whole(runDate[e], reading[e])'
    <3>1. PICK G, Q : /\ G \in Dates /\ G = runDate[e] /\ Q = reading'[e]
                       /\ Whole(G, Q)
      <4>1. CASE e = c
        <5>1. reading'[e] \in {R, {}, CP!RawRows(D)}
          BY <2>1, <2>2, <4>1
        <5> QED BY <1>0, <2>2, <2>3, <4>1, <5>1
      <4>2. CASE e # c
        <5>1. cpc[e] # "off" /\ reading'[e] = reading[e]
          BY <2>1, <2>4, <4>2
        <5> QED BY <1>0, <5>1
      <4> QED BY <4>1, <4>2
    <3>2. Whole(G, Q)' /\ runDate'[e] = G
      BY <1>1, <2>1, <3>1
    <3> QED BY <3>1, <3>2 DEF Whole
  <2>5. \A s \in curateInflight' : Whole(s.date, s.rows)'
    <3>1. \A s \in curateInflight' : s.date \in Dates /\ Whole(s.date, s.rows)
      BY <1>0, <2>1, <2>2
    <3> QED BY <1>1, <3>1
  <2>6. \A d \in Dates, e \in CurateTasks : Whole(d, CP!CopiedBy(e, d))'
    <3>1. \A e \in CurateTasks, d \in Dates : CP!Copied(e, d, c, D, R)
      BY <2>1, <2>2
    <3> QED BY <2>2, <3>1, CopiesStayWhole
  <2> QED BY <2>4, <2>5, <2>6 DEF WholeCurated
<1>6. ASSUME NEW s \in curateInflight, CP!CurateAthenaEnds(s)
      PROVE  WholeCurated'
  <2>1. /\ UNCHANGED <<cpc, runDate, reading>>
        /\ curateInflight' \subseteq curateInflight
        /\ CP!CurateEffect(s) \/ UNCHANGED curated
    BY <1>6 DEF CP!CurateAthenaEnds, CP!curateLocals
  <2>2. PICK T, D, R : T = s.task /\ D = s.date /\ R = s.rows
    OBVIOUS
  <2>3. \A d \in Dates, e \in CurateTasks : Whole(d, CP!CopiedBy(e, d))'
    <3>1. CASE CP!CurateEffect(s)
      <4>1. \A e \in CurateTasks, d \in Dates : CP!Copied(e, d, T, D, R)
        BY <1>0, <2>2, <3>1, LateCopies
      <4> QED BY <1>0, <2>2, <4>1, CopiesStayWhole
    <3>2. CASE UNCHANGED curated
      BY <1>2, <3>2
    <3> QED BY <2>1, <3>1, <3>2
  <2> QED BY <1>0, <1>1, <2>1, <2>3 DEF WholeCurated
<1>7. CASE \E j \in Jobs, s \in Spans : StartExport(j, s)
  BY <1>3, <1>7 DEF StartExport
<1>8. CASE ExportStep
  BY <1>3, <1>8 DEF ExportStep
<1>9. CASE CurationStep
  BY <1>5, <1>6, <1>9, SameJobStep, SameCrash, SameLate DEF CurationStep
<1>10. CASE UNCHANGED pipelineVars
  BY <1>3, <1>10 DEF pipelineVars
<1> QED BY <1>4, <1>7, <1>8, <1>9, <1>10 DEF PipelineNext

LEMMA ReadInitial == PipelineInit => ReadInv
<1> SUFFICES ASSUME PipelineInit PROVE ReadInv
  OBVIOUS
<1>1. \A d \in Dates : ReadsOf(d) \subseteq {{}}
  BY DEF PipelineInit, Init, ReadsOf, Runs
<1>2. ReadsNested
  BY <1>1 DEF ReadsNested
<1>3. WholeRaw
  BY DEF PipelineInit, Init, WholeRaw, Whole, Partition
<1>4. WholeCurated
  BY DEF PipelineInit, C!CurateInit, WholeCurated, Whole, CP!CopiedBy, CP!CuratedRows
<1> QED BY <1>2, <1>3, <1>4 DEF ReadInv

LEMMA ReadStep ==
    ASSUME PipelineInv, ReadInv, [PipelineNext]_pipelineVars, PipelineInv'
    PROVE  ReadInv'
<1>1. TypeInv /\ TypeOK /\ StagedOfDate /\ CP!CTypes /\ TypeInv'
  BY DEF PipelineInv, SafeInv, TypeInv, CP!CInv
<1>2. [Next]_vars
  BY <1>1, ExportSteps
<1> QED BY <1>1, <1>2, NestedKept, WholeRawKept, WholeCuratedKept DEF ReadInv

-----------------------------------------------------------------------------
(***************************************************************************)
(* Part 4: delivery.  What the export says of the raw date and what the    *)
(* curation says of the curated one meet in the raw rows.                  *)
(***************************************************************************)
LEMMA ExactCopiesDeliver ==
    ASSUME NEW d \in Dates, NEW j \in Jobs, NEW c \in CurateTasks,
           NEW S \in SUBSET TripIDs,
           CP!CuratedRows(d) = CP!CuratedOf(c, CopiesOf(j, S))
    PROVE  Delivered(d, S)
<1> DEFINE copy(t) == [src |-> [id |-> t, job |-> j], task |-> c]
           f == [t \in S |-> copy(t)]
           K == C!CuratedRows(d)
<1>2. K = {[src |-> r, task |-> c] : r \in CopiesOf(j, S)}
  BY SameHelpers DEF CP!CuratedOf
<1>3. K = {copy(t) : t \in S}
  BY <1>2 DEF CopiesOf
<1> HIDE DEF K
<1>4. CuratedIDs(d) = S
  <2>1. CuratedIDs(d) = {k.src.id : k \in K}
    BY DEF CuratedIDs, K
  <2>2. \A t \in S : copy(t).src.id = t
    OBVIOUS
  <2> HIDE DEF copy
  <2>3. \A t \in S : copy(t) \in K
    BY <1>3
  <2>4. \A k \in K : \E t \in S : k = copy(t)
    BY <1>3
  <2>5. CuratedIDs(d) \subseteq S
    BY <2>1, <2>2, <2>4
  <2>6. S \subseteq CuratedIDs(d)
    <3> SUFFICES ASSUME NEW t \in S PROVE t \in CuratedIDs(d)
      OBVIOUS
    <3>1. copy(t) \in K /\ copy(t).src.id = t
      BY <2>2, <2>3
    <3> QED BY <2>1, <3>1
  <2> QED BY <2>5, <2>6
<1>5. f \in Bijection(S, K)
  <2>1. f \in [S -> K] /\ \A k \in K : \E t \in S : f[t] = k
    BY <1>3
  <2>2. ASSUME NEW a \in S, NEW b \in S, f[a] = f[b] PROVE a = b
    <3>1. f[a].src.id = a /\ f[b].src.id = b
      OBVIOUS
    <3> QED BY <2>2, <3>1
  <2> HIDE DEF f
  <2> QED BY <2>1, <2>2 DEF Bijection, Injection, Surjection, IsInjective
<1>6. Cardinality(K) = Cardinality(S)
  <2>1. IsFiniteSet(S) /\ ExistsBijection(S, K)
    BY <1>5, TripsAssumption, FS_Subset DEF ExistsBijection
  <2> QED BY <2>1, FS_Bijection
<1> QED BY <1>4, <1>6 DEF Delivered, K

LEMMA CopiesRawDeliver ==
    ASSUME NEW d \in Dates, NEW j \in Jobs, NEW c \in CurateTasks,
           NEW S \in SUBSET TripIDs, Partition(d) = CopiesOf(j, S),
           CP!CopiesRaw(c, d), lake \subseteq Copies
    PROVE  Delivered(d, S)
<1>1. CP!RawRows(d) = Partition(d)
  BY DEF CP!RawRows, Partition
<1> QED BY <1>1, ExactCopiesDeliver DEF CP!CopiesRaw

LEMMA StagedNested ==
    ASSUME ReadInv, NEW d \in Dates, NEW i \in Jobs, NEW j \in Jobs
    PROVE  \/ staged[<<i, d>>] \subseteq staged[<<j, d>>]
           \/ staged[<<j, d>>] \subseteq staged[<<i, d>>]
<1>1. staged[<<i, d>>] \in ReadsOf(d) /\ staged[<<j, d>>] \in ReadsOf(d)
  BY DEF ReadsOf
<1> QED BY <1>1 DEF ReadInv, ReadsNested

\* Without a trip twice, the rows of a curated date are of one run and one
\* curation: what two runs have read is nested, so of two runs one would have
\* brought a trip of the other.
LEMMA OfOneRun ==
    ASSUME TypeInv, CP!CTypes, ReadInv, NEW d \in Dates, NoTripTwice(d),
           CP!CuratedRows(d) # {}
    PROVE  \E j \in Jobs, c \in CurateTasks :
              CP!CuratedRows(d) = CP!CuratedOf(c, CopiesOf(j, staged[<<j, d>>]))
<1> DEFINE K == CP!CuratedRows(d)
           A(j) == staged[<<j, d>>]
           Of(c, j) == CP!CuratedOf(c, CopiesOf(j, A(j)))
           copy(t, j, c) == [src |-> [id |-> t, job |-> j], task |-> c]
<1>1. \A k \in K : /\ k.task \in CurateTasks /\ k.src.job \in Jobs
                   /\ k = copy(k.src.id, k.src.job, k.task)
  BY DEF CP!CuratedRows, CP!CTypes, CP!CuratedCopies, Copies
<1>2. \A k, l \in K : k.src.id = l.src.id => k = l
  BY SameHelpers DEF NoTripTwice
<1>3. ASSUME NEW k \in K
      PROVE  k.src.id \in A(k.src.job) /\ Of(k.task, k.src.job) \subseteq K
  <2> DEFINE R == CP!CopiedBy(k.task, d)
  <2>1. k.src \in R
    BY DEF CP!CopiedBy
  <2>2. Whole(d, R)
    BY <1>1 DEF ReadInv, WholeCurated
  <2>3. /\ k.src.id \in A(k.src.job)
        /\ CopiesOf(k.src.job, A(k.src.job)) \subseteq R
    BY <2>1, <2>2 DEF Whole
  <2>4. ASSUME NEW l \in Of(k.task, k.src.job) PROVE l \in K
    <3>1. l.src \in R /\ l = [src |-> l.src, task |-> k.task]
      BY <2>3 DEF CP!CuratedOf
    <3>2. PICK q \in K : q.task = k.task /\ q.src = l.src
      BY <3>1 DEF CP!CopiedBy
    <3>3. q = [src |-> q.src, task |-> q.task]
      BY <1>1
    <3> QED BY <3>1, <3>2, <3>3
  <2> QED BY <2>3, <2>4
<1>4. \A c, j : \A t \in A(j) : copy(t, j, c) \in Of(c, j)
  BY DEF CP!CuratedOf, CopiesOf
<1>5. \A i, j \in Jobs : A(i) \subseteq A(j) \/ A(j) \subseteq A(i)
  BY StagedNested
<1>6. \A t, j, c : copy(t, j, c).src.id = t
  OBVIOUS
<1>7. PICK x \in K : TRUE
  OBVIOUS
<1> HIDE DEF K, A, Of, copy
<1>8. ASSUME NEW y \in K PROVE y \in Of(x.task, x.src.job)
  <2>1. CASE A(y.src.job) \subseteq A(x.src.job)
    <3>1. y.src.id \in A(x.src.job)
      BY <1>3, <2>1
    <3>2. copy(y.src.id, x.src.job, x.task) \in Of(x.task, x.src.job)
      BY <1>4, <3>1
    <3>3. copy(y.src.id, x.src.job, x.task) \in K
      BY <1>3, <3>2
    <3>4. copy(y.src.id, x.src.job, x.task) = y
      BY <1>2, <1>6, <3>3
    <3> QED BY <3>2, <3>4
  <2>2. CASE A(x.src.job) \subseteq A(y.src.job)
    <3>1. x.src.id \in A(y.src.job)
      BY <1>3, <2>2
    <3>2. copy(x.src.id, y.src.job, y.task) \in Of(y.task, y.src.job)
      BY <1>4, <3>1
    <3>3. copy(x.src.id, y.src.job, y.task) \in K
      BY <1>3, <3>2
    <3>4. copy(x.src.id, y.src.job, y.task) = x
      BY <1>2, <1>6, <3>3
    <3>5. x.src.job = y.src.job /\ x.task = y.task
      BY <3>4 DEF copy
    <3>6. copy(y.src.id, y.src.job, y.task) \in Of(y.task, y.src.job)
      BY <1>3, <1>4
    <3> QED BY <1>1, <3>5, <3>6
  <2> QED BY <1>1, <1>5, <2>1, <2>2
<1>9. K = Of(x.task, x.src.job)
  BY <1>3, <1>8
<1> QED BY <1>1, <1>9 DEF K, Of, A

\* When the manifest of an export and the one of a curation of a date both say
\* success and count the same rows, no statement of a third task came since,
\* and the curated date has no trip twice, then it has just the rows that the
\* export read: whenever the curation ran, and whatever tasks of both kinds
\* overlap, crash, and leave behind (export/main.go:143-184,
\* curate/main.go:113-159).
THEOREM ManifestsDeliver == PipelineSpec => []AgreeingManifestsDeliver
<1>1. PipelineInv /\ ReadInv => AgreeingManifestsDeliver
  <2> SUFFICES ASSUME PipelineInv, ReadInv, NEW d \in Dates,
                      manifest[d] # None, curateManifest[d] # None,
                      manifest[d].success, curateManifest[d].success,
                      lastWriter[d] = manifest[d].job,
                      lastCurator[d] = curateManifest[d].task,
                      manifest[d].rowCount = curateManifest[d].rowCount,
                      NoTripTwice(d)
               PROVE  Delivered(d, staged[<<manifest[d].job, d>>])
    BY DEF AgreeingManifestsDeliver
  <2> DEFINE K == CP!CuratedRows(d)
             S == staged[<<manifest[d].job, d>>]
  <2>1. TypeInv /\ TypeOK /\ CP!CTypes
    BY DEF PipelineInv, SafeInv, TypeInv, CP!CInv
  <2>2. manifest[d].job \in Jobs /\ curateManifest[d].task \in CurateTasks
    <3>1. manifest[d] \in Manifests
      BY <2>1 DEF TypeOK
    <3>2. curateManifest[d] \in CP!StoredManifests
      BY <2>1 DEF CP!CTypes
    <3> QED BY <3>1, <3>2 DEF Manifests, CP!StoredManifests
  <2>3. S \in SUBSET TripIDs
    BY <2>1, <2>2 DEF TypeOK, Runs
  <2>4. Cardinality(K) = Cardinality(S)
    <3>1. manifest[d].rowCount = Cardinality(S)
      BY DEF PipelineInv, SafeInv, EvidencePast
    <3>2. curateManifest[d].rowCount = CP!Cardinality(K)
      BY DEF PipelineInv, CP!CInv, CP!ManifestOK
    <3> QED BY <3>1, <3>2 DEF CP!Cardinality, Cardinality
  <2>5. CASE K = {}
    <3>1. S = {}
      BY <2>3, <2>4, <2>5, TripsAssumption, FS_Subset, FS_EmptySet
    <3>2. K = CP!CuratedOf(curateManifest[d].task, CopiesOf(manifest[d].job, S))
      BY <2>5, <3>1 DEF CP!CuratedOf, CopiesOf
    <3> QED BY <2>2, <2>3, <3>2, ExactCopiesDeliver
  <2>6. CASE K # {}
    <3>1. PICK j \in Jobs, c \in CurateTasks :
             K = CP!CuratedOf(c, CopiesOf(j, staged[<<j, d>>]))
      BY <2>1, <2>6, OfOneRun
    <3>2. staged[<<j, d>>] \in SUBSET TripIDs
      BY <2>1 DEF TypeOK, Runs
    <3>3. Delivered(d, staged[<<j, d>>])
      BY <3>1, <3>2, ExactCopiesDeliver
    <3>4. Cardinality(staged[<<j, d>>]) = Cardinality(S)
      BY <2>4, <3>3, SameHelpers DEF Delivered
    <3>5. staged[<<j, d>>] \subseteq S \/ S \subseteq staged[<<j, d>>]
      BY <2>2, StagedNested
    <3>6. staged[<<j, d>>] = S
      BY <2>3, <3>2, <3>4, <3>5, TripsAssumption, FS_Subset
    <3> QED BY <3>3, <3>6
  <2> QED BY <2>5, <2>6
<1>2. PipelineInv /\ ReadInv /\ [PipelineNext]_pipelineVars => (PipelineInv /\ ReadInv)'
  BY PipelineStep, ReadStep
<1> QED BY PipelineInitial, ReadInitial, <1>1, <1>2, PTL DEF PipelineSpec

-----------------------------------------------------------------------------
(***************************************************************************)
(* Part 5: turns.  While a curation is there no export starts, and none    *)
(* runs when it begins; so as long as one export is all there was, nobody  *)
(* changes the raw rows that a curation has counted.                       *)
(***************************************************************************)
AtMostOne == \A i, k \in Jobs : pc[i] # "off" /\ pc[k] # "off" => i = k
Quiet == inflight = {} /\ \A j \in Jobs : ~Running(j)
Counted(c) == cpc[c] \in CP!AfterCount \cup {"ok"}

Waited(c) == cpc[c] # "off" =>
    /\ \E j \in Jobs : pc[j] # "off"
    /\ AtMostOne => Quiet /\ (Counted(c) => c \in steady)

TurnsInv == turns => \A c \in CurateTasks : Waited(c)

LEMMA OwnersInductive ==
    ASSUME CP!CInv, CP!Owners, [CP!Next]_CP!vars
    PROVE  CP!Owners'
BY CurationAssumption, CP!OwnersKept DEF CP!CurateAssumption

LEMMA CurationShape ==
    ASSUME CP!CTypes, NEW c \in CurateTasks,
           CP!CurateJobStep(c) \/ CP!CrashCurate(c)
    PROVE  /\ cpc[c] # "off" /\ steady \subseteq steady'
           /\ \A e \in CurateTasks : e # c => cpc'[e] = cpc[e]
           /\ Counted(c)' => cpc[c] \in CP!AfterCount \/ c \in steady'
BY CurationAssumption, CP!TaskShape DEF CP!CurateAssumption, Counted, CP!AfterCount

\* Exports that have started do not become as if they had not.
LEMMA Started ==
    ASSUME TypeInv, [Next]_vars
    PROVE  \A i \in Jobs : pc[i] # "off" => pc'[i] # "off"
<1> USE DEF TypeInv, TypeOK
<1>1. CASE UNCHANGED tellVars
  BY <1>1 DEF tellVars
<1>2. CASE \E j \in Jobs, s \in Spans : StartTask(j, s)
  BY <1>2 DEF StartTask
<1>3. ASSUME NEW j \in Jobs, Advances(j) \/ UploadSummary(j) \/ Crash(j)
      PROVE  \A i \in Jobs : pc[i] # "off" => pc'[i] # "off"
  <2>1. PICK label \in PCs \ {"off"} : Goto(j, label)
    BY <1>3 DEF Advances, UploadSummary, Crash, PCs, Exits
  <2> QED BY <2>1 DEF Goto
<1>4. ASSUME NEW j \in Jobs, NEW success \in BOOLEAN, NEW count \in Counts,
             RunEnds(j, success, count)
      PROVE  \A i \in Jobs : pc[i] # "off" => pc'[i] # "off"
  <2>1. \E label \in PCs \ {"off"} : pc' = [pc EXCEPT ![j] = label]
    BY <1>4 DEF RunEnds, EndRun, PCs, Exits
  <2> QED BY <2>1
<1> QED BY <1>1, <1>2, <1>3, <1>4, StepKinds

LEMMA TurnsKept ==
    ASSUME PipelineInv, TurnsInv, [PipelineNext]_pipelineVars
    PROVE  TurnsInv'
<1>0. TypeInv /\ TypeOK /\ CP!CTypes /\ turns' = turns
  <2>1. turns' = turns
    BY DEF PipelineNext, StartExport, ExportStep, StartCuration, CurationStep,
           pipelineVars
  <2> QED BY <2>1 DEF PipelineInv, SafeInv, TypeInv, CP!CInv
<1>1. \A i \in Jobs : pc[i] # "off" => pc'[i] # "off"
  BY <1>0, ExportSteps, Started
<1>2. AtMostOne' => AtMostOne
  BY <1>1 DEF AtMostOne
<1> SUFFICES ASSUME turns, NEW c \in CurateTasks, cpc'[c] # "off"
             PROVE  /\ \E j \in Jobs : pc'[j] # "off"
                    /\ AtMostOne' => Quiet' /\ (Counted(c)' => c \in steady')
  BY <1>0 DEF TurnsInv, Waited
<1>3. \A e \in CurateTasks : Waited(e)
  BY DEF TurnsInv
<1>4. ASSUME NEW i \in Jobs, NEW s \in Spans, StartExport(i, s)
      PROVE  /\ \E j \in Jobs : pc'[j] # "off"
             /\ ~AtMostOne'
  <2>1. cpc[c] # "off"
    BY <1>4 DEF StartExport, curateState
  <2>2. PICK j \in Jobs : pc[j] # "off"
    BY <1>3, <2>1 DEF Waited
  <2>3. pc[i] = "off" /\ pc'[i] # "off"
    BY <1>0, <1>4 DEF StartExport, StartTask, TypeOK
  <2> QED BY <1>1, <2>2, <2>3 DEF AtMostOne
<1>5. CASE ExportStep
  <2>1. cpc[c] # "off" /\ cpc' = cpc
    BY <1>5 DEF ExportStep, curateState
  <2>2. /\ \E j \in Jobs : pc[j] # "off"
        /\ AtMostOne => Quiet /\ (Counted(c) => c \in steady)
    BY <1>3, <2>1 DEF Waited
  <2>3. ASSUME AtMostOne
        PROVE  Quiet' /\ (Counted(c)' => c \in steady')
    <3>1. Quiet /\ (Counted(c) => c \in steady)
      BY <2>2, <2>3
    <3>2. PICK t \in TripIDs : RowArrives(t)
      BY <1>5, <3>1, JobsRun DEF ExportStep, Quiet
    <3>3. lake' = lake /\ inflight' = inflight /\ pc' = pc
      BY <3>2 DEF RowArrives, lakeVars, loopVars
    <3>4. c \in steady => c \in steady'
      BY <1>5, <3>3 DEF ExportStep, C!RawStep
    <3> QED BY <2>1, <3>1, <3>3, <3>4 DEF Quiet, Running, Counted
  <2> QED BY <1>1, <1>2, <2>2, <2>3
<1>6. ASSUME NEW e \in CurateTasks, NEW d \in Dates, StartCuration(e, d)
      PROVE  /\ \E j \in Jobs : pc'[j] # "off"
             /\ AtMostOne' => Quiet' /\ (Counted(c)' => c \in steady')
  <2>1. /\ UNCHANGED <<pc, inflight, steady>>
        /\ Quiet /\ \E j \in Jobs : pc[j] # "off"
        /\ cpc[e] = "off" /\ cpc' = [cpc EXCEPT ![e] = "rawcount"]
    BY <1>6 DEF StartCuration, Quiet, vars, lakeVars, loopVars, C!StartCurate,
                C!CurateStep
  <2>2. Quiet'
    BY <2>1 DEF Quiet, Running
  <2>3. CASE c = e
    <3>1. ~Counted(c)'
      BY <1>0, <2>1, <2>3 DEF Counted, CP!AfterCount, CP!CTypes
    <3> QED BY <2>1, <2>2, <3>1
  <2>4. CASE c # e
    <3>1. cpc'[c] = cpc[c] /\ cpc[c] # "off"
      BY <1>0, <2>1, <2>4 DEF CP!CTypes
    <3>2. AtMostOne => (Counted(c) => c \in steady)
      BY <1>3, <3>1 DEF Waited
    <3> QED BY <1>2, <2>1, <2>2, <3>1, <3>2 DEF Counted
  <2> QED BY <2>3, <2>4
<1>7. CASE CurationStep
  <2>1. UNCHANGED <<pc, inflight>>
    BY <1>7 DEF CurationStep, vars, lakeVars, loopVars
  <2>2. /\ cpc[c] # "off"
        /\ AtMostOne => ((Counted(c) => c \in steady)
                            => (Counted(c)' => c \in steady'))
    <3>1. ASSUME NEW e \in CurateTasks, C!CurateJobStep(e) \/ C!CrashCurate(e)
          PROVE  /\ cpc[c] # "off"
                 /\ (Counted(c) => c \in steady) => (Counted(c)' => c \in steady')
      <4>1. /\ cpc[e] # "off" /\ steady \subseteq steady'
            /\ \A x \in CurateTasks : x # e => cpc'[x] = cpc[x]
            /\ Counted(e)' => cpc[e] \in CP!AfterCount \/ e \in steady'
        BY <1>0, <3>1, SameJobStep, SameCrash, CurationShape
      <4>2. CASE c = e
        BY <4>1, <4>2 DEF Counted
      <4>3. CASE c # e
        BY <4>1, <4>3 DEF Counted
      <4> QED BY <4>2, <4>3
    <3>2. ASSUME NEW s \in curateInflight, C!CurateAthenaEnds(s)
          PROVE  /\ cpc[c] # "off"
                 /\ (Counted(c) => c \in steady) => (Counted(c)' => c \in steady')
      BY <3>2 DEF C!CurateAthenaEnds, C!curateLocals, Counted
    <3> QED BY <1>7, <3>1, <3>2 DEF CurationStep
  <2>3. /\ \E j \in Jobs : pc[j] # "off"
        /\ AtMostOne => Quiet /\ (Counted(c) => c \in steady)
    BY <1>3, <2>2 DEF Waited
  <2>4. Quiet => Quiet'
    BY <2>1 DEF Quiet, Running
  <2> QED BY <1>1, <1>2, <2>2, <2>3, <2>4
<1>8. CASE UNCHANGED pipelineVars
  <2>1. UNCHANGED <<pc, inflight, cpc, steady>>
    BY <1>8 DEF pipelineVars, vars, lakeVars, loopVars, curateState
  <2>2. Quiet => Quiet'
    BY <2>1 DEF Quiet, Running
  <2>3. Counted(c)' <=> Counted(c)
    BY <2>1 DEF Counted
  <2> QED BY <1>2, <1>3, <2>1, <2>2, <2>3 DEF Waited
<1> QED BY <1>4, <1>5, <1>6, <1>7, <1>8 DEF PipelineNext

\* When export and curation wait for each other and all tasks exit with zero,
\* the curated date holds just the rows of its export, for one export of the
\* date and any number of curations (sql/curated/README.md:4).
THEOREM TurnsDeliver == PipelineSpec => []CuratedAfterExport
<1> DEFINE I == PipelineInv /\ CP!Owners /\ TurnsInv
<1>1. I => CuratedAfterExport
  <2> SUFFICES ASSUME I, turns, NEW j \in Jobs, AllOk,
                      \A i \in Jobs \ {j} : pc[i] = "off",
                      NEW d \in Dates, lastWriter[d] = j, lastCurator[d] # None
               PROVE  Delivered(d, staged[<<j, d>>])
    BY DEF CuratedAfterExport, DeliveredAfter
  <2>1. PICK c \in CurateTasks : lastCurator[d] = c
    BY DEF PipelineInv, CP!CInv, CP!CTypes
  <2>2. cpc[c] = "ok" /\ runDate[c] = d
    BY <2>1 DEF CP!Owners, AllOk
  <2>3. c \in steady
    BY <2>2 DEF TurnsInv, Waited, AtMostOne, Counted
  <2>4. CP!CopiesRaw(c, d)
    BY <2>1, <2>2, <2>3 DEF PipelineInv, CP!CInv, CP!TaskOK, CP!RawKnown, CP!CopiesRaw
  <2>5. Exact(j, d)
    BY QuietExact DEF PipelineInv, QuietLakeIsExact, AllOk
  <2>6. staged[<<j, d>>] \in SUBSET TripIDs /\ lake \subseteq Copies
    BY DEF PipelineInv, SafeInv, TypeInv, TypeOK, Runs
  <2> QED BY <2>4, <2>5, <2>6, CopiesRawDeliver DEF Exact
<1>2. PipelineInit => I
  <2> SUFFICES ASSUME PipelineInit PROVE CP!Owners /\ TurnsInv
    BY PipelineInitial
  <2> QED BY DEF PipelineInit, C!CurateInit, CP!Owners, TurnsInv, Waited
<1>3. I /\ [PipelineNext]_pipelineVars => I'
  <2> SUFFICES ASSUME I, [PipelineNext]_pipelineVars PROVE I'
    OBVIOUS
  <2>1. PipelineInv' /\ TurnsInv'
    BY PipelineStep, TurnsKept
  <2>2. [CP!Next]_CP!vars /\ CP!CInv
    BY <2>1, CurationSteps DEF PipelineInv, SafeInv, TypeInv, CP!CInv, CP!CTypes
  <2> QED BY <2>1, <2>2, OwnersInductive
<1> HIDE DEF I
<1> QED BY <1>1, <1>2, <1>3, PTL DEF PipelineSpec
=============================================================================
