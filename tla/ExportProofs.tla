---------------------------- MODULE ExportProofs ----------------------------
(***************************************************************************)
(* Proofs about Export, for every set of trips, dates and jobs.  Parts 1   *)
(* to 5 are about any number of overlapping tasks and every choice of      *)
(* faults; 6 to 8 about tasks that follow each other, with no statement    *)
(* that outlives its caller (OneByOne): what only these promise.           *)
(***************************************************************************)
EXTENDS Export, SumLemmas

(***************************************************************************)
(* Part 1: type correctness.  The domain of date and span depends on the   *)
(* control state, so the invariant that is inductive adds LoopOK.          *)
(***************************************************************************)
LoopOK ==
    \A j \in Jobs : Running(j) =>
        /\ span[j] \in Spans
        /\ date[j] \in Dates
        /\ date[j] <= span[j].last

TypeInv == TypeOK /\ LoopOK

\* What the reconciliation reads has the type of a count and of a checksum.
LEMMA QueryTypes ==
    ASSUME TypeOK, NEW d \in Dates
    PROVE  /\ Cardinality(Partition(d)) \in Counts
           /\ CopyChecksum(Partition(d)) \in Checksums
BY DEF TypeOK, Partition, Counts, Checksums

LEMMA ZeroTypes == 0 \in Counts /\ 0 \in Checksums
BY DEF Counts, Checksums

\* A statement keeps the lake well-typed.
LEMMA EffectTypes ==
    ASSUME TypeOK, NEW s \in Statements, Effect(s)
    PROVE  /\ lake' \subseteq Copies
           /\ stagingTables' \subseteq Runs
           /\ lastWriter' \in [Dates -> Jobs \cup {None}]
<1>1. s \in [kind : Kinds, job : Jobs, date : Dates]
  BY DEF Statements
<1>2. CopiesOf(s.job, staged[<<s.job, s.date>>]) \subseteq Copies
  BY <1>1 DEF TypeOK, CopiesOf, Copies, Runs
<1>3. lake' \subseteq Copies
  BY <1>2 DEF Effect, TypeOK
<1>4. stagingTables' \subseteq Runs
  BY <1>1 DEF Effect, TypeOK, Runs
<1>5. lastWriter' \in [Dates -> Jobs \cup {None}]
  BY <1>1 DEF Effect, TypeOK
<1> QED BY <1>3, <1>4, <1>5

\* The end of a run keeps the local variables and the loop well-typed.
LEMMA EndRunTypes ==
    ASSUME TypeInv, NEW j \in Jobs, Running(j),
           NEW success \in BOOLEAN, NEW count \in Counts,
           EndRun(j, success, count), span' = span
    PROVE  /\ pc' \in [Jobs -> PCs]
           /\ date' \in [Jobs -> Dates \cup {None}]
           /\ rows' \in [Jobs -> SUBSET TripIDs]
           /\ lakeCount' \in [Jobs -> Counts]
           /\ lakeSum' \in [Jobs -> Checksums]
           /\ results' \in [Jobs -> Seq(DateResults)]
           /\ LoopOK'
<1>1. span[j] \in Spans /\ date[j] \in Dates /\ date[j] <= span[j].last
  BY DEF TypeInv, LoopOK
<1>2. date[j] < span[j].last => date[j] + 1 \in Dates
  <2>1. span[j].last \in Dates
    BY <1>1 DEF Spans
  <2>5. date[j] \in Int /\ span[j].last \in Int
    BY <1>1, <2>1, TripsAssumption
  <2>2. date[j] < span[j].last => date[j] + 1 \in date[j]..span[j].last
    BY <2>5
  <2>3. date[j]..span[j].last \subseteq Dates
    BY <1>1, <2>1, TripsAssumption, Zenon
  <2> QED BY <2>2, <2>3
<1>3. [date |-> date[j], success |-> success, rowCount |-> count] \in DateResults
  BY <1>1 DEF DateResults
<1>4. results' \in [Jobs -> Seq(DateResults)]
  BY <1>3 DEF EndRun, TypeInv, TypeOK
<1>5. pc' \in [Jobs -> PCs] /\ date' \in [Jobs -> Dates \cup {None}]
  BY <1>1, <1>2 DEF EndRun, TypeInv, TypeOK, PCs, Exits
<1>6. /\ rows' \in [Jobs -> SUBSET TripIDs]
      /\ lakeCount' \in [Jobs -> Counts]
      /\ lakeSum' \in [Jobs -> Checksums]
  BY ZeroTypes DEF EndRun, ForgetLocals, TypeInv, TypeOK
<1>7. LoopOK'
  <2> SUFFICES ASSUME NEW i \in Jobs, Running(i)'
               PROVE  /\ span[i] \in Spans
                      /\ date'[i] \in Dates
                      /\ date'[i] <= span[i].last
    BY DEF LoopOK
  <2>1. CASE i # j
    BY <2>1 DEF EndRun, Running, TypeInv, TypeOK, LoopOK
  <2>2. CASE i = j
    <3>1. span[j].last \in Int /\ date[j] \in Int
      BY <1>1, TripsAssumption DEF Spans
    <3> QED BY <1>1, <1>2, <2>2, <3>1 DEF EndRun, TypeInv, TypeOK
  <2> QED BY <2>1, <2>2
<1> QED BY <1>4, <1>5, <1>6, <1>7

\* A jump that keeps the date keeps the loop well-typed.
LEMMA GotoTypes ==
    ASSUME TypeInv, NEW j \in Jobs, NEW label \in PCs, Goto(j, label),
           Running(j) \/ label \in Exits
    PROVE  /\ pc' \in [Jobs -> PCs]
           /\ LoopOK'
BY DEF Goto, TypeInv, TypeOK, LoopOK, Running

\* The manifests a run may write are well-typed, and so is what they change.
LEMMA ManifestTypes ==
    ASSUME TypeOK, NEW j \in Jobs
    PROVE  /\ FailureManifest(j) \in Manifests
           /\ ReconciledManifest(j) \in Manifests
<1>1. Match(j) \in BOOLEAN
  BY DEF Match
<1> QED BY <1>1, ZeroTypes DEF FailureManifest, ReconciledManifest, Manifests, TypeOK

LEMMA UploadManifestTypes ==
    ASSUME TypeOK, NEW j \in Jobs, date[j] \in Dates,
           NEW m \in Manifests, UploadManifest(j, m)
    PROVE  manifest' \in [Dates -> Manifests \cup {None}]
BY DEF UploadManifest, PutManifest, TypeOK

LEMMA PutSummaryTypes ==
    ASSUME TypeOK, NEW j \in Jobs, span[j] \in Spans, PutSummary(j)
    PROVE  summaries' \in [Dates \X Dates -> Summaries \cup {None}]
<1>1. [job |-> j, dates |-> results[j]] \in Summaries
  BY DEF Summaries, TypeOK
<1>2. <<span[j].first, span[j].last>> \in Dates \X Dates
  BY DEF Spans
<1> QED BY <1>1, <1>2 DEF PutSummary, TypeOK

LEMMA TypeInit == Init => TypeInv
BY ZeroTypes DEF Init, TypeInv, TypeOK, LoopOK, Running, PCs, Exits

\* Every step keeps the types.
LEMMA TypeStep == TypeInv /\ [Next]_vars => TypeInv'
<1> SUFFICES ASSUME TypeInv, [Next]_vars PROVE TypeInv'
  OBVIOUS
<1> USE DEF lakeVars, bucketVars, localVars, loopVars
<1>1. ASSUME NEW t \in TripIDs, RowArrives(t) PROVE TypeInv'
  BY <1>1 DEF RowArrives, TypeInv, TypeOK, LoopOK, Running
<1>2. ASSUME NEW j \in Jobs, NEW s \in Spans, StartTask(j, s) PROVE TypeInv'
  <2>1. s.first \in Dates /\ s.last \in Dates /\ s.first <= s.last
    BY <1>2 DEF Spans, StartTask
  <2>2. LoopOK'
    BY <1>2, <2>1 DEF StartTask, TypeInv, TypeOK, LoopOK, Running, Exits
  <2>3. TypeOK'
    BY <1>2, <2>1 DEF StartTask, TypeInv, TypeOK, PCs
  <2> QED BY <2>2, <2>3 DEF TypeInv
<1>3. ASSUME NEW j \in Jobs, ReadPostgres(j) PROVE TypeInv'
  <2>1. CASE Step(j, "read", "upload")
             /\ rows' = [rows EXCEPT ![j] = PgRows(date[j])]
             /\ UNCHANGED <<lakeCount, lakeSum>>
    <3>1. pc' \in [Jobs -> PCs] /\ LoopOK'
      BY <2>1, GotoTypes DEF Step, PCs, Running, Exits
    <3>2. PgRows(date[j]) \subseteq TripIDs
      BY DEF PgRows, TypeInv, TypeOK
    <3> QED BY <1>3, <2>1, <3>1, <3>2 DEF ReadPostgres, Step, Goto, TypeInv, TypeOK
  <2>2. CASE pc[j] = "read" /\ EndRun(j, FALSE, 0)
    BY <1>3, <2>2, EndRunTypes, ZeroTypes
    DEF ReadPostgres, TypeInv, TypeOK, Running, Exits
  <2> QED BY <1>3, <2>1, <2>2 DEF ReadPostgres
<1>4. ASSUME NEW j \in Jobs, UploadParquet(j) PROVE TypeInv'
  <2>1. CASE Step(j, "upload", "create")
             /\ staged' = [staged EXCEPT ![<<j, date[j]>>] = rows[j]]
             /\ UNCHANGED localVars
    <3>1. pc' \in [Jobs -> PCs] /\ LoopOK'
      BY <2>1, GotoTypes DEF Step, PCs, Running, Exits
    <3>2. staged' \in [Runs -> SUBSET TripIDs]
      BY <2>1 DEF TypeInv, TypeOK
    <3> QED BY <1>4, <2>1, <3>1, <3>2 DEF UploadParquet, Step, Goto, TypeInv, TypeOK
  <2>2. CASE pc[j] = "upload" /\ EndRun(j, FALSE, 0) /\ UNCHANGED staged
    BY <1>4, <2>2, EndRunTypes, ZeroTypes
    DEF UploadParquet, TypeInv, TypeOK, Running, Exits
  <2> QED BY <1>4, <2>1, <2>2 DEF UploadParquet
<1>5. ASSUME NEW j \in Jobs, NEW kind \in Kinds, NEW next \in PCs,
             NEW onError \in PCs, pc[j] = kind,
             CommitStatement(j, kind, next, onError)
      PROVE  TypeInv'
  <2>1. Running(j) /\ Statement(j, kind) \in Statements
    BY <1>5 DEF Running, Exits, Kinds, TypeInv, LoopOK, Statement, Statements
  <2>2. pc' \in [Jobs -> PCs] /\ LoopOK'
    BY <1>5, <2>1, GotoTypes DEF CommitStatement, Step
  <2>3. /\ lake' \subseteq Copies
        /\ stagingTables' \subseteq Runs
        /\ lastWriter' \in [Dates -> Jobs \cup {None}]
        /\ inflight' \subseteq Statements
    <3>1. CASE RunSucceeds(j, kind)
      BY <2>1, <3>1, EffectTypes DEF RunSucceeds, TypeInv, TypeOK
    <3>2. CASE RunFails(j, kind)
      BY <2>1, <3>2 DEF RunFails, TypeInv, TypeOK
    <3> QED BY <1>5, <3>1, <3>2 DEF CommitStatement
  <2> QED BY <1>5, <2>2, <2>3 DEF CommitStatement, Step, Goto, TypeInv, TypeOK
<1>6. ASSUME NEW j \in Jobs,
             CreateStaging(j) \/ DeletePartition(j) \/ InsertPartition(j)
      PROVE  TypeInv'
  BY <1>5, <1>6 DEF CreateStaging, DeletePartition, InsertPartition,
                    CommitStatement, Step, Kinds, PCs
<1>7. ASSUME NEW j \in Jobs, DropStaging(j) PROVE TypeInv'
  <2>1. Running(j) /\ Statement(j, "drop") \in Statements
    BY <1>7 DEF DropStaging, Step, Running, Exits, Kinds, TypeInv, LoopOK,
                Statement, Statements
  <2>2. pc' \in [Jobs -> PCs] /\ LoopOK'
    BY <1>7, <2>1, GotoTypes DEF DropStaging, Step, PCs
  <2>3. /\ lake' \subseteq Copies
        /\ stagingTables' \subseteq Runs
        /\ lastWriter' \in [Dates -> Jobs \cup {None}]
        /\ inflight' \subseteq Statements
    <3>1. CASE RunSucceeds(j, "drop")
      BY <2>1, <3>1, EffectTypes DEF RunSucceeds, TypeInv, TypeOK
    <3>2. CASE RunFails(j, "drop")
      BY <2>1, <3>2 DEF RunFails, TypeInv, TypeOK
    <3> QED BY <1>7, <3>1, <3>2 DEF DropStaging
  <2> QED BY <1>7, <2>2, <2>3 DEF DropStaging, Step, Goto, TypeInv, TypeOK
<1>8. ASSUME NEW j \in Jobs, UploadFailure(j) PROVE TypeInv'
  <2>1. Running(j) /\ date[j] \in Dates
    BY <1>8 DEF UploadFailure, Running, Exits, TypeInv, LoopOK
  <2>2. manifest' \in [Dates -> Manifests \cup {None}]
    BY <1>8, <2>1, ManifestTypes, UploadManifestTypes DEF UploadFailure, TypeInv
  <2> QED BY <1>8, <2>1, <2>2, EndRunTypes, ZeroTypes
          DEF UploadFailure, TypeInv, TypeOK
<1>9. ASSUME NEW j \in Jobs, CountLake(j) PROVE TypeInv'
  <2>1. Running(j) /\ date[j] \in Dates
    BY <1>9 DEF CountLake, QueryFails, Step, Running, Exits, TypeInv, LoopOK
  <2>2. CASE pc[j] = "count" /\ QueryFails(j)
    BY <1>9, <2>1, <2>2, EndRunTypes, ZeroTypes DEF CountLake, QueryFails, TypeInv, TypeOK
  <2>3. CASE /\ Step(j, "count", "sum")
             /\ lakeCount' = [lakeCount EXCEPT ![j] = Cardinality(Partition(date[j]))]
             /\ UNCHANGED <<rows, lakeSum>>
    <3>1. pc' \in [Jobs -> PCs] /\ LoopOK'
      BY <2>1, <2>3, GotoTypes DEF Step, PCs
    <3>2. lakeCount' \in [Jobs -> Counts]
      BY <2>1, <2>3, QueryTypes DEF TypeInv, TypeOK
    <3> QED BY <1>9, <2>3, <3>1, <3>2 DEF CountLake, Step, Goto, TypeInv, TypeOK
  <2> QED BY <1>9, <2>2, <2>3 DEF CountLake
<1>10. ASSUME NEW j \in Jobs, SumLake(j) PROVE TypeInv'
  <2>1. Running(j) /\ date[j] \in Dates
    BY <1>10 DEF SumLake, QueryFails, Step, Running, Exits, TypeInv, LoopOK
  <2>2. CASE pc[j] = "sum" /\ QueryFails(j)
    BY <1>10, <2>1, <2>2, EndRunTypes, ZeroTypes DEF SumLake, QueryFails, TypeInv, TypeOK
  <2>3. CASE /\ Step(j, "sum", "manifest")
             /\ lakeSum' = [lakeSum EXCEPT ![j] = CopyChecksum(Partition(date[j]))]
             /\ UNCHANGED <<rows, lakeCount>>
    <3>1. pc' \in [Jobs -> PCs] /\ LoopOK'
      BY <2>1, <2>3, GotoTypes DEF Step, PCs
    <3>2. lakeSum' \in [Jobs -> Checksums]
      BY <2>1, <2>3, QueryTypes DEF TypeInv, TypeOK
    <3> QED BY <1>10, <2>3, <3>1, <3>2 DEF SumLake, Step, Goto, TypeInv, TypeOK
  <2> QED BY <1>10, <2>2, <2>3 DEF SumLake
<1>11. ASSUME NEW j \in Jobs, Reconcile(j) PROVE TypeInv'
  <2>1. Running(j) /\ date[j] \in Dates /\ lakeCount[j] \in Counts /\ lakeSum[j] \in Checksums
    BY <1>11 DEF Reconcile, Running, Exits, TypeInv, TypeOK, LoopOK
  <2>2. Match(j) \in BOOLEAN
    BY DEF Match
  <2>3. manifest' \in [Dates -> Manifests \cup {None}]
    BY <1>11, <2>1, ManifestTypes, UploadManifestTypes DEF Reconcile, TypeInv
  <2> QED BY <1>11, <2>1, <2>2, <2>3, EndRunTypes DEF Reconcile, TypeInv, TypeOK
<1>12. ASSUME NEW j \in Jobs, UploadSummary(j) PROVE TypeInv'
  <2>1. Running(j) /\ span[j] \in Spans
    BY <1>12 DEF UploadSummary, Running, Exits, TypeInv, LoopOK
  <2>2. pc' \in [Jobs -> PCs] /\ LoopOK'
    BY <1>12, <2>1, GotoTypes DEF UploadSummary, PCs, Exits
  <2>3. summaries' \in [Dates \X Dates -> Summaries \cup {None}]
    BY <1>12, <2>1, PutSummaryTypes DEF UploadSummary, TypeInv, TypeOK
  <2> QED BY <1>12, <2>2, <2>3 DEF UploadSummary, Goto, TypeInv, TypeOK
<1>13. ASSUME NEW j \in Jobs, Crash(j) PROVE TypeInv'
  <2>1. date[j] \in Dates
    BY <1>13 DEF Crash, TypeInv, LoopOK
  <2>2. pc' \in [Jobs -> PCs] /\ LoopOK'
    BY <1>13, GotoTypes DEF Crash, PCs, Exits
  <2>3. inflight' \subseteq Statements
    BY <1>13, <2>1 DEF Crash, Statement, Statements, TypeInv, TypeOK
  <2>4. manifest' \in [Dates -> Manifests \cup {None}]
    <3>1. \/ UNCHANGED manifest
          \/ UploadManifest(j, FailureManifest(j))
          \/ UploadManifest(j, ReconciledManifest(j))
      BY <1>13 DEF Crash, UploadManifest
    <3> QED BY <2>1, <3>1, ManifestTypes, UploadManifestTypes DEF TypeInv, TypeOK
  <2>5. summaries' \in [Dates \X Dates -> Summaries \cup {None}]
    <3>1. span[j] \in Spans
      BY <1>13 DEF Crash, TypeInv, LoopOK
    <3>2. UNCHANGED summaries \/ PutSummary(j)
      BY <1>13 DEF Crash
    <3> QED BY <3>1, <3>2, PutSummaryTypes DEF TypeInv, TypeOK
  <2> QED BY <1>13, <2>2, <2>3, <2>4, <2>5, ZeroTypes
          DEF Crash, Goto, ForgetLocals, TypeInv, TypeOK
<1>14. ASSUME NEW s \in Statements, AthenaEnds(s) PROVE TypeInv'
  <2>1. /\ lake' \subseteq Copies
        /\ stagingTables' \subseteq Runs
        /\ lastWriter' \in [Dates -> Jobs \cup {None}]
    BY <1>14, EffectTypes DEF AthenaEnds, TypeInv, TypeOK
  <2> QED BY <1>14, <2>1 DEF AthenaEnds, TypeInv, TypeOK, LoopOK, Running
<1>15. CASE UNCHANGED vars
  BY <1>15 DEF vars, TypeInv, TypeOK, LoopOK, Running
<1> QED
  BY <1>1, <1>2, <1>3, <1>4, <1>6, <1>7, <1>8, <1>9, <1>10, <1>11, <1>12,
     <1>13, <1>14, <1>15 DEF Next, JobStep

\* Every variable of the export has its type in every reachable state; in
\* particular the loop of runBackfill never leaves the range it was given.
THEOREM TypeCorrect == Spec => []TypeOK
<1>1. TypeInv => TypeOK
  BY DEF TypeInv
<1> QED BY TypeInit, TypeStep, <1>1, PTL DEF Spec

-----------------------------------------------------------------------------
(***************************************************************************)
(* Part 2: what a success stands for.  The claim speaks of runs that have  *)
(* ended; the invariant follows a run on its way there.  While no other    *)
(* job's statement touches the date, the run's own copies are there from   *)
(* its INSERT on, its count is the count of the partition, and none of its *)
(* own statements can still be waiting in Athena, because a lost statement *)
(* has sent it to the failure path.  Equal counts then leave no room for a *)
(* copy that is not its own.                                               *)
(***************************************************************************)
InRun(j) == Running(j) /\ pc[j] # "summary"
Uploaded(j) == pc[j] \in {"create", "delete", "insert", "drop", "cleanup",
                          "failed", "count", "sum", "manifest"}
Committed(j) == pc[j] \in {"drop", "count", "sum", "manifest"}
Writing == {"delete", "insert"}

OfDate(d) == {t \in TripIDs : EventDate[t] = d}

StagedOfDate ==
    /\ \A j \in Jobs, d \in Dates : staged[<<j, d>>] \subseteq OfDate(d)
    /\ \A j \in Jobs : pc[j] = "upload" => rows[j] \subseteq OfDate(date[j])

StagedIsRead ==
    \A j \in Jobs : Uploaded(j) => staged[<<j, date[j]>>] = rows[j]

PastDates ==
    \A j \in Jobs :
        /\ pc[j] = "off" => results[j] = <<>>
        /\ InRun(j) => \A i \in DOMAIN results[j] : results[j][i].date < date[j]

CopiesThere ==
    \A j \in Jobs : Committed(j) /\ lastWriter[date[j]] = j =>
        CopiesOf(j, staged[<<j, date[j]>>]) \subseteq lake

CountFresh ==
    \A j \in Jobs : pc[j] \in {"sum", "manifest"} /\ lastWriter[date[j]] = j =>
        lakeCount[j] = Cardinality(Partition(date[j]))

\* The run of j on d has told somebody that it succeeded: whoever started it,
\* or the readers of its manifest (a crash may come between the two).
Sealed(j, d) ==
    \/ RunSucceeded(j, d)
    \/ manifest[d] # None /\ manifest[d].job = j /\ manifest[d].success

SealedExact ==
    \A j \in Jobs, d \in Dates : Sealed(j, d) /\ lastWriter[d] = j => Exact(j, d)

\* The run of j on d, of which a statement is left in Athena, has failed.
Spent(j, d) ==
    /\ pc[j] # "off"
    /\ ~Sealed(j, d)
    /\ InRun(j) => \/ d < date[j]
                   \/ d = date[j] /\ pc[j] \in {"cleanup", "failed"}

InflightSpent ==
    \A s \in inflight : s.kind \in Writing => Spent(s.job, s.date)

\* A manifest is of a run that is over, and counts the rows of that run.
EvidencePast ==
    \A d \in Dates : manifest[d] # None =>
        LET j == manifest[d].job IN
        /\ pc[j] # "off"
        /\ InRun(j) => d < date[j]
        /\ manifest[d].success =>
              manifest[d].rowCount = Cardinality(staged[<<j, d>>])

SafeInv ==
    /\ TypeInv /\ StagedOfDate /\ StagedIsRead /\ PastDates /\ CopiesThere
    /\ CountFresh /\ InflightSpent /\ SealedExact /\ EvidencePast

\* What the run of j must have achieved before it may call itself a success.
Deserved(j) == /\ pc[j] = "manifest"
               /\ lastWriter[date[j]] = j => Exact(j, date[j])

\* What may become of the manifests when the run of j ends.
OwnManifest(j, success) ==
    /\ \A d \in Dates : d # date[j] => manifest'[d] = manifest[d]
    /\ \/ manifest'[date[j]] = manifest[date[j]]
       \/ /\ manifest'[date[j]].job = j
          /\ manifest'[date[j]].success =>
                /\ success
                /\ Deserved(j)
                /\ manifest'[date[j]].rowCount
                      = Cardinality(staged[<<j, date[j]>>])

USE DEF RunSucceeded

\* A run that goes on has not told anybody that it succeeded.
LEMMA NotYetSealed ==
    ASSUME TypeInv, PastDates, EvidencePast, NEW j \in Jobs, InRun(j)
    PROVE  ~Sealed(j, date[j])
<1>1. date[j] \in Dates /\ date[j] \in Int
  BY TripsAssumption DEF InRun, TypeInv, LoopOK
<1>2. ~RunSucceeded(j, date[j])
  BY <1>1 DEF PastDates, SucceededOn
<1>3. ~(manifest[date[j]] # None /\ manifest[date[j]].job = j)
  <2> SUFFICES ASSUME manifest[date[j]] # None, manifest[date[j]].job = j
               PROVE  FALSE
    OBVIOUS
  <2>1. InRun(manifest[date[j]].job) => date[j] < date[manifest[date[j]].job]
    BY <1>1 DEF EvidencePast
  <2>2. InRun(j) => date[j] < date[j]
    BY <2>1, Zenon
  <2> QED BY <1>1, <2>2
<1> QED BY <1>2, <1>3 DEF Sealed

\* A move of one task to another control state, that ends no run and writes
\* neither the lake nor a manifest, keeps the invariant if the task meets what
\* the invariant asks of the new control state.
LEMMA MoveSafe ==
    ASSUME SafeInv, TypeInv', NEW j \in Jobs, NEW label \in PCs \ {"off"},
           Goto(j, label), Running(j),
           UNCHANGED <<lake, lastWriter, staged, manifest>>,
           \A i \in Jobs : i # j => /\ rows'[i] = rows[i]
                                    /\ lakeCount'[i] = lakeCount[i],
           label = "upload" => rows'[j] \subseteq OfDate(date[j]),
           Uploaded(j)' => staged[<<j, date[j]>>] = rows'[j],
           InRun(j)' => InRun(j),
           Committed(j)' => Committed(j),
           label \in {"sum", "manifest"} /\ lastWriter[date[j]] = j
               => lakeCount'[j] = Cardinality(Partition(date[j])),
           \A s \in inflight' : s.kind \in Writing /\ s \notin inflight =>
               /\ s.job = j /\ s.date = date[j]
               /\ InRun(j) /\ label \in {"cleanup", "failed", "crashed"},
           pc[j] \in {"cleanup", "failed"} /\ InRun(j)'
               => label \in {"cleanup", "failed"}
    PROVE  SafeInv'
<1> USE DEF SafeInv
<1>1. /\ pc \in [Jobs -> PCs] /\ date' = date /\ results' = results
      /\ pc' = [pc EXCEPT ![j] = label]
  BY DEF Goto, TypeInv, TypeOK
<1>2. StagedOfDate'
  BY <1>1 DEF StagedOfDate, OfDate
<1>3. StagedIsRead'
  BY <1>1 DEF StagedIsRead, Uploaded
<1>4. PastDates'
  BY <1>1 DEF PastDates, InRun, Running
<1>5. CopiesThere'
  BY <1>1 DEF CopiesThere, Committed, CopiesOf
<1>6. CountFresh'
  BY <1>1 DEF CountFresh, Partition
<1>7. ASSUME NEW i \in Jobs, NEW d \in Dates, Spent(i, d) PROVE Spent(i, d)'
  <2>1. ~Sealed(i, d)'
    BY <1>1, <1>7 DEF Spent, Sealed
  <2> QED BY <1>1, <1>7, <2>1 DEF Spent, InRun, Running
<1>8. InflightSpent'
  <2> SUFFICES ASSUME NEW s \in inflight', s.kind \in Writing
               PROVE  Spent(s.job, s.date)'
    BY DEF InflightSpent
  <2>1. s.job \in Jobs /\ s.date \in Dates
    BY DEF TypeInv, TypeOK, Statements
  <2>2. CASE s \in inflight
    BY <1>7, <2>1, <2>2 DEF InflightSpent
  <2>3. CASE s \notin inflight
    <3>1. ~Sealed(j, date[j])
      BY <2>3, NotYetSealed
    <3>2. ~Sealed(s.job, s.date)'
      BY <1>1, <2>3, <3>1 DEF Sealed
    <3> QED BY <1>1, <2>1, <2>3, <3>2 DEF Spent, InRun, Running, Exits
  <2> QED BY <2>2, <2>3
<1>9. SealedExact'
  BY <1>1 DEF SealedExact, Sealed, Exact, Partition, CopiesOf
<1>10. EvidencePast'
  <2> SUFFICES ASSUME NEW d \in Dates, manifest[d] # None
               PROVE  /\ pc'[manifest[d].job] # "off"
                      /\ InRun(manifest[d].job)' => d < date[manifest[d].job]
                      /\ manifest[d].success => manifest[d].rowCount
                            = Cardinality(staged[<<manifest[d].job, d>>])
    BY <1>1 DEF EvidencePast
  <2>1. manifest[d].job \in Jobs
    BY DEF TypeInv, TypeOK, Manifests
  <2> QED BY <1>1, <2>1 DEF EvidencePast, InRun, Running
<1> QED BY <1>2, <1>3, <1>4, <1>5, <1>6, <1>8, <1>9, <1>10

\* The copies of one job are as many as the trips they are copies of.
LEMMA CopiesCard ==
    ASSUME NEW j \in Jobs, NEW S \in SUBSET TripIDs
    PROVE  /\ IsFiniteSet(CopiesOf(j, S))
           /\ Cardinality(CopiesOf(j, S)) = Cardinality(S)
<1> DEFINE f == [t \in S |-> [id |-> t, job |-> j]]
<1>1. IsFiniteSet(S)
  BY TripsAssumption, FS_Subset
<1>2. f \in [S -> CopiesOf(j, S)]
  BY DEF CopiesOf
<1>3. \A a, b \in S : f[a] = f[b] => a = b
  <2> SUFFICES ASSUME NEW a \in S, NEW b \in S, f[a] = f[b] PROVE a = b
    OBVIOUS
  <2>1. f[a].id = a /\ f[b].id = b
    OBVIOUS
  <2> QED BY <2>1
<1>4. \A c \in CopiesOf(j, S) : \E t \in S : f[t] = c
  BY DEF CopiesOf
<1>5. f \in Bijection(S, CopiesOf(j, S))
  BY <1>2, <1>3, <1>4 DEF Bijection, Injection, Surjection, IsInjective
<1>6. ExistsBijection(S, CopiesOf(j, S))
  BY <1>5 DEF ExistsBijection
<1> QED BY <1>1, <1>6, FS_Bijection

LEMMA CopiesFinite == IsFiniteSet(Copies)
<1> DEFINE f == [p \in TripIDs \X Jobs |-> [id |-> p[1], job |-> p[2]]]
<1>1. IsFiniteSet(TripIDs \X Jobs)
  BY TripsAssumption, JobsAssumption, FS_Product
<1>2. f \in [TripIDs \X Jobs -> Copies]
  BY DEF Copies
<1>3. \A c \in Copies : \E p \in TripIDs \X Jobs : f[p] = c
  <2> SUFFICES ASSUME NEW c \in Copies
               PROVE  \E p \in TripIDs \X Jobs : f[p] = c
    OBVIOUS
  <2>1. <<c.id, c.job>> \in TripIDs \X Jobs /\ c = [id |-> c.id, job |-> c.job]
    BY DEF Copies
  <2>2. f[<<c.id, c.job>>] = c
    BY <2>1
  <2> QED BY <2>1, <2>2
<1>4. f \in Surjection(TripIDs \X Jobs, Copies)
  BY <1>2, <1>3 DEF Surjection
<1> QED BY <1>1, <1>4, FS_Surjection

\* Reconciliation: if the copies a run inserted are there and the count of the
\* date is the count of what it read, the date holds nothing else.
LEMMA EqualCountsExact ==
    ASSUME TypeInv, StagedOfDate, NEW j \in Jobs, NEW d \in Dates,
           CopiesOf(j, staged[<<j, d>>]) \subseteq lake,
           Cardinality(Partition(d)) = Cardinality(staged[<<j, d>>])
    PROVE  Exact(j, d)
<1> DEFINE C == CopiesOf(j, staged[<<j, d>>])
<1>1. staged[<<j, d>>] \in SUBSET TripIDs
  BY DEF StagedOfDate, OfDate
<1>2. C \subseteq Partition(d)
  BY DEF StagedOfDate, OfDate, CopiesOf, Partition
<1>3. IsFiniteSet(Partition(d))
  BY CopiesFinite, FS_Subset DEF Partition, TypeInv, TypeOK
<1>4. Cardinality(C) = Cardinality(Partition(d))
  BY <1>1, CopiesCard
<1>5. C = Partition(d)
  BY <1>2, <1>3, <1>4, FS_Subset
<1> QED BY <1>5 DEF Exact

\* The end of a run adds its result, and nothing else, to what has succeeded.
LEMMA EndRunResults ==
    ASSUME TypeInv, PastDates, NEW j \in Jobs, InRun(j),
           NEW success \in BOOLEAN, NEW count \in Counts,
           EndRun(j, success, count), span' = span
    PROVE  \A i \in Jobs, d \in Dates :
              RunSucceeded(i, d)' <=>
                 RunSucceeded(i, d) \/ (i = j /\ d = date[j] /\ success)
<1> TAKE i \in Jobs, d \in Dates
<1>1. results \in [Jobs -> Seq(DateResults)]
  BY DEF TypeInv, TypeOK
<1> DEFINE r == [date |-> date[j], success |-> success, rowCount |-> count]
<1>2. results' = [results EXCEPT ![j] = Append(results[j], r)]
  BY DEF EndRun
<1>3. CASE i # j
  BY <1>1, <1>2, <1>3 DEF SucceededOn
<1>4. CASE i = j
  <2>1. r \in DateResults
    BY DEF InRun, TypeInv, LoopOK, DateResults
  <2>2. results[j] \in Seq(DateResults) /\ results'[j] = Append(results[j], r)
    BY <1>1, <1>2
  <2>3. /\ DOMAIN results[j] = 1..Len(results[j])
        /\ DOMAIN results'[j] = 1..(Len(results[j]) + 1)
        /\ Len(results[j]) \in Nat
        /\ \A k \in DOMAIN results[j] : results'[j][k] = results[j][k]
        /\ results'[j][Len(results[j]) + 1] = r
    BY <2>1, <2>2
  <2> HIDE DEF r
  <2>4. RunSucceeded(j, d)' <=>
           RunSucceeded(j, d) \/ (r.date = d /\ r.success)
    BY <2>3 DEF SucceededOn
  <2> QED BY <1>4, <2>4 DEF r
<1> QED BY <1>3, <1>4

LEMMA EndRunPast ==
    ASSUME TypeInv, PastDates, NEW j \in Jobs, InRun(j),
           NEW success \in BOOLEAN, NEW count \in Counts,
           EndRun(j, success, count), span' = span
    PROVE  PastDates'
<1> SUFFICES ASSUME NEW i \in Jobs
             PROVE  /\ (pc[i] = "off" => results[i] = <<>>)'
                    /\ (InRun(i) => \A k \in DOMAIN results[i] :
                                       results[i][k].date < date[i])'
  BY DEF PastDates
<1>1. /\ results \in [Jobs -> Seq(DateResults)]
      /\ pc \in [Jobs -> PCs]
      /\ date \in [Jobs -> Dates \cup {None}]
  BY DEF TypeInv, TypeOK
<1> DEFINE r == [date |-> date[j], success |-> success, rowCount |-> count]
<1>2. results' = [results EXCEPT ![j] = Append(results[j], r)]
  BY DEF EndRun
<1>3. CASE i # j
  <2>1. results'[i] = results[i] /\ pc'[i] = pc[i] /\ date'[i] = date[i]
    BY <1>1, <1>2, <1>3 DEF EndRun
  <2> QED BY <2>1 DEF PastDates, InRun, Running
<1>4. CASE i = j
  <2>1. date[j] \in Dates /\ date[j] \in Int
    BY TripsAssumption DEF InRun, TypeInv, LoopOK
  <2>2. results[j] \in Seq(DateResults) /\ results'[j] = Append(results[j], r)
        /\ r \in DateResults
    BY <1>1, <1>2, <2>1 DEF DateResults
  <2>3. /\ DOMAIN results[j] = 1..Len(results[j])
        /\ DOMAIN results'[j] = 1..(Len(results[j]) + 1)
        /\ Len(results[j]) \in Nat
        /\ \A k \in DOMAIN results[j] : /\ results'[j][k] = results[j][k]
                                        /\ results[j][k] \in DateResults
        /\ results'[j][Len(results[j]) + 1] = r
    BY <2>2
  <2>4. pc'[j] # "off"
    BY <1>1 DEF EndRun
  <2>5. InRun(j)' => date'[j] = date[j] + 1
    BY <1>1 DEF EndRun, InRun, Running, Exits
  <2>6. r.date = date[j]
    OBVIOUS
  <2> HIDE DEF r
  <2>7. ASSUME InRun(j)', NEW k \in DOMAIN results'[j]
        PROVE  results'[j][k].date < date'[j]
    <3>1. CASE k \in DOMAIN results[j]
      <4>1. results[j][k].date < date[j] /\ results[j][k].date \in Int
        BY <2>3, <3>1, TripsAssumption DEF PastDates, DateResults
      <4> QED BY <2>1, <2>3, <2>5, <2>7, <3>1, <4>1
    <3>2. CASE k = Len(results[j]) + 1
      BY <2>1, <2>3, <2>5, <2>6, <2>7, <3>2
    <3> QED BY <2>3, <2>7, <3>1, <3>2
  <2> QED BY <1>4, <2>4, <2>7
<1> QED BY <1>3, <1>4

\* When a run is over, by its end or by a crash, with a success and a manifest
\* that are deserved, what is told stays true.
LEMMA RunOver ==
    ASSUME SafeInv, TypeInv', NEW j \in Jobs, InRun(j),
           NEW success \in BOOLEAN, success => Deserved(j), OwnManifest(j, success),
           \A i \in Jobs, d \in Dates :
              RunSucceeded(i, d)' <=>
                 RunSucceeded(i, d) \/ (i = j /\ d = date[j] /\ success /\ pc'[j] # "crashed"),
           UNCHANGED <<lake, lastWriter, staged, inflight>>,
           \A i \in Jobs : i # j => pc'[i] = pc[i] /\ date'[i] = date[i],
           pc'[j] # "off", InRun(j)' => date'[j] = date[j] + 1
    PROVE  InflightSpent' /\ SealedExact' /\ EvidencePast'
<1>1. /\ TypeInv /\ PastDates /\ InflightSpent /\ SealedExact /\ EvidencePast
      /\ date[j] \in Dates /\ date[j] \in Int
  BY TripsAssumption DEF SafeInv, TypeInv, InRun, LoopOK
<1>2. /\ \A d \in Dates : manifest[d] # None => manifest[d].job \in Jobs
      /\ \A d \in Dates : manifest'[d] # None => manifest'[d].job \in Jobs
  BY <1>1 DEF TypeInv, TypeOK, Manifests
<1>3. ASSUME NEW i \in Jobs, NEW d \in Dates, Sealed(i, d)', ~Sealed(i, d)
      PROVE  i = j /\ d = date[j] /\ Deserved(j)
  <2>1. CASE RunSucceeded(i, d)'
    BY <1>3, <2>1 DEF Sealed
  <2>2. CASE manifest'[d] # None /\ manifest'[d].job = i /\ manifest'[d].success
    BY <1>1, <1>3, <2>2 DEF Sealed, OwnManifest
  <2> QED BY <1>3, <2>1, <2>2 DEF Sealed
<1>4. ASSUME NEW i \in Jobs, NEW d \in Dates, Spent(i, d) PROVE Spent(i, d)'
  <2>1. ~Sealed(i, d)'
    BY <1>1, <1>3, <1>4 DEF Spent, Deserved
  <2>2. CASE i # j
    BY <1>4, <2>1, <2>2 DEF Spent, InRun, Running
  <2>3. CASE i = j
    <3>1. d \in Int /\ (d < date[j] \/ d = date[j])
      BY <1>4, <2>3, TripsAssumption DEF Spent
    <3> QED BY <1>1, <2>1, <2>3, <3>1 DEF Spent
  <2> QED BY <2>2, <2>3
<1>5. InflightSpent'
  <2> SUFFICES ASSUME NEW s \in inflight, s.kind \in Writing
               PROVE  Spent(s.job, s.date)'
    BY DEF InflightSpent
  <2>1. s.job \in Jobs /\ s.date \in Dates
    BY <1>1 DEF TypeInv, TypeOK, Statements
  <2> QED BY <1>1, <1>4, <2>1 DEF InflightSpent
<1>6. SealedExact'
  <2> SUFFICES ASSUME NEW i \in Jobs, NEW d \in Dates,
                      Sealed(i, d)', lastWriter[d] = i
               PROVE  Exact(i, d)'
    BY DEF SealedExact
  <2>1. Exact(i, d)
    BY <1>1, <1>3 DEF SealedExact, Deserved
  <2> QED BY <2>1 DEF Exact, Partition, CopiesOf
<1>7. EvidencePast'
  <2> SUFFICES ASSUME NEW d \in Dates, manifest'[d] # None
               PROVE  /\ pc'[manifest'[d].job] # "off"
                      /\ \A i \in Jobs : i = manifest'[d].job =>
                            (InRun(i)' => d < date'[i])
                      /\ manifest'[d].success => manifest'[d].rowCount
                            = Cardinality(staged[<<manifest'[d].job, d>>])
    BY <1>2 DEF EvidencePast
  <2>1. d \in Int
    BY TripsAssumption
  <2>2. CASE manifest'[d] = manifest[d]
    <3>1. manifest[d].job \in Jobs
      BY <1>2, <2>2
    <3>2. CASE manifest[d].job = j
      <4>1. d < date[j]
        BY <1>1, <2>2, <3>2 DEF EvidencePast
      <4> QED BY <1>1, <2>1, <2>2, <3>2, <4>1 DEF EvidencePast
    <3>3. CASE manifest[d].job # j
      BY <1>1, <2>2, <3>1, <3>3 DEF EvidencePast, InRun, Running
    <3> QED BY <3>2, <3>3
  <2>3. CASE manifest'[d] # manifest[d]
    BY <1>1, <2>3 DEF OwnManifest
  <2> QED BY <2>2, <2>3
<1> QED BY <1>5, <1>6, <1>7

\* The end of a run keeps the invariant.
LEMMA EndRunSafe ==
    ASSUME SafeInv, TypeInv', NEW j \in Jobs, InRun(j),
           NEW success \in BOOLEAN, NEW count \in Counts,
           EndRun(j, success, count),
           UNCHANGED <<lake, lastWriter, staged, inflight, span>>,
           success => Deserved(j), OwnManifest(j, success)
    PROVE  SafeInv'
<1>1. /\ TypeInv /\ StagedOfDate /\ StagedIsRead /\ PastDates /\ CopiesThere
      /\ CountFresh
      /\ pc \in [Jobs -> PCs]
      /\ date \in [Jobs -> Dates \cup {None}]
      /\ rows \in [Jobs -> SUBSET TripIDs]
      /\ lakeCount \in [Jobs -> Counts]
  BY DEF SafeInv, TypeInv, TypeOK
<1>2. /\ pc'[j] \in {"ok", "error", "read", "summary"}
      /\ pc'[j] = "read" => date'[j] = date[j] + 1
      /\ \A i \in Jobs : i # j => /\ pc'[i] = pc[i] /\ date'[i] = date[i]
                                  /\ rows'[i] = rows[i]
                                  /\ lakeCount'[i] = lakeCount[i]
  BY <1>1 DEF EndRun, ForgetLocals
<1>3. \A i \in Jobs, d \in Dates :
         RunSucceeded(i, d)' <=>
            RunSucceeded(i, d) \/ (i = j /\ d = date[j] /\ success)
  BY <1>1, EndRunResults
<1>4. PastDates'
  BY <1>1, EndRunPast
<1>5. StagedOfDate'
  BY <1>1, <1>2 DEF StagedOfDate, OfDate
<1>6. StagedIsRead'
  BY <1>1, <1>2 DEF StagedIsRead, Uploaded
<1>7. CopiesThere'
  BY <1>1, <1>2 DEF CopiesThere, Committed, CopiesOf
<1>8. CountFresh'
  BY <1>1, <1>2 DEF CountFresh, Partition
<1>9. /\ InRun(j)' => date'[j] = date[j] + 1
      /\ pc'[j] # "off" /\ pc'[j] # "crashed"
  BY <1>2 DEF InRun, Running, Exits
<1>10. InflightSpent' /\ SealedExact' /\ EvidencePast'
  BY <1>2, <1>3, <1>9, RunOver
<1> QED BY <1>4, <1>5, <1>6, <1>7, <1>8, <1>10 DEF SafeInv

\* A crash that leaves the manifest it was uploading keeps the invariant.
LEMMA CrashPutSafe ==
    ASSUME SafeInv, TypeInv', NEW j \in Jobs, InRun(j),
           NEW success \in BOOLEAN, success => Deserved(j), OwnManifest(j, success),
           Goto(j, "crashed"), ForgetLocals(j),
           UNCHANGED <<lake, lastWriter, staged, inflight>>
    PROVE  SafeInv'
<1>1. /\ TypeInv /\ StagedOfDate /\ StagedIsRead /\ PastDates /\ CopiesThere
      /\ CountFresh
      /\ pc'[j] = "crashed" /\ UNCHANGED <<date, results>>
      /\ \A i \in Jobs : i # j => /\ pc'[i] = pc[i] /\ rows'[i] = rows[i]
                                  /\ lakeCount'[i] = lakeCount[i]
  BY DEF SafeInv, TypeInv, TypeOK, Goto, ForgetLocals
<1>2. ~InRun(j)'
  BY <1>1 DEF InRun, Running, Exits
<1>3. PastDates'
  BY <1>1, <1>2 DEF PastDates, InRun, Running
<1>4. StagedOfDate'
  BY <1>1 DEF StagedOfDate, OfDate
<1>5. StagedIsRead'
  BY <1>1 DEF StagedIsRead, Uploaded
<1>6. CopiesThere'
  BY <1>1 DEF CopiesThere, Committed, CopiesOf
<1>7. CountFresh'
  BY <1>1 DEF CountFresh, Partition
<1>8. InflightSpent' /\ SealedExact' /\ EvidencePast'
  BY <1>1, <1>2, RunOver
<1> QED BY <1>3, <1>4, <1>5, <1>6, <1>7, <1>8 DEF SafeInv

\* A statement touches the date it is for and no other.
LEMMA EffectLocal ==
    ASSUME TypeInv, StagedOfDate, NEW s \in Statements, Effect(s)
    PROVE  /\ \A d \in Dates : d # s.date =>
                 Partition(d)' = Partition(d) /\ lastWriter'[d] = lastWriter[d]
           /\ s.kind \in Writing => lastWriter'[s.date] = s.job
           /\ s.kind \notin Writing => UNCHANGED <<lake, lastWriter>>
<1>1. s.job \in Jobs /\ s.date \in Dates /\ s.kind \in Kinds
  BY DEF Statements
<1>2. lastWriter \in [Dates -> Jobs \cup {None}] /\ lake \subseteq Copies
  BY DEF TypeInv, TypeOK
<1>3. ASSUME NEW d \in Dates, d # s.date
      PROVE  Partition(d)' = Partition(d) /\ lastWriter'[d] = lastWriter[d]
  <2>1. lastWriter'[d] = lastWriter[d]
    BY <1>1, <1>2, <1>3 DEF Effect
  <2>2. \A c \in CopiesOf(s.job, staged[<<s.job, s.date>>]) :
           EventDate[c.id] = s.date
    BY <1>1 DEF CopiesOf, StagedOfDate, OfDate
  <2>3. lake' = lake \/ lake' = lake \ Partition(s.date)
        \/ lake' = lake \cup CopiesOf(s.job, staged[<<s.job, s.date>>])
    BY DEF Effect
  <2>4. Partition(d)' = Partition(d)
    BY <1>3, <2>2, <2>3 DEF Partition
  <2> QED BY <2>1, <2>4
<1>4. s.kind \in Writing => lastWriter'[s.date] = s.job
  BY <1>1, <1>2 DEF Effect, Writing
<1>5. s.kind \notin Writing => UNCHANGED <<lake, lastWriter>>
  BY <1>1 DEF Effect, Writing, Kinds
<1> QED BY <1>3, <1>4, <1>5

\* A statement of a run that has not succeeded takes no success away.
LEMMA EffectKeepsSuccess ==
    ASSUME SafeInv, NEW s \in Statements, Effect(s),
           s.kind \in Writing => ~Sealed(s.job, s.date),
           UNCHANGED <<staged, results, manifest>>
    PROVE  SealedExact'
<1> USE DEF SafeInv
<1> SUFFICES ASSUME NEW i \in Jobs, NEW d \in Dates,
                    Sealed(i, d), lastWriter'[d] = i
             PROVE  Exact(i, d)'
  BY DEF SealedExact, Sealed
<1>1. s.job \in Jobs /\ s.date \in Dates
  BY DEF Statements
<1>2. CASE s.kind \notin Writing
  BY <1>2, EffectLocal DEF SealedExact, Exact, Partition, CopiesOf
<1>3. CASE s.kind \in Writing /\ d = s.date
  BY <1>1, <1>3, EffectLocal
<1>4. CASE d # s.date
  <2>1. Partition(d)' = Partition(d) /\ lastWriter[d] = i
    BY <1>4, EffectLocal
  <2> QED BY <2>1 DEF SealedExact, Exact, CopiesOf
<1> QED BY <1>2, <1>3, <1>4

LEMMA SafeInit == Init => SafeInv
<1> SUFFICES ASSUME Init PROVE SafeInv
  OBVIOUS
<1>1. TypeInv
  BY TypeInit
<1>2. \A j \in Jobs : ~InRun(j) /\ ~Uploaded(j) /\ ~Committed(j)
  BY DEF Init, InRun, Running, Uploaded, Committed
<1>3. StagedOfDate /\ StagedIsRead /\ PastDates /\ CopiesThere /\ CountFresh
  BY <1>2 DEF Init, StagedOfDate, OfDate, StagedIsRead, PastDates, CopiesThere,
              CountFresh, Runs
<1>4. InflightSpent /\ EvidencePast
  BY DEF Init, InflightSpent, EvidencePast
<1>5. SealedExact
  BY DEF Init, SealedExact, Sealed, SucceededOn
<1> QED BY <1>1, <1>3, <1>4, <1>5 DEF SafeInv

\* A DELETE or an INSERT commits: for the run that waits for it, which goes on,
\* or for one that failed before.
LEMMA WriteSafe ==
    ASSUME SafeInv, TypeInv', NEW s \in Statements, s.kind \in Writing, Effect(s),
           UNCHANGED <<staged, results, manifest, date, rows, lakeCount>>,
           inflight' \subseteq inflight,
           ~Sealed(s.job, s.date),
           \A i \in Jobs : i # s.job => pc'[i] = pc[i],
           \/ pc'[s.job] = pc[s.job]
           \/ /\ pc[s.job] \in Writing /\ pc'[s.job] \in {"insert", "drop"}
              /\ date[s.job] = s.date,
           Committed(s.job)' /\ date[s.job] = s.date =>
               /\ CopiesOf(s.job, staged[<<s.job, s.date>>]) \subseteq lake'
               /\ pc'[s.job] \notin {"sum", "manifest"}
    PROVE  SafeInv'
<1>1. /\ TypeInv /\ StagedOfDate /\ StagedIsRead /\ PastDates /\ CopiesThere
      /\ CountFresh /\ InflightSpent /\ EvidencePast
      /\ s.job \in Jobs /\ s.date \in Dates
  BY DEF SafeInv, Statements
<1>2. \A d \in Dates : d # s.date =>
         Partition(d)' = Partition(d) /\ lastWriter'[d] = lastWriter[d]
  BY <1>1, EffectLocal
<1>3. lastWriter'[s.date] = s.job
  BY <1>1, EffectLocal
<1>4. \A i \in Jobs : Running(i)' => date[i] \in Dates
  BY DEF TypeInv, LoopOK
<1>5. StagedOfDate'
  BY <1>1 DEF StagedOfDate, OfDate
<1>6. StagedIsRead'
  BY <1>1 DEF StagedIsRead, Uploaded, Writing
<1>7. PastDates'
  BY <1>1 DEF PastDates, InRun, Running, Writing, Exits
<1>8. CopiesThere'
  <2> SUFFICES ASSUME NEW i \in Jobs, Committed(i)', lastWriter'[date[i]] = i
               PROVE  CopiesOf(i, staged[<<i, date[i]>>]) \subseteq lake'
    BY DEF CopiesThere, CopiesOf
  <2>1. date[i] \in Dates
    BY <1>4 DEF Committed, Running, Exits
  <2>2. CASE date[i] = s.date
    BY <1>3, <2>2
  <2>3. CASE date[i] # s.date
    <3>1. Partition(date[i])' = Partition(date[i]) /\ lastWriter[date[i]] = i
      BY <1>2, <2>1, <2>3
    <3>2. CASE Committed(i)
      <4>1. CopiesOf(i, staged[<<i, date[i]>>]) \subseteq lake
        BY <1>1, <3>1, <3>2 DEF CopiesThere
      <4>2. CopiesOf(i, staged[<<i, date[i]>>]) \subseteq Partition(date[i])
        BY <1>1, <2>1, <4>1 DEF StagedOfDate, OfDate, CopiesOf, Partition
      <4> QED BY <3>1, <4>2 DEF Partition
    <3>3. CASE ~Committed(i)
      BY <2>3, <3>3 DEF Committed, Writing
    <3> QED BY <3>2, <3>3
  <2> QED BY <2>2, <2>3
<1>9. CountFresh'
  <2> SUFFICES ASSUME NEW i \in Jobs, pc'[i] \in {"sum", "manifest"},
                      lastWriter'[date[i]] = i
               PROVE  lakeCount[i] = Cardinality(Partition(date[i])')
    BY DEF CountFresh, Partition
  <2>1. date[i] \in Dates /\ pc'[i] = pc[i]
    BY <1>4 DEF Running, Exits
  <2>2. date[i] # s.date
    BY <1>3 DEF Committed
  <2>3. Partition(date[i])' = Partition(date[i]) /\ lastWriter[date[i]] = i
    BY <1>2, <2>1, <2>2
  <2> QED BY <1>1, <2>1, <2>3 DEF CountFresh
<1>10. InflightSpent'
  <2>1. ASSUME NEW i \in Jobs, NEW d \in Dates, Spent(i, d) PROVE Spent(i, d)'
    <3>1. ~Sealed(i, d)'
      BY <2>1 DEF Spent, Sealed
    <3> QED BY <1>1, <2>1, <3>1 DEF Spent, InRun, Running, Exits, Writing
  <2>2. \A t \in inflight : t.job \in Jobs /\ t.date \in Dates
    BY <1>1 DEF TypeInv, TypeOK, Statements
  <2> QED BY <1>1, <2>1, <2>2 DEF InflightSpent
<1>11. SealedExact'
  BY EffectKeepsSuccess
<1>12. EvidencePast'
  <2>1. \A d \in Dates : manifest[d] # None => manifest[d].job \in Jobs
    BY <1>1 DEF TypeInv, TypeOK, Manifests
  <2>2. \A i \in Jobs : /\ pc[i] # "off" => pc'[i] # "off"
                        /\ InRun(i)' => InRun(i)
    BY <1>1 DEF InRun, Running, Exits, Writing
  <2> QED BY <1>1, <2>1, <2>2 DEF EvidencePast
<1> QED BY <1>5, <1>6, <1>7, <1>8, <1>9, <1>10, <1>11, <1>12 DEF SafeInv

\* Every step keeps what a success and a manifest stand for.
LEMMA SafeStep == SafeInv /\ [Next]_vars => SafeInv'
<1> SUFFICES ASSUME SafeInv, [Next]_vars PROVE SafeInv'
  OBVIOUS
<1> USE DEF lakeVars, bucketVars, localVars, loopVars
<1>0. /\ TypeInv /\ StagedOfDate /\ StagedIsRead /\ PastDates /\ CopiesThere
      /\ CountFresh /\ InflightSpent /\ SealedExact /\ EvidencePast
      /\ TypeInv'
  BY TypeStep DEF SafeInv
<1>a. /\ pc \in [Jobs -> PCs]
      /\ rows \in [Jobs -> SUBSET TripIDs]
      /\ lakeCount \in [Jobs -> Counts]
      /\ results \in [Jobs -> Seq(DateResults)]
      /\ staged \in [Runs -> SUBSET TripIDs]
      /\ date \in [Jobs -> Dates \cup {None}]
      /\ manifest \in [Dates -> Manifests \cup {None}]
      /\ \A j \in Jobs : Running(j) => date[j] \in Dates
  BY <1>0 DEF TypeInv, TypeOK, LoopOK
<1>1. CASE UNCHANGED <<lakeVars, bucketVars, localVars, loopVars>>
  BY <1>0, <1>1 DEF SafeInv, StagedOfDate, OfDate, StagedIsRead, Uploaded,
     PastDates, InRun, Running, CopiesThere, Committed, CopiesOf, CountFresh,
     Partition, InflightSpent, Spent, Sealed, SealedExact, Exact, EvidencePast
<1>2. ASSUME NEW j \in Jobs, NEW s \in Spans, StartTask(j, s) PROVE SafeInv'
  <2>1. /\ pc[j] = "off" /\ results[j] = <<>>
        /\ pc' = [pc EXCEPT ![j] = "read"]
        /\ \A i \in Jobs : i # j => date'[i] = date[i]
        /\ UNCHANGED <<lake, lastWriter, staged, rows, lakeCount, results,
                       manifest, inflight>>
    BY <1>0, <1>2 DEF StartTask, PastDates, TypeInv, TypeOK
  <2>2. StagedOfDate' /\ StagedIsRead'
    BY <1>0, <1>a, <2>1 DEF StagedOfDate, OfDate, StagedIsRead, Uploaded
  <2>3. PastDates'
    BY <1>0, <1>a, <2>1 DEF PastDates, InRun, Running, Exits
  <2>4. CopiesThere' /\ CountFresh'
    <3>1. \A i \in Jobs : Committed(i)' =>
             Committed(i) /\ pc'[i] = pc[i] /\ date'[i] = date[i]
      BY <1>a, <2>1 DEF Committed
    <3>2. CopiesThere'
      BY <1>0, <2>1, <3>1 DEF CopiesThere, CopiesOf
    <3>3. CountFresh'
      BY <1>0, <2>1, <3>1 DEF CountFresh, Committed, Partition
    <3> QED BY <3>2, <3>3
  <2>5. InflightSpent'
    <3>1. ASSUME NEW i \in Jobs, NEW d \in Dates, Spent(i, d) PROVE Spent(i, d)'
      <4>1. i # j
        BY <2>1, <3>1 DEF Spent
      <4>2. pc'[i] = pc[i] /\ date'[i] = date[i]
        BY <1>a, <2>1, <4>1
      <4>3. ~Sealed(i, d)'
        BY <2>1, <3>1 DEF Spent, Sealed
      <4> QED BY <3>1, <4>2, <4>3 DEF Spent, InRun, Running
    <3>2. \A t \in inflight : t.job \in Jobs /\ t.date \in Dates
      BY <1>0 DEF TypeInv, TypeOK, Statements
    <3> QED BY <1>0, <2>1, <3>1, <3>2 DEF InflightSpent
  <2>6. SealedExact'
    BY <1>0, <2>1 DEF SealedExact, Sealed, Exact, Partition, CopiesOf
  <2>7. EvidencePast'
    <3>1. \A d \in Dates : manifest[d] # None =>
             manifest[d].job \in Jobs /\ manifest[d].job # j
      BY <1>0, <1>a, <2>1 DEF EvidencePast, Manifests
    <3>2. \A i \in Jobs : i # j => /\ pc'[i] = pc[i] /\ date'[i] = date[i]
                                   /\ InRun(i)' <=> InRun(i)
      BY <1>a, <2>1 DEF InRun, Running
    <3> QED BY <1>0, <2>1, <3>1, <3>2 DEF EvidencePast
  <2> QED BY <1>0, <2>2, <2>3, <2>4, <2>5, <2>6, <2>7 DEF SafeInv
<1>3. ASSUME NEW j \in Jobs, ReadPostgres(j) PROVE SafeInv'
  <2>1. InRun(j)
    BY <1>3 DEF ReadPostgres, Step, InRun, Running, Exits
  <2>2. CASE Step(j, "read", "upload")
             /\ rows' = [rows EXCEPT ![j] = PgRows(date[j])]
             /\ UNCHANGED <<lakeCount, lakeSum>>
    <3>1. PgRows(date[j]) \subseteq OfDate(date[j])
      BY <1>0 DEF PgRows, OfDate, TypeInv, TypeOK
    <3> QED BY <1>0, <1>3, <1>a, <2>1, <2>2, <3>1, MoveSafe
            DEF ReadPostgres, Step, Goto, Uploaded, Committed, InRun, PCs
  <2>3. CASE pc[j] = "read" /\ EndRun(j, FALSE, 0)
    BY <1>0, <1>3, <2>1, <2>3, EndRunSafe, ZeroTypes DEF ReadPostgres, OwnManifest
  <2> QED BY <1>3, <2>2, <2>3 DEF ReadPostgres
<1>4. ASSUME NEW j \in Jobs, UploadParquet(j) PROVE SafeInv'
  <2>1. InRun(j) /\ date[j] \in Dates
    BY <1>4, <1>a DEF UploadParquet, Step, InRun, Running, Exits
  <2>2. CASE Step(j, "upload", "create")
             /\ staged' = [staged EXCEPT ![<<j, date[j]>>] = rows[j]]
             /\ UNCHANGED localVars
    <3>1. /\ pc[j] = "upload" /\ pc' = [pc EXCEPT ![j] = "create"]
          /\ UNCHANGED <<lake, lastWriter, rows, lakeCount, results, manifest,
                         inflight, date>>
          /\ staged'[<<j, date[j]>>] = rows[j]
          /\ \A i \in Jobs, d \in Dates : i # j \/ d # date[j] =>
                staged'[<<i, d>>] = staged[<<i, d>>]
      BY <1>4, <1>a, <2>1, <2>2 DEF UploadParquet, Step, Goto, Runs
    <3>2. ~Sealed(j, date[j])
      BY <1>0, <2>1, NotYetSealed
    <3>3. StagedOfDate' /\ StagedIsRead'
      <4>1. StagedOfDate'
        <5>1. \A i \in Jobs, d \in Dates : staged'[<<i, d>>] \subseteq OfDate(d)
          BY <1>0, <2>1, <3>1 DEF StagedOfDate
        <5>2. \A i \in Jobs : pc'[i] = "upload" => rows[i] \subseteq OfDate(date[i])
          BY <1>0, <1>a, <3>1 DEF StagedOfDate
        <5> QED BY <3>1, <5>1, <5>2 DEF StagedOfDate, OfDate
      <4>2. StagedIsRead'
        <5> SUFFICES ASSUME NEW i \in Jobs, Uploaded(i)'
                     PROVE  staged'[<<i, date[i]>>] = rows[i]
          BY <3>1 DEF StagedIsRead
        <5>1. CASE i = j
          BY <3>1, <5>1
        <5>2. CASE i # j
          <6>1. Uploaded(i)
            BY <1>a, <3>1, <5>2 DEF Uploaded
          <6>2. date[i] \in Dates
            BY <1>a, <6>1 DEF Uploaded, Running, Exits
          <6> QED BY <1>0, <3>1, <5>2, <6>1, <6>2 DEF StagedIsRead
        <5> QED BY <5>1, <5>2
      <4> QED BY <4>1, <4>2
    <3>4. PastDates' /\ CountFresh' /\ InflightSpent'
      BY <1>0, <1>a, <3>1 DEF PastDates, InRun, Running, Exits, CountFresh,
                              Partition, InflightSpent, Spent, Sealed
    <3>5. CopiesThere'
      BY <1>0, <1>a, <3>1 DEF CopiesThere, Committed, CopiesOf, Running, Exits
    <3>6. SealedExact'
      <4> SUFFICES ASSUME NEW i \in Jobs, NEW d \in Dates,
                          Sealed(i, d), lastWriter[d] = i
                   PROVE  Exact(i, d)'
        BY <3>1 DEF SealedExact, Sealed
      <4>1. Exact(i, d) /\ staged'[<<i, d>>] = staged[<<i, d>>]
        BY <1>0, <3>1, <3>2 DEF SealedExact
      <4> QED BY <3>1, <4>1 DEF Exact, Partition, CopiesOf
    <3>7. EvidencePast'
      <4>1. \A d \in Dates : manifest[d] # None => manifest[d].job \in Jobs
        BY <1>a DEF Manifests
      <4>2. \A i \in Jobs : /\ pc'[i] # "off" <=> pc[i] # "off"
                            /\ InRun(i)' <=> InRun(i)
        BY <1>a, <2>1, <3>1 DEF InRun, Running, Exits
      <4>3. \A d \in Dates : manifest[d] # None /\ manifest[d].success =>
               manifest[d].job # j \/ d # date[j]
        BY <3>2 DEF Sealed
      <4> QED BY <1>0, <3>1, <4>1, <4>2, <4>3 DEF EvidencePast
    <3> QED BY <1>0, <3>3, <3>4, <3>5, <3>6, <3>7 DEF SafeInv
  <2>3. CASE pc[j] = "upload" /\ EndRun(j, FALSE, 0) /\ UNCHANGED staged
    BY <1>0, <1>4, <2>1, <2>3, EndRunSafe, ZeroTypes DEF UploadParquet, OwnManifest
  <2> QED BY <1>4, <2>2, <2>3 DEF UploadParquet
<1>5. ASSUME NEW j \in Jobs, NEW kind \in Kinds, NEW onError \in {"failed", "cleanup"},
             pc[j] = kind \/ (pc[j] = "cleanup" /\ onError = "failed"),
             Goto(j, onError), RunFails(j, kind),
             UNCHANGED <<bucketVars, localVars>>
      PROVE  SafeInv'
  <2>1. InRun(j) /\ date[j] \in Dates
    BY <1>5, <1>a DEF InRun, Running, Exits, Kinds
  <2>2. Uploaded(j)
    BY <1>5 DEF Uploaded, Kinds
  <2>3. staged[<<j, date[j]>>] = rows[j]
    BY <1>0, <2>2 DEF StagedIsRead
  <2>4. ~Committed(j)'
    BY <1>5, <1>a DEF Committed, Goto
  <2>5. \A s \in inflight' : s \notin inflight => s = Statement(j, kind)
    BY <1>5 DEF RunFails
  <2>6. \A s \in inflight' : s \notin inflight => s.job = j /\ s.date = date[j]
    BY <2>5 DEF Statement
  <2>7. /\ UNCHANGED <<lake, lastWriter, staged, manifest, rows, lakeCount>>
        /\ Running(j) /\ onError \in PCs \ {"off"}
        /\ onError \notin {"upload", "sum", "manifest"}
        /\ pc[j] \in {"cleanup", "failed"} => onError \in {"cleanup", "failed"}
    BY <1>5, <2>1 DEF RunFails, InRun, PCs
  <2> QED BY <1>0, <1>5, <2>1, <2>3, <2>4, <2>6, <2>7, MoveSafe
<1>6. ASSUME NEW j \in Jobs, CreateStaging(j) PROVE SafeInv'
  <2>1. CASE Step(j, "create", "delete") /\ RunSucceeds(j, "create")
    <3>1. InRun(j) /\ Uploaded(j)
      BY <2>1 DEF Step, InRun, Running, Exits, Uploaded
    <3>2. UNCHANGED <<lake, lastWriter, inflight>>
      BY <2>1 DEF RunSucceeds, Effect, Statement
    <3>3. staged[<<j, date[j]>>] = rows[j]
      BY <1>0, <3>1 DEF StagedIsRead
    <3> QED BY <1>0, <1>6, <1>a, <2>1, <3>1, <3>2, <3>3, MoveSafe
            DEF CreateStaging, CommitStatement, Step, Goto, Committed, InRun, PCs
  <2>2. CASE Step(j, "create", "failed") /\ RunFails(j, "create")
    BY <1>5, <1>6, <2>2 DEF CreateStaging, CommitStatement, Step, Kinds
  <2> QED BY <1>6, <2>1, <2>2 DEF CreateStaging, CommitStatement
<1>7. ASSUME NEW j \in Jobs, NEW kind \in Writing, NEW next \in {"insert", "drop"},
             Step(j, kind, next), RunSucceeds(j, kind),
             (kind = "delete" /\ next = "insert") \/ (kind = "insert" /\ next = "drop"),
             UNCHANGED <<bucketVars, localVars>>
      PROVE  SafeInv'
  <2>1. InRun(j) /\ date[j] \in Dates
    BY <1>7, <1>a DEF Step, InRun, Running, Exits, Writing
  <2> DEFINE s == Statement(j, kind)
  <2>2. /\ s \in Statements /\ s.kind = kind /\ s.job = j /\ s.date = date[j]
        /\ Effect(s) /\ UNCHANGED inflight
    BY <1>7, <2>1 DEF Statement, Statements, Writing, Kinds, RunSucceeds
  <2>3. ~Sealed(j, date[j])
    BY <1>0, <2>1, NotYetSealed
  <2>4. Committed(j)' => CopiesOf(j, staged[<<j, date[j]>>]) \subseteq lake'
    <3>1. Committed(j)' => kind = "insert"
      BY <1>7, <1>a DEF Step, Goto, Committed
    <3> QED BY <2>2, <3>1 DEF Effect
  <2>5. /\ pc'[j] = next /\ pc[j] = kind
        /\ \A i \in Jobs : i # j => pc'[i] = pc[i]
        /\ UNCHANGED <<date, results>>
    BY <1>7, <1>a DEF Step, Goto
  <2> HIDE DEF s
  <2> QED BY <1>0, <1>7, <2>2, <2>3, <2>4, <2>5, WriteSafe
<1>8. ASSUME NEW j \in Jobs, DeletePartition(j) \/ InsertPartition(j)
      PROVE  SafeInv'
  <2>1. CASE DeletePartition(j)
    <3>1. CASE Step(j, "delete", "insert") /\ RunSucceeds(j, "delete")
      BY <1>7, <2>1, <3>1 DEF DeletePartition, CommitStatement, Writing
    <3>2. CASE Step(j, "delete", "cleanup") /\ RunFails(j, "delete")
      BY <1>5, <2>1, <3>2 DEF DeletePartition, CommitStatement, Step, Kinds
    <3> QED BY <2>1, <3>1, <3>2 DEF DeletePartition, CommitStatement
  <2>2. CASE InsertPartition(j)
    <3>1. CASE Step(j, "insert", "drop") /\ RunSucceeds(j, "insert")
      BY <1>7, <2>2, <3>1 DEF InsertPartition, CommitStatement, Writing
    <3>2. CASE Step(j, "insert", "cleanup") /\ RunFails(j, "insert")
      BY <1>5, <2>2, <3>2 DEF InsertPartition, CommitStatement, Step, Kinds
    <3> QED BY <2>2, <3>1, <3>2 DEF InsertPartition, CommitStatement
  <2> QED BY <1>8, <2>1, <2>2
<1>9. ASSUME NEW j \in Jobs, DropStaging(j) PROVE SafeInv'
  <2>1. InRun(j) /\ Uploaded(j) /\ date[j] \in Dates
    BY <1>9, <1>a DEF DropStaging, Step, InRun, Running, Exits, Uploaded
  <2>2. staged[<<j, date[j]>>] = rows[j]
    BY <1>0, <2>1 DEF StagedIsRead
  <2>3. /\ UNCHANGED <<lake, lastWriter>>
        /\ \A s \in inflight' : s.kind \in Writing => s \in inflight
    BY <1>9 DEF DropStaging, RunSucceeds, RunFails, Effect, Statement, Writing
  <2>4. CASE Step(j, "drop", "count")
    BY <1>0, <1>9, <1>a, <2>1, <2>2, <2>3, <2>4, MoveSafe
    DEF DropStaging, Step, Goto, Committed, InRun, PCs
  <2>5. CASE Step(j, "cleanup", "failed")
    BY <1>0, <1>9, <1>a, <2>1, <2>2, <2>3, <2>5, MoveSafe
    DEF DropStaging, Step, Goto, Committed, InRun, PCs
  <2> QED BY <1>9, <2>4, <2>5 DEF DropStaging
<1>10. ASSUME NEW j \in Jobs, UploadFailure(j) PROVE SafeInv'
  <2>1. InRun(j) /\ date[j] \in Dates
    BY <1>10, <1>a DEF UploadFailure, InRun, Running, Exits
  <2>2. UploadManifest(j, FailureManifest(j))
    BY <1>10 DEF UploadFailure
  <2>3. OwnManifest(j, FALSE)
    BY <1>a, <2>1, <2>2 DEF UploadManifest, PutManifest, FailureManifest, OwnManifest
  <2> QED BY <1>0, <1>10, <2>1, <2>3, EndRunSafe, ZeroTypes DEF UploadFailure
<1>11. ASSUME NEW j \in Jobs, CountLake(j) PROVE SafeInv'
  <2>1. InRun(j) /\ Uploaded(j) /\ date[j] \in Dates
    BY <1>11, <1>a DEF CountLake, QueryFails, Step, InRun, Running, Exits, Uploaded
  <2>2. CASE /\ Step(j, "count", "sum")
             /\ lakeCount' = [lakeCount EXCEPT ![j] = Cardinality(Partition(date[j]))]
             /\ UNCHANGED <<rows, lakeSum>>
    <3>1. staged[<<j, date[j]>>] = rows[j]
      BY <1>0, <2>1 DEF StagedIsRead
    <3> QED BY <1>0, <1>11, <1>a, <2>1, <2>2, <3>1, MoveSafe
            DEF CountLake, Step, Goto, Committed, InRun, PCs
  <2>3. CASE pc[j] = "count" /\ QueryFails(j)
    BY <1>0, <1>11, <2>1, <2>3, EndRunSafe, ZeroTypes
    DEF CountLake, QueryFails, OwnManifest
  <2> QED BY <1>11, <2>2, <2>3 DEF CountLake
<1>12. ASSUME NEW j \in Jobs, SumLake(j) PROVE SafeInv'
  <2>1. InRun(j) /\ Uploaded(j) /\ date[j] \in Dates
    BY <1>12, <1>a DEF SumLake, QueryFails, Step, InRun, Running, Exits, Uploaded
  <2>2. CASE Step(j, "sum", "manifest") /\ UNCHANGED <<rows, lakeCount>>
    <3>1. staged[<<j, date[j]>>] = rows[j]
      BY <1>0, <2>1 DEF StagedIsRead
    <3>2. lastWriter[date[j]] = j => lakeCount[j] = Cardinality(Partition(date[j]))
      BY <1>0, <2>2 DEF CountFresh, Step
    <3> QED BY <1>0, <1>12, <1>a, <2>1, <2>2, <3>1, <3>2, MoveSafe
            DEF SumLake, Step, Goto, Committed, InRun, PCs
  <2>3. CASE pc[j] = "sum" /\ QueryFails(j)
    BY <1>0, <1>12, <2>1, <2>3, EndRunSafe, ZeroTypes
    DEF SumLake, QueryFails, OwnManifest
  <2> QED BY <1>12, <2>2, <2>3 DEF SumLake
<1>r. ASSUME NEW j \in Jobs, pc[j] = "manifest"
      PROVE  /\ InRun(j) /\ lakeCount[j] \in Counts /\ Match(j) \in BOOLEAN
             /\ Match(j) => Deserved(j)
             /\ UploadManifest(j, ReconciledManifest(j)) => OwnManifest(j, Match(j))
  <2>1. InRun(j) /\ Uploaded(j) /\ Committed(j)
        /\ date[j] \in Dates /\ lakeCount[j] \in Counts
    BY <1>a, <1>r DEF InRun, Running, Exits, Uploaded, Committed
  <2>2. Match(j) \in BOOLEAN /\ (Match(j) =>
           lakeCount[j] = Cardinality(staged[<<j, date[j]>>]))
    BY <1>0, <2>1 DEF Match, StagedIsRead
  <2>3. Match(j) => Deserved(j)
    <3> SUFFICES ASSUME Match(j), lastWriter[date[j]] = j
                 PROVE  Exact(j, date[j])
      BY <1>r DEF Deserved
    <3>1. CopiesOf(j, staged[<<j, date[j]>>]) \subseteq lake
      BY <1>0, <2>1 DEF CopiesThere
    <3>2. Cardinality(Partition(date[j])) = Cardinality(staged[<<j, date[j]>>])
      BY <1>0, <1>r, <2>2 DEF CountFresh
    <3> QED BY <1>0, <2>1, <3>1, <3>2, EqualCountsExact
  <2>4. ASSUME UploadManifest(j, ReconciledManifest(j))
        PROVE  OwnManifest(j, Match(j))
    <3>1. /\ \A d \in Dates : d # date[j] => manifest'[d] = manifest[d]
          /\ \/ manifest'[date[j]] = manifest[date[j]]
             \/ /\ manifest'[date[j]].job = j
                /\ manifest'[date[j]].success = Match(j)
                /\ manifest'[date[j]].rowCount = lakeCount[j]
      BY <1>a, <2>1, <2>4 DEF UploadManifest, PutManifest, ReconciledManifest
    <3> QED BY <2>2, <2>3, <3>1 DEF OwnManifest
  <2> QED BY <2>1, <2>2, <2>3, <2>4
<1>13. ASSUME NEW j \in Jobs, Reconcile(j) PROVE SafeInv'
  <2>1. /\ pc[j] = "manifest" /\ UploadManifest(j, ReconciledManifest(j))
        /\ EndRun(j, Match(j), lakeCount[j])
        /\ UNCHANGED <<lake, lastWriter, staged, inflight, span>>
    BY <1>13 DEF Reconcile
  <2> QED BY <1>0, <1>r, <2>1, EndRunSafe
<1>14. ASSUME NEW j \in Jobs, UploadSummary(j) PROVE SafeInv'
  BY <1>0, <1>14, <1>a, MoveSafe
  DEF UploadSummary, Goto, InRun, Running, Exits, Uploaded, Committed, PCs
<1>15. ASSUME NEW j \in Jobs, Crash(j) PROVE SafeInv'
  <2>1. /\ Goto(j, "crashed") /\ Running(j) /\ ForgetLocals(j)
        /\ UNCHANGED <<lake, lastWriter, staged>>
    BY <1>15 DEF Crash
  <2>2. CASE UNCHANGED manifest
    <3>1. \A s \in inflight' : s \notin inflight =>
             /\ s.job = j /\ s.date = date[j]
             /\ pc[j] \in Kinds \cup {"cleanup"}
      BY <1>15 DEF Crash, Statement
    <3>2. /\ ~InRun(j)' /\ ~Uploaded(j)' /\ ~Committed(j)'
          /\ \A i \in Jobs : i # j => /\ rows'[i] = rows[i]
                                      /\ lakeCount'[i] = lakeCount[i]
      BY <1>a, <2>1 DEF ForgetLocals, Goto, InRun, Running, Exits,
                        Uploaded, Committed
    <3>3. pc[j] \in Kinds \cup {"cleanup"} => InRun(j)
      BY DEF Kinds, InRun, Running, Exits
    <3> QED BY <1>0, <2>1, <2>2, <3>1, <3>2, <3>3, MoveSafe DEF PCs, Exits
  <2>3. CASE pc[j] = "failed" /\ PutManifest(j, FailureManifest(j)) /\ UNCHANGED inflight
    <3>1. InRun(j) /\ date[j] \in Dates
      BY <1>a, <2>3 DEF InRun, Running, Exits
    <3>2. OwnManifest(j, FALSE)
      BY <1>a, <2>3, <3>1 DEF PutManifest, FailureManifest, OwnManifest
    <3> QED BY <1>0, <2>1, <2>3, <3>1, <3>2, CrashPutSafe
  <2>4. CASE pc[j] = "manifest" /\ PutManifest(j, ReconciledManifest(j)) /\ UNCHANGED inflight
    BY <1>0, <1>r, <2>1, <2>4, CrashPutSafe DEF UploadManifest
  <2> QED BY <1>15, <2>2, <2>3, <2>4 DEF Crash
<1>16. ASSUME NEW s \in Statements, AthenaEnds(s) PROVE SafeInv'
  <2>1. CASE s.kind \in Writing /\ Effect(s)
    <3>1. Spent(s.job, s.date)
      BY <1>0, <1>16, <2>1 DEF AthenaEnds, InflightSpent
    <3>2. Committed(s.job) => date[s.job] # s.date
      <4>1. s.date \in Int
        BY TripsAssumption DEF Statements
      <4> QED BY <3>1, <4>1 DEF Spent, Committed, InRun, Running, Exits
    <3>3. Committed(s.job)' => Committed(s.job)
      BY <1>16 DEF AthenaEnds, Committed
    <3> QED BY <1>0, <1>16, <2>1, <3>1, <3>2, <3>3, WriteSafe DEF AthenaEnds, Spent
  <2>2. CASE UNCHANGED <<lake, lastWriter>>
    BY <1>0, <1>16, <2>2 DEF AthenaEnds, SafeInv, StagedOfDate, OfDate, StagedIsRead,
       Uploaded, PastDates, InRun, Running, CopiesThere, Committed, CopiesOf,
       CountFresh, Partition, InflightSpent, Spent, Sealed, SealedExact, Exact,
       EvidencePast
  <2>3. s.kind \notin Writing /\ Effect(s) => UNCHANGED <<lake, lastWriter>>
    BY <1>0, EffectLocal
  <2> QED BY <1>16, <2>1, <2>2, <2>3 DEF AthenaEnds
<1> QED
  <2>1. ASSUME NEW t \in TripIDs, RowArrives(t) PROVE SafeInv'
    BY <1>1, <2>1 DEF RowArrives
  <2>2. CASE UNCHANGED vars
    BY <1>1, <2>2 DEF vars
  <2> QED
    BY <1>2, <1>3, <1>4, <1>6, <1>8, <1>9, <1>10, <1>11, <1>12, <1>13, <1>14,
       <1>15, <1>16, <2>1, <2>2 DEF Next, JobStep

\* A run that reports success left in the lake exactly the rows it read, until
\* another task's statement touches the date (runOnce, main.go:143-184).
THEOREM SuccessIsExact == Spec => []SuccessMeansExact
<1>1. SafeInv => SuccessMeansExact
  BY DEF SafeInv, SealedExact, Sealed, SuccessMeansExact
<1> QED BY SafeInit, SafeStep, <1>1, PTL DEF Spec

\* A success manifest stands for the rows the lake holds, in number and one by
\* one, until another task's statement touches the date (manifest.go:29).
THEOREM EvidenceIsAccurate == Spec => []EvidenceAccurate
<1>1. SafeInv => EvidenceAccurate
  <2> SUFFICES ASSUME SafeInv, NEW d \in Dates, manifest[d] # None,
                      manifest[d].success, lastWriter[d] = manifest[d].job
               PROVE  /\ Exact(manifest[d].job, d)
                      /\ manifest[d].rowCount
                            = Cardinality(staged[<<manifest[d].job, d>>])
    BY DEF EvidenceAccurate
  <2>1. manifest[d].job \in Jobs
    BY DEF SafeInv, TypeInv, TypeOK, Manifests
  <2> QED BY <2>1 DEF SafeInv, EvidencePast, SealedExact, Sealed
<1> QED BY SafeInit, SafeStep, <1>1, PTL DEF Spec

-----------------------------------------------------------------------------
(***************************************************************************)
(* Part 3: what the exit codes stand for.  A job that wrote a date, or has *)
(* a statement left that may, has a result for the date, is on it, or has  *)
(* crashed; and it does not exit with zero over a failed result.           *)
(***************************************************************************)
Attempted(j, d) ==
    \/ \E i \in DOMAIN results[j] : results[j][i].date = d
    \/ InRun(j) /\ date[j] = d
    \/ pc[j] = "crashed"

ExitInv ==
    /\ \A d \in Dates, j \in Jobs : lastWriter[d] = j => Attempted(j, d)
    /\ \A s \in inflight : Attempted(s.job, s.date)
    /\ \A j \in Jobs : pc[j] = "ok" => Failures(results[j]) = {}
    /\ \A j \in Jobs : InRun(j) /\ span[j].mode = "single" => results[j] = <<>>

LEMMA ExitInit == Init => ExitInv
BY JobsAssumption DEF Init, ExitInv, InRun, Running

\* A move inside a run, or a crash, with what Athena did for it.
LEMMA GotoExit ==
    ASSUME TypeInv, ExitInv, NEW j \in Jobs, Running(j),
           NEW label \in PCs \ {"off", "ok", "error", "summary"},
           Goto(j, label), InRun(j) \/ label = "crashed",
           \A d \in Dates : \/ lastWriter'[d] = lastWriter[d]
                            \/ lastWriter'[d] = j /\ date[j] = d,
           \A s \in inflight' : \/ s \in inflight
                                \/ s.job = j /\ s.date = date[j]
    PROVE  ExitInv'
<1>1. /\ \A i \in Jobs : i # j => pc'[i] = pc[i]
      /\ pc'[j] = label /\ UNCHANGED <<span, date, results>>
  BY DEF Goto, TypeInv, TypeOK
<1>2. InRun(j)' \/ pc'[j] = "crashed"
  BY <1>1 DEF InRun, Running, Exits, PCs
<1>3. ASSUME NEW i \in Jobs, NEW d \in Dates, Attempted(i, d)
      PROVE  Attempted(i, d)'
  <2>1. CASE i = j
    <3>1. CASE InRun(j) /\ date[j] = d
      BY <1>1, <1>2, <2>1, <3>1 DEF Attempted
    <3>2. CASE \E k \in DOMAIN results[j] : results[j][k].date = d
      BY <1>1, <2>1, <3>2 DEF Attempted
    <3>3. pc[j] # "crashed"
      BY DEF Running, Exits
    <3> QED BY <1>3, <2>1, <3>1, <3>2, <3>3 DEF Attempted
  <2>2. CASE i # j
    BY <1>1, <1>3, <2>2 DEF Attempted, InRun, Running
  <2> QED BY <2>1, <2>2
<1>4. \A d : d = date[j] => Attempted(j, d)'
  BY <1>1, <1>2 DEF Attempted
<1>5. \A d \in Dates, i \in Jobs : lastWriter'[d] = i => Attempted(i, d)'
  <2> SUFFICES ASSUME NEW d \in Dates, NEW i \in Jobs, lastWriter'[d] = i
               PROVE  Attempted(i, d)'
    OBVIOUS
  <2>1. CASE lastWriter[d] = i
    BY <1>3, <2>1 DEF ExitInv
  <2>2. CASE i = j /\ d = date[j]
    BY <1>4, <2>2
  <2> QED BY <2>1, <2>2
<1>6. \A s \in inflight : s.job \in Jobs /\ s.date \in Dates
  BY DEF TypeInv, TypeOK, Statements
<1>7. \A s \in inflight' : Attempted(s.job, s.date)'
  <2> SUFFICES ASSUME NEW s \in inflight' PROVE Attempted(s.job, s.date)'
    OBVIOUS
  <2>1. CASE s \in inflight
    BY <1>3, <1>6, <2>1 DEF ExitInv
  <2>2. CASE s.job = j /\ s.date = date[j]
    BY <1>4, <2>2
  <2> QED BY <2>1, <2>2
<1>8. \A i \in Jobs : pc'[i] = "ok" => Failures(results'[i]) = {}
  BY <1>1 DEF ExitInv
<1>9. \A i \in Jobs : InRun(i)' /\ span'[i].mode = "single" => results'[i] = <<>>
  BY <1>1 DEF ExitInv, InRun, Running, Exits
<1> QED BY <1>5, <1>7, <1>8, <1>9 DEF ExitInv

\* The end of a run leaves a result for its date.
LEMMA EndRunExit ==
    ASSUME TypeInv, ExitInv, NEW j \in Jobs, InRun(j),
           NEW success \in BOOLEAN, NEW count \in Counts,
           EndRun(j, success, count), UNCHANGED <<lastWriter, inflight, span>>
    PROVE  ExitInv'
<1> DEFINE r == [date |-> date[j], success |-> success, rowCount |-> count]
<1>1. /\ results \in [Jobs -> Seq(DateResults)] /\ pc \in [Jobs -> PCs]
      /\ date \in [Jobs -> Dates \cup {None}]
      /\ r \in DateResults /\ r.date = date[j] /\ r.success = success
  BY DEF TypeInv, TypeOK, InRun, LoopOK, DateResults
<1>2. /\ results'[j] = Append(results[j], r)
      /\ \A i \in Jobs : i # j => /\ pc'[i] = pc[i] /\ date'[i] = date[i]
                                  /\ results'[i] = results[i]
      /\ pc'[j] = "ok" => span[j].mode = "single" /\ success
      /\ pc'[j] \in {"ok", "error", "read", "summary"}
      /\ pc'[j] = "read" => span[j].mode # "single"
  BY <1>1 DEF EndRun
<1> HIDE DEF r
<1>3. /\ results[j] \in Seq(DateResults)
      /\ DOMAIN results[j] = 1..Len(results[j])
      /\ DOMAIN results'[j] = 1..(Len(results[j]) + 1)
      /\ Len(results[j]) \in Nat
      /\ \A k \in DOMAIN results[j] : results'[j][k] = results[j][k]
      /\ results'[j][Len(results[j]) + 1] = r
  BY <1>1, <1>2
<1>4. ASSUME NEW i \in Jobs, NEW d \in Dates, Attempted(i, d)
      PROVE  Attempted(i, d)'
  <2>1. CASE i # j
    BY <1>2, <1>4, <2>1 DEF Attempted, InRun, Running
  <2>2. CASE i = j
    <3>1. pc[j] # "crashed"
      BY DEF InRun, Running, Exits
    <3>2. CASE \E k \in DOMAIN results[j] : results[j][k].date = d
      BY <1>3, <2>2, <3>2 DEF Attempted
    <3>3. CASE date[j] = d
      <4>1. Len(results[j]) + 1 \in DOMAIN results'[j]
        BY <1>3
      <4> QED BY <1>1, <1>3, <2>2, <3>3, <4>1 DEF Attempted
    <3> QED BY <1>4, <2>2, <3>1, <3>2, <3>3 DEF Attempted
  <2> QED BY <2>1, <2>2
<1>5. \A d \in Dates, i \in Jobs : lastWriter[d] = i => Attempted(i, d)'
  BY <1>4 DEF ExitInv
<1>6. \A s \in inflight : Attempted(s.job, s.date)'
  <2>1. \A s \in inflight : s.job \in Jobs /\ s.date \in Dates
    BY DEF TypeInv, TypeOK, Statements
  <2> QED BY <1>4, <2>1 DEF ExitInv
<1>7. ASSUME pc'[j] = "ok" PROVE Failures(results'[j]) = {}
  <2>1. results[j] = <<>>
    BY <1>2, <1>7 DEF ExitInv
  <2>2. Len(results[j]) = 0
    BY <2>1
  <2>3. DOMAIN results'[j] = 1..1 /\ results'[j][1] = r
    BY <1>3, <2>2
  <2>4. r.success
    BY <1>1, <1>2, <1>7
  <2> QED BY <2>3, <2>4 DEF Failures
<1>8. \A i \in Jobs : pc'[i] = "ok" => Failures(results'[i]) = {}
  BY <1>2, <1>7 DEF ExitInv
<1>9. \A i \in Jobs : InRun(i)' /\ span[i].mode = "single" => results'[i] = <<>>
  <2>1. InRun(j)' => pc'[j] = "read"
    BY <1>2 DEF InRun, Running, Exits
  <2> QED BY <1>2, <2>1 DEF ExitInv, InRun, Running
<1> QED BY <1>5, <1>6, <1>8, <1>9 DEF ExitInv

\* Every step keeps what the exit codes stand for.
LEMMA ExitStep == SafeInv /\ ExitInv /\ [Next]_vars => ExitInv'
<1> SUFFICES ASSUME SafeInv, ExitInv, [Next]_vars PROVE ExitInv'
  OBVIOUS
<1> USE DEF lakeVars, bucketVars, localVars, loopVars
<1>0. TypeInv /\ PastDates /\ StagedOfDate
  BY DEF SafeInv
<1>a. /\ pc \in [Jobs -> PCs] /\ span \in [Jobs -> Spans \cup {None}]
      /\ date \in [Jobs -> Dates \cup {None}]
      /\ lastWriter \in [Dates -> Jobs \cup {None}]
      /\ \A s \in inflight : s.job \in Jobs /\ s.date \in Dates
      /\ \A j \in Jobs : Running(j) => date[j] \in Dates
  BY <1>0 DEF TypeInv, TypeOK, LoopOK, Statements
<1>1. CASE UNCHANGED <<lastWriter, inflight, loopVars>>
  BY <1>1 DEF ExitInv, Attempted, InRun, Running
<1>2. ASSUME NEW j \in Jobs, NEW s \in Spans, StartTask(j, s) PROVE ExitInv'
  <2>1. /\ pc[j] = "off" /\ results[j] = <<>> /\ pc'[j] = "read"
        /\ \A i \in Jobs : i # j => /\ pc'[i] = pc[i] /\ date'[i] = date[i]
                                    /\ span'[i] = span[i]
        /\ UNCHANGED <<lastWriter, inflight, results>>
    BY <1>0, <1>2, <1>a DEF StartTask, PastDates
  <2>2. ASSUME NEW i \in Jobs, NEW d \in Dates, Attempted(i, d)
        PROVE  Attempted(i, d)'
    <3>1. CASE i = j
      BY <2>1, <2>2, <3>1 DEF Attempted, InRun, Running
    <3>2. CASE i # j
      BY <2>1, <2>2, <3>2 DEF Attempted, InRun, Running
    <3> QED BY <3>1, <3>2
  <2>3. \A d \in Dates, i \in Jobs : lastWriter'[d] = i => Attempted(i, d)'
    BY <2>1, <2>2 DEF ExitInv
  <2>4. \A t \in inflight' : Attempted(t.job, t.date)'
    BY <1>a, <2>1, <2>2 DEF ExitInv
  <2>5. \A i \in Jobs : pc'[i] = "ok" => Failures(results'[i]) = {}
    BY <2>1 DEF ExitInv
  <2>6. \A i \in Jobs : InRun(i)' /\ span'[i].mode = "single" => results'[i] = <<>>
    BY <2>1 DEF ExitInv, InRun, Running
  <2> QED BY <2>3, <2>4, <2>5, <2>6 DEF ExitInv
<1>3. ASSUME NEW j \in Jobs, NEW success \in BOOLEAN, NEW count \in Counts,
             Running(j), pc[j] # "summary", EndRun(j, success, count),
             UNCHANGED <<lakeVars, span>>
      PROVE  ExitInv'
  BY <1>0, <1>3, EndRunExit DEF InRun
<1>4. ASSUME NEW j \in Jobs, Running(j), pc[j] # "summary",
             NEW label \in PCs \ {"off", "ok", "error", "summary"},
             Goto(j, label), UNCHANGED <<lastWriter, inflight>>
      PROVE  ExitInv'
  BY <1>0, <1>4, GotoExit DEF InRun
<1>5. ASSUME NEW j \in Jobs, Running(j), pc[j] # "summary",
             NEW label \in PCs \ {"off", "ok", "error", "summary"},
             Goto(j, label), NEW kind \in Kinds,
             RunSucceeds(j, kind) \/ RunFails(j, kind)
      PROVE  ExitInv'
  <2> DEFINE s == Statement(j, kind)
  <2>1. s \in Statements /\ s.job = j /\ s.date = date[j]
    BY <1>5, <1>a DEF Statement, Statements
  <2>2. \A d \in Dates : \/ lastWriter'[d] = lastWriter[d]
                         \/ lastWriter'[d] = j /\ date[j] = d
    <3>1. CASE Effect(s)
      BY <1>0, <1>a, <2>1, <3>1, EffectLocal
    <3>2. CASE UNCHANGED lastWriter
      BY <3>2
    <3> QED BY <1>5, <3>1, <3>2 DEF RunSucceeds, RunFails
  <2>3. \A t \in inflight' : t \in inflight \/ t = s
    BY <1>5 DEF RunSucceeds, RunFails
  <2> HIDE DEF s
  <2> QED BY <1>0, <1>5, <2>1, <2>2, <2>3, GotoExit DEF InRun
<1>6. ASSUME NEW j \in Jobs, ReadPostgres(j) \/ UploadParquet(j) PROVE ExitInv'
  <2>1. CASE ReadPostgres(j)
    BY <1>3, <1>4, <2>1, ZeroTypes DEF ReadPostgres, Step, Running, Exits, PCs
  <2>2. CASE UploadParquet(j)
    BY <1>3, <1>4, <2>2, ZeroTypes DEF UploadParquet, Step, Running, Exits, PCs
  <2> QED BY <1>6, <2>1, <2>2
<1>7. ASSUME NEW j \in Jobs,
             CreateStaging(j) \/ DeletePartition(j) \/ InsertPartition(j)
      PROVE  ExitInv'
  <2>1. CASE CreateStaging(j)
    BY <1>5, <2>1 DEF CreateStaging, CommitStatement, Step, Running, Exits, PCs, Kinds
  <2>2. CASE DeletePartition(j)
    BY <1>5, <2>2 DEF DeletePartition, CommitStatement, Step, Running, Exits, PCs, Kinds
  <2>3. CASE InsertPartition(j)
    BY <1>5, <2>3 DEF InsertPartition, CommitStatement, Step, Running, Exits, PCs, Kinds
  <2> QED BY <1>7, <2>1, <2>2, <2>3
<1>8. ASSUME NEW j \in Jobs, DropStaging(j) PROVE ExitInv'
  BY <1>5, <1>8 DEF DropStaging, Step, Running, Exits, PCs, Kinds
<1>9. ASSUME NEW j \in Jobs, UploadFailure(j) PROVE ExitInv'
  BY <1>3, <1>9, ZeroTypes DEF UploadFailure, Running, Exits
<1>10. ASSUME NEW j \in Jobs, CountLake(j) \/ SumLake(j) PROVE ExitInv'
  <2>1. CASE CountLake(j)
    BY <1>3, <1>4, <2>1, ZeroTypes DEF CountLake, QueryFails, Step, Running, Exits, PCs
  <2>2. CASE SumLake(j)
    BY <1>3, <1>4, <2>2, ZeroTypes DEF SumLake, QueryFails, Step, Running, Exits, PCs
  <2> QED BY <1>10, <2>1, <2>2
<1>11. ASSUME NEW j \in Jobs, Reconcile(j) PROVE ExitInv'
  <2>1. Match(j) \in BOOLEAN /\ lakeCount[j] \in Counts
    BY <1>0 DEF Match, TypeInv, TypeOK
  <2> QED BY <1>3, <1>11, <2>1 DEF Reconcile, Running, Exits
<1>12. ASSUME NEW j \in Jobs, UploadSummary(j) PROVE ExitInv'
  <2>1. /\ pc[j] = "summary" /\ pc'[j] \in {"ok", "error"}
        /\ \A i \in Jobs : i # j => pc'[i] = pc[i]
        /\ pc'[j] = "ok" => Failures(results[j]) = {}
        /\ UNCHANGED <<lastWriter, inflight, span, date, results>>
    BY <1>12, <1>a DEF UploadSummary, Goto
  <2>2. \A i \in Jobs : InRun(i)' <=> InRun(i)
    BY <2>1 DEF InRun, Running, Exits
  <2>3. \A i \in Jobs, d \in Dates : Attempted(i, d) => Attempted(i, d)'
    BY <2>1, <2>2 DEF Attempted
  <2>4. \A d \in Dates, i \in Jobs : lastWriter'[d] = i => Attempted(i, d)'
    BY <2>1, <2>3 DEF ExitInv
  <2>5. \A t \in inflight' : Attempted(t.job, t.date)'
    BY <1>a, <2>1, <2>3 DEF ExitInv
  <2>6. \A i \in Jobs : pc'[i] = "ok" => Failures(results'[i]) = {}
    BY <2>1 DEF ExitInv
  <2>7. \A i \in Jobs : InRun(i)' /\ span'[i].mode = "single" => results'[i] = <<>>
    BY <2>1, <2>2 DEF ExitInv
  <2> QED BY <2>4, <2>5, <2>6, <2>7 DEF ExitInv
<1>13. ASSUME NEW j \in Jobs, Crash(j) PROVE ExitInv'
  <2>1. \A s \in inflight' : s \in inflight \/ (s.job = j /\ s.date = date[j])
    BY <1>13 DEF Crash, Statement
  <2>2. Goto(j, "crashed") /\ Running(j) /\ UNCHANGED lastWriter
    BY <1>13 DEF Crash
  <2> QED BY <1>0, <2>1, <2>2, GotoExit DEF PCs, Exits
<1>14. ASSUME NEW s \in Statements, AthenaEnds(s) PROVE ExitInv'
  <2>1. /\ UNCHANGED loopVars /\ inflight' \subseteq inflight
        /\ s \in inflight /\ s.job \in Jobs /\ s.date \in Dates
    BY <1>14 DEF AthenaEnds, Statements
  <2>2. \A i \in Jobs, d \in Dates : Attempted(i, d)' <=> Attempted(i, d)
    BY <2>1 DEF Attempted, InRun, Running
  <2>3. \A d \in Dates : \/ lastWriter'[d] = lastWriter[d]
                         \/ lastWriter'[d] = s.job /\ s.date = d
    <3>1. CASE Effect(s)
      BY <1>0, <1>a, <2>1, <3>1, EffectLocal
    <3>2. CASE UNCHANGED lastWriter
      BY <3>2
    <3> QED BY <1>14, <3>1, <3>2 DEF AthenaEnds
  <2>4. Attempted(s.job, s.date)
    BY <2>1 DEF ExitInv
  <2>5. ASSUME NEW d \in Dates, NEW i \in Jobs, lastWriter'[d] = i
        PROVE  Attempted(i, d)
    <3>1. CASE lastWriter[d] = i
      BY <3>1 DEF ExitInv
    <3>2. CASE i = s.job /\ d = s.date
      BY <2>4, <3>2
    <3> QED BY <2>3, <2>5, <3>1, <3>2
  <2>6. \A d \in Dates, i \in Jobs : lastWriter'[d] = i => Attempted(i, d)'
    BY <2>2, <2>5
  <2>7. \A t \in inflight' : Attempted(t.job, t.date)'
    BY <1>a, <2>1, <2>2 DEF ExitInv
  <2> QED BY <2>1, <2>6, <2>7 DEF ExitInv, InRun, Running
<1> QED
  <2>1. ASSUME NEW t \in TripIDs, RowArrives(t) PROVE ExitInv'
    BY <1>1, <2>1 DEF RowArrives
  <2>2. CASE UNCHANGED vars
    BY <1>1, <2>2 DEF vars
  <2> QED
    BY <1>2, <1>6, <1>7, <1>8, <1>9, <1>10, <1>11, <1>12, <1>13, <1>14,
       <2>1, <2>2 DEF Next, JobStep

LEMMA QuietExact == SafeInv /\ ExitInv => QuietLakeIsExact
<1> SUFFICES ASSUME SafeInv, ExitInv,
                    \A i \in Jobs : pc[i] \in {"off", "ok"},
                    NEW d \in Dates, NEW j \in Jobs, lastWriter[d] = j
             PROVE  Exact(j, d)
  BY DEF QuietLakeIsExact
<1>1. Attempted(j, d)
  BY DEF ExitInv
<1>2. PICK k \in DOMAIN results[j] : results[j][k].date = d
  BY <1>1 DEF Attempted, InRun, Running, Exits
<1>3. pc[j] = "ok"
  BY <1>2 DEF SafeInv, PastDates
<1>4. results[j][k].success
  BY <1>2, <1>3 DEF ExitInv, Failures
<1>5. RunSucceeded(j, d)
  BY <1>2, <1>4 DEF SucceededOn
<1> QED BY <1>5 DEF SafeInv, SealedExact, Sealed

\* When all tasks started so far have exited with zero, each date holds exactly
\* what its last writer read: a divergence of the lake makes some task exit
\* non-zero, however tasks overlap and whatever is left in Athena (main.go:182,
\* 238).
THEOREM QuietLake == Spec => []QuietLakeIsExact
<1>1. SafeInv /\ ExitInv => QuietLakeIsExact
  BY QuietExact
<1>2. SafeInv /\ ExitInv /\ [Next]_vars => (SafeInv /\ ExitInv)'
  BY SafeStep, ExitStep
<1> QED BY SafeInit, ExitInit, <1>1, <1>2, PTL DEF Spec

-----------------------------------------------------------------------------
(***************************************************************************)
(* Part 4: the loop of a task.  Seen from the loop variables, the          *)
(* manifests and the summaries there are six kinds of steps.               *)
(***************************************************************************)
tellVars == <<pc, span, date, results, manifest, summaries>>

\* A step inside a run.
Advances(j) ==
    /\ InRun(j)
    /\ \E label \in PCs \ ({"off", "summary"} \cup Exits) : Goto(j, label)
    /\ UNCHANGED <<manifest, summaries>>

\* The run of j ends; the manifest it has written, if any, says what it returns.
RunEnds(j, success, count) ==
    /\ InRun(j)
    /\ EndRun(j, success, count)
    /\ UNCHANGED <<span, summaries>>
    /\ \/ UNCHANGED manifest
       \/ \E m \in Manifests :
             /\ m.job = j /\ m.success = success /\ m.rowCount = count
             /\ PutManifest(j, m)

LEMMA StepKinds ==
    ASSUME TypeInv, [Next]_vars
    PROVE  \/ UNCHANGED tellVars
           \/ \E j \in Jobs, s \in Spans : StartTask(j, s)
           \/ \E j \in Jobs : \/ Advances(j)
                              \/ \E success \in BOOLEAN, count \in Counts :
                                    RunEnds(j, success, count)
                              \/ UploadSummary(j) \/ Crash(j)
<1> USE DEF lakeVars, bucketVars, localVars, loopVars
<1> DEFINE Goal ==
      \/ UNCHANGED tellVars
      \/ \E j \in Jobs, s \in Spans : StartTask(j, s)
      \/ \E j \in Jobs : \/ Advances(j)
                         \/ \E success \in BOOLEAN, count \in Counts :
                               RunEnds(j, success, count)
                         \/ UploadSummary(j) \/ Crash(j)
<1> SUFFICES Goal
  OBVIOUS
<1>1. ASSUME NEW j \in Jobs, InRun(j),
             NEW label \in PCs \ ({"off", "summary"} \cup Exits),
             Goto(j, label), UNCHANGED <<manifest, summaries>>
      PROVE  Goal
  BY <1>1 DEF Advances
<1>2. ASSUME NEW j \in Jobs, NEW success \in BOOLEAN, NEW count \in Counts,
             RunEnds(j, success, count)
      PROVE  Goal
  BY <1>2
<1>3. ASSUME NEW j \in Jobs, NEW from \in PCs \ ({"off", "summary"} \cup Exits),
             NEW to \in PCs \ ({"off", "summary"} \cup Exits),
             Step(j, from, to), UNCHANGED <<manifest, summaries>>
      PROVE  Goal
  BY <1>1, <1>3 DEF Step, InRun, Running
<1>4. ASSUME NEW j \in Jobs, NEW from \in PCs \ ({"off", "summary"} \cup Exits),
             pc[j] = from, EndRun(j, FALSE, 0),
             UNCHANGED <<span, manifest, summaries>>
      PROVE  Goal
  <2>1. RunEnds(j, FALSE, 0)
    BY <1>4 DEF RunEnds, InRun, Running
  <2> QED BY <1>2, <2>1, ZeroTypes
<1>5. ASSUME NEW j \in Jobs, ReadPostgres(j) PROVE Goal
  <2>1. CASE Step(j, "read", "upload")
    BY <1>3, <1>5, <2>1 DEF ReadPostgres, PCs, Exits
  <2>2. CASE pc[j] = "read" /\ EndRun(j, FALSE, 0)
    BY <1>4, <1>5, <2>2 DEF ReadPostgres, PCs, Exits
  <2> QED BY <1>5, <2>1, <2>2 DEF ReadPostgres
<1>6. ASSUME NEW j \in Jobs, UploadParquet(j) PROVE Goal
  <2>1. CASE Step(j, "upload", "create")
    BY <1>3, <1>6, <2>1 DEF UploadParquet, PCs, Exits
  <2>2. CASE pc[j] = "upload" /\ EndRun(j, FALSE, 0)
    BY <1>4, <1>6, <2>2 DEF UploadParquet, PCs, Exits
  <2> QED BY <1>6, <2>1, <2>2 DEF UploadParquet
<1>7. ASSUME NEW j \in Jobs, CreateStaging(j) PROVE Goal
  BY <1>3, <1>7 DEF CreateStaging, CommitStatement, PCs, Exits
<1>8. ASSUME NEW j \in Jobs, DeletePartition(j) PROVE Goal
  BY <1>3, <1>8 DEF DeletePartition, CommitStatement, PCs, Exits
<1>9. ASSUME NEW j \in Jobs, InsertPartition(j) PROVE Goal
  BY <1>3, <1>9 DEF InsertPartition, CommitStatement, PCs, Exits
<1>10. ASSUME NEW j \in Jobs, DropStaging(j) PROVE Goal
  BY <1>3, <1>10 DEF DropStaging, PCs, Exits
<1>11. ASSUME NEW j \in Jobs, CountLake(j) PROVE Goal
  <2>1. CASE Step(j, "count", "sum")
    BY <1>3, <1>11, <2>1 DEF CountLake, PCs, Exits
  <2>2. CASE pc[j] = "count" /\ QueryFails(j)
    BY <1>4, <1>11, <2>2 DEF CountLake, QueryFails, PCs, Exits
  <2> QED BY <1>11, <2>1, <2>2 DEF CountLake
<1>12. ASSUME NEW j \in Jobs, SumLake(j) PROVE Goal
  <2>1. CASE Step(j, "sum", "manifest")
    BY <1>3, <1>12, <2>1 DEF SumLake, PCs, Exits
  <2>2. CASE pc[j] = "sum" /\ QueryFails(j)
    BY <1>4, <1>12, <2>2 DEF SumLake, QueryFails, PCs, Exits
  <2> QED BY <1>12, <2>1, <2>2 DEF SumLake
<1>13. ASSUME NEW j \in Jobs, UploadFailure(j) PROVE Goal
  <2>1. FailureManifest(j) \in Manifests /\ FailureManifest(j).job = j
        /\ FailureManifest(j).success = FALSE /\ FailureManifest(j).rowCount = 0
    BY ManifestTypes DEF TypeInv, FailureManifest
  <2>2. UNCHANGED manifest \/ PutManifest(j, FailureManifest(j))
    BY <1>13 DEF UploadFailure, UploadManifest
  <2>3. RunEnds(j, FALSE, 0)
    BY <1>13, <2>1, <2>2 DEF UploadFailure, RunEnds, InRun, Running, Exits
  <2> QED BY <1>2, <2>3, ZeroTypes
<1>14. ASSUME NEW j \in Jobs, Reconcile(j) PROVE Goal
  <2>1. ReconciledManifest(j) \in Manifests /\ ReconciledManifest(j).job = j
        /\ ReconciledManifest(j).success = Match(j)
        /\ ReconciledManifest(j).rowCount = lakeCount[j]
    BY ManifestTypes DEF TypeInv, ReconciledManifest
  <2>2. UNCHANGED manifest \/ PutManifest(j, ReconciledManifest(j))
    BY <1>14 DEF Reconcile, UploadManifest
  <2>3. RunEnds(j, Match(j), lakeCount[j])
    BY <1>14, <2>1, <2>2 DEF Reconcile, RunEnds, InRun, Running, Exits
  <2>4. Match(j) \in BOOLEAN /\ lakeCount[j] \in Counts
    BY DEF Match, TypeInv, TypeOK
  <2> QED BY <1>2, <2>3, <2>4
<1>15. ASSUME NEW t \in TripIDs, RowArrives(t) PROVE Goal
  BY <1>15 DEF RowArrives, tellVars
<1>16. ASSUME NEW s \in Statements, AthenaEnds(s) PROVE Goal
  BY <1>16 DEF AthenaEnds, tellVars
<1>17. CASE UNCHANGED vars
  BY <1>17 DEF vars, tellVars
<1> HIDE DEF Goal
<1>18. ASSUME NEW j \in Jobs, JobStep(j) PROVE Goal \/ UploadSummary(j)
  BY <1>5, <1>6, <1>7, <1>8, <1>9, <1>10, <1>11, <1>12, <1>13, <1>14, <1>18
  DEF JobStep
<1>19. ASSUME NEW j \in Jobs, UploadSummary(j) \/ Crash(j) PROVE Goal
  BY <1>19 DEF Goal
<1>20. ASSUME NEW j \in Jobs, NEW s \in Spans, StartTask(j, s) PROVE Goal
  BY <1>20 DEF Goal
<1> QED BY <1>15, <1>16, <1>17, <1>18, <1>19, <1>20 DEF Next

\* One result for each date behind the task, in order; at the end of its range
\* the task stops, and its exit code is the conjunction of the results.
Told(j) ==
    /\ span[j] \in Spans
    /\ span[j].mode = "single" => span[j].first = span[j].last
    /\ \A i \in DOMAIN results[j] : results[j][i].date = span[j].first + i - 1
    /\ InRun(j) => date[j] = span[j].first + Len(results[j])
    /\ pc[j] \in {"summary", "ok", "error"} =>
          Len(results[j]) = span[j].last - span[j].first + 1
    /\ pc[j] \in {"ok", "error"} =>
          (pc[j] = "ok" <=> Failures(results[j]) = {})
ToldInv == \A j \in Jobs : pc[j] # "off" => Told(j)

LEMMA ToldInit == Init => ToldInv
BY DEF Init, ToldInv

\* What a task has told depends on its own loop variables only.
LEMMA ToldByItself ==
    ASSUME NEW i \in Jobs, pc[i] # "off" => Told(i),
           UNCHANGED <<pc[i], span[i], date[i], results[i]>>
    PROVE  (pc[i] # "off" => Told(i))'
BY DEF Told, InRun, Running

LEMMA RunEndsTold ==
    ASSUME TypeInv, ToldInv, NEW j \in Jobs,
           NEW success \in BOOLEAN, NEW count \in Counts,
           RunEnds(j, success, count)
    PROVE  ToldInv'
<1> DEFINE r == [date |-> date[j], success |-> success, rowCount |-> count]
<1>1. /\ results \in [Jobs -> Seq(DateResults)] /\ pc \in [Jobs -> PCs]
      /\ date \in [Jobs -> Dates \cup {None}]
      /\ date[j] \in Dates /\ r \in DateResults /\ r.date = date[j]
      /\ r.success = success
  BY DEF RunEnds, TypeInv, TypeOK, InRun, LoopOK, DateResults
<1>2. /\ results'[j] = Append(results[j], r) /\ span' = span
      /\ \A i \in Jobs : i # j => /\ pc'[i] = pc[i] /\ date'[i] = date[i]
                                  /\ results'[i] = results[i]
  BY <1>1 DEF RunEnds, EndRun
<1>3. \/ /\ span[j].mode = "single"
         /\ pc'[j] = IF success THEN "ok" ELSE "error"
         /\ date'[j] = date[j]
      \/ /\ date[j] < span[j].last
         /\ pc'[j] = "read" /\ date'[j] = date[j] + 1
      \/ /\ span[j].mode # "single" /\ ~(date[j] < span[j].last)
         /\ pc'[j] = "summary" /\ date'[j] = date[j]
  BY <1>1 DEF RunEnds, EndRun
<1> HIDE DEF r
<1>4. /\ results[j] \in Seq(DateResults)
      /\ DOMAIN results[j] = 1..Len(results[j])
      /\ DOMAIN results'[j] = 1..(Len(results[j]) + 1)
      /\ Len(results[j]) \in Nat /\ Len(results'[j]) = Len(results[j]) + 1
      /\ \A k \in DOMAIN results[j] : results'[j][k] = results[j][k]
      /\ results'[j][Len(results[j]) + 1] = r
  BY <1>1, <1>2
<1>5. /\ pc[j] # "off" /\ Told(j)
      /\ span[j].first \in Int /\ span[j].last \in Int /\ date[j] \in Int
      /\ date[j] <= span[j].last
      /\ date[j] = span[j].first + Len(results[j])
  BY <1>1, TripsAssumption
  DEF RunEnds, ToldInv, Told, InRun, Running, TypeInv, LoopOK, Spans
<1>6. \A i \in DOMAIN results'[j] : results'[j][i].date = span[j].first + i - 1
  <2> SUFFICES ASSUME NEW i \in DOMAIN results'[j]
               PROVE  results'[j][i].date = span[j].first + i - 1
    OBVIOUS
  <2>1. CASE i \in DOMAIN results[j]
    BY <1>4, <1>5, <2>1 DEF Told
  <2>2. CASE i = Len(results[j]) + 1
    BY <1>1, <1>4, <1>5, <2>2
  <2> QED BY <1>4, <2>1, <2>2
<1>7. pc'[j] = "read" => date'[j] = span[j].first + Len(results'[j])
  BY <1>3, <1>4, <1>5
<1>8. pc'[j] \in {"summary", "ok", "error"}
         => Len(results'[j]) = span[j].last - span[j].first + 1
  <2>1. CASE span[j].mode = "single"
    BY <1>4, <1>5, <2>1 DEF Told
  <2>2. CASE ~(date[j] < span[j].last)
    BY <1>4, <1>5, <2>2
  <2> QED BY <1>3, <2>1, <2>2
<1>9. pc'[j] \in {"ok", "error"} => (pc'[j] = "ok" <=> Failures(results'[j]) = {})
  <2> SUFFICES ASSUME pc'[j] \in {"ok", "error"}
               PROVE  pc'[j] = "ok" <=> Failures(results'[j]) = {}
    OBVIOUS
  <2>1. span[j].mode = "single" /\ pc'[j] = IF success THEN "ok" ELSE "error"
    BY <1>3
  <2>2. Len(results[j]) = 0
    BY <1>4, <1>5, <2>1 DEF Told
  <2>3. DOMAIN results'[j] = {1} /\ results'[j][1] = r
    BY <1>4, <2>2
  <2> QED BY <1>1, <2>1, <2>3 DEF Failures
<1>10. InRun(j)' => pc'[j] = "read"
  BY <1>3 DEF InRun, Running, Exits
<1>11. Told(j)'
  BY <1>2, <1>5, <1>6, <1>7, <1>8, <1>9, <1>10 DEF Told
<1> QED BY <1>2, <1>11, ToldByItself DEF ToldInv

LEMMA ToldStep == TypeInv /\ PastDates /\ ToldInv /\ [Next]_vars => ToldInv'
<1> SUFFICES ASSUME TypeInv, PastDates, ToldInv, [Next]_vars PROVE ToldInv'
  OBVIOUS
<1>0. /\ pc \in [Jobs -> PCs] /\ span \in [Jobs -> Spans \cup {None}]
      /\ date \in [Jobs -> Dates \cup {None}]
  BY DEF TypeInv, TypeOK
<1>1. CASE UNCHANGED tellVars
  BY <1>1, ToldByItself DEF tellVars, ToldInv
<1>2. ASSUME NEW j \in Jobs, NEW s \in Spans, StartTask(j, s) PROVE ToldInv'
  <2>1. /\ pc'[j] = "read" /\ span'[j] = s /\ date'[j] = s.first
        /\ s.mode = "single" => s.first = s.last
        /\ UNCHANGED results
        /\ \A i \in Jobs : i # j => UNCHANGED <<pc[i], span[i], date[i]>>
    BY <1>0, <1>2 DEF StartTask
  <2>2. results[j] = <<>>
    BY <1>2 DEF StartTask, PastDates
  <2>3. s.first \in Dates /\ s.first \in Int
    BY TripsAssumption DEF Spans
  <2>4. Len(results[j]) = 0 /\ DOMAIN results[j] = {}
    BY <2>2
  <2>5. Told(j)'
    BY <2>1, <2>3, <2>4 DEF Told
  <2> QED BY <2>1, <2>5, ToldByItself DEF ToldInv
<1>3. ASSUME NEW j \in Jobs, Advances(j) PROVE ToldInv'
  <2>1. PICK label \in PCs \ ({"off", "summary"} \cup Exits) : Goto(j, label)
    BY <1>3 DEF Advances
  <2>2. /\ pc'[j] = label /\ UNCHANGED <<span, date, results>>
        /\ \A i \in Jobs : i # j => UNCHANGED pc[i]
    BY <1>0, <2>1 DEF Goto
  <2>3. Told(j) /\ InRun(j)
    BY <1>3 DEF Advances, ToldInv, InRun, Running
  <2>4. Told(j)'
    BY <2>1, <2>2, <2>3 DEF Told, InRun, Running, Exits
  <2> QED BY <2>2, <2>4, ToldByItself DEF ToldInv
<1>4. ASSUME NEW j \in Jobs, UploadSummary(j) PROVE ToldInv'
  <2>1. /\ pc'[j] = IF Failures(results[j]) = {} THEN "ok" ELSE "error"
        /\ UNCHANGED <<span, date, results>> /\ pc[j] = "summary"
        /\ \A i \in Jobs : i # j => UNCHANGED pc[i]
    BY <1>0, <1>4 DEF UploadSummary, Goto
  <2>2. Told(j)
    BY <2>1 DEF ToldInv
  <2>3. Told(j)'
    BY <2>1, <2>2 DEF Told, InRun, Running, Exits
  <2> QED BY <2>1, <2>3, ToldByItself DEF ToldInv
<1>5. ASSUME NEW j \in Jobs, Crash(j) PROVE ToldInv'
  <2>1. /\ pc'[j] = "crashed" /\ UNCHANGED <<span, date, results>>
        /\ pc[j] # "off"
        /\ \A i \in Jobs : i # j => UNCHANGED pc[i]
    BY <1>0, <1>5 DEF Crash, Goto, Running
  <2>2. Told(j)
    BY <2>1 DEF ToldInv
  <2>3. Told(j)'
    BY <2>1, <2>2 DEF Told, InRun, Running, Exits
  <2> QED BY <2>1, <2>3, ToldByItself DEF ToldInv
<1> QED BY <1>1, <1>2, <1>3, <1>4, <1>5, StepKinds, RunEndsTold

\* A task that ends by itself has made one attempt for each of its dates, in
\* order, and exits with zero exactly when all of them succeeded: one bad date
\* neither aborts a backfill nor hides in it (main.go:190-194).
THEOREM ExitCodesTell == Spec => []ExitTellsEveryDate
<1>1. SafeInv /\ ToldInv => ExitTellsEveryDate
  <2> SUFFICES ASSUME SafeInv, ToldInv, NEW j \in Jobs, pc[j] \in {"ok", "error"}
               PROVE  /\ [i \in DOMAIN results[j] |-> results[j][i].date]
                            = [i \in 1..(span[j].last - span[j].first + 1) |->
                                  span[j].first + i - 1]
                      /\ pc[j] = "ok" <=> Failures(results[j]) = {}
    BY DEF ExitTellsEveryDate
  <2>1. Told(j)
    BY DEF ToldInv
  <2>2. DOMAIN results[j] = 1..Len(results[j])
    BY DEF SafeInv, TypeInv, TypeOK
  <2> QED BY <2>1, <2>2 DEF Told
<1>2. SafeInv /\ ToldInv /\ [Next]_vars => (SafeInv /\ ToldInv)'
  BY SafeStep, ToldStep DEF SafeInv
<1> QED BY SafeInit, ToldInit, <1>1, <1>2, PTL DEF Spec

-----------------------------------------------------------------------------
(***************************************************************************)
(* Part 5: what a task writes down twice, in the manifest of a date and in *)
(* the summary of the range, it writes from one result.  A manifest is     *)
(* written before its result is known, and a task writes its summary when  *)
(* it changes no result any more.                                          *)
(***************************************************************************)
Agrees(m, dr) == m.success = dr.success /\ m.rowCount = dr.rowCount

ResultsAgree ==
    \A j \in Jobs : \A i \in DOMAIN results[j] :
        LET m == manifest[results[j][i].date]
        IN  m # None /\ m.job = j => Agrees(m, results[j][i])

SummariesFinal ==
    \A r \in Dates \X Dates : summaries[r] # None =>
        /\ summaries[r].job \in Jobs
        /\ pc[summaries[r].job] \in Exits
        /\ summaries[r].dates = results[summaries[r].job]

TwiceInv == ResultsAgree /\ SummariesFinal

LEMMA TwiceInit == Init => TwiceInv
BY DEF Init, TwiceInv, ResultsAgree, SummariesFinal

\* A task that has ended, and keeps its results, keeps its summaries final.
LEMMA StaysFinal ==
    ASSUME SummariesFinal, UNCHANGED summaries,
           \A i \in Jobs : pc[i] \in Exits =>
               pc'[i] \in Exits /\ results'[i] = results[i]
    PROVE  SummariesFinal'
BY DEF SummariesFinal

LEMMA RunEndsTwice ==
    ASSUME SafeInv, TwiceInv, NEW j \in Jobs,
           NEW success \in BOOLEAN, NEW count \in Counts,
           RunEnds(j, success, count)
    PROVE  TwiceInv'
<1> DEFINE r == [date |-> date[j], success |-> success, rowCount |-> count]
<1>1. /\ results \in [Jobs -> Seq(DateResults)] /\ pc \in [Jobs -> PCs]
      /\ manifest \in [Dates -> Manifests \cup {None}]
      /\ date[j] \in Dates /\ date[j] \in Int /\ r \in DateResults
      /\ r.date = date[j] /\ r.success = success /\ r.rowCount = count
  BY TripsAssumption
  DEF RunEnds, SafeInv, TypeInv, TypeOK, InRun, LoopOK, DateResults
<1>2. /\ results'[j] = Append(results[j], r) /\ InRun(j)
      /\ UNCHANGED summaries
      /\ \A i \in Jobs : i # j => pc'[i] = pc[i] /\ results'[i] = results[i]
  BY <1>1 DEF RunEnds, EndRun
<1>3. \/ UNCHANGED manifest
      \/ \E m \in Manifests :
            /\ m.job = j /\ m.success = success /\ m.rowCount = count
            /\ manifest' = [manifest EXCEPT ![date[j]] = m]
  BY DEF RunEnds, PutManifest
<1> HIDE DEF r
<1>4. /\ results[j] \in Seq(DateResults)
      /\ DOMAIN results[j] = 1..Len(results[j])
      /\ DOMAIN results'[j] = 1..(Len(results[j]) + 1)
      /\ Len(results[j]) \in Nat
      /\ \A k \in DOMAIN results[j] : /\ results'[j][k] = results[j][k]
                                      /\ results[j][k] \in DateResults
      /\ results'[j][Len(results[j]) + 1] = r
  BY <1>1, <1>2
<1>5. SummariesFinal'
  BY <1>2, StaysFinal DEF TwiceInv, InRun, Running
<1>6. ~(manifest[date[j]] # None /\ manifest[date[j]].job = j)
  <2> SUFFICES ASSUME manifest[date[j]] # None, manifest[date[j]].job = j
               PROVE  FALSE
    OBVIOUS
  <2>1. InRun(manifest[date[j]].job) => date[j] < date[manifest[date[j]].job]
    BY <1>1 DEF SafeInv, EvidencePast
  <2>2. InRun(j) => date[j] < date[j]
    BY <2>1, Zenon
  <2> QED BY <1>1, <1>2, <2>2
<1>7. ASSUME NEW i \in Jobs, NEW k \in DOMAIN results[i],
             results[i][k].date # date[j] \/ i # j,
             manifest'[results[i][k].date] # None,
             manifest'[results[i][k].date].job = i
      PROVE  Agrees(manifest'[results[i][k].date], results[i][k])
  <2>a. results[i] \in Seq(DateResults)
    BY <1>1
  <2>b. results[i][k] \in DateResults
    BY <1>7, <2>a
  <2>1. results[i][k].date \in Dates
    BY <2>b DEF DateResults
  <2>2. manifest'[results[i][k].date] = manifest[results[i][k].date]
    BY <1>1, <1>3, <1>7, <2>1
  <2> QED BY <1>7, <2>2 DEF TwiceInv, ResultsAgree
<1>8. ASSUME manifest'[date[j]] # None, manifest'[date[j]].job = j
      PROVE  Agrees(manifest'[date[j]], r)
  <2>1. manifest'[date[j]].success = success /\ manifest'[date[j]].rowCount = count
    BY <1>1, <1>3, <1>6, <1>8
  <2> QED BY <1>1, <2>1 DEF Agrees
<1>9. ResultsAgree'
  <2> SUFFICES ASSUME NEW i \in Jobs, NEW k \in DOMAIN results'[i],
                      manifest'[results'[i][k].date] # None,
                      manifest'[results'[i][k].date].job = i
               PROVE  Agrees(manifest'[results'[i][k].date], results'[i][k])
    BY DEF ResultsAgree
  <2>1. CASE i # j
    <3>1. results'[i] = results[i]
      BY <1>2, <2>1
    <3> QED BY <1>7, <2>1, <3>1
  <2>2. CASE i = j /\ k \in DOMAIN results[j]
    <3>1. results[j][k].date < date[j] /\ results[j][k].date \in Int
      BY <1>2, <1>4, <2>2, TripsAssumption DEF SafeInv, PastDates, DateResults
    <3>2. results'[i][k] = results[j][k] /\ results[j][k].date # date[j]
      BY <1>1, <1>4, <2>2, <3>1
    <3> QED BY <1>7, <2>2, <3>2
  <2>3. CASE i = j /\ k = Len(results[j]) + 1
    <3>1. results'[i][k] = r
      BY <1>4, <2>3
    <3> QED BY <1>1, <1>8, <2>3, <3>1
  <2>4. k \in 1..(Len(results[j]) + 1) \/ i # j
    BY <1>4
  <2> QED BY <1>4, <2>1, <2>2, <2>3, <2>4
<1> QED BY <1>5, <1>9 DEF TwiceInv

LEMMA TwiceStep == SafeInv /\ TwiceInv /\ [Next]_vars => TwiceInv'
<1> SUFFICES ASSUME SafeInv, TwiceInv, [Next]_vars PROVE TwiceInv'
  OBVIOUS
<1>0. /\ TypeInv /\ pc \in [Jobs -> PCs]
      /\ results \in [Jobs -> Seq(DateResults)]
      /\ manifest \in [Dates -> Manifests \cup {None}]
      /\ summaries \in [Dates \X Dates -> Summaries \cup {None}]
  BY DEF SafeInv, TypeInv, TypeOK
<1>1. CASE UNCHANGED tellVars
  BY <1>1 DEF tellVars, TwiceInv, ResultsAgree, SummariesFinal
<1>2. ASSUME NEW j \in Jobs, NEW s \in Spans, StartTask(j, s) PROVE TwiceInv'
  <2>1. /\ UNCHANGED <<results, manifest, summaries>> /\ pc[j] = "off"
        /\ \A i \in Jobs : i # j => UNCHANGED pc[i]
    BY <1>0, <1>2 DEF StartTask, bucketVars
  <2>2. SummariesFinal'
    BY <2>1, StaysFinal DEF TwiceInv, Exits
  <2> QED BY <2>1, <2>2 DEF TwiceInv, ResultsAgree
<1>3. ASSUME NEW j \in Jobs, Advances(j) PROVE TwiceInv'
  <2>1. /\ UNCHANGED <<results, manifest, summaries>> /\ pc[j] \notin Exits
        /\ \A i \in Jobs : i # j => UNCHANGED pc[i]
    BY <1>0, <1>3 DEF Advances, Goto, InRun, Running
  <2>2. SummariesFinal'
    BY <2>1, StaysFinal DEF TwiceInv
  <2> QED BY <2>1, <2>2 DEF TwiceInv, ResultsAgree
<1>4. ASSUME NEW j \in Jobs, pc'[j] \in Exits, pc[j] \notin Exits,
             UNCHANGED results, \A i \in Jobs : i # j => UNCHANGED pc[i],
             span[j] \in Spans,
             PutSummary(j) \/ UNCHANGED summaries
      PROVE  SummariesFinal'
  <2>1. CASE UNCHANGED summaries
    BY <1>4, <2>1, StaysFinal DEF TwiceInv
  <2>2. CASE PutSummary(j)
    <3>1. summaries' = [summaries EXCEPT ![<<span[j].first, span[j].last>>] =
                           [job |-> j, dates |-> results[j]]]
      BY <2>2 DEF PutSummary
    <3> SUFFICES ASSUME NEW r \in Dates \X Dates, summaries'[r] # None
                 PROVE  /\ summaries'[r].job \in Jobs
                        /\ pc'[summaries'[r].job] \in Exits
                        /\ summaries'[r].dates = results[summaries'[r].job]
      BY <1>4 DEF SummariesFinal
    <3>2. CASE r = <<span[j].first, span[j].last>>
      <4>1. summaries'[r] = [job |-> j, dates |-> results[j]]
        BY <1>0, <3>1, <3>2
      <4> QED BY <1>4, <4>1
    <3>3. CASE r # <<span[j].first, span[j].last>>
      <4>1. summaries'[r] = summaries[r]
        BY <1>0, <3>1, <3>3
      <4> QED BY <1>4, <4>1 DEF TwiceInv, SummariesFinal
    <3> QED BY <3>2, <3>3
  <2> QED BY <1>4, <2>1, <2>2
<1>5. ASSUME NEW j \in Jobs, UploadSummary(j) PROVE TwiceInv'
  <2>1. /\ pc'[j] \in Exits /\ pc[j] = "summary"
        /\ UNCHANGED <<results, manifest>>
        /\ \A i \in Jobs : i # j => UNCHANGED pc[i]
        /\ PutSummary(j) \/ UNCHANGED summaries
    BY <1>0, <1>5 DEF UploadSummary, Goto, Exits
  <2>2. SummariesFinal'
    BY <1>0, <1>4, <2>1 DEF Exits, TypeInv, LoopOK, Running
  <2> QED BY <2>1, <2>2 DEF TwiceInv, ResultsAgree
<1>6. ASSUME NEW j \in Jobs, Crash(j) PROVE TwiceInv'
  <2>1. /\ pc'[j] \in Exits /\ Running(j)
        /\ UNCHANGED results
        /\ \A i \in Jobs : i # j => UNCHANGED pc[i]
        /\ PutSummary(j) \/ UNCHANGED summaries
    BY <1>0, <1>6 DEF Crash, Goto, Exits
  <2>2. SummariesFinal'
    BY <1>0, <1>4, <2>1 DEF TypeInv, LoopOK, Running
  <2>3. /\ date[j] \in Dates /\ date[j] \in Int
    BY <1>0, <2>1, TripsAssumption DEF TypeInv, LoopOK
  <2>4. \/ UNCHANGED manifest
        \/ /\ InRun(j)
           /\ \E m \in Manifests : /\ m.job = j
                                   /\ manifest' = [manifest EXCEPT ![date[j]] = m]
    <3>1. \/ UNCHANGED manifest
          \/ pc[j] = "failed" /\ PutManifest(j, FailureManifest(j))
          \/ pc[j] = "manifest" /\ PutManifest(j, ReconciledManifest(j))
      BY <1>6 DEF Crash
    <3>2. /\ FailureManifest(j) \in Manifests /\ FailureManifest(j).job = j
          /\ ReconciledManifest(j) \in Manifests /\ ReconciledManifest(j).job = j
      BY <1>0, ManifestTypes DEF TypeInv, FailureManifest, ReconciledManifest
    <3> QED BY <2>1, <3>1, <3>2 DEF PutManifest, InRun
  <2>5. ResultsAgree'
    <3> SUFFICES ASSUME NEW i \in Jobs, NEW k \in DOMAIN results[i],
                        manifest'[results[i][k].date] # None,
                        manifest'[results[i][k].date].job = i
                 PROVE  Agrees(manifest'[results[i][k].date], results[i][k])
      BY <2>1 DEF ResultsAgree
    <3>a. results[i] \in Seq(DateResults)
      BY <1>0
    <3>b. results[i][k] \in DateResults
      BY <3>a
    <3>1. results[i][k].date \in Dates /\ results[i][k].date \in Int
      BY <3>b, TripsAssumption DEF DateResults
    <3>2. manifest'[results[i][k].date] = manifest[results[i][k].date]
      <4>1. CASE UNCHANGED manifest
        BY <4>1
      <4>2. CASE results[i][k].date # date[j]
        BY <1>0, <2>4, <3>1, <4>2
      <4>3. CASE results[i][k].date = date[j] /\ ~UNCHANGED manifest
        <5>1. InRun(j) /\ manifest'[date[j]].job = j
          BY <1>0, <2>3, <2>4, <4>3
        <5>2. i = j
          BY <4>3, <5>1
        <5>3. results[i][k].date < date[j]
          BY <5>1, <5>2 DEF SafeInv, PastDates
        <5> QED BY <2>3, <4>3, <5>3
      <4> QED BY <4>1, <4>2, <4>3
    <3> QED BY <3>2 DEF TwiceInv, ResultsAgree
  <2> QED BY <2>2, <2>5 DEF TwiceInv
<1> QED BY <1>0, <1>1, <1>2, <1>3, <1>5, <1>6, StepKinds, RunEndsTwice

\* A stored backfill summary and the manifests of its dates that the same task
\* wrote agree on success and on the row count, whichever tasks overlap and
\* wherever they are killed (main.go:211-228).
THEOREM SummariesAgree == Spec => []SummaryAgreesWithManifests
<1>1. SafeInv /\ TwiceInv => SummaryAgreesWithManifests
  <2> SUFFICES ASSUME SafeInv, TwiceInv, NEW r \in DOMAIN summaries,
                      summaries[r] # None,
                      NEW i \in DOMAIN summaries[r].dates,
                      manifest[summaries[r].dates[i].date] # None,
                      manifest[summaries[r].dates[i].date].job = summaries[r].job
               PROVE  Agrees(manifest[summaries[r].dates[i].date],
                             summaries[r].dates[i])
    BY DEF SummaryAgreesWithManifests, Agrees
  <2>1. r \in Dates \X Dates
    BY DEF SafeInv, TypeInv, TypeOK
  <2>2. summaries[r].job \in Jobs /\ summaries[r].dates = results[summaries[r].job]
    BY <2>1 DEF TwiceInv, SummariesFinal
  <2> QED BY <2>2 DEF TwiceInv, ResultsAgree
<1>2. SafeInv /\ TwiceInv /\ [Next]_vars => (SafeInv /\ TwiceInv)'
  BY SafeStep, TwiceStep
<1> QED BY SafeInit, TwiceInit, <1>1, <1>2, PTL DEF Spec

-----------------------------------------------------------------------------
(***************************************************************************)
(* Part 6: tasks that follow each other, none of whose statements outlives *)
(* its caller.  That is how the schedule runs them, and what the comments  *)
(* of the code take for granted.  The date a task is about to fill is then *)
(* empty, and from its DELETE to its manifest the task is the last that    *)
(* wrote it.                                                               *)
(***************************************************************************)
OneByOne == MaxTasks <= 1 /\ "late" \notin Faults

Alone == \A i, j \in Jobs : Running(i) /\ Running(j) => i = j

Cleared == \A j \in Jobs : pc[j] = "insert" => Partition(date[j]) = {}

OwnsDate == \A j \in Jobs : pc[j] = "insert" \/ Committed(j)
                               => lastWriter[date[j]] = j

SerialInv == /\ Alone /\ Cleared /\ OwnsDate
             /\ inflight = {}
             /\ ReplaceNotDuplicate

\* No task starts, or comes closer to having published its date.
QuietTasks ==
    \A i \in Jobs :
        /\ Running(i)' => Running(i)
        /\ pc'[i] = "insert" => pc[i] = "insert"
        /\ Committed(i)' => Committed(i)
        /\ pc'[i] = "insert" \/ Committed(i)' => date'[i] = date[i]

\* Seen from the table and the manifests there are four kinds of steps when no
\* statement outlives its caller: those that nobody sees, ...
Hidden ==
    /\ QuietTasks
    /\ UNCHANGED <<lake, lastWriter, manifest, inflight>>
    /\ \/ UNCHANGED staged
       \/ \E j \in Jobs : /\ InRun(j)
                          /\ staged' = [staged EXCEPT ![<<j, date[j]>>] = rows[j]]

\* ... a DELETE, an INSERT, ...
Writes(j) ==
    /\ \/ /\ Step(j, "delete", "insert")
          /\ lake' = lake \ Partition(date[j])
       \/ /\ Step(j, "insert", "drop")
          /\ lake' = lake \cup CopiesOf(j, staged[<<j, date[j]>>])
    /\ lastWriter' = [lastWriter EXCEPT ![date[j]] = j]
    /\ UNCHANGED <<manifest, inflight, staged>>

\* ... and the upload of a manifest.
PutsManifest(j) ==
    /\ QuietTasks
    /\ UNCHANGED <<lake, lastWriter, inflight, staged>>
    /\ \/ pc[j] = "failed" /\ PutManifest(j, FailureManifest(j))
       \/ pc[j] = "manifest" /\ PutManifest(j, ReconciledManifest(j))

LEMMA VisibleKinds ==
    ASSUME TypeInv, "late" \notin Faults, inflight = {}, [Next]_vars
    PROVE  \/ Hidden
           \/ \E j \in Jobs, s \in Spans : StartTask(j, s)
           \/ \E j \in Jobs : Writes(j) \/ PutsManifest(j)
<1> USE DEF lakeVars, bucketVars, localVars, loopVars
<1> DEFINE Goal == \/ Hidden
                   \/ \E j \in Jobs, s \in Spans : StartTask(j, s)
                   \/ \E j \in Jobs : Writes(j) \/ PutsManifest(j)
<1> SUFFICES Goal
  OBVIOUS
<1>0. pc \in [Jobs -> PCs] /\ date \in [Jobs -> Dates \cup {None}]
  BY DEF TypeInv, TypeOK
<1>a. ASSUME UNCHANGED <<pc, date>> PROVE QuietTasks
  BY <1>a DEF QuietTasks, Running, Committed
<1>b. ASSUME NEW j \in Jobs, NEW label \in PCs, Goto(j, label), Running(j),
             label # "insert",
             label \in {"drop", "count", "sum", "manifest"} => Committed(j)
      PROVE  QuietTasks
  BY <1>0, <1>b DEF QuietTasks, Goto, Running, Committed
<1>c. ASSUME NEW j \in Jobs, NEW success, NEW count,
             EndRun(j, success, count), Running(j)
      PROVE  QuietTasks
  <2>1. /\ pc'[j] \in {"ok", "error", "read", "summary"}
        /\ \A i \in Jobs : i # j => pc'[i] = pc[i] /\ date'[i] = date[i]
    BY <1>0, <1>c DEF EndRun
  <2> QED BY <1>c, <2>1 DEF QuietTasks, Running, Committed
<1>d. ASSUME NEW j \in Jobs, NEW kind, RunFails(j, kind)
      PROVE  UNCHANGED <<lake, lastWriter, inflight>>
  BY <1>d DEF RunFails
<1>e. ASSUME QuietTasks, UNCHANGED <<lake, lastWriter, manifest, inflight, staged>>
      PROVE  Goal
  BY <1>e DEF Hidden
<1>1. ASSUME NEW j \in Jobs, ReadPostgres(j) PROVE Goal
  <2>1. CASE Step(j, "read", "upload")
    <3>1. QuietTasks
      BY <1>b, <2>1 DEF Step, Running, PCs, Exits
    <3> QED BY <1>1, <1>e, <3>1 DEF ReadPostgres
  <2>2. CASE pc[j] = "read" /\ EndRun(j, FALSE, 0)
    <3>1. QuietTasks
      BY <1>c, <2>2 DEF Running, Exits
    <3> QED BY <1>1, <1>e, <3>1 DEF ReadPostgres
  <2> QED BY <1>1, <2>1, <2>2 DEF ReadPostgres
<1>2. ASSUME NEW j \in Jobs, UploadParquet(j) PROVE Goal
  <2>1. CASE /\ Step(j, "upload", "create")
             /\ staged' = [staged EXCEPT ![<<j, date[j]>>] = rows[j]]
    <3>1. QuietTasks
      BY <1>b, <2>1 DEF Step, Running, PCs, Exits
    <3>2. InRun(j)
      BY <2>1 DEF Step, InRun, Running, Exits
    <3> QED BY <1>2, <2>1, <3>1, <3>2 DEF UploadParquet, Hidden
  <2>2. CASE pc[j] = "upload" /\ EndRun(j, FALSE, 0) /\ UNCHANGED staged
    <3>1. QuietTasks
      BY <1>c, <2>2 DEF Running, Exits
    <3> QED BY <1>2, <1>e, <2>2, <3>1 DEF UploadParquet
  <2> QED BY <1>2, <2>1, <2>2 DEF UploadParquet
<1>3. ASSUME NEW j \in Jobs, CreateStaging(j) PROVE Goal
  <2>1. UNCHANGED <<lake, lastWriter, inflight, staged, manifest>>
    BY <1>3, <1>d DEF CreateStaging, CommitStatement, RunSucceeds, Effect, Statement
  <2>2. Step(j, "create", "delete") \/ Step(j, "create", "failed")
    BY <1>3 DEF CreateStaging, CommitStatement
  <2>3. QuietTasks
    BY <1>b, <2>2 DEF Step, Running, PCs, Exits
  <2> QED BY <1>e, <2>1, <2>3
<1>4. ASSUME NEW j \in Jobs, NEW kind \in Writing, NEW next, NEW onError \in {"cleanup"},
             CommitStatement(j, kind, next, onError),
             \/ kind = "delete" /\ next = "insert"
             \/ kind = "insert" /\ next = "drop"
      PROVE  Goal
  <2>1. CASE Step(j, kind, next) /\ RunSucceeds(j, kind)
    <3>1. Writes(j)
      BY <1>4, <2>1 DEF CommitStatement, RunSucceeds, Effect, Statement, Writes
    <3> QED BY <3>1
  <2>2. CASE Step(j, kind, onError) /\ RunFails(j, kind)
    <3>1. UNCHANGED <<lake, lastWriter, inflight, staged, manifest>>
      BY <1>4, <1>d, <2>2 DEF CommitStatement
    <3>2. QuietTasks
      BY <1>4, <1>b, <2>2 DEF Step, Running, PCs, Exits
    <3> QED BY <1>e, <3>1, <3>2
  <2> QED BY <1>4, <2>1, <2>2 DEF CommitStatement
<1>5. ASSUME NEW j \in Jobs, DeletePartition(j) PROVE Goal
  BY <1>4, <1>5 DEF DeletePartition, Writing
<1>6. ASSUME NEW j \in Jobs, InsertPartition(j) PROVE Goal
  BY <1>4, <1>6 DEF InsertPartition, Writing
<1>7. ASSUME NEW j \in Jobs, DropStaging(j) PROVE Goal
  <2>1. UNCHANGED <<lake, lastWriter, inflight, staged, manifest>>
    BY <1>7, <1>d DEF DropStaging, RunSucceeds, Effect, Statement
  <2>2. Step(j, "drop", "count") \/ Step(j, "cleanup", "failed")
    BY <1>7 DEF DropStaging
  <2>3. QuietTasks
    BY <1>b, <2>2 DEF Step, Running, Committed, PCs, Exits
  <2> QED BY <1>e, <2>1, <2>3
<1>8. ASSUME NEW j \in Jobs, CountLake(j) \/ SumLake(j) PROVE Goal
  <2>1. UNCHANGED <<lake, lastWriter, inflight, staged, manifest>>
    BY <1>8 DEF CountLake, SumLake
  <2>2. \/ Step(j, "count", "sum") \/ Step(j, "sum", "manifest")
        \/ pc[j] \in {"count", "sum"} /\ EndRun(j, FALSE, 0)
    BY <1>8 DEF CountLake, SumLake, QueryFails
  <2>3. QuietTasks
    BY <1>b, <1>c, <2>2 DEF Step, Running, Committed, PCs, Exits
  <2> QED BY <1>e, <2>1, <2>3
<1>9. ASSUME NEW j \in Jobs, UploadFailure(j) PROVE Goal
  <2>1. QuietTasks
    BY <1>9, <1>c DEF UploadFailure, Running, Exits
  <2> QED BY <1>9, <1>e, <2>1 DEF UploadFailure, UploadManifest, PutsManifest
<1>10. ASSUME NEW j \in Jobs, Reconcile(j) PROVE Goal
  <2>1. QuietTasks
    BY <1>10, <1>c DEF Reconcile, Running, Exits
  <2> QED BY <1>10, <1>e, <2>1 DEF Reconcile, UploadManifest, PutsManifest
<1>11. ASSUME NEW j \in Jobs, UploadSummary(j) PROVE Goal
  <2>1. QuietTasks
    BY <1>11, <1>b DEF UploadSummary, Running, PCs, Exits
  <2> QED BY <1>11, <1>e, <2>1 DEF UploadSummary
<1>12. ASSUME NEW j \in Jobs, Crash(j) PROVE Goal
  <2>1. QuietTasks
    BY <1>12, <1>b DEF Crash, Running, PCs, Exits
  <2>2. UNCHANGED <<lake, lastWriter, inflight, staged>>
    BY <1>12 DEF Crash
  <2>3. \/ UNCHANGED manifest
        \/ pc[j] = "failed" /\ PutManifest(j, FailureManifest(j))
        \/ pc[j] = "manifest" /\ PutManifest(j, ReconciledManifest(j))
    BY <1>12 DEF Crash
  <2> QED BY <1>e, <2>1, <2>2, <2>3 DEF PutsManifest
<1>13. CASE (\E t \in TripIDs : RowArrives(t)) \/ UNCHANGED vars
  BY <1>13, <1>a, <1>e DEF RowArrives, vars
<1>14. ~\E s \in Statements : AthenaEnds(s)
  BY DEF AthenaEnds
<1> HIDE DEF Goal
<1>15. ASSUME NEW j \in Jobs, JobStep(j) \/ Crash(j) PROVE Goal
  BY <1>1, <1>2, <1>3, <1>5, <1>6, <1>7, <1>8, <1>9, <1>10, <1>11, <1>12, <1>15
  DEF JobStep
<1>16. ASSUME NEW j \in Jobs, NEW s \in Spans, StartTask(j, s) PROVE Goal
  BY <1>16 DEF Goal
<1> QED BY <1>13, <1>14, <1>15, <1>16 DEF Next

LEMMA SerialInit == Init => SerialInv
BY DEF Init, SerialInv, Alone, Running, Cleared, OwnsDate, Committed,
       ReplaceNotDuplicate

\* With at most one task at a time a task starts when no other runs.
LEMMA StartsAlone ==
    ASSUME OneByOne, NEW j \in Jobs, NEW s \in Spans, StartTask(j, s)
    PROVE  \A i \in Jobs : ~Running(i)
<1> DEFINE R == {i \in Jobs : Running(i)}
<1>1. IsFiniteSet(R)
  BY JobsAssumption, FS_Subset
<1>2. Cardinality(R) < MaxTasks
  BY DEF StartTask
<1> HIDE DEF R
<1>3. Cardinality(R) \in Nat
  BY <1>1, FS_CardinalityType
<1>4. Cardinality(R) = 0
  BY <1>2, <1>3, JobsAssumption DEF OneByOne
<1>5. R = {}
  BY <1>1, <1>4, FS_EmptySet
<1> QED BY <1>5 DEF R

\* What a DELETE or an INSERT of the only task does to the table.
LEMMA WritesSerial ==
    ASSUME TypeInv, StagedOfDate, SerialInv, NEW j \in Jobs, Writes(j)
    PROVE  SerialInv'
<1>0. /\ pc \in [Jobs -> PCs] /\ date[j] \in Dates
      /\ lastWriter \in [Dates -> Jobs \cup {None}]
      /\ staged[<<j, date[j]>>] \subseteq OfDate(date[j])
  BY DEF TypeInv, TypeOK, LoopOK, StagedOfDate, Writes, Step, Running, Exits
<1>1. /\ Running(j) /\ pc'[j] \in {"insert", "drop"} /\ date' = date
      /\ \A i \in Jobs : i # j => pc'[i] = pc[i]
      /\ lastWriter'[date[j]] = j
  BY <1>0 DEF Writes, Step, Goto, Running, Exits
<1>2. \A i \in Jobs : i # j => ~Running(i) /\ ~Running(i)'
  BY <1>1 DEF SerialInv, Alone, Running
<1>3. Alone'
  BY <1>2 DEF Alone
<1>4. OwnsDate'
  BY <1>1, <1>2 DEF OwnsDate, Committed, Running, Exits
<1>5. Cleared'
  <2> SUFFICES ASSUME NEW i \in Jobs, pc'[i] = "insert"
               PROVE  \A c \in lake' : EventDate[c.id] # date[i]
    BY <1>1 DEF Cleared, Partition
  <2>1. i = j
    BY <1>2 DEF Running, Exits
  <2>2. pc[j] = "delete" /\ lake' = lake \ Partition(date[j])
    BY <1>0, <2>1 DEF Writes, Step, Goto
  <2> QED BY <2>1, <2>2 DEF Partition
<1>6. ReplaceNotDuplicate'
  <2>1. CASE lake' = lake \ Partition(date[j])
    BY <2>1 DEF SerialInv, ReplaceNotDuplicate
  <2>2. CASE Step(j, "insert", "drop")
             /\ lake' = lake \cup CopiesOf(j, staged[<<j, date[j]>>])
    <3>1. \A c \in lake : EventDate[c.id] # date[j]
      BY <2>2 DEF Step, SerialInv, Cleared, Partition
    <3>2. \A c \in CopiesOf(j, staged[<<j, date[j]>>]) :
             c.job = j /\ EventDate[c.id] = date[j] /\ c = [id |-> c.id, job |-> j]
      BY <1>0 DEF CopiesOf, OfDate
    <3> SUFFICES ASSUME NEW c1 \in lake', NEW c2 \in lake', c1.id = c2.id
                 PROVE  c1 = c2
      BY DEF ReplaceNotDuplicate
    <3>3. CASE c1 \in lake /\ c2 \in lake
      BY <3>3 DEF SerialInv, ReplaceNotDuplicate
    <3>4. CASE c1 \notin lake /\ c2 \notin lake
      BY <2>2, <3>2, <3>4
    <3>5. (c1 \in lake) <=> (c2 \in lake)
      BY <2>2, <3>1, <3>2
    <3> QED BY <3>3, <3>4, <3>5
  <2> QED BY <2>1, <2>2 DEF Writes
<1>7. inflight' = {}
  BY DEF Writes, SerialInv
<1> QED BY <1>3, <1>4, <1>5, <1>6, <1>7 DEF SerialInv

LEMMA SerialStep ==
    OneByOne /\ TypeInv /\ StagedOfDate /\ SerialInv /\ [Next]_vars => SerialInv'
<1> SUFFICES ASSUME OneByOne, TypeInv, StagedOfDate, SerialInv, [Next]_vars
             PROVE  SerialInv'
  OBVIOUS
<1>0. pc \in [Jobs -> PCs]
  BY DEF TypeInv, TypeOK
<1>1. ASSUME QuietTasks, UNCHANGED <<lake, lastWriter, inflight>> PROVE SerialInv'
  <2>1. Alone'
    BY <1>1 DEF SerialInv, Alone, QuietTasks
  <2>2. Cleared'
    BY <1>1 DEF SerialInv, Cleared, QuietTasks, Partition
  <2>3. OwnsDate'
    BY <1>1 DEF SerialInv, OwnsDate, QuietTasks
  <2> QED BY <1>1, <2>1, <2>2, <2>3 DEF SerialInv, ReplaceNotDuplicate
<1>2. ASSUME NEW j \in Jobs, NEW s \in Spans, StartTask(j, s) PROVE SerialInv'
  <2>1. /\ \A i \in Jobs : i # j => ~Running(i)'
        /\ pc'[j] = "read" /\ UNCHANGED <<lake, lastWriter, inflight>>
    BY <1>0, <1>2, StartsAlone DEF StartTask, Running, lakeVars
  <2>2. \A i \in Jobs : pc'[i] # "insert" /\ ~Committed(i)'
    BY <2>1 DEF Running, Committed, Exits
  <2>3. Alone' /\ Cleared' /\ OwnsDate'
    BY <2>1, <2>2 DEF Alone, Cleared, OwnsDate
  <2> QED BY <2>1, <2>3 DEF SerialInv, ReplaceNotDuplicate
<1> QED
  BY <1>1, <1>2, VisibleKinds, WritesSerial
  DEF OneByOne, SerialInv, Hidden, PutsManifest

\* Tasks that follow each other, with nothing of theirs left in Athena, replace
\* the rows of a date and never duplicate them: after failures and kills
\* anywhere, and late rows, as well (iceberg.go:31-36).
THEOREM SerialRunsReplace ==
    ASSUME OneByOne
    PROVE  Spec => []ReplaceNotDuplicate
<1>1. SafeInv /\ SerialInv => ReplaceNotDuplicate
  BY DEF SerialInv
<1>2. SafeInv /\ SerialInv /\ [Next]_vars => (SafeInv /\ SerialInv)'
  BY SafeStep, SerialStep DEF SafeInv
<1> QED BY SafeInit, SerialInit, <1>1, <1>2, PTL DEF Spec

-----------------------------------------------------------------------------
(***************************************************************************)
(* Part 7: no false alarm.  From its INSERT on the partition is what the   *)
(* task has staged, so its two queries return the count and the sum of the *)
(* trips it has read: the checksums are sums, and a copy has the trip_id   *)
(* of its trip.                                                            *)
(***************************************************************************)
\* Checksum is the sum of the trip_ids, CopyChecksum that of the copies.
LEMMA ChecksumIsSum ==
    ASSUME NEW S \in SUBSET TripIDs, NEW F, IsSum(F, [t \in S |-> t], S)
    PROVE  Checksum(S) = F[S]
<1> DEFINE w == [t \in S |-> t]
           Next1(it) == [s \in SUBSET S |->
                           IF s = {} THEN 0
                           ELSE (CHOOSE x \in s : TRUE)
                                   + it[s \ {CHOOSE x \in s : TRUE}]]
           it == CHOOSE f : f = Next1(f)
<1>1. Checksum(S) = it[S]
  BY DEF Checksum, MapThenSumSet, MapThenFoldSet
<1>2. \A s \in SUBSET S : s # {} => w[CHOOSE x \in s : TRUE] = CHOOSE x \in s : TRUE
  <2> SUFFICES ASSUME NEW s \in SUBSET S, s # {}
               PROVE  w[CHOOSE x \in s : TRUE] = CHOOSE x \in s : TRUE
    OBVIOUS
  <2>1. (CHOOSE x \in s : TRUE) \in s
    OBVIOUS
  <2> QED BY <2>1
<1>3. F = Next1(F)
  <2>1. IsFold(F, w, S) /\ F = [s \in SUBSET S |-> F[s]]
    BY SumIsFold DEF IsSum
  <2> HIDE DEF w
  <2>2. \A s \in SUBSET S : F[s] = IF s = {} THEN 0
                           ELSE (CHOOSE x \in s : TRUE)
                                   + F[s \ {CHOOSE x \in s : TRUE}]
    BY <1>2, <2>1 DEF IsFold
  <2> QED BY <2>1, <2>2
<1>4. it = Next1(it)
  <2> HIDE DEF Next1
  <2> QED BY <1>3
<1>5. \A s \in SUBSET S : it[s] = IF s = {} THEN 0
                           ELSE (CHOOSE x \in s : TRUE)
                                   + it[s \ {CHOOSE x \in s : TRUE}]
  <2> HIDE DEF it
  <2> QED BY <1>4
<1> HIDE DEF it
<1>6. IsFold(it, w, S)
  <2> HIDE DEF w
  <2> QED BY <1>2, <1>5 DEF IsFold
<1>7. w \in [S -> Nat] /\ IsFiniteSet(S)
  BY TripsAssumption, FS_Subset
<1> HIDE DEF w
<1>8. IsSum(F, w, S)
  BY DEF w
<1> QED BY <1>1, <1>6, <1>7, <1>8, FoldIsSum

LEMMA CopyChecksumIsSum ==
    ASSUME NEW C \in SUBSET Copies, NEW F, IsSum(F, [c \in C |-> c.id], C)
    PROVE  CopyChecksum(C) = F[C]
<1> DEFINE w == [c \in C |-> c.id]
           Next1(it) == [s \in SUBSET C |->
                           IF s = {} THEN 0
                           ELSE (CHOOSE x \in s : TRUE).id
                                   + it[s \ {CHOOSE x \in s : TRUE}]]
           it == CHOOSE f : f = Next1(f)
<1>1. CopyChecksum(C) = it[C]
  BY DEF CopyChecksum, MapThenSumSet, MapThenFoldSet
<1>2. ASSUME NEW s \in SUBSET C, s # {}
      PROVE  w[CHOOSE x \in s : TRUE] = (CHOOSE x \in s : TRUE).id
  <2>1. (CHOOSE x \in s : TRUE) \in s
    BY <1>2
  <2> QED BY <2>1
<1>3. F = Next1(F)
  <2>1. IsFold(F, w, C) /\ F = [s \in SUBSET C |-> F[s]]
    BY SumIsFold DEF IsSum
  <2> HIDE DEF w
  <2>2. \A s \in SUBSET C : F[s] = IF s = {} THEN 0
                           ELSE (CHOOSE x \in s : TRUE).id
                                   + F[s \ {CHOOSE x \in s : TRUE}]
    BY <1>2, <2>1 DEF IsFold
  <2> QED BY <2>1, <2>2
<1>4. it = Next1(it)
  <2> HIDE DEF Next1
  <2> QED BY <1>3
<1>5. \A s \in SUBSET C : it[s] = IF s = {} THEN 0
                           ELSE (CHOOSE x \in s : TRUE).id
                                   + it[s \ {CHOOSE x \in s : TRUE}]
  <2> HIDE DEF it
  <2> QED BY <1>4
<1> HIDE DEF it
<1>6. IsFold(it, w, C)
  <2> HIDE DEF w
  <2> QED BY <1>2, <1>5 DEF IsFold
<1>7. w \in [C -> Nat] /\ IsFiniteSet(C)
  BY TripsAssumption, CopiesFinite, FS_Subset DEF Copies
<1> HIDE DEF w
<1>8. IsSum(F, w, C)
  BY DEF w
<1> QED BY <1>1, <1>6, <1>7, <1>8, FoldIsSum

\* Copies that one job made of some trips have the checksum of the trips.
LEMMA ChecksumOfCopies ==
    ASSUME NEW j \in Jobs, NEW S \in SUBSET TripIDs
    PROVE  CopyChecksum(CopiesOf(j, S)) = Checksum(S)
<1> DEFINE C == CopiesOf(j, S)
           w == [t \in S |-> t]
           v == [c \in C |-> c.id]
<1>1. /\ C \in SUBSET Copies /\ IsFiniteSet(C) /\ IsFiniteSet(S)
      /\ w \in [S -> Nat] /\ v \in [C -> Nat]
  <2>1. C \in SUBSET Copies
    BY DEF Copies, CopiesOf
  <2>2. \A c \in C : c.id \in Nat
    BY <2>1, TripsAssumption DEF Copies
  <2>3. w \in [S -> Nat]
    BY TripsAssumption
  <2>4. v \in [C -> Nat]
    <3> HIDE DEF C
    <3> QED BY <2>2
  <2> HIDE DEF C, v, w
  <2> QED BY <2>1, <2>3, <2>4, TripsAssumption, CopiesFinite, FS_Subset
<1>2. PICK G : IsSum(G, v, C)
  <2> HIDE DEF C, v
  <2> QED BY <1>1, SumExists
<1> DEFINE H == [s \in SUBSET S |-> G[CopiesOf(j, s)]]
<1>3. IsSum(H, w, S)
  <2>1. \A s \in SUBSET S : CopiesOf(j, s) \in SUBSET C
    BY DEF CopiesOf
  <2>2. H \in [SUBSET S -> Nat] /\ H[{}] = 0
    <3>1. CopiesOf(j, {}) = {}
      BY DEF CopiesOf
    <3> HIDE DEF C, v
    <3> QED BY <1>2, <2>1, <3>1 DEF IsSum
  <2>3. ASSUME NEW s \in SUBSET S, NEW x \in s PROVE H[s] = w[x] + H[s \ {x}]
    <3> DEFINE c == [id |-> x, job |-> j]
    <3>1. c \in CopiesOf(j, s) /\ c \in C /\ v[c] = x
      BY DEF CopiesOf
    <3>2. CopiesOf(j, s) \ {c} = CopiesOf(j, s \ {x})
      BY DEF CopiesOf
    <3> HIDE DEF c, v, C
    <3>3. G[CopiesOf(j, s)] = v[c] + G[CopiesOf(j, s) \ {c}]
      BY <1>2, <2>1, <3>1 DEF IsSum
    <3> QED BY <3>1, <3>2, <3>3
  <2> HIDE DEF H, w
  <2> QED BY <2>2, <2>3 DEF IsSum
<1>4. H[S] = G[C]
  OBVIOUS
<1>5. Checksum(S) = H[S]
  <2> HIDE DEF H
  <2> QED BY <1>3, ChecksumIsSum
<1>6. CopyChecksum(C) = G[C]
  <2> HIDE DEF C
  <2> QED BY <1>1, <1>2, CopyChecksumIsSum DEF C
<1> QED BY <1>4, <1>5, <1>6

Filled ==
    \A j \in Jobs : Committed(j) =>
        Partition(date[j]) = CopiesOf(j, staged[<<j, date[j]>>])

Summed ==
    \A j \in Jobs : pc[j] = "manifest" =>
        lakeSum[j] = CopyChecksum(Partition(date[j]))

FilledInv == Filled /\ Summed

LEMMA FilledInit == Init => FilledInv
BY DEF Init, FilledInv, Filled, Summed, Committed

\* A task that is about to write its manifest has just summed the partition, or
\* was about to write it before.
LEMMA JustSummed ==
    ASSUME TypeInv, [Next]_vars, NEW i \in Jobs, pc'[i] = "manifest"
    PROVE  /\ date'[i] = date[i]
           /\ \/ pc[i] = "manifest" /\ lakeSum'[i] = lakeSum[i]
              \/ UNCHANGED lake /\ lakeSum'[i] = CopyChecksum(Partition(date[i]))
<1> USE DEF lakeVars, bucketVars, localVars, loopVars
<1> DEFINE Goal ==
        /\ date'[i] = date[i]
        /\ \/ pc[i] = "manifest" /\ lakeSum'[i] = lakeSum[i]
           \/ UNCHANGED lake /\ lakeSum'[i] = CopyChecksum(Partition(date[i]))
<1> SUFFICES Goal
  OBVIOUS
<1>0. /\ pc \in [Jobs -> PCs] /\ date \in [Jobs -> Dates \cup {None}]
      /\ lakeSum \in [Jobs -> Checksums]
  BY DEF TypeInv, TypeOK
<1>1. ASSUME NEW j \in Jobs, NEW success, NEW count, EndRun(j, success, count)
      PROVE  Goal
  BY <1>0, <1>1 DEF EndRun, ForgetLocals
<1>2. ASSUME NEW j \in Jobs, NEW label, Goto(j, label), label # "manifest",
             \A k \in Jobs : k # j => lakeSum'[k] = lakeSum[k]
      PROVE  Goal
  BY <1>0, <1>2 DEF Goto
<1>3. CASE UNCHANGED <<pc, date, lakeSum>>
  BY <1>3
<1>4. ASSUME NEW j \in Jobs, NEW s \in Spans, StartTask(j, s) PROVE Goal
  BY <1>0, <1>4 DEF StartTask
<1>5. ASSUME NEW j \in Jobs, ReadPostgres(j) PROVE Goal
  BY <1>1, <1>2, <1>5 DEF ReadPostgres, Step
<1>6. ASSUME NEW j \in Jobs, UploadParquet(j) PROVE Goal
  BY <1>1, <1>2, <1>6 DEF UploadParquet, Step
<1>7. ASSUME NEW j \in Jobs, CreateStaging(j) \/ DeletePartition(j)
                             \/ InsertPartition(j) \/ DropStaging(j)
      PROVE  Goal
  <2>1. /\ lakeSum' = lakeSum
        /\ \E label \in {"delete", "insert", "drop", "failed", "cleanup", "count"} :
              Goto(j, label)
    BY <1>7 DEF CreateStaging, DeletePartition, InsertPartition, DropStaging,
                CommitStatement, Step
  <2> QED BY <1>2, <2>1
<1>8. ASSUME NEW j \in Jobs, CountLake(j) PROVE Goal
  BY <1>1, <1>2, <1>8 DEF CountLake, QueryFails, Step
<1>9. ASSUME NEW j \in Jobs, SumLake(j) PROVE Goal
  <2>1. CASE /\ Step(j, "sum", "manifest")
             /\ lakeSum' = [lakeSum EXCEPT ![j] = CopyChecksum(Partition(date[j]))]
    BY <1>0, <1>9, <2>1 DEF SumLake, Step, Goto
  <2>2. CASE QueryFails(j)
    BY <1>1, <2>2 DEF QueryFails
  <2> QED BY <1>9, <2>1, <2>2 DEF SumLake
<1>10. ASSUME NEW j \in Jobs, UploadFailure(j) \/ Reconcile(j) PROVE Goal
  BY <1>1, <1>10 DEF UploadFailure, Reconcile
<1>11. ASSUME NEW j \in Jobs, UploadSummary(j) PROVE Goal
  <2>1. \E label \in {"ok", "error"} : Goto(j, label)
    BY <1>11 DEF UploadSummary
  <2> QED BY <1>2, <1>11, <2>1 DEF UploadSummary
<1>12. ASSUME NEW j \in Jobs, Crash(j) PROVE Goal
  <2>1. Goto(j, "crashed") /\ \A k \in Jobs : k # j => lakeSum'[k] = lakeSum[k]
    BY <1>0, <1>12 DEF Crash, ForgetLocals
  <2> QED BY <1>2, <2>1
<1>13. ASSUME NEW t \in TripIDs, RowArrives(t) PROVE Goal
  BY <1>3, <1>13 DEF RowArrives
<1>14. ASSUME NEW s \in Statements, AthenaEnds(s) PROVE Goal
  BY <1>3, <1>14 DEF AthenaEnds
<1>15. CASE UNCHANGED vars
  BY <1>3, <1>15 DEF vars
<1> HIDE DEF Goal
<1>16. ASSUME NEW j \in Jobs, JobStep(j) PROVE Goal
  BY <1>5, <1>6, <1>7, <1>8, <1>9, <1>10, <1>11, <1>16 DEF JobStep
<1> QED BY <1>4, <1>12, <1>13, <1>14, <1>15, <1>16 DEF Next

LEMMA FilledStep ==
    ASSUME OneByOne, SafeInv, SerialInv, FilledInv, [Next]_vars
    PROVE  FilledInv'
<1>0. /\ TypeInv /\ StagedOfDate /\ StagedIsRead /\ Alone /\ Cleared
      /\ inflight = {} /\ "late" \notin Faults
      /\ pc \in [Jobs -> PCs] /\ staged \in [Runs -> SUBSET TripIDs]
      /\ date \in [Jobs -> Dates \cup {None}]
  BY DEF SafeInv, SerialInv, OneByOne, TypeInv, TypeOK
<1>1. Filled'
  <2>1. ASSUME QuietTasks, UNCHANGED lake,
               \A i \in Jobs : Committed(i) =>
                   staged'[<<i, date[i]>>] = staged[<<i, date[i]>>]
        PROVE  Filled'
    BY <2>1 DEF QuietTasks, FilledInv, Filled, Partition, CopiesOf
  <2>2. CASE Hidden
    <3>1. ASSUME NEW i \in Jobs, Committed(i)
          PROVE  staged'[<<i, date[i]>>] = staged[<<i, date[i]>>]
      <4>1. CASE UNCHANGED staged
        BY <4>1
      <4>2. ASSUME NEW j \in Jobs, InRun(j),
                   staged' = [staged EXCEPT ![<<j, date[j]>>] = rows[j]]
            PROVE  staged'[<<i, date[i]>>] = staged[<<i, date[i]>>]
        <5>1. i = j
          BY <1>0, <3>1, <4>2 DEF Alone, InRun, Running, Committed, Exits
        <5>2. staged[<<i, date[i]>>] = rows[i]
          BY <1>0, <3>1 DEF StagedIsRead, Uploaded, Committed
        <5> QED BY <1>0, <4>2, <5>1, <5>2
      <4> QED BY <2>2, <4>1, <4>2 DEF Hidden
    <3> QED BY <2>1, <2>2, <3>1 DEF Hidden
  <2>3. ASSUME NEW j \in Jobs, NEW s \in Spans, StartTask(j, s) PROVE Filled'
    <3>1. \A i \in Jobs : ~Committed(i)'
      BY <1>0, <2>3, StartsAlone DEF StartTask, Running, Committed, Exits
    <3> QED BY <3>1 DEF Filled
  <2>4. ASSUME NEW j \in Jobs, PutsManifest(j) PROVE Filled'
    BY <2>1, <2>4 DEF PutsManifest
  <2>5. ASSUME NEW j \in Jobs, Writes(j) PROVE Filled'
    <3>1. /\ Running(j) /\ date' = date /\ staged' = staged /\ date[j] \in Dates
          /\ \A i \in Jobs : i # j => pc'[i] = pc[i] /\ ~Running(i)
      BY <1>0, <2>5 DEF Writes, Step, Goto, Alone, Running, Exits, TypeInv, LoopOK
    <3>2. \A i \in Jobs : Committed(i)' => i = j
      BY <3>1 DEF Committed, Running, Exits
    <3>3. CASE Step(j, "delete", "insert")
      BY <1>0, <3>2, <3>3 DEF Filled, Committed, Step, Goto
    <3>4. CASE Step(j, "insert", "drop")
               /\ lake' = lake \cup CopiesOf(j, staged[<<j, date[j]>>])
      <4>1. \A c \in lake : EventDate[c.id] # date[j]
        BY <1>0, <3>4 DEF Step, Cleared, Partition
      <4>2. \A c \in CopiesOf(j, staged[<<j, date[j]>>]) :
               EventDate[c.id] = date[j]
        BY <1>0, <3>1 DEF CopiesOf, StagedOfDate, OfDate
      <4>3. Partition(date[j])' = CopiesOf(j, staged[<<j, date[j]>>])
        BY <3>1, <3>4, <4>1, <4>2 DEF Partition
      <4> QED BY <3>1, <3>2, <4>3 DEF Filled, Partition, CopiesOf
    <3> QED BY <2>5, <3>3, <3>4 DEF Writes
  <2> QED BY <1>0, <2>2, <2>3, <2>4, <2>5, VisibleKinds
<1>2. Summed'
  <2> SUFFICES ASSUME NEW i \in Jobs, pc'[i] = "manifest"
               PROVE  lakeSum'[i] = CopyChecksum(Partition(date[i]))'
    BY DEF Summed
  <2>1. date'[i] = date[i]
    BY <1>0, JustSummed
  <2>2. CASE UNCHANGED lake /\ lakeSum'[i] = CopyChecksum(Partition(date[i]))
    BY <2>1, <2>2 DEF Partition
  <2>3. CASE pc[i] = "manifest" /\ lakeSum'[i] = lakeSum[i]
    <3>1. UNCHANGED lake
      <4>1. ASSUME NEW j \in Jobs, Writes(j) PROVE FALSE
        BY <1>0, <2>3, <4>1 DEF Writes, Step, Alone, Running, Exits
      <4> QED BY <1>0, <4>1, VisibleKinds
              DEF Hidden, PutsManifest, StartTask, lakeVars
    <3> QED BY <2>1, <2>3, <3>1 DEF FilledInv, Summed, Partition
  <2> QED BY <1>0, <2>2, <2>3, JustSummed
<1> QED BY <1>1, <1>2 DEF FilledInv

\* The reconciliation of a task whose statements have all succeeded matches.
LEMMA AlwaysMatches ==
    ASSUME SafeInv, SerialInv, FilledInv, NEW j \in Jobs, pc[j] = "manifest"
    PROVE  Match(j) /\ Exact(j, date[j]) /\ date[j] \in Dates
<1>1. /\ date[j] \in Dates /\ rows[j] \in SUBSET TripIDs
      /\ staged[<<j, date[j]>>] = rows[j]
      /\ Partition(date[j]) = CopiesOf(j, rows[j])
      /\ lakeCount[j] = Cardinality(Partition(date[j]))
      /\ lakeSum[j] = CopyChecksum(Partition(date[j]))
  <2>1. /\ date[j] \in Dates /\ rows[j] \in SUBSET TripIDs
        /\ staged[<<j, date[j]>>] = rows[j]
    BY DEF SafeInv, TypeInv, TypeOK, LoopOK, Running, Exits, StagedIsRead, Uploaded
  <2>2. lastWriter[date[j]] = j
    BY DEF SerialInv, OwnsDate, Committed
  <2>3. lakeCount[j] = Cardinality(Partition(date[j]))
    BY <2>2 DEF SafeInv, CountFresh
  <2> QED BY <2>1, <2>3 DEF FilledInv, Filled, Summed, Committed
<1> QED BY <1>1, CopiesCard, ChecksumOfCopies DEF Match, Exact

\* Tasks that follow each other raise no false alarm: once the statements of a
\* commit have succeeded its reconciliation matches, although rows reach
\* Postgres meanwhile and earlier tasks failed or were killed anywhere
\* (main.go:163).
THEOREM NoFalseAlarms ==
    ASSUME OneByOne
    PROVE  Spec => []NoFalseAlarm
<1> DEFINE Inv == SafeInv /\ SerialInv /\ FilledInv
<1>1. Inv => NoFalseAlarm
  BY AlwaysMatches DEF NoFalseAlarm
<1>2. Inv /\ [Next]_vars => Inv'
  BY SafeStep, SerialStep, FilledStep DEF SafeInv
<1>3. Init => Inv
  BY SafeInit, SerialInit, FilledInit
<1> HIDE DEF Inv
<1> QED BY <1>1, <1>2, <1>3, PTL DEF Spec

-----------------------------------------------------------------------------
(***************************************************************************)
(* Part 8: refinement.  What Publication calls the content of a date is    *)
(* the number of copies of each trip; what it calls attested is what the   *)
(* run staged whose manifest says success.                                 *)
(***************************************************************************)
CountsOf(P) == [t \in TripIDs |-> Cardinality({c \in P : c.id = t})]
Content == [d \in Dates |-> CountsOf(Partition(d))]
Attested == [d \in Dates |->
                IF manifest[d] = None THEN None
                ELSE IF manifest[d].success THEN staged[<<manifest[d].job, d>>]
                ELSE None]

\* The copies that one job made of S hold each trip of S once.
LEMMA CopiesOnce ==
    ASSUME NEW j \in Jobs, NEW S \in SUBSET TripIDs
    PROVE  CountsOf(CopiesOf(j, S)) = Publishing!Once(S)
<1>1. ASSUME NEW t \in TripIDs
      PROVE  Cardinality({c \in CopiesOf(j, S) : c.id = t})
                = IF t \in S THEN 1 ELSE 0
  <2>1. CASE t \in S
    <3>1. {c \in CopiesOf(j, S) : c.id = t} = {[id |-> t, job |-> j]}
      BY <2>1 DEF CopiesOf
    <3> QED BY <2>1, <3>1, FS_Singleton
  <2>2. CASE t \notin S
    <3>1. {c \in CopiesOf(j, S) : c.id = t} = {}
      BY <2>2 DEF CopiesOf
    <3> QED BY <2>2, <3>1, FS_EmptySet
  <2> QED BY <2>1, <2>2
<1> QED BY <1>1 DEF CountsOf, Publishing!Once

LEMMA NothingOnce == CountsOf({}) = Publishing!Once({})
<1>1. \A t : {c \in {} : c.id = t} = {}
  OBVIOUS
<1> QED BY <1>1, FS_EmptySet DEF CountsOf, Publishing!Once

LEMMA PublicationInit == Init => Publishing!Init
<1> SUFFICES ASSUME Init PROVE Publishing!Init
  OBVIOUS
<1>1. \A d \in Dates : Partition(d) = {}
  BY DEF Init, Partition
<1>2. Content = [d \in Dates |-> Publishing!Once({})]
  BY <1>1, NothingOnce DEF Content
<1>3. Attested = [d \in Dates |-> None]
  BY DEF Init, Attested
<1> QED BY <1>2, <1>3 DEF Publishing!Init, Content, Attested, CountsOf

\* The actions of Publication, in terms of the two mapped variables.
LEMMA PublicationActions ==
    ASSUME NEW d \in Dates
    PROVE  /\ Publishing!Clear(d) <=>
                 /\ Content' = [Content EXCEPT ![d] = Publishing!Once({})]
                 /\ UNCHANGED Attested
           /\ Publishing!Withdraw(d) <=>
                 /\ Attested' = [Attested EXCEPT ![d] = None]
                 /\ UNCHANGED Content
           /\ \A S : Publishing!Publish(d, S) <=>
                 /\ Content[d] = Publishing!Once({})
                 /\ Content' = [Content EXCEPT ![d] = Publishing!Once(S)]
                 /\ UNCHANGED Attested
           /\ \A S : Publishing!Attest(d, S) <=>
                 /\ Content[d] = Publishing!Once(S)
                 /\ Attested' = [Attested EXCEPT ![d] = S]
                 /\ UNCHANGED Content
BY DEF Publishing!Clear, Publishing!Withdraw, Publishing!Publish,
       Publishing!Attest, Content, Attested, CountsOf

\* Another date, or the upload of a task that is still at work, does not change
\* what is attested.
LEMMA AttestedKept ==
    ASSUME SafeInv, UNCHANGED manifest,
           \/ UNCHANGED staged
           \/ \E j \in Jobs : /\ InRun(j)
                              /\ staged' = [staged EXCEPT ![<<j, date[j]>>] = rows[j]]
    PROVE  UNCHANGED Attested
<1>1. ASSUME NEW d \in Dates, manifest[d] # None
      PROVE  staged'[<<manifest[d].job, d>>] = staged[<<manifest[d].job, d>>]
  <2>1. ASSUME NEW j \in Jobs, InRun(j),
               staged' = [staged EXCEPT ![<<j, date[j]>>] = rows[j]]
        PROVE  staged'[<<manifest[d].job, d>>] = staged[<<manifest[d].job, d>>]
    <3>1. /\ staged \in [Runs -> SUBSET TripIDs] /\ manifest[d].job \in Jobs
          /\ d \in Int /\ date[j] \in Int
      BY <1>1, <2>1, TripsAssumption
      DEF SafeInv, TypeInv, TypeOK, LoopOK, InRun, Manifests
    <3>2. manifest[d].job = j => d < date[j]
      BY <1>1, <2>1 DEF SafeInv, EvidencePast
    <3>3. <<manifest[d].job, d>> # <<j, date[j]>>
      BY <3>1, <3>2
    <3> QED BY <2>1, <3>1, <3>3 DEF Runs
  <2> QED BY <2>1
<1> QED BY <1>1 DEF Attested

LEMMA PublicationStep ==
    ASSUME OneByOne, SafeInv, SerialInv, FilledInv, [Next]_vars
    PROVE  [Publishing!Next]_(Publishing!vars)
<1>0. /\ TypeInv /\ StagedOfDate /\ Cleared /\ inflight = {} /\ "late" \notin Faults
      /\ pc \in [Jobs -> PCs] /\ staged \in [Runs -> SUBSET TripIDs]
      /\ manifest \in [Dates -> Manifests \cup {None}]
      /\ \A j \in Jobs : Running(j) => date[j] \in Dates
  BY DEF SafeInv, SerialInv, OneByOne, TypeInv, TypeOK, LoopOK
<1>1. ASSUME UNCHANGED lake, UNCHANGED manifest,
             \/ UNCHANGED staged
             \/ \E j \in Jobs : /\ InRun(j)
                                /\ staged' = [staged EXCEPT ![<<j, date[j]>>] = rows[j]]
      PROVE  UNCHANGED Publishing!vars
  <2>1. UNCHANGED Content
    BY <1>1 DEF Content, Partition
  <2>2. UNCHANGED Attested
    BY <1>1, AttestedKept
  <2> QED BY <2>1, <2>2 DEF Publishing!vars, Content, Attested, CountsOf
<1>2. ASSUME NEW j \in Jobs, NEW s \in Spans, StartTask(j, s)
      PROVE  UNCHANGED Publishing!vars
  BY <1>1, <1>2 DEF StartTask, lakeVars, bucketVars
<1>3. ASSUME NEW j \in Jobs, Writes(j) PROVE Publishing!Next
  <2>a. PICK d \in Dates : d = date[j]
    BY <1>0, <1>3 DEF Writes, Step, Running, Exits
  <2>b. PICK S : S = staged[<<j, d>>]
    OBVIOUS
  <2>1. S \in SUBSET OfDate(d) /\ S \in SUBSET TripIDs
    BY <1>0, <2>b DEF StagedOfDate, OfDate
  <2>2. UNCHANGED Attested
    BY <1>3, AttestedKept DEF Writes
  <2>3. \A c \in CopiesOf(j, S) : EventDate[c.id] = d
    BY <2>1 DEF CopiesOf, OfDate
  <2>4. ASSUME NEW P, Partition(d)' = P,
               \A e \in Dates : e # d => Partition(e)' = Partition(e)
        PROVE  Content' = [Content EXCEPT ![d] = CountsOf(P)]
    BY <2>4 DEF Content, CountsOf
  <2>5. CASE lake' = lake \ Partition(d)
    <3>1. /\ Partition(d)' = {}
          /\ \A e \in Dates : e # d => Partition(e)' = Partition(e)
      BY <2>5 DEF Partition
    <3>2. Publishing!Clear(d)
      BY <2>1, <2>2, <2>4, <3>1, NothingOnce, PublicationActions
    <3> QED BY <2>1, <3>2 DEF Publishing!Next
  <2>6. CASE pc[j] = "insert" /\ lake' = lake \cup CopiesOf(j, S)
    <3>1. Partition(d) = {}
      BY <1>0, <2>a, <2>6 DEF Cleared
    <3>2. /\ Partition(d)' = CopiesOf(j, S)
          /\ \A e \in Dates : e # d => Partition(e)' = Partition(e)
      BY <2>3, <2>6, <3>1 DEF Partition
    <3>3. Content[d] = Publishing!Once({})
      BY <2>1, <3>1, NothingOnce DEF Content
    <3>4. Publishing!Publish(d, S)
      BY <2>1, <2>2, <2>4, <3>2, <3>3, CopiesOnce, PublicationActions
    <3>5. S \in SUBSET Publishing!RowsOf(d)
      BY <2>1 DEF OfDate, Publishing!RowsOf
    <3> QED BY <2>1, <3>4, <3>5 DEF Publishing!Next
  <2> QED BY <1>3, <2>a, <2>b, <2>5, <2>6 DEF Writes, Step
<1>4. ASSUME NEW j \in Jobs, PutsManifest(j) PROVE Publishing!Next
  <2>a. PICK d \in Dates : d = date[j]
    BY <1>0, <1>4 DEF PutsManifest, Running, Exits
  <2>b. PICK S : S = staged[<<j, d>>]
    OBVIOUS
  <2>1. S \in SUBSET OfDate(d) /\ S \in SUBSET TripIDs
    BY <1>0, <2>b DEF StagedOfDate, OfDate
  <2>2. UNCHANGED Content /\ UNCHANGED staged
    BY <1>4 DEF PutsManifest, Content, Partition
  <2>3. ASSUME NEW m, manifest' = [manifest EXCEPT ![d] = m],
               m = None \/ ~m.success
        PROVE  Publishing!Next
    <3>1. Attested' = [Attested EXCEPT ![d] = None]
      BY <1>0, <2>1, <2>2, <2>3 DEF Attested
    <3>2. Publishing!Withdraw(d)
      BY <2>1, <2>2, <3>1, PublicationActions
    <3> QED BY <2>1, <3>2 DEF Publishing!Next
  <2>4. ASSUME NEW m, manifest' = [manifest EXCEPT ![d] = m],
               m # None, m.success, m.job = j, Exact(j, d)
        PROVE  Publishing!Next
    <3>1. Attested' = [Attested EXCEPT ![d] = S]
      BY <1>0, <2>b, <2>2, <2>4 DEF Attested
    <3>2. Content[d] = Publishing!Once(S)
      BY <2>1, <2>b, <2>4, CopiesOnce DEF Exact, Content
    <3>3. Publishing!Attest(d, S)
      BY <2>1, <2>2, <3>1, <3>2, PublicationActions
    <3>4. S \in SUBSET Publishing!RowsOf(d)
      BY <2>1 DEF OfDate, Publishing!RowsOf
    <3> QED BY <2>1, <3>3, <3>4 DEF Publishing!Next
  <2>5. CASE pc[j] = "failed" /\ PutManifest(j, FailureManifest(j))
    BY <2>a, <2>3, <2>5 DEF PutManifest, FailureManifest
  <2>6. CASE pc[j] = "manifest" /\ PutManifest(j, ReconciledManifest(j))
    <3>1. Match(j) /\ Exact(j, d)
      BY <2>a, <2>6, AlwaysMatches
    <3>2. ReconciledManifest(j).success /\ ReconciledManifest(j).job = j
      BY <3>1 DEF ReconciledManifest
    <3> QED BY <2>a, <2>3, <2>4, <2>6, <3>1, <3>2 DEF PutManifest
  <2> QED BY <1>4, <2>5, <2>6 DEF PutsManifest
<1> QED BY <1>0, <1>1, <1>2, <1>3, <1>4, VisibleKinds DEF Hidden

\* Tasks that follow each other, with nothing of theirs left in Athena, publish
\* dates as Publication promises: a date is cleared, filled in one step with
\* the rows of one read, and attested in a state in which it holds just these
\* (iceberg.go:31-36, main.go:176-182).
THEOREM SerialRunsPublish ==
    ASSUME OneByOne
    PROVE  Spec => RefinesPublication
<1> DEFINE Inv == SafeInv /\ SerialInv /\ FilledInv
<1>1. Init => Inv
  BY SafeInit, SerialInit, FilledInit
<1>2. Inv /\ [Next]_vars => Inv'
  BY SafeStep, SerialStep, FilledStep DEF SafeInv
<1>3. Inv /\ [Next]_vars => [Publishing!Next]_(Publishing!vars)
  BY PublicationStep
<1> HIDE DEF Inv
<1>4. Spec => Publishing!Spec
  BY <1>1, <1>2, <1>3, PublicationInit, PTL DEF Spec, Publishing!Spec
<1> QED BY <1>4 DEF RefinesPublication
=============================================================================
