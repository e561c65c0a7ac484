------------------------------- MODULE Export -------------------------------
(***************************************************************************)
(* The export job (export/cmd/export, export/internal/lake, manifest,      *)
(* reconcile, source): one task exports one event_date, or a range of them *)
(* one after the other, from Postgres into the Iceberg table trip_events,  *)
(* through statements that Athena executes, and leaves in S3 one manifest  *)
(* per date that other jobs take as evidence.                              *)
(*                                                                         *)
(* A job is one ECS task.  Tasks share Postgres, the lake and the bucket,  *)
(* and nothing in the code keeps two of them from running at once.  One    *)
(* call of runOnce, a run, is identified by its job and its date (the code *)
(* draws a uuid).  Each remote call is one step, and the faults that a     *)
(* configuration allows are outcomes of these steps.                       *)
(***************************************************************************)
EXTENDS Integers, FiniteSets, Sequences, FiniteSetsExt

CONSTANTS
    TripIDs,        \* primary keys of trip_events, positive integers
    Dates,          \* the event dates, as consecutive day numbers
    EventDate,      \* event_date of each trip
    Jobs,           \* the export tasks that may be started
    MaxTasks,       \* how many tasks may run at the same time
    MaxSpan,        \* bound: days in one backfill range
    Faults,         \* which faults happen, a subset of FaultKinds
    None            \* no manifest, no writer, no summary

FaultKinds == {"pg", "s3", "athena", "late", "crash"}

ASSUME TripsAssumption == /\ TripIDs \subseteq Nat \ {0}
                          /\ IsFiniteSet(TripIDs)
                          /\ Dates \subseteq Int
                          /\ \A a, b \in Dates : a..b \subseteq Dates
                          /\ EventDate \in [TripIDs -> Dates]
ASSUME JobsAssumption == /\ IsFiniteSet(Jobs)
                         /\ None \notin Jobs
                         /\ MaxTasks \in Nat
                         /\ MaxSpan \in Nat
ASSUME FaultsAssumption == Faults \subseteq FaultKinds

VARIABLES
    pg,             \* trips in the Postgres table
    lake,           \* row copies in the Iceberg table trip_events
    staged,         \* the Parquet file each run uploaded, as the trips in it
    stagingTables,  \* runs whose throwaway external table exists
    inflight,       \* Athena statements whose caller no longer waits
    manifest,       \* export-manifests/{date}/trip_events.json
    summaries,      \* backfill/{start}_{end}/summary.json
    pc,             \* control state of each job
    span,           \* what the job was started for
    date,           \* the event_date the job is exporting
    rows,           \* the rows it read from Postgres
    lakeCount,      \* its reconciliation COUNT(*)
    lakeSum,        \* its reconciliation SUM(trip_id)
    results,        \* one DateResult per finished runOnce
    lastWriter      \* history: the job whose statement last changed a date

lakeVars == <<lake, stagingTables, inflight, lastWriter>>
bucketVars == <<staged, manifest, summaries>>
localVars == <<rows, lakeCount, lakeSum>>
loopVars == <<pc, span, date, results>>
vars == <<pg, lakeVars, bucketVars, localVars, loopVars>>

-----------------------------------------------------------------------------
(***************************************************************************)
(* Data.  A copy is one row of the lake, tagged with the job whose INSERT  *)
(* wrote it, so two copies of one trip are two elements of the set.        *)
(***************************************************************************)
Runs == Jobs \X Dates
Copies == [id : TripIDs, job : Jobs]
CopiesOf(j, S) == {[id |-> t, job |-> j] : t \in S}

PgRows(d) == {t \in pg : EventDate[t] = d}
Partition(d) == {c \in lake : EventDate[c.id] = d}

Checksum(S) == MapThenSumSet(LAMBDA t : t, S)
CopyChecksum(C) == MapThenSumSet(LAMBDA c : c.id, C)

Counts == {Cardinality(C) : C \in SUBSET Copies} \cup {0}
Checksums == {CopyChecksum(C) : C \in SUBSET Copies} \cup {0}

Manifests == [job : Jobs, rowCount : Counts, checksum : Checksums,
              success : BOOLEAN]
DateResults == [date : Dates, success : BOOLEAN, rowCount : Counts]
Spans == [mode : {"single", "backfill"}, first : Dates, last : Dates]
Summaries == [job : Jobs, dates : Seq(DateResults)]

Kinds == {"create", "delete", "insert", "drop"}
Statements == [kind : Kinds, job : Jobs, date : Dates]

\* Faulty variant: the lake may hold more than Postgres.
MatchAtLeast(j) == /\ Cardinality(rows[j]) <= lakeCount[j]
                   /\ Checksum(rows[j]) <= lakeSum[j]

\* reconcile.Result.Match
Match(j) == /\ Cardinality(rows[j]) = lakeCount[j]
            /\ Checksum(rows[j]) = lakeSum[j]

Exits == {"ok", "error", "crashed"}
PCs == {"off", "read", "upload", "create", "delete", "insert", "drop",
        "cleanup", "failed", "count", "sum", "manifest", "summary"} \cup Exits

Running(j) == pc[j] \notin {"off"} \cup Exits

TypeOK ==
    /\ pg \subseteq TripIDs
    /\ lake \subseteq Copies
    /\ staged \in [Runs -> SUBSET TripIDs]
    /\ stagingTables \subseteq Runs
    /\ inflight \subseteq Statements
    /\ manifest \in [Dates -> Manifests \cup {None}]
    /\ summaries \in [Dates \X Dates -> Summaries \cup {None}]
    /\ pc \in [Jobs -> PCs]
    /\ span \in [Jobs -> Spans \cup {None}]
    /\ date \in [Jobs -> Dates \cup {None}]
    /\ rows \in [Jobs -> SUBSET TripIDs]
    /\ lakeCount \in [Jobs -> Counts]
    /\ lakeSum \in [Jobs -> Checksums]
    /\ results \in [Jobs -> Seq(DateResults)]
    /\ lastWriter \in [Dates -> Jobs \cup {None}]

Init ==
    /\ pg = {}
    /\ lake = {}
    /\ staged = [r \in Runs |-> {}]
    /\ stagingTables = {}
    /\ inflight = {}
    /\ manifest = [d \in Dates |-> None]
    /\ summaries = [r \in Dates \X Dates |-> None]
    /\ pc = [j \in Jobs |-> "off"]
    /\ span = [j \in Jobs |-> None]
    /\ date = [j \in Jobs |-> None]
    /\ rows = [j \in Jobs |-> {}]
    /\ lakeCount = [j \in Jobs |-> 0]
    /\ lakeSum = [j \in Jobs |-> 0]
    /\ results = [j \in Jobs |-> <<>>]
    /\ lastWriter = [d \in Dates |-> None]

-----------------------------------------------------------------------------
(***************************************************************************)
(* The environment: rows reach Postgres at any time, late ones for dates   *)
(* that were exported already.                                             *)
(***************************************************************************)
RowArrives(t) ==
    /\ t \notin pg
    /\ pg' = pg \cup {t}
    /\ UNCHANGED <<lakeVars, bucketVars, localVars, loopVars>>

(***************************************************************************)
(* Athena.  Effect is what a statement does to the lake when it commits.   *)
(* AthenaRunner.Run returns nil only for a statement that succeeded; it    *)
(* returns an error for one that failed, and also when the poll for its    *)
(* state fails, while Athena goes on with it: fault "late".                *)
(***************************************************************************)
Effect(s) ==
    /\ lake' = CASE s.kind = "delete" -> lake \ Partition(s.date)
                 [] s.kind = "insert" ->
                      lake \cup CopiesOf(s.job, staged[<<s.job, s.date>>])
                 [] OTHER -> lake
    /\ lastWriter' = IF s.kind \in {"delete", "insert"}
                     THEN [lastWriter EXCEPT ![s.date] = s.job]
                     ELSE lastWriter
    /\ stagingTables' =
          CASE s.kind = "create" -> stagingTables \cup {<<s.job, s.date>>}
            [] s.kind = "drop" -> stagingTables \ {<<s.job, s.date>>}
            [] OTHER -> stagingTables

Statement(j, kind) == [kind |-> kind, job |-> j, date |-> date[j]]

RunSucceeds(j, kind) == Effect(Statement(j, kind)) /\ UNCHANGED inflight

RunFails(j, kind) ==
    /\ UNCHANGED <<lake, lastWriter, stagingTables>>
    /\ \/ Faults \cap {"athena", "late"} # {} /\ UNCHANGED inflight
       \/ "late" \in Faults /\ inflight' = inflight \cup {Statement(j, kind)}

\* Athena ends a statement nobody waits for: it commits, or it fails.
AthenaEnds(s) ==
    /\ s \in inflight
    /\ inflight' = inflight \ {s}
    /\ Effect(s) \/ UNCHANGED <<lake, lastWriter, stagingTables>>
    /\ UNCHANGED <<pg, bucketVars, localVars, loopVars>>

-----------------------------------------------------------------------------
(***************************************************************************)
(* One run: runOnce and CommitToIceberg.                                   *)
(***************************************************************************)
Goto(j, label) ==
    /\ pc' = [pc EXCEPT ![j] = label]
    /\ UNCHANGED <<span, date, results>>

Step(j, from, to) == pc[j] = from /\ Goto(j, to)

\* The locals of runOnce are gone when it ends.
ForgetLocals(j) ==
    /\ rows' = [rows EXCEPT ![j] = {}]
    /\ lakeCount' = [lakeCount EXCEPT ![j] = 0]
    /\ lakeSum' = [lakeSum EXCEPT ![j] = 0]

\* Faulty variant: the range loop runs one day too far.
EndRunPastLast(j, success, count) ==
    /\ ForgetLocals(j)
    /\ results' = [results EXCEPT ![j] = Append(@,
          [date |-> date[j], success |-> success, rowCount |-> count])]
    /\ pc' = [pc EXCEPT ![j] = IF date[j] <= span[j].last
                               THEN "read" ELSE "summary"]
    /\ date' = [date EXCEPT ![j] = @ + 1]

\* Faulty variant: the first failure ends the backfill.
EndRunAborts(j, success, count) ==
    /\ ForgetLocals(j)
    /\ results' = [results EXCEPT ![j] = Append(@,
          [date |-> date[j], success |-> success, rowCount |-> count])]
    /\ IF success /\ date[j] < span[j].last
       THEN /\ pc' = [pc EXCEPT ![j] = "read"]
            /\ date' = [date EXCEPT ![j] = @ + 1]
       ELSE /\ pc' = [pc EXCEPT ![j] = "summary"]
            /\ UNCHANGED date

\* runOnce returns m and whether it failed.  main exits with it; runBackfill
\* records it and goes on to the next date.
EndRun(j, success, count) ==
    /\ ForgetLocals(j)
    /\ results' = [results EXCEPT ![j] = Append(@,
          [date |-> date[j], success |-> success, rowCount |-> count])]
    /\ IF span[j].mode = "single"
       THEN /\ pc' = [pc EXCEPT ![j] = IF success THEN "ok" ELSE "error"]
            /\ UNCHANGED date
       ELSE IF date[j] < span[j].last
       THEN /\ pc' = [pc EXCEPT ![j] = "read"]
            /\ date' = [date EXCEPT ![j] = @ + 1]
       ELSE /\ pc' = [pc EXCEPT ![j] = "summary"]
            /\ UNCHANGED date

StartTask(j, s) ==
    /\ pc[j] = "off"
    /\ Cardinality({i \in Jobs : Running(i)}) < MaxTasks
    /\ s.first <= s.last /\ s.last - s.first < MaxSpan
    /\ s.mode = "single" => s.first = s.last
    /\ pc' = [pc EXCEPT ![j] = "read"]
    /\ span' = [span EXCEPT ![j] = s]
    /\ date' = [date EXCEPT ![j] = s.first]
    /\ UNCHANGED <<pg, lakeVars, bucketVars, localVars, results>>

\* Connect and StreamTripEvents: one cursor in one transaction is one snapshot.
ReadPostgres(j) ==
    /\ \/ /\ Step(j, "read", "upload")
          /\ rows' = [rows EXCEPT ![j] = PgRows(date[j])]
          /\ UNCHANGED <<lakeCount, lakeSum>>
       \/ /\ "pg" \in Faults
          /\ pc[j] = "read"
          /\ EndRun(j, FALSE, 0)
    /\ UNCHANGED <<pg, lakeVars, bucketVars, span>>

\* WriteTripEvents to a temporary file and UploadFile to the staging key.
UploadParquet(j) ==
    /\ \/ /\ Step(j, "upload", "create")
          /\ staged' = [staged EXCEPT ![<<j, date[j]>>] = rows[j]]
          /\ UNCHANGED localVars
       \/ /\ "s3" \in Faults
          /\ pc[j] = "upload"
          /\ EndRun(j, FALSE, 0)
          /\ UNCHANGED staged
    /\ UNCHANGED <<pg, lakeVars, manifest, summaries, span>>

\* One statement of CommitToIceberg: on success to the next, otherwise out.
CommitStatement(j, kind, next, onError) ==
    /\ \/ Step(j, kind, next) /\ RunSucceeds(j, kind)
       \/ Step(j, kind, onError) /\ RunFails(j, kind)
    /\ UNCHANGED <<pg, bucketVars, localVars>>

\* Faulty variant: the new rows are added to what the date holds already.
DeleteNothing(j) ==
    /\ Step(j, "delete", "insert")
    /\ UNCHANGED <<pg, lakeVars, bucketVars, localVars>>

CreateStaging(j) == CommitStatement(j, "create", "delete", "failed")
DeletePartition(j) == CommitStatement(j, "delete", "insert", "cleanup")
InsertPartition(j) == CommitStatement(j, "insert", "drop", "cleanup")

\* The deferred DROP TABLE: registered once CREATE succeeded, its error is
\* ignored, and CommitToIceberg returns what it was about to return.
DropStaging(j) ==
    /\ Step(j, "drop", "count") \/ Step(j, "cleanup", "failed")
    /\ RunSucceeds(j, "drop") \/ RunFails(j, "drop")
    /\ UNCHANGED <<pg, bucketVars, localVars>>

\* The manifest of a failed commit, and the one of a reconciled run.
FailureManifest(j) ==
    [job |-> j, rowCount |-> 0, checksum |-> 0, success |-> FALSE]
ReconciledManifest(j) ==
    [job |-> j, rowCount |-> lakeCount[j], checksum |-> lakeSum[j],
     success |-> Match(j)]

PutManifest(j, m) == manifest' = [manifest EXCEPT ![date[j]] = m]

\* manifest.Upload: a failure to upload is only logged.
UploadManifest(j, m) ==
    \/ PutManifest(j, m)
    \/ "s3" \in Faults /\ UNCHANGED manifest

\* Faulty variant: the failure of the commit is only logged.
UploadFailureSwallowed(j) ==
    /\ pc[j] = "failed"
    /\ UploadManifest(j, FailureManifest(j))
    /\ EndRun(j, TRUE, 0)
    /\ UNCHANGED <<pg, lakeVars, staged, summaries, span>>

\* Faulty variant: a failed commit leaves no manifest.
UploadFailureForgotten(j) ==
    /\ pc[j] = "failed"
    /\ EndRun(j, FALSE, 0)
    /\ UNCHANGED <<pg, lakeVars, bucketVars, span>>

\* Faulty variant: the manifest of a failed commit keeps success.
UploadFailureAsSuccess(j) ==
    /\ pc[j] = "failed"
    /\ UploadManifest(j, [FailureManifest(j) EXCEPT !.success = TRUE])
    /\ EndRun(j, FALSE, 0)
    /\ UNCHANGED <<pg, lakeVars, staged, summaries, span>>

UploadFailure(j) ==
    /\ pc[j] = "failed"
    /\ UploadManifest(j, FailureManifest(j))
    /\ EndRun(j, FALSE, 0)
    /\ UNCHANGED <<pg, lakeVars, staged, summaries, span>>

\* The two reconciliation queries are separate statements; when one fails the
\* run returns at once, without a manifest.
QueryFails(j) == Faults \cap {"athena", "late"} # {} /\ EndRun(j, FALSE, 0)

\* Faulty variant: the count is not restricted to the date.
CountWholeTable(j) ==
    /\ Step(j, "count", "sum")
    /\ lakeCount' = [lakeCount EXCEPT ![j] = Cardinality(lake)]
    /\ UNCHANGED <<rows, lakeSum>>
    /\ UNCHANGED <<pg, lakeVars, bucketVars>>

CountLake(j) ==
    /\ \/ /\ Step(j, "count", "sum")
          /\ lakeCount' = [lakeCount EXCEPT ![j] =
                              Cardinality(Partition(date[j]))]
          /\ UNCHANGED <<rows, lakeSum>>
       \/ pc[j] = "count" /\ QueryFails(j)
    /\ UNCHANGED <<pg, lakeVars, bucketVars, span>>

SumLake(j) ==
    /\ \/ /\ Step(j, "sum", "manifest")
          /\ lakeSum' = [lakeSum EXCEPT ![j] =
                            CopyChecksum(Partition(date[j]))]
          /\ UNCHANGED <<rows, lakeCount>>
       \/ pc[j] = "sum" /\ QueryFails(j)
    /\ UNCHANGED <<pg, lakeVars, bucketVars, span>>

\* Faulty variant: the manifest says success before the comparison is made.
ReconcileUnchecked(j) ==
    /\ pc[j] = "manifest"
    /\ UploadManifest(j, [ReconciledManifest(j) EXCEPT !.success = TRUE])
    /\ EndRun(j, Match(j), lakeCount[j])
    /\ UNCHANGED <<pg, lakeVars, staged, summaries, span>>

\* Faulty variant: a mismatch goes into the manifest but not into the exit.
ReconcileLogsOnly(j) ==
    /\ pc[j] = "manifest"
    /\ UploadManifest(j, ReconciledManifest(j))
    /\ EndRun(j, TRUE, lakeCount[j])
    /\ UNCHANGED <<pg, lakeVars, staged, summaries, span>>

Reconcile(j) ==
    /\ pc[j] = "manifest"
    /\ UploadManifest(j, ReconciledManifest(j))
    /\ EndRun(j, Match(j), lakeCount[j])
    /\ UNCHANGED <<pg, lakeVars, staged, summaries, span>>

Failures(res) == {i \in DOMAIN res : ~res[i].success}

PutSummary(j) ==
    summaries' = [summaries EXCEPT ![<<span[j].first, span[j].last>>] =
                     [job |-> j, dates |-> results[j]]]

\* The end of runBackfill: summary upload, then the exit code.
UploadSummary(j) ==
    /\ pc[j] = "summary"
    /\ \/ PutSummary(j)
       \/ "s3" \in Faults /\ UNCHANGED summaries
    /\ Goto(j, IF Failures(results[j]) = {} THEN "ok" ELSE "error")
    /\ UNCHANGED <<pg, lakeVars, staged, manifest, localVars>>

\* The task is killed; the statement it waited for may go on, and the object
\* it was uploading may be there.
Crash(j) ==
    /\ "crash" \in Faults /\ Running(j)
    /\ Goto(j, "crashed")
    /\ ForgetLocals(j)
    /\ \/ UNCHANGED <<inflight, manifest, summaries>>
       \/ \E kind \in Kinds :
             /\ "late" \in Faults
             /\ pc[j] = kind \/ (pc[j] = "cleanup" /\ kind = "drop")
             /\ inflight' = inflight \cup {Statement(j, kind)}
             /\ UNCHANGED <<manifest, summaries>>
       \/ /\ \/ pc[j] = "failed" /\ PutManifest(j, FailureManifest(j))
             \/ pc[j] = "manifest" /\ PutManifest(j, ReconciledManifest(j))
          /\ UNCHANGED <<inflight, summaries>>
       \/ pc[j] = "summary" /\ PutSummary(j) /\ UNCHANGED <<inflight, manifest>>
    /\ UNCHANGED <<pg, lake, lastWriter, stagingTables, staged>>

-----------------------------------------------------------------------------
JobStep(j) ==
    \/ ReadPostgres(j) \/ UploadParquet(j)
    \/ CreateStaging(j) \/ DeletePartition(j) \/ InsertPartition(j)
    \/ DropStaging(j) \/ UploadFailure(j)
    \/ CountLake(j) \/ SumLake(j) \/ Reconcile(j)
    \/ UploadSummary(j)

Next ==
    \/ \E t \in TripIDs : RowArrives(t)
    \/ \E j \in Jobs, s \in Spans : StartTask(j, s)
    \/ \E j \in Jobs : JobStep(j) \/ Crash(j)
    \/ \E s \in Statements : AthenaEnds(s)

Spec == Init /\ [][Next]_vars

-----------------------------------------------------------------------------
(***************************************************************************)
(* Properties.                                                             *)
(***************************************************************************)
SucceededOn(res, d) == \E i \in DOMAIN res : res[i].date = d /\ res[i].success

RunSucceeded(j, d) == SucceededOn(results[j], d)

Exact(j, d) == Partition(d) = CopiesOf(j, staged[<<j, d>>])

\* A run that reports success left in the lake exactly the rows it read, one
\* copy each, for as long as no other task touches the date: whatever tasks
\* overlap, crash, or leave statements behind in Athena (runOnce's
\* reconciliation, main.go:143-184).
SuccessMeansExact ==
    \A j \in Jobs, d \in Dates :
        RunSucceeded(j, d) /\ lastWriter[d] = j => Exact(j, d)

\* A manifest in the bucket that says success stands for the rows the lake
\* holds, until another task's statement touches the date (manifest.go:29).
EvidenceAccurate ==
    \A d \in Dates :
        manifest[d] # None =>
            LET m == manifest[d] IN
            m.success /\ lastWriter[d] = m.job =>
                /\ Exact(m.job, d)
                /\ m.rowCount = Cardinality(staged[<<m.job, d>>])

\* When every task started so far has ended with exit code zero, each date
\* holds exactly what its last writer read: a divergence of the lake, by
\* overlap included, makes some task exit non-zero, which is what the alarm of
\* the export task watches (main.go:182, 238).
QuietLakeIsExact ==
    (\A j \in Jobs : pc[j] \in {"off", "ok"}) =>
        \A d \in Dates, j \in Jobs : lastWriter[d] = j => Exact(j, d)

\* Runs that follow each other replace the rows of a date and never duplicate
\* them (iceberg.go:31-36).
ReplaceNotDuplicate ==
    \A c1, c2 \in lake : c1.id = c2.id => c1 = c2

\* A task ends by itself only after one attempt for each of its dates, in
\* order, and with exit code zero exactly when all of them succeeded: one bad
\* date neither aborts a backfill nor hides in it (main.go:190-194).
ExitTellsEveryDate ==
    \A j \in Jobs : pc[j] \in {"ok", "error"} =>
        /\ [i \in DOMAIN results[j] |-> results[j][i].date]
              = [i \in 1..(span[j].last - span[j].first + 1) |->
                    span[j].first + i - 1]
        /\ pc[j] = "ok" <=> Failures(results[j]) = {}

\* A stored backfill summary and the manifests of its dates that the same task
\* wrote agree on success and on the row count (main.go:211-228).
SummaryAgreesWithManifests ==
    \A r \in DOMAIN summaries : summaries[r] # None =>
        \A i \in DOMAIN summaries[r].dates :
            LET dr == summaries[r].dates[i]
                m == manifest[dr.date]
            IN m # None /\ m.job = summaries[r].job =>
                  m.success = dr.success /\ m.rowCount = dr.rowCount

\* Tasks that follow each other raise no false alarm: once the statements of a
\* commit have succeeded the reconciliation matches, although rows reach
\* Postgres meanwhile, the date was exported before, and earlier tasks failed or
\* were killed anywhere (the lake is compared with the rows read, main.go:163).
NoFalseAlarm == \A j \in Jobs : pc[j] = "manifest" => Match(j)

\* One task at a time, and no statement that outlives its task: each step of
\* the export is a step of Publication.
Publishing == INSTANCE Publication WITH
    content <- [d \in Dates |-> [t \in TripIDs |->
                   Cardinality({c \in Partition(d) : c.id = t})]],
    attested <- [d \in Dates |->
                   IF manifest[d] = None THEN None
                   ELSE IF manifest[d].success THEN staged[<<manifest[d].job, d>>]
                   ELSE None]
RefinesPublication == Publishing!Spec

\* docs/manifest-format.md:47: a failed run still writes a manifest, "so a
\* failure is always recorded".
FailureRecorded ==
    \A j \in Jobs : pc[j] = "error" /\ span[j].mode = "single" =>
        LET m == manifest[date[j]] IN m # None /\ m.job = j /\ ~m.success
=============================================================================
