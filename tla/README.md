# A verification project for the MTSAi data lake

The repository moves trip events from a Postgres table into an Iceberg table on
S3 that Athena reads and writes, one `event_date` at a time, and deletes them
from Postgres once they are safe in the lake. Its core is a handful of Go
programs, started as ECS tasks, that share Postgres, the lake and a bucket of
manifests, and that nothing keeps from running at the same time. Here they are
modelled in TLA+, checked with TLC, and the central claims about the export, the
erasure, the curation and the partition migration are proved with TLAPS.

## 1. Inventory

| component | state | operations | interacts with | properties that make it correct |
|---|---|---|---|---|
| export job, `export/cmd/export` | locals of one run; loop of a range | read, write Parquet, upload, commit, reconcile, manifest; range loop, summary | Postgres, bucket, lake, manifests | success only for an exact partition; every date of a range attempted and accounted for |
| lake commit, `internal/lake/iceberg.go` | staging external table | CREATE, DELETE, INSERT, deferred DROP | Athena | replace, never duplicate; clean-up does not hide the result |
| Athena runner and S3, `internal/lake` | none | start and poll a statement; get, put | Athena, S3 | an error may stand for a statement that goes on |
| manifests, `internal/manifest` | `export-manifests/{date}`, `backfill/{range}`, `trim/{day}` objects, overwritten by later runs | upload | read by trim | evidence tells the truth about the lake |
| reconciliation, `internal/reconcile` | none | compare count and sum | export | a mismatch fails the run |
| Postgres reader, Parquet writer, model | one cursor in one transaction | stream, write | export | one snapshot |
| configuration, `internal/config` | none | single date or range | export | the days of a range |
| trim job, `export/cmd/trim` | daily partitions, the default partition | create ahead, list, gate on the manifest, count, drop, summary | Postgres, manifests | nothing inside the window is dropped; nothing without evidence; old dates go |
| erasure job, `export/cmd/erasure` | raw and curated table, Iceberg snapshots, table properties, the record of the request | record, count, capture, DELETE, table properties, VACUUM, count, probe, record | lake, compaction, writers | erased rows are in no snapshot, and stay away |
| compaction job, `export/cmd/compact` | Iceberg snapshots | VACUUM of both tables, storage metrics | lake, erasure | content unchanged, enough history kept, the rest expired in the end |
| curate job, `export/cmd/curate` | curated table, its manifests | count and sum of raw, DELETE, INSERT ... SELECT, count and sum of curated, manifest | lake, exports, erasures | the curated date equals the raw one |
| partition migration, `sql/postgres/partition_trip_events.sql` | old and new table, the sequence | create, partition, copy, index, check by hand, swap | applications that insert | verified rows survive the swap; ids stay unique |
| schedules, alarms, permissions, `terraform/` | none | cron, alarm on exit codes | all jobs | a failure becomes visible |
| seed and query tools, `tools/` | none | test data | Postgres | - |

What is hard here: tasks overlap on a date; the DELETE and the INSERT of a
commit are two transactions; an Athena statement may outlive the poll that waits
for it, or the task; manifests are uploaded after the fact and their upload may
fail; rows arrive in Postgres while an export reads; trim acts on evidence that
was true earlier; day boundaries. `PROJECT.json` lists these hazards at their
lines, with the property that covers each, or the reason why none does yet.

## 2. Plan

1. `Export` with the abstract `Publication`: the claims everything else rests
   on. Done, with proofs.
2. `Trim` alone, then `Retention`, which composes `Export` and `Trim`. Done.
3. `Erasure` over a model of Iceberg snapshots with a clock, with the compaction
   beside it. Done, with proofs.
4. `Curate` alone, with proofs, then `Pipeline`, which composes it with `Export`.
   Done.
5. `PartitionMigration`. Done, with proofs.
6. Further theorems, each for every value of the constants. Done for every
   invariant that a run checks, for `WindowKept`, `FailedRunsAbsorbed`, `ErasedWhenTold` and the refinement
   of `Publication`.
7. Open: `TrimmedRowsInLake` where tasks may be killed outside their commits, and
   `ErasedStaysErased` where writers overlap but read nothing before the erasure's
   DELETE of the raw table.

## 3. Modules

### Export

One action per remote call of `runOnce` (main.go) and of `CommitToIceberg`
(iceberg.go), with the loop of `runBackfill` folded into `EndRun`, which is what
happens in the same local computation. A job is one task; its control state
`pc[j]` names the next call:

    off -> read -> upload -> create -> delete -> insert -> drop -> count -> sum
        -> manifest -> (next date | summary | ok | error)

A failing CREATE goes to `failed`; a failing DELETE or INSERT goes to `cleanup`,
which is the deferred DROP, and then to `failed`, which uploads the failure
manifest. A failing read, upload or query ends the run without a manifest. A
crash may end the task in any state; the statement it waited for may go on, and
the manifest or summary it was uploading may be there or not.

- `lake` is the set of row copies, each tagged with the job that inserted it, so
  that duplicates are visible. `Effect` is what a statement does when it commits. A
  statement is one step: Iceberg commits optimistically, so of two conflicting
  statements one fails, which the fault `athena` stands for.
- `AthenaRunner.Run` returns nil only for a statement that succeeded. The fault
  `late` is its other side: it returns an error (a failed poll) while the
  statement goes on in `inflight`; `AthenaEnds` commits or fails it at any later
  time, also after its task has gone. Fault `athena` is a statement that fails.
- `lastWriter` is a history variable: the job whose statement last changed a
  date. A job runs each of its dates once, so a job and a date identify a run.
- Rows are trip ids. Checksum and count are computed as the code does, so a wrong
  set of rows can have the right count or sum. The Go `int64` sum cannot overflow
  within the ids the table holds and is not bounded here.
- Durations, names of staging tables and keys (unique by a uuid), logs and the
  text of SQL are left out.

`Publication` is what an export promises of a date when runs follow each other:
clear, publish all at once, attest only what is there. `Export` refines it under
the mapping in `Publishing`.

### Trim

One action per statement or S3 call of the job's `run`. The default partition is
`InDefault`: the rows whose date has no partition. `evidence` is the set of
dates whose manifest is there, parses and says success, and may change between
any two steps. A CREATE or DROP that returns an error may have happened (its
answer was lost). `TrimPeriod` and `OnTime` describe the schedule, which only starts
a run each time it is due (terraform/modules/export-task/main.tf:713-722): a run that
fails or is killed is not tried again before the next one, and the days go on. `missed`
is a history variable: the days of runs since the last whose ensure loop came through.

### Retention

`Export` and `Trim` share `pg` and the manifests (`SuccessDates`). Two constants name
what departs from the intended use, because neither program checks it: `MaxLateRows`
bounds the rows that arrive after their date is over (the history variable `late`),
and `OldExports` allows exports of dates older than the window. A day ends when no
task of either kind is up.

### Erasure

Two Iceberg tables, raw and curated, each a set of snapshots that resolve
(`snaps`), a table property (`maxAge`) and a clock (`now`). A commit that changes
nothing makes no snapshot (main.go:178-182 says so, and depends on it); VACUUM
keeps the current snapshot and those no older than the property. A task goes

    off -> record -> (count -> capture -> delete -> alter -> vacuum -> after
        -> probe), for each table -> finish -> ok | error

where any failure of a table ends that table only, and the second one is
attempted all the same. `found` and `captured` are the locals of
`eraseFromTable`. An error result keeps no rows and no snapshot in the model: what
a failed result says of them is read by nobody. `StartErasure` takes an identifier
whose rows the identity service has removed from Postgres, unless
`Deviations` has `"postgresLater"`. The export and the curation are writers here, which
read (`read`) long before they commit; with `"overlap"` they work beside an
erasure, and erasures beside each other. The compaction (`cpc`) is the loop of
`compact/main.go` with its first failing VACUUM ending the run. Athena's errors reach
the time travel query like any other, where the code takes each of them for a missing
snapshot; the result's field `probe` tells which it was (`"missing"`, `"error"`).
Without `"overlap"` an erasure starts when no other is up, but a DELETE, ALTER TABLE or
VACUUM that an earlier attempt for the same identifier left in Athena may commit
beside it or after it.
Records are kept per identifier, whose last one counts; files, orphans and
position deletes are not modelled: a row is gone when no snapshot that resolves
holds it.

### Curate

One action per query and statement of the job's `run`; `INSERT ... SELECT` is two
steps, since its SELECT sees one snapshot of the raw table and its rows are
committed later. The raw table changes in any way at any time (`RawChanges`).
Each curated row carries the task that wrote it. `lastCurator` is the task whose
statement last changed a date; `steady` has the tasks whose raw date has not
changed since they counted it. Both are history variables: they say for whom a
claim can be expected to hold. The count and the sum are taken apart, as in
`countAndChecksum`.

### Pipeline

`Export` with an instance of `Curate` whose raw table is the export's lake.
`turns`, chosen at the start, tells the deployed schedule (FALSE: curations start at
any time after the first export did) from the one the documents describe (TRUE: they
wait for the export to end, and exports for them).

### PartitionMigration

One action per step of the SQL script as an operator runs it, with `Rerun` and a
rolled-back swap, beside applications that insert (`InsertTrip`) into whichever table
has the name, and lose numbers of the sequence (`InsertRolledBack`). Postgres refuses a
partition for rows that are in the default one (`CanPartition`), and no second row with
a number that is taken (`Duplicate`, the primary key). A swap that is rolled back leaves
the sequence where its `setval` set it, which no rollback undoes. A row has a
number of its own (`nth`), so that two rows with the same `trip_id` can be told
apart. The renaming of indexes and constraints is left out. The sequence is
assumed to stand at the highest id at the start, as after any insert by default.

## 4. Runs

| run | question | bounds |
|---|---|---|
| `export_overlap` | is a success ever reported for a wrong partition when tasks overlap, crash and leave statements behind? | 2 jobs at once, 1 date, 2 trips; faults pg, s3, late, crash |
| `export_serial` | do re-runs replace, do ranges account for each date, is `Publication` implemented, and does a run that met no failure end well? | 2 jobs one after the other, 2 dates with a trip each; faults athena, crash |
| `trim_anytime` | does trim keep the window whatever happens? | 4 days, 2 trips, all faults, evidence that changes |
| `trim_schedule` | does the lookahead absorb the failed and killed runs it reaches over, and do old dates go once an outage ends, unless the default partition blocks the trim, whatever failed, was killed or happened unanswered before? | 4 days, lookahead 3, a trim a day, 1 trip dated the fourth day; all faults; fairness |
| `retention` | is what trim dropped in the lake, and is a row that a successful run read ever lost, when rows arrive late and re-exports fail half-way? | 3 days, 2 trips, 2 exports, retention 1 day; failing statements, one late row |
| `re_export_after_trim` | is re-running a date idempotent after a trim? (no) | as `retention`, exports of old dates allowed, no late row, no faults |
| `erasure_alone` | is what an erasure tells erased in no snapshot, and does it stay away from the tables? | 2 erasures one after the other, 1 row, 2 tables, times 0 to 2, 3 snapshots a table; faults late, s3, crash; writers in between, statements of the first beside the second |
| `erasure_fades` | does the check of one snapshot vouch for the older ones when others commit and expire, and does history without live rows go in the end, whatever failed? | 1 erasure with writers beside it, 2 commits a table, times 0 to 2, weekly compactions that may fail; faults athena, crash, compact; fairness |
| `empty_erasure` | is there nothing to find when nothing was to be erased? (no) | 2 erasures one after the other, failing statements |
| `curate_overlap` | does a success stand for a copy when curations overlap and raw changes? | 2 curations, 1 date, 2 rows; faults late, s3, crash |
| `pipeline` | do two manifests that say success and agree on the rows stand for a delivered date, whenever the curation ran, and do curations that wait for the export deliver it? | 2 exports, 1 curation, 2 trips, failing statements, in any order and in turns |
| `migration` | do verified rows survive the swap, and ids stay unique? | 2 dates, 1 seeded row with id 2, 4 arrivals, ids to 7 |

Why the bounds are enough to be of interest: two tasks are what it takes to
interleave DELETE and INSERT; two trips let a wrong partition have the right
count or miss one row of two; two dates show that a backfill goes on after a
failure, and that a statement for one date leaves the other alone; three days
are a day of arrival, one of export and one of trim. For the erasure one row is
enough, because its properties only ask whether a snapshot holds rows of the
identifier; the retention of 60 seconds is age 0 and Athena's default is age 1, so
that a snapshot can be older than the first and not than the second. Seeded and
arriving rows of `migration` can have ids that add up to a third one's, so that a
count or a sum alone could mislead. `steady` and `lastCurator` cut down what the
curation promises, and every path to them is in the bounds of `curate_overlap`.
Deadlock checking is off where the system comes to rest by itself (all tasks
ended, last day reached).

**Further configurations.** Each of these states what a document or a comment of
the repository says, or what one would like to rely on, and TLC refutes it at once
with `tlc -config X.cfg M`; section 6 tells what each means.

| configuration | module | refuted | counterexample |
|---|---|---|---|
| `FailureRecorded.cfg` | `MCExport` | `FailureRecorded` | the reconciliation query fails, no manifest is written |
| `RetentionCrash.cfg` | `MCRetention` | `TrimmedRowsInLake` | a re-run killed between DELETE and INSERT, then a trim |
| `TrimStuck.cfg` | `MCTrim` | `SafetyNetHarmless` | runs that did not come through, a row in the default partition, then CREATE of its date fails |
| `ErasureRace.cfg` | `MCErasure` | `TimeTravelCannotResurface` | a commit between capture and DELETE |
| `ErasureProbe.cfg` | `MCErasure` | `BlockedMeansExpired` | the probe fails for another reason |
| `ErasureRecord.cfg` | `MCErasure` | `CompletionRecorded` | the upload of the final record fails |
| `RoutineVacuum.cfg` | `MCErasure` | `RoutineVacuumKeepsHistory` | a VACUUM of the compaction after an erasure |
| `PipelineTimers.cfg` | `MCPipeline` | `TimersDeliver` | a curation within the gap of a commit |
| `MigrationRerun.cfg` | `MCPartitionMigration` | `StepsRerunnable` | a row of a new date copied into the default partition |
| `MigrationSwap.cfg` | `MCPartitionMigration` | `SwapKeepsEveryRow` | a row that arrives between verification and swap |
| `MigrationIDs.cfg` | `MCPartitionMigration` | `TripIDsGloballyUnique` | the same row, then setval and an insert |

**Fairness.** `Trim!RecoverySpec` says that the weekly schedule starts the job
again, that its calls return, and that from some time on (`OutageEnds`) calls
succeed and no task is stopped, which is the only way the code can come through,
since it has no retry of its own. A CREATE of a partition for rows in the default
one fails all the same, and a trim cannot come through then: `OldDatesGo` ends at
`Blocked`.
`Erasure!FairSpec` says that time passes, that calls of an erasure return, that
the weekly compaction is started again and that its VACUUM of a table, tried
week after week, succeeds (strong fairness: a table may fail in many weeks).
No fairness is
assumed for rows, days, new export tasks, faults or crashes.

## 5. Proofs

Every invariant that a passing run checks is a theorem, and so are `WindowKept`,
`FailedRunsAbsorbed`, `ErasedWhenTold` and the refinement of `Publication`. A run shows its property for two
tasks and a few rows; the theorem holds for every set of trips, dates, tasks,
identifiers and rows, every retention, and every choice of faults but those its
hypothesis names. `PROJECT.json` lists each theorem with its property.

| module | theorems | hypothesis |
|---|---|---|
| `ExportProofs` | `TypeCorrect`, `SuccessIsExact`, `EvidenceIsAccurate`, `QuietLake`, `ExitCodesTell`, `SummariesAgree` | none |
| | `SerialRunsReplace`, `NoFalseAlarms`, `SerialRunsPublish` | `OneByOne` |
| `TrimProofs` | `TrimTypeCorrect`, `TrimKeepsWindow` | none |
| | `LookaheadAbsorbs` | `OnSchedule` |
| `RetentionProofs` | `TrimmedInLake`, `ExportedKept` | `Undisturbed` |
| `CurateProofs` | `CurateTypeCorrect`, `CurateSteadyCopy`, `CurateEvidenceHolds` | none |
| `PipelineProofs` | `ManifestsDeliver`, `TurnsDeliver` | none |
| `ErasureProofs` | `ErasureTypeCorrect`, `ErasureVerified` | none |
| | `AloneErasedWhenTold` | `"overlap" \notin Deviations` |
| | `AloneStaysErased` | `Deviations = {}` |
| `MigrationProofs` | `MigrationTypeCorrect`, `VerifiedSurvive`, `TripIDsStayUnique` | none |

The proofs rest on the named assumptions of the modules (those of `Export`,
`TrimAssumption`, `UseAssumption`, `TrimUseAssumption`, `CurateAssumption`,
`PipelineAssumption`, `ErasureAssumption`, `NoneIsNoResult`, `MigrationAssumption`): ids are positive and
finitely many, dates have no gaps and a first one, tasks are finitely many, retention and
lookahead are at least a day, `None` is none of the values it stands beside. TLC
evaluates them in each run of a module that extends theirs.

**Hypotheses.** They are what the deployment is meant to keep, not what any program
checks, and TLC shows that none can be dropped:

- `OneByOne` is one task at a time whose statements end before it does, which is
  what the comments of `iceberg.go` take for granted and the nightly schedule gives
  unless a backfill or an operator starts another, or a poll fails. Two overlapping
  tasks can leave both copies.
- `OnSchedule` is a run started every `TrimPeriod` days, whatever becomes of it, and rows
  that arrive on their day. The timer is weekly and the default lookahead 14 days
  (trim/main.go:87), so `LookaheadAbsorbs` promises an unused default partition until
  one run has failed, and no longer.
- `Undisturbed` is `OneByOne`, exports of dates that the window still holds, no task
  killed, and not both failing statements and failing uploads: then no commit
  that stopped in the middle leaves an older manifest standing that says success. With a
  crash alone, with both `athena` and `s3`, with `athena` and `late`, with two tasks at
  once, or with old exports, TLC finds `TrimmedRowsInLake` violated
  (`RetentionCrash.cfg` is the first of these). Trims may fail and be killed as they like.
- `"overlap"`: without it nobody else commits while an erasure
  runs (`ErasureRace.cfg`). `"postgresLater"`: Postgres lost the rows first, or the next
  export brings them back.

**Export.** *Success.* The claims speak of runs that have ended; the invariant
`SafeInv` follows a run on its way there. `LoopOK` is part of it because the types of
`date` and `span` depend on the control state. As long as no other job's statement
has touched the date since (`lastWriter`):

1. `CopiesThere`: from its INSERT on, the copies it inserted are in the lake;
2. `CountFresh`: the count it holds is the count of the partition;
3. `InflightSpent`: a statement left in Athena belongs to a run that has failed or
   is on the path where it will fail, because a lost answer is an error answer. So
   no leftover of its own can change a partition behind a success;
4. then equal counts leave no room for a copy that is not its own
   (`EqualCountsExact`): the copies are a subset of the partition with the same
   cardinality.

So the count alone carries the claim; the sum of ids is needed only once another
task has written. A run may tell of its success by its exit or by its manifest,
and a crash may come between the two: `Sealed` is either, `SealedExact` is what
it then has to keep true, and `EvidencePast` ties a manifest to a run that is
over. `StagedOfDate` keeps statements local to their date. For
`QuietLake`, `ExitInv` adds that every job that wrote a date, or has a statement
left that may, has a result for it, is on it, or has crashed, and that exit zero
means no failed result.

*Records.* Seen from the loop there are six kinds of steps. `ToldInv` says how far a
task has come in its range by the results it has, one a date and in order; exit zero is
decided on the very results. `TwiceInv` says that a manifest agrees with the result
of its run (`ResultsAgree`), although it is written first, and that a summary agrees
with the results of a task that changes none any more (`SummariesFinal`).

*One by one.* `SerialInv`: at most one task runs (`Alone`), the date it is about to fill
is empty (`Cleared`), and from DELETE to manifest it is the last that wrote the date
(`OwnsDate`); `Hidden` lists the steps no reader of the lake sees. For `NoFalseAlarms`,
`FilledInv` adds that the partition is what was staged and the sum it holds that of
the trips read. The checksum is a fold, so that needs facts of sums: `SumLemmas`
proves them from the library's fold over finite sets, by minimal counterexamples instead
of induction (a subset for which a sum does not exist has a least one). For the
refinement, `Content` is the number of copies of each trip and `Attested` what the
run staged whose manifest says success; `SerialRunsPublish` maps DELETE to a clearing,
INSERT to a publication, a success manifest to an attestation and every other step to
a stutter.

**Trim.** `TInv` says that what the loop has listed stays a partition older than the
cutoff of the run until its turn comes: only the loop drops partitions, and the day
of a run is never ahead of the calendar, so its cutoff is not either. A queue has
a least date because it is finite. For the default partition, `CoverOK` follows the
day `c` on which the last ensure loop that came through began: that loop's window, from
`c` on, still has its partitions from the day of the present run on, which is at most
`missed` periods after `c`, and today is at most one more. So today is in the window
as long as `(missed + 1) * TrimPeriod < LookaheadDays`.

**Retention** takes `SafeInv` and `SerialInv` of the export and, through an instance of
`TrimProofs`, `TInv` of the trim. A trip is `Owed` once it came on its day or a
run that read it has succeeded. `RInv` says: what is owed is in Postgres or
trimmed (`OwedInv`); a run that has read has read all that is owed of its date
(`ReadInv`), because exports work inside the window and trims outside (`WindowInv`);
a date with a success manifest has all that is owed of it in the lake, but for the
run that is between its DELETE and its INSERT or failure manifest (`KeptInv`,
`FailuresTold`); and trim drops only dates with such a manifest, at the moment of the
DROP (`DropInv`).

**Erasure.** `VerifiedMeansExpired` is about *every* snapshot up to the captured one
while the code looks at that one only. It holds because snapshots expire from the oldest
on: `HistoriesOK` says that the ids that resolve have no gap up to the current
one and that their times follow their ids, so VACUUM leaves a suffix, and if the
captured one is gone so are those before it. `TasksOK` says that what was captured is
not beyond the current id, so it is not made again. For erasures that run alone, `AInv`
adds the other half: what is committed after the capture holds no row of the subject
(`NewestClean`), since only this erasure's own statements commit, the late ones
included (`Alone`). `NewestClean` and an expired captured snapshot give
`AloneErasedWhenTold`. For `AloneStaysErased`, `LoopOrder` says which results are there
at each point of the loop, and `ErasedSoFar` that the raw table, once reported erased,
stays without the subject, because writers take its rows from a Postgres that has none
(`SubjectGone`); so curations, which read the raw table, have none to write either,
and the curated table stays as the erasure left it. A success for the curated
table alone would not last, because a curation may copy the rows again.

**Curate.** The invariant `CInv` follows a task through its queries, as long as it is
`steady` and the last to write its date: its count of the raw date is fresh; from its
INSERT on, the curated date holds a copy of what it selected, and equal counts then
leave no room for anything else (`CountTells`). The sum is never needed for that; that
it is a number at all is part of `CurateTypeCorrect`, by `SumLemmas`.

**Pipeline.** Each step is a step, or none, of the export and of the curation, whose
invariants hold side by side (`PipelineInv`, with an instance of `CurateProofs`); the
two claims meet in the raw rows. A curation that came inside the gap of an export, or before
it, copied something else than the export's rows, or nothing; `ReadInv` says what that
can be. Rows only arrive in Postgres, so that of two reads of a date one contains the
other (`ReadsNested`); and what a curation sees, holds or has copied has all rows of an
export or none (`Whole`), because an export inserts them in one statement and takes
them away in one. When no trip is there twice, the curated rows are those of one export
and one curation (`OfOneRun`), hence one of the nested reads, and equal counts leave
only the one that the manifest speaks of. In turns, `TurnsInv` says that the raw date does not
change while a curation is there, so that every curation is steady.

**Migration.** `MInv` says that until the swap the new table's rows are rows of the
old one, that ids in the table in use are unique, by the primary key before the swap
and after it because `setval` put the sequence at or beyond all of them, and that
the rows which a verification with equal counts saw are all
in the new table, before the swap and after it.

**Only model-checked**: liveness (`OldDatesGo`, `HistoryFades`), which is out of the
prover's reach together with ENABLED. The properties of the violation runs and of the further
configurations are false and have no theorem.

## 6. What the project found

- *A failed run may leave no manifest* (`FailureRecorded.cfg`).
  `docs/manifest-format.md:47` promises one; a run that fails to read, to upload
  or to query for its reconciliation returns before. An older success manifest
  stays in place, and trim goes by it. `TrimmedRowsInLake` still holds, because
  these failures change nothing in the lake that the manifest speaks of, and the
  failures of the commit do write a failure manifest.
- *A killed re-run can lose rows* (`RetentionCrash.cfg`). Between its DELETE and its
  INSERT the date is empty and no failure manifest is written; the success manifest of
  the earlier run stays, and trim drops the partition by it. The same comes of a
  failing commit whose failure manifest is not uploaded. `trim/main.go:2-5` promises
  a manifest that confirms the export, which it has; `TrimmedInLake` is proved
  where neither happens.
- *The default partition blocks trim* (`TrimStuck.cfg`). Once a row is in it, the
  partition of its date cannot be created, and each trim run whose lookahead
  covers the date fails before it drops anything. With weekly runs and the default
  lookahead of 14 days one failed or killed run is enough: the partitions of the last
  good one end with the Saturday before the second Sunday, and a row of that Sunday
  which arrives before 04:00, when the next run is due, is in the default partition.
  That run then fails at its first CREATE, the rows of its week follow into the default
  partition, and so it goes on each Sunday on which a row arrives before 04:00, until
  somebody empties that partition by hand. `trim/main.go:206-209` promises an unused
  default partition "in normal operation"; `FailedRunsAbsorbed` says how far that goes.
- *Re-running is not idempotent after a trim* (`re_export_after_trim`). The run
  reads nothing, replaces the date by nothing, reconciles 0 with 0 and reports
  success.

- *An erasure that finds nothing proves nothing* (`empty_erasure`). With no live row
  it reports success without VACUUM or probe; after an erasure that failed behind
  its DELETE the retry does just that, and the older snapshots still hold the
  rows. They go only with a later compaction (`HistoryFades`).
- *A commit during an erasure* (`ErasureRace.cfg`), between the capture of the latest
  snapshot and the DELETE, leaves a snapshot that holds the rows, is too young
  for VACUUM and is not probed. `ErasedWhenTold` holds when nobody else commits, but
  for what an earlier attempt left in Athena.
- *Any error is proof* (`ErasureProbe.cfg`): a throttled query blocks time travel on
  record. `VerifiedMeansExpired` and `ErasedWhenTold` leave out the tables whose check
  ended so; nothing in the record tells them from the others.
- *The final record may be missing* (`ErasureRecord.cfg`) although the exit code is
  zero.
- *The tightened properties stay* (`RoutineVacuum.cfg`): no later VACUUM keeps more than
  60 seconds.
- *Curation does not wait for the export* (`PipelineTimers.cfg`): within the gap of a
  commit it copies an empty date, reconciles 0 with 0 and succeeds. In turns
  it delivers (`CuratedAfterExport`). On timers only the two manifests together tell: when
  both say success and count the same rows, the date is delivered, whenever the
  curation ran (`AgreeingManifestsDeliver`). Nothing in the code compares them.
- *The migration* is not re-runnable once a row of a new date was copied into
  the default partition (`MigrationRerun.cfg`); its verification is of an earlier
  moment, and rows that arrive before the swap stay behind (`MigrationSwap.cfg`); the
  sequence is then set back behind their ids (`MigrationIDs.cfg`). What does hold is
  that the rows that were counted survive, and that ids in `trip_events` are unique.

Limits of what holds, as deliberate conditions in the properties:
`SuccessMeansExact` says nothing once another task's statement has touched the
date (two overlapping tasks can leave both copies, but then one of them exits
non-zero: `QuietLakeIsExact`); `retention` runs within `Undisturbed` (section 5), and
`TrimmedRowsInLake` leaves out the rows that arrived after their date was
over, which trim drops unread when no run of the date follows
(`ExportedRowsKept`: one that some successful run read is never lost). `ErasedStaysErased` is for
erasures that start once Postgres has lost the rows and that no writer overlaps:
a curation that read the raw table before may write rows back, and an export may
read them from Postgres.

## 7. Not modelled

Required environment variables and parse errors end a process before it has any
effect. Parquet encoding, IAM, buckets, alarms, networking, video and report assets
have no behaviour to check. The sizes that the compaction publishes are not
state of the system. Files are not modelled: the staging Parquet objects of an
export, which outlive the staging table and which an erasure does not look at,
and the files VACUUM removes. The seed and query tools are sequential test
tooling: the first fills a test table once, the second prints the answer of one
query.
