------------------------------- MODULE Curate -------------------------------
(***************************************************************************)
(* The curate job (export/cmd/curate): one task replaces one event_date of *)
(* the Iceberg table trip_events_curated by a copy of what trip_events     *)
(* holds for it, compares count and checksum of the two, and leaves a      *)
(* manifest.  The raw table belongs to others: exports and erasures change *)
(* it while the task runs.  Tasks may overlap: the schedule and a manual   *)
(* CURATE_DATE are all that starts them.                                   *)
(***************************************************************************)
EXTENDS Integers, FiniteSets, FiniteSetsExt

CONSTANTS
    RawCopies,      \* the rows trip_events may hold, each with its own identity
    RawID,          \* trip_id of each
    RawDate,        \* event_date of each
    Dates,          \* the event dates
    CurateTasks,    \* the curate tasks that may be started
    CurateFaults,   \* a subset of CurateFaultKinds
    None            \* no manifest, no date, no task

CurateFaultKinds == {"athena", "late", "s3", "crash"}

ASSUME CurateAssumption ==
    /\ IsFiniteSet(RawCopies) /\ IsFiniteSet(CurateTasks)
    /\ RawID \in [RawCopies -> Nat \ {0}] /\ RawDate \in [RawCopies -> Dates]
    /\ CurateFaults \subseteq CurateFaultKinds
    /\ None \notin Dates \cup CurateTasks

VARIABLES
    raw,                \* rows of trip_events
    curated,            \* rows of trip_events_curated
    curateInflight,     \* Athena statements whose caller no longer waits
    curateManifest,     \* export-manifests/{date}/trip_events_curated.json
    cpc,                \* control state of each task
    runDate,            \* CURATE_DATE of the task
    reading,            \* the raw rows its INSERT ... SELECT copies
    rec,                \* rawCount, rawSum, curatedCount, curatedSum
    lastCurator,        \* history: the task that last changed a date
    steady              \* history: tasks that found, and left, their date of
                        \* trip_events as it is now

curateTable == <<curated, curateInflight, lastCurator>>
curateLocals == <<cpc, runDate, reading, rec>>
curateVars == <<curateTable, curateManifest, curateLocals, steady>>
vars == <<raw, curateVars>>

-----------------------------------------------------------------------------
\* A row of the curated table: the raw row it copies and the task whose INSERT
\* wrote it.
CuratedCopies == [src : RawCopies, task : CurateTasks]
CuratedOf(c, R) == {[src |-> r, task |-> c] : r \in R}

RawRows(d) == {r \in raw : RawDate[r] = d}
CuratedRows(d) == {k \in curated : RawDate[k.src] = d}

RawSum(R) == MapThenSumSet(LAMBDA r : RawID[r], R)
CuratedSum(K) == MapThenSumSet(LAMBDA k : RawID[k.src], K)

NoCounts == [rawCount |-> 0, rawSum |-> 0, count |-> 0, sum |-> 0]
CurateKinds == {"delete", "insert"}
CurateStatements == [kind : CurateKinds, task : CurateTasks, date : Dates,
                     rows : SUBSET RawCopies]
CurateManifests == [task : CurateTasks, rowCount : Nat, checksum : Nat,
                    success : BOOLEAN]

CurateExits == {"ok", "error", "crashed"}
CuratePCs == {"off", "rawcount", "rawsum", "delete", "select", "insert",
              "failed", "count", "sum", "manifest"} \cup CurateExits
Curating(c) == cpc[c] \notin {"off"} \cup CurateExits

CurateTypeOK ==
    /\ raw \subseteq RawCopies
    /\ curated \subseteq CuratedCopies
    /\ curateInflight \subseteq CurateStatements
    /\ curateManifest \in [Dates -> CurateManifests \cup {None}]
    /\ cpc \in [CurateTasks -> CuratePCs]
    /\ runDate \in [CurateTasks -> Dates \cup {None}]
    /\ reading \in [CurateTasks -> SUBSET RawCopies]
    /\ rec \in [CurateTasks -> [rawCount : Nat, rawSum : Nat,
                                count : Nat, sum : Nat]]
    /\ lastCurator \in [Dates -> CurateTasks \cup {None}]
    /\ steady \subseteq CurateTasks

CurateInit ==
    /\ curated = {} /\ curateInflight = {}
    /\ curateManifest = [d \in Dates |-> None]
    /\ cpc = [c \in CurateTasks |-> "off"]
    /\ runDate = [c \in CurateTasks |-> None]
    /\ reading = [c \in CurateTasks |-> {}]
    /\ rec = [c \in CurateTasks |-> NoCounts]
    /\ lastCurator = [d \in Dates |-> None]
    /\ steady = {}

-----------------------------------------------------------------------------
\* Others replace what the raw table holds.
RawStep ==
    steady' = {c \in steady : \A r \in (raw \cup raw') \ (raw \cap raw') :
                                 RawDate[r] # runDate[c]}

RawChanges(R) ==
    /\ R # raw /\ raw' = R
    /\ RawStep
    /\ UNCHANGED <<curateTable, curateManifest, curateLocals>>

CurateEffect(s) ==
    /\ curated' = IF s.kind = "delete" THEN curated \ CuratedRows(s.date)
                  ELSE curated \cup CuratedOf(s.task, s.rows)
    /\ lastCurator' = [lastCurator EXCEPT ![s.date] = s.task]

CurateAthenaEnds(s) ==
    /\ s \in curateInflight
    /\ curateInflight' = curateInflight \ {s}
    /\ CurateEffect(s) \/ UNCHANGED <<curated, lastCurator>>
    /\ UNCHANGED <<raw, curateManifest, curateLocals, steady>>

-----------------------------------------------------------------------------
CurateStep(c, from, to) == cpc[c] = from /\ cpc' = [cpc EXCEPT ![c] = to]

\* The task ends; its locals are gone.
CurateExit(c, from, exit) ==
    /\ CurateStep(c, from, exit)
    /\ reading' = [reading EXCEPT ![c] = {}]
    /\ rec' = [rec EXCEPT ![c] = NoCounts]
    /\ UNCHANGED runDate

AthenaFails == CurateFaults \cap {"athena", "late"} # {}

\* Faulty variant: no date when CURATE_DATE is not set.
StartCurateUndated(c, d) ==
    /\ CurateStep(c, "off", "rawcount")
    /\ UNCHANGED <<raw, curateTable, curateManifest, runDate, reading, rec,
                   steady>>

\* loadConfig: CURATE_DATE, or yesterday.
StartCurate(c, d) ==
    /\ CurateStep(c, "off", "rawcount")
    /\ runDate' = [runDate EXCEPT ![c] = d]
    /\ UNCHANGED <<raw, curateTable, curateManifest, reading, rec, steady>>

\* One of the four reconciliation queries.
Query(c, from, to, field, value) ==
    /\ \/ /\ CurateStep(c, from, to)
          /\ rec' = [rec EXCEPT ![c][field] = value]
          /\ UNCHANGED <<runDate, reading>>
       \/ AthenaFails /\ CurateExit(c, from, "error")
    /\ UNCHANGED <<raw, curateTable, curateManifest>>

CountRaw(c) ==
    /\ Query(c, "rawcount", "rawsum", "rawCount",
             Cardinality(RawRows(runDate[c])))
    /\ steady' = steady \cup {c}
SumRaw(c) ==
    /\ Query(c, "rawsum", "delete", "rawSum", RawSum(RawRows(runDate[c])))
    /\ UNCHANGED steady
CountCurated(c) ==
    /\ Query(c, "count", "sum", "count", Cardinality(CuratedRows(runDate[c])))
    /\ UNCHANGED steady
SumCurated(c) ==
    /\ Query(c, "sum", "manifest", "sum", CuratedSum(CuratedRows(runDate[c])))
    /\ UNCHANGED steady

\* commitToCurated: DELETE, then INSERT ... SELECT, whose SELECT sees one
\* snapshot of the raw table and whose rows are committed later.
CuratedStatement(c, kind, next) ==
    LET s == [kind |-> kind, task |-> c, date |-> runDate[c],
              rows |-> reading[c]]
    IN  /\ \/ /\ CurateStep(c, kind, next)
              /\ CurateEffect(s)
              /\ UNCHANGED curateInflight
           \/ /\ CurateStep(c, kind, "failed")
              /\ UNCHANGED <<curated, lastCurator>>
              /\ \/ AthenaFails /\ UNCHANGED curateInflight
                 \/ /\ "late" \in CurateFaults
                    /\ curateInflight' = curateInflight \cup {s}
        /\ UNCHANGED <<raw, curateManifest, runDate, reading, rec, steady>>

DeleteCurated(c) == CuratedStatement(c, "delete", "select")
SelectRaw(c) ==
    /\ CurateStep(c, "select", "insert")
    /\ reading' = [reading EXCEPT ![c] = RawRows(runDate[c])]
    /\ UNCHANGED <<raw, curateTable, curateManifest, runDate, rec, steady>>
InsertCurated(c) == CuratedStatement(c, "insert", "count")

\* Faulty variant: the curated table may hold more than the raw one.
CuratedAtLeast(c) == /\ rec[c].rawCount <= rec[c].count
                     /\ rec[c].rawSum <= rec[c].sum

\* rec.Match
CuratedMatch(c) == /\ rec[c].rawCount = rec[c].count
                   /\ rec[c].rawSum = rec[c].sum

PutCurateManifest(c, success) ==
    curateManifest' = [curateManifest EXCEPT ![runDate[c]] =
        [task |-> c, rowCount |-> rec[c].count, checksum |-> rec[c].sum,
         success |-> success]]

\* The upload of a manifest: a failure is only logged.
UploadCurateManifest(c, success) ==
    /\ \/ PutCurateManifest(c, success)
       \/ "s3" \in CurateFaults /\ UNCHANGED curateManifest
    /\ UNCHANGED <<raw, curateTable, steady>>

CurateFailed(c) ==
    CurateExit(c, "failed", "error") /\ UploadCurateManifest(c, FALSE)

\* Faulty variant: the manifest says success before the comparison is made.
CurateUnchecked(c) ==
    /\ CurateExit(c, "manifest", IF CuratedMatch(c) THEN "ok" ELSE "error")
    /\ UploadCurateManifest(c, TRUE)

CurateReconcile(c) ==
    /\ CurateExit(c, "manifest", IF CuratedMatch(c) THEN "ok" ELSE "error")
    /\ UploadCurateManifest(c, CuratedMatch(c))

\* The task is killed; the statement it waited for may go on, and the manifest
\* it was uploading may be there.
CrashCurate(c) ==
    /\ "crash" \in CurateFaults /\ Curating(c)
    /\ CurateExit(c, cpc[c], "crashed")
    /\ \/ UNCHANGED <<curateInflight, curateManifest>>
       \/ /\ "late" \in CurateFaults /\ cpc[c] \in CurateKinds
          /\ curateInflight' = curateInflight \cup
                {[kind |-> cpc[c], task |-> c, date |-> runDate[c],
                  rows |-> reading[c]]}
          /\ UNCHANGED curateManifest
       \/ /\ \/ cpc[c] = "failed" /\ PutCurateManifest(c, FALSE)
             \/ cpc[c] = "manifest" /\ PutCurateManifest(c, CuratedMatch(c))
          /\ UNCHANGED curateInflight
    /\ UNCHANGED <<raw, curated, lastCurator, steady>>

-----------------------------------------------------------------------------
CurateJobStep(c) ==
    \/ CountRaw(c) \/ SumRaw(c) \/ DeleteCurated(c) \/ SelectRaw(c)
    \/ InsertCurated(c) \/ CurateFailed(c)
    \/ CountCurated(c) \/ SumCurated(c) \/ CurateReconcile(c)

Init == raw \in SUBSET RawCopies /\ CurateInit

Next ==
    \/ \E R \in SUBSET RawCopies : RawChanges(R)
    \/ \E c \in CurateTasks : \/ \E d \in Dates : StartCurate(c, d)
                              \/ CurateJobStep(c) \/ CrashCurate(c)
    \/ \E s \in curateInflight : CurateAthenaEnds(s)

Spec == Init /\ [][Next]_vars

-----------------------------------------------------------------------------
(***************************************************************************)
(* Properties.                                                             *)
(***************************************************************************)
CopiesRaw(c, d) == CuratedRows(d) = CuratedOf(c, RawRows(d))

\* A curate task that reports success left the curated date a copy of the raw
\* one, row for row, until somebody touches either: whatever tasks overlap,
\* crash or leave statements behind (curate/main.go:113-159).
SteadyCopy ==
    \A c \in steady : LET d == runDate[c] IN
        cpc[c] = "ok" /\ lastCurator[d] = c => CopiesRaw(c, d)

\* A stored manifest that says success counts and sums rows of the raw table,
\* of which the curated date is a copy, until somebody touches either: also
\* when the task that wrote it was killed since (main.go:145-155).
CuratedEvidence ==
    \A d \in Dates : LET m == curateManifest[d] IN
        m # None /\ lastCurator[d] = m.task /\ m.task \in steady /\ m.success
            => /\ CopiesRaw(m.task, d)
               /\ m.rowCount = Cardinality(RawRows(d))
               /\ m.checksum = RawSum(RawRows(d))
=============================================================================
