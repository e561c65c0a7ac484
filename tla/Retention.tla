----------------------------- MODULE Retention ------------------------------
(***************************************************************************)
(* The export and the trim together: they share the Postgres table and the *)
(* export manifests, and nothing else.  What the export leaves in the lake *)
(* is all that remains of a date once trim dropped its partition.          *)
(*                                                                         *)
(* Neither program knows about the other's runs, nor when rows arrive, so  *)
(* whether a row can be lost depends on how they are used.  MaxLateRows    *)
(* bounds the rows that arrive after their event_date is over; OldExports  *)
(* tells whether dates older than the retention window are exported.       *)
(***************************************************************************)
EXTENDS Export

CONSTANTS RetentionDays, LookaheadDays, TrimFaults, TrimPeriod, OnTime,
          MaxLateRows, OldExports

ASSUME UseAssumption == MaxLateRows \in Nat /\ OldExports \in BOOLEAN
ASSUME TrimUseAssumption ==
    /\ \E first \in Dates : \A d \in Dates : first <= d
    /\ RetentionDays \in Nat \ {0} /\ LookaheadDays \in Nat \ {0}
    /\ TrimFaults \subseteq {"pg", "s3", "crash"}
    /\ None \notin Int

VARIABLES partitions, today, tpc, runDay, ensureDay, queue, counted, dropped,
          trimSummaries, missed,
          trimmed,      \* history: trips that trim removed from Postgres
          late          \* history: trips that arrived after their event_date

\* What GetObjectBytes and the parse of a manifest tell trim (main.go:155-175).
SuccessDates == {d \in Dates : manifest[d] # None /\ manifest[d].success}

T == INSTANCE Trim WITH evidence <- SuccessDates

trimJobVars == <<partitions, tpc, runDay, ensureDay, queue, counted, dropped,
                 trimSummaries, missed>>
exportVars == <<lakeVars, bucketVars, localVars, loopVars>>
allVars == <<vars, trimJobVars, today, trimmed, late>>

RetentionInit ==
    /\ Init
    /\ today = T!Min(Dates)
    /\ partitions = today .. today + LookaheadDays - 1
    /\ T!TrimInit
    /\ trimmed = {} /\ late = {}

RowLands(t) ==
    /\ EventDate[t] <= today
    /\ t \notin trimmed
    /\ RowArrives(t)
    /\ late' = IF EventDate[t] = today THEN late ELSE late \cup {t}
    /\ Cardinality(late') <= MaxLateRows
    /\ UNCHANGED <<trimJobVars, today, trimmed>>

\* A run takes dates that are over: the schedule takes yesterday.
StartExport(j, s) ==
    /\ s.last < today
    /\ OldExports \/ s.first >= today - RetentionDays
    /\ StartTask(j, s)
    /\ UNCHANGED <<trimJobVars, today, trimmed, late>>

ExportStep ==
    /\ \/ \E j \in Jobs : JobStep(j) \/ Crash(j)
       \/ \E s \in inflight : AthenaEnds(s)
    /\ UNCHANGED <<trimJobVars, today, trimmed, late>>

TrimJobStep ==
    /\ UNCHANGED exportVars
    /\ T!StartTrim \/ T!TrimStep \/ T!CrashTrim
    /\ trimmed' = trimmed \cup (pg \ pg')
    /\ UNCHANGED <<today, late>>

\* No task is up when the day changes: runs take minutes, the schedules lie
\* in the morning.
NextDay ==
    /\ today + 1 \in Dates
    /\ tpc = "idle" /\ \A j \in Jobs : ~Running(j)
    /\ today' = today + 1
    /\ UNCHANGED <<vars, trimJobVars, trimmed, late>>

RetentionNext ==
    \/ \E t \in TripIDs : RowLands(t)
    \/ \E j \in Jobs, s \in Spans : StartExport(j, s)
    \/ ExportStep
    \/ TrimJobStep
    \/ NextDay

RetentionSpec == RetentionInit /\ [][RetentionNext]_allVars

-----------------------------------------------------------------------------
\* A row that came on its event_date and that trim removed from Postgres is in
\* the lake, and stays there: the manifest of the last run on a date, written
\* also when that run failed in the middle of its commit, is what trim goes by
\* (trim/main.go:2-5).
TrimmedRowsInLake == trimmed \ late \subseteq {c.id : c \in lake}

\* What a successful run read is in Postgres or in the lake ever after: rows
\* that arrive late, a later run of the date, one that fails in the middle, and
\* trim, in whatever order, lose none of them (trim/main.go:155-182).  Rows that
\* arrive after the last run of their date are dropped unread: no manifest
\* claims those.
ExportedRowsKept ==
    \A j \in Jobs, d \in Dates : RunSucceeded(j, d) =>
        staged[<<j, d>>] \subseteq pg \cup {c.id : c \in lake}

\* runbooks/backfill.md:41: re-running a range is idempotent, "row counts
\* should stay the same": a successful run leaves a date with at least the
\* rows that an earlier successful run of the date recorded.
RerunKeepsRowCount ==
    [][\A d \in SuccessDates :
          manifest'[d] # None /\ manifest'[d].success
              => manifest'[d].rowCount >= manifest[d].rowCount]_allVars
=============================================================================
