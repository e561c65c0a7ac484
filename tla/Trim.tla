-------------------------------- MODULE Trim --------------------------------
(***************************************************************************)
(* The weekly trim job (export/cmd/trim): it creates the daily partitions  *)
(* of trip_events that will be needed soon, and drops those older than the *)
(* retention window whose export manifest in S3 says success.              *)
(*                                                                         *)
(* A row that reaches Postgres goes to the partition of its event_date, or *)
(* to trip_events_default when there is none; Postgres refuses to create a *)
(* partition while the default one holds rows of that date.  So the rows   *)
(* in the default partition are those whose date has no partition.         *)
(*                                                                         *)
(* The job only reads manifests: evidence is the set of dates whose        *)
(* manifest is there, parses, and says success; all others are skipped.    *)
(* Runs follow each other (a weekly schedule, runs of minutes).  The       *)
(* schedule only starts them: a run that fails is not tried again before   *)
(* the next one is due.                                                    *)
(***************************************************************************)
EXTENDS Integers, FiniteSets, FiniteSetsExt

CONSTANTS
    TripIDs,        \* primary keys of trip_events
    Dates,          \* event dates and calendar days, consecutive integers
    EventDate,      \* event_date of each trip
    RetentionDays,  \* TRIM_RETENTION_DAYS
    LookaheadDays,  \* TRIM_LOOKAHEAD_DAYS
    TrimFaults,     \* which faults happen, a subset of {"pg", "s3", "crash"}
    None            \* no date, no summary

ASSUME TrimAssumption ==
    /\ Dates \subseteq Int
    /\ \E first \in Dates : \A d \in Dates : first <= d
    /\ IsFiniteSet(TripIDs)
    /\ EventDate \in [TripIDs -> Dates]
    /\ RetentionDays \in Nat \ {0}
    /\ LookaheadDays \in Nat \ {0}
    /\ TrimFaults \subseteq {"pg", "s3", "crash"}
    /\ None \notin Int

VARIABLES
    pg,             \* trips in the Postgres table
    partitions,     \* dates that have a partition
    evidence,       \* dates with a success manifest in S3
    today,          \* the calendar day, UTC
    tpc,            \* control state of the trim task
    runDay,         \* the day its run started, "today" in the code
    ensureDay,      \* next day of the loop of ensureFuturePartitions
    queue,          \* listed partitions the loop has still to look at
    counted,        \* count(*) taken before the drop
    dropped,        \* PartitionsDropped of the TrimSummary in memory
    trimSummaries,  \* trim/{run_date}/summary.json
    missed          \* history: days of runs since the last one whose ensure loop
                    \* came through

localVars == <<runDay, ensureDay, queue, counted, dropped>>
trimVars == <<partitions, tpc, localVars, trimSummaries, missed>>
vars == <<pg, evidence, today, trimVars>>

Drops == [date : Dates, rowCount : 0..Cardinality(TripIDs)]
TrimSummaries == [dropped : SUBSET Drops, success : BOOLEAN]

RowsOf(d) == {t \in pg : EventDate[t] = d}
InDefault == {t \in pg : EventDate[t] \notin partitions}

\* Faulty variant: the cutoff day itself is trimmed.
CandidatesAtCutoff == {d \in partitions \cap Dates : d <= runDay - RetentionDays}

\* Faulty variant: the default partition passes for a dated one.
CandidatesWithDefault ==
    {d \in partitions \cap Dates : d < runDay - RetentionDays} \cup {None}

\* Faulty variant: only the date that has just left the window.
CandidatesNewest == {d \in partitions \cap Dates : d = runDay - RetentionDays - 1}

\* The partitions the loop acts on: dated ones, older than the cutoff.
Candidates == {d \in partitions \cap Dates : d < runDay - RetentionDays}

TrimTypeOK ==
    /\ pg \subseteq TripIDs
    /\ partitions \subseteq Int
    /\ evidence \subseteq Dates
    /\ today \in Dates
    /\ tpc \in {"idle", "ensure", "list", "manifest", "count", "drop",
                "summary", "failed"}
    /\ runDay \in Dates /\ ensureDay \in Int
    /\ queue \subseteq Dates
    /\ counted \in 0..Cardinality(TripIDs)
    /\ dropped \subseteq Drops
    /\ trimSummaries \in [Dates -> TrimSummaries \cup {None}]
    /\ missed \in Nat

TrimInit ==
    /\ tpc = "idle" /\ runDay = today /\ ensureDay = today
    /\ queue = {} /\ counted = 0 /\ dropped = {}
    /\ trimSummaries = [d \in Dates |-> None]
    /\ missed = 0

-----------------------------------------------------------------------------
Goto(label) == tpc' = label
Step(from, to) == tpc = from /\ Goto(to)

\* The end of a run, with its locals.
ForgetLocals == /\ queue' = {} /\ counted' = 0 /\ dropped' = {}
                /\ ensureDay' = runDay

\* finishWithError: the rest of the run is given up.
Fails(from, fault) == fault \in TrimFaults /\ Step(from, "failed")

StartTrim ==
    /\ Step("idle", "ensure")
    /\ runDay' = today /\ ensureDay' = today
    /\ missed' = IF today = runDay THEN missed ELSE missed + 1
    /\ UNCHANGED <<pg, queue, counted, dropped, partitions, trimSummaries>>

\* One iteration of ensureFuturePartitions: the existence check and CREATE.
CreatePartition(d) ==
    IF d \in partitions THEN UNCHANGED partitions
    ELSE /\ \A t \in InDefault : EventDate[t] # d
         /\ partitions' = partitions \cup {d}

\* Faulty variant: the loop ends a day early.
EnsureDayShort ==
    /\ tpc = "ensure"
    /\ \/ /\ ensureDay < runDay + LookaheadDays - 1
          /\ CreatePartition(ensureDay)
          /\ ensureDay' = ensureDay + 1
          /\ UNCHANGED <<tpc, missed>>
       \/ /\ ensureDay >= runDay + LookaheadDays - 1
          /\ Goto("list")
          /\ missed' = 0
          /\ UNCHANGED <<partitions, ensureDay>>
    /\ UNCHANGED <<pg, runDay, queue, counted, dropped, trimSummaries>>

EnsureDay ==
    /\ tpc = "ensure"
    /\ \/ /\ ensureDay < runDay + LookaheadDays
          /\ CreatePartition(ensureDay)
          /\ ensureDay' = ensureDay + 1
          /\ UNCHANGED <<tpc, missed>>
       \/ /\ ensureDay < runDay + LookaheadDays
          /\ \E t \in InDefault : EventDate[t] = ensureDay
          /\ Goto("failed")
          /\ UNCHANGED <<partitions, ensureDay, missed>>
       \/ /\ ensureDay < runDay + LookaheadDays
          /\ Fails("ensure", "pg")
          /\ CreatePartition(ensureDay) \/ UNCHANGED partitions
          /\ UNCHANGED <<ensureDay, missed>>
       \/ /\ ensureDay = runDay + LookaheadDays
          /\ Goto("list")
          /\ missed' = 0
          /\ UNCHANGED <<partitions, ensureDay>>
    /\ UNCHANGED <<pg, runDay, queue, counted, dropped, trimSummaries>>

ListPartitions ==
    /\ \/ Step("list", "manifest") /\ queue' = Candidates
       \/ Fails("list", "pg") /\ UNCHANGED queue
    /\ UNCHANGED <<pg, partitions, runDay, ensureDay, counted, dropped,
                   trimSummaries, missed>>

\* Faulty variant: a date without evidence ends the loop.
CheckManifestStops ==
    /\ tpc = "manifest" /\ queue # {}
    /\ LET d == Min(queue) IN
       IF d \in evidence
       THEN Goto("count") /\ UNCHANGED queue
       ELSE Goto("summary") /\ queue' = {}
    /\ UNCHANGED <<pg, partitions, runDay, ensureDay, counted, dropped,
                   trimSummaries, missed>>

\* GET the manifest of the next date (the list is ordered by name, that is by
\* date); only success leads on to the drop.
CheckManifest ==
    /\ tpc = "manifest" /\ queue # {}
    /\ LET d == Min(queue) IN
       \/ d \in evidence /\ Goto("count") /\ UNCHANGED queue
       \/ d \notin evidence /\ queue' = queue \ {d} /\ UNCHANGED tpc
       \/ Fails("manifest", "s3") /\ UNCHANGED queue
    /\ UNCHANGED <<pg, partitions, runDay, ensureDay, counted, dropped,
                   trimSummaries, missed>>

\* dropPartition: the count and the DROP are separate statements.
CountPartition ==
    /\ \/ Step("count", "drop") /\ counted' = Cardinality(RowsOf(Min(queue)))
       \/ Fails("count", "pg") /\ UNCHANGED counted
    /\ UNCHANGED <<pg, partitions, runDay, ensureDay, queue, dropped,
                   trimSummaries, missed>>

\* A DROP whose answer is lost may have happened: it fails the run.
DropPartition ==
    LET d == Min(queue)
        Gone == partitions' = partitions \ {d} /\ pg' = pg \ RowsOf(d)
    IN  /\ \/ /\ Step("drop", "manifest")
              /\ Gone
              /\ queue' = queue \ {d}
              /\ dropped' = dropped \cup {[date |-> d, rowCount |-> counted]}
           \/ /\ Fails("drop", "pg")
              /\ Gone \/ UNCHANGED <<pg, partitions>>
              /\ UNCHANGED <<queue, dropped>>
        /\ UNCHANGED <<runDay, ensureDay, counted, trimSummaries, missed>>

LoopDone ==
    /\ tpc = "manifest" /\ queue = {}
    /\ Goto("summary")
    /\ UNCHANGED <<pg, partitions, localVars, trimSummaries, missed>>

\* UploadTrimSummary; the key is the run's day, and losing it is only logged.
UploadTrimSummary ==
    /\ Step("summary", "idle") \/ Step("failed", "idle")
    /\ \/ trimSummaries' = [trimSummaries EXCEPT ![runDay] =
             [dropped |-> dropped, success |-> tpc = "summary"]]
       \/ "s3" \in TrimFaults /\ UNCHANGED trimSummaries
    /\ ForgetLocals
    /\ UNCHANGED <<pg, partitions, runDay, missed>>

CrashTrim ==
    /\ "crash" \in TrimFaults /\ tpc # "idle"
    /\ Goto("idle")
    /\ ForgetLocals
    /\ UNCHANGED <<pg, partitions, runDay, trimSummaries, missed>>

TrimStep == \/ EnsureDay \/ ListPartitions \/ CheckManifest \/ CountPartition
            \/ DropPartition \/ LoopDone \/ UploadTrimSummary

-----------------------------------------------------------------------------
(***************************************************************************)
(* The environment of the job when it is looked at alone: any row at any   *)
(* time, any change of a manifest, days that pass.                         *)
(***************************************************************************)
CONSTANTS
    TrimPeriod,     \* days between two trims on the schedule
    OnTime          \* whether the schedule is kept, rows arrive on their day, and
                    \* dates are exported once they are over

RowInserted(t) ==
    /\ t \notin pg
    /\ OnTime => EventDate[t] = today
    /\ pg' = pg \cup {t}
    /\ UNCHANGED <<evidence, today, trimVars>>

EvidenceChanges(d) ==
    /\ OnTime => d < today
    /\ evidence' = (evidence \cup {d}) \ (evidence \cap {d})
    /\ UNCHANGED <<pg, today, trimVars>>

\* On time: a run is started within TrimPeriod days of the one before.  How
\* that one ended, or whether it got anywhere, does not matter to the calendar.
DayPasses ==
    /\ today + 1 \in Dates
    /\ OnTime => today + 1 <= runDay + TrimPeriod
    /\ today' = today + 1
    /\ UNCHANGED <<pg, evidence, trimVars>>

Init ==
    /\ pg = {}
    /\ evidence = {}
    /\ today = Min(Dates)
    /\ partitions = today .. today + LookaheadDays - 1
    /\ TrimInit

Next ==
    \/ \E t \in TripIDs : RowInserted(t)
    \/ \E d \in Dates : EvidenceChanges(d)
    \/ DayPasses
    \/ (StartTrim \/ TrimStep \/ CrashTrim) /\ UNCHANGED <<evidence, today>>

Spec == Init /\ [][Next]_vars

\* The schedule starts a trim again and again; its calls return.
FairSpec ==
    /\ Spec
    /\ WF_vars(StartTrim /\ UNCHANGED <<evidence, today>>)
    /\ WF_vars(TrimStep /\ UNCHANGED <<evidence, today>>)

\* Rows in the default partition whose date the ensure loop would have to cover.
Blocked == \E t \in InDefault : EventDate[t] \in today .. today + LookaheadDays - 1

\* From some run on no call fails and no task is stopped.  A CREATE that the
\* default partition forbids fails all the same.
OutageEnds ==
    <>[][/\ tpc' = "failed" =>
               \/ tpc = "failed"
               \/ tpc = "ensure" /\ \E t \in InDefault : EventDate[t] = ensureDay
         /\ tpc' = "idle" => tpc \in {"idle", "summary", "failed"}]_vars
RecoverySpec == FairSpec /\ OutageEnds

-----------------------------------------------------------------------------
\* No step removes a row inside the retention window, or one whose partition
\* is not a dated one, whatever day it is by the time of the drop (main.go:148).
WindowKept ==
    [][\A t \in pg \ pg' : /\ EventDate[t] < today - RetentionDays
                           /\ EventDate[t] \in partitions]_vars

\* Rows that arrive on their day fall into trip_events_default only once the
\* runs of so many days in a row failed, or were stopped, in their ensure loop
\* that the lookahead of the last complete one does not reach over them to the
\* next run (main.go:206-209).  With a run a week and a lookahead of two weeks
\* one such run is enough.
FailedRunsAbsorbed ==
    [][InDefault' \subseteq InDefault
          \/ (missed + 1) * TrimPeriod >= LookaheadDays]_vars

\* A date past retention with lasting success evidence loses its partition
\* even when other dates have none, and after runs that failed half-way, with
\* partitions created and dropped unbeknown to them (main.go:154-182, 214-237):
\* unless rows of days to come are in the default partition, where they make
\* every later run fail before it drops anything.
OldDatesGo ==
    \A d \in Dates :
        d \in partitions /\ d < today - RetentionDays /\ d \in evidence
            ~> d \notin partitions \/ d \notin evidence \/ Blocked

\* sql/postgres/partition_trip_events.sql:46: the default partition is "a
\* safety net ... before cmd/trim has had a chance to pre-create that day's
\* partition", so trim still has that chance once a row fell into the net: a
\* run without Postgres or S3 errors does not fail.
SafetyNetHarmless == tpc # "failed"
=============================================================================
