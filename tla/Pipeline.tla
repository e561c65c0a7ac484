------------------------------ MODULE Pipeline ------------------------------
(***************************************************************************)
(* The export and the curation together: the curate job copies what the    *)
(* exports leave in trip_events.  They share the Iceberg table, each on a  *)
(* timer of its own (export-task/main.tf), and neither looks at the other: *)
(* curate reads no manifest.                                               *)
(*                                                                         *)
(* A curation runs on its timer, which goes off after that of the export   *)
(* whatever became of the export; or (turns) it is started once the export *)
(* has ended, and exports wait for it in turn.                             *)
(***************************************************************************)
EXTENDS Export

CONSTANTS CurateTasks, CurateFaults

VARIABLES curated, curateInflight, curateManifest, cpc, runDate, reading, rec,
          lastCurator, steady,
          turns         \* whether the two wait for each other

C == INSTANCE Curate WITH
    raw <- lake,
    RawCopies <- Copies,
    RawID <- [k \in Copies |-> k.id],
    RawDate <- [k \in Copies |-> EventDate[k.id]]

ASSUME PipelineAssumption ==
    /\ IsFiniteSet(CurateTasks)
    /\ CurateFaults \subseteq C!CurateFaultKinds
    /\ None \notin Dates \cup CurateTasks

curateState == <<curated, curateInflight, curateManifest, cpc, runDate,
                 reading, rec, lastCurator>>
pipelineVars == <<vars, curateState, steady, turns>>

PipelineInit == Init /\ C!CurateInit /\ turns \in BOOLEAN

StartExport(j, s) ==
    /\ turns => \A c \in CurateTasks : ~C!Curating(c)
    /\ StartTask(j, s)
    /\ UNCHANGED <<curateState, steady, turns>>

ExportStep ==
    /\ \/ \E t \in TripIDs : RowArrives(t)
       \/ \E j \in Jobs : JobStep(j) \/ Crash(j)
       \/ \E s \in inflight : AthenaEnds(s)
    /\ C!RawStep
    /\ UNCHANGED <<curateState, turns>>

StartCuration(c, d) ==
    /\ \E j \in Jobs : pc[j] # "off"
    /\ turns => inflight = {} /\ \A j \in Jobs : ~Running(j)
    /\ C!StartCurate(c, d)
    /\ UNCHANGED <<vars, turns>>

CurationStep ==
    /\ \/ \E c \in CurateTasks : C!CurateJobStep(c) \/ C!CrashCurate(c)
       \/ \E s \in curateInflight : C!CurateAthenaEnds(s)
    /\ UNCHANGED <<vars, turns>>

PipelineNext ==
    \/ \E j \in Jobs, s \in Spans : StartExport(j, s)
    \/ ExportStep
    \/ \E c \in CurateTasks, d \in Dates : StartCuration(c, d)
    \/ CurationStep

PipelineSpec == PipelineInit /\ [][PipelineNext]_pipelineVars

-----------------------------------------------------------------------------
CuratedIDs(d) == {k.src.id : k \in C!CuratedRows(d)}
Delivered(d, S) == /\ CuratedIDs(d) = S
                   /\ Cardinality(C!CuratedRows(d)) = Cardinality(S)

AllOk == /\ \A j \in Jobs : pc[j] \in {"off", "ok"}
         /\ \A c \in CurateTasks : cpc[c] \in {"off", "ok"}

NoTripTwice(d) == \A k, l \in C!CuratedRows(d) : k.src.id = l.src.id => k = l

\* A curation may copy a date that an export has deleted and not yet inserted,
\* or will replace, and report success; but the two manifests tell.  When both
\* say success and count the same rows, no statement of a third task came
\* since, and the curated date has no trip twice, then it holds just what the
\* export read: whenever the curation ran, and whatever else overlapped
\* (export/main.go:143-184, curate/main.go:113-159).
AgreeingManifestsDeliver ==
    \A d \in Dates :
        LET m == manifest[d]
            k == curateManifest[d]
        IN  /\ m # None /\ k # None /\ m.success /\ k.success
            /\ lastWriter[d] = m.job /\ lastCurator[d] = k.task
            /\ m.rowCount = k.rowCount
            /\ NoTripTwice(d)
            => Delivered(d, staged[<<m.job, d>>])

\* When an export of a date and the curations after it succeed, in turns, the
\* curated date holds the rows of the export (sql/curated/README.md:4).  For
\* one export of the date.
DeliveredAfter(j) ==
    AllOk /\ (\A i \in Jobs \ {j} : pc[i] = "off") =>
        \A d \in Dates : lastWriter[d] = j /\ lastCurator[d] # None
            => Delivered(d, staged[<<j, d>>])
CuratedAfterExport == turns => \A j \in Jobs : DeliveredAfter(j)

\* sql/curated/README.md:4: the curation is "scheduled to run after each export
\* completes": with the timers as they are as well.
TimersDeliver == \A j \in Jobs : DeliveredAfter(j)
=============================================================================
