------------------------------ MODULE Erasure -------------------------------
(***************************************************************************)
(* The erasure job (export/cmd/erasure) and the weekly compaction job      *)
(* (export/cmd/compact) on the two Iceberg tables, trip_events and         *)
(* trip_events_curated.                                                    *)
(*                                                                         *)
(* An Iceberg table is its current snapshot and the older ones that        *)
(* queries FOR VERSION AS OF still resolve.  A statement that changes      *)
(* nothing commits no snapshot.  VACUUM expires the snapshots older than   *)
(* the table property vacuum_max_snapshot_age_seconds, except the current  *)
(* one (vacuum_min_snapshots_to_keep is 1, set or by default).  The rows   *)
(* of the files behind a resolving snapshot are all that is modelled of    *)
(* storage.                                                                *)
(*                                                                         *)
(* The export and the curation are writers here: they delete rows and      *)
(* insert rows, from Postgres into the raw table and from the raw table    *)
(* into the curated one, one statement at a time.                          *)
(***************************************************************************)
EXTENDS Integers, FiniteSets, Sequences

CONSTANTS
    Trips,          \* rows of trip_events
    Identifiers,    \* values of vehicle_id_hash
    VehicleOf,      \* the vehicle_id_hash of each trip
    Tasks,          \* the erasure tasks that may be started
    Compaction,     \* whether the weekly compaction is scheduled
    TightAge,       \* the 60 seconds that an erasure sets
    DefaultAge,     \* Athena's default, 5 days
    MaxTime,        \* bound: the clock
    LastWrite,      \* bound: the time after which writers stop
    MaxCommits,     \* bound: snapshots of a table before writers stop
    MaxLate,        \* bound: statements abandoned at a time
    Faults,         \* which faults happen, a subset of FaultKinds
    Deviations,     \* departures from careful use, a subset of DeviationKinds
    None            \* no identifier, no result, no manifest

FaultKinds == {"athena", "late", "s3", "crash", "compact"}

\* "overlap": other tasks commit while an erasure runs;
\* "postgresLater": an erasure starts before Postgres has lost the rows.
DeviationKinds == {"overlap", "postgresLater"}

ASSUME ErasureAssumption ==
    /\ IsFiniteSet(Trips)
    /\ VehicleOf \in [Trips -> Identifiers]
    /\ Compaction \in BOOLEAN
    /\ TightAge \in Nat /\ DefaultAge \in Nat /\ TightAge <= DefaultAge
    /\ MaxTime \in Nat /\ LastWrite \in Nat
    /\ MaxCommits \in Nat /\ MaxLate \in Nat
    /\ Faults \subseteq FaultKinds /\ Deviations \subseteq DeviationKinds
    /\ None \notin Identifiers

VARIABLES
    hot,        \* trips in Postgres
    read,       \* trips read for each table, and yet to be inserted
    snaps,      \* the snapshots of each table that resolve
    maxAge,     \* vacuum_max_snapshot_age_seconds of each table
    now,        \* the clock
    inflight,   \* Athena statements whose caller no longer waits
    requests,   \* erasure/{date}/{request_ref}.json, one request an identifier
    epc,        \* control state of each erasure task
    subject,    \* ERASURE_IDENTIFIER of the task
    target,     \* index of the table it is at
    found,      \* rowsBefore
    captured,   \* the pre-erasure snapshot's id, 0 before
    results,    \* one TableErasureResult per table
    cpc         \* control state of the compaction job

tableVars == <<snaps, maxAge, inflight>>
taskVars == <<epc, subject, target, found, captured, results>>
vars == <<hot, read, tableVars, now, requests, taskVars, cpc>>

-----------------------------------------------------------------------------
Tables == {"raw", "curated"}
Snapshots == [id : Nat \ {0}, at : Nat, rows : SUBSET Trips]
RowsOf(i) == {t \in Trips : VehicleOf[t] = i}

\* The erasureTargets, in the order of the loop.
Targets == <<"raw", "curated">>
TableOf(e) == Targets[target[e]]

Current(tb) == CHOOSE s \in snaps[tb] : \A u \in snaps[tb] : u.id <= s.id
Live(tb) == Current(tb).rows

\* How the time travel query ended: not asked, answered, failed because the
\* snapshot is gone, or failed for another reason.  The program keeps only
\* whether it failed (TimeTravelBlocked); for which reason is history.
Probes == {"none", "resolves", "missing", "error"}
Results == [rowsBefore : Nat, snapshot : Nat, probe : Probes, success : BOOLEAN]
ASSUME NoneIsNoResult == None \notin Results
Kinds == {"delete", "alter", "vacuum"}
Statements == [kind : Kinds, table : Tables, identifier : Identifiers \cup {None}]
Requests == [task : Tasks, results : [Tables -> Results \cup {None}],
             finished : BOOLEAN, success : BOOLEAN]

Exits == {"ok", "error", "crashed"}
EPCs == {"off", "record", "count", "capture", "delete", "alter", "vacuum",
         "after", "probe", "finish"} \cup Exits
Erasing(e) == epc[e] \notin {"off"} \cup Exits

ErasureTypeOK ==
    /\ hot \subseteq Trips
    /\ read \in [Tables -> SUBSET Trips]
    /\ snaps \in [Tables -> SUBSET Snapshots]
    /\ maxAge \in [Tables -> {TightAge, DefaultAge}]
    /\ now \in Nat
    /\ inflight \subseteq Statements
    /\ requests \in [Identifiers -> Requests \cup {None}]
    /\ epc \in [Tasks -> EPCs]
    /\ subject \in [Tasks -> Identifiers \cup {None}]
    /\ target \in [Tasks -> 1..2]
    /\ found \in [Tasks -> Nat]
    /\ captured \in [Tasks -> Nat]
    /\ results \in [Tasks -> [Tables -> Results \cup {None}]]
    /\ cpc \in Tables \cup {"off", "metrics", "ok", "error"}

Init ==
    /\ hot = Trips
    /\ read = [tb \in Tables |-> {}]
    /\ \E R \in SUBSET Trips : \E C \in SUBSET R :
          snaps = [tb \in Tables |-> {[id |-> 1, at |-> 0, rows |->
                                       IF tb = "raw" THEN R ELSE C]}]
    /\ maxAge = [tb \in Tables |-> DefaultAge]
    /\ now = 0
    /\ inflight = {}
    /\ requests = [i \in Identifiers |-> None]
    /\ epc = [e \in Tasks |-> "off"]
    /\ subject = [e \in Tasks |-> None]
    /\ target = [e \in Tasks |-> 1]
    /\ found = [e \in Tasks |-> 0]
    /\ captured = [e \in Tasks |-> 0]
    /\ results = [e \in Tasks |-> [tb \in Tables |-> None]]
    /\ cpc = "off"

-----------------------------------------------------------------------------
(***************************************************************************)
(* Iceberg and Athena.                                                     *)
(***************************************************************************)
Commit(tb, rows) ==
    snaps' = IF rows = Live(tb) THEN snaps
             ELSE [snaps EXCEPT ![tb] = @ \cup
                     {[id |-> Current(tb).id + 1, at |-> now, rows |-> rows]}]

\* What VACUUM leaves.
Unexpired(tb) ==
    {s \in snaps[tb] : s = Current(tb) \/ now - s.at <= maxAge[tb]}
Vacuum(tb) == snaps' = [snaps EXCEPT ![tb] = Unexpired(tb)]

Effect(s) ==
    \/ /\ s.kind = "delete"
       /\ Commit(s.table, Live(s.table) \ RowsOf(s.identifier))
       /\ UNCHANGED maxAge
    \/ /\ s.kind = "alter"
       /\ maxAge' = [maxAge EXCEPT ![s.table] = TightAge]
       /\ UNCHANGED snaps
    \/ /\ s.kind = "vacuum"
       /\ Vacuum(s.table)
       /\ UNCHANGED maxAge

\* The caller gave up on s: Athena may go on with it (fault "late").
Abandon(s) ==
    /\ UNCHANGED <<snaps, maxAge>>
    /\ \/ UNCHANGED inflight
       \/ /\ "late" \in Faults
          /\ Cardinality(inflight) < MaxLate
          /\ inflight' = inflight \cup {s}

AthenaEnds(s) ==
    /\ s \in inflight
    /\ inflight' = inflight \ {s}
    /\ Effect(s) \/ UNCHANGED <<snaps, maxAge>>
    /\ UNCHANGED <<hot, read, now, requests, taskVars, cpc>>

Tick ==
    /\ now < MaxTime
    /\ now' = now + 1
    /\ UNCHANGED <<hot, read, tableVars, requests, taskVars, cpc>>

(***************************************************************************)
(* The writers, and the identity service, which erases from Postgres.      *)
(***************************************************************************)
MayWrite(tb) ==
    /\ Current(tb).id < MaxCommits
    /\ now <= LastWrite
    /\ "overlap" \notin Deviations => \A e \in Tasks : ~Erasing(e)

WriterDeletes(tb, S) ==
    /\ MayWrite(tb)
    /\ Commit(tb, Live(tb) \ S)
    /\ UNCHANGED <<hot, read, maxAge, now, inflight, requests, taskVars, cpc>>

\* An export reads Postgres long before it inserts; an INSERT ... SELECT reads
\* the raw table before it commits to the curated one.
WriterReads(tb, S) ==
    /\ MayWrite(tb)
    /\ S # {} /\ S \subseteq IF tb = "raw" THEN hot ELSE Live("raw")
    /\ read' = [read EXCEPT ![tb] = S]
    /\ UNCHANGED <<hot, tableVars, now, requests, taskVars, cpc>>

WriterInserts(tb) ==
    /\ MayWrite(tb)
    /\ Commit(tb, Live(tb) \cup read[tb])
    /\ read' = [read EXCEPT ![tb] = {}]
    /\ UNCHANGED <<hot, maxAge, now, inflight, requests, taskVars, cpc>>

PostgresErases(i) ==
    /\ hot' = hot \ RowsOf(i)
    /\ UNCHANGED <<read, tableVars, now, requests, taskVars, cpc>>

-----------------------------------------------------------------------------
(***************************************************************************)
(* One erasure task: run, and eraseFromTable for each target.              *)
(***************************************************************************)
Goto(e, label) == epc' = [epc EXCEPT ![e] = label]
Step(e, from, to) == epc[e] = from /\ Goto(e, to)

\* Faulty variant: the loop does not end with the last table.
TableDonePastLast(e, success, probe) ==
    /\ results' = [results EXCEPT ![e][TableOf(e)] =
          [rowsBefore |-> IF success THEN found[e] ELSE 0,
           snapshot |-> IF success THEN captured[e] ELSE 0,
           probe |-> probe, success |-> success]]
    /\ found' = [found EXCEPT ![e] = 0]
    /\ captured' = [captured EXCEPT ![e] = 0]
    /\ Goto(e, "count") /\ target' = [target EXCEPT ![e] = @ + 1]

\* eraseFromTable returns; its result joins the others, whatever it says, and
\* the loop goes on to the next table.
TableDone(e, success, probe) ==
    /\ results' = [results EXCEPT ![e][TableOf(e)] =
          [rowsBefore |-> IF success THEN found[e] ELSE 0,
           snapshot |-> IF success THEN captured[e] ELSE 0,
           probe |-> probe, success |-> success]]
    /\ found' = [found EXCEPT ![e] = 0]
    /\ captured' = [captured EXCEPT ![e] = 0]
    /\ IF target[e] < Len(Targets)
       THEN Goto(e, "count") /\ target' = [target EXCEPT ![e] = @ + 1]
       ELSE Goto(e, "finish") /\ UNCHANGED target

\* What a failed result says of rows and snapshot is left out.
TableFails(e) == TableDone(e, FALSE, "none")
QueryFails == Faults \cap {"athena", "late"} # {}

\* A careful retry waits for the task before it, not for the statements that
\* task left in Athena; those of another identifier are over.
StartErasure(e, i) ==
    /\ Step(e, "off", "record")
    /\ "overlap" \notin Deviations =>
          /\ \A f \in Tasks : ~Erasing(f)
          /\ \A s \in inflight : s.kind = "delete" => s.identifier = i
          /\ \A tb \in Tables : read[tb] = {}
    /\ "postgresLater" \notin Deviations => RowsOf(i) \cap hot = {}
    /\ subject' = [subject EXCEPT ![e] = i]
    /\ UNCHANGED <<hot, read, tableVars, now, requests, target, found, captured,
                   results, cpc>>

PutRequest(e, finished, success) ==
    requests' = [requests EXCEPT ![subject[e]] =
                    [task |-> e, results |-> results[e],
                     finished |-> finished, success |-> success]]

\* Step 1 of the runbook: no record, no erasure.
RecordRequest(e) ==
    /\ \/ Step(e, "record", "count") /\ PutRequest(e, FALSE, FALSE)
       \/ /\ "s3" \in Faults
          /\ Step(e, "record", "error") /\ UNCHANGED requests
    /\ UNCHANGED <<hot, read, tableVars, now, subject, target, found, captured,
                   results, cpc>>

CountByIdentifier(e) == Cardinality(Live(TableOf(e)) \cap RowsOf(subject[e]))

\* Faulty variant: the count is answered from the oldest snapshot.
CountBeforeStale(e) ==
    /\ epc[e] = "count"
    /\ LET n == Cardinality(RowsOf(subject[e]) \cap
                   (CHOOSE s \in snaps[TableOf(e)] :
                       \A u \in snaps[TableOf(e)] : s.id <= u.id).rows)
       IN \/ n = 0 /\ TableDone(e, TRUE, "none")
          \/ /\ n > 0
             /\ Goto(e, "capture")
             /\ found' = [found EXCEPT ![e] = n]
             /\ UNCHANGED <<target, captured, results>>
          \/ QueryFails /\ TableFails(e)
    /\ UNCHANGED <<hot, read, tableVars, now, requests, subject, cpc>>

\* No row of the identifier: done, without looking at any snapshot.
CountBefore(e) ==
    /\ epc[e] = "count"
    /\ \/ CountByIdentifier(e) = 0 /\ TableDone(e, TRUE, "none")
       \/ /\ CountByIdentifier(e) > 0
          /\ Goto(e, "capture")
          /\ found' = [found EXCEPT ![e] = CountByIdentifier(e)]
          /\ UNCHANGED <<target, captured, results>>
       \/ QueryFails /\ TableFails(e)
    /\ UNCHANGED <<hot, read, tableVars, now, requests, subject, cpc>>

\* Faulty variant: the first snapshot instead of the latest one.
CaptureOldest(e) ==
    /\ epc[e] = "capture"
    /\ Goto(e, "delete")
    /\ captured' = [captured EXCEPT ![e] =
          (CHOOSE s \in snaps[TableOf(e)] :
              \A u \in snaps[TableOf(e)] : s.id <= u.id).id]
    /\ UNCHANGED <<hot, read, tableVars, now, requests, subject, target, found,
                   results, cpc>>

\* latestSnapshotID
CaptureSnapshot(e) ==
    /\ epc[e] = "capture"
    /\ \/ /\ Goto(e, "delete")
          /\ captured' = [captured EXCEPT ![e] = Current(TableOf(e)).id]
          /\ UNCHANGED <<target, found, results>>
       \/ QueryFails /\ TableFails(e)
    /\ UNCHANGED <<hot, read, tableVars, now, requests, subject, cpc>>

\* One of the three statements that change the table.
ErasureStatement(e, kind, next) ==
    LET s == [kind |-> kind, table |-> TableOf(e), identifier |-> subject[e]]
    IN  /\ epc[e] = kind
        /\ \/ /\ Goto(e, next) /\ Effect(s)
              /\ UNCHANGED <<inflight, target, found, captured, results>>
           \/ QueryFails /\ TableFails(e) /\ Abandon(s)
        /\ UNCHANGED <<hot, read, now, requests, subject, cpc>>

DeleteRows(e) == ErasureStatement(e, "delete", "alter")
TightenRetention(e) == ErasureStatement(e, "alter", "vacuum")
VacuumTable(e) == ErasureStatement(e, "vacuum", "after")

CountAfter(e) ==
    /\ epc[e] = "after"
    /\ \/ /\ CountByIdentifier(e) = 0
          /\ Goto(e, "probe")
          /\ UNCHANGED <<target, found, captured, results>>
       \/ CountByIdentifier(e) > 0 /\ TableFails(e)
       \/ QueryFails /\ TableFails(e)
    /\ UNCHANGED <<hot, read, tableVars, now, requests, subject, cpc>>

Resolves(tb, id) == \E s \in snaps[tb] : s.id = id

\* Faulty variant: the answer of the time travel query is not looked at.
ProbeUnchecked(e) ==
    /\ epc[e] = "probe"
    /\ TableDone(e, TRUE, IF Resolves(TableOf(e), captured[e])
                          THEN "resolves" ELSE "missing")
    /\ UNCHANGED <<hot, read, tableVars, now, requests, subject, cpc>>

\* SELECT ... FOR VERSION AS OF: an error is what it hopes for, and any error
\* of Run passes for it.
ProbeTimeTravel(e) ==
    /\ epc[e] = "probe"
    /\ \/ Resolves(TableOf(e), captured[e]) /\ TableFails(e)
       \/ ~Resolves(TableOf(e), captured[e]) /\ TableDone(e, TRUE, "missing")
       \/ QueryFails /\ TableDone(e, TRUE, "error")
    /\ UNCHANGED <<hot, read, tableVars, now, requests, subject, cpc>>

OverallSuccess(e) == \A tb \in Tables : results[e][tb].success

\* Step 5: the final record, whose loss is only logged, and the exit code.
FinishErasure(e) ==
    /\ Step(e, "finish", IF OverallSuccess(e) THEN "ok" ELSE "error")
    /\ \/ PutRequest(e, TRUE, OverallSuccess(e))
       \/ "s3" \in Faults /\ UNCHANGED requests
    /\ UNCHANGED <<hot, read, tableVars, now, subject, target, found, captured,
                   results, cpc>>

\* The task is killed; the statement it waited for may go on, and the record
\* it was uploading may be there.
CrashErasure(e) ==
    /\ "crash" \in Faults /\ Erasing(e)
    /\ Goto(e, "crashed")
    /\ \/ UNCHANGED <<inflight, requests>>
       \/ /\ epc[e] \in Kinds
          /\ "late" \in Faults /\ Cardinality(inflight) < MaxLate
          /\ inflight' = inflight \cup
                {[kind |-> epc[e], table |-> TableOf(e),
                  identifier |-> subject[e]]}
          /\ UNCHANGED requests
       \/ /\ \/ epc[e] = "record" /\ PutRequest(e, FALSE, FALSE)
             \/ epc[e] = "finish" /\ PutRequest(e, TRUE, OverallSuccess(e))
          /\ UNCHANGED inflight
    /\ found' = [found EXCEPT ![e] = 0]
    /\ captured' = [captured EXCEPT ![e] = 0]
    /\ UNCHANGED <<hot, read, snaps, maxAge, now, subject, target, results, cpc>>

-----------------------------------------------------------------------------
(***************************************************************************)
(* The weekly compaction: VACUUM of each table, then the storage metrics.  *)
(***************************************************************************)
StartCompact ==
    /\ Compaction /\ cpc \in {"off", "ok", "error"}
    /\ cpc' = "raw"
    /\ UNCHANGED <<hot, read, tableVars, now, requests, taskVars>>

\* Faulty variant: the loop ends after the first table.
AfterVacuumFirstOnly(tb) == "metrics"
AfterVacuum(tb) == IF tb = "raw" THEN "curated" ELSE "metrics"

CompactVacuum(tb) ==
    /\ cpc = tb
    /\ cpc' = AfterVacuum(tb)
    /\ Vacuum(tb)
    /\ UNCHANGED <<hot, read, maxAge, inflight, now, requests, taskVars>>

\* A VACUUM that fails, or a task that stops, leaves the rest undone.
CompactFails ==
    /\ "compact" \in Faults
    /\ cpc \in Tables \cup {"metrics"}
    /\ cpc' = "error"
    /\ \/ UNCHANGED tableVars
       \/ cpc \in Tables /\ Abandon([kind |-> "vacuum", table |-> cpc,
                                     identifier |-> None])
    /\ UNCHANGED <<hot, read, now, requests, taskVars>>

PublishMetrics ==
    /\ cpc = "metrics"
    /\ cpc' = "ok"
    /\ UNCHANGED <<hot, read, tableVars, now, requests, taskVars>>

-----------------------------------------------------------------------------
ErasureStep(e) ==
    \/ RecordRequest(e) \/ CountBefore(e) \/ CaptureSnapshot(e)
    \/ DeleteRows(e) \/ TightenRetention(e) \/ VacuumTable(e)
    \/ CountAfter(e) \/ ProbeTimeTravel(e) \/ FinishErasure(e)

Next ==
    \/ Tick
    \/ \E i \in Identifiers : PostgresErases(i)
    \/ \E tb \in Tables, S \in SUBSET Trips :
          WriterDeletes(tb, S) \/ WriterReads(tb, S)
    \/ \E e \in Tasks : \/ \E i \in Identifiers : StartErasure(e, i)
                        \/ ErasureStep(e) \/ CrashErasure(e)
    \/ \E tb \in Tables : WriterInserts(tb)
    \/ StartCompact \/ CompactFails \/ PublishMetrics
    \/ \E tb \in Tables : CompactVacuum(tb)
    \/ \E s \in Statements : AthenaEnds(s)

Spec == Init /\ [][Next]_vars

\* Time passes, the compaction is scheduled every week and, tried again and
\* again, comes through; Athena ends every statement.
FairSpec ==
    /\ Spec
    /\ WF_vars(Tick) /\ WF_vars(StartCompact) /\ WF_vars(PublishMetrics)
    /\ \A tb \in Tables : SF_vars(CompactVacuum(tb))
    /\ \A e \in Tasks : WF_vars(ErasureStep(e))
    /\ \A s \in Statements : WF_vars(AthenaEnds(s))

-----------------------------------------------------------------------------
(***************************************************************************)
(* Properties.                                                             *)
(***************************************************************************)
Holds(s, i) == s.rows \cap RowsOf(i) # {}

\* The time travel check looks at one snapshot only, and that is enough for
\* those before it: once a table is reported erased, the captured snapshot and
\* every older one are gone for good, whatever writers, compactions, retries
\* and late statements do (erasure/main.go:234-249).  Not so when the check
\* failed for another reason than the snapshot; see BlockedMeansExpired.
VerifiedMeansExpired ==
    \A e \in Tasks, tb \in Tables :
        LET r == results[e][tb] IN
        r # None /\ r.success /\ r.rowsBefore > 0 /\ r.probe # "error" =>
            \A s \in snaps[tb] : s.id > r.snapshot

\* When nobody else commits meanwhile, but for what an attempt before left in
\* Athena, a table is reported erased only once no snapshot that resolves holds
\* a row of the identifier: again unless its check failed for another reason.
ErasedWhenTold ==
    [][\A e \in Tasks, tb \in Tables :
          LET r == results'[e][tb] IN
          /\ results[e][tb] = None /\ r # None
          /\ r.success /\ r.rowsBefore > 0 /\ r.probe # "error"
          => \A s \in snaps'[tb] : ~Holds(s, subject[e])]_vars

\* After an erasure that exits with code zero no table shows a row of the
\* identifier again: not even when curations follow it, or another erasure
\* failed half-way and its statements come late.  For erasures that run alone,
\* once Postgres has lost the rows.
ErasedStaysErased ==
    \A e \in Tasks : epc[e] = "ok" =>
        \A tb \in Tables : Live(tb) \cap RowsOf(subject[e]) = {}

\* Whatever became of an erasure, rows that Postgres, the live tables and the
\* writers no longer have are in the end in no snapshot either: the weekly
\* compaction comes round, for each table (compact/main.go:92-109).
HistoryFades ==
    \A i \in Identifiers :
        /\ RowsOf(i) \cap hot = {}
        /\ \A tb \in Tables : (Live(tb) \cup read[tb]) \cap RowsOf(i) = {}
        ~> \A tb \in Tables : \A s \in snaps[tb] : ~Holds(s, i)

\* erasure/main.go:178: nothing to erase is "a real, successful outcome": then
\* there is no snapshot either that resurfaces the identifier.
NothingToErase ==
    [][\A e \in Tasks, tb \in Tables :
          LET r == results'[e][tb] IN
          results[e][tb] = None /\ r # None /\ r.success /\ r.rowsBefore = 0
              => \A s \in snaps'[tb] : ~Holds(s, subject[e])]_vars

\* runbooks/erasure.md:23: DELETE and VACUUM with tightened retention, "so time
\* travel can't resurface the rows": with other tasks at work as well.
TimeTravelCannotResurface ==
    \A e \in Tasks : epc[e] = "ok" =>
        \A tb \in Tables :
            /\ results[e][tb].rowsBefore > 0
            /\ Live(tb) \cap RowsOf(subject[e]) = {}
            => \A s \in snaps[tb] : ~Holds(s, subject[e])

\* runbooks/erasure.md:24-28: the query for the pre-erasure snapshot "now fails
\* outright ("Iceberg snapshot ID does not exists")", "this is what actually
\* proves time travel is blocked".
BlockedMeansExpired ==
    \A e \in Tasks, tb \in Tables :
        results[e][tb] # None /\ results[e][tb].probe \in {"missing", "error"} =>
            ~Resolves(tb, results[e][tb].snapshot)

\* runbooks/compaction.md:12: the vacuum properties are "left at Athena's defaults
\* for routine weekly hygiene": the compaction expires nothing younger.
RoutineVacuumKeepsHistory ==
    [][\A tb \in Tables : cpc = tb /\ cpc' = AfterVacuum(tb) =>
          \A s \in snaps[tb] \ snaps'[tb] : now - s.at > DefaultAge]_vars

\* docs/manifest-format.md:90: the erasure manifest is written "again on
\* completion with full results".
CompletionRecorded ==
    \A e \in Tasks : epc[e] = "ok" =>
        LET m == requests[subject[e]] IN
        m # None /\ (m.task = e => m.finished /\ m.success)
=============================================================================
