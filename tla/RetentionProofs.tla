-------------------------- MODULE RetentionProofs ---------------------------
(***************************************************************************)
(* Proofs about Retention, for every set of trips, dates and tasks, every  *)
(* retention and lookahead, any faults of trim, and any number of rows     *)
(* that arrive late, when the export is used as its documents say.         *)
(***************************************************************************)
EXTENDS Retention, ExportProofs

\* Trim and what is proved of it, about the manifests that exports write.
TP == INSTANCE TrimProofs WITH evidence <- SuccessDates

(***************************************************************************)
(* The use that the two theorems are about: one task at a time, dates that *)
(* the retention window still holds, and no failure that leaves the old    *)
(* manifest of a date standing over what it did to the date.  Such a one   *)
(* is a kill in mid-commit, or a statement that fails in a run whose       *)
(* manifest is then lost as well.                                          *)
(***************************************************************************)
Undisturbed ==
    /\ OneByOne /\ "crash" \notin Faults
    /\ ~({"athena", "s3"} \subseteq Faults)
    /\ ~OldExports

(***************************************************************************)
(* Part 1: the invariant.  A trip is owed to the readers of the lake once  *)
(* it came to Postgres on its day, or a run that read it has succeeded.    *)
(* What is owed of a date is in Postgres until the date is trimmed; hence  *)
(* every run reads all of it, and a date that trim takes for exported has  *)
(* all of it in the lake: save between the DELETE and the INSERT of a run, *)
(* and such a run is on a date that trim does not reach.                   *)
(***************************************************************************)
Stored(t) == \E c \in lake : c.id = t
Claimed(t) == \E j \in Jobs : /\ RunSucceeded(j, EventDate[t])
                              /\ t \in staged[<<j, EventDate[t]>>]
Owed(t) == t \in (pg \cup trimmed) \ late \/ Claimed(t)

\* All that is owed of a date is in the lake.
Kept(d) == \A t \in TripIDs : EventDate[t] = d /\ Owed(t) => Stored(t)

\* The run of j has read Postgres.
HasRead(j) == pc[j] = "upload" \/ Uploaded(j)

\* The run of j may have cleared its date, and will either fill it or say that
\* it failed.
Filling(j) == pc[j] \in {"insert", "cleanup", "failed"}

\* Exports work inside the window, trim outside.
WindowInv ==
    /\ \A t \in trimmed : EventDate[t] < today - RetentionDays
    /\ \A j \in Jobs : InRun(j) => today - RetentionDays <= date[j]
    /\ \A j \in Jobs : Running(j) => span[j].last < today
    /\ \A d \in Dates : manifest[d] # None => d < today
    /\ tpc # "idle" => runDay = today

\* A statement fails only with the fault, and then the manifest says so.
FailuresTold == "athena" \in Faults \/ \A j \in Jobs : pc[j] \notin {"cleanup", "failed"}

OwedInv ==
    /\ trimmed \subseteq TripIDs
    /\ \A t \in TripIDs : Owed(t) => t \in pg \cup trimmed
    /\ \A t \in trimmed : Owed(t) => Stored(t)

ReadInv ==
    \A j \in Jobs : HasRead(j) =>
        /\ rows[j] \subseteq pg \cup trimmed
        /\ \A t \in TripIDs : EventDate[t] = date[j] /\ Owed(t) => t \in rows[j]

KeptInv ==
    \A d \in SuccessDates : Kept(d) \/ \E j \in Jobs : date[j] = d /\ Filling(j)

DropInv == tpc \in {"count", "drop"} => T!Min(queue) \in SuccessDates

RInv ==
    /\ SafeInv /\ SerialInv /\ TP!TInv
    /\ WindowInv /\ FailuresTold /\ OwedInv /\ ReadInv /\ KeptInv /\ DropInv

USE DEF RunSucceeded

\* Times are numbers.
LEMMA Days ==
    ASSUME TypeInv, TP!TInv
    PROVE  /\ today \in Int /\ RetentionDays \in Int
           /\ Dates \subseteq Int
           /\ \A t \in TripIDs : EventDate[t] \in Dates
           /\ \A j \in Jobs : Running(j) =>
                 /\ date[j] \in Dates /\ date[j] \in Int
                 /\ span[j].last \in Int /\ date[j] <= span[j].last
<1>1. Dates \subseteq Int /\ RetentionDays \in Int
  BY TripsAssumption, TrimUseAssumption
<1>2. today \in Dates
  BY DEF TP!TInv, TP!TrimTypeOK
<1>3. ASSUME NEW j \in Jobs, Running(j)
      PROVE  date[j] \in Dates /\ span[j].last \in Dates /\ date[j] <= span[j].last
  BY <1>3 DEF TypeInv, LoopOK, Spans
<1> QED BY <1>1, <1>2, <1>3, TripsAssumption

-----------------------------------------------------------------------------
(***************************************************************************)
(* Part 2: trim.  TP's definitions are T's, and what Trim assumes holds.   *)
(***************************************************************************)
LEMMA TrimIsAssumed == TP!TrimAssumption
<1>1. TP!IsFiniteSet(TripIDs)
  BY TripsAssumption DEF IsFiniteSet, TP!IsFiniteSet
<1> QED BY <1>1, TripsAssumption, TrimUseAssumption DEF TP!TrimAssumption

LEMMA SameTrim ==
    /\ \A S : T!Min(S) = TP!Min(S)
    /\ \A S : T!Cardinality(S) = TP!Cardinality(S)
    /\ \A d : T!RowsOf(d) = TP!RowsOf(d)
    /\ T!InDefault = TP!InDefault
    /\ T!Candidates = TP!Candidates
BY DEF T!Min, TP!Min, T!Cardinality, TP!Cardinality, T!RowsOf, TP!RowsOf,
       T!InDefault, TP!InDefault, T!Candidates, TP!Candidates

LEMMA SameTrimMoves ==
    /\ \A from, to : T!Step(from, to) <=> TP!Step(from, to)
    /\ \A from, fault : T!Fails(from, fault) <=> TP!Fails(from, fault)
    /\ \A to : T!Goto(to) <=> TP!Goto(to)
    /\ \A d : T!CreatePartition(d) <=> TP!CreatePartition(d)
    /\ T!ForgetLocals <=> TP!ForgetLocals
    /\ T!localVars = TP!localVars
<1>1. T!InDefault = TP!InDefault
  BY SameTrim
<1> QED
  BY <1>1 DEF T!Step, TP!Step, T!Fails, TP!Fails, T!Goto, TP!Goto, T!CreatePartition,
     TP!CreatePartition, T!ForgetLocals, TP!ForgetLocals, T!localVars, TP!localVars

LEMMA SameTrimSteps ==
    ASSUME T!StartTrim \/ T!TrimStep \/ T!CrashTrim
    PROVE  TP!StartTrim \/ TP!TrimStep \/ TP!CrashTrim
<1>1. T!StartTrim => TP!StartTrim
  BY SameTrimMoves DEF T!StartTrim, TP!StartTrim
<1>2. T!EnsureDay => TP!EnsureDay
  BY SameTrim, SameTrimMoves DEF T!EnsureDay, TP!EnsureDay
<1>3. T!ListPartitions => TP!ListPartitions
  BY SameTrim, SameTrimMoves DEF T!ListPartitions, TP!ListPartitions
<1>4. T!CheckManifest => TP!CheckManifest
  BY SameTrim, SameTrimMoves DEF T!CheckManifest, TP!CheckManifest
<1>5. T!CountPartition => TP!CountPartition
  BY SameTrim, SameTrimMoves DEF T!CountPartition, TP!CountPartition
<1>6. T!DropPartition => TP!DropPartition
  BY SameTrim, SameTrimMoves DEF T!DropPartition, TP!DropPartition
<1>7. T!LoopDone => TP!LoopDone
  BY SameTrimMoves DEF T!LoopDone, TP!LoopDone, T!localVars, TP!localVars
<1>8. T!UploadTrimSummary => TP!UploadTrimSummary
  BY SameTrimMoves DEF T!UploadTrimSummary, TP!UploadTrimSummary
<1>9. T!CrashTrim => TP!CrashTrim
  BY SameTrimMoves DEF T!CrashTrim, TP!CrashTrim
<1> QED
  BY <1>1, <1>2, <1>3, <1>4, <1>5, <1>6, <1>7, <1>8, <1>9
  DEF T!TrimStep, TP!TrimStep

\* The invariant of Trim, taken over.
LEMMA TrimInitially ==
    ASSUME RetentionInit
    PROVE  TP!TInv
<1>1. SuccessDates = {} /\ pg = {}
  BY DEF RetentionInit, Init, SuccessDates
<1>2. TP!Init
  BY <1>1, SameTrim DEF RetentionInit, T!TrimInit, TP!TrimInit, TP!Init
<1> QED BY <1>2, TrimIsAssumed, TP!TrimInitial DEF TP!TrimAssumption

LEMMA TrimStays ==
    ASSUME TP!TInv, T!StartTrim \/ T!TrimStep \/ T!CrashTrim,
           UNCHANGED manifest, UNCHANGED today
    PROVE  TP!TInv'
<1>1. TP!StartTrim \/ TP!TrimStep \/ TP!CrashTrim
  BY SameTrimSteps
<1>2. UNCHANGED <<SuccessDates, today>>
  BY DEF SuccessDates
<1> QED BY <1>1, <1>2, TrimIsAssumed, TP!TrimJobKeeps DEF TP!TrimAssumption

LEMMA TrimUndisturbed ==
    ASSUME TP!TInv, pg' \subseteq TripIDs, today' \in Dates, today <= today',
           UNCHANGED trimJobVars
    PROVE  TP!TInv'
<1>1. SuccessDates' \subseteq Dates
  BY DEF SuccessDates
<1>2. UNCHANGED TP!trimVars
  BY DEF trimJobVars, TP!trimVars, TP!localVars
<1> QED BY <1>1, <1>2, TrimIsAssumed, TP!OthersKeep DEF TP!TrimAssumption

\* Where the partition that is counted or dropped lies.
LEMMA DropsOldDate ==
    ASSUME TP!TInv, WindowInv, tpc \in {"count", "drop"}
    PROVE  T!Min(queue) < today - RetentionDays
<1>1. TP!InLoop /\ queue # {} /\ runDay = today
  BY DEF TP!TInv, TP!LoopOK, TP!InLoop, WindowInv
<1>2. TP!Min(queue) < runDay - RetentionDays
  BY <1>1, TrimIsAssumed, TP!HeadOfQueue DEF TP!TrimAssumption
<1> QED BY <1>1, <1>2, SameTrim

\* What a step of trim does.
TrimMoves ==
    /\ pg' \subseteq pg
    /\ tpc' # "idle" => runDay' = today \/ (tpc # "idle" /\ runDay' = runDay)
    /\ tpc' \in {"count", "drop"} =>
          /\ queue' = queue
          /\ tpc \in {"count", "drop"} \/ T!Min(queue) \in SuccessDates
    /\ \A t \in pg \ pg' : tpc = "drop" /\ EventDate[t] = T!Min(queue)

LEMMA TrimSteps ==
    ASSUME T!StartTrim \/ T!TrimStep \/ T!CrashTrim
    PROVE  TrimMoves
<1> USE DEF T!Step, T!Fails, T!Goto
<1>1. CASE T!StartTrim
  BY <1>1 DEF T!StartTrim, TrimMoves
<1>2. CASE T!EnsureDay
  <2>1. /\ tpc = "ensure" /\ tpc' \in {"ensure", "list", "failed"}
        /\ pg' = pg /\ runDay' = runDay
    BY <1>2 DEF T!EnsureDay
  <2> QED BY <2>1 DEF TrimMoves
<1>3. CASE T!ListPartitions
  BY <1>3 DEF T!ListPartitions, TrimMoves
<1>4. CASE T!CheckManifest
  BY <1>4 DEF T!CheckManifest, TrimMoves
<1>5. CASE T!CountPartition
  BY <1>5 DEF T!CountPartition, TrimMoves
<1>6. CASE T!DropPartition
  <2>1. /\ tpc = "drop" /\ tpc' \in {"manifest", "failed"}
        /\ pg' = pg \/ pg' = pg \ T!RowsOf(T!Min(queue))
        /\ runDay' = runDay
    BY <1>6 DEF T!DropPartition
  <2> QED BY <2>1 DEF TrimMoves, T!RowsOf
<1>7. CASE T!LoopDone
  BY <1>7 DEF T!LoopDone, T!localVars, TrimMoves
<1>8. CASE T!UploadTrimSummary \/ T!CrashTrim
  BY <1>8 DEF T!UploadTrimSummary, T!CrashTrim, TrimMoves
<1> QED BY <1>1, <1>2, <1>3, <1>4, <1>5, <1>6, <1>7, <1>8 DEF T!TrimStep

\* The export's invariants do not speak of Postgres.
LEMMA ExportUndisturbed ==
    ASSUME SafeInv, SerialInv, UNCHANGED exportVars, pg' \subseteq TripIDs
    PROVE  SafeInv' /\ SerialInv'
<1> USE DEF exportVars, lakeVars, bucketVars, localVars, loopVars
<1>1. TypeInv'
  <2>1. TypeOK'
    BY DEF SafeInv, TypeInv, TypeOK
  <2>2. LoopOK'
    BY DEF SafeInv, TypeInv, LoopOK, Running
  <2> QED BY <2>1, <2>2 DEF TypeInv
<1>2. SafeInv'
  <2>1. StagedOfDate' /\ StagedIsRead' /\ PastDates'
    BY DEF SafeInv, StagedOfDate, OfDate, StagedIsRead, Uploaded, PastDates,
           InRun, Running
  <2>2. CopiesThere' /\ CountFresh'
    BY DEF SafeInv, CopiesThere, Committed, CopiesOf, CountFresh, Partition
  <2>3. InflightSpent'
    BY DEF SafeInv, InflightSpent, Spent, Sealed, InRun, Running
  <2>4. SealedExact'
    BY DEF SafeInv, SealedExact, Sealed, Exact, Partition, CopiesOf
  <2>5. EvidencePast'
    BY DEF SafeInv, EvidencePast, InRun, Running
  <2> QED BY <1>1, <2>1, <2>2, <2>3, <2>4, <2>5 DEF SafeInv
<1>3. SerialInv'
  BY DEF SerialInv, Alone, Running, Cleared, Partition, OwnsDate, Committed,
         ReplaceNotDuplicate
<1> QED BY <1>2, <1>3

\* A step of the job on trim's side: what it drops is of a date that says
\* success, and that no run can have touched since.
LEMMA TrimKeepsAll ==
    ASSUME RInv, TrimJobStep
    PROVE  RInv'
<1> USE DEF exportVars, lakeVars, bucketVars, localVars, loopVars
<1>0. /\ SafeInv /\ SerialInv /\ TP!TInv /\ WindowInv /\ FailuresTold
      /\ OwedInv /\ ReadInv /\ KeptInv /\ DropInv /\ TypeInv
      /\ pg \subseteq TripIDs
  BY DEF RInv, SafeInv, TypeInv, TypeOK
<1>1. /\ UNCHANGED exportVars /\ today' = today /\ late' = late
      /\ trimmed' = trimmed \cup (pg \ pg')
      /\ TrimMoves
  BY TrimSteps DEF TrimJobStep
<1>2. SafeInv' /\ SerialInv'
  <2>1. pg' \subseteq TripIDs
    BY <1>0, <1>1 DEF TrimMoves
  <2> QED BY <1>0, <1>1, <2>1, ExportUndisturbed
<1>3. TP!TInv'
  BY <1>0, <1>1, TrimStays DEF TrimJobStep
<1>4. pg' \cup trimmed' = pg \cup trimmed
  BY <1>1 DEF TrimMoves
<1>5. SuccessDates' = SuccessDates
  BY <1>1 DEF SuccessDates
<1>6. /\ \A t : Stored(t)' <=> Stored(t)
      /\ \A t : Owed(t)' <=> Owed(t)
  <2>1. \A t : Stored(t)' <=> Stored(t)
    BY <1>1 DEF Stored
  <2>2. \A t : Claimed(t)' <=> Claimed(t)
    BY <1>1 DEF Claimed
  <2>3. \A t : t \in (pg' \cup trimmed') \ late' <=> t \in (pg \cup trimmed) \ late
    BY <1>1, <1>4
  <2> QED BY <2>1, <2>2, <2>3 DEF Owed
<1>7. ASSUME NEW t \in pg \ pg'
      PROVE  /\ EventDate[t] < today - RetentionDays
             /\ Owed(t) => Stored(t)
  <2>1. tpc = "drop" /\ EventDate[t] = T!Min(queue)
    BY <1>1, <1>7 DEF TrimMoves
  <2>2. EventDate[t] \in SuccessDates /\ EventDate[t] < today - RetentionDays
    BY <1>0, <2>1, DropsOldDate DEF DropInv
  <2>3. ~\E j \in Jobs : date[j] = EventDate[t] /\ Filling(j)
    <3> SUFFICES ASSUME NEW j \in Jobs, date[j] = EventDate[t], Filling(j)
                 PROVE  FALSE
      OBVIOUS
    <3>1. InRun(j) /\ Running(j)
      BY DEF Filling, InRun, Running, Exits
    <3>2. today - RetentionDays <= date[j]
      BY <1>0, <3>1 DEF WindowInv
    <3> QED BY <1>0, <2>2, <3>1, <3>2, Days
  <2>4. Kept(EventDate[t])
    BY <1>0, <2>2, <2>3 DEF KeptInv
  <2> QED BY <1>0, <2>2, <2>4 DEF Kept
<1>8. WindowInv'
  <2>1. \A t \in trimmed' : EventDate[t] < today' - RetentionDays
    BY <1>0, <1>1, <1>7 DEF WindowInv
  <2>2. \A j \in Jobs : InRun(j)' => today' - RetentionDays <= date'[j]
    BY <1>0, <1>1 DEF WindowInv, InRun, Running
  <2>3. \A j \in Jobs : Running(j)' => span'[j].last < today'
    BY <1>0, <1>1 DEF WindowInv, Running
  <2>4. \A d \in Dates : manifest'[d] # None => d < today'
    BY <1>0, <1>1 DEF WindowInv
  <2>5. tpc' # "idle" => runDay' = today'
    BY <1>0, <1>1 DEF WindowInv, TrimMoves
  <2> QED BY <2>1, <2>2, <2>3, <2>4, <2>5 DEF WindowInv
<1>9. OwedInv'
  BY <1>0, <1>1, <1>4, <1>6, <1>7 DEF OwedInv
<1>10. ReadInv'
  BY <1>0, <1>1, <1>4, <1>6 DEF ReadInv, HasRead, Uploaded
<1>11. KeptInv'
  BY <1>0, <1>1, <1>5, <1>6 DEF KeptInv, Kept, Filling
<1>12. DropInv'
  <2>1. CASE tpc' \in {"count", "drop"}
    BY <1>0, <1>1, <1>5, <2>1 DEF DropInv, TrimMoves
  <2> QED BY <2>1 DEF DropInv
<1>13. FailuresTold'
  BY <1>0, <1>1 DEF FailuresTold
<1> QED
  BY <1>2, <1>3, <1>8, <1>9, <1>10, <1>11, <1>12, <1>13 DEF RInv

-----------------------------------------------------------------------------
(***************************************************************************)
(* Part 3: rows, days, and the start of a run.                             *)
(***************************************************************************)
LEMMA RowKeepsAll ==
    ASSUME RInv, NEW r \in TripIDs, RowLands(r)
    PROVE  RInv'
<1> USE DEF exportVars, lakeVars, bucketVars, localVars, loopVars
<1>0. /\ SafeInv /\ SerialInv /\ TP!TInv /\ WindowInv /\ FailuresTold
      /\ OwedInv /\ ReadInv /\ KeptInv /\ DropInv /\ TypeInv
      /\ pg \subseteq TripIDs
  BY DEF RInv, SafeInv, TypeInv, TypeOK
<1>1. /\ r \notin trimmed /\ pg' = pg \cup {r}
      /\ late' = IF EventDate[r] = today THEN late ELSE late \cup {r}
      /\ UNCHANGED exportVars /\ UNCHANGED <<trimJobVars, today, trimmed>>
  BY DEF RowLands, RowArrives
<1>2. SafeInv' /\ SerialInv'
  BY <1>0, <1>1, ExportUndisturbed
<1>3. TP!TInv'
  <2>1. today \in Dates /\ today <= today'
    BY <1>0, <1>1, Days DEF TP!TInv, TP!TrimTypeOK
  <2> QED BY <1>0, <1>1, <2>1, TrimUndisturbed
<1>4. /\ SuccessDates' = SuccessDates
      /\ \A t : Stored(t)' <=> Stored(t)
  BY <1>1 DEF SuccessDates, Stored
<1>5. \A t \in TripIDs : Owed(t)' => Owed(t) \/ (t = r /\ EventDate[t] = today)
  <2>1. \A t : Claimed(t)' <=> Claimed(t)
    BY <1>1 DEF Claimed
  <2> QED BY <1>1, <2>1 DEF Owed
<1>6. WindowInv'
  BY <1>0, <1>1 DEF WindowInv, InRun, Running, trimJobVars
<1>7. OwedInv'
  BY <1>0, <1>1, <1>4, <1>5 DEF OwedInv
<1>8. ReadInv'
  <2> SUFFICES ASSUME NEW j \in Jobs, HasRead(j)
               PROVE  /\ rows[j] \subseteq pg \cup trimmed
                      /\ \A t \in TripIDs :
                            EventDate[t] = date[j] /\ Owed(t)' => t \in rows[j]
    BY <1>1 DEF ReadInv, HasRead, Uploaded
  <2>1. Running(j)
    BY DEF HasRead, Uploaded, Running, Exits
  <2>2. date[j] # today
    BY <1>0, <2>1, Days DEF WindowInv
  <2> QED BY <1>0, <1>5, <2>2 DEF ReadInv
<1>9. KeptInv'
  <2> SUFFICES ASSUME NEW d \in SuccessDates, Kept(d)
               PROVE  Kept(d)'
    BY <1>0, <1>1, <1>4 DEF KeptInv, Filling
  <2>1. d # today
    BY <1>0, Days DEF WindowInv, SuccessDates
  <2> QED BY <1>4, <1>5, <2>1 DEF Kept
<1>10. FailuresTold' /\ DropInv'
  BY <1>0, <1>1, <1>4 DEF FailuresTold, DropInv, trimJobVars
<1> QED BY <1>2, <1>3, <1>6, <1>7, <1>8, <1>9, <1>10 DEF RInv

LEMMA DayKeepsAll ==
    ASSUME RInv, NextDay
    PROVE  RInv'
<1> USE DEF exportVars, lakeVars, bucketVars, localVars, loopVars
<1>0. /\ SafeInv /\ SerialInv /\ TP!TInv /\ WindowInv /\ FailuresTold
      /\ OwedInv /\ ReadInv /\ KeptInv /\ DropInv /\ TypeInv
      /\ pg \subseteq TripIDs
  BY DEF RInv, SafeInv, TypeInv, TypeOK
<1>1. /\ today' = today + 1 /\ today' \in Dates
      /\ tpc = "idle" /\ \A j \in Jobs : ~Running(j)
      /\ UNCHANGED <<vars, trimJobVars, trimmed, late>>
  BY DEF NextDay
<1>2. UNCHANGED exportVars /\ pg' = pg
  BY <1>1 DEF vars
<1>3. SafeInv' /\ SerialInv'
  BY <1>0, <1>2, ExportUndisturbed
<1>4. TP!TInv'
  BY <1>0, <1>1, <1>2, Days, TrimUndisturbed
<1>5. WindowInv'
  <2>1. \A t \in trimmed : EventDate[t] \in Int
    BY <1>0, Days DEF OwedInv
  <2>2. \A t \in trimmed : EventDate[t] < today' - RetentionDays
    BY <1>0, <1>1, <2>1, Days DEF WindowInv
  <2>3. \A d \in Dates : manifest[d] # None => d < today'
    BY <1>0, <1>1, Days DEF WindowInv
  <2>4. \A j \in Jobs : ~Running(j)' /\ ~InRun(j)'
    BY <1>1, <1>2 DEF Running, InRun
  <2> QED BY <1>1, <1>2, <2>2, <2>3, <2>4 DEF WindowInv, trimJobVars
<1>6. FailuresTold' /\ DropInv'
  BY <1>0, <1>1, <1>2 DEF FailuresTold, DropInv, SuccessDates, trimJobVars
<1>7. \A t : (Owed(t)' <=> Owed(t)) /\ (Stored(t)' <=> Stored(t))
  <2>1. \A t : (Claimed(t)' <=> Claimed(t)) /\ (Stored(t)' <=> Stored(t))
    BY <1>2 DEF Claimed, Stored
  <2> QED BY <1>1, <1>2, <2>1 DEF Owed
<1>8. OwedInv' /\ ReadInv' /\ KeptInv'
  BY <1>0, <1>1, <1>2, <1>7
  DEF OwedInv, ReadInv, HasRead, Uploaded, KeptInv, Kept, Filling, SuccessDates
<1> QED BY <1>3, <1>4, <1>5, <1>6, <1>8 DEF RInv

LEMMA StartKeepsAll ==
    ASSUME Undisturbed, RInv, NEW j \in Jobs, NEW s \in Spans, StartExport(j, s)
    PROVE  RInv'
<1> USE DEF lakeVars, bucketVars, localVars, loopVars
<1>0. /\ SafeInv /\ SerialInv /\ TP!TInv /\ WindowInv /\ FailuresTold
      /\ OwedInv /\ ReadInv /\ KeptInv /\ DropInv /\ TypeInv
      /\ pg \subseteq TripIDs /\ pc \in [Jobs -> PCs]
      /\ date \in [Jobs -> Dates \cup {None}]
      /\ span \in [Jobs -> Spans \cup {None}]
      /\ OneByOne /\ ~OldExports
  BY DEF RInv, SafeInv, TypeInv, TypeOK, Undisturbed
<1>1. /\ s.last < today /\ today - RetentionDays <= s.first
      /\ pc' = [pc EXCEPT ![j] = "read"]
      /\ span' = [span EXCEPT ![j] = s]
      /\ date' = [date EXCEPT ![j] = s.first]
      /\ pc[j] = "off"
      /\ UNCHANGED <<pg, lake, staged, manifest, rows, results>>
      /\ UNCHANGED <<trimJobVars, today, trimmed, late>>
  <2>1. OldExports \/ s.first >= today - RetentionDays
    BY DEF StartExport
  <2>2. s.first \in Int /\ today - RetentionDays \in Int
    BY <1>0, Days DEF Spans
  <2> QED BY <1>0, <2>1, <2>2 DEF StartExport, StartTask
<1>2. SafeInv' /\ SerialInv'
  <2>1. [Next]_vars
    BY DEF StartExport, Next
  <2> QED BY <1>0, <2>1, SafeStep, SerialStep DEF SafeInv
<1>3. TP!TInv'
  <2>1. today \in Dates /\ today <= today'
    BY <1>0, <1>1, Days DEF TP!TInv, TP!TrimTypeOK
  <2> QED BY <1>0, <1>1, <2>1, TrimUndisturbed
<1>4. \A i \in Jobs : i # j => /\ pc'[i] = pc[i] /\ date'[i] = date[i]
                               /\ span'[i] = span[i]
  BY <1>0, <1>1
<1>5. pc'[j] = "read" /\ date'[j] = s.first /\ span'[j] = s
  BY <1>0, <1>1
<1>6. WindowInv'
  <2>1. \A i \in Jobs : InRun(i)' => today - RetentionDays <= date'[i]
    BY <1>0, <1>1, <1>4, <1>5 DEF WindowInv, InRun, Running
  <2>2. \A i \in Jobs : Running(i)' => span'[i].last < today
    BY <1>0, <1>1, <1>4, <1>5 DEF WindowInv, Running
  <2> QED BY <1>0, <1>1, <2>1, <2>2 DEF WindowInv, trimJobVars
<1>7. \A t : (Owed(t)' <=> Owed(t)) /\ (Stored(t)' <=> Stored(t))
  <2>1. \A t : (Claimed(t)' <=> Claimed(t)) /\ (Stored(t)' <=> Stored(t))
    BY <1>1 DEF Claimed, Stored
  <2> QED BY <1>1, <2>1 DEF Owed
<1>8. FailuresTold' /\ DropInv' /\ OwedInv'
  BY <1>0, <1>1, <1>4, <1>5, <1>7
  DEF FailuresTold, DropInv, SuccessDates, trimJobVars, OwedInv
<1>9. ReadInv'
  BY <1>0, <1>1, <1>4, <1>5, <1>7 DEF ReadInv, HasRead, Uploaded
<1>10. KeptInv'
  BY <1>0, <1>1, <1>4, <1>5, <1>7 DEF KeptInv, Kept, Filling, SuccessDates
<1> QED BY <1>2, <1>3, <1>6, <1>8, <1>9, <1>10 DEF RInv

-----------------------------------------------------------------------------
(***************************************************************************)
(* Part 4: the steps of a run.  It reads, ...                              *)
(***************************************************************************)
Reads(j) ==
    /\ Step(j, "read", "upload")
    /\ rows' = [rows EXCEPT ![j] = PgRows(date[j])]
    /\ UNCHANGED <<lake, staged, manifest>>

\* ... moves on, uploading on the way what it has read, ...
Moves(j) ==
    /\ \E label \in PCs : Goto(j, label)
    /\ HasRead(j)' => HasRead(j)
    /\ InRun(j)' => InRun(j)
    /\ Filling(j) => Filling(j)'
    /\ UNCHANGED <<rows, lake, manifest>>
    /\ \/ UNCHANGED staged
       \/ /\ InRun(j)
          /\ staged' = [staged EXCEPT ![<<j, date[j]>>] = rows[j]]

\* ... clears the date and fills it, ...
Clears(j) ==
    /\ Step(j, "delete", "insert")
    /\ lake' = lake \ Partition(date[j])
    /\ UNCHANGED <<rows, staged, manifest>>

Fills(j) ==
    /\ Step(j, "insert", "drop")
    /\ lake' = lake \cup CopiesOf(j, staged[<<j, date[j]>>])
    /\ UNCHANGED <<rows, staged, manifest>>

\* ... and ends: unless it has reconciled, with a failure, that the manifest
\* records if the date may be half-way.
Ends(j) ==
    /\ InRun(j)
    /\ \E success \in BOOLEAN, count \in Counts :
          EndRun(j, success, count) /\ (success => pc[j] = "manifest")
    /\ \/ UNCHANGED manifest /\ ~Filling(j)
       \/ \E m \in Manifests :
             PutManifest(j, m) /\ (m.success => pc[j] = "manifest")
    /\ UNCHANGED <<lake, staged>>

RunStep(j) == Reads(j) \/ Moves(j) \/ Clears(j) \/ Fills(j) \/ Ends(j)

\* Without the fault no statement fails.
FailsOnlyWith(j) ==
    pc'[j] \in {"cleanup", "failed"} => "athena" \in Faults \/ pc[j] = "cleanup"

LEMMA RunKinds ==
    ASSUME Undisturbed, TypeInv, FailuresTold, NEW j \in Jobs, JobStep(j)
    PROVE  RunStep(j) /\ FailsOnlyWith(j)
<1> USE DEF lakeVars, bucketVars, localVars, loopVars
<1> DEFINE Goal == RunStep(j) /\ FailsOnlyWith(j)
<1> SUFFICES Goal
  OBVIOUS
<1>0. /\ pc \in [Jobs -> PCs] /\ "late" \notin Faults
      /\ ~({"athena", "s3"} \subseteq Faults)
      /\ lakeCount \in [Jobs -> Counts]
  BY DEF TypeInv, TypeOK, Undisturbed, OneByOne
<1>1. ASSUME NEW from \in PCs, NEW to \in PCs, Step(j, from, to),
             UNCHANGED <<rows, lake, manifest>>,
             \/ UNCHANGED staged
             \/ from # "summary" /\ from \notin Exits \cup {"off"}
                /\ staged' = [staged EXCEPT ![<<j, date[j]>>] = rows[j]],
             to \in {"cleanup", "failed"} => "athena" \in Faults \/ from = "cleanup",
             from \in {"insert", "cleanup"} => to \in {"cleanup", "failed"},
             from # "failed", to # "upload", from \notin {"off"} \cup Exits,
             from \in {"read", "summary"} => to \in Exits
      PROVE  Goal
  <2>1. pc[j] = from /\ pc'[j] = to /\ Goto(j, to)
    BY <1>0, <1>1 DEF Step, Goto
  <2>2. FailsOnlyWith(j)
    BY <1>1, <2>1 DEF FailsOnlyWith
  <2>3. /\ HasRead(j)' => HasRead(j)
        /\ InRun(j)' => InRun(j)
        /\ Filling(j) => Filling(j)'
    BY <1>1, <2>1 DEF HasRead, Uploaded, InRun, Running, Filling, Exits, PCs
  <2>4. InRun(j) \/ UNCHANGED staged
    BY <1>1, <2>1 DEF InRun, Running
  <2>5. Moves(j)
    BY <1>1, <2>1, <2>3, <2>4 DEF Moves
  <2> QED BY <2>2, <2>5 DEF RunStep
<1>2. ASSUME pc[j] \in {"read", "upload", "count", "sum"}, EndRun(j, FALSE, 0),
             UNCHANGED <<lake, staged, manifest>>
      PROVE  Goal
  <2>1. InRun(j) /\ ~Filling(j)
    BY <1>2 DEF InRun, Running, Filling, Exits
  <2>2. Ends(j)
    BY <1>2, <2>1, ZeroTypes DEF Ends
  <2>3. pc'[j] \in {"ok", "error", "read", "summary"}
    BY <1>0, <1>2 DEF EndRun
  <2> QED BY <2>2, <2>3 DEF RunStep, FailsOnlyWith
<1>3. ASSUME NEW success \in BOOLEAN, NEW count \in Counts, EndRun(j, success, count),
             success => pc[j] = "manifest", pc[j] \in {"failed", "manifest"},
             NEW m \in Manifests, m.success => pc[j] = "manifest",
             PutManifest(j, m) \/ (pc[j] = "manifest" /\ UNCHANGED manifest),
             UNCHANGED <<lake, staged>>
      PROVE  Goal
  <2>1. InRun(j) /\ (pc[j] = "manifest" => ~Filling(j))
    BY <1>3 DEF InRun, Running, Filling, Exits
  <2>2. Ends(j)
    BY <1>3, <2>1 DEF Ends
  <2>3. pc'[j] \in {"ok", "error", "read", "summary"}
    BY <1>0, <1>3 DEF EndRun
  <2> QED BY <2>2, <2>3 DEF RunStep, FailsOnlyWith
<1>4. CASE ReadPostgres(j)
  <2>1. CASE /\ Step(j, "read", "upload")
             /\ rows' = [rows EXCEPT ![j] = PgRows(date[j])]
    <3>1. Reads(j)
      BY <1>4, <2>1 DEF ReadPostgres, Reads
    <3>2. pc'[j] = "upload"
      BY <1>0, <2>1 DEF Step, Goto
    <3> QED BY <3>1, <3>2 DEF RunStep, FailsOnlyWith
  <2>2. CASE pc[j] = "read" /\ EndRun(j, FALSE, 0)
    BY <1>2, <1>4, <2>2 DEF ReadPostgres
  <2> QED BY <1>4, <2>1, <2>2 DEF ReadPostgres
<1>5. CASE UploadParquet(j)
  <2>1. CASE /\ Step(j, "upload", "create")
             /\ staged' = [staged EXCEPT ![<<j, date[j]>>] = rows[j]]
             /\ UNCHANGED rows
    <3>1. UNCHANGED <<rows, lake, manifest>>
      BY <1>5, <2>1 DEF UploadParquet
    <3> QED BY <1>1, <2>1, <3>1 DEF PCs, Exits
  <2>2. CASE pc[j] = "upload" /\ EndRun(j, FALSE, 0) /\ UNCHANGED staged
    BY <1>2, <1>5, <2>2 DEF UploadParquet
  <2> QED BY <1>5, <2>1, <2>2 DEF UploadParquet
<1>6. CASE CreateStaging(j)
  <2>1. UNCHANGED <<rows, lake, manifest, staged>>
    BY <1>6 DEF CreateStaging, CommitStatement, RunSucceeds, RunFails, Effect, Statement
  <2>2. \/ Step(j, "create", "delete")
        \/ Step(j, "create", "failed") /\ "athena" \in Faults
    BY <1>0, <1>6 DEF CreateStaging, CommitStatement, RunFails
  <2> QED BY <1>1, <2>1, <2>2 DEF PCs, Exits
<1>7. CASE DeletePartition(j)
  <2>1. CASE Step(j, "delete", "insert") /\ RunSucceeds(j, "delete")
    <3>1. Clears(j)
      BY <1>7, <2>1
      DEF DeletePartition, CommitStatement, RunSucceeds, Effect, Statement, Clears
    <3>2. pc'[j] = "insert"
      BY <1>0, <2>1 DEF Step, Goto
    <3> QED BY <3>1, <3>2 DEF RunStep, FailsOnlyWith
  <2>2. CASE Step(j, "delete", "cleanup") /\ RunFails(j, "delete")
    <3>1. UNCHANGED <<rows, lake, manifest, staged>> /\ "athena" \in Faults
      BY <1>0, <1>7, <2>2 DEF DeletePartition, CommitStatement, RunFails
    <3> QED BY <1>1, <2>2, <3>1 DEF PCs, Exits
  <2> QED BY <1>7, <2>1, <2>2 DEF DeletePartition, CommitStatement
<1>8. CASE InsertPartition(j)
  <2>1. CASE Step(j, "insert", "drop") /\ RunSucceeds(j, "insert")
    <3>1. Fills(j)
      BY <1>8, <2>1
      DEF InsertPartition, CommitStatement, RunSucceeds, Effect, Statement, Fills
    <3>2. pc'[j] = "drop"
      BY <1>0, <2>1 DEF Step, Goto
    <3> QED BY <3>1, <3>2 DEF RunStep, FailsOnlyWith
  <2>2. CASE Step(j, "insert", "cleanup") /\ RunFails(j, "insert")
    <3>1. UNCHANGED <<rows, lake, manifest, staged>> /\ "athena" \in Faults
      BY <1>0, <1>8, <2>2 DEF InsertPartition, CommitStatement, RunFails
    <3> QED BY <1>1, <2>2, <3>1 DEF PCs, Exits
  <2> QED BY <1>8, <2>1, <2>2 DEF InsertPartition, CommitStatement
<1>9. CASE DropStaging(j)
  <2>1. UNCHANGED <<rows, lake, manifest, staged>>
    BY <1>9 DEF DropStaging, RunSucceeds, RunFails, Effect, Statement
  <2>2. Step(j, "drop", "count") \/ Step(j, "cleanup", "failed")
    BY <1>9 DEF DropStaging
  <2> QED BY <1>1, <2>1, <2>2 DEF PCs, Exits
<1>10. CASE CountLake(j) \/ SumLake(j)
  <2>1. UNCHANGED <<lake, manifest, staged>>
    BY <1>10 DEF CountLake, SumLake
  <2>2. \/ (Step(j, "count", "sum") \/ Step(j, "sum", "manifest")) /\ UNCHANGED rows
        \/ pc[j] \in {"count", "sum"} /\ EndRun(j, FALSE, 0)
    BY <1>10 DEF CountLake, SumLake, QueryFails
  <2> QED BY <1>1, <1>2, <2>1, <2>2 DEF PCs, Exits
<1>11. CASE UploadFailure(j)
  <2>1. FailureManifest(j) \in Manifests /\ ~FailureManifest(j).success
    BY ManifestTypes DEF TypeInv, FailureManifest
  <2>2. pc[j] = "failed" /\ "s3" \notin Faults
    BY <1>0, <1>11 DEF UploadFailure, FailuresTold
  <2>3. PutManifest(j, FailureManifest(j))
    BY <1>11, <2>2 DEF UploadFailure, UploadManifest
  <2> QED BY <1>3, <1>11, <2>1, <2>2, <2>3, ZeroTypes DEF UploadFailure
<1>12. CASE Reconcile(j)
  <2>1. ReconciledManifest(j) \in Manifests
    BY ManifestTypes DEF TypeInv
  <2>2. PutManifest(j, ReconciledManifest(j)) \/ UNCHANGED manifest
    BY <1>12 DEF Reconcile, UploadManifest
  <2>3. Match(j) \in BOOLEAN /\ lakeCount[j] \in Counts
    BY <1>0 DEF Match
  <2> QED BY <1>3, <1>12, <2>1, <2>2, <2>3 DEF Reconcile
<1>13. CASE UploadSummary(j)
  <2>1. UNCHANGED <<rows, lake, manifest, staged>>
    BY <1>13 DEF UploadSummary
  <2>2. Step(j, "summary", "ok") \/ Step(j, "summary", "error")
    BY <1>13 DEF UploadSummary, Step
  <2> QED BY <1>1, <2>1, <2>2 DEF PCs, Exits
<1> HIDE DEF Goal
<1> QED
  BY <1>4, <1>5, <1>6, <1>7, <1>8, <1>9, <1>10, <1>11, <1>12, <1>13 DEF JobStep

\* What all of these leave alone.
RunLocal(j) ==
    /\ Running(j)
    /\ UNCHANGED <<pg, span>>
    /\ \A i \in Jobs : i # j => /\ pc'[i] = pc[i] /\ date'[i] = date[i]
                                /\ rows'[i] = rows[i] /\ results'[i] = results[i]
    /\ InRun(j)' => InRun(j) /\ date'[j] \in {date[j], date[j] + 1}
    /\ Running(j)' => Running(j)
    /\ \A d \in Dates : manifest'[d] = manifest[d] \/ (InRun(j) /\ d = date[j])

LEMMA RunIsLocal ==
    ASSUME TypeInv, NEW j \in Jobs, JobStep(j), RunStep(j)
    PROVE  RunLocal(j)
<1> USE DEF lakeVars, bucketVars, localVars, loopVars
<1>0. /\ pc \in [Jobs -> PCs] /\ date \in [Jobs -> Dates \cup {None}]
      /\ rows \in [Jobs -> SUBSET TripIDs]
      /\ results \in [Jobs -> Seq(DateResults)]
      /\ manifest \in [Dates -> Manifests \cup {None}]
  BY DEF TypeInv, TypeOK
<1>1. Running(j)
  BY DEF JobStep, ReadPostgres, UploadParquet, CreateStaging, DeletePartition,
         InsertPartition, CommitStatement, DropStaging, UploadFailure, CountLake,
         SumLake, Reconcile, UploadSummary, Step, Running, Exits
<1>2. pg' = pg
  BY DEF JobStep, ReadPostgres, UploadParquet, CreateStaging, DeletePartition,
         InsertPartition, CommitStatement, DropStaging, UploadFailure, CountLake,
         SumLake, Reconcile, UploadSummary
<1>3. span' = span
  <2>1. CASE ReadPostgres(j) \/ UploadParquet(j) \/ CountLake(j) \/ SumLake(j)
             \/ Reconcile(j) \/ UploadFailure(j)
    BY <2>1 DEF ReadPostgres, UploadParquet, CountLake, SumLake, Reconcile,
                UploadFailure
  <2>2. CASE \/ CreateStaging(j) \/ DeletePartition(j) \/ InsertPartition(j)
             \/ DropStaging(j) \/ UploadSummary(j)
    BY <2>2 DEF CreateStaging, DeletePartition, InsertPartition, CommitStatement,
                DropStaging, UploadSummary, Step, Goto
  <2> QED BY <2>1, <2>2 DEF JobStep
<1>4. CASE Ends(j)
  <2>1. InRun(j) /\ date[j] \in Dates
    BY <1>1, <1>4 DEF Ends, TypeInv, LoopOK
  <2>2. PICK success \in BOOLEAN, count \in Counts : EndRun(j, success, count)
    BY <1>4 DEF Ends
  <2>3. \A i \in Jobs : i # j => /\ pc'[i] = pc[i] /\ date'[i] = date[i]
                                 /\ rows'[i] = rows[i] /\ results'[i] = results[i]
    BY <1>0, <2>2 DEF EndRun, ForgetLocals
  <2>4. date'[j] \in {date[j], date[j] + 1}
    BY <1>0, <2>1, <2>2 DEF EndRun
  <2>5. \A d \in Dates : manifest'[d] = manifest[d] \/ (InRun(j) /\ d = date[j])
    BY <1>0, <1>4, <2>1 DEF Ends, PutManifest
  <2> QED BY <1>1, <1>2, <1>3, <2>1, <2>3, <2>4, <2>5 DEF RunLocal
<1>5. CASE Reads(j) \/ Moves(j) \/ Clears(j) \/ Fills(j)
  <2>1. PICK label \in PCs : Goto(j, label)
    BY <1>5 DEF Reads, Moves, Clears, Fills, Step, PCs
  <2>2. /\ manifest' = manifest
        /\ \A i \in Jobs : i # j => rows'[i] = rows[i]
    BY <1>0, <1>5 DEF Reads, Moves, Clears, Fills
  <2>3. InRun(j)' => InRun(j)
    BY <1>5 DEF Reads, Moves, Clears, Fills, Step, InRun, Running, Exits
  <2> QED BY <1>0, <1>1, <1>2, <1>3, <2>1, <2>2, <2>3 DEF RunLocal, Goto
<1> QED BY <1>4, <1>5 DEF RunStep

\* The part of the invariant that is not about what is owed.
LEMMA RunKeepsWindow ==
    ASSUME RInv, NEW j \in Jobs, RunLocal(j), FailsOnlyWith(j),
           UNCHANGED <<trimJobVars, today, trimmed, late>>
    PROVE  WindowInv' /\ FailuresTold' /\ DropInv'
<1>0. /\ TypeInv /\ TP!TInv /\ WindowInv /\ FailuresTold /\ DropInv /\ SafeInv
  BY DEF RInv, SafeInv
<1>1. /\ date[j] \in Dates /\ date[j] \in Int /\ date[j] < today
      /\ today \in Int /\ today - RetentionDays \in Int
  BY <1>0, Days DEF WindowInv, RunLocal
<1>2. \A i \in Jobs : InRun(i)' => today - RetentionDays <= date'[i]
  <2> SUFFICES ASSUME NEW i \in Jobs, InRun(i)'
               PROVE  today - RetentionDays <= date'[i]
    OBVIOUS
  <2>1. CASE i # j
    BY <1>0, <2>1 DEF WindowInv, RunLocal, InRun, Running
  <2>2. CASE i = j
    <3>1. today - RetentionDays <= date[j]
      BY <1>0, <2>2 DEF WindowInv, RunLocal
    <3> QED BY <1>1, <2>2, <3>1 DEF RunLocal
  <2> QED BY <2>1, <2>2
<1>3. \A i \in Jobs : Running(i)' => span'[i].last < today
  BY <1>0 DEF WindowInv, RunLocal, Running
<1>4. \A d \in Dates : manifest'[d] # None => d < today
  BY <1>0, <1>1 DEF WindowInv, RunLocal
<1>5. WindowInv'
  BY <1>0, <1>2, <1>3, <1>4 DEF WindowInv, trimJobVars
<1>6. FailuresTold'
  BY <1>0 DEF FailuresTold, RunLocal, FailsOnlyWith
<1>7. DropInv'
  <2> SUFFICES ASSUME tpc \in {"count", "drop"}
               PROVE  T!Min(queue) \in SuccessDates'
    BY DEF DropInv, trimJobVars
  <2> DEFINE d == T!Min(queue)
  <2>1. d \in SuccessDates /\ d < today - RetentionDays
    BY <1>0, DropsOldDate DEF DropInv
  <2> HIDE DEF d
  <2>2. d \in Int
    BY <1>0, <2>1, Days DEF SuccessDates
  <2>3. ~(InRun(j) /\ d = date[j])
    BY <1>0, <1>1, <2>1, <2>2 DEF WindowInv
  <2>4. d \in SuccessDates'
    BY <2>1, <2>3 DEF SuccessDates, RunLocal
  <2> QED BY <2>4 DEF d
<1> QED BY <1>5, <1>6, <1>7

\* What is owed changes only where a run succeeds.
LEMMA OwedSame ==
    ASSUME RInv, NEW j \in Jobs, UNCHANGED <<pg, trimmed, late>>,
           \A i \in Jobs, d \in Dates : RunSucceeded(i, d)' <=> RunSucceeded(i, d),
           \/ UNCHANGED staged
           \/ InRun(j) /\ staged' = [staged EXCEPT ![<<j, date[j]>>] = rows[j]]
    PROVE  \A t \in TripIDs : Owed(t)' <=> Owed(t)
<1> SUFFICES ASSUME NEW t \in TripIDs PROVE Claimed(t)' <=> Claimed(t)
  BY DEF Owed
<1>0. EventDate[t] \in Dates /\ staged \in [Runs -> SUBSET TripIDs]
  BY TripsAssumption DEF RInv, SafeInv, TypeInv, TypeOK
<1>1. CASE UNCHANGED staged
  BY <1>0, <1>1 DEF Claimed
<1>2. CASE InRun(j) /\ staged' = [staged EXCEPT ![<<j, date[j]>>] = rows[j]]
  <2>1. ~RunSucceeded(j, date[j])
    BY <1>2, NotYetSealed DEF RInv, SafeInv, Sealed
  <2>2. \A i \in Jobs : RunSucceeded(i, EventDate[t]) =>
           staged'[<<i, EventDate[t]>>] = staged[<<i, EventDate[t]>>]
    BY <1>0, <1>2, <2>1 DEF Runs
  <2> QED BY <1>0, <2>2 DEF Claimed
<1> QED BY <1>1, <1>2

\* What each kind of step keeps of the rest of the invariant.
KeepsOwed == OwedInv' /\ ReadInv' /\ KeptInv'

\* A date of the window has nothing in the lake alone.
LEMMA NotTrimmed ==
    ASSUME RInv, NEW j \in Jobs, InRun(j), NEW t \in TripIDs, EventDate[t] = date[j]
    PROVE  t \notin trimmed
<1>1. /\ TypeInv /\ TP!TInv /\ WindowInv /\ Running(j)
  BY DEF RInv, SafeInv, InRun
<1>2. /\ today - RetentionDays <= date[j] /\ date[j] \in Int
      /\ today - RetentionDays \in Int
  BY <1>1, Days DEF WindowInv
<1> QED BY <1>1, <1>2 DEF WindowInv

LEMMA ReadsKeep ==
    ASSUME RInv, NEW j \in Jobs, Reads(j), RunLocal(j), UNCHANGED <<trimmed, late>>
    PROVE  KeepsOwed
<1>0. /\ TypeInv /\ OwedInv /\ ReadInv /\ KeptInv
      /\ pc \in [Jobs -> PCs] /\ rows \in [Jobs -> SUBSET TripIDs]
  BY DEF RInv, SafeInv, TypeInv, TypeOK
<1>1. /\ pc' = [pc EXCEPT ![j] = "upload"] /\ pc[j] = "read"
      /\ rows'[j] = PgRows(date[j])
      /\ UNCHANGED <<pg, lake, staged, manifest, date, results>>
  BY <1>0 DEF Reads, Step, Goto, RunLocal
<1>2. \A t \in TripIDs : Owed(t)' <=> Owed(t)
  BY <1>1, OwedSame
<1>3. \A t : Stored(t)' <=> Stored(t)
  BY <1>1 DEF Stored
<1>4. OwedInv'
  BY <1>0, <1>1, <1>2, <1>3 DEF OwedInv
<1>5. ReadInv'
  <2> SUFFICES ASSUME NEW i \in Jobs, HasRead(i)'
               PROVE  /\ rows'[i] \subseteq pg \cup trimmed
                      /\ \A t \in TripIDs : EventDate[t] = date[i] /\ Owed(t)
                                               => t \in rows'[i]
    BY <1>1, <1>2 DEF ReadInv
  <2>1. CASE i # j
    BY <1>0, <2>1 DEF RunLocal, ReadInv, HasRead, Uploaded
  <2>2. CASE i = j
    <3>1. InRun(j)
      BY <1>1 DEF InRun, Running, Exits
    <3>2. \A t \in TripIDs : EventDate[t] = date[j] /\ Owed(t) => t \in pg
      BY <1>0, <3>1, NotTrimmed DEF OwedInv
    <3> QED BY <1>1, <2>2, <3>2 DEF PgRows
  <2> QED BY <2>1, <2>2
<1>6. KeptInv'
  <2>1. \A i \in Jobs : Filling(i) => Filling(i)'
    BY <1>0, <1>1 DEF Filling
  <2> QED BY <1>0, <1>1, <1>2, <1>3, <2>1 DEF KeptInv, Kept, SuccessDates
<1> QED BY <1>4, <1>5, <1>6 DEF KeepsOwed

LEMMA MovesKeep ==
    ASSUME RInv, NEW j \in Jobs, Moves(j), RunLocal(j), UNCHANGED <<trimmed, late>>
    PROVE  KeepsOwed
<1>0. OwedInv /\ ReadInv /\ KeptInv
  BY DEF RInv
<1>1. UNCHANGED <<pg, lake, rows, manifest, date, results>>
  BY DEF Moves, Goto, RunLocal
<1>2. \A t \in TripIDs : Owed(t)' <=> Owed(t)
  BY <1>1, OwedSame DEF Moves
<1>3. \A t : Stored(t)' <=> Stored(t)
  BY <1>1 DEF Stored
<1>4. OwedInv'
  BY <1>0, <1>1, <1>2, <1>3 DEF OwedInv
<1>5. \A i \in Jobs : /\ HasRead(i)' => HasRead(i)
                      /\ Filling(i) => Filling(i)'
  BY DEF Moves, RunLocal, HasRead, Uploaded, Filling
<1>6. ReadInv'
  BY <1>0, <1>1, <1>2, <1>5 DEF ReadInv
<1>7. KeptInv'
  BY <1>0, <1>1, <1>2, <1>3, <1>5 DEF KeptInv, Kept, SuccessDates
<1> QED BY <1>4, <1>6, <1>7 DEF KeepsOwed

LEMMA ClearsKeep ==
    ASSUME RInv, NEW j \in Jobs, Clears(j), RunLocal(j), UNCHANGED <<trimmed, late>>
    PROVE  KeepsOwed
<1>0. OwedInv /\ ReadInv /\ KeptInv /\ pc \in [Jobs -> PCs]
  BY DEF RInv, SafeInv, TypeInv, TypeOK
<1>1. /\ pc[j] = "delete" /\ pc'[j] = "insert" /\ InRun(j)
      /\ lake' = lake \ Partition(date[j])
      /\ UNCHANGED <<pg, staged, rows, manifest, date, results>>
  BY <1>0 DEF Clears, Step, Goto, RunLocal, InRun, Running, Exits
<1>2. \A t \in TripIDs : Owed(t)' <=> Owed(t)
  BY <1>1, OwedSame
<1>3. \A t \in TripIDs : EventDate[t] # date[j] /\ Stored(t) => Stored(t)'
  BY <1>1 DEF Stored, Partition
<1>4. OwedInv'
  BY <1>0, <1>1, <1>2, <1>3, NotTrimmed DEF OwedInv
<1>5. ReadInv'
  <2>1. \A i \in Jobs : HasRead(i)' => HasRead(i)
    BY <1>1 DEF RunLocal, HasRead, Uploaded
  <2> QED BY <1>0, <1>1, <1>2, <2>1 DEF ReadInv
<1>6. KeptInv'
  <2> SUFFICES ASSUME NEW d \in SuccessDates, d # date[j]
               PROVE  Kept(d)' \/ \E i \in Jobs : date[i] = d /\ Filling(i)'
    BY <1>1 DEF KeptInv, SuccessDates, Filling
  <2>1. CASE Kept(d)
    BY <1>2, <1>3, <2>1 DEF Kept
  <2>2. CASE \E i \in Jobs : date[i] = d /\ Filling(i)
    BY <2>2 DEF RunLocal, Filling
  <2> QED BY <1>0, <2>1, <2>2 DEF KeptInv
<1> QED BY <1>4, <1>5, <1>6 DEF KeepsOwed

LEMMA FillsKeep ==
    ASSUME RInv, NEW j \in Jobs, Fills(j), RunLocal(j), UNCHANGED <<trimmed, late>>
    PROVE  KeepsOwed
<1>0. /\ OwedInv /\ ReadInv /\ KeptInv /\ pc \in [Jobs -> PCs] /\ StagedIsRead
  BY DEF RInv, SafeInv, TypeInv, TypeOK
<1>1. /\ pc[j] = "insert" /\ pc'[j] = "drop"
      /\ lake' = lake \cup CopiesOf(j, staged[<<j, date[j]>>])
      /\ UNCHANGED <<pg, staged, rows, manifest, date, results>>
  BY <1>0 DEF Fills, Step, Goto, RunLocal
<1>2. \A t \in TripIDs : Owed(t)' <=> Owed(t)
  BY <1>1, OwedSame
<1>3. \A t \in TripIDs : Stored(t) => Stored(t)'
  BY <1>1 DEF Stored
<1>4. OwedInv'
  BY <1>0, <1>1, <1>2, <1>3 DEF OwedInv
<1>5. ReadInv'
  <2>1. \A i \in Jobs : HasRead(i)' => HasRead(i)
    BY <1>1 DEF RunLocal, HasRead, Uploaded
  <2> QED BY <1>0, <1>1, <1>2, <2>1 DEF ReadInv
<1>6. Kept(date[j])'
  <2> SUFFICES ASSUME NEW t \in TripIDs, EventDate[t] = date[j], Owed(t)
               PROVE  Stored(t)'
    BY <1>1, <1>2 DEF Kept
  <2>1. HasRead(j) /\ Uploaded(j)
    BY <1>1 DEF HasRead, Uploaded
  <2>2. t \in staged[<<j, date[j]>>]
    BY <1>0, <2>1 DEF ReadInv, StagedIsRead
  <2>3. [id |-> t, job |-> j] \in lake'
    BY <1>1, <2>2 DEF CopiesOf
  <2> QED BY <2>3 DEF Stored
<1>7. KeptInv'
  <2> SUFFICES ASSUME NEW d \in SuccessDates, d # date[j]
               PROVE  Kept(d)' \/ \E i \in Jobs : date[i] = d /\ Filling(i)'
    BY <1>1, <1>6 DEF KeptInv, SuccessDates
  <2>1. CASE Kept(d)
    BY <1>2, <1>3, <2>1 DEF Kept
  <2>2. CASE \E i \in Jobs : date[i] = d /\ Filling(i)
    BY <2>2 DEF RunLocal, Filling
  <2> QED BY <1>0, <2>1, <2>2 DEF KeptInv
<1> QED BY <1>4, <1>5, <1>7 DEF KeepsOwed

\* A run that may have succeeded has filled its date.
LEMMA FilledStored ==
    ASSUME RInv, NEW j \in Jobs, pc[j] = "manifest",
           NEW t \in staged[<<j, date[j]>>]
    PROVE  Stored(t)
<1>1. Committed(j) /\ OwnsDate /\ CopiesThere
  BY DEF Committed, RInv, SerialInv, SafeInv
<1>2. [id |-> t, job |-> j] \in lake
  BY <1>1 DEF OwnsDate, CopiesThere, CopiesOf
<1> QED BY <1>2 DEF Stored

LEMMA EndsKeep ==
    ASSUME RInv, NEW j \in Jobs, Ends(j), RunLocal(j), UNCHANGED <<trimmed, late>>
    PROVE  KeepsOwed
<1>0. /\ OwedInv /\ ReadInv /\ KeptInv /\ StagedIsRead /\ StagedOfDate /\ TypeInv
      /\ InRun(j) /\ Running(j) /\ date[j] \in Dates
      /\ pc \in [Jobs -> PCs]
      /\ results \in [Jobs -> Seq(DateResults)]
      /\ date \in [Jobs -> Dates \cup {None}]
      /\ manifest \in [Dates -> Manifests \cup {None}]
      /\ pg' = pg /\ lake' = lake /\ staged' = staged
  BY DEF RInv, SafeInv, TypeInv, TypeOK, LoopOK, Ends, RunLocal, InRun
<1>1. PICK success \in BOOLEAN, count \in Counts :
         EndRun(j, success, count) /\ (success => pc[j] = "manifest")
  BY DEF Ends
<1>2. \A i \in Jobs, d \in Dates :
         RunSucceeded(i, d)' <=>
            RunSucceeded(i, d) \/ (i = j /\ d = date[j] /\ success)
  BY <1>0, <1>1, EndRunResults DEF RInv, SafeInv, RunLocal
<1>3. pc'[j] \in {"ok", "error", "read", "summary"}
  BY <1>0, <1>1 DEF EndRun
<1>4. \A t : Stored(t)' <=> Stored(t)
  BY <1>0 DEF Stored
<1>5. ASSUME NEW t \in TripIDs, Owed(t)'
      PROVE  \/ Owed(t)
             \/ pc[j] = "manifest" /\ EventDate[t] = date[j] /\ t \in rows[j]
  <2>1. EventDate[t] \in Dates
    BY TripsAssumption
  <2>2. CASE t \in (pg \cup trimmed) \ late
    BY <2>2 DEF Owed
  <2>3. CASE Claimed(t)'
    <3>1. PICK i \in Jobs : /\ RunSucceeded(i, EventDate[t])'
                            /\ t \in staged[<<i, EventDate[t]>>]
      BY <1>0, <2>3 DEF Claimed
    <3>2. CASE RunSucceeded(i, EventDate[t])
      BY <3>1, <3>2 DEF Owed, Claimed
    <3>3. CASE i = j /\ EventDate[t] = date[j] /\ success
      <4>1. Uploaded(j) /\ pc[j] = "manifest"
        BY <1>1, <3>3 DEF Uploaded
      <4> QED BY <1>0, <3>1, <3>3, <4>1 DEF StagedIsRead
    <3> QED BY <1>2, <2>1, <3>1, <3>2, <3>3
  <2> QED BY <1>0, <1>5, <2>2, <2>3 DEF Owed
<1>6. OwedInv'
  <2>1. pc[j] = "manifest" => rows[j] \subseteq pg \cup trimmed
    BY <1>0 DEF ReadInv, HasRead, Uploaded
  <2> QED BY <1>0, <1>4, <1>5, <2>1, NotTrimmed DEF OwedInv
<1>7. ReadInv'
  <2> SUFFICES ASSUME NEW i \in Jobs, HasRead(i)'
               PROVE  FALSE
    BY DEF ReadInv
  <2>1. i # j
    BY <1>3 DEF HasRead, Uploaded
  <2>2. Running(i)
    BY <2>1 DEF RunLocal, HasRead, Uploaded, Running, Exits
  <2> QED BY <1>0, <2>1, <2>2 DEF RInv, SerialInv, Alone
<1>8. ASSUME NEW d \in Dates, d = date[j], pc[j] = "manifest"
      PROVE  Kept(d)'
  <2> SUFFICES ASSUME NEW t \in TripIDs, EventDate[t] = d, Owed(t)'
               PROVE  Stored(t)
    BY <1>4 DEF Kept
  <2>a. EventDate[t] = date[j] /\ pc[j] = "manifest"
    BY <1>8
  <2>1. HasRead(j) /\ Uploaded(j)
    BY <2>a DEF HasRead, Uploaded
  <2>2. t \in rows[j]
    BY <1>0, <1>5, <2>a, <2>1 DEF ReadInv
  <2>3. t \in staged[<<j, date[j]>>]
    BY <1>0, <2>1, <2>2 DEF StagedIsRead
  <2> QED BY <2>a, <2>3, FilledStored
<1>9. KeptInv'
  <2> SUFFICES ASSUME NEW d \in Dates, d \in SuccessDates'
               PROVE  Kept(d)' \/ \E i \in Jobs : date'[i] = d /\ Filling(i)'
    BY DEF KeptInv, SuccessDates
  <2>1. CASE d = date[j] /\ pc[j] = "manifest"
    BY <1>8, <2>1
  <2>2. CASE ~(d = date[j] /\ pc[j] = "manifest")
    <3>1. d \in SuccessDates /\ (d = date[j] => ~Filling(j))
      BY <1>0, <2>2 DEF SuccessDates, Ends, PutManifest
    <3>2. CASE Kept(d)
      BY <1>4, <1>5, <2>2, <3>2 DEF Kept
    <3>3. CASE \E i \in Jobs : date[i] = d /\ Filling(i)
      <4>1. PICK i \in Jobs : date[i] = d /\ Filling(i)
        BY <3>3
      <4>2. i # j
        BY <3>1, <4>1
      <4>3. date'[i] = d /\ Filling(i)'
        BY <4>1, <4>2 DEF RunLocal, Filling
      <4> QED BY <4>3
    <3> QED BY <1>0, <3>1, <3>2, <3>3 DEF KeptInv
  <2> QED BY <2>1, <2>2
<1> QED BY <1>6, <1>7, <1>9 DEF KeepsOwed

LEMMA RunKeepsAll ==
    ASSUME Undisturbed, RInv, ExportStep
    PROVE  RInv'
<1>0. /\ SafeInv /\ SerialInv /\ TP!TInv /\ TypeInv /\ FailuresTold
      /\ OneByOne /\ "crash" \notin Faults /\ inflight = {}
      /\ pg \subseteq TripIDs
  BY DEF RInv, SafeInv, SerialInv, TypeInv, TypeOK, Undisturbed
<1>1. PICK j \in Jobs : JobStep(j)
  BY <1>0 DEF ExportStep, Crash
<1>2. UNCHANGED <<trimJobVars, today, trimmed, late>>
  BY DEF ExportStep
<1>3. RunStep(j) /\ FailsOnlyWith(j) /\ RunLocal(j)
  BY <1>0, <1>1, RunKinds, RunIsLocal
<1>4. SafeInv' /\ SerialInv'
  <2>1. [Next]_vars
    BY <1>1 DEF Next
  <2> QED BY <1>0, <2>1, SafeStep, SerialStep DEF SafeInv
<1>5. TP!TInv'
  <2>1. /\ today \in Dates /\ today <= today' /\ today' = today
        /\ pg' \subseteq TripIDs
    BY <1>0, <1>2, <1>3, Days DEF RunLocal, TP!TInv, TP!TrimTypeOK
  <2> QED BY <1>0, <1>2, <2>1, TrimUndisturbed
<1>6. WindowInv' /\ FailuresTold' /\ DropInv'
  BY <1>2, <1>3, RunKeepsWindow
<1>7. OwedInv' /\ ReadInv' /\ KeptInv'
  BY <1>2, <1>3, ReadsKeep, MovesKeep, ClearsKeep, FillsKeep, EndsKeep
  DEF RunStep, KeepsOwed
<1> QED BY <1>4, <1>5, <1>6, <1>7 DEF RInv

-----------------------------------------------------------------------------
(***************************************************************************)
(* Part 5: the theorems.                                                   *)
(***************************************************************************)
LEMMA RetentionInitial == RetentionInit => RInv
<1> SUFFICES ASSUME RetentionInit PROVE RInv
  OBVIOUS
<1>1. SafeInv /\ SerialInv /\ TP!TInv
  BY SafeInit, SerialInit, TrimInitially DEF RetentionInit
<1>2. /\ \A j \in Jobs : pc[j] = "off"
      /\ \A d \in Dates : manifest[d] = None
      /\ \A j \in Jobs, d \in Dates : ~RunSucceeded(j, d)
      /\ pg = {} /\ trimmed = {} /\ tpc = "idle"
  BY DEF RetentionInit, Init, T!TrimInit, SucceededOn
<1>3. \A j \in Jobs : ~Running(j) /\ ~InRun(j) /\ ~HasRead(j)
  BY <1>2 DEF Running, InRun, HasRead, Uploaded
<1>4. \A t \in TripIDs : ~Owed(t)
  BY <1>2, TripsAssumption DEF Owed, Claimed
<1>5. WindowInv /\ FailuresTold
  BY <1>2, <1>3 DEF WindowInv, FailuresTold
<1>6. OwedInv /\ ReadInv /\ KeptInv /\ DropInv
  BY <1>2, <1>3, <1>4 DEF OwedInv, ReadInv, KeptInv, SuccessDates, DropInv
<1> QED BY <1>1, <1>5, <1>6 DEF RInv

LEMMA RetentionStep ==
    ASSUME Undisturbed, RInv, [RetentionNext]_allVars
    PROVE  RInv'
<1>1. CASE UNCHANGED allVars
  <2>1. /\ UNCHANGED exportVars /\ pg' = pg /\ manifest' = manifest
        /\ UNCHANGED <<trimJobVars, today, trimmed, late>>
    BY <1>1 DEF allVars, vars, exportVars, bucketVars
  <2>2. pg' \subseteq TripIDs /\ SafeInv /\ SerialInv /\ TP!TInv /\ TypeInv
    BY <2>1 DEF RInv, SafeInv, TypeInv, TypeOK
  <2>3. SafeInv' /\ SerialInv'
    BY <2>1, <2>2, ExportUndisturbed
  <2>4. TP!TInv'
    <3>1. today' \in Dates /\ today <= today'
      BY <2>1, <2>2, Days DEF TP!TInv, TP!TrimTypeOK
    <3> QED BY <2>1, <2>2, <3>1, TrimUndisturbed
  <2>5. \A t : (Owed(t)' <=> Owed(t)) /\ (Stored(t)' <=> Stored(t))
    <3>1. \A t : (Claimed(t)' <=> Claimed(t)) /\ (Stored(t)' <=> Stored(t))
      BY <1>1 DEF allVars, vars, lakeVars, bucketVars, loopVars, Claimed, Stored
    <3> QED BY <2>1, <3>1 DEF Owed
  <2>6. UNCHANGED <<lake, rows, pc, date, span>>
    BY <2>1 DEF exportVars, lakeVars, localVars, loopVars
  <2>7. WindowInv' /\ FailuresTold' /\ DropInv'
    BY <2>1, <2>6
    DEF RInv, WindowInv, InRun, Running, FailuresTold, DropInv, SuccessDates,
        trimJobVars
  <2>8. OwedInv' /\ ReadInv' /\ KeptInv'
    BY <2>1, <2>5, <2>6
    DEF RInv, OwedInv, ReadInv, HasRead, Uploaded, KeptInv, Kept, Filling,
        SuccessDates
  <2> QED BY <2>3, <2>4, <2>7, <2>8 DEF RInv
<1> QED
  BY <1>1, RowKeepsAll, StartKeepsAll, RunKeepsAll, TrimKeepsAll, DayKeepsAll
  DEF RetentionNext

LEMMA RetentionSafe == RInv => TrimmedRowsInLake /\ ExportedRowsKept
<1> SUFFICES ASSUME RInv PROVE TrimmedRowsInLake /\ ExportedRowsKept
  OBVIOUS
<1>0. /\ OwedInv /\ StagedOfDate
      /\ staged \in [Runs -> SUBSET TripIDs]
  BY DEF RInv, SafeInv, TypeInv, TypeOK
<1>1. TrimmedRowsInLake
  <2>1. \A t \in trimmed \ late : Stored(t)
    BY <1>0 DEF OwedInv, Owed
  <2> QED BY <2>1 DEF TrimmedRowsInLake, Stored
<1>2. ExportedRowsKept
  <2> SUFFICES ASSUME NEW j \in Jobs, NEW d \in Dates, RunSucceeded(j, d),
                      NEW t \in staged[<<j, d>>]
               PROVE  t \in pg \/ Stored(t)
    BY DEF ExportedRowsKept, Stored
  <2>1. t \in TripIDs /\ EventDate[t] = d
    BY <1>0 DEF StagedOfDate, OfDate
  <2>2. Owed(t)
    BY <2>1 DEF Owed, Claimed
  <2> QED BY <1>0, <2>1, <2>2 DEF OwedInv
<1> QED BY <1>1, <1>2

\* A row that came on its event_date and that trim removed from Postgres is in
\* the lake: after re-runs, failed runs that say so, late rows, and trims that
\* fail or are killed anywhere (trim/main.go:2-5).
THEOREM TrimmedInLake ==
    ASSUME Undisturbed
    PROVE  RetentionSpec => []TrimmedRowsInLake
<1>1. RInv /\ [RetentionNext]_allVars => RInv'
  BY RetentionStep
<1> QED BY RetentionInitial, RetentionSafe, <1>1, PTL DEF RetentionSpec

\* What a successful run read is in Postgres or in the lake ever after
\* (trim/main.go:155-182).
THEOREM ExportedKept ==
    ASSUME Undisturbed
    PROVE  RetentionSpec => []ExportedRowsKept
<1>1. RInv /\ [RetentionNext]_allVars => RInv'
  BY RetentionStep
<1> QED BY RetentionInitial, RetentionSafe, <1>1, PTL DEF RetentionSpec
=============================================================================
