----------------------------- MODULE TrimProofs -----------------------------
(***************************************************************************)
(* Proofs about Trim, for every set of dates and of trips, every retention *)
(* and lookahead, and every choice of faults.                              *)
(***************************************************************************)
EXTENDS Trim, FiniteSetTheorems, WellFoundedInduction, TLAPS

(***************************************************************************)
(* Part 1: the loop takes the oldest date first, so its queue must have    *)
(* one.  By induction over the subsets of a finite set: of the sets        *)
(* without a least element a smallest one would have to be {}.             *)
(***************************************************************************)
Least(S) == \E x \in S : \A y \in S : x =< y

LEMMA LeastExists ==
    ASSUME NEW S \in SUBSET Int, IsFiniteSet(S), S # {}
    PROVE  Least(S)
<1> DEFINE Bad == {X \in FiniteSubsetsOf(S) : X # {} /\ ~Least(X)}
<1>1. SUFFICES ASSUME Bad # {} PROVE FALSE
  BY FS_Subset DEF FiniteSubsetsOf
<1>2. IsWellFoundedOn(StrictSubsetOrdering(S), FiniteSubsetsOf(S))
  BY FS_StrictSubsetOrderingWellFounded
<1>3. PICK X \in Bad : \A Y \in Bad : ~(<<Y, X>> \in StrictSubsetOrdering(S))
  <2>1. Bad \in SUBSET FiniteSubsetsOf(S)
    OBVIOUS
  <2> HIDE DEF Bad
  <2> QED BY <1>1, <1>2, <2>1, WFMin
<1>4. X \subseteq S /\ IsFiniteSet(X) /\ X # {} /\ ~Least(X)
  BY DEF FiniteSubsetsOf
<1>5. PICK a \in X : TRUE
  BY <1>4
<1> DEFINE Y == X \ {a}
<1>6. IsFiniteSet(Y) /\ Y \subseteq S /\ Y # X
  BY <1>4, <1>5, FS_Subset
<1>7. Y = {} \/ Least(Y)
  <2>1. <<Y, X>> \in StrictSubsetOrdering(S)
    BY <1>4, <1>6 DEF StrictSubsetOrdering
  <2>2. Y \notin Bad
    BY <1>3, <2>1
  <2> QED BY <1>6, <2>2 DEF FiniteSubsetsOf
<1>8. CASE Y = {}
  <2>1. \A y \in X : y = a
    BY <1>8
  <2> QED BY <1>4, <1>5, <2>1 DEF Least
<1>9. CASE Least(Y)
  <2>1. PICK x \in Y : \A y \in Y : x =< y
    BY <1>9 DEF Least
  <2>2. CASE x =< a
    <3>1. \A y \in X : x =< y
      BY <2>1, <2>2
    <3> QED BY <1>4, <2>1, <3>1 DEF Least
  <2>3. CASE ~(x =< a)
    <3>1. \A y \in X : a =< y
      BY <1>4, <1>5, <2>1, <2>3
    <3> QED BY <1>4, <1>5, <3>1 DEF Least
  <2> QED BY <2>2, <2>3
<1> QED BY <1>7, <1>8, <1>9

\* What the loop looks at next (the list is ordered by name, main.go:127).
LEMMA MinOfQueue ==
    ASSUME NEW S \in SUBSET Int, IsFiniteSet(S), S # {}
    PROVE  Min(S) \in S
BY LeastExists DEF Least, Min

-----------------------------------------------------------------------------
(***************************************************************************)
(* Part 2: the invariant.  What the loop has listed stays a partition older *)
(* than the cutoff of the run until its turn comes, because only the loop  *)
(* itself drops partitions, and the run's day is never ahead of the        *)
(* calendar, so the cutoff is never ahead of today's.                      *)
(***************************************************************************)
InLoop == tpc \in {"manifest", "count", "drop"}

LoopOK ==
    /\ IsFiniteSet(partitions)
    /\ runDay <= today
    /\ InLoop => queue \subseteq Candidates
    /\ tpc \in {"count", "drop"} => queue # {}

TInv == TrimTypeOK /\ LoopOK

LEMMA RowsCounted ==
    ASSUME NEW S \in SUBSET TripIDs
    PROVE  Cardinality(S) \in 0..Cardinality(TripIDs)
BY TrimAssumption, FS_Subset, FS_CardinalityType

LEMMA HeadOfQueue ==
    ASSUME TInv, InLoop, queue # {}
    PROVE  /\ Min(queue) \in queue
           /\ Min(queue) \in Dates \cap partitions
           /\ Min(queue) < runDay - RetentionDays
<1>1. queue \subseteq Candidates /\ queue \subseteq Int
  BY TrimAssumption DEF TInv, LoopOK, TrimTypeOK
<1>2. IsFiniteSet(queue)
  BY <1>1, FS_Subset DEF TInv, LoopOK, Candidates
<1>3. Min(queue) \in queue
  BY <1>1, <1>2, MinOfQueue
<1> QED BY <1>1, <1>3 DEF Candidates

LEMMA TrimInitial == Init => TInv
<1> SUFFICES ASSUME Init PROVE TInv
  OBVIOUS
<1>1. today \in Dates /\ today \in Int
  BY TrimAssumption DEF Init, Min
<1>2. /\ partitions = today .. today + LookaheadDays - 1
      /\ IsFiniteSet(partitions)
  BY <1>1, FS_Interval, TrimAssumption DEF Init
<1>3. 0 \in 0..Cardinality(TripIDs)
  BY TrimAssumption, FS_CardinalityType
<1>4. TrimTypeOK
  BY <1>1, <1>2, <1>3, TrimAssumption DEF Init, TrimInit, TrimTypeOK
<1>5. LoopOK
  BY <1>1, <1>2 DEF Init, TrimInit, LoopOK, InLoop
<1> QED BY <1>4, <1>5 DEF TInv

\* The parts of a run that end it or bring it on without a statement.
LEMMA CreateKeeps ==
    ASSUME TInv, NEW d \in Int, CreatePartition(d) \/ UNCHANGED partitions
    PROVE  /\ partitions' \subseteq Int /\ IsFiniteSet(partitions')
           /\ partitions \subseteq partitions'
<1>1. partitions \subseteq Int /\ IsFiniteSet(partitions)
  BY DEF TInv, TrimTypeOK, LoopOK
<1>2. partitions' = partitions \/ partitions' = partitions \cup {d}
  BY DEF CreatePartition
<1> QED BY <1>1, <1>2, FS_AddElement

LEMMA EnsureKeeps ==
    ASSUME TInv, EnsureDay, UNCHANGED <<evidence, today>>
    PROVE  TInv'
<1>1. /\ tpc = "ensure" /\ tpc' \in {"ensure", "list", "failed"}
      /\ ensureDay \in Int /\ runDay \in Int /\ LookaheadDays \in Int
      /\ ensureDay' \in {ensureDay, ensureDay + 1}
      /\ CreatePartition(ensureDay) \/ UNCHANGED partitions
      /\ missed' \in {missed, 0}
      /\ UNCHANGED <<pg, runDay, queue, counted, dropped, trimSummaries>>
  BY TrimAssumption DEF EnsureDay, Goto, Fails, Step, TInv, TrimTypeOK
<1>2. /\ partitions' \subseteq Int /\ IsFiniteSet(partitions')
      /\ partitions \subseteq partitions'
  BY <1>1, CreateKeeps
<1>3. missed' \in Nat
  BY <1>1 DEF TInv, TrimTypeOK
<1>4. TrimTypeOK'
  BY <1>1, <1>2, <1>3 DEF TInv, TrimTypeOK
<1>5. LoopOK'
  BY <1>1, <1>2 DEF TInv, LoopOK, InLoop
<1> QED BY <1>4, <1>5 DEF TInv

LEMMA ListKeeps ==
    ASSUME TInv, ListPartitions, UNCHANGED <<evidence, today>>
    PROVE  TInv'
<1>1. /\ tpc' \in {"manifest", "failed"}
      /\ \/ queue' = Candidates
         \/ tpc' = "failed" /\ UNCHANGED queue
      /\ UNCHANGED <<pg, partitions, runDay, ensureDay, counted, dropped,
                     trimSummaries, missed>>
  BY DEF ListPartitions, Goto, Fails, Step
<1>2. Candidates \subseteq Dates /\ Candidates' = Candidates
  BY <1>1 DEF Candidates
<1>3. TrimTypeOK'
  BY <1>1, <1>2 DEF TInv, TrimTypeOK
<1>4. LoopOK'
  BY <1>1, <1>2 DEF TInv, LoopOK, InLoop
<1> QED BY <1>3, <1>4 DEF TInv

LEMMA ManifestKeeps ==
    ASSUME TInv, CheckManifest, UNCHANGED <<evidence, today>>
    PROVE  TInv'
<1>1. /\ tpc = "manifest" /\ queue # {} /\ queue' \subseteq queue
      /\ tpc' \in {"manifest", "count", "failed"}
      /\ tpc' = "count" => queue' = queue
      /\ UNCHANGED <<pg, partitions, runDay, ensureDay, counted, dropped,
                     trimSummaries, missed>>
  BY DEF CheckManifest, Goto, Fails, Step
<1>2. Candidates' = Candidates
  BY <1>1 DEF Candidates
<1>3. TrimTypeOK'
  BY <1>1 DEF TInv, TrimTypeOK
<1>4. LoopOK'
  BY <1>1, <1>2 DEF TInv, LoopOK, InLoop
<1> QED BY <1>3, <1>4 DEF TInv

LEMMA CountKeeps ==
    ASSUME TInv, CountPartition, UNCHANGED <<evidence, today>>
    PROVE  TInv'
<1>1. /\ tpc = "count" /\ tpc' \in {"drop", "failed"}
      /\ counted' \in {counted, Cardinality(RowsOf(Min(queue)))}
      /\ UNCHANGED <<pg, partitions, runDay, ensureDay, queue, dropped,
                     trimSummaries, missed>>
  BY DEF CountPartition, Goto, Fails, Step
<1>2. Cardinality(RowsOf(Min(queue))) \in 0..Cardinality(TripIDs)
  BY RowsCounted DEF RowsOf, TInv, TrimTypeOK
<1>3. Candidates' = Candidates
  BY <1>1 DEF Candidates
<1>4. TrimTypeOK'
  BY <1>1, <1>2 DEF TInv, TrimTypeOK
<1>5. LoopOK'
  BY <1>1, <1>3 DEF TInv, LoopOK, InLoop
<1> QED BY <1>4, <1>5 DEF TInv

LEMMA DropKeeps ==
    ASSUME TInv, DropPartition, UNCHANGED <<evidence, today>>
    PROVE  TInv'
<1> DEFINE d == Min(queue)
           record == [date |-> d, rowCount |-> counted]
<1>1. /\ tpc = "drop" /\ tpc' \in {"manifest", "failed"}
      /\ partitions' \in {partitions, partitions \ {d}}
      /\ pg' \subseteq pg
      /\ queue' \in {queue, queue \ {d}}
      /\ tpc' = "manifest" => /\ queue' = queue \ {d}
                              /\ partitions' = partitions \ {d}
      /\ dropped' \in {dropped, dropped \cup {record}}
      /\ UNCHANGED <<runDay, ensureDay, counted, trimSummaries, missed>>
  <2>1. tpc = "drop" /\ tpc' \in {"manifest", "failed"}
    BY DEF DropPartition, Goto, Fails, Step
  <2>2. UNCHANGED <<runDay, ensureDay, counted, trimSummaries, missed>>
    BY DEF DropPartition
  <2>3. CASE Step("drop", "manifest")
    BY <2>1, <2>2, <2>3 DEF DropPartition, Fails, Step, Goto
  <2>4. CASE Fails("drop", "pg")
    BY <2>1, <2>2, <2>4 DEF DropPartition, Fails, Step, Goto
  <2> QED BY <2>3, <2>4 DEF DropPartition
<1>2. d \in Dates /\ record \in Drops
  BY <1>1, HeadOfQueue DEF TInv, TrimTypeOK, LoopOK, InLoop, Drops
<1> HIDE DEF d, record
<1>3. tpc' = "manifest" => Candidates' = Candidates \ {d}
  BY <1>1 DEF Candidates
<1>4. IsFiniteSet(partitions')
  BY <1>1, FS_RemoveElement DEF TInv, LoopOK
<1>5. TrimTypeOK'
  BY <1>1, <1>2 DEF TInv, TrimTypeOK
<1>6. LoopOK'
  BY <1>1, <1>3, <1>4 DEF TInv, LoopOK, InLoop
<1> QED BY <1>5, <1>6 DEF TInv

\* The end of a run, by itself or not.
LEMMA EndKeeps ==
    ASSUME TInv, UploadTrimSummary \/ CrashTrim, UNCHANGED <<evidence, today>>
    PROVE  TInv'
<1> DEFINE summary == [dropped |-> dropped, success |-> tpc = "summary"]
<1>1. /\ tpc' = "idle"
      /\ queue' = {} /\ counted' = 0 /\ dropped' = {} /\ ensureDay' = runDay
      /\ trimSummaries' \in
            {trimSummaries, [trimSummaries EXCEPT ![runDay] = summary]}
      /\ UNCHANGED <<pg, partitions, runDay, missed>>
  BY DEF UploadTrimSummary, CrashTrim, Goto, Step, ForgetLocals
<1>2. summary \in TrimSummaries
  BY DEF TInv, TrimTypeOK, TrimSummaries
<1>3. 0 \in 0..Cardinality(TripIDs)
  BY TrimAssumption, FS_CardinalityType
<1> HIDE DEF summary
<1>4. TrimTypeOK'
  BY <1>1, <1>2, <1>3, TrimAssumption DEF TInv, TrimTypeOK
<1>5. LoopOK'
  BY <1>1 DEF TInv, LoopOK, InLoop
<1> QED BY <1>4, <1>5 DEF TInv

\* Any step of the job leaves the invariant true.
LEMMA TrimJobKeeps ==
    ASSUME TInv, StartTrim \/ TrimStep \/ CrashTrim, UNCHANGED <<evidence, today>>
    PROVE  TInv'
<1>1. CASE StartTrim
  <2>1. TrimTypeOK'
    BY <1>1, TrimAssumption DEF StartTrim, Step, Goto, TInv, TrimTypeOK
  <2>2. LoopOK'
    BY <1>1, TrimAssumption
       DEF StartTrim, Step, Goto, TInv, TrimTypeOK, LoopOK, InLoop
  <2> QED BY <2>1, <2>2 DEF TInv
<1>2. CASE LoopDone
  <2>1. TrimTypeOK'
    BY <1>2 DEF LoopDone, Goto, localVars, TInv, TrimTypeOK
  <2>2. LoopOK'
    BY <1>2 DEF LoopDone, Goto, localVars, TInv, LoopOK, InLoop
  <2> QED BY <2>1, <2>2 DEF TInv
<1> QED
  BY <1>1, <1>2, EnsureKeeps, ListKeeps, ManifestKeeps, CountKeeps, DropKeeps,
     EndKeeps DEF TrimStep

\* The environment: rows, manifests and days, the job standing still.
LEMMA OthersKeep ==
    ASSUME TInv, pg' \subseteq TripIDs, evidence' \subseteq Dates,
           today' \in Dates, today <= today', UNCHANGED trimVars
    PROVE  TInv'
<1>1. today \in Int /\ today' \in Int /\ runDay \in Int
  BY TrimAssumption DEF TInv, TrimTypeOK
<1>2. UNCHANGED <<partitions, tpc, runDay, ensureDay, queue, counted, dropped,
                  trimSummaries, missed>>
  BY DEF trimVars, localVars
<1>3. TrimTypeOK'
  BY <1>2 DEF TInv, TrimTypeOK
<1>4. LoopOK'
  BY <1>1, <1>2 DEF TInv, LoopOK, InLoop, Candidates
<1> QED BY <1>3, <1>4 DEF TInv

LEMMA TrimInductive ==
    ASSUME TInv, [Next]_vars
    PROVE  TInv'
<1>0. today \in Int
  BY TrimAssumption DEF TInv, TrimTypeOK
<1>1. ASSUME NEW t \in TripIDs, RowInserted(t) PROVE TInv'
  BY <1>0, <1>1, OthersKeep DEF RowInserted, TInv, TrimTypeOK
<1>2. ASSUME NEW d \in Dates, EvidenceChanges(d) PROVE TInv'
  BY <1>0, <1>2, OthersKeep DEF EvidenceChanges, TInv, TrimTypeOK
<1>3. CASE DayPasses
  BY <1>0, <1>3, OthersKeep DEF DayPasses, TInv, TrimTypeOK
<1>4. CASE (StartTrim \/ TrimStep \/ CrashTrim) /\ UNCHANGED <<evidence, today>>
  BY <1>4, TrimJobKeeps
<1>5. CASE UNCHANGED vars
  BY <1>0, <1>5, OthersKeep DEF vars, TInv, TrimTypeOK
<1> QED BY <1>1, <1>2, <1>3, <1>4, <1>5 DEF Next

\* Every variable of the trim model has its type; in particular the count of a
\* partition and the dates of a summary are those of the table.
THEOREM TrimTypeCorrect == Spec => []TrimTypeOK
<1>1. TInv => TrimTypeOK
  BY DEF TInv
<1> QED BY TrimInitial, TrimInductive, <1>1, PTL DEF Spec

\* What a step takes from Postgres.
LEMMA OldRowsOnly ==
    ASSUME TInv, [Next]_vars, NEW t \in pg \ pg'
    PROVE  EventDate[t] < today - RetentionDays /\ EventDate[t] \in partitions
<1>1. DropPartition /\ pg' # pg
  BY DEF Next, vars, RowInserted, EvidenceChanges, DayPasses, StartTrim, TrimStep,
         CrashTrim, EnsureDay, ListPartitions, CheckManifest, CountPartition,
         LoopDone, UploadTrimSummary
<1>2. tpc = "drop" /\ pg' = pg \ RowsOf(Min(queue))
  BY <1>1 DEF DropPartition, Step, Fails
<1>3. EventDate[t] = Min(queue)
  BY <1>2 DEF RowsOf
<1>4. Min(queue) \in Dates \cap partitions /\ Min(queue) < runDay - RetentionDays
  BY <1>2, HeadOfQueue DEF TInv, LoopOK, InLoop
<1>5. /\ runDay \in Int /\ today \in Int /\ RetentionDays \in Int
      /\ runDay <= today
  BY TrimAssumption DEF TInv, LoopOK, TrimTypeOK
<1>6. Min(queue) \in Int
  BY <1>4, TrimAssumption
<1> QED BY <1>3, <1>4, <1>5, <1>6

\* Whatever fails, is killed or happens unanswered, and however many days pass
\* during a run: no row inside the retention window is removed, and none of the
\* default partition (main.go:148).
THEOREM TrimKeepsWindow == Spec => WindowKept
<1>1. TInv /\ [Next]_vars =>
         [\A t \in pg \ pg' : /\ EventDate[t] < today - RetentionDays
                              /\ EventDate[t] \in partitions]_vars
  BY OldRowsOnly
<1> QED BY TrimInitial, TrimInductive, <1>1, PTL DEF Spec, WindowKept

-----------------------------------------------------------------------------
(***************************************************************************)
(* Part 3: the default partition, on a schedule that starts the job often  *)
(* enough, however its runs end.  Let c be the day of the last run whose   *)
(* ensure loop came through.  Its window still has its partitions from the *)
(* day of the present run on, and each day of a run since then is at most  *)
(* TrimPeriod after the one before.                                        *)
(***************************************************************************)
OnSchedule == OnTime /\ TrimPeriod \in Nat

\* The days c, c+1, ... that an ensure loop which began on day c covers.
Window(c) == c .. c + LookaheadDays - 1

Covers(c) == /\ c <= runDay /\ runDay <= c + missed * TrimPeriod
             /\ \A d \in Window(c) : d >= runDay => d \in partitions

Ensured == tpc = "ensure" =>
    /\ ensureDay \in runDay .. runDay + LookaheadDays
    /\ \A d \in runDay .. ensureDay - 1 : d \in partitions

CoverOK == /\ today <= runDay + TrimPeriod
           /\ \E c \in Int : Covers(c)
           /\ Ensured

DInv == TInv /\ CoverOK

LEMMA OneMore ==
    ASSUME NEW m \in Nat, NEW p \in Nat
    PROVE  m * p \in Nat /\ (m + 1) * p = m * p + p /\ 0 * p = 0
OBVIOUS

\* The numbers that the lemmas below reckon with.
LEMMA DInvNumbers ==
    ASSUME OnSchedule, DInv
    PROVE  /\ today \in Int /\ runDay \in Int /\ ensureDay \in Int
           /\ runDay <= today /\ missed \in Nat
           /\ TrimPeriod \in Nat /\ LookaheadDays \in Nat \ {0}
           /\ RetentionDays \in Nat
BY TrimAssumption DEF OnSchedule, DInv, TInv, TrimTypeOK, LoopOK

LEMMA CoverInitial == OnSchedule /\ Init => DInv
<1> SUFFICES ASSUME OnSchedule, Init PROVE DInv
  OBVIOUS
<1>1. TInv /\ today \in Int
  BY TrimInitial, TrimAssumption DEF TInv, TrimTypeOK
<1>2. /\ runDay = today /\ missed = 0 /\ tpc = "idle"
      /\ partitions = Window(today)
  BY DEF Init, TrimInit, Window
<1>3. 0 * TrimPeriod = 0 /\ TrimPeriod \in Nat
  BY OneMore DEF OnSchedule
<1>4. Covers(today) /\ today <= runDay + TrimPeriod
  BY <1>1, <1>2, <1>3 DEF Covers
<1> QED BY <1>1, <1>2, <1>4 DEF DInv, CoverOK, Ensured

\* A step of the job that leaves the partitions of its own day and later alone.
LEMMA CoverKept ==
    ASSUME DInv, TInv', UNCHANGED <<today, missed, runDay>>,
           \A d \in partitions : d >= runDay => d \in partitions',
           tpc' # "ensure"
    PROVE  DInv'
<1>1. PICK c \in Int : Covers(c)
  BY DEF DInv, CoverOK
<1>2. Covers(c)'
  BY <1>1 DEF Covers, Window
<1> QED BY <1>1, <1>2 DEF DInv, CoverOK, Ensured

\* The day of a new run is at most TrimPeriod after the one before.
LEMMA CoverStart ==
    ASSUME OnSchedule, DInv, TInv', StartTrim, UNCHANGED <<evidence, today>>
    PROVE  DInv'
<1>0. /\ tpc' = "ensure" /\ runDay' = today /\ ensureDay' = today
      /\ missed' = IF today = runDay THEN missed ELSE missed + 1
      /\ UNCHANGED partitions
  BY DEF StartTrim, Step, Goto
<1>1. PICK c \in Int : Covers(c)
  BY DEF DInv, CoverOK
<1>2. /\ today <= c + missed * TrimPeriod \/ today # runDay
      /\ today <= c + missed * TrimPeriod + TrimPeriod
      /\ c <= today
  BY <1>1, DInvNumbers, OneMore DEF Covers, DInv, CoverOK
<1>3. (missed + 1) * TrimPeriod = missed * TrimPeriod + TrimPeriod
  BY DInvNumbers, OneMore
<1>4. missed * TrimPeriod \in Nat
  BY DInvNumbers, OneMore
<1>5. today <= c + missed' * TrimPeriod
  <2>1. CASE today = runDay
    BY <1>0, <1>2, <2>1
  <2>2. CASE today # runDay
    <3>1. missed' = missed + 1
      BY <1>0, <2>2
    <3>2. missed' * TrimPeriod = missed * TrimPeriod + TrimPeriod
      BY <1>3, <3>1
    <3> QED BY <1>2, <1>4, <3>2, DInvNumbers
  <2> QED BY <2>1, <2>2
<1>6. \A d \in Window(c) : d >= today => d \in partitions
  BY <1>1, DInvNumbers DEF Covers, Window
<1>7. Covers(c)'
  BY <1>0, <1>2, <1>5, <1>6 DEF Covers, Window
<1>8. Ensured' /\ today' <= runDay' + TrimPeriod
  BY <1>0, DInvNumbers DEF Ensured
<1> QED BY <1>7, <1>8 DEF DInv, CoverOK

LEMMA CoverEnsure ==
    ASSUME OnSchedule, DInv, TInv', EnsureDay, UNCHANGED <<evidence, today>>
    PROVE  DInv'
<1>1. tpc = "ensure" /\ runDay' = runDay /\ partitions \subseteq partitions'
  BY DEF EnsureDay, CreatePartition
<1>2. PICK c \in Int : Covers(c)
  BY DEF DInv, CoverOK
<1>3. today' <= runDay' + TrimPeriod
  BY <1>1 DEF DInv, CoverOK
<1>4. CASE /\ ensureDay < runDay + LookaheadDays /\ CreatePartition(ensureDay)
           /\ ensureDay' = ensureDay + 1 /\ UNCHANGED <<tpc, missed>>
  <2>1. ensureDay \in partitions'
    BY <1>4 DEF CreatePartition
  <2>2. Ensured'
    BY <1>1, <1>4, <2>1, DInvNumbers DEF DInv, CoverOK, Ensured
  <2>3. Covers(c)'
    BY <1>1, <1>2, <1>4 DEF Covers, Window
  <2> QED BY <1>3, <2>2, <2>3 DEF DInv, CoverOK
<1>5. CASE tpc' = "failed" /\ missed' = missed
  BY <1>1, <1>5, CoverKept
<1>6. CASE /\ ensureDay = runDay + LookaheadDays /\ tpc' = "list"
           /\ missed' = 0 /\ UNCHANGED partitions
  <2>0. Window(runDay) = runDay .. ensureDay - 1
    BY <1>6, DInvNumbers DEF Window
  <2>1. \A d \in Window(runDay) : d \in partitions
    BY <1>1, <2>0 DEF DInv, CoverOK, Ensured
  <2>2. 0 * TrimPeriod = 0
    BY DInvNumbers, OneMore
  <2>3. runDay <= runDay + missed' * TrimPeriod
    BY <1>6, <2>2, DInvNumbers
  <2>4. Covers(runDay)'
    BY <1>1, <1>6, <2>1, <2>3, DInvNumbers DEF Covers, Window
  <2>5. PICK e \in Int : e = runDay
    BY DInvNumbers
  <2>6. Covers(e)'
    BY <1>1, <2>4, <2>5 DEF Covers, Window
  <2> QED BY <1>3, <1>6, <2>5, <2>6 DEF DInv, CoverOK, Ensured
<1> QED BY <1>4, <1>5, <1>6 DEF EnsureDay, Goto, Fails, Step

LEMMA CoverDrop ==
    ASSUME OnSchedule, DInv, TInv', DropPartition, UNCHANGED <<evidence, today>>
    PROVE  DInv'
<1> DEFINE d == Min(queue)
<1>1. /\ tpc = "drop" /\ tpc' \in {"manifest", "failed"}
      /\ UNCHANGED <<runDay, missed>>
  BY DEF DropPartition, Goto, Fails, Step
<1>2. partitions' \in {partitions, partitions \ {d}}
  BY DEF DropPartition
<1>3. d \in Int /\ d < runDay - RetentionDays
  BY <1>1, HeadOfQueue, TrimAssumption DEF DInv, TInv, LoopOK, InLoop
<1> HIDE DEF d
<1>4. \A e \in partitions : e >= runDay => e \in partitions'
  BY <1>2, <1>3, DInvNumbers
<1> QED BY <1>1, <1>4, CoverKept

LEMMA CoverInductive ==
    ASSUME OnSchedule, DInv, [Next]_vars
    PROVE  DInv'
<1>0. TInv'
  BY TrimInductive DEF DInv
<1>1. ASSUME UNCHANGED trimVars, today' <= runDay + TrimPeriod PROVE DInv'
  <2>1. PICK c \in Int : Covers(c)
    BY DEF DInv, CoverOK
  <2>2. UNCHANGED <<partitions, tpc, runDay, ensureDay, missed>>
    BY <1>1 DEF trimVars, localVars
  <2>3. Covers(c)' /\ Ensured'
    BY <2>1, <2>2 DEF DInv, CoverOK, Covers, Ensured, Window
  <2> QED BY <1>0, <1>1, <2>2, <2>3 DEF DInv, CoverOK
<1>2. CASE \/ \E t \in TripIDs : RowInserted(t)
           \/ \E d \in Dates : EvidenceChanges(d)
           \/ UNCHANGED vars
  <2>1. UNCHANGED trimVars /\ UNCHANGED today
    BY <1>2 DEF RowInserted, EvidenceChanges, vars
  <2> QED BY <1>1, <2>1 DEF DInv, CoverOK
<1>3. CASE DayPasses
  BY <1>1, <1>3 DEF DayPasses, OnSchedule
<1>4. CASE (StartTrim \/ TrimStep \/ CrashTrim) /\ UNCHANGED <<evidence, today>>
  <2>1. CASE \/ ListPartitions \/ CheckManifest \/ CountPartition \/ LoopDone
             \/ UploadTrimSummary \/ CrashTrim
    <3>1. UNCHANGED <<today, missed, runDay, partitions>> /\ tpc' # "ensure"
      BY <1>4, <2>1 DEF ListPartitions, CheckManifest, CountPartition, LoopDone,
            UploadTrimSummary, CrashTrim, Goto, Step, Fails, ForgetLocals,
            localVars
    <3> QED BY <1>0, <3>1, CoverKept
  <2> QED BY <1>0, <1>4, <2>1, CoverStart, CoverEnsure, CoverDrop DEF TrimStep
<1> QED BY <1>2, <1>3, <1>4 DEF Next

\* A row of today has a partition as long as today is in a covered window.
LEMMA TodayCovered ==
    ASSUME OnSchedule, DInv, ~((missed + 1) * TrimPeriod >= LookaheadDays)
    PROVE  today \in partitions
<1>1. PICK c \in Int : Covers(c)
  BY DEF DInv, CoverOK
<1>2. /\ (missed + 1) * TrimPeriod = missed * TrimPeriod + TrimPeriod
      /\ missed * TrimPeriod \in Nat
  BY DInvNumbers, OneMore
<1>3. missed * TrimPeriod + TrimPeriod < LookaheadDays
  BY <1>2, DInvNumbers
<1>4. c <= today /\ today <= c + missed * TrimPeriod + TrimPeriod
  BY <1>1, <1>2, DInvNumbers DEF Covers, DInv, CoverOK
<1>5. today \in Window(c) /\ today >= runDay
  BY <1>2, <1>3, <1>4, DInvNumbers DEF Window
<1> QED BY <1>1, <1>5 DEF Covers

\* Only an arriving row can come into the default partition.
LEMMA DefaultGrows ==
    ASSUME OnSchedule, [Next]_vars, ~(InDefault' \subseteq InDefault)
    PROVE  today \notin partitions
<1>1. ASSUME NEW t \in TripIDs, RowInserted(t) PROVE today \notin partitions
  <2>1. pg' = pg \cup {t} /\ EventDate[t] = today /\ UNCHANGED partitions
    BY <1>1 DEF RowInserted, trimVars, OnSchedule
  <2> QED BY <2>1 DEF InDefault
<1>2. ASSUME pg' \subseteq pg, partitions \subseteq partitions' PROVE FALSE
  BY <1>2 DEF InDefault
<1>3. CASE DropPartition
  BY <1>2, <1>3 DEF DropPartition, InDefault, RowsOf
<1>4. CASE \/ \E d \in Dates : EvidenceChanges(d)
           \/ DayPasses
           \/ UNCHANGED vars
  BY <1>2, <1>4 DEF EvidenceChanges, DayPasses, vars, trimVars
<1>5. CASE EnsureDay
  BY <1>2, <1>5 DEF EnsureDay, CreatePartition
<1>6. CASE \/ StartTrim \/ ListPartitions \/ CheckManifest \/ CountPartition
           \/ LoopDone \/ UploadTrimSummary \/ CrashTrim
  BY <1>2, <1>6 DEF StartTrim, ListPartitions, CheckManifest, CountPartition,
        LoopDone, UploadTrimSummary, CrashTrim
<1> QED BY <1>1, <1>3, <1>4, <1>5, <1>6 DEF Next, TrimStep

\* On a schedule that starts a run every TrimPeriod days, whatever becomes of
\* it, no row falls into the default partition before the runs of k days in a
\* row have failed in their ensure loop, (k + 1) * TrimPeriod being at least the
\* lookahead (main.go:206-209).
THEOREM LookaheadAbsorbs ==
    ASSUME OnSchedule
    PROVE  Spec => FailedRunsAbsorbed
<1>1. Init => DInv
  BY CoverInitial
<1>2. DInv /\ [Next]_vars => DInv'
  BY CoverInductive
<1>3. DInv /\ [Next]_vars =>
         [InDefault' \subseteq InDefault
             \/ (missed + 1) * TrimPeriod >= LookaheadDays]_vars
  BY DefaultGrows, TodayCovered
<1> QED BY <1>1, <1>2, <1>3, PTL DEF Spec, FailedRunsAbsorbed
=============================================================================
