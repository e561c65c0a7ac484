-------------------------- MODULE MigrationProofs ---------------------------
(***************************************************************************)
(* Proofs about PartitionMigration, for every set of dates, every table at *)
(* the start and every bound.                                              *)
(***************************************************************************)
EXTENDS PartitionMigration, SumLemmas

(***************************************************************************)
(* Part 1: the highest trip_id.                                            *)
(***************************************************************************)

\* A set of numbers with an upper bound has a greatest one.
LEMMA MaxExists ==
    ASSUME NEW b \in Nat, NEW S, S \subseteq Nat, S # {},
           \A x \in S : x <= b
    PROVE  Max(S) \in S /\ \A x \in S : x <= Max(S)
<1> DEFINE D == {y \in Nat : \E x \in S : y = b - x}
           Less == {p \in Nat \X Nat : p[1] < p[2]}
<1>1. D \subseteq Nat
  OBVIOUS
<1>2. \A x \in S : x \in Nat /\ b - x \in Nat
  OBVIOUS
<1>3. \A x \in S : b - x \in D
  BY <1>2
<1>4. D # {}
  BY <1>3
<1>5. OpToRel(<, Nat) = Less
  BY DEF OpToRel
<1>6. IsWellFoundedOn(Less, Nat)
  BY <1>5, NatLessThanWellFounded
<1> HIDE DEF Less
<1>7. PICK d \in D : \A y \in D : ~(<<y, d>> \in Less)
  BY <1>1, <1>4, <1>6, WFMin
<1>8. \A y \in D : d <= y
  <2> SUFFICES ASSUME NEW y \in D PROVE d <= y
    OBVIOUS
  <2>1. y \in Nat /\ d \in Nat
    BY <1>1
  <2>2. y < d => <<y, d>> \in Less
    BY <2>1 DEF Less
  <2>3. ~(y < d)
    BY <2>2, <1>7
  <2> QED BY <2>1, <2>3
<1>9. PICK m \in S : d = b - m
  OBVIOUS
<1>10. \A x \in S : m >= x
  BY <1>2, <1>3, <1>8, <1>9
<1>11. Max(S) \in S /\ \A x \in S : Max(S) >= x
  BY <1>10 DEF Max
<1> QED BY <1>2, <1>11

LEMMA MaxTripIDBounds ==
    ASSUME NEW R \in SUBSET Rows
    PROVE  MaxTripID(R) \in Nat /\ \A r \in R : r.id <= MaxTripID(R)
<1> DEFINE S == {r.id : r \in R} \cup {1}
<1>1. MaxID \in Nat
  BY MigrationAssumption
<1>2. \A r \in R : r.id \in 1..MaxID
  BY DEF Rows
<1>3. /\ S \subseteq Nat /\ S # {} /\ MaxID + 1 \in Nat
      /\ \A x \in S : x <= MaxID + 1
  BY <1>1, <1>2
<1>4. \A r \in R : r.id \in S
  OBVIOUS
<1>5. MaxTripID(R) = Max(S)
  BY DEF MaxTripID
<1> HIDE DEF S
<1>6. Max(S) \in S /\ \A x \in S : x <= Max(S)
  BY <1>3, MaxExists
<1> QED BY <1>3, <1>4, <1>5, <1>6

-----------------------------------------------------------------------------
(***************************************************************************)
(* Part 2: the inductive invariant.  While the old table is trip_events    *)
(* the new one is a part of it, although the old one grows; so equal       *)
(* numbers of rows mean equal sets of rows.  Its trip_ids are unique by    *)
(* the primary key alone, because a swap that was rolled back may leave    *)
(* the sequence below them; from the swap on, the sequence is not below    *)
(* any trip_id of the new one.                                             *)
(***************************************************************************)
UniqueIDs(R) == \A r, s \in R : r.id = s.id => r = s

RowTypes ==
    /\ old \subseteq Rows /\ IsFiniteSet(old)
    /\ new \subseteq Rows
    /\ seq \in Nat /\ arrived \in Nat

BeforeSwap ==
    /\ step \in Steps \ {"done"}
    /\ new \subseteq old
    /\ UniqueIDs(old)
    /\ step = "checkNew" => /\ IsFiniteSet(checkedRows)
                            /\ new \subseteq checkedRows
                            /\ oldCheck = CountAndSum(checkedRows)
    /\ step = "swap" => checkedRows = new

AfterSwap ==
    /\ step = "done"
    /\ checkedRows \subseteq new
    /\ UniqueIDs(new)
    /\ \A r \in new : r.id <= seq

MInv ==
    /\ RowTypes
    /\ \/ trips = "old" /\ BeforeSwap
       \/ trips = "new" /\ AfterSwap

\* The verification: the count alone tells, the sum is more than is needed.
LEMMA EqualCounts ==
    ASSUME NEW R, NEW S, IsFiniteSet(R), S \subseteq R,
           CountAndSum(S) = CountAndSum(R)
    PROVE  S = R
<1>1. Cardinality(S) = Cardinality(R)
  BY DEF CountAndSum
<1> QED BY <1>1, FS_Subset

LEMMA MigrationInit == Init => MInv
<1> SUFFICES ASSUME Init PROVE MInv
  OBVIOUS
<1>1. Seeded \subseteq Rows /\ IsFiniteSet(Seeded) /\ UniqueIDs(Seeded)
  BY MigrationAssumption DEF UniqueIDs
<1>2. MaxTripID(Seeded) \in Nat
  BY <1>1, MaxTripIDBounds
<1> QED BY <1>1, <1>2 DEF Init, MInv, RowTypes, BeforeSwap, Steps

LEMMA InsertKeeps ==
    ASSUME MInv, NEW d \in Days, InsertTrip(d)
    PROVE  MInv'
<1> DEFINE r == [id |-> seq + 1, day |-> d, nth |-> arrived + 1]
<1>1. /\ seq < MaxID /\ seq' = seq + 1 /\ seq \in Nat
      /\ IF trips = "old" THEN old' = old \cup {r} /\ UNCHANGED new
                          ELSE new' = new \cup {r} /\ UNCHANGED old
      /\ UNCHANGED <<trips, step, oldCheck, checkedRows>>
      /\ arrived' \in Nat
  BY DEF InsertTrip, MInv, RowTypes
<1>2. r \in Rows /\ r.id = seq + 1
  <2>1. arrived + 1 \in 0..MaxRows
    BY MigrationAssumption DEF InsertTrip, MInv, RowTypes
  <2> QED BY <2>1, <1>1, MigrationAssumption DEF Rows
<1>3. IsFiniteSet(old \cup {r})
  BY FS_AddElement DEF MInv, RowTypes
<1>4. \A R \in SUBSET Rows : UniqueIDs(R) /\ (\A s \in R : s.id <= seq)
         => UniqueIDs(R \cup {r}) /\ \A s \in R \cup {r} : s.id <= seq + 1
  BY <1>1, <1>2 DEF UniqueIDs, Rows
<1>5. trips = "old" /\ UniqueIDs(old) => UniqueIDs(old \cup {r})
  <2>1. trips = "old" => \A s \in old : s.id # r.id
    BY <1>2 DEF InsertTrip, Duplicate
  <2> QED BY <2>1 DEF UniqueIDs
<1> HIDE DEF r
<1>6. CASE trips = "old"
  <2>1. BeforeSwap /\ RowTypes
    BY <1>6 DEF MInv
  <2>2. RowTypes'
    BY <1>1, <1>2, <1>3, <1>6, <2>1 DEF RowTypes
  <2>3. UniqueIDs(old')
    BY <1>1, <1>5, <1>6, <2>1 DEF BeforeSwap
  <2>4. BeforeSwap'
    BY <1>1, <1>6, <2>1, <2>3 DEF BeforeSwap, UniqueIDs
  <2> QED BY <1>1, <1>6, <2>2, <2>4 DEF MInv
<1>7. CASE trips = "new"
  BY <1>1, <1>2, <1>3, <1>4, <1>7 DEF MInv, RowTypes, AfterSwap
<1> QED BY <1>6, <1>7 DEF MInv

LEMMA StepsKeep ==
    ASSUME MInv,
           \/ InsertRolledBack \/ CreateParent \/ CreatePartitions
           \/ CreateDefault \/ Copy \/ CreateIndex \/ Rerun \/ SwapRolledBack
    PROVE  MInv'
<1> USE DEF Run, Steps
<1>1. UNCHANGED <<trips, old, arrived>>
  BY DEF InsertRolledBack, CreateParent, CreatePartitions, CreateDefault, Copy,
         CreateIndex, Rerun, SwapRolledBack
<1>2. new \subseteq new' /\ new' \subseteq new \cup old
  BY DEF InsertRolledBack, CreateParent, CreatePartitions, CreateDefault, Copy,
         CreateIndex, Rerun, SwapRolledBack
<1>3. seq' \in Nat
  <2>1. MaxTripID(new) \in Nat
    BY MaxTripIDBounds DEF MInv, RowTypes
  <2> QED BY <2>1 DEF MInv, RowTypes, InsertRolledBack, CreateParent,
         CreatePartitions, CreateDefault, Copy, CreateIndex, Rerun, SwapRolledBack
<1>4. RowTypes'
  BY <1>1, <1>2, <1>3 DEF MInv, RowTypes
<1>5. CASE trips = "old" /\ BeforeSwap
  <2>1. new' \subseteq old' /\ UniqueIDs(old')
    BY <1>1, <1>2, <1>5 DEF BeforeSwap
  <2>2. InsertRolledBack => BeforeSwap'
    BY <1>5, <2>1 DEF InsertRolledBack, BeforeSwap
  <2>3. ~InsertRolledBack => BeforeSwap'
    BY <1>5, <2>1 DEF CreateParent, CreatePartitions, CreateDefault,
         Copy, CreateIndex, Rerun, SwapRolledBack, BeforeSwap
  <2> QED BY <1>1, <1>4, <1>5, <2>2, <2>3 DEF MInv
<1>6. CASE trips = "new" /\ AfterSwap
  <2>1. InsertRolledBack
    BY <1>6 DEF AfterSwap, CreateParent, CreatePartitions, CreateDefault, Copy,
         CreateIndex, Rerun, SwapRolledBack
  <2>2. \A r \in new : r.id <= seq'
    <3>1. \A r \in new : r.id \in Nat /\ r.id <= seq
      BY <1>6 DEF AfterSwap, MInv, RowTypes, Rows
    <3> QED BY <2>1, <3>1 DEF InsertRolledBack, MInv, RowTypes
  <2> QED BY <1>1, <1>4, <1>6, <2>1, <2>2 DEF InsertRolledBack, AfterSwap, MInv
<1> QED BY <1>5, <1>6 DEF MInv

LEMMA ChecksKeep ==
    ASSUME MInv, CheckOld \/ CheckNew
    PROVE  MInv'
<1> USE DEF Run, Steps
<1>1. RowTypes' /\ BeforeSwap /\ trips = "old" /\ trips' = "old"
  BY DEF MInv, RowTypes, CheckOld, CheckNew, AfterSwap
<1>2. CASE CheckOld
  BY <1>1, <1>2 DEF CheckOld, BeforeSwap, RowTypes, MInv, UniqueIDs
<1>3. CASE CheckNew
  <2>1. /\ UNCHANGED <<old, new, seq, checkedRows>>
        /\ step' = IF CountAndSum(new) = oldCheck THEN "swap" ELSE "create"
    BY <1>3 DEF CheckNew
  <2>2. CountAndSum(new) = oldCheck => checkedRows = new
    BY <1>1, <1>3, EqualCounts DEF CheckNew, BeforeSwap
  <2>3. step' \in {"swap", "create"} /\ (step' = "swap" => checkedRows' = new')
    BY <2>1, <2>2
  <2>4. BeforeSwap'
    BY <1>1, <2>1, <2>3 DEF BeforeSwap, UniqueIDs
  <2> QED BY <1>1, <2>4 DEF MInv
<1> QED BY <1>2, <1>3

\* The swap: setval may lower the sequence, but not below a trip_id of new,
\* wherever a swap that was rolled back has left it.
LEMMA SwapKeeps ==
    ASSUME MInv, Swap
    PROVE  MInv'
<1>1. trips = "old" /\ BeforeSwap /\ RowTypes
  BY DEF MInv, AfterSwap, Swap
<1>2. seq' \in Nat /\ \A r \in new : r.id <= seq'
  BY <1>1, MaxTripIDBounds DEF Swap, RowTypes
<1>3. UniqueIDs(new) /\ checkedRows = new
  BY <1>1 DEF BeforeSwap, UniqueIDs, Swap
<1> QED BY <1>1, <1>2, <1>3 DEF Swap, MInv, RowTypes, AfterSwap, UniqueIDs

LEMMA MigrationInductive ==
    ASSUME MInv, [Next]_vars
    PROVE  MInv'
<1>1. CASE Next
  BY <1>1, InsertKeeps, StepsKeep, ChecksKeep, SwapKeeps DEF Next
<1>2. CASE UNCHANGED vars
  BY <1>2 DEF vars, MInv, RowTypes, BeforeSwap, AfterSwap, UniqueIDs
<1> QED BY <1>1, <1>2

-----------------------------------------------------------------------------
(***************************************************************************)
(* Part 3: the theorems.                                                   *)
(***************************************************************************)

\* What the verification counted survives the swap: for any rows at the start,
\* any arrivals and any number of repeated steps
\* (partition_trip_events.sql:67-79).
THEOREM VerifiedSurvive == Spec => []VerifiedRowsSurvive
<1>1. Init => MInv
  BY MigrationInit
<1>2. MInv /\ [Next]_vars => MInv'
  BY MigrationInductive
<1>3. MInv => VerifiedRowsSurvive
  BY DEF MInv, AfterSwap, VerifiedRowsSurvive
<1> QED BY <1>1, <1>2, <1>3, PTL DEF Spec

\* trip_id stays unique within trip_events, through the swap and its setval
\* (partition_trip_events.sql:111).
THEOREM TripIDsStayUnique == Spec => []TripIDsUnique
<1>1. Init => MInv
  BY MigrationInit
<1>2. MInv /\ [Next]_vars => MInv'
  BY MigrationInductive
<1>3. MInv => TripIDsUnique
  BY DEF MInv, BeforeSwap, AfterSwap, TripIDsUnique, UniqueIDs
<1> QED BY <1>1, <1>2, <1>3, PTL DEF Spec

-----------------------------------------------------------------------------
(***************************************************************************)
(* Part 4: the types.  The numbers of the verification are numbers, by     *)
(* SumLemmas, and the sequence never runs past its bound.                  *)
(***************************************************************************)
\* The sum of the trip_ids of a finite table is a number.
LEMMA RowSumIsNumber ==
    ASSUME NEW S \in SUBSET Rows, IsFiniteSet(S)
    PROVE  MapThenSumSet(LAMBDA r : r.id, S) \in Nat
<1> DEFINE weight(x) == x.id
           w == [x \in S |-> weight(x)]
           Fold(f) == [s \in SUBSET S |->
                         IF s = {} THEN 0
                         ELSE weight(CHOOSE x \in s : TRUE)
                                 + f[s \ {CHOOSE x \in s : TRUE}]]
           sum == CHOOSE f : f = Fold(f)
<1>1. MapThenSumSet(LAMBDA r : r.id, S) = sum[S]
  BY DEF MapThenSumSet, MapThenFoldSet
<1>2. w \in [S -> Nat] /\ IsFiniteSet(S)
  BY DEF Rows
<1>3. \A s \in SUBSET S : s # {} =>
        w[CHOOSE x \in s : TRUE] = weight(CHOOSE x \in s : TRUE)
  <2> SUFFICES ASSUME NEW s \in SUBSET S, s # {}
               PROVE  w[CHOOSE x \in s : TRUE] = weight(CHOOSE x \in s : TRUE)
    OBVIOUS
  <2>1. (CHOOSE x \in s : TRUE) \in S
    OBVIOUS
  <2> HIDE DEF weight
  <2> QED BY <2>1
<1> HIDE DEF w, weight
<1>4. \E F : F = Fold(F)
  <2>1. PICK F : IsSum(F, w, S)
    BY <1>2, SumExists
  <2>2. IsFold(F, w, S) /\ F = [s \in SUBSET S |-> F[s]]
    BY <2>1, SumIsFold DEF IsSum
  <2>3. \A s \in SUBSET S : F[s] = IF s = {} THEN 0
                           ELSE weight(CHOOSE x \in s : TRUE)
                                   + F[s \ {CHOOSE x \in s : TRUE}]
    BY <1>3, <2>2 DEF IsFold
  <2>4. F = Fold(F)
    BY <2>2, <2>3, Zenon
  <2> HIDE DEF Fold
  <2> QED BY <2>4
<1>5. sum = Fold(sum)
  <2> HIDE DEF Fold
  <2> QED BY <1>4
<1> HIDE DEF sum
<1>6. IsFold(sum, w, S)
  <2>1. \A s \in SUBSET S : sum[s] = IF s = {} THEN 0
                           ELSE weight(CHOOSE x \in s : TRUE)
                                   + sum[s \ {CHOOSE x \in s : TRUE}]
    BY <1>5
  <2> QED BY <1>3, <2>1 DEF IsFold
<1> QED BY <1>1, <1>2, <1>6, FoldIsNumber

LEMMA CheckTypes ==
    ASSUME NEW S \in SUBSET Rows, IsFiniteSet(S)
    PROVE  CountAndSum(S) \in [count : Nat, sum : Nat]
BY RowSumIsNumber, FS_CardinalityType DEF CountAndSum

LEMMA MaxTripIDInRange ==
    ASSUME NEW R \in SUBSET Rows
    PROVE  MaxTripID(R) \in 1..MaxID
<1> DEFINE S == {r.id : r \in R} \cup {1}
<1>1. MaxID \in Nat /\ 1 <= MaxID
  <2>1. PICK r \in Seeded : TRUE
    BY MigrationAssumption
  <2> QED BY <2>1, MigrationAssumption DEF Rows
<1>2. \A r \in R : r.id \in 1..MaxID
  BY DEF Rows
<1>3. S \subseteq 1..MaxID /\ S \subseteq Nat /\ S # {} /\ 1 \in S
  BY <1>1, <1>2
<1>4. \A x \in S : x <= MaxID
  BY <1>3
<1>5. MaxTripID(R) = Max(S)
  BY DEF MaxTripID
<1> HIDE DEF S
<1>6. Max(S) \in S
  BY <1>1, <1>3, <1>4, MaxExists
<1> QED BY <1>3, <1>5, <1>6

\* Migration steps keep the types.
LEMMA MigrationTypeKept ==
    ASSUME MInv, MigrationTypeOK, [Next]_vars
    PROVE  MigrationTypeOK'
<1> USE DEF Steps
<1>0. MaxID \in Nat /\ MaxRows \in Nat
  BY MigrationAssumption
<1>1. ASSUME NEW d \in Days, InsertTrip(d)
      PROVE  MigrationTypeOK'
  <2> DEFINE r == [id |-> seq + 1, day |-> d, nth |-> arrived + 1]
  <2>1. /\ seq + 1 \in 1..MaxID /\ arrived + 1 \in 0..MaxRows
        /\ seq' = seq + 1 /\ arrived' = arrived + 1
    BY <1>0, <1>1 DEF InsertTrip, MigrationTypeOK
  <2>2. r \in Rows
    BY <2>1 DEF Rows
  <2>3. /\ old' \subseteq old \cup {r} /\ new' \subseteq new \cup {r}
        /\ UNCHANGED <<trips, partitions, default, index, step, refused,
                       oldCheck, checkedRows>>
    BY <1>1 DEF InsertTrip
  <2> HIDE DEF r
  <2> QED BY <2>1, <2>2, <2>3 DEF MigrationTypeOK
<1>2. CASE InsertRolledBack
  BY <1>0, <1>2 DEF InsertRolledBack, MigrationTypeOK
<1>3. CASE \/ CreateParent \/ CreatePartitions \/ CreateDefault \/ Copy
           \/ CreateIndex \/ Rerun \/ CheckNew
  <2>1. UNCHANGED <<trips, old, seq, arrived>>
    BY <1>3 DEF CreateParent, CreatePartitions, CreateDefault, Copy, CreateIndex,
                Rerun, CheckNew, Run
  <2>2. new' \subseteq new \cup old
    BY <1>3 DEF CreateParent, CreatePartitions, CreateDefault, Copy, CreateIndex,
                Rerun, CheckNew, Run
  <2>3. partitions' \subseteq Days
    <3>1. \A r \in old : r.day \in Days
      BY DEF MigrationTypeOK, Rows
    <3>2. partitions' \subseteq partitions \cup {r.day : r \in old}
      BY <1>3 DEF CreateParent, CreatePartitions, CreateDefault, Copy,
                  CreateIndex, Rerun, CheckNew, Run
    <3> QED BY <3>1, <3>2 DEF MigrationTypeOK
  <2>4. step' \in Steps /\ refused' \in BOOLEAN
    BY <1>3 DEF CreateParent, CreatePartitions, CreateDefault, Copy, CreateIndex,
                Rerun, CheckNew, Run, MigrationTypeOK
  <2>5. default' \in BOOLEAN /\ index' \in BOOLEAN
    BY <1>3 DEF CreateParent, CreatePartitions, CreateDefault, Copy, CreateIndex,
                Rerun, CheckNew, Run, MigrationTypeOK
  <2>6. \/ UNCHANGED <<oldCheck, checkedRows>>
        \/ oldCheck' = NoCheck /\ checkedRows' = {}
    BY <1>3 DEF CreateParent, CreatePartitions, CreateDefault, Copy, CreateIndex,
                Rerun, CheckNew, Run
  <2> QED BY <2>1, <2>2, <2>3, <2>4, <2>5, <2>6 DEF MigrationTypeOK
<1>4. CASE CheckOld
  <2>1. CountAndSum(old) \in [count : Nat, sum : Nat]
    BY CheckTypes DEF MInv, RowTypes
  <2> QED BY <1>4, <2>1 DEF CheckOld, Run, MigrationTypeOK
<1>5. CASE Swap \/ SwapRolledBack
  <2>1. MaxTripID(new) \in 1..MaxID
    BY MaxTripIDInRange DEF MigrationTypeOK
  <2> QED BY <1>5, <2>1 DEF Swap, SwapRolledBack, MigrationTypeOK
<1>6. CASE UNCHANGED vars
  BY <1>6 DEF vars, MigrationTypeOK
<1> QED BY <1>1, <1>2, <1>3, <1>4, <1>5, <1>6 DEF Next

\* The types: what the verification writes down are a count and a sum, and the
\* setval of the swap puts the sequence where nextval may have left it
\* (partition_trip_events.sql:67-79, 111).
THEOREM MigrationTypeCorrect == Spec => []MigrationTypeOK
<1> DEFINE I == MInv /\ MigrationTypeOK
<1>1. Init => I
  <2> SUFFICES ASSUME Init PROVE MigrationTypeOK
    BY MigrationInit
  <2>1. MaxTripID(Seeded) \in 1..MaxID /\ 0 \in 0..MaxRows
    BY MaxTripIDInRange, MigrationAssumption
  <2> QED BY <2>1, MigrationAssumption DEF Init, MigrationTypeOK, Steps
<1>2. I /\ [Next]_vars => I'
  BY MigrationInductive, MigrationTypeKept
<1>3. I => MigrationTypeOK
  OBVIOUS
<1> HIDE DEF I
<1> QED BY <1>1, <1>2, <1>3, PTL DEF Spec
=============================================================================
