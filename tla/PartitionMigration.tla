------------------------- MODULE PartitionMigration -------------------------
(***************************************************************************)
(* The one-time migration of the Postgres table trip_events to a           *)
(* partitioned one (sql/postgres/partition_trip_events.sql), which an      *)
(* operator runs by hand, step by step, while applications go on inserting *)
(* rows.  Each step is one statement or one transaction, and takes effect  *)
(* at once or not at all.                                                  *)
(***************************************************************************)
EXTENDS Integers, FiniteSets, FiniteSetsExt

CONSTANTS
    Days,       \* event dates
    Seeded,     \* rows that are in the table at the start
    MaxID,      \* bound: trip_ids drawn from the sequence
    MaxRows     \* bound: rows that arrive

\* A row, and a number that tells it from others: the trip_id might not.
Rows == [id : 1..MaxID, day : Days, nth : 0..MaxRows]

ASSUME MigrationAssumption ==
    /\ MaxID \in Nat /\ MaxRows \in Nat
    /\ Seeded \subseteq Rows /\ Seeded # {} /\ IsFiniteSet(Seeded)
    /\ \A r, s \in Seeded : r.id = s.id => r = s

VARIABLES
    trips,          \* the table the applications insert into: "old" or "new"
    old,            \* rows of the plain table
    new,            \* rows of trip_events_partitioned
    partitions,     \* dates that have a partition of their own
    default,        \* whether trip_events_default exists
    index,          \* whether the composite index exists
    seq,            \* trip_events_trip_id_seq
    arrived,        \* how many rows have arrived
    step,           \* the step of the script the operator is to run next
    refused,        \* whether Postgres refused the last of steps 1-4
    oldCheck,       \* count(*), sum(trip_id) of the old table, or None
    checkedRows     \* history: the rows which that query saw

vars == <<trips, old, new, partitions, default, index, seq, arrived, step,
          refused, oldCheck, checkedRows>>

-----------------------------------------------------------------------------
NoCheck == [count |-> -1, sum |-> -1]
CountAndSum(R) == [count |-> Cardinality(R),
                   sum |-> MapThenSumSet(LAMBDA r : r.id, R)]

\* Faulty variant: the number after the highest one.
MaxTripIDPlusOne(R) == Max({r.id : r \in R} \cup {1}) + 1

\* SELECT COALESCE(MAX(trip_id), 1)
MaxTripID(R) == Max({r.id : r \in R} \cup {1})

InDefault == {r \in new : r.day \notin partitions}

Steps == {"create", "partition", "default", "copy", "index", "checkOld",
          "checkNew", "swap", "done"}

MigrationTypeOK ==
    /\ trips \in {"old", "new"}
    /\ old \subseteq Rows /\ new \subseteq Rows
    /\ partitions \subseteq Days
    /\ default \in BOOLEAN /\ index \in BOOLEAN
    /\ seq \in 1..MaxID /\ arrived \in 0..MaxRows
    /\ step \in Steps
    /\ refused \in BOOLEAN
    /\ oldCheck \in [count : Nat, sum : Nat] \cup {NoCheck}
    /\ checkedRows \subseteq Rows

Init ==
    /\ trips = "old" /\ old = Seeded /\ new = {}
    /\ partitions = {} /\ default = FALSE /\ index = FALSE
    /\ seq = MaxTripID(Seeded) /\ arrived = 0
    /\ step = "create" /\ refused = FALSE
    /\ oldCheck = NoCheck /\ checkedRows = {}

-----------------------------------------------------------------------------
\* The primary key takes no second row with the next number of the sequence:
\* trip_id in the old table, (trip_id, event_date) in the new one.
Duplicate(d) ==
    IF trips = "old" THEN \E r \in old : r.id = seq + 1
                     ELSE \E r \in new : r.id = seq + 1 /\ r.day = d

\* An application inserts a row: trip_id by nextval, into whichever table has
\* the name trip_events.
InsertTrip(d) ==
    LET r == [id |-> seq + 1, day |-> d, nth |-> arrived + 1] IN
    /\ seq < MaxID /\ arrived < MaxRows
    /\ ~Duplicate(d)
    /\ seq' = seq + 1 /\ arrived' = arrived + 1
    /\ IF trips = "old" THEN old' = old \cup {r} /\ UNCHANGED new
                        ELSE new' = new \cup {r} /\ UNCHANGED old
    /\ UNCHANGED <<trips, partitions, default, index, step, refused, oldCheck,
                   checkedRows>>

\* Its transaction is rolled back, or the primary key refuses the row: the
\* number is gone all the same.
InsertRolledBack ==
    /\ seq < MaxID
    /\ seq' = seq + 1
    /\ UNCHANGED <<trips, old, new, partitions, default, index, arrived, step,
                   refused, oldCheck, checkedRows>>

Run(from, to) ==
    /\ step = from /\ step' = to
    /\ refused' = FALSE
    /\ UNCHANGED <<trips, old, seq, arrived>>

\* CREATE TABLE IF NOT EXISTS trip_events_partitioned.
CreateParent ==
    /\ Run("create", "partition")
    /\ UNCHANGED <<new, partitions, default, index, oldCheck, checkedRows>>

\* Postgres does not create a partition for rows that are in the default one.
CanPartition == \A r \in InDefault : r.day \notin {q.day : q \in old}

\* Step 2: the partitions of the dates of today, all or none.
CreatePartitions ==
    /\ \/ /\ CanPartition
          /\ Run("partition", "default")
          /\ partitions' = partitions \cup {r.day : r \in old}
       \/ /\ ~CanPartition
          /\ step = "partition" /\ refused' = TRUE
          /\ UNCHANGED <<trips, old, seq, arrived, step, partitions>>
    /\ UNCHANGED <<new, default, index, oldCheck, checkedRows>>

CreateDefault ==
    /\ Run("default", "copy")
    /\ default' = TRUE
    /\ UNCHANGED <<new, partitions, index, oldCheck, checkedRows>>

\* Step 3: INSERT ... SELECT, without those that are there already by
\* (trip_id, event_date).
Copy ==
    /\ Run("copy", "index")
    /\ default
    /\ new' = new \cup {r \in old :
                  \A s \in new : s.id = r.id => s.day # r.day}
    /\ UNCHANGED <<partitions, default, index, oldCheck, checkedRows>>

\* Step 4.
CreateIndex ==
    /\ Run("index", "checkOld")
    /\ index' = TRUE
    /\ UNCHANGED <<new, partitions, default, oldCheck, checkedRows>>

\* The verification by hand: two queries, one after the other.
CheckOld ==
    /\ Run("checkOld", "checkNew")
    /\ oldCheck' = CountAndSum(old)
    /\ checkedRows' = old
    /\ UNCHANGED <<new, partitions, default, index>>

\* Faulty variant: the numbers are written down and not compared.
CheckNewUncompared ==
    /\ Run("checkNew", "swap")
    /\ UNCHANGED <<new, partitions, default, index, oldCheck, checkedRows>>

CheckNew ==
    /\ Run("checkNew", IF CountAndSum(new) = oldCheck THEN "swap" ELSE "create")
    /\ UNCHANGED <<new, partitions, default, index, oldCheck, checkedRows>>

\* Before the swap the operator may start again from the top.
Rerun ==
    /\ step \notin {"create", "done"}
    /\ Run(step, "create")
    /\ oldCheck' = NoCheck /\ checkedRows' = {}
    /\ UNCHANGED <<new, partitions, default, index>>

\* Faulty variant: the sequence is set to the number of rows.
SwapByCount ==
    /\ step = "swap" /\ step' = "done"
    /\ trips' = "new"
    /\ seq' = Max({1, Cardinality(new)})
    /\ UNCHANGED <<old, new, partitions, default, index, arrived, refused,
                   oldCheck, checkedRows>>

\* Step 5: one transaction renames both tables, then sets the sequence.
Swap ==
    /\ step = "swap" /\ index
    /\ step' = "done"
    /\ trips' = "new"
    /\ seq' = MaxTripID(new)
    /\ UNCHANGED <<old, new, partitions, default, index, arrived, refused,
                   oldCheck, checkedRows>>

\* The transaction fails and is rolled back: "just re-run from the top".  When
\* it is the COMMIT that fails, the sequence keeps what setval gave it, because
\* no rollback undoes a setval.
SwapRolledBack ==
    /\ step = "swap" /\ step' = "create"
    /\ seq' \in {seq} \cup IF index THEN {MaxTripID(new)} ELSE {}
    /\ UNCHANGED <<trips, old, new, partitions, default, index, arrived,
                   refused, oldCheck, checkedRows>>

-----------------------------------------------------------------------------
Next ==
    \/ \E d \in Days : InsertTrip(d)
    \/ InsertRolledBack
    \/ CreateParent \/ CreatePartitions \/ CreateDefault \/ Copy
    \/ CreateIndex \/ CheckOld \/ CheckNew \/ Rerun \/ Swap \/ SwapRolledBack

Spec == Init /\ [][Next]_vars

-----------------------------------------------------------------------------
(***************************************************************************)
(* Properties.                                                             *)
(***************************************************************************)
\* The rows that the verification of step 3 counted are all in trip_events
\* after the swap, although rows arrive between its two queries and steps are
\* run again (partition_trip_events.sql:67-79).
VerifiedRowsSurvive == trips = "new" => checkedRows \subseteq new

\* No two rows of trip_events have the same trip_id, before or after the swap,
\* whatever gaps the sequence has and however often a swap that was rolled back
\* has set it back.  In the new table nothing but the setval of the swap sees to
\* it: its primary key takes one trip_id on two dates
\* (partition_trip_events.sql:40, 111).
TripIDsUnique ==
    LET R == IF trips = "old" THEN old ELSE new
    IN  \A r, s \in R : r.id = s.id => r = s

\* partition_trip_events.sql:10: "Steps 1-4 are additive and re-runnable".
StepsRerunnable == ~refused

\* partition_trip_events.sql:12-13: once the verification "matches exactly"
\* step 5 may be run: the rows of the backup table are all in the new one.
SwapKeepsEveryRow == trips = "new" => old \subseteq new

\* partition_trip_events.sql:28: trip_id "stays globally unique in practice":
\* also among rows that are still in the backup table.
TripIDsGloballyUnique == \A r, s \in old \cup new : r.id = s.id => r = s
=============================================================================
