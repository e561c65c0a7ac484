------------------------ MODULE MCPartitionMigration ------------------------
(***************************************************************************)
(* Instances of PartitionMigration for TLC: two dates, of which the table  *)
(* has one at the start, and a sequence with gaps.                         *)
(***************************************************************************)
EXTENDS PartitionMigration

MCDays == {1, 2}
MCSeeded == {[id |-> 2, day |-> 1, nth |-> 0]}
=============================================================================
