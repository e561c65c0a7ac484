------------------------------ MODULE MCExport ------------------------------
(***************************************************************************)
(* Instances of Export for TLC: two days with a trip each, for backfills,  *)
(* and one day with two trips, for tasks that overlap on it.               *)
(***************************************************************************)
EXTENDS Export, TLC

MCTripIDs == 1..2
MCDates == 1..2
MCEventDate == [t \in MCTripIDs |-> t]

JobSymmetry == Permutations(Jobs)

OneTripIDs == 1..2
OneDate == 1..1
OneEventDate == [t \in OneTripIDs |-> 1]
=============================================================================
