---------------------------- MODULE MCRetention -----------------------------
(***************************************************************************)
(* Instances of Retention for TLC: three days, retention of one day, so    *)
(* that day 1 can be exported on day 2 and trimmed on day 3.               *)
(***************************************************************************)
EXTENDS Retention, TLC

MCTripIDs == 1..2
MCDates == 1..3
MCEventDate == [t \in MCTripIDs |-> 1]
OneTrip == 1..1
OneEventDate == [t \in OneTrip |-> 1]

JobSymmetry == Permutations(Jobs)
=============================================================================
