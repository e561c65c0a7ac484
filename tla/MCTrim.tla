------------------------------- MODULE MCTrim -------------------------------
(***************************************************************************)
(* Instances of Trim for TLC: four days; a trip on the first and one on    *)
(* the third, or a single one on the fourth.                               *)
(***************************************************************************)
EXTENDS Trim

MCTripIDs == 1..2
FourDays == 1..4
OneTripID == 1..1
LaterEventDate == [t \in OneTripID |-> 4]
MCEventDate == [t \in MCTripIDs |-> 2 * t - 1]
=============================================================================
