----------------------------- MODULE MCErasure ------------------------------
(***************************************************************************)
(* Instances of Erasure for TLC: one identifier with one trip.  Whether a  *)
(* snapshot holds a row of the identifier is all that the properties tell  *)
(* apart, and writers can change it in both directions.                    *)
(***************************************************************************)
EXTENDS Erasure, TLC

OneTrip == 1..1
OneIdentifier == {"v1"}
OneVehicleOf == [t \in OneTrip |-> "v1"]

TaskSymmetry == Permutations(Tasks)
=============================================================================
