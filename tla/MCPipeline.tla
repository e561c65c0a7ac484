----------------------------- MODULE MCPipeline -----------------------------
(***************************************************************************)
(* Instances of Pipeline for TLC: one date, and one or two trips.          *)
(***************************************************************************)
EXTENDS Pipeline, TLC

OneTrip == 1..1
TwoTrips == 1..2
MCDates == {1}
JobSymmetry == Permutations(Jobs)
OneEventDate == [t \in OneTrip |-> 1]
TwoEventDate == [t \in TwoTrips |-> 1]
=============================================================================
