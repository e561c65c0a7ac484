------------------------------ MODULE MCCurate ------------------------------
(***************************************************************************)
(* Instances of Curate for TLC: two rows, of one date.                     *)
(***************************************************************************)
EXTENDS Curate, TLC

MCRawCopies == 1..2
MCRawID == [r \in MCRawCopies |-> r]
MCDates == {1}
MCRawDate == [r \in MCRawCopies |-> 1]

CurateSymmetry == Permutations(CurateTasks)
=============================================================================
