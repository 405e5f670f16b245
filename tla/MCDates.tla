------------------------------ MODULE MCDates ------------------------------
(***************************************************************************)
(* Dates on a small instance: an hour back, two hours on, and two          *)
(* interchangeable variables, so that sums of sums and copies occur.       *)
(***************************************************************************)
EXTENDS Dates, TLC

BackOrOn == {-1, 2}
Symmetry == Permutations(Holder)
=============================================================================
