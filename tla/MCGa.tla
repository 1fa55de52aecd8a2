--------------------------------- MODULE MCGa ---------------------------------
(* Instances of Ga for TLC.  cross_frac falls to its limit, mut_prob rises *)
(* to its own, neither in a whole number of adjustments.                   *)
EXTENDS Ga

MCCrossStep == -2
=============================================================================
