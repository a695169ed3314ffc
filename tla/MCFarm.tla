------------------------------- MODULE MCFarm -------------------------------
(* A small instance of Farm for TLC. *)
EXTENDS Farm, TLC

CONSTANTS u1, u2

TwoUsers == {u1, u2}
RewardsOrDust == {-1, 13}
Symmetry == Permutations(TwoUsers)
=============================================================================
