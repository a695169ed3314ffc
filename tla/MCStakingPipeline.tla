------------------------- MODULE MCStakingPipeline -------------------------
(* Small instances of StakingPipeline for TLC. *)
EXTENDS StakingPipelineCall, TLC

CONSTANTS u1, u2

OneUser  == {u1}
TwoUsers == {u1, u2}

UserSymmetry == Permutations(Users)
=============================================================================
