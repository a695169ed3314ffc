------------------------- MODULE StakingPipelineCall -------------------------
(***************************************************************************)
(* StakingPipeline implements SettledCall: the thirteen receipts of the    *)
(* chain are the four stages of a settled call.                            *)
(***************************************************************************)
EXTENDS StakingPipeline

\* The receipts of the chain up to the tail are the settlement.
Stage == IF step \in {"idle", "tail", "release"} THEN step ELSE "settling"

Call == INSTANCE SettledCall
          WITH stage <- Stage,
               attached <- Escrow,
               shares <- validator.total_shares,
               balance <- cash - lost

\* Every receipt of the pipeline is a step of a settled call or invisible to
\* it: one call per row at a time, shares move only in its tail, and the NEAR
\* it attached (UserAction::payable_refund) is kept by the tail or sent back,
\* never both and never neither, on each of the failure paths of epoch.rs.
ImplementsSettledCall == Call!CallSpec
==============================================================================
