--------------------------- MODULE MCVenearSystem ---------------------------
(* A small instance of VenearSystem for TLC: ann has a lockup, bob and cy   *)
(* receive delegations, whole and in parts.                                 *)
EXTENDS VenearSystem, TLC

CONSTANTS ann, bob, cy

People  == {ann, bob, cy}
Earlier == {ann, bob}

Choices == {bob :> 4, (bob :> 1) @@ (cy :> 2), cy :> 3, [d \in {} |-> 0]}
=============================================================================
