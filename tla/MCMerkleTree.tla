---------------------------- MODULE MCMerkleTree ----------------------------
(* A small instance of MerkleTree for TLC: five accounts, so that the tree  *)
(* grows past two powers of two.                                            *)
EXTENDS MerkleTree

CONSTANTS k1, k2, k3, k4, k5, v1, v2, g1, g2

FiveKeys   == {k1, k2, k3, k4, k5}
TwoValues  == {v1, v2}
TwoGlobals == {g1, g2}

KeySymmetry == Permutations(Keys)
=============================================================================
