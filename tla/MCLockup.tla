------------------------------ MODULE MCLockup ------------------------------
(* A small instance of Lockup for TLC. *)
EXTENDS Lockup
=============================================================================
