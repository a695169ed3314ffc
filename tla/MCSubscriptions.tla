--------------------------- MODULE MCSubscriptions ---------------------------
(* A small instance of Subscriptions for TLC. *)
EXTENDS Subscriptions

\* A tier that takes any stake from 4 on, and a dearer one that asks for a fifth
\* more than its amount.
TwoTiers == <<
    [product |-> "p", amount |-> 4, max_amount |-> 0, lock_factor |-> 10],
    [product |-> "q", amount |-> 5, max_amount |-> 6, lock_factor |-> 12]>>

RewardsOrDust == {-1, 1}
==============================================================================
