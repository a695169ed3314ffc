----------------------------- MODULE SettledCall -----------------------------
(***************************************************************************)
(* What the per-epoch settlement pipeline of the staking contract promises *)
(* to the operation it carries, for one validator row.  A call enters, the *)
(* row is settled with the pool, the tail of the operation commits or      *)
(* fails, and the row is released:                                         *)
(*                                                                         *)
(*     idle --Enter--> settling --Settle--> tail --Commit/Fail--> release  *)
(*                        |                                          |     *)
(*                        +---Abort---> idle <-------Release---------+     *)
(*                                                                         *)
(* StakingPipeline implements this specification; Catalog, Farm and        *)
(* Subscriptions are built on it.                                          *)
(***************************************************************************)
EXTENDS Integers

VARIABLES
    stage,     \* where the one call in flight on this row is
    attached,  \* the NEAR it attached that is neither committed nor sent back
    shares,    \* total_shares of the row
    balance    \* NEAR the contract holds and has not written off

callVars == <<stage, attached, shares, balance>>

CallTypeOK ==
    /\ stage \in {"idle", "settling", "tail", "release"}
    /\ attached \in Nat
    /\ shares \in Nat
    /\ balance \in Int

CallInit ==
    /\ stage = "idle"
    /\ attached = 0
    /\ shares = 0
    /\ balance \in Int

\* An entry point takes the row; attached is what it may get back.
Enter ==
    /\ stage = "idle"
    /\ stage' \in {"settling", "tail", "release"}
    /\ attached' \in Nat
    /\ stage' = "release" => attached' = 0
    /\ balance' = balance + attached'
    /\ UNCHANGED shares

\* The receipts between the entry and the tail move NEAR between the contract
\* and the pool, and never mint or burn shares.
Settle ==
    /\ stage = "settling"
    /\ stage' \in {"settling", "tail", "release"}
    /\ stage' = "release" => attached = 0
    /\ balance' \in Int
    /\ UNCHANGED <<attached, shares>>

\* The pool could not be read: a payable call ends here, with its NEAR sent back.
Abort ==
    /\ stage = "settling"
    /\ attached > 0
    /\ stage' = "idle"
    /\ attached' = 0
    /\ balance' = balance - attached
    /\ UNCHANGED shares

\* The tail keeps the attached NEAR, or pays a call that attached none.
Commit ==
    /\ stage = "tail"
    /\ stage' = "release"
    /\ attached' = 0
    /\ shares' \in Nat
    /\ IF attached > 0 THEN balance' = balance
                       ELSE balance' \in Int /\ balance' <= balance

\* The tail panicked and changed nothing.
Fail ==
    /\ stage = "tail"
    /\ stage' = "release"
    /\ UNCHANGED <<attached, shares, balance>>

\* The row is idle again; what a failed tail left attached is sent back.
Release ==
    /\ stage = "release"
    /\ stage' = "idle"
    /\ attached' = 0
    /\ balance' = balance - attached
    /\ UNCHANGED shares

CallNext ==
    \/ Enter
    \/ Settle
    \/ Abort
    \/ Commit
    \/ Fail
    \/ Release

CallSpec == CallInit /\ [][CallNext]_callVars

==============================================================================
