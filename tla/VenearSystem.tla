---------------------------- MODULE VenearSystem ----------------------------
(***************************************************************************)
(* The veNEAR contract together with the lockup of one of its accounts.    *)
(* The contracts talk by receipts: the deployment and its callback, and    *)
(* the reports of the lockup, which may arrive in any order.               *)
(***************************************************************************)
EXTENDS Lockup, FiniteSets

CONSTANTS
    Accounts, Registered, LocalDeposits, MILLI, TICKS, Rate, MAX_BPS, DelegationChoices,
    MaxDelegations, MaxVersion, MaxCalls,
    Owner,       \* the account whose lockup is modelled
    MaxDeploys,  \* bound on its deployments
    CallWeight,  \* how much of that bound a call that is not about locks takes
    MaxTotal     \* bound on all calls together

ASSUME VenearAssumption ==
    /\ IsFiniteSet(Accounts) /\ Registered \subseteq Accounts /\ Owner \in Accounts
    /\ MILLI \in Nat \ {0} /\ TICKS \in Nat \ {0} /\ MAX_BPS \in Nat \ {0}
    /\ Rate \in Nat
    /\ LocalDeposits \subseteq Nat
    /\ \E d \in LocalDeposits : \A e \in LocalDeposits : d >= e
    /\ \A f \in DelegationChoices : f \in [DOMAIN f -> Nat]

\* A lockup reports less often than there are nonces (a million in the code)
\* reserved for a block.
ASSUME NonceAssumption == MaxOwnerCalls < NonceGap

VARIABLES
    config, paused, accounts, tree, global_state, calls,
    deploys,     \* deployments whose callback has not run
    deployments, \* deployments asked for so far, for the bound
    reported,    \* history: the nonce of the last report made
    missed       \* history: what was locked last did not reach the veNEAR contract

V == INSTANCE Venear

venear == <<config, paused, accounts, tree, global_state, calls>>
system == <<deploys, deployments, reported, missed>>
vars   == <<lockupVars, venear, system>>

-----------------------------------------------------------------------------
NewNonce == now * NonceGap

deploy_lockup(d) ==
    /\ V!deploy_lockup(Owner, d, min_lockup_deposit)
    /\ deployments < MaxDeploys
    /\ deployments' = deployments + 1
    /\ deploys' = deploys \cup
         {[step |-> "create", id |-> deployments, version |-> config.lockup_version,
           nonce |-> NewNonce, deposit |-> d, height |-> now, ok |-> FALSE]}
    /\ UNCHANGED <<lockupVars, reported, missed>>

\* The receipt at the lockup account, in a block after the call's.  It fails,
\* and the deposit comes back, if the account exists.
CreateLockup(m) ==
    /\ m.step = "create"
    /\ m.height < now
    /\ \/ /\ new(m.version, m.nonce, m.deposit)
          /\ deploys' = (deploys \ {m}) \cup {[m EXCEPT !.step = "callback", !.ok = TRUE]}
       \/ /\ deployed
          /\ deploys' = (deploys \ {m}) \cup {[m EXCEPT !.step = "callback"]}
          /\ UNCHANGED lockupVars
    /\ UNCHANGED <<venear, deployments, reported, missed>>

\* A failed deployment only refunds its deposit.
LockupDeployed(m) ==
    /\ m.step = "callback"
    /\ IF m.ok THEN V!on_lockup_deployed(Owner, m.version, m.nonce)
               ELSE UNCHANGED venear
    /\ deploys' = deploys \ {m}
    /\ UNCHANGED <<lockupVars, deployments, reported, missed>>

\* Everything of the lockup but the reports on their way.
lockupRest == <<life, staking, balance, call, refunds, pool, now, owner_calls,
                pool_calls, venear_locked_balance, venear_pending_balance,
                venear_unlock_timestamp, lockup_update_nonce>>

\* A report that is refused is lost.
UpdateArrives(u) ==
    /\ updates' = updates \ {u}
    /\ \/ V!on_lockup_update(Owner, u) /\ UNCHANGED missed
       \/ V!UpdateRefused(Owner, u) /\ missed' = (missed \/ u.nonce = reported)
    /\ UNCHANGED <<lockupRest, deploys, deployments, reported>>

\* The owner's calls of venear.rs; each of them reports, except delete_lockup.
OwnerReports ==
    /\ VenearCalls
    /\ IF lockup_update_nonce' > lockup_update_nonce
       THEN reported' = lockup_update_nonce' /\ missed' = FALSE
       ELSE UNCHANGED <<reported, missed>>
    /\ UNCHANGED <<venear, deploys, deployments>>

\* The lockup's receipts.  Only DeleteAccount changes what is locked, and only
\* when NEAR was locked after the checks of delete_lockup; it makes no report.
ReceiptRuns ==
    /\ LockupReceipts
    /\ missed' = (missed \/ venear_locked_balance' # venear_locked_balance)
    /\ UNCHANGED <<venear, deploys, deployments, reported>>

\* Receipts run in the block after the one that made them: the clock waits
\* for a deployment to be created.
ClockTicks ==
    /\ \A m \in deploys : m.step = "create" => m.height >= now
    /\ Tick \/ PoolRewards
    /\ UNCHANGED <<venear, system>>

Init ==
    /\ LockupInit
    /\ V!VenearInit
    /\ deploys = {} /\ deployments = 0 /\ reported = 0 /\ missed = FALSE

InBudget ==
    owner_calls + deployments + CallWeight * (pool_calls + calls) < MaxTotal

Next ==
    \/ InBudget /\ OwnerReports
    \/ InBudget /\ StakingCalls /\ UNCHANGED <<venear, system>>
    \/ ReceiptRuns
    \/ InBudget /\ V!VenearCalls /\ UNCHANGED <<lockupVars, system>>
    \/ InBudget /\ \E d \in Deposits : deploy_lockup(d)
    \/ \E m \in deploys : CreateLockup(m) \/ LockupDeployed(m)
    \/ \E u \in updates : UpdateArrives(u)
    \/ ClockTicks

Spec == Init /\ [][Next]_vars

-----------------------------------------------------------------------------
(* Properties. *)

\* ft_total_supply against the balances; see Venear.
SupplyIsBalances == V!SupplyIsBalances

\* The delegated pools against their delegators; see Venear.
DelegatedIsContributions == V!DelegatedIsContributions

\* Once every receipt between the contracts has arrived, the veNEAR contract
\* counts for the owner exactly what the lockup has locked, and nothing if there
\* is no lockup, however the reports were ordered and however often the lockup
\* was deleted and deployed again.  There are two exceptions, both until the
\* lockup reports again: its last report was refused, because it came before
\* the callback of its own deployment or after that of the next one; or NEAR
\* was locked between the checks of delete_lockup and the deletion.  In every
\* case the next report of a lockup that is there will be accepted.
ViewAgrees ==
    Owner \in DOMAIN accounts /\ updates = {} /\ deploys = {} =>
      /\ ~missed => tree[Owner].balance.near_balance
                    = venear_locked_balance + accounts[Owner].deposit
      /\ deployed => /\ accounts[Owner].lockup_version = version
                     /\ accounts[Owner].lockup_update_nonce <= lockup_update_nonce
=============================================================================
