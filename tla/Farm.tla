-------------------------------- MODULE Farm --------------------------------
(***************************************************************************)
(* Farming (stake.rs): stakes on farm prices earn reward units by time and *)
(* share of the pool, next to the catalog changes, storage and payment     *)
(* calls of Catalog.  stake and unstake are settled calls (SettledCall):   *)
(* their tails run when the validator row has been settled with the pool,  *)
(* perhaps much later than the entry whose checks they repeat.             *)
(*                                                                         *)
(* balance counts the NEAR that the contract holds here or at the pool.    *)
(* Claims of unstaked NEAR, and the locks that share the validator row,    *)
(* are in StakingPipeline.                                                 *)
(***************************************************************************)
EXTENDS Catalog

CONSTANTS
    StakeAmounts,    \* NEAR attached to stake
    UnstakeAmounts,  \* amounts asked of unstake, 0 for the whole position
    StakeChanges     \* what a settlement may find more or less at the pool

ASSUME FarmAssumption ==
    /\ StakeAmounts \subseteq Nat \ {0}
    /\ UnstakeAmounts \subseteq Nat
    /\ StakeChanges \subseteq Int

VARIABLES
    cont,            \* the UserAction in flight
    user_shares,     \* user_validator_shares
    positions,       \* farm_positions by account and product
    farm_accounts,   \* FarmAccount: rolled-up rewards and active positions
    staked           \* history: NEAR committed by stakes

farmVars == <<user_shares, positions, farm_accounts, staked>>
vars     == <<catalogVars, cont, farmVars>>
earnings == <<now, net_stake, shares, farm_pools, positions, farm_accounts>>

NoAction == [kind |-> "none"]

Key(u, p) == <<u, p>>

-----------------------------------------------------------------------------
(* Positions. *)

farm_position_accumulated(n, acc) == (n * acc) \div AccDenom

IsActive(k) == k \in DOMAIN positions /\ positions[k].status = "Active"

require_active_farm_position(k) == IsActive(k) /\ positions[k].shares > 0

validate_farm_max_amount(k, i, deposit) ==
    LET current == IF IsActive(k) THEN near_from_shares(positions[k].shares) ELSE 0
    IN  prices[i].max_amount # 0 => current + deposit <= prices[i].max_amount

\* Rounded up, so that at least the amount is unstaked; the whole position if
\* the amount covers it (0: no amount was given).
farm_unstake_shares_for_amount(position, amount) ==
    LET ceil == (amount * shares + net_stake - 1) \div net_stake
    IN  IF amount = 0 \/ amount >= near_from_shares(position.shares)
        THEN position.shares
        ELSE Min({Max({1, ceil}), position.shares})

settle_farm_position(position, pool) ==
    LET accumulated == farm_position_accumulated(position.shares, pool.acc)
    IN  [position EXCEPT
           !.accrued = @ + Max({0, accumulated - position.reward_debt}),
           !.reward_debt = accumulated]

preview_farm_position_pending(position) ==
    settle_farm_position(position,
      simulate_settled_farm_pool(farm_pools[position.price_id])).accrued

\* get_farm_account: total_earned_reward_units.
total_earned_reward_units(u) ==
    farm_accounts[u].accumulated
      + FoldSet(LAMBDA k, sum : preview_farm_position_pending(positions[k]) + sum, 0,
                {k \in DOMAIN positions : k[1] = u /\ require_active_farm_position(k)})

-----------------------------------------------------------------------------
(* Entry points.  The chain of the call is skipped up to its tail when the    *)
(* row has been settled in this epoch already.                                *)

mint_shares(deposit) ==
    IF shares = 0 \/ net_stake = 0 THEN deposit ELSE (deposit * shares) \div net_stake

Begin(action, deposit) ==
    /\ attached' = deposit
    /\ stage' \in {"settling", "tail"}
    /\ Enter
    /\ cont' = action
    /\ UNCHANGED <<catalog, storage, paused, now, revenue, net_stake, farmVars>>

\* The price is given, or found as the one active farm price of the product.
resolve_farm_price_id(p) ==
    {i \in DOMAIN prices :
       prices[i].product = p /\ prices[i].type = "Farm" /\ prices[i].status = "Active"}

stake(u, p, deposit) ==
    LET k == Key(u, p)
    IN  /\ UserCall
        /\ ~paused
        /\ ensure_min_base_storage(u)
        /\ deposit >= min_lock_amount
        /\ \E i \in resolve_farm_price_id(p) :
              /\ get_active_price_and_product(i)
              /\ deposit >= prices[i].amount
              /\ validate_farm_max_amount(k, i, deposit)
              /\ IF k \in DOMAIN positions
                 THEN IsActive(k) => positions[k].price_id = i
                 ELSE ensure_min_storage_for_new_farm_position(u)
              /\ Begin([kind |-> "CommitFarmStake", account |-> u, product |-> p,
                        price |-> i, deposit |-> deposit], deposit)

unstake(u, p, amount) ==
    /\ UserCall
    /\ ~paused
    /\ ensure_min_base_storage(u)
    /\ require_active_farm_position(Key(u, p))
    /\ Begin([kind |-> "FarmUnstakeQueue", account |-> u, product |-> p,
              amount |-> amount], 0)

-----------------------------------------------------------------------------
(* The settlement, by its contract in SettledCall: net_stake is refreshed     *)
(* from the pool, which has earned rewards and may hold a little less than is *)
(* booked (unstaked dust beyond pending_to_withdraw is paid out of it); if    *)
(* the pool cannot be read, a payable call is refunded and any other one      *)
(* released.                                                                  *)

Settled ==
    /\ UNCHANGED balance
    /\ Settle
    /\ stage' = "tail"
    /\ \E c \in StakeChanges : net_stake' = Max({0, net_stake + c})
    /\ UNCHANGED <<catalog, storage, paused, now, revenue, calls, cont, farmVars>>

SettlementFails ==
    /\ \/ Abort
       \/ UNCHANGED balance /\ Settle /\ stage' = "release"
    /\ cont' = IF stage' = "idle" THEN NoAction ELSE cont
    /\ UNCHANGED <<catalog, storage, paused, now, revenue, net_stake, calls, farmVars>>

-----------------------------------------------------------------------------
(* Tails. *)

\* What a stake adds to a position, once its old shares are settled.  A closed
\* position starts again, on the price of this stake.
Reopened(i) ==
    [price_id |-> i, shares |-> 0, reward_debt |-> 0, accrued |-> 0, status |-> "Active"]

AddShares(position, added, pool) ==
    [position EXCEPT
       !.shares = @ + added,
       !.reward_debt = farm_position_accumulated(position.shares + added, pool.acc)]

require_farm_price_for_product(i, p) == prices[i].type = "Farm" /\ prices[i].product = p

\* Fault: the tail trusts the storage check of the entry point.
CanCommitStake_Trusts(u, p, i, deposit) ==
    LET k == Key(u, p)
    IN  /\ get_active_price_and_product(i)
        /\ require_farm_price_for_product(i, p)
        /\ validate_farm_max_amount(k, i, deposit)
        /\ IsActive(k) => require_active_farm_position(k)
        /\ shares > 0 => net_stake > 0

CanCommitStake(u, p, i, deposit) ==
    LET k == Key(u, p)
    IN  /\ get_active_price_and_product(i)
        /\ require_farm_price_for_product(i, p)
        /\ validate_farm_max_amount(k, i, deposit)
        /\ k \notin DOMAIN positions => ensure_min_storage_for_new_farm_position(u)
        /\ IsActive(k) => require_active_farm_position(k)
        /\ shares > 0 => net_stake > 0

resolve_farm_stake ==
    LET u     == cont.account
        i     == cont.price
        k     == Key(u, cont.product)
        pool  == simulate_settled_farm_pool(farm_pools[i])
        added == mint_shares(cont.deposit)
        old   == IF IsActive(k) THEN settle_farm_position(positions[k], pool)
                                ELSE Reopened(i)
    IN  /\ cont.kind = "CommitFarmStake"
        /\ CanCommitStake(u, cont.product, i, cont.deposit)
        /\ shares' = shares + added
        /\ Commit
        /\ net_stake' = net_stake + cont.deposit
        /\ staked' = staked + cont.deposit
        /\ user_shares' = [user_shares EXCEPT ![u] = @ + added]
        /\ farm_pools' = [farm_pools EXCEPT ![i] = [pool EXCEPT !.shares = @ + added]]
        /\ positions' = With(positions, k, AddShares(old, added, pool))
        /\ farm_accounts' = [farm_accounts EXCEPT
                               ![u].active = IF old.shares = 0 THEN @ + 1 ELSE @]
        /\ farms' = [farms EXCEPT ![u] = IF k \in DOMAIN positions THEN @ ELSE @ + 1]
        /\ Use(i)
        /\ UNCHANGED <<id_nonce, accounts, purchases, paused, now, revenue, calls, cont>>

\* A closed position hands its rewards to the account.
RollUp(account, position) ==
    [account EXCEPT !.accumulated = @ + position.accrued, !.active = Max({0, @ - 1})]

resolve_farm_unstake ==
    LET u        == cont.account
        k        == Key(u, cont.product)
        i        == positions[k].price_id
        pool     == simulate_settled_farm_pool(farm_pools[i])
        settled  == settle_farm_position(positions[k], pool)
        removed  == farm_unstake_shares_for_amount(positions[k], cont.amount)
        left     == AddShares(settled, -removed, pool)
    IN  /\ cont.kind = "FarmUnstakeQueue"
        /\ require_active_farm_position(k)
        /\ net_stake > 0
        /\ user_shares[u] >= removed
        /\ pool.shares >= removed
        /\ shares' = shares - removed
        /\ balance' = balance
        /\ Commit
        /\ net_stake' = net_stake - near_from_shares(removed)
        /\ user_shares' = [user_shares EXCEPT ![u] = @ - removed]
        /\ farm_pools' = [farm_pools EXCEPT ![i] = [pool EXCEPT !.shares = @ - removed]]
        /\ IF left.shares > 0
           THEN /\ positions' = [positions EXCEPT ![k] = left]
                /\ UNCHANGED farm_accounts
           ELSE /\ positions' = [positions EXCEPT
                                   ![k] = [left EXCEPT !.accrued = 0, !.status = "Closed"]]
                /\ farm_accounts' = [farm_accounts EXCEPT ![u] = RollUp(@, settled)]
        /\ UNCHANGED <<products, prices, id_nonce, storage, paused, now, revenue, calls,
                       cont, staked>>

\* The conditions that make a tail panic are the negation of its guards.
TailPanics ==
    /\ Fail
    /\ ~ \/ /\ cont.kind = "CommitFarmStake"
            /\ CanCommitStake(cont.account, cont.product, cont.price, cont.deposit)
         \/ /\ cont.kind = "FarmUnstakeQueue"
            /\ require_active_farm_position(Key(cont.account, cont.product))
            /\ net_stake > 0
    /\ UNCHANGED <<catalog, storage, paused, now, revenue, net_stake, calls, cont,
                   farmVars>>

on_epoch_pipeline_release ==
    /\ Release
    /\ cont' = NoAction
    /\ UNCHANGED <<catalog, storage, paused, now, revenue, net_stake, calls, farmVars>>

-----------------------------------------------------------------------------

FarmInit ==
    /\ CatalogInit
    /\ cont = NoAction
    /\ user_shares = [u \in Users |-> 0]
    /\ positions = <<>>
    /\ farm_accounts = [u \in Users |-> [accumulated |-> 0, active |-> 0]]
    /\ staked = 0

FarmCalls ==
    \E u \in Users : \E p \in DOMAIN products :
        \/ \E d \in StakeAmounts : stake(u, p, d)
        \/ \E a \in UnstakeAmounts : unstake(u, p, a)

Receipts ==
    \/ Settled
    \/ SettlementFails
    \/ resolve_farm_stake
    \/ resolve_farm_unstake
    \/ TailPanics
    \/ on_epoch_pipeline_release

CatalogNext ==
    /\ AccountCalls \/ CatalogAdmin \/ Tick
    /\ UNCHANGED <<cont, farmVars>>

\* Nobody has to call: only a chain in flight must be able to go on.
NoCall == stage = "idle" /\ UNCHANGED vars

Next == FarmCalls \/ Receipts \/ CatalogNext \/ NoCall

Spec == FarmInit /\ [][Next]_vars

-----------------------------------------------------------------------------
(* Properties. *)

\* The shares of the positions with keys in K.
SharesOf(K) == SumFunction([k \in K |-> positions[k].shares])

\* The shares of a position are counted in the pool of its price, in the
\* account's balance on the validator and in the validator's total, and
\* active_position_count counts the account's active positions, although prices
\* are archived, deleted and created while a stake is in flight and a closed
\* position comes back on another price.  (types.rs:472 says "with non-zero
\* shares": a stake worth less than a share opens a position without any.)
FarmSharesAgree ==
    /\ \A i \in DOMAIN farm_pools :
          farm_pools[i].shares = SharesOf({k \in DOMAIN positions : positions[k].price_id = i})
    /\ \A u \in Users :
          LET own == {k \in DOMAIN positions : k[1] = u}
          IN  /\ user_shares[u] = SharesOf(own)
              /\ farm_accounts[u].active = Cardinality({k \in own : IsActive(k)})
    /\ shares = SumFunction(user_shares)
    /\ \A k \in DOMAIN positions : positions[k].price_id \in DOMAIN farm_pools

\* What the positions of an account have been credited with for good.
booked_reward_units(u) ==
    farm_accounts[u].accumulated
      + FoldSet(LAMBDA k, sum :
                  settle_farm_position(positions[k], farm_pools[positions[k].price_id]).accrued
                    + sum,
                0, {k \in DOMAIN positions : k[1] = u /\ require_active_farm_position(k)})

\* What an account has earned moves only when time has passed or a share is
\* worth more or less, and what is booked never falls: no stake, unstake,
\* closing, change of rate or of the catalog hands out rewards for the past or
\* takes some back.  One thing lowers the total that get_farm_account shows: a
\* settlement that finds less stake than booked, since all the time not booked
\* yet is priced at the stake of the moment (stake.rs:276).
EarnedByTime ==
    [][\A u \in Users :
         LET before == total_earned_reward_units(u)
             after  == total_earned_reward_units(u)'
         IN  /\ after < before => stage = "settling" /\ net_stake' < net_stake
             /\ after # before => now' # now \/ net_stake' * shares # net_stake * shares'
             /\ booked_reward_units(u)' >= booked_reward_units(u)]_earnings

\* Every NEAR the contract holds is a storage deposit, revenue, the deposit of
\* the one call in flight or a committed stake: each failure path refunds once,
\* and no deposit is spent twice.
MoneyIsAccounted ==
    balance = SumFunction(accounts) + revenue + attached + staked
==============================================================================
