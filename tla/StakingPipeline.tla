--------------------------- MODULE StakingPipeline ---------------------------
(***************************************************************************)
(* The settlement pipeline of the staking contract for one validator row:  *)
(* lock, unlock, withdraw and epoch_settle all run through the receipt     *)
(* chain [0]..[6] of epoch.rs, which talks to an external staking pool.    *)
(*                                                                         *)
(* One NEAR receipt is one action.  Between two receipts of a chain any    *)
(* other receipt may run and the epoch may change; every call to the pool  *)
(* may fail.  A receipt that panics keeps the state it found, and the next *)
(* receipt of the chain sees a failed result.                              *)
(***************************************************************************)
EXTENDS Integers, Sequences, FiniteSets, Functions

CONSTANTS
    Users,          \* accounts that lock and withdraw
    LockAmounts,    \* deposits attached to lock, all >= min_lock_amount
    Durations,      \* lock durations, counted in epochs
    SettleEpochs,   \* config.epoch_unstake_settle_epochs
    PoolEpochs,     \* the pool's own unlock delay after an unstake
    PoolDust,       \* how much more than asked the pool may unstake (rounding)
    Rewards,        \* rewards the pool may credit at an epoch change
    AdminActs,      \* the administrative calls in scope
    MaxEpoch,       \* bound on the epoch height
    MaxLocks,       \* bound on the number of locks ever started
    MaxCalls        \* bound on the withdraw and epoch_settle calls accepted

ASSUME UsersAssumption == Users # {} /\ IsFiniteSet(Users)
ASSUME AmountsAssumption ==
    /\ LockAmounts \subseteq Nat \ {0}
    /\ Durations \subseteq Nat
    /\ Rewards \subseteq Nat
ASSUME EpochsAssumption ==
    /\ SettleEpochs \in Nat /\ PoolEpochs \in Nat /\ PoolDust \in Nat
    /\ MaxEpoch \in Nat /\ MaxLocks \in Nat /\ MaxCalls \in Nat

VARIABLES
    validator,            \* the Validator row, its tx_status included
    user_validator_shares,\* shares per account on this validator
    user_pending_unstake, \* tranches per account on this validator
    locks,                \* the locks ever committed, by lock id
    paused,               \* the contract-wide pause flag
    price_active,         \* the catalog price and its product are both active
    step,                 \* the receipt of the chain that runs next
    cont,                 \* the UserAction the chain carries
    amount,               \* NEAR argument of the pool call in flight
    view,                 \* what get_account returned
    ok,                   \* did the previous receipt of the chain succeed?
    pool,                 \* this contract's account at the staking pool
    epoch,                \* epoch height
    calls,                \* calls accepted so far, for the bounds
    cash,                 \* NEAR of the contract that belongs to this row
    owed,                 \* history: sum of all tranche amounts
    lost,                 \* history: NEAR of transfers that bounced
    pool_ops              \* history: pool stakes and unstakes in this epoch

row    == <<validator, user_validator_shares, user_pending_unstake, locks>>
chain  == <<step, cont, amount, view, ok>>
money  == <<cash, lost>>
admin  == <<paused, price_active>>
vars   == <<row, chain, money, admin, pool, epoch, calls, owed, pool_ops>>

-----------------------------------------------------------------------------
(* Data. *)

ValidatorStatus == {"Active", "Paused", "Removed"}

Validator ==
    [status: ValidatorStatus, tx_status: {"Idle", "Busy"},
     total_shares: Nat, total_staked_balance: Nat,
     pending_to_stake: Nat, pending_to_unstake: Nat,
     pending_to_withdraw: Nat, pending_to_claim: Nat,
     last_unstake_epoch: Nat, last_settlement_epoch: Nat]

Tranche == [amount: Nat, available: Nat]

Lock == [owner: Users, shares: Nat, end: Nat,
         status: {"Active", "UnlockRequested"}]

PoolAccount == [staked: Nat, unstaked: Nat, available: Nat]

PoolView == [total: Nat, unstaked: Nat, can_withdraw: BOOLEAN]

NoView == [total |-> 0, unstaked |-> 0, can_withdraw |-> FALSE]

CommitLock(u, a, d) ==
    [kind |-> "CommitLock", buyer |-> u, locked |-> a, duration |-> d]

UnlockQueueUnstake(u, l, s) ==
    [kind |-> "UnlockQueueUnstake", account |-> u, lock |-> l, shares |-> s]

WithdrawUserTransfer(u) == [kind |-> "WithdrawUserTransfer", account |-> u]

SettleOnly == [kind |-> "SettleOnly"]

NoAction == [kind |-> "None"]

UserAction ==
    [kind: {"CommitLock"}, buyer: Users, locked: Nat, duration: Nat]
    \cup [kind: {"UnlockQueueUnstake"}, account: Users, lock: Nat, shares: Nat]
    \cup [kind: {"WithdrawUserTransfer"}, account: Users]
    \cup {SettleOnly, NoAction}

\* The NEAR a payable entry attached; it is refunded when the tail fails.
payable_refund(c) == IF c.kind = "CommitLock" THEN c.locked ELSE 0

\* Fault: a plain subtraction where the code saturates.
Sat_Plain(a, b) == a - b

Sat(a, b) == IF a >= b THEN a - b ELSE 0

pending_not_in_contract(v) == v.pending_to_unstake + v.pending_to_withdraw

pending_user_liability(v) == pending_not_in_contract(v) + v.pending_to_claim

gross_stake(v) == v.total_staked_balance + v.pending_to_stake

net_stake(v) == Sat(gross_stake(v), pending_not_in_contract(v))

mint_shares(v, deposit) ==
    IF v.total_shares = 0 \/ net_stake(v) = 0
    THEN deposit
    ELSE (deposit * v.total_shares) \div net_stake(v)

\* Fault: the division rounds up.
near_from_shares_RoundsUp(v, shares) ==
    IF v.total_shares = 0
    THEN 0
    ELSE (shares * net_stake(v) + v.total_shares - 1) \div v.total_shares

near_from_shares(v, shares) ==
    IF v.total_shares = 0
    THEN 0
    ELSE (shares * net_stake(v)) \div v.total_shares

SumTranches(ts) == SumFunction([i \in DOMAIN ts |-> ts[i].amount])

Max2(a, b) == IF a >= b THEN a ELSE b

pending_unstake_tranche_available_epoch_height(v) ==
    Max2(epoch + 1, v.last_unstake_epoch + SettleEpochs) + SettleEpochs

\* Fault: the settle epochs are not waited for.
validator_unstake_waiting_finished_NoWait(v) ==
    v.last_unstake_epoch > 0 /\ epoch >= v.last_unstake_epoch

validator_unstake_waiting_finished(v) ==
    v.last_unstake_epoch > 0 /\ epoch >= v.last_unstake_epoch + SettleEpochs

-----------------------------------------------------------------------------
(* Transfers to users.  A transfer that fails bounces back to the contract, *)
(* which has no callback on it: the NEAR stays and no bucket records it.    *)

TransferToUser(a) ==
    \/ /\ cash' = cash - a
       /\ UNCHANGED lost
    \/ /\ a > 0
       /\ lost' = lost + a
       /\ UNCHANGED cash

-----------------------------------------------------------------------------
(* Scheduling the next receipt of the chain. *)

Schedule(s, c, a, w, r) ==
    /\ step' = s
    /\ cont' = c
    /\ amount' = a
    /\ view' = w
    /\ ok' = r

GoTo(s, c) == Schedule(s, c, 0, NoView, TRUE)

\* Fault: the gross pending stake is deposited, not the net of the unstake.
CallPool_Gross(s, a) ==
    Schedule(s, cont, IF s = "pool_deposit_and_stake"
                      THEN validator.pending_to_stake ELSE a, NoView, TRUE)

CallPool(s, a) == Schedule(s, cont, a, NoView, TRUE)

PoolReplies(s, r) == Schedule(s, cont, amount, NoView, r)

\* [4] dispatch_continue creates the tail receipt, or the release directly.
DispatchContinue(c) ==
    GoTo(IF c.kind = "SettleOnly" THEN "release" ELSE "tail", c)

\* Fault: the early return leaves the row Busy.
refund_payable_pipeline_StaysBusy ==
    /\ TransferToUser(payable_refund(cont))
    /\ UNCHANGED validator
    /\ GoTo("idle", NoAction)

refund_payable_pipeline ==
    /\ TransferToUser(payable_refund(cont))
    /\ validator' = [validator EXCEPT !.tx_status = "Idle"]
    /\ GoTo("idle", NoAction)

\* [0] promise_validator_per_epoch_settlement_then
BeginPipeline(c) ==
    /\ validator.tx_status = "Idle"
    /\ validator' = [validator EXCEPT !.tx_status = "Busy"]
    /\ IF validator.last_settlement_epoch >= epoch
       THEN DispatchContinue(c)
       ELSE GoTo("pool_get_account", c)

-----------------------------------------------------------------------------
(* Entry points. *)

lock(u, a, d) ==
    /\ calls.lock < MaxLocks
    /\ ~paused
    /\ price_active
    /\ validator.status = "Active"
    /\ BeginPipeline(CommitLock(u, a, d))
    /\ cash' = cash + a
    /\ calls' = [calls EXCEPT !.lock = @ + 1]
    /\ UNCHANGED <<user_validator_shares, user_pending_unstake, locks, admin,
                   lost, pool, epoch, owed, pool_ops>>

unlock(u, l) ==
    /\ ~paused
    /\ locks[l].owner = u
    /\ locks[l].status = "Active"
    /\ epoch >= locks[l].end
    /\ BeginPipeline(UnlockQueueUnstake(u, l, locks[l].shares))
    /\ UNCHANGED <<user_validator_shares, user_pending_unstake, locks, admin,
                   money, pool, epoch, calls, owed, pool_ops>>

withdraw(u) ==
    /\ calls.other < MaxCalls
    /\ ~paused
    /\ SumTranches(user_pending_unstake[u]) > 0
    /\ BeginPipeline(WithdrawUserTransfer(u))
    /\ calls' = [calls EXCEPT !.other = @ + 1]
    /\ UNCHANGED <<user_validator_shares, user_pending_unstake, locks, admin,
                   money, pool, epoch, owed, pool_ops>>

epoch_settle ==
    /\ calls.other < MaxCalls
    /\ ~paused
    /\ BeginPipeline(SettleOnly)
    /\ calls' = [calls EXCEPT !.other = @ + 1]
    /\ UNCHANGED <<user_validator_shares, user_pending_unstake, locks, admin,
                   money, pool, epoch, owed, pool_ops>>

-----------------------------------------------------------------------------
(* [3] Settlement of the pending buckets; v is the row as read by the step. *)

mark_epoch_settlement_handled(v) ==
    [v EXCEPT !.last_settlement_epoch = epoch]

\* Fault: the matched NEAR never reaches the claim bucket.
apply_net_zero_pending_matched_clear_NoClaim(v) ==
    [v EXCEPT !.pending_to_stake = 0,
              !.pending_to_unstake = 0,
              !.last_settlement_epoch = epoch]

\* [3a] pending stake and unstake cancel out without a pool call.
apply_net_zero_pending_matched_clear(v) ==
    [v EXCEPT !.pending_to_stake = 0,
              !.pending_to_unstake = 0,
              !.pending_to_claim = @ + v.pending_to_stake,
              !.last_settlement_epoch = epoch]

try_epoch_stake_or_unstake(v) ==
    LET ps          == v.pending_to_stake
        pu          == v.pending_to_unstake
        has_pending == ps > 0 \/ pu > 0
        can_settle  == v.last_settlement_epoch < epoch
        waiting     == /\ v.last_unstake_epoch > 0
                       /\ ~validator_unstake_waiting_finished(v)
    IN  \/ /\ ~can_settle
           /\ validator' = v
           /\ DispatchContinue(cont)
           /\ UNCHANGED cash
        \/ /\ can_settle /\ ~has_pending
           /\ validator' = mark_epoch_settlement_handled(v)
           /\ DispatchContinue(cont)
           /\ UNCHANGED cash
        \/ /\ can_settle /\ has_pending /\ ps = pu
           /\ validator' = apply_net_zero_pending_matched_clear(v)
           /\ DispatchContinue(cont)
           /\ UNCHANGED cash
        \/ /\ can_settle /\ ps > pu
           /\ validator' = v
           /\ CallPool("pool_deposit_and_stake", ps - pu)
           /\ cash' = cash - (ps - pu)
        \/ /\ can_settle /\ pu > ps /\ waiting
           /\ validator' = mark_epoch_settlement_handled(v)
           /\ DispatchContinue(cont)
           /\ UNCHANGED cash
        \/ /\ can_settle /\ pu > ps /\ ~waiting
           /\ validator' = v
           /\ CallPool("pool_unstake", pu - ps)
           /\ UNCHANGED cash

-----------------------------------------------------------------------------
(* Callbacks [1] to [4]. *)

\* [1] on_epoch_settlement_after_pool_account
AfterPoolAccount ==
    /\ step = "after_pool_account"
    /\ \/ /\ ~ok
          /\ payable_refund(cont) > 0
          /\ refund_payable_pipeline
       \/ /\ ~ok
          /\ payable_refund(cont) = 0
          /\ GoTo("release", cont)
          /\ UNCHANGED <<validator, money>>
       \/ /\ ok
          /\ validator.tx_status = "Busy"
          /\ LET v == [validator EXCEPT !.total_staked_balance = view.total]
             IN  IF view.unstaked > 0 /\ view.can_withdraw
                 THEN /\ validator' = v
                      /\ CallPool("pool_withdraw", view.unstaked)
                      /\ UNCHANGED cash
                 ELSE try_epoch_stake_or_unstake(v)
          /\ UNCHANGED lost
    /\ UNCHANGED <<user_validator_shares, user_pending_unstake, locks, admin,
                   pool, epoch, calls, owed, pool_ops>>

\* Fault: pending_to_withdraw is not reduced.
credit_withdrawn_KeepsBucket(v, c) ==
    [v EXCEPT !.total_staked_balance = @ - c, !.pending_to_claim = @ + c]

\* Fault: the cached pool balance is not reduced.
credit_withdrawn_KeepsStake(v, c) ==
    [v EXCEPT !.pending_to_withdraw = Sat(@, c), !.pending_to_claim = @ + c]

\* Fault: what the pool rounded up is dropped, not credited.
credit_withdrawn_DropsDust(v, c) ==
    [v EXCEPT !.total_staked_balance = @ - c,
              !.pending_to_withdraw = Sat(@, c),
              !.pending_to_claim = @ + (v.pending_to_withdraw
                                        - Sat(v.pending_to_withdraw, c))]

\* The row after a successful pool withdraw of c.
credit_withdrawn(v, c) ==
    [v EXCEPT !.total_staked_balance = @ - c,
              !.pending_to_withdraw = Sat(@, c),
              !.pending_to_claim = @ + c]

\* [2b] on_epoch_withdraw_transfer_done; its require! panics the receipt.
WithdrawTransferDone ==
    /\ step = "withdraw_transfer_done"
    /\ step' = "maybe_settle"
    /\ LET credited == ok /\ validator.total_staked_balance >= amount
       IN  /\ ok' = credited
           /\ validator' = IF credited THEN credit_withdrawn(validator, amount)
                                       ELSE validator
    /\ amount' = 0
    /\ UNCHANGED <<user_validator_shares, user_pending_unstake, locks, admin,
                   money, cont, view, pool, epoch, calls, owed, pool_ops>>

\* [2c] on_after_pool_withdraw_maybe_settle
AfterPoolWithdrawMaybeSettle ==
    /\ step = "maybe_settle"
    /\ validator.tx_status = "Busy"
    /\ IF ok
       THEN try_epoch_stake_or_unstake(validator)
       ELSE DispatchContinue(cont) /\ UNCHANGED <<validator, cash>>
    /\ UNCHANGED <<user_validator_shares, user_pending_unstake, locks, admin,
                   lost, pool, epoch, calls, owed, pool_ops>>

\* Fault: the epoch is not marked as settled.
settle_stake_NoMark(v) ==
    [v EXCEPT !.pending_to_claim = @ + v.pending_to_unstake,
              !.pending_to_stake = 0,
              !.pending_to_unstake = 0,
              !.total_staked_balance =
                  @ + (v.pending_to_stake - v.pending_to_unstake)]

\* The row after a successful pool deposit_and_stake.
settle_stake(v) ==
    [v EXCEPT !.pending_to_claim = @ + v.pending_to_unstake,
              !.pending_to_stake = 0,
              !.pending_to_unstake = 0,
              !.total_staked_balance =
                  @ + (v.pending_to_stake - v.pending_to_unstake),
              !.last_settlement_epoch = epoch]

\* [3b] on_deposit_and_stake
OnDepositAndStake ==
    /\ step = "on_deposit_and_stake"
    /\ validator' =
          IF ok /\ validator.pending_to_stake > validator.pending_to_unstake
          THEN settle_stake(validator) ELSE validator
    /\ GoTo("dispatch", cont)
    /\ UNCHANGED <<user_validator_shares, user_pending_unstake, locks, admin,
                   money, pool, epoch, calls, owed, pool_ops>>

\* The row after a successful pool unstake.
settle_unstake(v) ==
    [v EXCEPT !.pending_to_claim = @ + v.pending_to_stake,
              !.pending_to_stake = 0,
              !.pending_to_unstake = 0,
              !.pending_to_withdraw =
                  @ + (v.pending_to_unstake - v.pending_to_stake),
              !.last_unstake_epoch = epoch,
              !.last_settlement_epoch = epoch]

\* [3c] on_unstake
OnUnstake ==
    /\ step = "on_unstake"
    /\ validator' =
          IF ok /\ validator.pending_to_unstake > validator.pending_to_stake
          THEN settle_unstake(validator) ELSE validator
    /\ GoTo("dispatch", cont)
    /\ UNCHANGED <<user_validator_shares, user_pending_unstake, locks, admin,
                   money, pool, epoch, calls, owed, pool_ops>>

\* [4] on_epoch_settlement_dispatch_continue, as a receipt of its own
Dispatch ==
    /\ step = "dispatch"
    /\ DispatchContinue(cont)
    /\ UNCHANGED <<row, admin, money, pool, epoch, calls, owed, pool_ops>>

-----------------------------------------------------------------------------
(* [5] The user tails.  A tail that panics changes nothing and reports a    *)
(* failed result to the release.                                            *)

TailResult(r) == Schedule("release", cont, 0, NoView, r)

TailPanics ==
    /\ TailResult(FALSE)
    /\ UNCHANGED <<row, money, owed>>

\* internal_stake's require!: shares outstanding need a positive backing.
CanStake == validator.total_shares > 0 => net_stake(validator) > 0

\* Fault: the account's earlier shares are overwritten.
internal_stake_Overwrites(u, deposit) ==
    LET new == mint_shares(validator, deposit)
    IN  /\ validator' = [validator EXCEPT !.total_shares = @ + new,
                                          !.pending_to_stake = @ + deposit]
        /\ user_validator_shares' = [user_validator_shares EXCEPT ![u] = new]

internal_stake(u, deposit) ==
    LET new == mint_shares(validator, deposit)
    IN  /\ validator' = [validator EXCEPT !.total_shares = @ + new,
                                          !.pending_to_stake = @ + deposit]
        /\ user_validator_shares' = [user_validator_shares EXCEPT ![u] = @ + new]

\* [5a] resolve_lock / commit_catalog_lock
ResolveLock ==
    /\ step = "tail" /\ cont.kind = "CommitLock"
    /\ \/ /\ price_active /\ CanStake
          /\ internal_stake(cont.buyer, cont.locked)
          /\ locks' = Append(locks,
                 [owner |-> cont.buyer,
                  shares |-> mint_shares(validator, cont.locked),
                  end |-> epoch + cont.duration,
                  status |-> "Active"])
          /\ TailResult(TRUE)
          /\ UNCHANGED <<user_pending_unstake, money, owed>>
       \/ /\ ~(price_active /\ CanStake)
          /\ TailPanics
    /\ UNCHANGED <<admin, pool, epoch, calls, pool_ops>>

\* internal_unstake's require!s
CanUnstake(u, shares) ==
    /\ shares > 0
    /\ validator.total_shares >= shares
    /\ net_stake(validator) > 0
    /\ user_validator_shares[u] >= shares

internal_unstake(u, shares) ==
    LET near == near_from_shares(validator, shares)
    IN  /\ validator' = [validator EXCEPT !.total_shares = @ - shares,
                                          !.pending_to_unstake = @ + near]
        /\ user_validator_shares' =
               [user_validator_shares EXCEPT ![u] = @ - shares]
        /\ user_pending_unstake' =
               [user_pending_unstake EXCEPT ![u] = Append(@,
                   [amount |-> near,
                    available |->
                      pending_unstake_tranche_available_epoch_height(validator)])]
        /\ owed' = owed + near

\* [5b] resolve_unlock
CanResolveUnlock ==
    /\ locks[cont.lock].owner = cont.account
    /\ locks[cont.lock].status = "Active"
    /\ locks[cont.lock].shares = cont.shares
    /\ CanUnstake(cont.account, cont.shares)

ResolveUnlock ==
    /\ step = "tail" /\ cont.kind = "UnlockQueueUnstake"
    /\ \/ /\ CanResolveUnlock
          /\ internal_unstake(cont.account, cont.shares)
          /\ locks' = [locks EXCEPT ![cont.lock].status = "UnlockRequested"]
          /\ TailResult(TRUE)
          /\ UNCHANGED money
       \/ /\ ~CanResolveUnlock
          /\ TailPanics
    /\ UNCHANGED <<admin, pool, epoch, calls, pool_ops>>

claimable(t) == t.available <= epoch

\* remove_claimable_tranches: the sum taken and the tranches kept, in order
claimable_credit(u) ==
    LET ts == user_pending_unstake[u]
    IN  SumFunction([i \in DOMAIN ts |-> IF claimable(ts[i]) THEN ts[i].amount ELSE 0])

\* Fault: a paid tranche stays.
kept_tranches_All(u) == user_pending_unstake[u]

kept_tranches(u) ==
    LET ts == user_pending_unstake[u]
        kept[n \in 0..Len(ts)] ==
            IF n = 0 THEN <<>>
            ELSE IF claimable(ts[n]) THEN kept[n - 1]
            ELSE Append(kept[n - 1], ts[n])
    IN  kept[Len(ts)]

\* [5c] on_withdraw_user_transfer_after_settle / payout_user_withdraw
WithdrawUserTransferTail ==
    /\ step = "tail" /\ cont.kind = "WithdrawUserTransfer"
    /\ LET u      == cont.account
           credit == claimable_credit(u)
           can_pay == credit \in 1..validator.pending_to_claim /\ cash >= credit
       IN  \/ /\ can_pay
              /\ validator' = [validator EXCEPT !.pending_to_claim = @ - credit]
              /\ user_pending_unstake' =
                     [user_pending_unstake EXCEPT ![u] = kept_tranches(u)]
              /\ owed' = owed - credit
              /\ TransferToUser(credit)
              /\ TailResult(TRUE)
              /\ UNCHANGED <<user_validator_shares, locks>>
           \/ /\ ~can_pay
              /\ TailPanics
    /\ UNCHANGED <<admin, pool, epoch, calls, pool_ops>>

-----------------------------------------------------------------------------
(* [6] Release: Idle again, and a payable entry whose tail failed is        *)
(* refunded.                                                                *)

\* Fault: the result of the tail is ignored.
PipelineRelease_NoRefund ==
    /\ step = "release"
    /\ validator' = [validator EXCEPT !.tx_status = "Idle"]
    /\ GoTo("idle", NoAction)
    /\ UNCHANGED <<user_validator_shares, user_pending_unstake, locks, admin,
                   money, pool, epoch, calls, owed, pool_ops>>

PipelineRelease ==
    /\ step = "release"
    /\ \/ /\ ~ok /\ payable_refund(cont) > 0
          /\ refund_payable_pipeline
       \/ /\ ok \/ payable_refund(cont) = 0
          /\ validator' = [validator EXCEPT !.tx_status = "Idle"]
          /\ GoTo("idle", NoAction)
          /\ UNCHANGED money
    /\ UNCHANGED <<user_validator_shares, user_pending_unstake, locks, admin,
                   pool, epoch, calls, owed, pool_ops>>

-----------------------------------------------------------------------------
(* The staking pool, external: each call succeeds or fails.                 *)

PoolGetAccount ==
    /\ step = "pool_get_account"
    /\ \/ Schedule("after_pool_account", cont, 0,
                   [total |-> pool.staked + pool.unstaked,
                    unstaked |-> pool.unstaked,
                    can_withdraw |-> pool.available <= epoch], TRUE)
       \/ Schedule("after_pool_account", cont, 0, NoView, FALSE)
    /\ UNCHANGED <<row, admin, money, pool, epoch, calls, owed, pool_ops>>

PoolWithdraw ==
    /\ step = "pool_withdraw"
    /\ \/ /\ pool.unstaked >= amount /\ pool.available <= epoch
          /\ pool' = [pool EXCEPT !.unstaked = @ - amount]
          /\ cash' = cash + amount
          /\ PoolReplies("withdraw_transfer_done", TRUE)
       \/ /\ PoolReplies("withdraw_transfer_done", FALSE)
          /\ UNCHANGED <<pool, cash>>
    /\ UNCHANGED <<row, admin, lost, epoch, calls, owed, pool_ops>>

PoolDepositAndStake ==
    /\ step = "pool_deposit_and_stake"
    /\ \/ /\ pool' = [pool EXCEPT !.staked = @ + amount]
          /\ pool_ops' = pool_ops + 1
          /\ PoolReplies("on_deposit_and_stake", TRUE)
          /\ UNCHANGED cash
       \/ /\ cash' = cash + amount
          /\ PoolReplies("on_deposit_and_stake", FALSE)
          /\ UNCHANGED <<pool, pool_ops>>
    /\ UNCHANGED <<row, admin, lost, epoch, calls, owed>>

PoolUnstake ==
    /\ step = "pool_unstake"
    /\ \/ \E dust \in 0..PoolDust :
             /\ pool.staked >= amount + dust
             /\ pool' = [staked |-> pool.staked - (amount + dust),
                         unstaked |-> pool.unstaked + amount + dust,
                         available |-> epoch + PoolEpochs]
             /\ pool_ops' = pool_ops + 1
             /\ PoolReplies("on_unstake", TRUE)
       \/ /\ PoolReplies("on_unstake", FALSE)
          /\ UNCHANGED <<pool, pool_ops>>
    /\ UNCHANGED <<row, admin, money, epoch, calls, owed>>

EpochAdvances ==
    /\ epoch < MaxEpoch
    /\ epoch' = epoch + 1
    /\ pool_ops' = 0
    /\ \E r \in Rewards :
          pool' = IF pool.staked > 0 THEN [pool EXCEPT !.staked = @ + r] ELSE pool
    /\ UNCHANGED <<row, chain, admin, money, calls, owed>>

-----------------------------------------------------------------------------
(* Administrative calls; none of them looks at tx_status.                   *)

pause ==
    /\ "pause" \in AdminActs
    /\ paused' = TRUE
    /\ UNCHANGED <<row, chain, money, price_active, pool, epoch, calls, owed, pool_ops>>

unpause ==
    /\ "pause" \in AdminActs
    /\ paused' = FALSE
    /\ UNCHANGED <<row, chain, money, price_active, pool, epoch, calls, owed, pool_ops>>

\* archive and unarchive of the price, or of the product it belongs to
archive_price ==
    /\ "archive" \in AdminActs
    /\ price_active' = FALSE
    /\ UNCHANGED <<row, chain, money, paused, pool, epoch, calls, owed, pool_ops>>

unarchive_price ==
    /\ "archive" \in AdminActs
    /\ price_active' = TRUE
    /\ UNCHANGED <<row, chain, money, paused, pool, epoch, calls, owed, pool_ops>>

pause_validator ==
    /\ "pause_validator" \in AdminActs
    /\ validator' = [validator EXCEPT !.status = "Paused"]
    /\ UNCHANGED <<user_validator_shares, user_pending_unstake, locks, chain,
                   money, admin, pool, epoch, calls, owed, pool_ops>>

remove_validator ==
    /\ "remove_validator" \in AdminActs
    /\ validator.total_shares = 0
    /\ validator.pending_to_stake = 0
    /\ pending_user_liability(validator) = 0
    /\ validator' = [validator EXCEPT !.status = "Removed"]
    /\ UNCHANGED <<user_validator_shares, user_pending_unstake, locks, chain,
                   money, admin, pool, epoch, calls, owed, pool_ops>>

-----------------------------------------------------------------------------

\* add_validator's row, before any call.  Epoch heights start at 1: a zero
\* last_unstake_epoch or last_settlement_epoch means "never".
Init ==
    /\ validator = [status |-> "Active", tx_status |-> "Idle",
                    total_shares |-> 0, total_staked_balance |-> 0,
                    pending_to_stake |-> 0, pending_to_unstake |-> 0,
                    pending_to_withdraw |-> 0, pending_to_claim |-> 0,
                    last_unstake_epoch |-> 0, last_settlement_epoch |-> 0]
    /\ user_validator_shares = [u \in Users |-> 0]
    /\ user_pending_unstake = [u \in Users |-> <<>>]
    /\ locks = <<>>
    /\ paused = FALSE
    /\ price_active = TRUE
    /\ step = "idle" /\ cont = NoAction
    /\ amount = 0 /\ view = NoView /\ ok = TRUE
    /\ pool = [staked |-> 0, unstaked |-> 0, available |-> 0]
    /\ epoch = 1
    /\ calls = [lock |-> 0, other |-> 0]
    /\ cash = 0 /\ lost = 0 /\ owed = 0 /\ pool_ops = 0

UserCalls ==
    \/ \E u \in Users, a \in LockAmounts, d \in Durations : lock(u, a, d)
    \/ \E u \in Users, l \in 1..Len(locks) : unlock(u, l)
    \/ \E u \in Users : withdraw(u)
    \/ epoch_settle

\* The receipts of the chain in flight, on the contract and at the pool.
Receipt ==
    \/ PoolGetAccount \/ AfterPoolAccount
    \/ PoolWithdraw \/ WithdrawTransferDone \/ AfterPoolWithdrawMaybeSettle
    \/ PoolDepositAndStake \/ OnDepositAndStake
    \/ PoolUnstake \/ OnUnstake
    \/ Dispatch
    \/ ResolveLock \/ ResolveUnlock \/ WithdrawUserTransferTail
    \/ PipelineRelease

AdminCalls ==
    \/ pause \/ unpause
    \/ archive_price \/ unarchive_price
    \/ pause_validator \/ remove_validator

\* Nobody has to call: only a chain in flight must be able to go on.
NoCall == step = "idle" /\ UNCHANGED vars

Next == UserCalls \/ Receipt \/ AdminCalls \/ EpochAdvances \/ NoCall

Spec == Init /\ [][Next]_vars

\* The chain delivers every receipt it has scheduled.
FairSpec == Spec /\ WF_vars(Receipt)

-----------------------------------------------------------------------------
(* Properties. *)

Steps == {"idle", "pool_get_account", "after_pool_account", "pool_withdraw",
          "withdraw_transfer_done", "maybe_settle", "pool_deposit_and_stake",
          "on_deposit_and_stake", "pool_unstake", "on_unstake", "dispatch",
          "tail", "release"}

\* The state the contract stores stays within its types: no bucket of the row
\* (all u128 in types.rs) ever goes below zero.
TypeOK ==
    /\ validator \in Validator
    /\ user_validator_shares \in [Users -> Nat]
    /\ user_pending_unstake \in [Users -> Seq(Tranche)]
    /\ locks \in Seq(Lock)
    /\ paused \in BOOLEAN /\ price_active \in BOOLEAN
    /\ step \in Steps /\ cont \in UserAction
    /\ amount \in Nat /\ view \in PoolView /\ ok \in BOOLEAN
    /\ pool \in PoolAccount
    /\ epoch \in Nat
    /\ calls \in [lock: Nat, other: Nat]
    /\ cash \in Int /\ lost \in Nat /\ owed \in Int /\ pool_ops \in Nat

\* The row is Busy exactly while a chain of receipts is in flight: no second
\* chain starts on it (require_validator_idle), and every way out of the chain,
\* the failure paths of [1], [2c], [3b], [3c] and [5] included, clears Busy.
BusyIffInFlight == validator.tx_status = "Busy" <=> step # "idle"

\* The pool executes at most one successful deposit_and_stake or unstake per
\* epoch, even when the epoch changes between the call and its callback, which
\* is when last_settlement_epoch is written.
OnePoolOpPerEpoch == pool_ops <= 1

\* What the row still has to pay out (pending_user_liability) covers every
\* tranche users hold on it, at every receipt of the chain.
LiabilityCovered == owed <= pending_user_liability(validator)

\* The history variable owed really is the sum of all users' tranches.
OwedIsTranches ==
    owed = SumFunction([u \in Users |-> SumTranches(user_pending_unstake[u])])

\* NEAR that left for the pool, or came from it, and is not booked yet.
UnbookedAtPool ==
    IF \/ step = "pool_deposit_and_stake"
       \/ step = "on_deposit_and_stake" /\ ok
    THEN amount ELSE 0

UnbookedFromPool == IF step = "withdraw_transfer_done" /\ ok THEN amount ELSE 0

\* A payable entry's deposit while it is neither committed nor refunded.
Escrow ==
    IF step = "idle" \/ (step = "release" /\ ok) THEN 0 ELSE payable_refund(cont)

\* The contract holds exactly the NEAR its buckets say it holds: the stake not
\* yet sent to the pool, the claim bucket, the deposit of the lock in flight
\* and the transfers that bounced.  A deposit committed and refunded, or
\* neither, and NEAR credited twice or never, all break the equation.
Solvent ==
    cash + UnbookedAtPool - UnbookedFromPool
      = validator.pending_to_stake + validator.pending_to_claim + Escrow + lost

\* The shares of an account's locks that have not been unlocked.
ActiveShares(u) ==
    SumFunction([l \in DOMAIN locks |->
                   IF locks[l].owner = u /\ locks[l].status = "Active"
                   THEN locks[l].shares ELSE 0])

\* Shares are created and destroyed only by locks: the row's total is the sum
\* of the accounts' shares, each the sum of the account's active locks.
ShareLedger ==
    /\ validator.total_shares = SumFunction(user_validator_shares)
    /\ \A u \in Users : user_validator_shares[u] = ActiveShares(u)

\* The saturating_sub of Validator::net_stake never hides a deficit.
NoHiddenDeficit == gross_stake(validator) >= pending_not_in_contract(validator)

\* The state a callback's require! asks for is the state it finds: nothing that
\* runs between a pool call and its callback moves the pending buckets.
CallbacksFindTheirState ==
    /\ step = "withdraw_transfer_done" /\ ok =>
          validator.total_staked_balance >= amount
    /\ step = "on_deposit_and_stake" =>
          validator.pending_to_stake = validator.pending_to_unstake + amount
    /\ step = "on_unstake" =>
          validator.pending_to_unstake = validator.pending_to_stake + amount

\* The cached pool balance, corrected for the call in flight, never exceeds
\* what the pool holds: share prices are computed from NEAR that exists.
CacheNeverOverstates ==
    validator.total_staked_balance - UnbookedFromPool
      + (IF step = "on_deposit_and_stake" /\ ok THEN amount ELSE 0)
      <= pool.staked + pool.unstaked

\* No step of any chain lowers the NEAR behind a share: settlement moves value
\* between buckets, mint and burn round in the row's favour, refreshes only
\* bring rewards.
PriceNeverDrops ==
    [][validator.total_shares > 0 /\ validator'.total_shares > 0 =>
         net_stake(validator') * validator.total_shares
           >= net_stake(validator) * validator'.total_shares]_vars

\* An unstake never restarts the unlock delay of NEAR that is still unbonding
\* at the pool (last_unstake_epoch plus the settle epochs guards [3]).
UnbondingRunsOut ==
    [][pool'.available # pool.available => pool.available <= epoch]_vars

\* "If settle allows and the pool has withdrawable unstaked NEAR, pull from
\* pool first, then unstake" (docs/features/lazy-epoch-pipeline.md).
PullBeforeUnstake ==
    [][step' = "pool_unstake" /\ step # "pool_unstake" =>
         ~(pool.unstaked > 0 /\ pool.available <= epoch)]_vars

\* A row is removed only when nothing is left on it (the require! of
\* remove_validator), and stays empty.
RemovedRowIsEmpty ==
    validator.status = "Removed" =>
      /\ validator.total_shares = 0
      /\ validator.pending_to_stake = 0
      /\ pending_user_liability(validator) = 0

\* A chain, once started, always ends: the row is Idle again whatever fails on
\* the way and whether or not the contract is paused meanwhile.
ChainEnds == (validator.tx_status = "Busy") ~> (validator.tx_status = "Idle")
=============================================================================
