------------------------------- MODULE Lockup -------------------------------
(***************************************************************************)
(* The lockup contract of one owner: the NEAR it locks for veNEAR, and the *)
(* staking pool the owner may put that NEAR in.                            *)
(*                                                                         *)
(* One NEAR receipt is one action.  A pool call is a chain of receipts:    *)
(* the owner's call, the pool's method, for a withdrawal the transfer, and *)
(* the callback.  Every pool call may fail.  Updates to the veNEAR         *)
(* contract are detached promises: they are sent here and received by      *)
(* whoever composes this module.                                           *)
(***************************************************************************)
EXTENDS Integers

CONSTANTS
    Amounts,            \* amounts the owner names in a call
    Deposits,           \* what may be attached to a deployment
    min_lockup_deposit, \* NEAR the account keeps for its storage
    unlock_duration,    \* config.unlock_duration_ns, in ticks
    Rewards,            \* what the pool may credit at once
    NonceGap,           \* the nonces reserved for one block height
    MaxOwnerCalls,      \* bound on the owner's venear.rs calls
    MaxPoolCalls,       \* bound on the owner's owner.rs calls
    MaxTime             \* bound on the block height

ASSUME LockupAmounts ==
    /\ Amounts \subseteq Nat \ {0}
    /\ Deposits \subseteq Nat
    /\ Rewards \subseteq Nat
    /\ min_lockup_deposit \in Nat
ASSUME LockupBounds ==
    /\ unlock_duration \in Nat /\ NonceGap \in Nat
    /\ MaxOwnerCalls \in Nat /\ MaxPoolCalls \in Nat /\ MaxTime \in Nat

VARIABLES
    deployed,                \* does the lockup account exist?
    deleting,                \* height of a delete_lockup whose receipt is to run, or 0
    version,                 \* version of the code it was deployed with
    first_nonce,             \* history: the nonce it was deployed with
    lockup_update_nonce,
    venear_locked_balance,
    venear_pending_balance,
    venear_unlock_timestamp,
    selected,                \* is a staking pool selected?
    status,                  \* TransactionStatus of the selected pool
    deposit_amount,          \* the deposit known to be at the pool
    balance,                 \* env::account_balance()
    checks,                  \* whitelist checks whose callback has not run
    call,                    \* the chain of receipts with the pool
    refunds,                 \* deposits and transfers on their way back
    pool,                    \* this account's balances at the staking pool
    updates,                 \* on_lockup_update receipts on their way
    now,                     \* block height, the clock as well
    owner_calls, pool_calls  \* calls made so far, for the bounds

locks_     == <<venear_locked_balance, venear_pending_balance,
                venear_unlock_timestamp, lockup_update_nonce, updates>>
life       == <<deployed, deleting, version, first_nonce>>
staking    == <<selected, status, deposit_amount, checks>>
lockupVars == <<locks_, life, staking, balance, call, refunds, pool, now,
                owner_calls, pool_calls>>

-----------------------------------------------------------------------------
(* The chain of receipts of a pool call. *)

PoolMethods == {"deposit", "deposit_and_stake", "get_account_total_balance",
                "get_account_unstaked_balance", "withdraw", "stake",
                "unstake", "unstake_all"}

NoPoolCall == [step |-> "none", method |-> "none", amount |-> 0, ok |-> TRUE]

PoolCall == {NoPoolCall} \cup
    [step: {"pool", "transfer", "callback"}, method: PoolMethods,
     amount: Nat, ok: BOOLEAN]

Sat(a, b) == IF a >= b THEN a - b ELSE 0

get_account_balance == Sat(balance, min_lockup_deposit)

get_known_deposited_balance == IF selected THEN deposit_amount ELSE 0

total_near_balance == balance + get_known_deposited_balance

\* The subtraction panics ("Illegal balance") when more is locked than is there.
venear_liquid_balance ==
    total_near_balance - venear_locked_balance - venear_pending_balance

LegalBalance == venear_liquid_balance >= 0

assert_staking_pool_is_idle == selected /\ status = "Idle"

assert_no_staking_or_idle == selected => status = "Idle"

-----------------------------------------------------------------------------
(* Creation by the veNEAR contract, and deletion. *)

\* The receipt create_account + deploy_contract + new: all of it or nothing.
\* Bound: receipts of an earlier account of this owner have all run by then.
new(v, n, d) ==
    /\ ~deployed
    /\ call = NoPoolCall /\ checks = 0 /\ refunds = 0
    /\ d >= min_lockup_deposit
    /\ deployed' = TRUE
    /\ version' = v
    /\ first_nonce' = n
    /\ lockup_update_nonce' = n
    /\ venear_locked_balance' = 0
    /\ venear_pending_balance' = 0
    /\ venear_unlock_timestamp' = 0
    /\ selected' = FALSE
    /\ status' = "Idle"
    /\ deposit_amount' = 0
    /\ balance' = d
    /\ UNCHANGED <<deleting, checks, call, refunds, pool, updates, now,
                   owner_calls, pool_calls>>

OwnerCall ==
    /\ deployed
    /\ owner_calls < MaxOwnerCalls
    /\ owner_calls' = owner_calls + 1
    /\ UNCHANGED <<life, now, pool, pool_calls>>

\* The checks are made here; the account is deleted by a receipt of its own.
delete_lockup ==
    /\ deployed
    /\ owner_calls < MaxOwnerCalls
    /\ assert_no_staking_or_idle
    /\ get_known_deposited_balance = 0
    /\ venear_locked_balance = 0
    /\ venear_pending_balance = 0
    /\ deleting' = IF deleting = 0 THEN now ELSE deleting
    /\ owner_calls' = owner_calls + 1
    /\ UNCHANGED <<locks_, staking, deployed, version, first_nonce, balance,
                   call, refunds, pool, now, pool_calls>>

\* In a later block; the balance goes to the owner.  Receipts that still come
\* find no account.
DeleteAccount ==
    /\ 0 < deleting /\ deleting < now
    /\ deployed' = FALSE
    /\ deleting' = 0
    /\ balance' = 0
    /\ selected' = FALSE
    /\ status' = "Idle"
    /\ deposit_amount' = 0
    /\ venear_locked_balance' = 0
    /\ venear_pending_balance' = 0
    /\ UNCHANGED <<version, first_nonce, lockup_update_nonce, checks, call,
                   venear_unlock_timestamp, updates, refunds, pool, now,
                   owner_calls, pool_calls>>

-----------------------------------------------------------------------------
(* venear.rs: the owner locks and unlocks. *)

venear_lockup_update(locked) ==
    /\ lockup_update_nonce' = lockup_update_nonce + 1
    /\ updates' = updates \cup
         {[version |-> version, locked |-> locked,
           nonce |-> lockup_update_nonce + 1]}

SetLocked(locked, pending) ==
    /\ venear_locked_balance' = locked
    /\ venear_pending_balance' = pending
    /\ venear_lockup_update(locked)
    /\ UNCHANGED <<staking, balance, call, refunds>>

\* The argument: an amount, or everything there is.
AmountOrAll(all) == Amounts \cup {all}

\* Not gated on an idle pool: what is at the pool is locked as well.
lock_near ==
    /\ OwnerCall
    /\ LegalBalance
    /\ \E a \in AmountOrAll(venear_liquid_balance) :
          /\ a <= venear_liquid_balance
          /\ SetLocked(venear_locked_balance + a, venear_pending_balance)
    /\ UNCHANGED venear_unlock_timestamp

begin_unlock_near ==
    /\ OwnerCall
    /\ \E a \in AmountOrAll(venear_locked_balance) :
          /\ a <= venear_locked_balance
          /\ SetLocked(venear_locked_balance - a, venear_pending_balance + a)
    /\ venear_unlock_timestamp' = now + unlock_duration

end_unlock_near ==
    /\ OwnerCall
    /\ now >= venear_unlock_timestamp
    /\ \E a \in AmountOrAll(venear_pending_balance) :
          /\ a <= venear_pending_balance
          /\ SetLocked(venear_locked_balance, venear_pending_balance - a)
    /\ UNCHANGED venear_unlock_timestamp

lock_pending_near ==
    /\ OwnerCall
    /\ \E a \in AmountOrAll(venear_pending_balance) :
          /\ a <= venear_pending_balance
          /\ SetLocked(venear_locked_balance + a, venear_pending_balance - a)
    /\ UNCHANGED venear_unlock_timestamp

-----------------------------------------------------------------------------
(* owner.rs: the owner's calls to the staking pool. *)

PoolOwnerCall ==
    /\ deployed
    /\ pool_calls < MaxPoolCalls
    /\ pool_calls' = pool_calls + 1
    /\ UNCHANGED <<locks_, life, pool, now, owner_calls>>

\* Several checks may be in flight: nothing is marked until a callback runs.
select_staking_pool ==
    /\ PoolOwnerCall
    /\ ~selected
    /\ checks' = checks + 1
    /\ UNCHANGED <<selected, status, deposit_amount, balance, call, refunds>>

\* Fault: a pool with a known deposit may be dropped.
unselect_staking_pool_WithDeposit ==
    /\ PoolOwnerCall
    /\ assert_staking_pool_is_idle
    /\ selected' = FALSE
    /\ deposit_amount' = 0
    /\ UNCHANGED <<status, checks, balance, call, refunds>>

unselect_staking_pool ==
    /\ PoolOwnerCall
    /\ assert_staking_pool_is_idle
    /\ deposit_amount = 0
    /\ selected' = FALSE
    /\ UNCHANGED <<status, deposit_amount, checks, balance, call, refunds>>

StartPoolCall(method, a) ==
    /\ assert_staking_pool_is_idle
    /\ status' = "Busy"
    /\ call' = [step |-> "pool", method |-> method, amount |-> a, ok |-> TRUE]
    /\ UNCHANGED <<selected, deposit_amount, checks, refunds>>

deposit_to_staking_pool(method) ==
    /\ PoolOwnerCall
    /\ \E a \in Amounts :
          /\ get_account_balance >= a
          /\ StartPoolCall(method, a)
          /\ balance' = balance - a

refresh_staking_pool_balance ==
    /\ PoolOwnerCall
    /\ StartPoolCall("get_account_total_balance", 0)
    /\ UNCHANGED balance

withdraw_all_from_staking_pool ==
    /\ PoolOwnerCall
    /\ StartPoolCall("get_account_unstaked_balance", 0)
    /\ UNCHANGED balance

MoveAtPool(method) ==
    /\ PoolOwnerCall
    /\ \E a \in Amounts : StartPoolCall(method, a)
    /\ UNCHANGED balance

withdraw_from_staking_pool == MoveAtPool("withdraw")
stake                      == MoveAtPool("stake")
unstake                    == MoveAtPool("unstake")

unstake_all ==
    /\ PoolOwnerCall
    /\ StartPoolCall("unstake_all", 0)
    /\ UNCHANGED balance

\* To any account; a transfer that fails comes back as a refund.
transfer ==
    /\ PoolOwnerCall
    /\ assert_no_staking_or_idle
    /\ LegalBalance
    /\ \E a \in Amounts :
          /\ get_account_balance >= a
          /\ venear_liquid_balance >= a
          /\ balance' = balance - a
          /\ refunds' \in {refunds, refunds + a}
    /\ UNCHANGED <<staking, call>>

-----------------------------------------------------------------------------
(* The staking pool and the whitelist. *)

pool_total == pool.staked + pool.unstaked

\* What a call that the pool accepts leaves there.
PoolEffect(c, p) ==
    CASE c.method = "deposit" -> [p EXCEPT !.unstaked = @ + c.amount]
      [] c.method = "deposit_and_stake" -> [p EXCEPT !.staked = @ + c.amount]
      [] c.method = "withdraw" -> [p EXCEPT !.unstaked = @ - c.amount]
      [] c.method = "stake" ->
           [staked |-> p.staked + c.amount, unstaked |-> p.unstaked - c.amount]
      [] c.method = "unstake" ->
           LET moved == IF c.amount <= p.staked THEN c.amount ELSE p.staked
           IN  [staked |-> p.staked - moved, unstaked |-> p.unstaked + moved]
      [] c.method = "unstake_all" ->
           [staked |-> 0, unstaked |-> p.unstaked + p.staked]
      [] OTHER -> p

PoolAccepts(c, p) ==
    /\ c.method \in {"withdraw", "stake"} => c.amount <= p.unstaked
    /\ c.method \in {"unstake", "unstake_all"} => p.staked > 0

\* What a view returns; the other calls keep the amount they were made with.
PoolReply(c, p) ==
    CASE c.method = "get_account_total_balance" -> p.staked + p.unstaked
      [] c.method = "get_account_unstaked_balance" -> p.unstaked
      [] OTHER -> c.amount

PoolRuns ==
    /\ call.step = "pool"
    /\ PoolAccepts(call, pool)
    /\ pool' = PoolEffect(call, pool)
    /\ call' = [call EXCEPT
                  !.step = IF call.method = "withdraw" THEN "transfer" ELSE "callback",
                  !.amount = PoolReply(call, pool)]
    /\ UNCHANGED <<locks_, life, staking, balance, refunds, now,
                   owner_calls, pool_calls>>

\* Any pool call may fail; the deposit it carried comes back on its own.
PoolFails ==
    /\ call.step = "pool"
    /\ call' = [call EXCEPT !.step = "callback", !.ok = FALSE]
    /\ refunds' = IF call.method \in {"deposit", "deposit_and_stake"}
                  THEN refunds + call.amount ELSE refunds
    /\ UNCHANGED <<locks_, life, staking, balance, pool, now,
                   owner_calls, pool_calls>>

\* withdraw returns its transfer, so the callback runs after it.
PoolTransferArrives ==
    /\ call.step = "transfer"
    /\ balance' = IF deployed THEN balance + call.amount ELSE balance
    /\ call' = [call EXCEPT !.step = "callback", !.ok = deployed]
    /\ UNCHANGED <<locks_, life, staking, refunds, pool, now,
                   owner_calls, pool_calls>>

RefundArrives ==
    /\ refunds > 0
    /\ balance' = IF deployed THEN balance + refunds ELSE balance
    /\ refunds' = 0
    /\ UNCHANGED <<locks_, life, staking, call, pool, now,
                   owner_calls, pool_calls>>

PoolRewards ==
    /\ pool.staked > 0
    /\ \E r \in Rewards : pool' = [pool EXCEPT !.staked = @ + r]
    /\ now < MaxTime
    /\ now' = now + 1
    /\ UNCHANGED <<locks_, life, staking, balance, call, refunds,
                   owner_calls, pool_calls>>

-----------------------------------------------------------------------------
(* owner_callbacks.rs. *)

CallbackFrame ==
    UNCHANGED <<locks_, life, balance, refunds, pool, now,
                owner_calls, pool_calls>>

\* The second disjunct: the check failed, or the assertions do.
on_whitelist_is_whitelisted ==
    /\ checks > 0
    /\ checks' = checks - 1
    /\ \/ /\ deployed /\ ~selected
          /\ selected' = TRUE
          /\ status' = "Idle"
          /\ deposit_amount' = 0
       \/ UNCHANGED <<selected, status, deposit_amount>>
    /\ UNCHANGED call
    /\ CallbackFrame

CallbackOf(methods) ==
    /\ call.step = "callback"
    /\ call.method \in methods
    /\ deployed
    /\ UNCHANGED <<selected, checks>>
    /\ CallbackFrame

\* Fault: the deposit counts whatever the pool answered.
on_staking_pool_deposit_Always ==
    /\ CallbackOf({"deposit", "deposit_and_stake"})
    /\ status' = "Idle"
    /\ deposit_amount' = deposit_amount + call.amount
    /\ call' = NoPoolCall

\* on_staking_pool_deposit and on_staking_pool_deposit_and_stake.
on_staking_pool_deposit ==
    /\ CallbackOf({"deposit", "deposit_and_stake"})
    /\ status' = "Idle"
    /\ deposit_amount' = deposit_amount + (IF call.ok THEN call.amount ELSE 0)
    /\ call' = NoPoolCall

on_staking_pool_withdraw ==
    /\ CallbackOf({"withdraw"})
    /\ status' = "Idle"
    /\ deposit_amount' = IF call.ok THEN Sat(deposit_amount, call.amount)
                         ELSE deposit_amount
    /\ call' = NoPoolCall

\* on_staking_pool_stake, on_staking_pool_unstake, on_staking_pool_unstake_all.
on_staking_pool_stake ==
    /\ CallbackOf({"stake", "unstake", "unstake_all"})
    /\ status' = "Idle"
    /\ call' = NoPoolCall
    /\ UNCHANGED deposit_amount

\* A failed view panics before the status is reset: the lockup stays Busy.
on_get_account_total_balance ==
    /\ CallbackOf({"get_account_total_balance"})
    /\ status' = IF call.ok THEN "Idle" ELSE status
    /\ deposit_amount' = IF call.ok THEN call.amount ELSE deposit_amount
    /\ call' = NoPoolCall

\* Fault: the status is reset before the withdrawal it makes has ended.
on_get_account_unstaked_balance_to_withdraw_by_owner_Idle ==
    /\ CallbackOf({"get_account_unstaked_balance"})
    /\ status' = IF call.ok THEN "Idle" ELSE status
    /\ call' = IF call.ok /\ call.amount > 0
               THEN [call EXCEPT !.step = "pool", !.method = "withdraw"]
               ELSE NoPoolCall
    /\ UNCHANGED deposit_amount

\* As above for a failed view; a positive balance is withdrawn, still Busy.
on_get_account_unstaked_balance_to_withdraw_by_owner ==
    /\ CallbackOf({"get_account_unstaked_balance"})
    /\ status' = IF call.ok /\ call.amount = 0 THEN "Idle" ELSE status
    /\ call' = IF call.ok /\ call.amount > 0
               THEN [call EXCEPT !.step = "pool", !.method = "withdraw"]
               ELSE NoPoolCall
    /\ UNCHANGED deposit_amount

\* A callback that finds its account deleted.
CallbackWithoutAccount ==
    /\ call.step = "callback"
    /\ ~deployed
    /\ call' = NoPoolCall
    /\ UNCHANGED staking
    /\ CallbackFrame

-----------------------------------------------------------------------------
LockupInit ==
    /\ deployed = FALSE /\ deleting = 0
    /\ version = 0 /\ first_nonce = 0 /\ lockup_update_nonce = 0
    /\ venear_locked_balance = 0 /\ venear_pending_balance = 0
    /\ venear_unlock_timestamp = 0
    /\ selected = FALSE /\ status = "Idle" /\ deposit_amount = 0
    /\ balance = 0 /\ checks = 0 /\ call = NoPoolCall /\ refunds = 0
    /\ pool = [staked |-> 0, unstaked |-> 0]
    /\ updates = {} /\ now = 1 /\ owner_calls = 0 /\ pool_calls = 0

VenearCalls == lock_near \/ begin_unlock_near \/ end_unlock_near
               \/ lock_pending_near \/ delete_lockup

StakingCalls ==
    \/ select_staking_pool \/ unselect_staking_pool
    \/ deposit_to_staking_pool("deposit")
    \/ deposit_to_staking_pool("deposit_and_stake")
    \/ refresh_staking_pool_balance
    \/ withdraw_from_staking_pool \/ withdraw_all_from_staking_pool
    \/ stake \/ unstake \/ unstake_all \/ transfer

LockupReceipts ==
    \/ PoolRuns \/ PoolFails \/ PoolTransferArrives \/ RefundArrives
    \/ on_whitelist_is_whitelisted \/ on_staking_pool_deposit
    \/ on_staking_pool_withdraw \/ on_staking_pool_stake
    \/ on_get_account_total_balance
    \/ on_get_account_unstaked_balance_to_withdraw_by_owner
    \/ CallbackWithoutAccount \/ DeleteAccount

LockupSteps == VenearCalls \/ StakingCalls \/ LockupReceipts \/ PoolRewards

\* Time passes without a reward.
Tick ==
    /\ now < MaxTime
    /\ now' = now + 1
    /\ UNCHANGED <<locks_, life, staking, balance, call, refunds, pool,
                   owner_calls, pool_calls>>

LockupNext ==
    LockupSteps \/ Tick \/ \E d \in Deposits : new(1, now * NonceGap, d)

LockupSpec == LockupInit /\ [][LockupNext]_lockupVars

-----------------------------------------------------------------------------
(* Properties. *)

LockupTypeOK ==
    /\ deployed \in BOOLEAN /\ deleting \in Nat /\ selected \in BOOLEAN
    /\ version \in Nat /\ first_nonce \in Nat /\ lockup_update_nonce \in Nat
    /\ venear_locked_balance \in Nat /\ venear_pending_balance \in Nat
    /\ venear_unlock_timestamp \in Nat /\ status \in {"Idle", "Busy"}
    /\ deposit_amount \in Nat /\ balance \in Nat /\ checks \in Nat
    /\ call \in PoolCall /\ refunds \in Nat
    /\ pool \in [staked: Nat, unstaked: Nat]
    /\ updates \subseteq [version: Nat, locked: Nat, nonce: Nat]
    /\ now \in Nat /\ owner_calls \in Nat /\ pool_calls \in Nat

\* The status flag keeps the pool calls apart: while a chain of receipts is in
\* flight the lockup is Busy, so no second owner call to the pool can start.
BusyWhileCalling ==
    call.step # "none" /\ deployed => selected /\ status = "Busy"

\* A withdrawal the pool has made and the callback has not yet recorded.
Withdrawn ==
    IF call.step \in {"transfer", "callback"} /\ call.method = "withdraw" /\ call.ok
    THEN call.amount ELSE 0

\* deposit_amount, less a withdrawal whose callback has not run.
KnownDeposit == Sat(get_known_deposited_balance, Withdrawn)

\* The known deposit is never more than what the pool holds: rewards and
\* failures may leave it below, but no order of receipts leaves it above.
KnownDepositIsThere ==
    /\ KnownDeposit <= pool_total
    /\ call.step = "callback" /\ call.ok
       /\ call.method \in {"deposit", "deposit_and_stake"} /\ deployed
       => deposit_amount + call.amount <= pool_total
    /\ call.step = "callback" /\ call.ok
       /\ call.method = "get_account_total_balance"
       => call.amount <= pool_total

\* NEAR that has left an account and has not arrived at the other.
InTransit ==
    refunds
    + (IF \/ call.step = "transfer"
          \/ /\ call.method \in {"deposit", "deposit_and_stake"}
             /\ call.step = "pool" \/ (call.step = "callback" /\ call.ok)
       THEN call.amount ELSE 0)

Backed ==
    deployed => venear_locked_balance + venear_pending_balance
                <= balance + KnownDeposit + InTransit

\* No step but lock_near takes NEAR away from under a lock: transfers, pool
\* calls, their failures and refunds, and every callback keep the locked and
\* pending NEAR covered by what the account, the pool and transit hold.
OnlyLockNearUnbacks ==
    [][Backed /\ ~lock_near => Backed']_lockupVars
=============================================================================
