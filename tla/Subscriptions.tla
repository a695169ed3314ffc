---------------------------- MODULE Subscriptions ----------------------------
(***************************************************************************)
(* Monthly subscriptions (subscriptions.rs, and the recurring half of      *)
(* lock.rs and unlock.rs) on one active validator.  lock, update and       *)
(* unlock are settled calls (SettledCall) whose tails run in a later       *)
(* receipt; cancel and resume are single receipts; the catalog may change  *)
(* in between.                                                             *)
(*                                                                         *)
(* A subscription renews by itself: reads project its window to the        *)
(* present, and a scheduled update is written back by the next update or   *)
(* lock.  db holds the maps of the contract that these calls write; a tail *)
(* is the set of values it can leave db with, empty if it panics.  Prices  *)
(* and locks of other kinds, storage and claims are in Catalog and         *)
(* StakingPipeline.  Amounts are in yocto; a stored None is 0.             *)
(***************************************************************************)
EXTENDS BillingCalendar, FiniteSetsExt, TLC

CONSTANTS
    Users,
    Tiers,              \* the recurring prices: product, amount, max_amount, lock_factor
    LOCK_FACTOR_DENOM,
    min_lock_amount,
    Amounts,            \* NEAR locked, and target amounts of updates
    Increases,          \* NEAR attached to an update that adds stake
    StakeChanges,       \* what a settlement may find more or less at the pool
    StartDay,           \* the first day
    Jumps,              \* days between two receipts
    Horizon,            \* a day after all that occur
    MaxCalls, MaxAdminCalls, MaxTicks, MaxFaults,  \* bounds on users, admins, the clock
                        \* and failures at the pool
    MaxEvents           \* bound on all of these together

Prices   == DOMAIN Tiers
Products == {Tiers[i].product : i \in Prices}

ASSUME SubscriptionsAssumption ==
    /\ \A i \in Prices : Tiers[i].amount >= min_lock_amount
    /\ 0 \notin Prices
    /\ {LOCK_FACTOR_DENOM, min_lock_amount} \subseteq Nat \ {0}
    /\ Amounts \cup Increases \cup Jumps \subseteq Nat \ {0}
    /\ StakeChanges \subseteq Int

VARIABLES
    stage, attached, balance,   \* the settled call, see SettledCall
    cont,      \* the UserAction in flight
    db,        \* the contract's maps and the validator row
    now,       \* block_timestamp, in days
    fresh,     \* last_settlement_epoch is the current epoch
    paused,
    calls      \* how many calls, clock steps and failures at the pool there were

vars == <<stage, attached, balance, cont, db, now, fresh, paused, calls>>

Call == INSTANCE SettledCall WITH shares <- db.total_shares

NoAction == [kind |-> "none"]
NoUpdate == [price |-> 0, amount |-> 0, apply |-> 0]

Count(what, bound) ==
    /\ calls[what] < bound
    /\ calls.user + calls.admin + calls.tick + calls.fault < MaxEvents
    /\ calls' = [calls EXCEPT ![what] = @ + 1]

Without(f, k) == [x \in DOMAIN f \ {k} |-> f[x]]

-----------------------------------------------------------------------------
(* The validator row and the catalog, as far as subscriptions use them. *)

near_from_shares(d, n) ==
    IF d.total_shares = 0 THEN 0 ELSE (n * d.net_stake) \div d.total_shares

mint_shares(d, amount) ==
    IF d.total_shares = 0 \/ d.net_stake = 0
    THEN amount ELSE (amount * d.total_shares) \div d.net_stake

CanStake(d) == d.total_shares > 0 => d.net_stake > 0

internal_stake(d, amount) ==
    [d EXCEPT !.total_shares = @ + mint_shares(d, amount), !.net_stake = @ + amount]

CanUnstake(d, n) == n \in 1..d.total_shares /\ d.net_stake > 0

internal_unstake(d, n) ==
    [d EXCEPT !.total_shares = @ - n, !.net_stake = @ - near_from_shares(d, n)]

get_active_price_and_product(d, i) ==
    /\ i \in DOMAIN d.prices
    /\ d.prices[i].status = "Active"
    /\ d.products[Tiers[i].product] = "Active"

\* usage_count, kept as a BOOLEAN.
Use(d, i) == [d EXCEPT !.prices[i].used = TRUE]

required_near_months(i) == (Tiers[i].amount * Tiers[i].lock_factor) \div LOCK_FACTOR_DENOM

check_near_recurring_price_lock(i, amount) == amount >= required_near_months(i)

validate_subscription_target_amount(i, amount) ==
    /\ amount >= Tiers[i].amount
    /\ Tiers[i].max_amount # 0 => amount <= Tiers[i].max_amount

price_supports_recurring_amount(i, amount) ==
    /\ validate_subscription_target_amount(i, amount)
    /\ check_near_recurring_price_lock(i, amount)

-----------------------------------------------------------------------------
(* Records and indexes. *)

\* The counts of pending updates that target a price and its product.
CountTarget(d, i, n) ==
    IF i = 0 THEN d
    ELSE [d EXCEPT
            !.price_refs[i] = Max({0, @ + n}),
            !.product_refs[Tiers[i].product] =
                IF i \in DOMAIN d.prices THEN Max({0, @ + n}) ELSE @]

remove_pending_update_target_refs(d, s) ==
    IF s \in DOMAIN d.subs THEN CountTarget(d, d.subs[s].pending.price, -1) ELSE d

\* Fault: the update that is replaced stays counted.
internal_set_subscription_KeepsRef(d, s, sub) ==
    [CountTarget(d, sub.pending.price, 1) EXCEPT !.subs = (s :> sub) @@ @]

internal_set_subscription(d, s, sub) ==
    [CountTarget(remove_pending_update_target_refs(d, s), sub.pending.price, 1)
       EXCEPT !.subs = (s :> sub) @@ @]

internal_remove_subscription(d, s) ==
    [remove_pending_update_target_refs(d, s) EXCEPT !.subs = Without(@, s)]

add_subscription_to_product_index(d, s) ==
    [d EXCEPT !.by_product[d.subs[s].product] = @ \cup {s}]

remove_subscription_from_product_index(d, s) ==
    [d EXCEPT !.by_product[d.subs[s].product] = @ \ {s}]

add_subscription_to_indexes(d, u, s) ==
    IF s \in d.by_account[u] THEN d
    ELSE add_subscription_to_product_index([d EXCEPT !.by_account[u] = @ \cup {s}], s)

remove_subscription_from_indexes(d, u, s) ==
    IF s \notin d.by_account[u] THEN d
    ELSE remove_subscription_from_product_index([d EXCEPT !.by_account[u] = @ \ {s}], s)

CanMove(d, s, new) ==
    LET key == <<d.subs[s].account, new>>
    IN  key \in DOMAIN d.by_key => d.by_key[key] = s

move_subscription_product_index(d, u, s, old, new) ==
    IF old = new THEN d
    ELSE LET added == (<<u, new>> :> s) @@ d.by_key
             moved == IF <<u, old>> \in DOMAIN added /\ added[<<u, old>>] = s
                      THEN Without(added, <<u, old>>) ELSE added
         IN  [d EXCEPT !.by_key = moved,
                       !.by_product = [@ EXCEPT ![old] = @ \ {s}, ![new] = @ \cup {s}]]

-----------------------------------------------------------------------------
(* Windows, projection and the lazy commit of a scheduled update. *)

\* add_months_stripe_style for one month, tabulated over the days that occur.
NextMonth ==
    [anchor \in 1..31 |->
       [day \in StartDay..Horizon |-> add_months_stripe_style(anchor, 1, day)]]

projected_subscription_window_from(anchor, first, t) ==
    LET Window[start \in Nat] ==
          IF t < NextMonth[anchor][start]
          THEN [start |-> start, end |-> NextMonth[anchor][start]]
          ELSE Window[NextMonth[anchor][start]]
    IN  Window[first]

InWindow(sub, w) == w @@ sub

\* The tier that a due update leads to, without the update.
project_due_update_fields(sub) ==
    [sub EXCEPT !.pending = NoUpdate,
                !.price   = IF sub.pending.price = 0 THEN @ ELSE sub.pending.price,
                !.product = IF sub.pending.price = 0 THEN @ ELSE Tiers[sub.pending.price].product]

IsDue(sub) == sub.pending # NoUpdate /\ now >= sub.pending.apply

\* require_price on the target of a due update.
TargetExists(d, sub) ==
    IsDue(sub) /\ sub.pending.price # 0 => sub.pending.price \in DOMAIN d.prices

project_subscription_view_now(sub) ==
    LET due == IsDue(sub)
        w   == projected_subscription_window_from(
                 sub.anchor, IF due THEN sub.pending.apply ELSE sub.start, now)
    IN  CASE sub.status # "Active" -> sub
          [] sub.status = "Active" /\ sub.cancel ->
               [sub EXCEPT !.status = IF now >= sub.end THEN "Expired" ELSE @]
          [] OTHER -> InWindow(IF due THEN project_due_update_fields(sub) ELSE sub, w)

\* The stake above the target leaves through the unstake queue.
apply_scheduled_stake_decrease_at_renewal(d, sub, target) ==
    LET lock    == d.locks[sub.last_lock]
        surplus == Max({0, lock.amount - target})
        value   == near_from_shares(d, lock.shares)
        cut     == Min({(lock.shares * Min({surplus, value})) \div value, lock.shares})
        left    == [lock EXCEPT
                      !.shares = @ - cut,
                      !.amount = Max({0, @ - near_from_shares(d, cut)}),
                      !.status = IF lock.shares = cut THEN "UnlockRequested" ELSE @]
    IN  IF lock.status # "Active" \/ surplus = 0 \/ value = 0 \/ cut = 0 THEN d
        ELSE [internal_unstake(d, cut) EXCEPT !.locks[sub.last_lock] = left]

sync_subscription_lock_window(d, sub) ==
    IF d.locks[sub.last_lock].status = "Active"
    THEN [d EXCEPT !.locks[sub.last_lock] =
            [@ EXCEPT !.start = sub.start, !.end = sub.end, !.price = sub.price]]
    ELSE d

HasDueUpdate(d, s) ==
    LET sub == d.subs[s] IN sub.status = "Active" /\ ~sub.cancel /\ IsDue(sub)

CanApply(d, s) ==
    LET sub == d.subs[s]
    IN  HasDueUpdate(d, s) =>
          /\ TargetExists(d, sub)
          /\ sub.pending.amount # 0 => fresh
          /\ CanMove(d, s, project_due_update_fields(sub).product)

\* The lock, the indexes and the record of a subscription that has changed.
StoreUpdate(d, s, sub, updated) ==
    internal_set_subscription(
      move_subscription_product_index(sync_subscription_lock_window(d, updated),
                                      sub.account, s, sub.product, updated.product),
      s, updated)

\* Fault: the new period starts when the update is written back.
DueUpdate_FromNow(sub) ==
    InWindow(project_due_update_fields(sub),
             projected_subscription_window_from(sub.anchor, now, now))

DueUpdate(sub) ==
    InWindow(project_due_update_fields(sub),
             projected_subscription_window_from(sub.anchor, sub.pending.apply, now))

ApplyDue(d, s, sub) ==
    LET cut    == IF sub.pending.amount = 0 THEN d
                  ELSE apply_scheduled_stake_decrease_at_renewal(d, sub, sub.pending.amount)
        stored == StoreUpdate(cut, s, sub, DueUpdate(sub))
    IN  IF sub.pending.price = 0 THEN stored ELSE Use(stored, sub.pending.price)

apply_due_subscription_update(d, s) ==
    IF HasDueUpdate(d, s) THEN ApplyDue(d, s, d.subs[s]) ELSE d

-----------------------------------------------------------------------------
(* Entry points of the settled calls. *)

\* The chain goes straight to the tail when the row is settled in this epoch.
Begin(action, deposit) ==
    /\ ~paused
    /\ attached' = deposit
    /\ stage' = IF fresh THEN "tail" ELSE "settling"
    /\ UNCHANGED db
    /\ Call!Enter
    /\ cont' = action
    /\ Count("user", MaxCalls)
    /\ UNCHANGED <<now, fresh, paused>>

lock(u, i, amount) ==
    /\ amount >= min_lock_amount
    /\ get_active_price_and_product(db, i)
    /\ validate_subscription_target_amount(i, amount)
    /\ Begin([kind |-> "CommitRecurringSubscriptionLock", account |-> u, price |-> i,
              amount |-> amount], amount)

\* Another running subscription of the account is to move to the product.
assert_product_not_reserved_by_pending_update(d, u, product, allowed) ==
    \A s \in d.by_account[u] \ {allowed} :
        LET i == d.subs[s].pending.price
        IN  d.subs[s].status = "Active" /\ i \in DOMAIN d.prices =>
              Tiers[i].product # product

checked_subscription_update_inputs(d, u, s, i, target) ==
    LET sub     == d.subs[s]
        product == Tiers[i].product
        view    == project_subscription_view_now(sub)
        held    == d.locks[sub.last_lock]
    IN  /\ get_active_price_and_product(d, i)
        /\ validate_subscription_target_amount(i, target)
        /\ sub.account = u
        /\ sub.status = "Active"
        /\ ~sub.cancel
        /\ product # sub.product =>
              /\ CanMove(d, s, product)
              /\ assert_product_not_reserved_by_pending_update(d, u, product, s)
        /\ TargetExists(d, sub)
        /\ view.price \in DOMAIN d.prices
        /\ held.account = u /\ held.status = "Active"
        /\ now < view.end

update_subscription(u, s, i, target, deposit) ==
    /\ checked_subscription_update_inputs(db, u, s, i, target)
    /\ Begin([kind |-> "SubscriptionUpdate", account |-> u, sub |-> s, price |-> i,
              target |-> target, deposit |-> deposit], deposit)

\* Fault: the end of the lock alone is looked at.
assert_subscription_lock_can_unlock_ByEnd(lk) == TRUE

\* The projected end of a running subscription is always ahead.
assert_subscription_lock_can_unlock(lk) ==
    lk.sub \in DOMAIN db.subs =>
      LET sub == db.subs[lk.sub]
      IN  \/ sub.status # "Active"
          \/ sub.cancel
          \/ now >= project_subscription_view_now(sub).end

unlock(u, l) ==
    LET lk == db.locks[l]
    IN  /\ lk.account = u
        /\ lk.status = "Active"
        /\ assert_subscription_lock_can_unlock(lk)
        /\ now >= lk.end
        /\ Begin([kind |-> "UnlockQueueUnstake", account |-> u, lock |-> l,
                  shares |-> lk.shares], 0)

-----------------------------------------------------------------------------
(* cancel_subscription and resume_subscription, single receipts. *)

Receipt ==
    /\ ~paused
    /\ Count("user", MaxCalls)
    /\ UNCHANGED <<stage, attached, balance, cont, now, fresh, paused>>

\* A due update takes effect on the tier and not on the stake.
cancel_subscription(u, s) ==
    LET sub  == db.subs[s]
        view == [project_subscription_view_now(sub) EXCEPT !.pending = NoUpdate]
    IN  /\ sub.account = u
        /\ TargetExists(db, sub)
        /\ view.status = "Active"
        /\ CanMove(db, s, view.product)
        /\ db' = StoreUpdate(db, s, sub, [view EXCEPT !.cancel = TRUE])
        /\ Receipt

resume_subscription(u, s) ==
    LET sub == db.subs[s]
    IN  /\ sub.account = u
        /\ sub.status = "Active"
        /\ sub.cancel
        /\ now < sub.end
        /\ db' = internal_set_subscription(db, s, [sub EXCEPT !.cancel = FALSE])
        /\ Receipt

-----------------------------------------------------------------------------
(* Tails. *)

new_subscription_for_lock(u, i) ==
    LET anchor == billing_anchor_day_from_timestamp(now)
    IN  [account |-> u, product |-> Tiers[i].product, price |-> i,
         start |-> now, end |-> NextMonth[anchor][now],
         anchor |-> anchor, last_lock |-> 0, status |-> "Active", cancel |-> FALSE,
         pending |-> NoUpdate,
         born |-> now]   \* history: the first start

\* New locks and subscriptions are numbered by id_nonce.
commit_catalog_lock(d, s, sub, is_new_index, i, amount) ==
    LET l      == d.id_nonce + 1
        held   == [account |-> sub.account, amount |-> amount,
                   shares |-> mint_shares(d, amount), start |-> now, end |-> sub.end,
                   sub |-> s, price |-> i, status |-> "Active"]
        minted == [Use(internal_stake(d, amount), i)
                     EXCEPT !.locks = (l :> held) @@ @, !.id_nonce = l]
        stored == internal_set_subscription(minted, s, [sub EXCEPT !.last_lock = l])
        listed == add_subscription_to_indexes(stored, sub.account, s)
    IN  IF is_new_index
        THEN [listed EXCEPT !.by_key = (<<sub.account, sub.product>> :> s) @@ @]
        ELSE listed

\* The lock of a first period.
FirstLock(d, u, i, amount) ==
    LET s == d.id_nonce + 1
    IN  IF /\ price_supports_recurring_amount(i, amount)
           /\ CanStake(d)
        THEN {commit_catalog_lock([d EXCEPT !.id_nonce = s], s,
                                  new_subscription_for_lock(u, i), TRUE, i, amount)}
        ELSE {}

\* A further lock of a subscription: same tier, same stake.
NextLock(d, s, sub, i, amount) ==
    IF /\ i = sub.price
       /\ amount = d.locks[sub.last_lock].amount
       /\ sub.end > now
       /\ price_supports_recurring_amount(i, amount)
       /\ CanStake(d)
    THEN {commit_catalog_lock(d, s, sub, FALSE, i, amount)}
    ELSE {}

Renewed(sub) ==
    InWindow(sub, projected_subscription_window_from(sub.anchor, sub.start, now))

\* The subscription stored under the product, or to be projected on it.
FindSubscription(d, u, product) ==
    IF <<u, product>> \in DOMAIN d.by_key THEN {d.by_key[<<u, product>>]}
    ELSE {s \in d.by_account[u] :
            /\ d.subs[s].status = "Active"
            /\ project_subscription_view_now(d.subs[s]).product = product}

DropExpired(d, u, s) ==
    internal_remove_subscription(
      remove_subscription_from_indexes(
        [d EXCEPT !.by_key = Without(@, <<u, d.subs[s].product>>)], u, s), s)

\* The lock on a subscription that exists, once a due update is applied.
LockExisting(d, s, sub, u, i, amount) ==
    CASE now < sub.end ->
           IF d.locks[sub.last_lock].status = "Active" THEN {}
           ELSE NextLock(d, s, sub, i, amount)
      [] now >= sub.end /\ sub.cancel ->
           FirstLock(DropExpired(d, u, s), u, i, amount)
      [] now >= sub.end /\ ~sub.cancel ->
           NextLock(d, s, Renewed(sub), i, amount)

LockApplied(d, s, u, i, amount) == LockExisting(d, s, d.subs[s], u, i, amount)

commit_recurring_subscription_lock_after_settle(u, i, amount) ==
    LET product == Tiers[i].product
        found   == FindSubscription(db, u, product)
    IN  IF ~get_active_price_and_product(db, i) THEN {}
        ELSE IF found # {}
        THEN UNION {LockApplied(apply_due_subscription_update(db, s), s, u, i, amount) :
                      s \in {t \in found : CanApply(db, t)}}
        ELSE IF assert_product_not_reserved_by_pending_update(db, u, product, 0)
        THEN FirstLock(db, u, i, amount)
        ELSE {}

\* Stake is added now and removed at the end of the period; a cheaper tier, and
\* one that does not take the stake held until then, waits as well.
build_subscription_update_decision(sub, current, i, target) ==
    LET more    == target > current
        less    == target < current
        at_once == /\ i # sub.price
                   /\ Tiers[i].amount >= Tiers[sub.price].amount
                   /\ less => price_supports_recurring_amount(i, current)
        later   == i # sub.price /\ ~at_once
    IN  [plan_now |-> at_once, plan_later |-> later,
         increase |-> IF more THEN target - current ELSE 0,
         decrease_to |-> IF less THEN target ELSE 0,
         affordable |->
           /\ at_once \/ more =>
                check_near_recurring_price_lock(IF at_once THEN i ELSE sub.price,
                                                IF more THEN target ELSE current)
           /\ later \/ less => check_near_recurring_price_lock(i, target)]

apply_subscription_update_state(sub, i, decision) ==
    LET moved == IF decision.plan_now
                 THEN [sub EXCEPT !.price = i, !.product = Tiers[i].product] ELSE sub
    IN  [moved EXCEPT !.pending =
           IF decision.plan_later \/ decision.decrease_to # 0
           THEN [price |-> IF decision.plan_later THEN i ELSE 0,
                 amount |-> decision.decrease_to, apply |-> sub.end]
           ELSE NoUpdate]

\* 1 yocto is attached unless stake is added.
DepositMatches(d, deposit, increase) ==
    IF increase = 0 THEN deposit = 1
    ELSE /\ deposit = increase
         /\ deposit >= min_lock_amount
         /\ CanStake(d)
         /\ mint_shares(d, deposit) > 0

IncreaseStake(d, l, deposit) ==
    [internal_stake(d, deposit) EXCEPT !.locks[l].amount = @ + deposit,
                                       !.locks[l].shares = @ + mint_shares(d, deposit)]

UpdateAsDecided(d, s, sub, i, deposit, decision) ==
    LET staked == IF decision.increase = 0 THEN d ELSE IncreaseStake(d, sub.last_lock, deposit)
        stored == StoreUpdate(staked, s, sub, apply_subscription_update_state(sub, i, decision))
    IN  IF ~decision.affordable \/ ~DepositMatches(d, deposit, decision.increase) THEN {}
        ELSE {IF decision.plan_now THEN Use(stored, i) ELSE stored}

UpdateView(d, s, sub, i, target, deposit) ==
    UpdateAsDecided(d, s, sub, i, deposit,
      build_subscription_update_decision(sub, d.locks[sub.last_lock].amount, i, target))

UpdateApplied(d, u, s, i, target, deposit) ==
    IF checked_subscription_update_inputs(d, u, s, i, target)
    THEN UpdateView(d, s, project_subscription_view_now(d.subs[s]), i, target, deposit)
    ELSE {}

commit_subscription_update_after_settle(u, s, i, target, deposit) ==
    IF s \in DOMAIN db.subs /\ CanApply(db, s)
    THEN UpdateApplied(apply_due_subscription_update(db, s), u, s, i, target, deposit)
    ELSE {}

resolve_unlock(u, l, n) ==
    LET lk == db.locks[l]
    IN  IF lk.status = "Active" /\ lk.shares = n /\ CanUnstake(db, n)
        THEN {[internal_unstake(db, n) EXCEPT !.locks[l].status = "UnlockRequested"]}
        ELSE {}

TailOutcomes ==
    CASE cont.kind = "CommitRecurringSubscriptionLock" ->
           commit_recurring_subscription_lock_after_settle(cont.account, cont.price, cont.amount)
      [] cont.kind = "SubscriptionUpdate" ->
           commit_subscription_update_after_settle(cont.account, cont.sub, cont.price,
                                                   cont.target, cont.deposit)
      [] cont.kind = "UnlockQueueUnstake" ->
           resolve_unlock(cont.account, cont.lock, cont.shares)

TailCommits ==
    /\ stage = "tail"
    /\ db' \in TailOutcomes
    /\ UNCHANGED balance
    /\ Call!Commit
    /\ UNCHANGED <<cont, now, fresh, paused, calls>>

TailPanics ==
    /\ UNCHANGED db
    /\ Call!Fail
    /\ TailOutcomes = {}
    /\ UNCHANGED <<cont, now, fresh, paused, calls>>

on_epoch_pipeline_release ==
    /\ UNCHANGED db
    /\ Call!Release
    /\ cont' = NoAction
    /\ UNCHANGED <<now, fresh, paused, calls>>

-----------------------------------------------------------------------------
(* The settlement by its contract in SettledCall, catalog changes, the clock. *)

\* net_stake is refreshed from the pool: rewards raise it, dust that the pool
\* pays out beyond pending_to_withdraw lowers it.  If an operation at the pool
\* fails, the tail runs with the row not settled in this epoch.
Settled ==
    /\ stage = "settling"
    /\ \E c \in StakeChanges : db' = [db EXCEPT !.net_stake = Max({0, @ + c})]
    /\ stage' = "tail"
    /\ UNCHANGED <<attached, balance>>
    /\ Call!Settle
    /\ \/ fresh' = TRUE /\ UNCHANGED calls
       \/ UNCHANGED fresh /\ Count("fault", MaxFaults)
    /\ UNCHANGED <<cont, now, paused>>

SettlementFails ==
    /\ UNCHANGED db
    /\ \/ Call!Abort
       \/ UNCHANGED <<attached, balance>> /\ stage' = "release" /\ Call!Settle
    /\ cont' = IF stage' = "idle" THEN NoAction ELSE cont
    /\ UNCHANGED <<now, fresh, paused, calls>>

AdminStep ==
    /\ Count("admin", MaxAdminCalls)
    /\ UNCHANGED <<stage, attached, balance, cont, now, fresh>>

SetPaused(value) ==
    /\ paused = ~value
    /\ paused' = value
    /\ AdminStep
    /\ UNCHANGED db

CatalogChange == ~paused /\ AdminStep /\ UNCHANGED paused

archive_price(i) ==
    /\ i \in DOMAIN db.prices
    /\ db.price_refs[i] = 0
    /\ db' = [db EXCEPT !.prices[i].status = "Archived"]
    /\ CatalogChange

unarchive_price(i) ==
    /\ i \in DOMAIN db.prices
    /\ db.prices[i].status = "Archived"
    /\ db' = [db EXCEPT !.prices[i].status = "Active"]
    /\ CatalogChange

delete_price(i) ==
    /\ i \in DOMAIN db.prices
    /\ ~db.prices[i].used
    /\ db.price_refs[i] = 0
    /\ db' = [db EXCEPT !.prices = Without(@, i)]
    /\ CatalogChange

archive_product(p) ==
    /\ db.product_refs[p] = 0
    /\ db' = [db EXCEPT !.products[p] = "Archived"]
    /\ CatalogChange

unarchive_product(p) ==
    /\ db.products[p] = "Archived"
    /\ db' = [db EXCEPT !.products[p] = "Active"]
    /\ CatalogChange

\* Days pass, and with them the epoch of the last settlement.
Tick ==
    /\ Count("tick", MaxTicks)
    /\ \E days \in Jumps : now' = now + days
    /\ fresh' = FALSE
    /\ UNCHANGED <<stage, attached, balance, cont, db, paused>>

-----------------------------------------------------------------------------

Init ==
    /\ db = [subs |-> <<>>, locks |-> <<>>, by_key |-> <<>>,
             by_account |-> [u \in Users |-> {}],
             by_product |-> [p \in Products |-> {}],
             price_refs |-> [i \in Prices |-> 0],
             product_refs |-> [p \in Products |-> 0],
             prices |-> [i \in Prices |-> [status |-> "Active", used |-> FALSE]],
             products |-> [p \in Products |-> "Active"],
             total_shares |-> 0, net_stake |-> 0, id_nonce |-> 0]
    /\ balance = 0
    /\ Call!CallInit
    /\ cont = NoAction
    /\ now = StartDay
    /\ fresh = FALSE
    /\ paused = FALSE
    /\ calls = [user |-> 0, admin |-> 0, tick |-> 0, fault |-> 0]

UserCalls ==
    \E u \in Users :
        \/ \E i \in Prices : \E amount \in Amounts : lock(u, i, amount)
        \/ \E s \in DOMAIN db.subs :
              \/ cancel_subscription(u, s)
              \/ resume_subscription(u, s)
              \/ \E i \in Prices : \E target \in Amounts : \E deposit \in {1} \cup Increases :
                    update_subscription(u, s, i, target, deposit)
        \/ \E l \in DOMAIN db.locks : unlock(u, l)

Receipts ==
    \/ Settled
    \/ SettlementFails
    \/ TailCommits
    \/ TailPanics
    \/ on_epoch_pipeline_release

Admins ==
    \/ \E i \in Prices : archive_price(i) \/ unarchive_price(i) \/ delete_price(i)
    \/ \E p \in Products : archive_product(p) \/ unarchive_product(p)
    \/ SetPaused(TRUE)
    \/ SetPaused(FALSE)

\* Nobody has to call: only a chain in flight must be able to go on.
NoCall == stage = "idle" /\ UNCHANGED vars

Next == UserCalls \/ Receipts \/ Admins \/ Tick \/ NoCall

Spec == Init /\ [][Next]_vars

-----------------------------------------------------------------------------
(* Properties. *)

\* A calendar kept apart from the one of the code: the lengths of the months
\* from that of 1 December 2023 (day 19692) on.
MonthLengths == <<31, 31, 29, 31, 30, 31, 30, 31, 31, 30, 31, 30, 31, 31, 28>>

MonthStarts ==
    [m \in DOMAIN MonthLengths |-> MapThenSumSet(LAMBDA k : MonthLengths[k], 1..(m - 1)) + 19692]

Boundary(born, k) ==
    LET m == Max({n \in DOMAIN MonthStarts : MonthStarts[n] <= born})
    IN  MonthStarts[m + k] + Min({born - MonthStarts[m], MonthLengths[m + k] - 1})

\* The stored period of a subscription runs from one monthly boundary of its
\* first day to the next: lazy renewals, updates and clamping to a short month
\* never make it drift.  A running one is shown in the period of today.
WindowFollowsCalendar ==
    \A s \in DOMAIN db.subs :
        LET sub  == db.subs[s]
            view == project_subscription_view_now(sub)
        IN  /\ \E k \in 0..8 : /\ sub.start = Boundary(sub.born, k)
                               /\ sub.end = Boundary(sub.born, k + 1)
            /\ view.status = "Active" => view.start <= now /\ now < view.end

\* Every index finds exactly the stored subscriptions, the counts that protect
\* the catalog are those of the scheduled updates, whose targets stay active, and
\* an account never has two subscriptions for a product, not even when the
\* updates that have come due are counted in.
SubscriptionIndexes ==
    LET ids == DOMAIN db.subs
        Moving(i) == {s \in ids : db.subs[s].pending.price = i}
    IN  /\ db.by_key = [k \in {<<db.subs[s].account, db.subs[s].product>> : s \in ids} |->
                          CHOOSE s \in ids : <<db.subs[s].account, db.subs[s].product>> = k]
        /\ \A u \in Users : db.by_account[u] = {s \in ids : db.subs[s].account = u}
        /\ \A p \in Products :
              /\ db.by_product[p] = {s \in ids : db.subs[s].product = p}
              /\ db.product_refs[p] =
                   Cardinality(UNION {Moving(i) : i \in {j \in Prices : Tiers[j].product = p}})
        /\ \A i \in Prices :
              /\ db.price_refs[i] = Cardinality(Moving(i))
              /\ Moving(i) # {} => get_active_price_and_product(db, i)
        /\ \A s, t \in ids :
              LET a == project_subscription_view_now(db.subs[s])
                  b == project_subscription_view_now(db.subs[t])
              IN  a.account = b.account /\ a.product = b.product => s = t

\* A running subscription has its stake: its last lock is active, on its tier and
\* for its period, holds what the tier asks for, and no unlock, update or
\* decrease that overtakes it takes that away.  The row counts the shares of
\* exactly the active locks.
RunningIsBacked ==
    /\ \A s \in DOMAIN db.subs :
          LET sub  == db.subs[s]
              held == db.locks[sub.last_lock]
          IN  project_subscription_view_now(sub).status = "Active" =>
                /\ held.status = "Active"
                /\ held.account = sub.account /\ held.sub = s
                /\ held.price = sub.price /\ held.end = sub.end
                /\ held.amount >= Max({Tiers[sub.price].amount, required_near_months(sub.price)})
    /\ db.total_shares =
         MapThenSumSet(LAMBDA l : db.locks[l].shares,
                       {l \in DOMAIN db.locks : db.locks[l].status = "Active"})

\* project_lock_view_now: what get_lock shows as effective.
EffectiveAmount(l) ==
    LET lk  == db.locks[l]
        sub == db.subs[lk.sub]
    IN  IF /\ lk.sub \in DOMAIN db.subs
           /\ sub.last_lock = l
           /\ lk.status = "Active"
           /\ HasDueUpdate(db, lk.sub)
           /\ sub.pending.amount # 0
        THEN apply_scheduled_stake_decrease_at_renewal(db, sub, sub.pending.amount).locks[l].amount
        ELSE lk.amount

ShownPeriod(s) ==
    LET view == project_subscription_view_now(db.subs[s]) IN <<view.start, view.end>>

ShownPrice(s) == project_subscription_view_now(db.subs[s]).price

\* Views tell the truth about what is written back later: while the clock stands,
\* no call moves the period a view shows, only an update of a subscription
\* changes the tier it shows, and only a settlement lowers the stake shown.
ViewIsStable ==
    [][now' = now =>
         /\ \A s \in DOMAIN db.subs \cap DOMAIN db.subs' :
               /\ ShownPeriod(s)' = ShownPeriod(s)
               /\ \/ cont.kind = "SubscriptionUpdate" /\ stage = "tail" /\ cont.sub = s
                  \/ ShownPrice(s)' = ShownPrice(s)
         /\ \A l \in DOMAIN db.locks :
               stage = "settling" \/ EffectiveAmount(l)' >= EffectiveAmount(l)]_<<db.subs, db.locks>>
==============================================================================
