------------------------------- MODULE Catalog -------------------------------
(***************************************************************************)
(* The staking contract's accounts, catalog and direct payments: storage   *)
(* deposits (accounts.rs), products and prices with their farm pools       *)
(* (products.rs, prices.rs), purchases and revenue (payments.rs), for one  *)
(* active validator.  Farm adds the stakes on farm prices.                 *)
(*                                                                         *)
(* A catalog change is modelled at its *_after_get_owner callback, which   *)
(* repeats the checks of its entry point.  Names, descriptions and         *)
(* recurring prices (Subscriptions) are left out; usage_count is kept as   *)
(* the BOOLEAN used, id_nonce as the next free number.                     *)
(***************************************************************************)
EXTENDS SettledCall, FiniteSetsExt, Functions

CONSTANTS
    Users,
    min_storage_deposit, per_purchase_storage_stake,
    per_farm_position_storage_stake, min_lock_amount,   \* config.rs
    RewardUnit,     \* YOCTO_PER_NEAR * NS_PER_SECOND * FARM_REWARD_RATE_DENOM
    AccDenom,       \* FARM_ACC_REWARD_PER_SHARE_DENOM
    Rates,          \* farm reward rates a catalog admin uses
    MaxAmounts,     \* values of max_amount, 0 when there is none
    Deposits,       \* NEAR attached to storage_deposit
    InitialDeposit, \* what each user has deposited at first
    MaxUserCalls,   \* bound on the calls of users
    MaxAdminCalls,  \* bound on catalog changes
    MaxTotal        \* bound on the calls and the ticks of the clock together

ASSUME CatalogAssumption ==
    /\ {min_storage_deposit, per_purchase_storage_stake,
        per_farm_position_storage_stake} \subseteq Nat
    /\ {min_lock_amount, RewardUnit, AccDenom} \subseteq Nat \ {0}
    /\ IsFiniteSet(Users)
    /\ Rates \cup MaxAmounts \cup Deposits \subseteq Nat
    /\ \E r \in Rates : \A s \in Rates : r >= s
    /\ InitialDeposit \in Nat /\ InitialDeposit >= min_storage_deposit

VARIABLES
    paused,
    now,           \* env::block_timestamp
    accounts,      \* storage_deposit of each registered account
    purchases,     \* user_purchase_count
    farms,         \* user_farm_position_count
    products, prices, farm_pools, id_nonce,
    revenue,       \* revenue_by_validator
    net_stake,     \* net_stake_yocto of the validator
    calls          \* how many calls users and admins have made

catalog     == <<products, prices, farm_pools, id_nonce>>
storage     == <<accounts, purchases, farms>>
catalogVars == <<callVars, catalog, storage, paused, now, revenue, net_stake, calls>>

InBudget == calls.user + calls.admin + now < MaxTotal

UserCall ==
    /\ InBudget
    /\ calls.user < MaxUserCalls
    /\ calls' = [calls EXCEPT !.user = @ + 1]

AdminCall ==
    /\ InBudget
    /\ calls.admin < MaxAdminCalls
    /\ calls' = [calls EXCEPT !.admin = @ + 1]

With(f, k, v) == [x \in DOMAIN f \cup {k} |-> IF x = k THEN v ELSE f[x]]
Without(f, k) == [x \in DOMAIN f \ {k} |-> f[x]]

\* A call outside the settlement chain: NEAR arrives or leaves, the row and the
\* call in flight do not change.
Transfer(amount) == balance' = balance + amount /\ UNCHANGED <<stage, attached, shares>>

-----------------------------------------------------------------------------
(* accounts.rs *)

required_storage_deposit_yocto(u, extra_purchases, extra_farm_positions) ==
    min_storage_deposit
      + per_purchase_storage_stake * (purchases[u] + extra_purchases)
      + per_farm_position_storage_stake * (farms[u] + extra_farm_positions)

Prepaid(u, amount) == u \in DOMAIN accounts /\ accounts[u] >= amount

ensure_min_base_storage(u) == Prepaid(u, min_storage_deposit)

ensure_min_storage_for_new_purchase(u) ==
    Prepaid(u, required_storage_deposit_yocto(u, 1, 0))

ensure_min_storage_for_new_farm_position(u) ==
    Prepaid(u, required_storage_deposit_yocto(u, 0, 1))

available_storage_yocto(u) ==
    Max({0, accounts[u] - required_storage_deposit_yocto(u, 0, 0)})

\* What is attached beyond the accepted part is sent back by the same receipt.
storage_deposit(u, deposit, registration_only) ==
    LET current   == IF u \in DOMAIN accounts THEN accounts[u] ELSE 0
        accepted  == IF registration_only
                     THEN Min({Max({0, min_storage_deposit - current}), deposit})
                     ELSE deposit
    IN  /\ UserCall
        /\ ~paused
        /\ deposit > 0 \/ registration_only
        /\ current + accepted >= min_storage_deposit
        /\ accounts' = With(accounts, u, current + accepted)
        /\ Transfer(accepted)
        /\ UNCHANGED <<catalog, purchases, farms, paused, now, revenue, net_stake>>

\* Fault: the deposit is paid out and still credited.
storage_withdraw_Keeps(u, amount) ==
    /\ UserCall
    /\ ~paused
    /\ u \in DOMAIN accounts
    /\ amount \in 1..available_storage_yocto(u)
    /\ Transfer(-amount)
    /\ UNCHANGED <<catalog, storage, paused, now, revenue, net_stake>>

storage_withdraw(u, amount) ==
    /\ UserCall
    /\ ~paused
    /\ u \in DOMAIN accounts
    /\ amount \in 1..available_storage_yocto(u)
    /\ accounts' = [accounts EXCEPT ![u] = @ - amount]
    /\ Transfer(-amount)
    /\ UNCHANGED <<catalog, purchases, farms, paused, now, revenue, net_stake>>

\* The pending tranches and the active positions that has_retained_record_storage
\* looks at besides belong to an account with a farm position.
has_retained_record_storage(u) == purchases[u] > 0 \/ farms[u] > 0

storage_unregister(u) ==
    /\ UserCall
    /\ ~paused
    /\ u \in DOMAIN accounts
    /\ ~has_retained_record_storage(u)
    /\ accounts' = Without(accounts, u)
    /\ Transfer(-accounts[u])
    /\ UNCHANGED <<catalog, purchases, farms, paused, now, revenue, net_stake>>

-----------------------------------------------------------------------------
(* Farm pools: what stake.rs does with them for the catalog. *)

near_from_shares(n) == IF shares = 0 THEN 0 ELSE (n * net_stake) \div shares

farm_delta_reward_units(near, elapsed, rate) == (near * elapsed * rate) \div RewardUnit

simulate_settled_farm_pool(pool) ==
    CASE now <= pool.last -> pool
      [] now > pool.last /\ pool.shares = 0 -> [pool EXCEPT !.last = now]
      [] now > pool.last /\ pool.shares > 0 ->
           LET delta == farm_delta_reward_units(near_from_shares(pool.shares),
                                                now - pool.last, pool.rate)
           IN  [pool EXCEPT !.acc = @ + (delta * AccDenom) \div pool.shares,
                            !.last = now]

NewPool(rate) == [rate |-> rate, shares |-> 0, acc |-> 0, last |-> now]

-----------------------------------------------------------------------------
(* products.rs *)

AdminStep ==
    /\ ~paused
    /\ AdminCall
    /\ UNCHANGED <<callVars, storage, paused, now, revenue, net_stake>>

create_product ==
    /\ products' = With(products, id_nonce,
                        [status |-> "Active", price_ids |-> {},
                         default_price_id |-> 0, used |-> FALSE])
    /\ id_nonce' = id_nonce + 1
    /\ AdminStep
    /\ UNCHANGED <<prices, farm_pools>>

archive_product(p) ==
    /\ products' = [products EXCEPT ![p].default_price_id = 0, ![p].status = "Archived"]
    /\ AdminStep
    /\ UNCHANGED <<prices, farm_pools, id_nonce>>

delete_product(p) ==
    /\ ~products[p].used
    /\ products[p].price_ids = {}
    /\ products' = Without(products, p)
    /\ AdminStep
    /\ UNCHANGED <<prices, farm_pools, id_nonce>>

unarchive_product(p) ==
    /\ products[p].status = "Archived"
    /\ products' = [products EXCEPT ![p].status = "Active"]
    /\ AdminStep
    /\ UNCHANGED <<prices, farm_pools, id_nonce>>

\* i = 0 clears the default.
set_product_default_price(p, i) ==
    /\ products[p].status = "Active"
    /\ i # 0 => /\ prices[i].product = p
                /\ prices[i].status = "Active"
                /\ i \in products[p].price_ids
    /\ products' = [products EXCEPT ![p].default_price_id = i]
    /\ AdminStep
    /\ UNCHANGED <<prices, farm_pools, id_nonce>>

clear_product_default_price_field_if_matches(ps, p, i) ==
    IF ps[p].default_price_id = i THEN [ps EXCEPT ![p].default_price_id = 0] ELSE ps

-----------------------------------------------------------------------------
(* prices.rs *)

require_no_active_farm_price_for_product(p) ==
    \A i \in products[p].price_ids \cap DOMAIN prices :
        prices[i].type # "Farm" \/ prices[i].status # "Active"

\* validate_price_fields: the amount is min_lock_amount, the least a farm allows.
create_price(p, type, rate) ==
    /\ products[p].status = "Active"
    /\ type = "Farm" => require_no_active_farm_price_for_product(p)
    /\ prices' = With(prices, id_nonce,
                      [product |-> p, type |-> type, amount |-> min_lock_amount,
                       max_amount |-> 0, rate |-> rate,
                       status |-> "Active", used |-> FALSE])
    /\ farm_pools' = IF type = "Farm" THEN With(farm_pools, id_nonce, NewPool(rate))
                                      ELSE farm_pools
    /\ products' = [products EXCEPT ![p].price_ids = @ \cup {id_nonce}]
    /\ id_nonce' = id_nonce + 1
    /\ AdminStep

\* Fault: the new rate also applies to the time since the last settlement.
edit_price_NoSettle(i, max, rate) ==
    /\ max # 0 => max >= prices[i].amount
    /\ prices' = [prices EXCEPT ![i].max_amount = max, ![i].rate = rate]
    /\ farm_pools' = IF i \in DOMAIN farm_pools
                     THEN [farm_pools EXCEPT ![i].rate = rate] ELSE farm_pools
    /\ AdminStep
    /\ UNCHANGED <<products, id_nonce>>

\* With metadata; without, only the name and the description change.  A farm
\* rate changes prospectively: the pool is settled first.
edit_price(i, max, rate) ==
    LET settled == simulate_settled_farm_pool(farm_pools[i])
    IN  /\ max # 0 => max >= prices[i].amount
        /\ prices[i].type # "Farm" => rate = 0
        /\ prices' = [prices EXCEPT ![i].max_amount = max, ![i].rate = rate]
        /\ farm_pools' = IF prices[i].type = "Farm" /\ rate # prices[i].rate
                         THEN [farm_pools EXCEPT ![i] = [settled EXCEPT !.rate = rate]]
                         ELSE farm_pools
        /\ AdminStep
        /\ UNCHANGED <<products, id_nonce>>

\* Fault: the archived price stays the default of its product.
archive_price_KeepsDefault(i) ==
    /\ prices[i].type = "Farm" => farm_pools[i].shares = 0
    /\ prices' = [prices EXCEPT ![i].status = "Archived"]
    /\ AdminStep
    /\ UNCHANGED <<products, farm_pools, id_nonce>>

archive_price(i) ==
    /\ prices[i].type = "Farm" => farm_pools[i].shares = 0
    /\ prices' = [prices EXCEPT ![i].status = "Archived"]
    /\ products' = clear_product_default_price_field_if_matches(
                     products, prices[i].product, i)
    /\ AdminStep
    /\ UNCHANGED <<farm_pools, id_nonce>>

\* Fault: a price may go as soon as nobody stakes on it.
delete_price_WhileUsed(i) ==
    LET p == prices[i].product
    IN  /\ prices[i].type = "Farm" => farm_pools[i].shares = 0
        /\ prices' = Without(prices, i)
        /\ farm_pools' = Without(farm_pools, i)
        /\ products' = clear_product_default_price_field_if_matches(
                         [products EXCEPT ![p].price_ids = @ \ {i}], p, i)
        /\ AdminStep
        /\ UNCHANGED id_nonce

delete_price(i) ==
    LET p == prices[i].product
    IN  /\ ~prices[i].used
        /\ prices[i].type = "Farm" => farm_pools[i].shares = 0
        /\ prices' = Without(prices, i)
        /\ farm_pools' = Without(farm_pools, i)
        /\ products' = clear_product_default_price_field_if_matches(
                         [products EXCEPT ![p].price_ids = @ \ {i}], p, i)
        /\ AdminStep
        /\ UNCHANGED id_nonce

unarchive_price(i) ==
    /\ prices[i].status = "Archived"
    /\ prices[i].type = "Farm" => require_no_active_farm_price_for_product(prices[i].product)
    /\ prices' = [prices EXCEPT ![i].status = "Active"]
    /\ AdminStep
    /\ UNCHANGED <<products, farm_pools, id_nonce>>

get_active_price_and_product(i) ==
    /\ i \in DOMAIN prices
    /\ prices[i].status = "Active"
    /\ prices[i].product \in DOMAIN products
    /\ products[prices[i].product].status = "Active"

\* usage_count of a price and of its product.
Use(i) ==
    /\ prices' = [prices EXCEPT ![i].used = TRUE]
    /\ products' = [products EXCEPT ![prices[i].product].used = TRUE]

-----------------------------------------------------------------------------
(* payments.rs, pause.rs and the clock *)

\* A price or, by its product, the default price of the product (lock.rs).
resolve_price_id_for_lock ==
    DOMAIN prices \cup ({products[p].default_price_id : p \in DOMAIN products} \ {0})

pay(u, i, quantity) ==
    /\ UserCall
    /\ ~paused
    /\ ensure_min_storage_for_new_purchase(u)
    /\ get_active_price_and_product(i)
    /\ prices[i].type = "OneOff"
    /\ purchases' = [purchases EXCEPT ![u] = @ + 1]
    /\ Use(i)
    /\ revenue' = revenue + prices[i].amount * quantity
    /\ Transfer(prices[i].amount * quantity)
    /\ UNCHANGED <<farm_pools, id_nonce, accounts, farms, paused, now, net_stake>>

\* The transfer to the pool's owner is assumed to arrive.
withdraw_revenue_after_get_owner ==
    /\ ~paused
    /\ revenue > 0
    /\ revenue' = 0
    /\ Transfer(-revenue)
    /\ AdminCall
    /\ UNCHANGED <<catalog, storage, paused, now, net_stake>>

SetPaused(value) ==
    /\ paused = ~value
    /\ paused' = value
    /\ AdminCall
    /\ UNCHANGED <<callVars, catalog, storage, now, revenue, net_stake>>

pause   == SetPaused(TRUE)
unpause == SetPaused(FALSE)

Tick ==
    /\ InBudget
    /\ now' = now + 1
    /\ UNCHANGED <<callVars, catalog, storage, paused, revenue, net_stake, calls>>

-----------------------------------------------------------------------------

\* One product with a farm price and a one-off price; every user is
\* registered.
CatalogInit ==
    /\ balance = InitialDeposit * Cardinality(Users)
    /\ CallInit
    /\ paused = FALSE
    /\ now = 0
    /\ accounts = [u \in Users |-> InitialDeposit]
    /\ purchases = [u \in Users |-> 0]
    /\ farms = [u \in Users |-> 0]
    /\ products = [p \in {1} |->
                     [status |-> "Active", price_ids |-> {2, 3},
                      default_price_id |-> 3, used |-> FALSE]]
    /\ prices = [i \in {2, 3} |->
                   [product |-> 1, type |-> IF i = 2 THEN "Farm" ELSE "OneOff",
                    amount |-> min_lock_amount, max_amount |-> 0,
                    rate |-> IF i = 2 THEN Max(Rates) ELSE 0,
                    status |-> "Active", used |-> FALSE]]
    /\ farm_pools = [i \in {2} |-> NewPool(Max(Rates))]
    /\ id_nonce = 4
    /\ revenue = 0
    /\ net_stake = 0
    /\ calls = [user |-> 0, admin |-> 0]

AccountCalls ==
    \E u \in Users :
        \/ \E d \in Deposits : \E registration_only \in BOOLEAN :
              storage_deposit(u, d, registration_only)
        \/ \E a \in Deposits : storage_withdraw(u, a)
        \/ storage_unregister(u)
        \/ \E i \in resolve_price_id_for_lock : pay(u, i, 1)

CatalogAdmin ==
    \/ create_product
    \/ \E p \in DOMAIN products :
          \/ archive_product(p)
          \/ delete_product(p)
          \/ unarchive_product(p)
          \/ \E i \in {0} \cup DOMAIN prices : set_product_default_price(p, i)
          \/ create_price(p, "OneOff", 0)
          \/ \E rate \in Rates : create_price(p, "Farm", rate)
    \/ \E i \in DOMAIN prices :
          \/ \E max \in MaxAmounts : \E rate \in {0} \cup Rates : edit_price(i, max, rate)
          \/ archive_price(i)
          \/ delete_price(i)
          \/ unarchive_price(i)
    \/ withdraw_revenue_after_get_owner
    \/ pause
    \/ unpause

\* The catalog is coherent whatever admins do between the receipts of users:
\* a default price is an active price of its active product (types.rs:287),
\* products and prices name each other, a product has at most one active farm
\* price, and exactly the farm prices have a pool.
CatalogCoherent ==
    /\ \A p \in DOMAIN products :
          LET d    == products[p].default_price_id
              live == {i \in products[p].price_ids :
                         prices[i].type = "Farm" /\ prices[i].status = "Active"}
          IN  /\ products[p].price_ids = {i \in DOMAIN prices : prices[i].product = p}
              /\ d # 0 => d \in products[p].price_ids /\ get_active_price_and_product(d)
              /\ \A i, j \in live : i = j
    /\ \A i \in DOMAIN prices : prices[i].product \in DOMAIN products
    /\ DOMAIN farm_pools = {i \in DOMAIN prices : prices[i].type = "Farm"}

\* Storage is paid for: an account with purchases or farm positions stays
\* registered, with the minimum and the price of each record deposited, whatever
\* it buys, withdraws or unregisters while a stake of its own is in flight.
RecordsPaidFor ==
    \A u \in Users :
        has_retained_record_storage(u) =>
          Prepaid(u, required_storage_deposit_yocto(u, 0, 0))
==============================================================================
