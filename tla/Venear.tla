------------------------------- MODULE Venear -------------------------------
(***************************************************************************)
(* The veNEAR contract: registered accounts, the balance the lockups       *)
(* report, its growth, partial delegations, and the global total.          *)
(*                                                                         *)
(* Amounts are counted in small units: MILLI units are one milliNEAR, the  *)
(* grain on which veNEAR grows; TICKS of the clock are one second, the     *)
(* grain of the timestamps.  A subtraction that would panic in the code    *)
(* leaves the naturals here, where the sums below no longer agree.         *)
(***************************************************************************)
EXTENDS Integers, FiniteSets, FiniteSetsExt, Functions

CONSTANTS
    Accounts,           \* accounts that may register
    Registered,         \* those registered at the start
    LocalDeposits,      \* values config.local_deposit may take
    MILLI,              \* units in a milliNEAR
    TICKS,              \* ticks in a second
    Rate,               \* units a milliNEAR grows by in a second
    MAX_BPS,            \* basis points in a whole
    DelegationChoices,  \* the delegation lists set_delegations is called with
    MaxDelegations,     \* values config.max_delegations may take
    MaxVersion,         \* bound on the lockup code versions
    MaxCalls            \* bound on the calls users and the owner make

VARIABLES
    config,       \* the Config fields the handlers read
    paused,
    accounts,     \* AccountInternal, by registered account
    tree,         \* Account, by registered account (the Merkle tree's values)
    global_state, \* GlobalState
    now,          \* block height and clock
    calls         \* calls made so far, for the bound

state      == <<accounts, tree, global_state>>
venearVars == <<accounts, tree, global_state, config, paused, calls>>

-----------------------------------------------------------------------------
(* common: balances and their growth. *)

VenearBalance == [near_balance: Nat, extra_venear_balance: Nat]

Balance(n, e) == [near_balance |-> n, extra_venear_balance |-> e]

Zero == Balance(0, 0)

Add(a, b) == Balance(a.near_balance + b.near_balance,
                     a.extra_venear_balance + b.extra_venear_balance)

Minus(a, b) == Balance(a.near_balance - b.near_balance,
                       a.extra_venear_balance - b.extra_venear_balance)

Total(b) == b.near_balance + b.extra_venear_balance

truncate_near_to_millis(n) == (n \div MILLI) * MILLI

truncate_to_seconds(t) == (t \div TICKS) * TICKS

\* Fault: the whole balance grows, not only its whole milliNEAR.
calculate_Untruncated(from, to, n) ==
    (((to - from) \div TICKS) * Rate * n) \div MILLI

\* Exact: the timestamps are whole seconds, the balance whole milliNEAR.
calculate(from, to, n) ==
    ((to - from) \div TICKS) * Rate * (truncate_near_to_millis(n) \div MILLI)

Grow(b, from, to) ==
    [b EXCEPT !.extra_venear_balance = @ + calculate(from, to, b.near_balance)]

\* Fault: the extra balance is split by the basis points alone.
delegation_contribution_ByBps(b, bps) ==
    Balance(truncate_near_to_millis((bps * b.near_balance) \div MAX_BPS),
            (bps * b.extra_venear_balance) \div MAX_BPS)

\* The share credited to a delegate: the extra balance is split by the ratio
\* the truncation realised, so that growth keeps it exact.
delegation_contribution(b, bps) ==
    LET base == truncate_near_to_millis(b.near_balance)
        near == truncate_near_to_millis((bps * b.near_balance) \div MAX_BPS)
    IN  IF base = 0 THEN Zero
        ELSE Balance(near, (b.extra_venear_balance * near) \div base)

\* What a balance is in the global pool: the remainder counts as extra.
Pooled(b) ==
    LET near == truncate_near_to_millis(b.near_balance)
    IN  Balance(near, b.extra_venear_balance + (b.near_balance - near))

pooled_add(p, b) == Add(p, Pooled(b))

pooled_sub(p, b) == Minus(p, Pooled(b))

-----------------------------------------------------------------------------
(* Accounts and the global state, brought up to date. *)

Updated(a) ==
    LET t == truncate_to_seconds(now)
    IN  [a EXCEPT !.balance = Grow(@, a.update_timestamp, t),
                  !.delegated_balance = Grow(@, a.update_timestamp, t),
                  !.update_timestamp = t]

GlobalUpdated ==
    LET t == truncate_to_seconds(now)
    IN  [update_timestamp |-> t,
         total_venear_balance |->
            Grow(global_state.total_venear_balance, global_state.update_timestamp, t)]

\* The sum of a function's balances.
SumBalances(f) ==
    Balance(SumFunction([x \in DOMAIN f |-> f[x].near_balance]),
            SumFunction([x \in DOMAIN f |-> f[x].extra_venear_balance]))

\* What the account a credits to each of its delegates.
Contributions(a) ==
    [d \in DOMAIN a.delegations |-> delegation_contribution(a.balance, a.delegations[d])]

\* What the account may vote with: its own balance less what it delegates,
\* and what is delegated to it.
owned_total(a) ==
    Total(Minus(Add(a.delegated_balance, a.balance), SumBalances(Contributions(a))))

ft_balance_of(a) == owned_total(Updated(tree[a]))

ft_total_supply == Total(GlobalUpdated.total_venear_balance)

-----------------------------------------------------------------------------
(* Calls of users. *)

UserCall ==
    /\ ~paused
    /\ calls < MaxCalls
    /\ calls' = calls + 1
    /\ UNCHANGED <<config, paused, now>>

Put(f, k, v) == [x \in DOMAIN f \cup {k} |-> IF x = k THEN v ELSE f[x]]

NewInternal(deposit) ==
    [lockup_version |-> 0, deposit |-> deposit, lockup_update_nonce |-> 0]

NewAccount(deposit) ==
    [update_timestamp |-> truncate_to_seconds(now),
     balance |-> Balance(deposit, 0),
     delegated_balance |-> Zero,
     delegations |-> [x \in {} |-> 0]]

internal_register_account(a, deposit) ==
    /\ accounts' = Put(accounts, a, NewInternal(deposit))
    /\ tree' = Put(tree, a, NewAccount(deposit))
    /\ global_state' = [GlobalUpdated EXCEPT
                          !.total_venear_balance = pooled_add(@, Balance(deposit, 0))]

\* Of a registered account the call is a refund and changes nothing.
storage_deposit(a) ==
    /\ UserCall
    /\ a \notin DOMAIN accounts
    /\ internal_register_account(a, config.local_deposit)

validate_delegations(a, entries) ==
    /\ Cardinality(DOMAIN entries) <= config.max_delegations
    /\ \A d \in DOMAIN entries : entries[d] # 0
    /\ a \notin DOMAIN entries
    /\ SumFunction(entries) <= MAX_BPS

\* The delegates in the domain of a list, brought up to date and credited
\* (sign = 1) or debited (sign = -1) with their share of the balance.
Credit(t, b, entries, sign) ==
    [x \in DOMAIN t |->
       IF x \notin DOMAIN entries THEN t[x]
       ELSE LET share == delegation_contribution(b, entries[x])
            IN  [Updated(t[x]) EXCEPT !.delegated_balance =
                   IF sign = 1 THEN Add(@, share) ELSE Minus(@, share)]]

set_delegations(a, entries) ==
    /\ UserCall
    /\ a \in DOMAIN accounts
    /\ validate_delegations(a, entries)
    /\ DOMAIN entries \subseteq DOMAIN accounts
    /\ LET owner == Updated(tree[a])
           debited == Credit(tree, owner.balance, owner.delegations, -1)
       IN  tree' = [Credit(debited, owner.balance, entries, 1) EXCEPT
                      ![a] = [owner EXCEPT !.delegations = entries]]
    /\ UNCHANGED <<accounts, global_state>>

\* The guards of deploy_lockup; the promise it makes is the composition's.
deploy_lockup(a, deposit, min_deposit) ==
    /\ ~paused
    /\ a \in DOMAIN accounts
    /\ deposit >= min_deposit
    /\ config.lockup_version > 0
    /\ UNCHANGED venearVars

-----------------------------------------------------------------------------
(* Calls of the lockups, and callbacks.  None of them looks at the pause. *)

\* Fault: an older report may replace a newer one.
AcceptsUpdate_AnyNonce(a, u) ==
    a \in DOMAIN accounts /\ accounts[a].lockup_version = u.version

\* The two requires of on_lockup_update and internal_lockup_update.
AcceptsUpdate(a, u) ==
    /\ a \in DOMAIN accounts
    /\ accounts[a].lockup_version = u.version
    /\ u.nonce > accounts[a].lockup_update_nonce

\* A smaller lock forfeits the extra balance.
internal_lockup_update(a, u) ==
    LET old == Updated(tree[a])
        balance == Balance(u.locked + accounts[a].deposit,
                           IF u.locked < old.balance.near_balance - accounts[a].deposit
                           THEN 0 ELSE old.balance.extra_venear_balance)
        debited == Credit(tree, old.balance, old.delegations, -1)
    IN  /\ accounts' = [accounts EXCEPT ![a].lockup_update_nonce = u.nonce]
        /\ tree' = [Credit(debited, balance, old.delegations, 1) EXCEPT
                      ![a] = [old EXCEPT !.balance = balance]]
        /\ global_state' = [GlobalUpdated EXCEPT !.total_venear_balance =
                              pooled_add(pooled_sub(@, old.balance), balance)]

on_lockup_update(a, u) ==
    /\ AcceptsUpdate(a, u)
    /\ internal_lockup_update(a, u)
    /\ UNCHANGED <<config, paused, calls>>

\* A panicking call: the report is gone and nothing else happens.
UpdateRefused(a, u) ==
    /\ ~AcceptsUpdate(a, u)
    /\ UNCHANGED venearVars

\* The callback panics when a report of the new lockup has overtaken it.
on_lockup_deployed(a, v, nonce) ==
    /\ accounts' = IF accounts[a].lockup_update_nonce <= nonce
                   THEN [accounts EXCEPT ![a].lockup_version = v,
                                         ![a].lockup_update_nonce = nonce]
                   ELSE accounts
    /\ UNCHANGED <<tree, global_state, config, paused, calls>>

-----------------------------------------------------------------------------
(* Calls of the owner and of a guardian. *)

OwnerCalls ==
    /\ calls < MaxCalls
    /\ calls' = calls + 1
    /\ UNCHANGED <<state, now>>

internal_set_lockup(c) == [c EXCEPT !.lockup_version = @ + 1]

\* Called with the min_lockup_deposit in force.
set_lockup_contract ==
    /\ OwnerCalls
    /\ config.lockup_version < MaxVersion
    /\ config' = internal_set_lockup(config)
    /\ UNCHANGED paused

set_local_deposit ==
    /\ OwnerCalls
    /\ \E d \in LocalDeposits \ {config.local_deposit} :
          config' = [config EXCEPT !.local_deposit = d]
    /\ UNCHANGED paused

set_max_delegations ==
    /\ OwnerCalls
    /\ \E m \in MaxDelegations \ {config.max_delegations} :
          config' = [config EXCEPT !.max_delegations = m]
    /\ UNCHANGED paused

pause ==
    /\ OwnerCalls
    /\ paused' = TRUE
    /\ UNCHANGED config

unpause ==
    /\ OwnerCalls
    /\ paused' = FALSE
    /\ UNCHANGED config

VenearInit ==
    /\ config = [lockup_version |-> 1, local_deposit |-> Max(LocalDeposits),
                 max_delegations |-> Max(MaxDelegations)]
    /\ paused = FALSE
    /\ accounts = [a \in Registered |-> NewInternal(config.local_deposit)]
    /\ tree = [a \in Registered |-> NewAccount(config.local_deposit)]
    /\ global_state =
         [update_timestamp |-> truncate_to_seconds(now),
          total_venear_balance |->
             SumBalances([a \in Registered |-> Pooled(Balance(config.local_deposit, 0))])]
    /\ calls = 0

VenearCalls ==
    \/ \E a \in Accounts : storage_deposit(a)
    \/ \E a \in Accounts, entries \in DelegationChoices : set_delegations(a, entries)
    \/ set_lockup_contract \/ set_local_deposit \/ set_max_delegations
    \/ pause \/ unpause

-----------------------------------------------------------------------------
(* Properties. *)

\* The total supply is at every instant the sum of what the accounts may vote
\* with: reports, growth, rounding to milliNEAR and delegations neither create
\* nor destroy voting power between them.
SupplyIsBalances ==
    ft_total_supply
    = SumFunction([a \in DOMAIN accounts |-> ft_balance_of(a)])

\* What was delegated to an account is at every instant exactly the sum of the
\* shares of its delegators' present balances, in both components: the stored
\* pool, grown on its own, never drifts from the shares recomputed.
DelegatedIsContributions ==
    \A a \in DOMAIN accounts :
        Updated(tree[a]).delegated_balance
        = SumBalances([d \in {d \in DOMAIN accounts : a \in DOMAIN tree[d].delegations} |->
                         delegation_contribution(Updated(tree[d]).balance,
                                                 tree[d].delegations[a])])
=============================================================================
