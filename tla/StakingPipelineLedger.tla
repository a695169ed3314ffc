----------------------- MODULE StakingPipelineLedger -----------------------
(***************************************************************************)
(* The books of StakingPipeline for every value of its constants: the      *)
(* cached pool balance, the share price, and the ledgers of shares and     *)
(* tranches.                                                               *)
(***************************************************************************)
EXTENDS StakingPipelineProofs

-----------------------------------------------------------------------------
(* The price of a share. *)

\* net_stake before it saturates.
Net(v) == (v.total_staked_balance + v.pending_to_stake)
            - (v.pending_to_unstake + v.pending_to_withdraw)

\* Without a deficit, net_stake is the plain difference.
LEMMA NetStake ==
    ASSUME NEW v \in Validator
    PROVE  /\ Net(v) \in Int
           /\ gross_stake(v) >= pending_not_in_contract(v) <=> Net(v) >= 0
           /\ Net(v) >= 0 => net_stake(v) = Net(v)
  BY DEF Net, net_stake, gross_stake, pending_not_in_contract, Sat, Validator

\* mint_shares rounds down, so a lock never dilutes the shares there are.
LEMMA MintKeepsPrice ==
    ASSUME NEW d \in Nat, NEW t \in Nat, NEW n \in Nat \ {0}
    PROVE  (n + d) * t >= n * (t + (d * t) \div n)
<1> DEFINE m == (d * t) \div n
<1>1. d * t \in Nat /\ n * t \in Nat
  OBVIOUS
<1>2. m \in Nat /\ m * n <= d * t
  BY <1>1, DivNat
<1> HIDE DEF m
<1>3. (n + d) * t = n * t + d * t /\ n * (t + m) = n * t + m * n /\ m * n \in Nat
  BY <1>2
<1>4. (n + d) * t >= n * (t + m)
  BY <1>1, <1>2, <1>3
<1> QED
  BY <1>4 DEF m

\* near_from_shares rounds down, so an unlock leaves the rest no poorer.
LEMMA BurnKeepsPrice ==
    ASSUME NEW s \in Nat, NEW t \in Nat \ {0}, NEW n \in Nat, s <= t
    PROVE  (n - (s * n) \div t) * t >= n * (t - s)
<1> DEFINE r == (s * n) \div t
<1>1. s * n \in Nat /\ n * t \in Nat
  OBVIOUS
<1>2. r \in Nat /\ r * t <= s * n
  BY <1>1, DivNat
<1> HIDE DEF r
<1>3. (n - r) * t = n * t - r * t /\ n * (t - s) = n * t - s * n /\ r * t \in Nat
  BY <1>2
<1>4. (n - r) * t >= n * (t - s)
  BY <1>1, <1>2, <1>3
<1> QED
  BY <1>4 DEF r

-----------------------------------------------------------------------------
(* The inductive invariant of the pool's books. *)

\* What get_account returned is not more than the pool still holds.
CacheInv ==
    /\ CacheNeverOverstates
    /\ step = "after_pool_account" /\ ok => view.total <= pool.staked + pool.unstaked

\* With a pool that unstakes exactly what it is asked, the NEAR unbonding there
\* is the NEAR the row waits for, and a refresh never lowers the cache.
DeficitInv ==
    /\ NoHiddenDeficit
    /\ pool.unstaked + UnbookedFromPool
         = validator.pending_to_withdraw
             + (IF step = "on_unstake" /\ ok THEN amount ELSE 0)
    /\ step = "after_pool_account" /\ ok =>
         view.total >= validator.total_staked_balance

BookInv == CacheInv /\ (PoolDust = 0 => DeficitInv)

\* The step neither mints nor burns, and does not lower the backing.
Steady ==
    /\ validator'.total_shares = validator.total_shares
    /\ PoolDust = 0 => net_stake(validator') >= net_stake(validator)

\* A pool operation has happened and its callback has not booked it.
Unbooked ==
    step \in {"withdraw_transfer_done", "on_deposit_and_stake", "on_unstake"} /\ ok

\* The books of add_validator's row.
LEMMA InitBooks == Init => BookInv
  BY DEF Init, BookInv, CacheInv, DeficitInv, CacheNeverOverstates,
         NoHiddenDeficit, UnbookedFromPool, gross_stake, pending_not_in_contract

\* The buckets net_stake is computed from stay as they are.
SameStake ==
    /\ validator'.total_staked_balance = validator.total_staked_balance
    /\ validator'.pending_to_stake = validator.pending_to_stake
    /\ validator'.pending_to_unstake = validator.pending_to_unstake
    /\ validator'.pending_to_withdraw = validator.pending_to_withdraw

\* A step that leaves the balances and the pool alone, with nothing unbooked.
LEMMA QuietStake ==
    ASSUME TypeOK, TypeOK', BookInv, SameStake, UNCHANGED pool,
           validator'.total_shares = validator.total_shares,
           ~Unbooked, ~Unbooked', ~(step' = "after_pool_account" /\ ok')
    PROVE  BookInv' /\ Steady
<1>1. Net(validator') = Net(validator)
  BY DEF SameStake, Net
<1>2. validator \in Validator /\ validator' \in Validator
  BY DEF TypeOK
<1>3. CacheInv'
  BY Numbers DEF BookInv, CacheInv, CacheNeverOverstates, UnbookedFromPool,
                 Unbooked, SameStake
<1>4. ASSUME PoolDust = 0 PROVE DeficitInv' /\ net_stake(validator') >= net_stake(validator)
  <2>1. NoHiddenDeficit' /\ net_stake(validator') >= net_stake(validator)
    <3>1. Net(validator) >= 0
      BY <1>2, <1>4, NetStake DEF BookInv, DeficitInv, NoHiddenDeficit
    <3>2. Net(validator') >= 0 /\ net_stake(validator') = net_stake(validator)
      BY <1>1, <1>2, <3>1, NetStake
    <3>3. net_stake(validator) \in Nat
      BY <1>2, PriceTypes, 0 \in Nat
    <3> QED
      BY <1>2, <3>2, <3>3, NetStake DEF NoHiddenDeficit
  <2>2. /\ UnbookedFromPool = 0 /\ UnbookedFromPool' = 0
        /\ ~(step = "on_unstake" /\ ok) /\ ~(step' = "on_unstake" /\ ok')
    BY DEF Unbooked, UnbookedFromPool
  <2> QED
    BY <1>4, <2>1, <2>2 DEF BookInv, DeficitInv, SameStake
<1> QED
  BY <1>3, <1>4 DEF BookInv, Steady

\* The same for a step that keeps all of the row's books.
LEMMA QuietBooks ==
    ASSUME TypeOK, TypeOK', BookInv, SameBooks, UNCHANGED pool,
           validator'.total_shares = validator.total_shares,
           ~Unbooked, ~Unbooked', ~(step' = "after_pool_account" /\ ok')
    PROVE  BookInv' /\ Steady
<1>1. SameStake
  BY DEF SameBooks, SameStake
<1> QED
  BY <1>1, QuietStake

\* [3] keeps the books.  v is the row with the refreshed pool balance n.
LEMMA TryBooks ==
    ASSUME TypeOK, TypeOK', BookInv, NEW n \in Nat,
           n <= pool.staked + pool.unstaked,
           PoolDust = 0 => n >= validator.total_staked_balance,
           NEW v, v = [validator EXCEPT !.total_staked_balance = n],
           step \in {"after_pool_account", "maybe_settle"},
           try_epoch_stake_or_unstake(v), UNCHANGED pool
    PROVE  BookInv' /\ Steady
<1>1. validator \in Validator /\ validator' \in Validator
  BY DEF TypeOK
<1>2. /\ v \in Validator
      /\ v.total_shares = validator.total_shares
      /\ v.total_staked_balance = n
      /\ v.pending_to_stake = validator.pending_to_stake
      /\ v.pending_to_unstake = validator.pending_to_unstake
      /\ v.pending_to_withdraw = validator.pending_to_withdraw
  BY Zenon, <1>1 DEF Validator
<1>3. step' \in {"release", "tail", "pool_deposit_and_stake", "pool_unstake"}
  BY DEF try_epoch_stake_or_unstake, DispatchContinue, GoTo, CallPool, Schedule
<1>4. \/ validator' = v \/ validator' = mark_epoch_settlement_handled(v)
      \/ /\ v.pending_to_stake = v.pending_to_unstake
         /\ validator' = apply_net_zero_pending_matched_clear(v)
  BY Zenon DEF try_epoch_stake_or_unstake
<1>5. /\ validator'.total_shares = validator.total_shares
      /\ validator'.total_staked_balance = n
      /\ validator'.pending_to_withdraw = validator.pending_to_withdraw
      /\ \/ /\ validator'.pending_to_stake = validator.pending_to_stake
            /\ validator'.pending_to_unstake = validator.pending_to_unstake
         \/ /\ validator'.pending_to_stake = 0 /\ validator'.pending_to_unstake = 0
            /\ validator.pending_to_stake = validator.pending_to_unstake
  <2>1. CASE validator' = v
    BY <1>2, <2>1, Zenon
  <2>2. CASE validator' = mark_epoch_settlement_handled(v)
    BY <1>2, <2>2, NetZeroFields, Zenon DEF SameIdentity
  <2>3. CASE /\ v.pending_to_stake = v.pending_to_unstake
             /\ validator' = apply_net_zero_pending_matched_clear(v)
    BY <1>2, <2>3, NetZeroFields, Zenon DEF SameIdentity
  <2> QED
    BY <1>4, <2>1, <2>2, <2>3, Zenon
<1>6. CacheInv'
  BY <1>3, <1>5, Numbers DEF CacheInv, CacheNeverOverstates, UnbookedFromPool
<1>7. ASSUME PoolDust = 0 PROVE DeficitInv' /\ net_stake(validator') >= net_stake(validator)
  <2>1. Net(validator) >= 0
    BY <1>1, <1>7, NetStake DEF BookInv, DeficitInv, NoHiddenDeficit
  <2>2. Net(validator') >= Net(validator)
    BY <1>5, <1>7, Numbers DEF Net
  <2>3. NoHiddenDeficit' /\ net_stake(validator') >= net_stake(validator)
    BY <1>1, <2>1, <2>2, NetStake DEF NoHiddenDeficit
  <2>4. pool.unstaked = validator.pending_to_withdraw
    BY <1>7, Numbers DEF BookInv, DeficitInv, UnbookedFromPool
  <2> QED
    BY <1>3, <1>5, <2>3, <2>4, Numbers DEF DeficitInv, UnbookedFromPool
<1> QED
  BY <1>5, <1>6, <1>7 DEF BookInv, Steady

\* [1] keeps the books: the refreshed balance is one the pool still holds.
LEMMA AfterPoolAccountBooks ==
    TypeOK /\ TypeOK' /\ BookInv /\ AfterPoolAccount => BookInv' /\ Steady
<1> SUFFICES ASSUME TypeOK, TypeOK', BookInv, AfterPoolAccount
             PROVE  BookInv' /\ Steady
  OBVIOUS
<1> DEFINE v == [validator EXCEPT !.total_staked_balance = view.total]
<1>1. step = "after_pool_account" /\ UNCHANGED pool
  BY DEF AfterPoolAccount
<1>2. validator \in Validator /\ validator' \in Validator
  BY DEF TypeOK
<1>3. CASE ~ok /\ refund_payable_pipeline
  <2>1. /\ SameBooks /\ validator'.total_shares = validator.total_shares
        /\ step' = "idle"
    BY <1>2, <1>3 DEF refund_payable_pipeline, GoTo, Schedule, SameBooks, Validator
  <2> QED
    BY <1>1, <2>1, QuietBooks DEF Unbooked
<1>4. CASE GoTo("release", cont) /\ UNCHANGED validator
  <2>1. SameBooks /\ validator'.total_shares = validator.total_shares /\ step' = "release"
    BY <1>4 DEF GoTo, Schedule, SameBooks
  <2> QED
    BY <1>1, <2>1, QuietBooks DEF Unbooked
<1>5. ASSUME ok
      PROVE  /\ view.total \in Nat /\ view.total <= pool.staked + pool.unstaked
             /\ PoolDust = 0 => view.total >= validator.total_staked_balance
  BY <1>1, <1>5, Numbers DEF BookInv, CacheInv, DeficitInv
<1>6. CASE ok /\ validator' = v /\ CallPool("pool_withdraw", view.unstaked)
  <2>1. /\ validator'.total_shares = validator.total_shares
        /\ validator'.total_staked_balance = view.total
        /\ validator'.pending_to_stake = validator.pending_to_stake
        /\ validator'.pending_to_unstake = validator.pending_to_unstake
        /\ validator'.pending_to_withdraw = validator.pending_to_withdraw
    BY Zenon, <1>2, <1>6 DEF Validator
  <2>2. step' = "pool_withdraw"
    BY <1>6 DEF CallPool, Schedule
  <2>3. CacheInv'
    BY <1>1, <1>5, <1>6, <2>1, <2>2, Numbers
       DEF CacheInv, CacheNeverOverstates, UnbookedFromPool
  <2>4. ASSUME PoolDust = 0 PROVE DeficitInv' /\ net_stake(validator') >= net_stake(validator)
    <3>1. Net(validator) >= 0
      BY <1>2, <2>4, NetStake DEF BookInv, DeficitInv, NoHiddenDeficit
    <3>2. Net(validator') >= Net(validator)
      BY <1>5, <1>6, <2>1, <2>4, Numbers DEF Net
    <3>3. NoHiddenDeficit' /\ net_stake(validator') >= net_stake(validator)
      BY <1>2, <3>1, <3>2, NetStake DEF NoHiddenDeficit
    <3>4. pool.unstaked = validator.pending_to_withdraw
      BY <1>1, <2>4, Numbers DEF BookInv, DeficitInv, UnbookedFromPool
    <3> QED
      BY <1>1, <2>1, <2>2, <3>3, <3>4, Numbers DEF DeficitInv, UnbookedFromPool
  <2> QED
    BY <2>1, <2>3, <2>4 DEF BookInv, Steady
<1>7. CASE ok /\ try_epoch_stake_or_unstake(v)
  <2> HIDE DEF v
  <2> QED
    BY <1>1, <1>5, <1>7, TryBooks DEF v
<1> QED
  BY <1>3, <1>4, <1>6, <1>7, Zenon DEF AfterPoolAccount

\* [2b] keeps the books: what the pool paid out leaves cache and bucket at once.
LEMMA WithdrawTransferDoneBooks ==
    TypeOK /\ TypeOK' /\ IInv /\ BookInv /\ WithdrawTransferDone => BookInv' /\ Steady
<1> SUFFICES ASSUME TypeOK, TypeOK', IInv, BookInv, WithdrawTransferDone
             PROVE  BookInv' /\ Steady
  OBVIOUS
<1>1. step = "withdraw_transfer_done" /\ step' = "maybe_settle" /\ UNCHANGED pool
  BY DEF WithdrawTransferDone
<1>2. validator \in Validator /\ validator' \in Validator
  BY DEF TypeOK
<1>3. CASE ok
  <2>1. validator' = credit_withdrawn(validator, amount)
    BY <1>1, <1>3 DEF WithdrawTransferDone, IInv, CallInv
  <2>2. /\ validator'.total_shares = validator.total_shares
        /\ validator'.total_staked_balance = validator.total_staked_balance - amount
        /\ validator'.pending_to_stake = validator.pending_to_stake
        /\ validator'.pending_to_unstake = validator.pending_to_unstake
        /\ validator'.pending_to_withdraw = Sat(validator.pending_to_withdraw, amount)
    BY <1>2, <2>1, CreditFields DEF SameIdentity
  <2>3. CacheInv'
    BY <1>1, <1>3, <2>2, Numbers
       DEF BookInv, CacheInv, CacheNeverOverstates, UnbookedFromPool
  <2>4. ASSUME PoolDust = 0 PROVE DeficitInv' /\ net_stake(validator') >= net_stake(validator)
    <3>1. pool.unstaked + amount = validator.pending_to_withdraw
      BY <1>1, <1>3, <2>4, Numbers DEF BookInv, DeficitInv, UnbookedFromPool
    <3>2. validator'.pending_to_withdraw = pool.unstaked
      BY <2>2, <3>1, Numbers DEF Sat
    <3>3. Net(validator) >= 0
      BY <1>2, <2>4, NetStake DEF BookInv, DeficitInv, NoHiddenDeficit
    <3>4. Net(validator') = Net(validator)
      BY <2>2, <3>1, <3>2, Numbers DEF Net
    <3>5. NoHiddenDeficit' /\ net_stake(validator') >= net_stake(validator)
      BY <1>2, <3>3, <3>4, NetStake DEF NoHiddenDeficit
    <3> QED
      BY <1>1, <3>2, <3>5, Numbers DEF DeficitInv, UnbookedFromPool
  <2> QED
    BY <2>2, <2>3, <2>4 DEF BookInv, Steady
<1>4. CASE ~ok
  <2>1. SameBooks /\ validator'.total_shares = validator.total_shares
    BY <1>4 DEF WithdrawTransferDone, SameBooks
  <2> QED
    BY <1>1, <1>4, <2>1, QuietBooks DEF Unbooked
<1> QED
  BY <1>3, <1>4

\* [2c] keeps the books.
LEMMA AfterPoolWithdrawMaybeSettleBooks ==
    TypeOK /\ TypeOK' /\ BookInv /\ AfterPoolWithdrawMaybeSettle => BookInv' /\ Steady
<1> SUFFICES ASSUME TypeOK, TypeOK', BookInv, AfterPoolWithdrawMaybeSettle
             PROVE  BookInv' /\ Steady
  OBVIOUS
<1>1. step = "maybe_settle" /\ UNCHANGED pool
  BY DEF AfterPoolWithdrawMaybeSettle
<1>2. CASE try_epoch_stake_or_unstake(validator)
  <2> DEFINE n == validator.total_staked_balance
  <2>1. validator = [validator EXCEPT !.total_staked_balance = n]
    BY DEF TypeOK, Validator
  <2>2. n \in Nat /\ n <= pool.staked + pool.unstaked /\ n >= n
    BY <1>1, Numbers DEF BookInv, CacheInv, CacheNeverOverstates, UnbookedFromPool
  <2> QED
    BY <1>1, <1>2, <2>1, <2>2, TryBooks
<1>3. CASE DispatchContinue(cont) /\ UNCHANGED validator
  <2>1. /\ SameBooks /\ validator'.total_shares = validator.total_shares
        /\ step' \in {"release", "tail"}
    BY <1>3 DEF DispatchContinue, GoTo, Schedule, SameBooks
  <2> QED
    BY <1>1, <2>1, QuietBooks DEF Unbooked
<1> QED
  BY <1>2, <1>3 DEF AfterPoolWithdrawMaybeSettle

\* [3b] keeps the books: the cache follows the deposit the pool accepted.
LEMMA OnDepositAndStakeBooks ==
    TypeOK /\ TypeOK' /\ IInv /\ BookInv /\ OnDepositAndStake => BookInv' /\ Steady
<1> SUFFICES ASSUME TypeOK, TypeOK', IInv, BookInv, OnDepositAndStake
             PROVE  BookInv' /\ Steady
  OBVIOUS
<1>1. step = "on_deposit_and_stake" /\ step' = "dispatch" /\ UNCHANGED pool
  BY DEF OnDepositAndStake, GoTo, Schedule
<1>2. validator \in Validator /\ validator' \in Validator
  BY DEF TypeOK
<1>c. amount > 0 /\ validator.pending_to_stake = validator.pending_to_unstake + amount
  BY <1>1 DEF IInv, CallInv
<1>3. CASE ok
  <2>1. validator' = settle_stake(validator)
    BY <1>c, <1>3, Numbers DEF OnDepositAndStake
  <2>2. /\ validator'.total_shares = validator.total_shares
        /\ validator'.total_staked_balance = validator.total_staked_balance
                         + (validator.pending_to_stake - validator.pending_to_unstake)
        /\ validator'.pending_to_stake = 0
        /\ validator'.pending_to_unstake = 0
        /\ validator'.pending_to_withdraw = validator.pending_to_withdraw
    BY <1>2, <2>1, SettleStakeFields DEF SameIdentity
  <2>3. CacheInv'
    BY <1>1, <1>3, <1>c, <2>2, Numbers
       DEF BookInv, CacheInv, CacheNeverOverstates, UnbookedFromPool
  <2>4. ASSUME PoolDust = 0 PROVE DeficitInv' /\ net_stake(validator') >= net_stake(validator)
    <3>1. pool.unstaked = validator.pending_to_withdraw
      BY <1>1, <2>4, Numbers DEF BookInv, DeficitInv, UnbookedFromPool
    <3>2. Net(validator) >= 0
      BY <1>2, <2>4, NetStake DEF BookInv, DeficitInv, NoHiddenDeficit
    <3>3. Net(validator') = Net(validator)
      BY <2>2, Numbers DEF Net
    <3>4. NoHiddenDeficit' /\ net_stake(validator') >= net_stake(validator)
      BY <1>2, <3>2, <3>3, NetStake DEF NoHiddenDeficit
    <3> QED
      BY <1>1, <2>2, <3>1, <3>4, Numbers DEF DeficitInv, UnbookedFromPool
  <2> QED
    BY <2>2, <2>3, <2>4 DEF BookInv, Steady
<1>4. CASE ~ok
  <2>1. SameBooks /\ validator'.total_shares = validator.total_shares
    BY <1>4 DEF OnDepositAndStake, SameBooks
  <2> QED
    BY <1>1, <1>4, <2>1, QuietBooks DEF Unbooked
<1> QED
  BY <1>3, <1>4

\* [3c] keeps the books: the row waits for what the pool is unbonding.
LEMMA OnUnstakeBooks ==
    TypeOK /\ TypeOK' /\ IInv /\ BookInv /\ OnUnstake => BookInv' /\ Steady
<1> SUFFICES ASSUME TypeOK, TypeOK', IInv, BookInv, OnUnstake
             PROVE  BookInv' /\ Steady
  OBVIOUS
<1>1. step = "on_unstake" /\ step' = "dispatch" /\ UNCHANGED pool
  BY DEF OnUnstake, GoTo, Schedule
<1>2. validator \in Validator /\ validator' \in Validator
  BY DEF TypeOK
<1>c. amount > 0 /\ validator.pending_to_unstake = validator.pending_to_stake + amount
  BY <1>1 DEF IInv, CallInv
<1>3. CASE ok
  <2>1. validator' = settle_unstake(validator)
    BY <1>c, <1>3, Numbers DEF OnUnstake
  <2>2. /\ validator'.total_shares = validator.total_shares
        /\ validator'.total_staked_balance = validator.total_staked_balance
        /\ validator'.pending_to_stake = 0
        /\ validator'.pending_to_unstake = 0
        /\ validator'.pending_to_withdraw = validator.pending_to_withdraw
                         + (validator.pending_to_unstake - validator.pending_to_stake)
    BY <1>2, <2>1, SettleUnstakeFields DEF SameIdentity
  <2>3. CacheInv'
    BY <1>1, <2>2, Numbers
       DEF BookInv, CacheInv, CacheNeverOverstates, UnbookedFromPool
  <2>4. ASSUME PoolDust = 0 PROVE DeficitInv' /\ net_stake(validator') >= net_stake(validator)
    <3>1. pool.unstaked = validator.pending_to_withdraw + amount
      BY <1>1, <1>3, <2>4, Numbers DEF BookInv, DeficitInv, UnbookedFromPool
    <3>2. Net(validator) >= 0
      BY <1>2, <2>4, NetStake DEF BookInv, DeficitInv, NoHiddenDeficit
    <3>3. Net(validator') = Net(validator)
      BY <2>2, Numbers DEF Net
    <3>4. NoHiddenDeficit' /\ net_stake(validator') >= net_stake(validator)
      BY <1>2, <3>2, <3>3, NetStake DEF NoHiddenDeficit
    <3> QED
      BY <1>1, <1>c, <2>2, <3>1, <3>4, Numbers DEF DeficitInv, UnbookedFromPool
  <2> QED
    BY <2>2, <2>3, <2>4 DEF BookInv, Steady
<1>4. CASE ~ok
  <2>1. SameBooks /\ validator'.total_shares = validator.total_shares
    BY <1>4 DEF OnUnstake, SameBooks
  <2> QED
    BY <1>1, <1>4, <2>1, QuietBooks DEF Unbooked
<1> QED
  BY <1>3, <1>4

\* Steps outside the chain: calls of administrators, and rewards at the pool.
LEMMA FrameBooks ==
    ASSUME TypeOK, TypeOK', BookInv, SameBooks, UNCHANGED chain,
           validator'.total_shares = validator.total_shares,
           pool'.unstaked = pool.unstaked, pool'.staked >= pool.staked
    PROVE  BookInv' /\ Steady
<1> USE DEF chain
<1>1. validator \in Validator /\ validator' \in Validator /\ pool' \in PoolAccount
  BY DEF TypeOK
<1>2. pool'.staked \in Nat /\ pool'.unstaked \in Nat
  BY <1>1 DEF PoolAccount
<1>3. CacheInv'
  BY <1>2, Numbers DEF BookInv, CacheInv, CacheNeverOverstates, UnbookedFromPool,
                       SameBooks
<1>4. ASSUME PoolDust = 0 PROVE DeficitInv' /\ net_stake(validator') >= net_stake(validator)
  <2>1. Net(validator) >= 0
    BY <1>1, <1>4, NetStake DEF BookInv, DeficitInv, NoHiddenDeficit
  <2>2. Net(validator') = Net(validator)
    BY DEF Net, SameBooks
  <2>3. NoHiddenDeficit' /\ net_stake(validator') >= net_stake(validator)
    BY <1>1, <2>1, <2>2, NetStake DEF NoHiddenDeficit
  <2> QED
    BY <1>4, <2>3 DEF BookInv, DeficitInv, UnbookedFromPool, SameBooks
<1> QED
  BY <1>3, <1>4 DEF BookInv, Steady

\* What happens at the pool keeps the books.
LEMMA PoolBooks ==
    ASSUME TypeOK, TypeOK', BookInv,
           \/ PoolGetAccount \/ PoolWithdraw \/ PoolDepositAndStake \/ PoolUnstake
    PROVE  BookInv' /\ Steady
<1> USE DEF row
<1>1. validator \in Validator /\ pool \in PoolAccount
  BY DEF TypeOK
<1>2. validator' = validator
  BY Zenon DEF PoolGetAccount, PoolWithdraw, PoolDepositAndStake, PoolUnstake
<1>3. Steady
  <2>1. net_stake(validator) \in Nat
    BY <1>1, PriceTypes, 0 \in Nat
  <2> QED
    BY <1>2, <2>1 DEF Steady
<1>4. (PoolDust = 0 => NoHiddenDeficit) => (PoolDust = 0 => NoHiddenDeficit')
  BY <1>2 DEF NoHiddenDeficit
<1>5. CASE PoolGetAccount
  <2>1. /\ step = "pool_get_account" /\ step' = "after_pool_account"
        /\ UNCHANGED pool
        /\ ok' => view'.total = pool.staked + pool.unstaked
    BY <1>5 DEF PoolGetAccount, Schedule
  <2> QED
    BY <1>2, <1>3, <1>4, <2>1, Numbers
       DEF BookInv, CacheInv, DeficitInv, CacheNeverOverstates, UnbookedFromPool
<1>6. CASE PoolWithdraw
  <2>1. /\ step = "pool_withdraw" /\ step' = "withdraw_transfer_done"
        /\ amount' = amount
        /\ \/ /\ ok' /\ pool'.staked = pool.staked
              /\ pool'.unstaked = pool.unstaked - amount
           \/ ~ok' /\ pool' = pool
    BY <1>1, <1>6 DEF PoolWithdraw, PoolReplies, Schedule, PoolAccount
  <2> QED
    BY <1>2, <1>3, <1>4, <2>1, Numbers
       DEF BookInv, CacheInv, DeficitInv, CacheNeverOverstates, UnbookedFromPool
<1>7. CASE PoolDepositAndStake
  <2>1. /\ step = "pool_deposit_and_stake" /\ step' = "on_deposit_and_stake"
        /\ amount' = amount
        /\ \/ /\ ok' /\ pool'.staked = pool.staked + amount
              /\ pool'.unstaked = pool.unstaked
           \/ ~ok' /\ pool' = pool
    BY <1>1, <1>7 DEF PoolDepositAndStake, PoolReplies, Schedule, PoolAccount
  <2> QED
    BY <1>2, <1>3, <1>4, <2>1, Numbers
       DEF BookInv, CacheInv, DeficitInv, CacheNeverOverstates, UnbookedFromPool
<1>8. CASE PoolUnstake
  <2>1. step = "pool_unstake" /\ step' = "on_unstake" /\ amount' = amount
    BY <1>8 DEF PoolUnstake, PoolReplies, Schedule
  <2>2. CASE ~ok' /\ pool' = pool
    BY <1>2, <1>3, <1>4, <2>1, <2>2, Numbers
       DEF BookInv, CacheInv, DeficitInv, CacheNeverOverstates, UnbookedFromPool
  <2>3. ASSUME NEW dust \in 0..PoolDust, ok',
               pool' = [staked |-> pool.staked - (amount + dust),
                        unstaked |-> pool.unstaked + amount + dust,
                        available |-> epoch + PoolEpochs]
        PROVE  BookInv'
    <3>1. /\ dust \in Nat /\ (PoolDust = 0 => dust = 0)
          /\ pool'.staked = pool.staked - (amount + dust)
          /\ pool'.unstaked = pool.unstaked + amount + dust
      BY <2>3, EpochsAssumption
    <3> QED
      BY <1>2, <1>4, <2>1, <2>3, <3>1, Numbers
         DEF BookInv, CacheInv, DeficitInv, CacheNeverOverstates, UnbookedFromPool
  <2> QED
    BY <1>3, <1>8, <2>2, <2>3 DEF PoolUnstake, PoolReplies, Schedule
<1> QED
  BY <1>5, <1>6, <1>7, <1>8

\* Calls of users start a chain and leave the books alone.
LEMMA UserCallsBooks ==
    TypeOK /\ TypeOK' /\ IInv /\ BookInv /\ UserCalls => BookInv' /\ Steady
<1> SUFFICES ASSUME TypeOK, TypeOK', IInv, BookInv, UserCalls
             PROVE  BookInv' /\ Steady
  OBVIOUS
<1>1. UNCHANGED pool /\ \E c : BeginPipeline(c)
  BY Zenon DEF UserCalls, lock, unlock, withdraw, epoch_settle
<1>2. PICK c : BeginPipeline(c)
  BY <1>1
<1>3. /\ SameBooks /\ validator'.total_shares = validator.total_shares
      /\ validator.tx_status = "Idle"
      /\ step' \in {"release", "tail", "pool_get_account"}
  BY <1>2 DEF BeginPipeline, DispatchContinue, GoTo, Schedule, TypeOK, Validator, SameBooks
<1>4. step = "idle"
  BY <1>3 DEF IInv, BusyIffInFlight
<1> QED
  BY <1>1, <1>3, <1>4, QuietBooks DEF Unbooked

\* Administrators, the epoch, the dispatch and the release leave them alone too.
LEMMA OtherBooks ==
    ASSUME TypeOK, TypeOK', BookInv,
           \/ AdminCalls \/ EpochAdvances \/ Dispatch \/ PipelineRelease
           \/ UNCHANGED vars
    PROVE  BookInv' /\ Steady
<1> USE DEF row
<1>1. validator \in Validator /\ pool \in PoolAccount
  BY DEF TypeOK
<1>2. CASE AdminCalls
  <2>1. /\ SameBooks /\ validator'.total_shares = validator.total_shares
        /\ UNCHANGED <<chain, pool>>
    BY Zenon, <1>1, <1>2 DEF AdminCalls, pause, unpause, archive_price, unarchive_price,
           pause_validator, remove_validator, SameBooks, Validator
  <2>2. pool'.staked >= pool.staked
    BY <2>1, Numbers
  <2> QED
    BY <2>1, <2>2, FrameBooks
<1>3. CASE EpochAdvances
  <2>1. /\ SameBooks /\ validator'.total_shares = validator.total_shares
        /\ UNCHANGED chain
    BY <1>3 DEF EpochAdvances, SameBooks
  <2>2. pool'.unstaked = pool.unstaked /\ pool'.staked >= pool.staked
    BY <1>1, <1>3, AmountsAssumption DEF EpochAdvances, PoolAccount
  <2> QED
    BY <2>1, <2>2, FrameBooks
<1>4. CASE UNCHANGED vars
  <2>1. /\ SameBooks /\ validator'.total_shares = validator.total_shares
        /\ UNCHANGED <<chain, pool>>
    BY <1>4 DEF vars, SameBooks
  <2>2. pool'.staked >= pool.staked
    BY <2>1, Numbers
  <2> QED
    BY <2>1, <2>2, FrameBooks
<1>5. CASE Dispatch
  <2>1. /\ SameBooks /\ validator'.total_shares = validator.total_shares
        /\ step = "dispatch" /\ step' \in {"release", "tail"} /\ UNCHANGED pool
    BY <1>5 DEF Dispatch, DispatchContinue, GoTo, Schedule, SameBooks
  <2> QED
    BY <2>1, QuietBooks DEF Unbooked
<1>6. CASE PipelineRelease
  <2>1. validator' = [validator EXCEPT !.tx_status = "Idle"] /\ step = "release"
        /\ step' = "idle" /\ UNCHANGED pool
    BY <1>6 DEF PipelineRelease, refund_payable_pipeline, GoTo, Schedule
  <2>2. SameBooks /\ validator'.total_shares = validator.total_shares
    BY <1>1, <2>1 DEF SameBooks, Validator
  <2> QED
    BY <2>1, <2>2, QuietBooks DEF Unbooked
<1> QED
  BY <1>2, <1>3, <1>4, <1>5, <1>6

-----------------------------------------------------------------------------
(* The tails: minting, burning and paying out. *)

\* What the UserAction of each tail carries.
LEMMA ActionFields ==
    ASSUME TypeOK
    PROVE  /\ cont.kind = "CommitLock" =>
                cont.buyer \in Users /\ cont.locked \in Nat /\ cont.duration \in Nat
           /\ cont.kind = "UnlockQueueUnstake" =>
                cont.account \in Users /\ cont.lock \in Nat /\ cont.shares \in Nat
           /\ cont.kind = "WithdrawUserTransfer" => cont.account \in Users
<1>1. cont \in UserAction
  BY DEF TypeOK
<1> QED
  BY <1>1 DEF UserAction, SettleOnly, NoAction

\* The NEAR behind a share does not drop in this step.
PriceKept ==
    validator.total_shares > 0 /\ validator'.total_shares > 0 =>
      net_stake(validator') * validator.total_shares
        >= net_stake(validator) * validator'.total_shares

\* A step that neither mints nor burns keeps the price if the backing stays.
LEMMA SteadyPrice == TypeOK /\ TypeOK' /\ Steady /\ PoolDust = 0 => PriceKept
<1> SUFFICES ASSUME TypeOK, TypeOK', Steady, PoolDust = 0 PROVE PriceKept
  OBVIOUS
<1> DEFINE t == validator.total_shares
           n == net_stake(validator)
           m == net_stake(validator')
<1>1. t \in Nat /\ n \in Nat /\ m \in Nat /\ m >= n /\ validator'.total_shares = t
  BY PriceTypes, 0 \in Nat, Zenon DEF TypeOK, Validator, Steady
<1>2. m * t >= n * t
  <2> HIDE DEF t, n, m
  <2> QED
    BY <1>1
<1> QED
  BY <1>1, <1>2 DEF PriceKept

\* A tail that panics leaves the books alone.
LEMMA PanicBooks ==
    ASSUME TypeOK, TypeOK', BookInv, step = "tail", TailPanics, UNCHANGED pool
    PROVE  BookInv' /\ Steady
<1>1. /\ SameBooks /\ validator'.total_shares = validator.total_shares
      /\ step' = "release"
  BY DEF TailPanics, TailResult, Schedule, SameBooks, row
<1> QED
  BY <1>1, QuietBooks DEF Unbooked

\* [5a] commits the deposit: books and price are kept.
LEMMA ResolveLockBooks ==
    TypeOK /\ TypeOK' /\ BookInv /\ ResolveLock
      => BookInv' /\ (PoolDust = 0 => PriceKept)
<1> SUFFICES ASSUME TypeOK, TypeOK', BookInv, ResolveLock
             PROVE  BookInv' /\ (PoolDust = 0 => PriceKept)
  OBVIOUS
<1>1. step = "tail" /\ cont.kind = "CommitLock" /\ UNCHANGED pool
  BY DEF ResolveLock
<1>2. validator \in Validator /\ validator' \in Validator
  BY DEF TypeOK
<1>3. CASE TailPanics
  BY <1>1, <1>3, PanicBooks, SteadyPrice
<1>4. CASE /\ CanStake /\ internal_stake(cont.buyer, cont.locked) /\ TailResult(TRUE)
  <2> DEFINE d == cont.locked
             m == mint_shares(validator, d)
             t == validator.total_shares
             n == net_stake(validator)
  <2>1. d \in Nat
    BY <1>1, ActionFields
  <2>2. m \in Nat /\ t \in Nat /\ n \in Nat
    BY <1>2, <2>1, PriceTypes DEF Validator
  <2>3. /\ validator'.total_shares = t + m
        /\ validator'.total_staked_balance = validator.total_staked_balance
        /\ validator'.pending_to_stake = validator.pending_to_stake + d
        /\ validator'.pending_to_unstake = validator.pending_to_unstake
        /\ validator'.pending_to_withdraw = validator.pending_to_withdraw
    <3> HIDE DEF m
    <3>1. validator' = [validator EXCEPT !.total_shares = @ + m,
                                         !.pending_to_stake = @ + d]
      BY <1>4 DEF internal_stake, m
    <3> QED
      BY <1>2, <3>1 DEF Validator
  <2>4. step' = "release"
    BY <1>4 DEF TailResult, Schedule
  <2>5. CacheInv'
    BY <1>1, <2>3, <2>4, Numbers
       DEF BookInv, CacheInv, CacheNeverOverstates, UnbookedFromPool
  <2>6. ASSUME PoolDust = 0 PROVE DeficitInv' /\ PriceKept
    <3>1. Net(validator) >= 0
      BY <1>2, <2>6, NetStake DEF BookInv, DeficitInv, NoHiddenDeficit
    <3>2. Net(validator') = Net(validator) + d
      BY <2>1, <2>3, Numbers DEF Net
    <3>3. NoHiddenDeficit' /\ net_stake(validator') = n + d
      BY <1>2, <2>1, <3>1, <3>2, NetStake DEF NoHiddenDeficit
    <3>4. pool.unstaked = validator.pending_to_withdraw
      BY <1>1, <2>6, Numbers DEF BookInv, DeficitInv, UnbookedFromPool
    <3>5. DeficitInv'
      BY <1>1, <2>3, <2>4, <3>3, <3>4, Numbers DEF DeficitInv, UnbookedFromPool
    <3>6. ASSUME t > 0 PROVE (n + d) * t >= n * (t + m)
      <4>1. n > 0 /\ m = (d * t) \div n
        BY <1>4, <2>2, <3>6 DEF CanStake, mint_shares
      <4> HIDE DEF m, n, d, t
      <4> QED
        BY <2>1, <2>2, <4>1, MintKeepsPrice
    <3> HIDE DEF m, n, d, t
    <3>7. PriceKept
      BY <2>3, <3>3, <3>6 DEF PriceKept, t, n
    <3> QED
      BY <3>5, <3>7
  <2> QED
    BY <2>5, <2>6 DEF BookInv
<1> QED
  BY <1>3, <1>4, Zenon DEF ResolveLock

\* [5b] queues the unstake: books and price are kept.
LEMMA ResolveUnlockBooks ==
    TypeOK /\ TypeOK' /\ BookInv /\ ResolveUnlock
      => BookInv' /\ (PoolDust = 0 => PriceKept)
<1> SUFFICES ASSUME TypeOK, TypeOK', BookInv, ResolveUnlock
             PROVE  BookInv' /\ (PoolDust = 0 => PriceKept)
  OBVIOUS
<1>1. step = "tail" /\ cont.kind = "UnlockQueueUnstake" /\ UNCHANGED pool
  BY DEF ResolveUnlock
<1>2. validator \in Validator /\ validator' \in Validator
  BY DEF TypeOK
<1>3. CASE TailPanics
  BY <1>1, <1>3, PanicBooks, SteadyPrice
<1>4. CASE /\ CanResolveUnlock /\ internal_unstake(cont.account, cont.shares)
           /\ TailResult(TRUE)
  <2> DEFINE s == cont.shares
             r == near_from_shares(validator, s)
             t == validator.total_shares
             n == net_stake(validator)
  <2>1. s \in Nat
    BY <1>1, ActionFields
  <2>2. r \in Nat /\ t \in Nat /\ n \in Nat
    BY <1>2, <2>1, PriceTypes DEF Validator
  <2>3. s > 0 /\ t >= s
    BY <1>4 DEF CanResolveUnlock, CanUnstake
  <2>4. r = (s * n) \div t /\ t # 0
    BY <2>1, <2>2, <2>3 DEF near_from_shares
  <2>5. r <= n /\ (n - r) * t >= n * (t - s)
    <3> HIDE DEF r, s, n, t
    <3> QED
      BY <2>1, <2>2, <2>3, <2>4, PartOfStake, BurnKeepsPrice
  <2>6. /\ validator'.total_shares = t - s
        /\ validator'.total_staked_balance = validator.total_staked_balance
        /\ validator'.pending_to_stake = validator.pending_to_stake
        /\ validator'.pending_to_unstake = validator.pending_to_unstake + r
        /\ validator'.pending_to_withdraw = validator.pending_to_withdraw
    <3> HIDE DEF r
    <3>1. validator' = [validator EXCEPT !.total_shares = @ - s,
                                         !.pending_to_unstake = @ + r]
      BY <1>4 DEF internal_unstake, r
    <3> QED
      BY <1>2, <3>1 DEF Validator
  <2>7. step' = "release"
    BY <1>4 DEF TailResult, Schedule
  <2> HIDE DEF r, n
  <2>8. CacheInv'
    BY <1>1, <2>6, <2>7, Numbers
       DEF BookInv, CacheInv, CacheNeverOverstates, UnbookedFromPool
  <2>9. ASSUME PoolDust = 0 PROVE DeficitInv' /\ PriceKept
    <3>1. Net(validator) >= 0 /\ n = Net(validator)
      BY <1>2, <2>9, NetStake DEF BookInv, DeficitInv, NoHiddenDeficit, n
    <3>2. Net(validator') = Net(validator) - r
      BY <2>2, <2>6, Numbers DEF Net
    <3>3. NoHiddenDeficit' /\ net_stake(validator') = n - r
      BY <1>2, <2>2, <2>5, <3>1, <3>2, NetStake DEF NoHiddenDeficit
    <3>4. pool.unstaked = validator.pending_to_withdraw
      BY <1>1, <2>9, Numbers DEF BookInv, DeficitInv, UnbookedFromPool
    <3>5. DeficitInv'
      BY <1>1, <2>6, <2>7, <3>3, <3>4, Numbers DEF DeficitInv, UnbookedFromPool
    <3>6. PriceKept
      BY <2>5, <2>6, <3>3 DEF PriceKept, n
    <3> QED
      BY <3>5, <3>6
  <2> QED
    BY <2>8, <2>9 DEF BookInv
<1> QED
  BY <1>3, <1>4, Zenon DEF ResolveUnlock

\* [5c] pays from the claim bucket, which is not part of the backing.
LEMMA WithdrawTailBooks ==
    TypeOK /\ TypeOK' /\ BookInv /\ WithdrawUserTransferTail => BookInv' /\ Steady
<1> SUFFICES ASSUME TypeOK, TypeOK', BookInv, WithdrawUserTransferTail
             PROVE  BookInv' /\ Steady
  OBVIOUS
<1>1. step = "tail" /\ UNCHANGED pool
  BY DEF WithdrawUserTransferTail
<1>2. CASE TailPanics
  BY <1>1, <1>2, PanicBooks
<1>3. ASSUME NEW credit, TailResult(TRUE),
             validator' = [validator EXCEPT !.pending_to_claim = @ - credit]
      PROVE  BookInv' /\ Steady
  <2>1. /\ SameStake /\ validator'.total_shares = validator.total_shares
        /\ step' = "release"
    BY <1>3 DEF TypeOK, Validator, TailResult, Schedule, SameStake
  <2> QED
    BY <1>1, <2>1, QuietStake DEF Unbooked
<1> QED
  BY <1>2, <1>3, Zenon DEF WithdrawUserTransferTail

\* Every step keeps the books and, with an exact pool, the price.
LEMMA BookStep ==
    TypeOK /\ TypeOK' /\ IInv /\ BookInv /\ [Next]_vars
      => BookInv' /\ (PoolDust = 0 => PriceKept) /\ (Steady \/ ResolveLock \/ ResolveUnlock)
<1> SUFFICES ASSUME TypeOK, TypeOK', IInv, BookInv, [Next]_vars
             PROVE  /\ BookInv' /\ (PoolDust = 0 => PriceKept)
                    /\ Steady \/ ResolveLock \/ ResolveUnlock
  OBVIOUS
<1>1. CASE ResolveLock
  BY <1>1, ResolveLockBooks
<1>2. CASE ResolveUnlock
  BY <1>2, ResolveUnlockBooks
<1>3. CASE BookInv' /\ Steady
  BY <1>3, SteadyPrice
<1> QED
  BY <1>1, <1>2, <1>3, UserCallsBooks, PoolBooks, OtherBooks,
     AfterPoolAccountBooks, WithdrawTransferDoneBooks,
     AfterPoolWithdrawMaybeSettleBooks, OnDepositAndStakeBooks, OnUnstakeBooks,
     WithdrawTailBooks
     DEF Next, Receipt, NoCall

\* The books hold in every reachable state.
LEMMA BooksInvariance == Spec => []BookInv
<1>1. Init => BookInv
  BY InitBooks
<1>2. TypeOK /\ TypeOK' /\ IInv /\ BookInv /\ [Next]_vars => BookInv'
  BY BookStep
<1> QED
  BY <1>1, <1>2, Invariance, PTL DEF Spec

\* The cached pool balance never counts NEAR the pool does not hold.
THEOREM CacheSafe == Spec => []CacheNeverOverstates
<1>1. BookInv => CacheNeverOverstates
  BY DEF BookInv, CacheInv
<1> QED
  BY <1>1, BooksInvariance, PTL

\* With a pool that unstakes exactly what it is asked, the saturating
\* subtraction in Validator::net_stake never hides a deficit.
THEOREM DeficitNeverHidden ==
    ASSUME PoolDust = 0
    PROVE  Spec => []NoHiddenDeficit
<1>1. BookInv => NoHiddenDeficit
  BY DEF BookInv, DeficitInv
<1> QED
  BY <1>1, BooksInvariance, PTL

\* With such a pool no step lowers the NEAR behind a share: mint and burn round
\* in the row's favour, settlement keeps the backing, refreshes only raise it.
THEOREM PriceMonotone ==
    ASSUME PoolDust = 0
    PROVE  Spec => PriceNeverDrops
<1>1. TypeOK /\ TypeOK' /\ IInv /\ BookInv /\ [Next]_vars => PriceKept
  BY BookStep
<1>2. PriceKept =>
        (validator.total_shares > 0 /\ validator'.total_shares > 0 =>
           net_stake(validator') * validator.total_shares
             >= net_stake(validator) * validator'.total_shares)
  BY DEF PriceKept
<1> QED
  BY <1>1, <1>2, Invariance, BooksInvariance, PTL DEF Spec, PriceNeverDrops

-----------------------------------------------------------------------------
(* The ledgers of shares and tranches. *)

\* The invariant of the ledgers; an unlock in flight names a lock there is.
LedgerInv ==
    /\ OwedIsTranches
    /\ ShareLedger
    /\ cont.kind = "UnlockQueueUnstake" => cont.lock \in DOMAIN locks

\* The ledgers of add_validator's row.
LEMMA InitLedger == Init => LedgerInv
<1> SUFFICES ASSUME Init PROVE LedgerInv
  OBVIOUS
<1>f. IsFiniteSet(Users)
  BY UsersAssumption
<1>1. OwedIsTranches
  <2> DEFINE w == [u \in Users |-> SumTranches(user_pending_unstake[u])]
  <2>1. \A u \in Users : user_pending_unstake[u] = <<>>
    BY DEF Init
  <2>2. \A u \in Users : w[u] = 0
    BY <2>1, NoTranches
  <2>3. w \in [Users -> Int]
    BY <2>2
  <2>4. SumFunction(w) = 0
    <3> HIDE DEF w
    <3> QED
      BY <1>f, <2>2, <2>3, SumZero
  <2> QED
    BY <2>4 DEF Init, OwedIsTranches
<1>2. validator.total_shares = SumFunction(user_validator_shares)
  <2>1. /\ user_validator_shares \in [Users -> Int]
        /\ \A u \in Users : user_validator_shares[u] = 0
    BY DEF Init
  <2> QED
    BY <1>f, <2>1, SumZero DEF Init
<1>3. ASSUME NEW u \in Users PROVE user_validator_shares[u] = ActiveShares(u)
  <2> DEFINE w == [l \in DOMAIN locks |->
                     IF locks[l].owner = u /\ locks[l].status = "Active"
                     THEN locks[l].shares ELSE 0]
  <2>1. DOMAIN locks = {}
    BY DEF Init
  <2>2. IsFiniteSet({}) /\ w \in [{} -> Int] /\ \A l \in {} : w[l] = 0
    BY <2>1, FiniteEmpty
  <2>3. SumFunction(w) = 0
    <3> HIDE DEF w
    <3> QED
      BY <2>2, SumZero, Zenon
  <2> QED
    BY <2>3 DEF Init, ActiveShares
<1> QED
  BY <1>1, <1>2, <1>3 DEF Init, LedgerInv, ShareLedger, NoAction

\* A step that touches no ledger.
LEMMA LedgerFrame ==
    ASSUME LedgerInv, validator'.total_shares = validator.total_shares,
           UNCHANGED <<user_validator_shares, user_pending_unstake, locks, owed>>,
           cont'.kind = "UnlockQueueUnstake" => cont'.lock \in DOMAIN locks
    PROVE  LedgerInv'
<1>1. OwedIsTranches'
  BY Zenon DEF LedgerInv, OwedIsTranches, SumTranches
<1>2. ShareLedger'
  BY Zenon DEF LedgerInv, ShareLedger, ActiveShares
<1> QED
  BY <1>1, <1>2 DEF LedgerInv

\* Changing one account's tranches moves owed by the difference.
LEMMA OwedMoves ==
    ASSUME TypeOK, OwedIsTranches, NEW u \in Users, NEW ts \in Seq(Tranche),
           user_pending_unstake' = [user_pending_unstake EXCEPT ![u] = ts],
           owed' = (owed - SumTranches(user_pending_unstake[u])) + SumTranches(ts)
    PROVE  OwedIsTranches'
<1> DEFINE w == [x \in Users |-> SumTranches(user_pending_unstake[x])]
           v == [x \in Users |-> SumTranches(user_pending_unstake'[x])]
<1>1. user_pending_unstake \in [Users -> Seq(Tranche)] /\ IsFiniteSet(Users)
  BY UsersAssumption DEF TypeOK
<1>2. ASSUME NEW q \in Seq(Tranche) PROVE SumTranches(q) \in Int
  <2>1. [amount |-> 0, available |-> 0] \in Tranche
    BY DEF Tranche
  <2> QED
    BY <2>1, TranchesGrow
<1>3. \A x \in Users : /\ user_pending_unstake'[x] \in Seq(Tranche)
                       /\ x # u => user_pending_unstake'[x] = user_pending_unstake[x]
  BY <1>1
<1>4. user_pending_unstake'[u] = ts
  BY <1>1
<1>5. w \in [Users -> Int] /\ v \in [Users -> Int]
  BY <1>1, <1>2, <1>3
<1>6. \A x \in Users \ {u} : w[x] = v[x]
  BY <1>3
<1>7. w[u] = SumTranches(user_pending_unstake[u]) /\ v[u] = SumTranches(ts)
  BY <1>4
<1>8. SumFunction(v) = (SumFunction(w) - w[u]) + v[u]
  <2> HIDE DEF v, w
  <2> QED
    BY <1>1, <1>5, <1>6, SumChange, Zenon
<1>9. owed = SumFunction(w)
  BY DEF OwedIsTranches
<1>10. OwedIsTranches' <=> owed' = SumFunction(v)
  BY Zenon DEF OwedIsTranches, SumTranches
<1> HIDE DEF v, w
<1> QED
  BY <1>7, <1>8, <1>9, <1>10

\* Changing one account's shares moves the sum by the difference.
LEMMA SharesMove ==
    ASSUME TypeOK, NEW u \in Users, NEW n \in Int,
           user_validator_shares' = [user_validator_shares EXCEPT ![u] = n]
    PROVE  SumFunction(user_validator_shares')
             = (SumFunction(user_validator_shares) - user_validator_shares[u]) + n
<1> DEFINE w == user_validator_shares
           v == user_validator_shares'
<1>1. w \in [Users -> Int] /\ IsFiniteSet(Users)
  BY UsersAssumption DEF TypeOK
<1>2. v \in [Users -> Int] /\ v[u] = n /\ \A x \in Users \ {u} : w[x] = v[x]
  BY <1>1
<1> HIDE DEF v, w
<1>3. SumFunction(v) = (SumFunction(w) - w[u]) + v[u]
  BY <1>1, <1>2, SumChange
<1> QED
  BY <1>2, <1>3 DEF v, w

\* The shares of account u in lock l, when it is active.
SharesIn(l, u) == IF l.owner = u /\ l.status = "Active" THEN l.shares ELSE 0

\* ActiveShares as a sum over the places of the list of locks.
LEMMA ActiveSum ==
    ASSUME TypeOK, NEW u
    PROVE  LET w == [l \in 1..Len(locks) |-> SharesIn(locks[l], u)]
           IN  /\ ActiveShares(u) = SumFunction(w)
               /\ w \in [1..Len(locks) -> Int]
               /\ IsFiniteSet(1..Len(locks))
<1>1. locks \in Seq(Lock)
  BY DEF TypeOK
<1>2. DOMAIN locks = 1..Len(locks) /\ Len(locks) \in Nat
  BY <1>1
<1>3. \A l \in 1..Len(locks) : SharesIn(locks[l], u) \in Int
  <2>1. \A l \in 1..Len(locks) : locks[l] \in Lock
    BY <1>1, <1>2
  <2> QED
    BY <2>1 DEF SharesIn, Lock
<1>4. IsFiniteSet(1..Len(locks))
  BY <1>2, FinUpTo
<1> DEFINE w == [l \in 1..Len(locks) |-> SharesIn(locks[l], u)]
<1>5. w \in [1..Len(locks) -> Int]
  BY <1>3
<1>6. ActiveShares(u) = SumFunction(w)
  BY <1>2 DEF ActiveShares, SharesIn
<1> QED
  BY <1>4, <1>5, <1>6

\* A new lock adds its shares to its owner's.
LEMMA LockAdds ==
    ASSUME TypeOK, TypeOK', NEW k, locks' = Append(locks, k), NEW u
    PROVE  ActiveShares(u)' = ActiveShares(u) + SharesIn(k, u)
<1> DEFINE N == Len(locks)
           w == [l \in 1..N |-> SharesIn(locks[l], u)]
           v == [l \in 1..Len(locks') |-> SharesIn(locks'[l], u)]
<1>1. locks \in Seq(Lock) /\ locks' \in Seq(Lock)
  BY DEF TypeOK
<1>2. /\ N \in Nat /\ Len(locks') = N + 1 /\ locks'[N + 1] = k
      /\ \A l \in 1..N : locks'[l] = locks[l]
  BY <1>1
<1>3. ActiveShares(u) = SumFunction(w) /\ w \in [1..N -> Int] /\ IsFiniteSet(1..N)
  BY ActiveSum
<1>4. DOMAIN locks' = 1..Len(locks')
  BY <1>1
<1>5. ActiveShares(u)' = SumFunction(v)
  BY <1>4 DEF ActiveShares, SharesIn
<1>6. \A l \in 1..Len(locks') : SharesIn(locks'[l], u) \in Int
  <2>1. \A l \in 1..Len(locks') : locks'[l] \in Lock
    BY <1>1, <1>4
  <2> QED
    BY <2>1 DEF SharesIn, Lock
<1>7. 1..Len(locks') = 1..N \cup {N + 1} /\ N + 1 \notin 1..N
  BY <1>2
<1>8. v \in [1..N \cup {N + 1} -> Int] /\ v[N + 1] = SharesIn(k, u)
  BY <1>2, <1>6, <1>7
<1>9. \A l \in 1..N : w[l] = v[l]
  BY <1>2, <1>7
<1> HIDE DEF v, w, N
<1>10. OneMore(v, w, N + 1, 1..N)
  BY <1>3, <1>7, <1>8, <1>9 DEF OneMore
<1>11. SumFunction(v) = SumFunction(w) + v[N + 1]
  BY <1>10, SumExtend
<1> QED
  BY <1>3, <1>5, <1>8, <1>11

\* Unlocking takes the lock's shares from its owner's.
LEMMA UnlockTakes ==
    ASSUME TypeOK, TypeOK', NEW i \in 1..Len(locks), locks[i].status = "Active",
           locks' = [locks EXCEPT ![i].status = "UnlockRequested"], NEW u
    PROVE  ActiveShares(u)' = ActiveShares(u) - SharesIn(locks[i], u)
<1> DEFINE N == Len(locks)
           w == [l \in 1..N |-> SharesIn(locks[l], u)]
           v == [l \in 1..N |-> SharesIn(locks'[l], u)]
<1>1. locks \in Seq(Lock) /\ locks' \in Seq(Lock)
  BY DEF TypeOK
<1>2. /\ N \in Nat /\ DOMAIN locks' = 1..N /\ locks'[i].status = "UnlockRequested"
      /\ \A l \in 1..N : l # i => locks'[l] = locks[l]
  BY <1>1 DEF Lock
<1>3. ActiveShares(u) = SumFunction(w) /\ w \in [1..N -> Int] /\ IsFiniteSet(1..N)
  BY ActiveSum, Zenon
<1>4. ActiveShares(u)' = SumFunction(v)
  BY <1>2 DEF ActiveShares, SharesIn
<1>5. \A l \in 1..N : locks'[l] \in Lock
  BY <1>1, <1>2
<1>6. \A l \in 1..N : SharesIn(locks'[l], u) \in Int
  BY <1>5 DEF SharesIn, Lock
<1>7. v \in [1..N -> Int]
  BY <1>6
<1>8. SharesIn(locks'[i], u) = 0
  BY <1>2 DEF SharesIn
<1>9. v[i] = 0 /\ w[i] = SharesIn(locks[i], u)
  BY <1>8
<1>10. \A l \in 1..N \ {i} : w[l] = v[l]
  BY <1>2
<1>11. i \in 1..N /\ w[i] \in Int
  BY <1>3
<1>12. SumFunction(w) \in Int
  BY <1>3, SumInt, Zenon DEF w, SumFunction, SumFunctionOnSet
<1> HIDE DEF v, w, N
<1>13. SumFunction(v) = (SumFunction(w) - w[i]) + v[i]
  BY <1>3, <1>7, <1>10, <1>11, SumChange, Zenon
<1> QED
  BY <1>3, <1>4, <1>9, <1>11, <1>12, <1>13

\* [5a] books the minted shares for the buyer, in a lock and in the row.
LEMMA ResolveLockLedger ==
    TypeOK /\ TypeOK' /\ LedgerInv /\ ResolveLock => LedgerInv'
<1> SUFFICES ASSUME TypeOK, TypeOK', LedgerInv, ResolveLock PROVE LedgerInv'
  OBVIOUS
<1>1. cont.kind = "CommitLock"
  BY DEF ResolveLock
<1>2. CASE TailPanics
  BY <1>1, <1>2, LedgerFrame DEF TailPanics, TailResult, Schedule, row
<1> DEFINE b == cont.buyer
           m == mint_shares(validator, cont.locked)
           k == [owner |-> b, shares |-> m, end |-> epoch + cont.duration,
                 status |-> "Active"]
<1>3. CASE /\ internal_stake(cont.buyer, cont.locked) /\ locks' = Append(locks, k)
           /\ TailResult(TRUE) /\ UNCHANGED <<user_pending_unstake, owed>>
  <2>1. b \in Users /\ cont.locked \in Nat /\ validator \in Validator
        /\ user_validator_shares \in [Users -> Nat]
    BY <1>1, ActionFields DEF TypeOK
  <2>2. m \in Nat /\ user_validator_shares[b] \in Nat /\ validator.total_shares \in Nat
    BY <2>1, PriceTypes DEF Validator
  <2>3. /\ validator' = [validator EXCEPT !.total_shares = @ + m,
                                          !.pending_to_stake = @ + cont.locked]
        /\ user_validator_shares' = [user_validator_shares EXCEPT ![b] = @ + m]
    BY <1>3 DEF internal_stake
  <2>4. \A u : SharesIn(k, u) = IF u = b THEN m ELSE 0
    BY DEF SharesIn
  <2>5. \A u : ActiveShares(u)' = ActiveShares(u) + SharesIn(k, u)
    <3> HIDE DEF k
    <3> QED
      BY <1>3, LockAdds
  <2> HIDE DEF m, k, b
  <2>6. /\ validator'.total_shares = validator.total_shares + m
        /\ \A u \in Users : user_validator_shares'[u]
                              = user_validator_shares[u] + IF u = b THEN m ELSE 0
    BY <2>1, <2>2, <2>3 DEF Validator
  <2>7. SumFunction(user_validator_shares')
          = (SumFunction(user_validator_shares) - user_validator_shares[b])
              + (user_validator_shares[b] + m)
    <3> DEFINE n == user_validator_shares[b] + m
    <3>1. n \in Int
      BY <2>1, <2>2
    <3>2. user_validator_shares' = [user_validator_shares EXCEPT ![b] = n]
      BY <2>3
    <3> HIDE DEF n
    <3>3. SumFunction(user_validator_shares')
            = (SumFunction(user_validator_shares) - user_validator_shares[b]) + n
      BY <2>1, <3>1, <3>2, SharesMove, Zenon
    <3> QED
      BY <3>3 DEF n
  <2>8. /\ validator.total_shares = SumFunction(user_validator_shares)
        /\ \A u \in Users : user_validator_shares[u] = ActiveShares(u)
    BY DEF LedgerInv, ShareLedger
  <2>9. validator'.total_shares = SumFunction(user_validator_shares')
    BY <2>2, <2>6, <2>7, <2>8
  <2>10. \A u \in Users : user_validator_shares'[u] = ActiveShares(u)'
    BY <2>4, <2>5, <2>6, <2>8
  <2>11. ShareLedger'
    BY <2>9, <2>10 DEF ShareLedger
  <2>12. OwedIsTranches'
    BY <1>3, Zenon DEF LedgerInv, OwedIsTranches, SumTranches
  <2>13. cont'.kind # "UnlockQueueUnstake"
    BY <1>1, <1>3 DEF TailResult, Schedule
  <2> QED
    BY <2>11, <2>12, <2>13 DEF LedgerInv
<1> QED
  BY <1>2, <1>3, Zenon DEF ResolveLock

\* [5b] takes the burned shares from the owner, the lock and the row, and books
\* what they are worth as a tranche of the owner.
LEMMA ResolveUnlockLedger ==
    TypeOK /\ TypeOK' /\ LedgerInv /\ ResolveUnlock => LedgerInv'
<1> SUFFICES ASSUME TypeOK, TypeOK', LedgerInv, ResolveUnlock PROVE LedgerInv'
  OBVIOUS
<1>1. cont.kind = "UnlockQueueUnstake"
  BY DEF ResolveUnlock
<1>2. CASE TailPanics
  BY <1>1, <1>2, LedgerFrame DEF TailPanics, TailResult, Schedule, row, LedgerInv
<1> DEFINE b == cont.account
           s == cont.shares
           i == cont.lock
           r == near_from_shares(validator, s)
           t == [amount |-> r,
                 available |-> pending_unstake_tranche_available_epoch_height(validator)]
<1>3. CASE /\ CanResolveUnlock /\ internal_unstake(b, s)
           /\ locks' = [locks EXCEPT ![i].status = "UnlockRequested"]
           /\ TailResult(TRUE)
  <2>1. /\ b \in Users /\ s \in Nat /\ validator \in Validator /\ epoch \in Nat
        /\ user_validator_shares \in [Users -> Nat] /\ locks \in Seq(Lock)
        /\ user_pending_unstake \in [Users -> Seq(Tranche)]
    BY <1>1, ActionFields DEF TypeOK
  <2>2. i \in 1..Len(locks)
    BY <1>1, <2>1 DEF LedgerInv
  <2>3. /\ r \in Nat /\ user_validator_shares[b] \in Nat
        /\ validator.total_shares \in Nat /\ user_pending_unstake[b] \in Seq(Tranche)
    BY <2>1, PriceTypes, Zenon DEF Validator
  <2>4. t \in Tranche
    <3>1. pending_unstake_tranche_available_epoch_height(validator) \in Nat
      BY <2>1, AvailableEpoch
    <3> QED
      BY <2>3, <3>1, Zenon DEF Tranche
  <2>5. /\ validator' = [validator EXCEPT !.total_shares = @ - s,
                                          !.pending_to_unstake = @ + r]
        /\ user_validator_shares' = [user_validator_shares EXCEPT ![b] = @ - s]
        /\ user_pending_unstake' = [user_pending_unstake EXCEPT ![b] = Append(@, t)]
        /\ owed' = owed + r
    BY <1>3 DEF internal_unstake
  <2>6. /\ locks[i].status = "Active" /\ locks[i].shares = s /\ locks[i].owner = b
    BY <1>3 DEF CanResolveUnlock
  <2>7. \A u : SharesIn(locks[i], u) = IF u = b THEN s ELSE 0
    BY <2>6 DEF SharesIn
  <2> HIDE DEF r, i, s, b
  <2>8. \A u : ActiveShares(u)' = ActiveShares(u) - SharesIn(locks[i], u)
    BY <1>3, <2>2, <2>6, UnlockTakes, Zenon
  <2>9. /\ validator'.total_shares = validator.total_shares - s
        /\ \A u \in Users : user_validator_shares'[u]
                              = user_validator_shares[u] - IF u = b THEN s ELSE 0
    <3>1. validator'.total_shares = validator.total_shares - s
      BY <2>1, <2>5 DEF Validator
    <3>2. \A u \in Users : user_validator_shares'[u]
                             = IF u = b THEN user_validator_shares[u] - s
                                        ELSE user_validator_shares[u]
      BY <2>1, <2>5, Zenon
    <3>3. \A u \in Users : user_validator_shares[u] \in Nat
      BY <2>1
    <3> QED
      BY <2>1, <3>1, <3>2, <3>3
  <2>10. SumFunction(user_validator_shares')
           = (SumFunction(user_validator_shares) - user_validator_shares[b])
               + (user_validator_shares[b] - s)
    <3> DEFINE n == user_validator_shares[b] - s
    <3>1. n \in Int
      BY <2>1, <2>3
    <3>2. user_validator_shares' = [user_validator_shares EXCEPT ![b] = n]
      BY <2>5
    <3> HIDE DEF n
    <3>3. SumFunction(user_validator_shares')
            = (SumFunction(user_validator_shares) - user_validator_shares[b]) + n
      BY <2>1, <3>1, <3>2, SharesMove, Zenon
    <3> QED
      BY <3>3 DEF n
  <2>11. /\ validator.total_shares = SumFunction(user_validator_shares)
         /\ \A u \in Users : user_validator_shares[u] = ActiveShares(u)
    BY DEF LedgerInv, ShareLedger
  <2>12. validator'.total_shares = SumFunction(user_validator_shares')
    BY <2>1, <2>3, <2>9, <2>10, <2>11
  <2>13. \A u \in Users : user_validator_shares'[u] = ActiveShares(u)'
    BY <2>7, <2>8, <2>9, <2>11
  <2>14. ShareLedger'
    BY <2>12, <2>13 DEF ShareLedger
  <2>15. OwedIsTranches'
    <3> DEFINE q == user_pending_unstake[b]
    <3>1. t.amount = r
      OBVIOUS
    <3> HIDE DEF t
    <3>2. /\ SumTranches(q) \in Nat /\ SumTranches(Append(q, t)) = SumTranches(q) + r
          /\ Append(q, t) \in Seq(Tranche)
      BY <2>3, <2>4, <3>1, TranchesGrow
    <3>3. /\ user_pending_unstake' = [user_pending_unstake EXCEPT ![b] = Append(q, t)]
          /\ owed \in Int
      BY <2>5 DEF TypeOK
    <3>4. owed' = (owed - SumTranches(q)) + SumTranches(Append(q, t))
      BY <2>3, <2>5, <3>2, <3>3
    <3> QED
      BY <2>1, <3>2, <3>3, <3>4, OwedMoves, Zenon DEF LedgerInv
  <2>16. DOMAIN locks' = DOMAIN locks /\ cont' = cont
    BY <1>3, <2>1 DEF TailResult, Schedule
  <2> QED
    BY <2>14, <2>15, <2>16 DEF LedgerInv
<1> QED
  BY <1>2, <1>3, Zenon DEF ResolveUnlock

\* [5c] pays exactly the tranches it removes.
LEMMA WithdrawTailLedger ==
    TypeOK /\ TypeOK' /\ LedgerInv /\ WithdrawUserTransferTail => LedgerInv'
<1> SUFFICES ASSUME TypeOK, TypeOK', LedgerInv, WithdrawUserTransferTail
             PROVE  LedgerInv'
  OBVIOUS
<1>1. cont.kind = "WithdrawUserTransfer"
  BY DEF WithdrawUserTransferTail
<1>2. CASE TailPanics
  BY <1>1, <1>2, LedgerFrame DEF TailPanics, TailResult, Schedule, row
<1> DEFINE b == cont.account
           c == claimable_credit(b)
           q == user_pending_unstake[b]
           k == kept_tranches(b)
<1>3. CASE /\ validator' = [validator EXCEPT !.pending_to_claim = @ - c]
           /\ user_pending_unstake' = [user_pending_unstake EXCEPT ![b] = k]
           /\ owed' = owed - c
           /\ TailResult(TRUE)
           /\ UNCHANGED <<user_validator_shares, locks>>
  <2>1. /\ b \in Users /\ validator \in Validator /\ owed \in Int
        /\ user_pending_unstake \in [Users -> Seq(Tranche)]
    BY <1>1, ActionFields DEF TypeOK
  <2>2. q \in Seq(Tranche)
    BY <2>1
  <2>3. k \in Seq(Tranche) /\ c \in Nat /\ SumTranches(k) + c = SumTranches(q)
    <3> HIDE DEF b
    <3> QED
      BY <2>2, KeptAndTaken
  <2>4. SumTranches(q) \in Int /\ SumTranches(k) \in Int
    <3>1. [amount |-> 0, available |-> 0] \in Tranche
      BY DEF Tranche
    <3> HIDE DEF k, q
    <3> QED
      BY <2>2, <2>3, <3>1, TranchesGrow
  <2>5. owed' = (owed - SumTranches(q)) + SumTranches(k)
    <3> HIDE DEF c, k, q
    <3> QED
      BY <1>3, <2>1, <2>3, <2>4
  <2>6. OwedIsTranches'
    <3> HIDE DEF k
    <3> QED
      BY <1>3, <2>1, <2>3, <2>5, OwedMoves, Zenon DEF LedgerInv
  <2>7. validator'.total_shares = validator.total_shares
    <3> HIDE DEF c
    <3> QED
      BY <1>3, <2>1 DEF Validator
  <2>8. ShareLedger'
    BY <1>3, <2>7, Zenon DEF LedgerInv, ShareLedger, ActiveShares
  <2>9. cont'.kind # "UnlockQueueUnstake"
    BY <1>1, <1>3 DEF TailResult, Schedule
  <2> QED
    BY <2>6, <2>8, <2>9 DEF LedgerInv
<1> QED
  BY <1>2, <1>3, Zenon DEF WithdrawUserTransferTail

\* Every other step leaves the ledgers and the locks as they are; a chain that
\* starts with an unlock names a lock of the list.
LEMMA OtherLedger ==
    ASSUME TypeOK, [Next]_vars,
           ~ResolveLock, ~ResolveUnlock, ~WithdrawUserTransferTail
    PROVE  /\ UNCHANGED <<user_validator_shares, user_pending_unstake, locks, owed>>
           /\ cont'.kind = "UnlockQueueUnstake" =>
                \/ cont' = cont
                \/ cont'.lock \in 1..Len(locks)
<1> USE DEF row, chain
<1>1. CASE UserCalls
  <2>1. UNCHANGED <<user_validator_shares, user_pending_unstake, locks, owed>>
    BY <1>1, Zenon DEF UserCalls, lock, unlock, withdraw, epoch_settle
  <2>2. \A c : BeginPipeline(c) => cont' = c
    BY DEF BeginPipeline, DispatchContinue, GoTo, Schedule
  <2>3. CASE \E u \in Users, a \in LockAmounts, d \in Durations : lock(u, a, d)
    BY <2>1, <2>2, <2>3 DEF lock, CommitLock
  <2>4. CASE \E u \in Users, l \in 1..Len(locks) : unlock(u, l)
    <3>1. PICK u \in Users, l \in 1..Len(locks) : unlock(u, l)
      BY <2>4
    <3>2. cont' = UnlockQueueUnstake(u, l, locks[l].shares)
      BY <2>2, <3>1, Zenon DEF unlock
    <3> QED
      BY <2>1, <3>2 DEF UnlockQueueUnstake
  <2>5. CASE \E u \in Users : withdraw(u)
    BY <2>1, <2>2, <2>5 DEF withdraw, WithdrawUserTransfer
  <2>6. CASE epoch_settle
    BY <2>1, <2>2, <2>6 DEF epoch_settle, SettleOnly
  <2> QED
    BY <1>1, <2>3, <2>4, <2>5, <2>6 DEF UserCalls
<1>2. CASE AdminCalls \/ EpochAdvances \/ NoCall \/ UNCHANGED vars
  BY <1>2, Zenon
     DEF AdminCalls, pause, unpause, archive_price, unarchive_price, pause_validator,
         remove_validator, EpochAdvances, NoCall, vars
<1>3. CASE PoolGetAccount \/ PoolWithdraw \/ PoolDepositAndStake \/ PoolUnstake
  BY <1>3, Zenon
     DEF PoolGetAccount, PoolWithdraw, PoolDepositAndStake, PoolUnstake, PoolReplies,
         Schedule
<1>4. \A c, v : DispatchContinue(c) => cont' = c
  BY DEF DispatchContinue, GoTo, Schedule
<1>5. \A v : try_epoch_stake_or_unstake(v) => cont' = cont
  BY <1>4, Zenon DEF try_epoch_stake_or_unstake, CallPool, Schedule
<1>6. CASE AfterPoolAccount
  <2>1. cont' = cont \/ cont' = NoAction
    BY <1>5, <1>6, Zenon
       DEF AfterPoolAccount, refund_payable_pipeline, GoTo, Schedule, CallPool
  <2> QED
    BY <1>6, <2>1 DEF AfterPoolAccount, NoAction
<1>7. CASE AfterPoolWithdrawMaybeSettle
  BY <1>4, <1>5, <1>7, Zenon DEF AfterPoolWithdrawMaybeSettle
<1>8. CASE WithdrawTransferDone \/ OnDepositAndStake \/ OnUnstake \/ Dispatch
  BY <1>4, <1>8, Zenon
     DEF WithdrawTransferDone, OnDepositAndStake, OnUnstake, Dispatch, GoTo, Schedule
<1>9. CASE PipelineRelease
  <2>1. cont' = NoAction
    BY <1>9 DEF PipelineRelease, refund_payable_pipeline, GoTo, Schedule
  <2> QED
    BY <1>9, <2>1 DEF PipelineRelease, NoAction
<1> QED
  BY <1>1, <1>2, <1>3, <1>6, <1>7, <1>8, <1>9 DEF Next, Receipt

\* Every step keeps the ledgers.
LEMMA LedgerStep ==
    TypeOK /\ TypeOK' /\ IInv /\ BookInv /\ LedgerInv /\ [Next]_vars => LedgerInv'
<1> SUFFICES ASSUME TypeOK, TypeOK', IInv, BookInv, LedgerInv, [Next]_vars
             PROVE  LedgerInv'
  OBVIOUS
<1>1. CASE ResolveLock \/ ResolveUnlock \/ WithdrawUserTransferTail
  BY <1>1, ResolveLockLedger, ResolveUnlockLedger, WithdrawTailLedger
<1>2. CASE ~ResolveLock /\ ~ResolveUnlock /\ ~WithdrawUserTransferTail
  <2>1. validator'.total_shares = validator.total_shares
    BY <1>2, BookStep DEF Steady
  <2>2. DOMAIN locks = 1..Len(locks)
    BY DEF TypeOK
  <2>3. cont'.kind = "UnlockQueueUnstake" => cont'.lock \in DOMAIN locks
    BY <1>2, <2>2, OtherLedger DEF LedgerInv
  <2> QED
    BY <1>2, <2>1, <2>3, OtherLedger, LedgerFrame
<1> QED
  BY <1>1, <1>2

\* The ledgers hold in every reachable state.
LEMMA LedgerInvariance == Spec => []LedgerInv
<1>1. TypeOK /\ TypeOK' /\ IInv /\ BookInv /\ LedgerInv /\ [Next]_vars => LedgerInv'
  BY LedgerStep
<1> QED
  BY <1>1, InitLedger, BooksInvariance, Invariance, PTL DEF Spec

\* The row's total_shares is the sum of the accounts' shares, and each account's
\* shares are those of its active locks: internal_stake and internal_unstake keep
\* the three ledgers of shares together through every failure and interleaving.
THEOREM SharesAreLocks == Spec => []ShareLedger
<1>1. LedgerInv => ShareLedger
  BY DEF LedgerInv
<1> QED
  BY <1>1, LedgerInvariance, PTL

\* What the row owes its users is the sum of their tranches: internal_unstake
\* queues what it burns, and a withdrawal pays exactly the tranches it removes.
THEOREM OwedIsSum == Spec => []OwedIsTranches
<1>1. LedgerInv => OwedIsTranches
  BY DEF LedgerInv
<1> QED
  BY <1>1, LedgerInvariance, PTL

=============================================================================
