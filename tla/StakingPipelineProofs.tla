------------------------ MODULE StakingPipelineProofs -------------------------
(***************************************************************************)
(* StakingPipeline for every value of its constants: its types; the        *)
(* inductive invariant behind exclusion, one pool operation per epoch,     *)
(* covered claims and conservation of NEAR; and that it implements         *)
(* SettledCall: each receipt of the chain is the step of the abstract call *)
(* that its place in the chain allows, or leaves the call as it is.        *)
(***************************************************************************)
EXTENDS StakingPipelineCall, SumTheorems

-----------------------------------------------------------------------------
(* Arithmetic of the share price. *)

\* The integer division of utils.rs stays in the naturals.
LEMMA DivNat ==
    ASSUME NEW a \in Nat, NEW b \in Nat \ {0}
    PROVE  a \div b \in Nat /\ (a \div b) * b <= a
  OBVIOUS

\* Part of the shares is never worth more than all of the stake.
LEMMA PartOfStake ==
    ASSUME NEW s \in Nat, NEW t \in Nat \ {0}, NEW n \in Nat, s <= t
    PROVE  (s * n) \div t <= n
<1>1. s * n \in Nat /\ t * n \in Nat /\ s * n <= t * n
  OBVIOUS
<1>2. ((s * n) \div t) * t <= s * n
  BY DivNat, <1>1
<1> QED
  BY <1>1, <1>2

\* net_stake, mint_shares and near_from_shares of utils.rs are naturals.
LEMMA PriceTypes ==
    ASSUME NEW v \in Validator, NEW n \in Nat
    PROVE  /\ net_stake(v) \in Nat
           /\ mint_shares(v, n) \in Nat
           /\ near_from_shares(v, n) \in Nat
<1>1. net_stake(v) \in Nat
  BY DEF net_stake, gross_stake, pending_not_in_contract, Sat, Validator
<1>2. mint_shares(v, n) \in Nat
  <2>1. v.total_shares \in Nat /\ n * v.total_shares \in Nat
    BY DEF Validator
  <2> QED
    BY <1>1, <2>1, DivNat DEF mint_shares
<1>3. near_from_shares(v, n) \in Nat
  <2>1. v.total_shares \in Nat /\ n * net_stake(v) \in Nat
    BY <1>1 DEF Validator
  <2> QED
    BY <1>1, <2>1, DivNat DEF near_from_shares
<1> QED
  BY <1>1, <1>2, <1>3

-----------------------------------------------------------------------------
(* remove_claimable_tranches: what is kept and what is taken. *)

\* Kept tranches of the first n, for every n: the recursion of kept_tranches.
KeptUpTo(ts) ==
    CHOOSE g : g = [n \in 0..Len(ts) |->
                      IF n = 0 THEN <<>>
                      ELSE IF claimable(ts[n]) THEN g[n - 1]
                      ELSE Append(g[n - 1], ts[n])]

\* The retain of remove_claimable_tranches is defined for every list.
LEMMA KeptRecursion ==
    ASSUME NEW ts \in Seq(Tranche)
    PROVE  LET g == KeptUpTo(ts)
           IN  /\ g \in [0..Len(ts) -> Seq(Tranche)]
               /\ g[0] = <<>>
               /\ \A n \in 1..Len(ts) :
                     g[n] = IF claimable(ts[n]) THEN g[n - 1]
                                                ELSE Append(g[n - 1], ts[n])
<1> DEFINE N == Len(ts)
           A == Seq(Tranche)
           F == [n \in 1..N |->
                   [s \in A |-> IF claimable(ts[n]) THEN s ELSE Append(s, ts[n])]]
           Rhs(g) == [n \in 0..N |-> IF n = 0 THEN <<>>
                                     ELSE IF claimable(ts[n]) THEN g[n - 1]
                                     ELSE Append(g[n - 1], ts[n])]
<1>1. N \in Nat /\ <<>> \in A /\ \A n \in 1..N : ts[n] \in Tranche
  OBVIOUS
<1>2. F \in [1..N -> [A -> A]]
  <2>1. ASSUME NEW n \in 1..N, NEW s \in A
        PROVE  (IF claimable(ts[n]) THEN s ELSE Append(s, ts[n])) \in A
    <3>1. Append(s, ts[n]) \in A
      BY <1>1, SeqAppend
    <3> QED
      BY <3>1
  <2> HIDE DEF A, N
  <2> QED
    BY <2>1
<1>3. PICK g \in [0..N -> A] :
         g[0] = <<>> /\ \A n \in 1..N : g[n] = F[n][g[n - 1]]
  <2> DEFINE e == <<>>
  <2>1. N \in Nat /\ e \in A
    BY <1>1
  <2> HIDE DEF F, A, N, e
  <2>2. StepFunction(F, N, A)
    BY <1>2 DEF StepFunction
  <2>3. \E g : Follows(g, F, e, N, A)
    BY <2>1, <2>2, BoundedRecursion
  <2> QED
    BY Zenon, <2>3 DEF e, Follows
<1>4. \A n \in 1..N : g[n] = IF claimable(ts[n]) THEN g[n - 1]
                                                 ELSE Append(g[n - 1], ts[n])
  <2> SUFFICES ASSUME NEW n \in 1..N
               PROVE  g[n] = IF claimable(ts[n]) THEN g[n - 1]
                                                 ELSE Append(g[n - 1], ts[n])
    OBVIOUS
  <2>1. n - 1 \in 0..N
    BY <1>1
  <2>2. g[n - 1] \in A
    BY <2>1
  <2>4. g[n] = F[n][g[n - 1]]
    BY <1>3
  <2> HIDE DEF A, N
  <2> QED
    BY <2>2, <2>4
<1>5. g = Rhs(g)
  <2>1. ASSUME NEW n \in 0..N PROVE g[n] = Rhs(g)[n]
    <3>1. CASE n = 0
      BY <3>1, <1>3
    <3>2. CASE n # 0
      <4>1. n \in 1..N
        BY <3>2
      <4> QED
        BY Zenon, <4>1, <1>4, <3>2
    <3> QED
      BY <3>1, <3>2
  <2>2. DOMAIN g = 0..N /\ DOMAIN Rhs(g) = 0..N /\ g = [n \in 0..N |-> g[n]]
    OBVIOUS
  <2>3. Rhs(g) = [n \in 0..N |-> Rhs(g)[n]]
    OBVIOUS
  <2> HIDE DEF Rhs, N
  <2> QED
    BY <2>1, <2>2, <2>3, Zenon
<1>6. KeptUpTo(ts) = Rhs(KeptUpTo(ts))
  BY <1>5, Zenon DEF KeptUpTo
<1> DEFINE h == KeptUpTo(ts)
<1>7. /\ DOMAIN h = 0..N /\ h = [n \in 0..N |-> h[n]]
      /\ \A n \in 0..N : h[n] = IF n = 0 THEN <<>>
                                ELSE IF claimable(ts[n]) THEN h[n - 1]
                                ELSE Append(h[n - 1], ts[n])
  <2>1. h = Rhs(h)
    BY Zenon, <1>6
  <2>2. DOMAIN Rhs(h) = 0..N
    OBVIOUS
  <2>3. \A n \in 0..N : Rhs(h)[n] = IF n = 0 THEN <<>>
                                    ELSE IF claimable(ts[n]) THEN h[n - 1]
                                    ELSE Append(h[n - 1], ts[n])
    OBVIOUS
  <2>4. Rhs(h) = [n \in 0..N |-> Rhs(h)[n]]
    OBVIOUS
  <2> HIDE DEF h, N, Rhs
  <2>5. DOMAIN h = 0..N
    BY <2>1, <2>2, Zenon
  <2>6. \A n \in 0..N : h[n] = Rhs(h)[n]
    BY <2>1, Zenon
  <2>7. h = [n \in 0..N |-> h[n]]
    BY <2>1, <2>4, Zenon
  <2> QED
    BY <2>3, <2>5, <2>6, <2>7, Zenon
<1> HIDE DEF h
<1>0. 0 \in 0..N /\ h[0] = <<>>
  <2>1. 0 \in 0..N
    BY <1>1
  <2> HIDE DEF N
  <2> QED
    BY <2>1, <1>7, Zenon
<1>8. \A n \in 0..N : n \in {m \in 0..N : h[m] \in A}
  <2> DEFINE T == {m \in 0..N : h[m] \in A}
  <2>1. 0 \in T
    BY Zenon, <1>0, <1>1
  <2>2. ASSUME NEW n \in 1..N, n - 1 \in T PROVE n \in T
    <3>1. n \in 0..N /\ n # 0
      OBVIOUS
    <3>2. Append(h[n - 1], ts[n]) \in A
      BY <2>2, <1>1, SeqAppend
    <3> QED
      BY Zenon, <2>2, <3>1, <3>2, <1>7
  <2> HIDE DEF T, N
  <2>3. \A n \in 0..N : n \in T
    BY <1>1, <2>1, <2>2, BoundedInduction, Zenon
  <2> QED
    BY <2>3 DEF T
<1>9. \A n \in 1..N : n \in 0..N /\ n # 0
  OBVIOUS
<1>10. h \in [0..N -> A]
  <2> HIDE DEF N, A
  <2> QED
    BY <1>7, <1>8
<1>11. \A n \in 1..N : h[n] = IF claimable(ts[n]) THEN h[n - 1]
                                                  ELSE Append(h[n - 1], ts[n])
  <2> HIDE DEF N
  <2> QED
    BY <1>7, <1>9, Zenon
<1> QED
  BY <1>0, <1>10, <1>11, Zenon DEF h


\* A tranche appended by internal_unstake adds its amount.
LEMMA TranchesGrow ==
    ASSUME NEW ts \in Seq(Tranche), NEW t \in Tranche
    PROVE  /\ SumTranches(ts) \in Nat
           /\ SumTranches(Append(ts, t)) = SumTranches(ts) + t.amount
<1> DEFINE n == Len(ts)
           us == Append(ts, t)
           w == [i \in 1..(n + 1) |-> us[i].amount]
<1>1. /\ n \in Nat /\ DOMAIN ts = 1..n /\ DOMAIN us = 1..(n + 1)
      /\ \A i \in 1..n : us[i] = ts[i] /\ ts[i] \in Tranche
      /\ us[n + 1] = t
  BY SeqAppend, SeqFunction
<1>2. \A i \in 1..(n + 1) : w[i] \in Nat
  BY <1>1 DEF Tranche
<1>3. [i \in DOMAIN ts |-> ts[i].amount] = [i \in 1..n |-> w[i]]
  BY <1>1
<1>4. [i \in DOMAIN us |-> us[i].amount] = [i \in 1..(n + 1) |-> w[i]]
  BY <1>1
<1>5. w[n + 1] = t.amount
  BY <1>1
<1> HIDE DEF w, n, us
<1>6. /\ SumFunction([i \in 1..n |-> w[i]]) \in Nat
      /\ SumFunction([i \in 1..(n + 1) |-> w[i]])
           = SumFunction([i \in 1..n |-> w[i]]) + w[n + 1]
  BY Zenon, <1>1, <1>2, PrefixSum
<1>7. /\ SumTranches(ts) = SumFunction([i \in 1..n |-> w[i]])
      /\ SumTranches(us) = SumFunction([i \in 1..(n + 1) |-> w[i]])
  BY <1>3, <1>4, Zenon DEF SumTranches
<1> QED
  BY <1>5, <1>6, <1>7 DEF us

\* No tranche, no sum.
LEMMA NoTranches == SumTranches(<<>>) = 0
<1> DEFINE w == [i \in DOMAIN <<>> |-> <<>>[i].amount]
<1>1. DOMAIN w = {}
  OBVIOUS
<1>2. SumFunction(w) = SumFunctionOnSet(w, DOMAIN w)
  BY Zenon DEF SumFunction, SumFunctionOnSet, FoldFunction
<1>3. SumFunction(w) = SumFunctionOnSet(w, {})
  BY <1>1, <1>2, Zenon
<1>4. SumFunction(w) = 0
  BY <1>3, SumEmpty, Zenon
<1> QED
  BY <1>4, Zenon DEF SumTranches

\* What remove_claimable_tranches keeps and what it takes make up the whole,
\* and a user never loses or gains by it.
LEMMA KeptAndTaken ==
    ASSUME NEW u, NEW ts \in Seq(Tranche), user_pending_unstake[u] = ts
    PROVE  /\ kept_tranches(u) \in Seq(Tranche)
           /\ claimable_credit(u) \in Nat
           /\ SumTranches(kept_tranches(u)) + claimable_credit(u) = SumTranches(ts)
<1> DEFINE N == Len(ts)
           g == KeptUpTo(ts)
           c == [i \in 1..N |-> IF claimable(ts[i]) THEN ts[i].amount ELSE 0]
           w == [i \in 1..N |-> ts[i].amount]
           C(n) == SumFunction([i \in 1..n |-> c[i]])
           W(n) == SumFunction([i \in 1..n |-> w[i]])
           T == {n \in 0..N : /\ C(n) \in Nat
                              /\ SumTranches(g[n]) + C(n) = W(n)}
<1>1. N \in Nat /\ DOMAIN ts = 1..N /\ \A n \in 1..N : ts[n] \in Tranche
  OBVIOUS
<1>2. /\ g \in [0..N -> Seq(Tranche)] /\ g[0] = <<>>
      /\ \A n \in 1..N : g[n] = IF claimable(ts[n]) THEN g[n - 1]
                                                    ELSE Append(g[n - 1], ts[n])
  BY KeptRecursion, Zenon
<1>3. \A n \in 1..N : /\ c[n] \in Nat /\ w[n] \in Nat
                      /\ claimable(ts[n]) => c[n] = w[n]
                      /\ ~claimable(ts[n]) => c[n] = 0 /\ w[n] = ts[n].amount
  BY <1>1 DEF Tranche
<1>4. kept_tranches(u) = g[N]
  BY Zenon DEF kept_tranches, KeptUpTo
<1>5. claimable_credit(u) = C(N) /\ SumTranches(ts) = W(N)
  <2>1. /\ [i \in 1..N |-> IF claimable(ts[i]) THEN ts[i].amount ELSE 0]
             = [i \in 1..N |-> c[i]]
        /\ [i \in 1..N |-> ts[i].amount] = [i \in 1..N |-> w[i]]
    OBVIOUS
  <2> HIDE DEF c, w, N
  <2> QED
    BY <1>1, <2>1, Zenon DEF claimable_credit, SumTranches
<1> HIDE DEF c, w, g
<1>6. 0 \in T
  <2>1. \A v : SumFunction([i \in 1..0 |-> v[i]]) = 0
    <3> TAKE v
    <3> DEFINE z == [i \in 1..0 |-> v[i]]
    <3>1. DOMAIN z = {}
      OBVIOUS
    <3>2. SumFunction(z) = SumFunctionOnSet(z, DOMAIN z)
      BY Zenon DEF SumFunction, SumFunctionOnSet, FoldFunction
    <3> HIDE DEF z
    <3>3. SumFunction(z) = 0
      BY <3>1, <3>2, SumEmpty, Zenon
    <3> QED
      BY <3>3 DEF z
  <2>2. C(0) = 0 /\ W(0) = 0
    BY <2>1
  <2>3. SumTranches(g[0]) = 0
    BY <1>2, NoTranches, Zenon
  <2> HIDE DEF C, W
  <2> QED
    BY <1>1, <2>2, <2>3
<1>7. ASSUME NEW n \in 1..N, n - 1 \in T PROVE n \in T
  <2> DEFINE m == n - 1
  <2>1. /\ m \in Nat /\ m + 1 = n /\ m \in 0..N
        /\ \A i \in 1..(m + 1) : c[i] \in Nat /\ w[i] \in Nat
    BY <1>3
  <2>2. /\ C(m) \in Nat /\ C(m + 1) = C(m) + c[m + 1]
        /\ W(m) \in Nat /\ W(m + 1) = W(m) + w[m + 1]
    <3> HIDE DEF m, N
    <3> QED
      BY Zenon, <2>1, PrefixSum
  <2>3. C(n) = C(m) + c[n] /\ W(n) = W(m) + w[n] /\ C(m) \in Nat /\ W(m) \in Nat
    <3> HIDE DEF C, W
    <3> QED
      BY <2>1, <2>2, Zenon
  <2>4. SumTranches(g[m]) + C(m) = W(m)
    BY <1>7
  <2>5. g[m] \in Seq(Tranche) /\ ts[n] \in Tranche
    BY Zenon, <1>1, <1>2, <2>1
  <2>6. /\ SumTranches(g[m]) \in Nat
        /\ SumTranches(Append(g[m], ts[n])) = SumTranches(g[m]) + ts[n].amount
    <3> HIDE DEF m
    <3> QED
      BY <2>5, TranchesGrow
  <2>7. \/ claimable(ts[n]) /\ c[n] = w[n] /\ SumTranches(g[n]) = SumTranches(g[m])
        \/ /\ ~claimable(ts[n]) /\ c[n] = 0 /\ w[n] = ts[n].amount
           /\ SumTranches(g[n]) = SumTranches(Append(g[m], ts[n]))
    BY <1>2, <1>3, Zenon
  <2>8. c[n] \in Nat /\ w[n] \in Nat
    BY <1>3
  <2>9. n \in 0..N
    OBVIOUS
  <2> HIDE DEF C, W, m
  <2>10. C(n) \in Nat /\ SumTranches(g[n]) + C(n) = W(n)
    <3> DEFINE x == SumTranches(g[m])
               y == SumTranches(g[n])
    <3>1. /\ x \in Nat /\ C(m) \in Nat /\ W(m) \in Nat
          /\ x + C(m) = W(m)
      BY <2>3, <2>4, <2>6
    <3>2. \/ c[n] = w[n] /\ y = x
          \/ c[n] = 0 /\ y = x + w[n]
      BY <2>6, <2>7, Zenon
    <3>3. C(n) = C(m) + c[n] /\ W(n) = W(m) + w[n]
      BY <2>3
    <3>4. C(n) \in Nat /\ y + C(n) = W(n)
      <4> HIDE DEF x, y
      <4> QED
        BY SMTT(30), <3>1, <3>2, <3>3, <2>8
    <3> QED
      BY <3>4
  <2> QED
    BY <2>9, <2>10
<1>8. N \in T
  <2> HIDE DEF T, N
  <2>1. \A n \in 0..N : n \in T
    BY Zenon, <1>1, <1>6, <1>7, BoundedInduction
  <2>2. N \in 0..N
    BY <1>1
  <2> QED
    BY <2>1, <2>2
<1>9. g[N] \in Seq(Tranche)
  BY <1>1, <1>2
<1> HIDE DEF C, W
<1> QED
  BY <1>4, <1>5, <1>8, <1>9

-----------------------------------------------------------------------------
(* The row updates of the pipeline keep the row well typed. *)

\* apply_net_zero_pending_matched_clear and mark_epoch_settlement_handled
LEMMA NetZeroType ==
    ASSUME NEW v \in Validator, epoch \in Nat
    PROVE  /\ apply_net_zero_pending_matched_clear(v) \in Validator
           /\ mark_epoch_settlement_handled(v) \in Validator
<1>1. v.pending_to_claim + v.pending_to_stake \in Nat /\ 0 \in Nat
  BY DEF Validator
<1>2. apply_net_zero_pending_matched_clear(v) \in Validator
  BY <1>1, Zenon DEF apply_net_zero_pending_matched_clear, Validator
<1>3. mark_epoch_settlement_handled(v) \in Validator
  BY Zenon DEF mark_epoch_settlement_handled, Validator
<1> QED
  BY <1>2, <1>3

\* on_epoch_withdraw_transfer_done
LEMMA CreditType ==
    ASSUME NEW v \in Validator, NEW c \in Nat, v.total_staked_balance >= c
    PROVE  credit_withdrawn(v, c) \in Validator
<1>1. /\ v.total_staked_balance - c \in Nat
      /\ Sat(v.pending_to_withdraw, c) \in Nat
      /\ v.pending_to_claim + c \in Nat
  BY DEF Validator, Sat
<1> QED
  BY <1>1, Zenon DEF credit_withdrawn, Validator

\* on_deposit_and_stake
LEMMA SettleStakeType ==
    ASSUME NEW v \in Validator, epoch \in Nat,
           v.pending_to_stake > v.pending_to_unstake
    PROVE  settle_stake(v) \in Validator
<1>1. /\ v.pending_to_claim + v.pending_to_unstake \in Nat
      /\ v.total_staked_balance + (v.pending_to_stake - v.pending_to_unstake) \in Nat
      /\ 0 \in Nat
  BY DEF Validator
<1> QED
  BY <1>1, Zenon DEF settle_stake, Validator

\* on_unstake
LEMMA SettleUnstakeType ==
    ASSUME NEW v \in Validator, epoch \in Nat,
           v.pending_to_unstake > v.pending_to_stake
    PROVE  settle_unstake(v) \in Validator
<1>1. /\ v.pending_to_claim + v.pending_to_stake \in Nat
      /\ v.pending_to_withdraw + (v.pending_to_unstake - v.pending_to_stake) \in Nat
      /\ 0 \in Nat
  BY DEF Validator
<1> QED
  BY <1>1, Zenon DEF settle_unstake, Validator

\* internal_stake and internal_unstake
LEMMA MintBurnType ==
    ASSUME NEW v \in Validator, NEW a \in Nat, NEW b \in Nat
    PROVE  /\ [v EXCEPT !.total_shares = @ + a,
                        !.pending_to_stake = @ + b] \in Validator
           /\ v.total_shares >= a =>
                [v EXCEPT !.total_shares = @ - a,
                          !.pending_to_unstake = @ + b] \in Validator
<1>1. /\ v.total_shares + a \in Nat
      /\ v.pending_to_stake + b \in Nat
      /\ v.pending_to_unstake + b \in Nat
      /\ v.total_shares >= a => v.total_shares - a \in Nat
  BY DEF Validator
<1> QED
  BY <1>1, Zenon DEF Validator

-----------------------------------------------------------------------------
(* Type correctness. *)

\* The view of a chain that has not asked the pool yet.
LEMMA NoViewType == NoView \in PoolView
  BY Zenon, 0 \in Nat DEF NoView, PoolView

\* The chain's own variables are well typed.
ChainTyped ==
    /\ step \in Steps
    /\ cont \in UserAction
    /\ amount \in Nat
    /\ view \in PoolView
    /\ ok \in BOOLEAN

\* Scheduling a receipt keeps the chain well typed.
LEMMA ScheduleType ==
    ASSUME NEW s \in Steps, NEW c \in UserAction, NEW a \in Nat,
           NEW w \in PoolView, NEW r \in BOOLEAN, Schedule(s, c, a, w, r)
    PROVE  ChainTyped'
  BY Zenon DEF Schedule, ChainTyped

\* The two common ways to schedule a receipt.
LEMMA GoToType ==
    ASSUME NEW s \in Steps, NEW c \in UserAction, NEW a \in Nat, TypeOK
    PROVE  /\ GoTo(s, c) => ChainTyped'
           /\ CallPool(s, a) => ChainTyped'
<1>1. cont \in UserAction
  BY DEF TypeOK
<1>2. GoTo(s, c) => ChainTyped'
  BY NoViewType, ScheduleType, 0 \in Nat, TRUE \in BOOLEAN, Zenon DEF GoTo
<1>3. CallPool(s, a) => ChainTyped'
  BY <1>1, NoViewType, ScheduleType, TRUE \in BOOLEAN, Zenon DEF CallPool
<1> QED
  BY <1>2, <1>3

\* add_validator's row is well typed.
LEMMA InitTypeOK == Init => TypeOK
<1> SUFFICES ASSUME Init PROVE TypeOK
  OBVIOUS
<1>1. validator \in Validator
  BY Zenon, 0 \in Nat DEF Init, Validator, ValidatorStatus
<1>2. cont \in UserAction
  BY DEF Init, UserAction
<1>3. paused \in BOOLEAN /\ price_active \in BOOLEAN /\ ok \in BOOLEAN
  BY Zenon DEF Init
<1>4. step \in Steps /\ amount \in Nat /\ view \in PoolView /\ epoch \in Nat
  BY NoViewType DEF Init, Steps
<1>5. pool \in PoolAccount /\ calls \in [lock: Nat, other: Nat]
  BY DEF Init, PoolAccount
<1>6. /\ locks \in Seq(Lock)
      /\ user_validator_shares \in [Users -> Nat]
      /\ user_pending_unstake \in [Users -> Seq(Tranche)]
  BY DEF Init
<1>7. cash \in Int /\ lost \in Nat /\ owed \in Int /\ pool_ops \in Nat
  BY DEF Init
<1> QED
  BY <1>1, <1>2, <1>3, <1>4, <1>5, <1>6, <1>7, Zenon DEF TypeOK

\* Starting a chain ([0]) keeps the row and the chain well typed.
LEMMA BeginType ==
    ASSUME TypeOK, NEW c \in UserAction, BeginPipeline(c)
    PROVE  validator' \in Validator /\ ChainTyped'
<1>1. validator' \in Validator
  BY Zenon DEF TypeOK, BeginPipeline, Validator
<1>2. GoTo("release", c) \/ GoTo("tail", c) \/ GoTo("pool_get_account", c)
  BY DEF BeginPipeline, DispatchContinue
<1>3. {"release", "tail", "pool_get_account"} \subseteq Steps
  BY DEF Steps
<1> QED
  BY <1>1, <1>2, <1>3, GoToType, 0 \in Nat, Zenon

\* The decision of [3] keeps the row, the cash and the chain well typed.
LEMMA TryType ==
    ASSUME TypeOK, NEW v \in Validator, try_epoch_stake_or_unstake(v)
    PROVE  validator' \in Validator /\ ChainTyped' /\ cash' \in Int
<1> DEFINE ps == v.pending_to_stake
           pu == v.pending_to_unstake
<1>1. /\ ps \in Nat /\ pu \in Nat
      /\ apply_net_zero_pending_matched_clear(v) \in Validator
      /\ mark_epoch_settlement_handled(v) \in Validator
  BY Zenon, NetZeroType DEF Validator, TypeOK
<1>2. cash \in Int /\ cont \in UserAction
  BY DEF TypeOK
<1>3. {"release", "tail", "pool_deposit_and_stake", "pool_unstake"} \subseteq Steps
  BY DEF Steps
<1>4. DispatchContinue(cont) => ChainTyped'
  BY <1>2, <1>3, GoToType, 0 \in Nat, Zenon DEF DispatchContinue
<1>5. ps > pu /\ CallPool("pool_deposit_and_stake", ps - pu) => ChainTyped'
  <2>1. ps > pu => ps - pu \in Nat
    BY <1>1
  <2> QED
    BY <1>2, <1>3, <2>1, GoToType, Zenon
<1>6. pu > ps /\ CallPool("pool_unstake", pu - ps) => ChainTyped'
  <2>1. pu > ps => pu - ps \in Nat
    BY <1>1
  <2> QED
    BY <1>2, <1>3, <2>1, GoToType, Zenon
<1> QED
  BY <1>1, <1>2, <1>4, <1>5, <1>6 DEF try_epoch_stake_or_unstake

\* Clearing tx_status and sending the refund keeps everything well typed.
LEMMA RefundType ==
    ASSUME TypeOK, refund_payable_pipeline
    PROVE  /\ validator' \in Validator /\ ChainTyped'
           /\ cash' \in Int /\ lost' \in Nat
<1>1. validator' \in Validator
  BY Zenon DEF TypeOK, refund_payable_pipeline, Validator
<1>2. payable_refund(cont) \in Nat
  BY DEF TypeOK, UserAction, payable_refund, SettleOnly, NoAction
<1>3. NoAction \in UserAction /\ "idle" \in Steps
  BY DEF UserAction, Steps
<1>4. ChainTyped'
  BY <1>3, GoToType, 0 \in Nat, Zenon DEF refund_payable_pipeline
<1>5. cash' \in Int /\ lost' \in Nat
  BY <1>2 DEF TypeOK, refund_payable_pipeline, TransferToUser
<1> QED
  BY <1>1, <1>4, <1>5

\* Users' calls keep the state well typed.
LEMMA UserCallsType == TypeOK /\ UserCalls => TypeOK'
<1> SUFFICES ASSUME TypeOK, UserCalls PROVE TypeOK'
  OBVIOUS
<1> USE DEF admin, money
<1>1. ASSUME NEW u \in Users, NEW a \in LockAmounts, NEW d \in Durations,
             lock(u, a, d)
      PROVE  TypeOK'
  <2>1. CommitLock(u, a, d) \in UserAction /\ a \in Nat
    BY AmountsAssumption DEF CommitLock, UserAction
  <2>2. validator' \in Validator /\ ChainTyped'
    BY <1>1, <2>1, BeginType DEF lock
  <2>3. cash' \in Int /\ calls' \in [lock: Nat, other: Nat]
    BY SMTT(30), <1>1, <2>1 DEF lock, TypeOK
  <2> QED
    BY <1>1, <2>2, <2>3 DEF lock, TypeOK, ChainTyped
<1>2. ASSUME NEW u \in Users, NEW l \in 1..Len(locks), unlock(u, l)
      PROVE  TypeOK'
  <2>1. locks[l].shares \in Nat /\ l \in Nat
    <3>1. locks[l] \in Lock /\ l \in Nat
      BY DEF TypeOK
    <3> QED
      BY <3>1 DEF Lock
  <2>2. UnlockQueueUnstake(u, l, locks[l].shares) \in UserAction
    BY <2>1 DEF UnlockQueueUnstake, UserAction
  <2>3. validator' \in Validator /\ ChainTyped'
    BY <1>2, <2>2, BeginType DEF unlock
  <2> QED
    BY <1>2, <2>3 DEF unlock, TypeOK, ChainTyped
<1>3. ASSUME NEW u \in Users, withdraw(u)
      PROVE  TypeOK'
  <2>1. WithdrawUserTransfer(u) \in UserAction
    BY DEF WithdrawUserTransfer, UserAction
  <2>2. validator' \in Validator /\ ChainTyped'
    BY <1>3, <2>1, BeginType DEF withdraw
  <2>3. calls' \in [lock: Nat, other: Nat]
    <3>1. calls \in [lock: Nat, other: Nat]
      BY DEF TypeOK
    <3>2. calls' = [calls EXCEPT !.other = calls.other + 1]
      BY <1>3 DEF withdraw
    <3> QED
      BY <3>1, <3>2
  <2> QED
    BY <1>3, <2>2, <2>3 DEF withdraw, TypeOK, ChainTyped
<1>4. ASSUME epoch_settle
      PROVE  TypeOK'
  <2>1. SettleOnly \in UserAction
    BY DEF UserAction
  <2>2. validator' \in Validator /\ ChainTyped'
    BY <1>4, <2>1, BeginType DEF epoch_settle
  <2>3. calls' \in [lock: Nat, other: Nat]
    <3>1. calls \in [lock: Nat, other: Nat]
      BY DEF TypeOK
    <3>2. calls' = [calls EXCEPT !.other = calls.other + 1]
      BY <1>4 DEF epoch_settle
    <3> QED
      BY <3>1, <3>2
  <2> QED
    BY <1>4, <2>2, <2>3 DEF epoch_settle, TypeOK, ChainTyped
<1> QED
  BY <1>1, <1>2, <1>3, <1>4 DEF UserCalls

\* Administrative calls keep the state well typed.
LEMMA AdminCallsType == TypeOK /\ AdminCalls => TypeOK'
<1> SUFFICES ASSUME TypeOK, AdminCalls PROVE TypeOK'
  OBVIOUS
<1> USE DEF row, chain, money, admin
<1>1. ASSUME pause_validator \/ remove_validator
      PROVE  TypeOK'
  <2>1. validator' \in Validator
    BY Zenon, <1>1 DEF pause_validator, remove_validator, TypeOK, Validator, ValidatorStatus
  <2> QED
    BY <1>1, <2>1 DEF pause_validator, remove_validator, TypeOK
<1>2. ASSUME pause \/ unpause \/ archive_price \/ unarchive_price
      PROVE  TypeOK'
  BY Zenon, <1>2 DEF pause, unpause, archive_price, unarchive_price, TypeOK
<1> QED
  BY <1>1, <1>2 DEF AdminCalls

\* Updates of the pool's record keep it well typed.
LEMMA PoolUpdateType ==
    ASSUME NEW p \in PoolAccount, NEW a \in Nat, NEW b \in Nat, NEW c \in Nat
    PROVE  /\ [p EXCEPT !.staked = a] \in PoolAccount
           /\ [p EXCEPT !.unstaked = a] \in PoolAccount
           /\ [staked |-> a, unstaked |-> b, available |-> c] \in PoolAccount
  BY Zenon DEF PoolAccount

\* The pool's answer leaves a well-typed chain.
LEMMA PoolRepliesType ==
    ASSUME TypeOK, NEW s \in Steps, NEW r \in BOOLEAN, PoolReplies(s, r)
    PROVE  ChainTyped'
<1>1. cont \in UserAction /\ amount \in Nat
  BY DEF TypeOK
<1> QED
  BY <1>1, NoViewType, ScheduleType, Zenon DEF PoolReplies

\* get_account at the pool keeps the state well typed.
LEMMA PoolGetAccountType == TypeOK /\ PoolGetAccount => TypeOK'
<1> SUFFICES ASSUME TypeOK, PoolGetAccount PROVE TypeOK'
  OBVIOUS
<1> USE DEF row, chain, money, admin
<1>p. /\ pool.staked \in Nat /\ pool.unstaked \in Nat /\ pool.available \in Nat
      /\ epoch \in Nat /\ amount \in Nat /\ cash \in Int /\ pool_ops \in Nat
      /\ cont \in UserAction /\ pool \in PoolAccount
  BY DEF TypeOK, PoolAccount
<1>1. PoolGetAccount
  OBVIOUS
<1> QED
  <2>1. "after_pool_account" \in Steps
    BY DEF Steps
  <2>2. pool.staked + pool.unstaked \in Nat /\ 0 \in Nat
        /\ (pool.available <= epoch) \in BOOLEAN
    BY <1>p
  <2>3. [total |-> pool.staked + pool.unstaked, unstaked |-> pool.unstaked,
         can_withdraw |-> pool.available <= epoch] \in PoolView
    BY <1>p, <2>2, Zenon DEF PoolView
  <2>4. ChainTyped'
    BY <1>1, <1>p, <2>1, <2>2, <2>3, NoViewType, ScheduleType,
       TRUE \in BOOLEAN, FALSE \in BOOLEAN, Zenon DEF PoolGetAccount
  <2> QED
    BY <1>1, <2>4 DEF PoolGetAccount, TypeOK, ChainTyped

\* withdraw at the pool keeps the state well typed.
LEMMA PoolWithdrawType == TypeOK /\ PoolWithdraw => TypeOK'
<1> SUFFICES ASSUME TypeOK, PoolWithdraw PROVE TypeOK'
  OBVIOUS
<1> USE DEF row, chain, money, admin
<1>p. /\ pool.staked \in Nat /\ pool.unstaked \in Nat /\ pool.available \in Nat
      /\ epoch \in Nat /\ amount \in Nat /\ cash \in Int /\ pool_ops \in Nat
      /\ cont \in UserAction /\ pool \in PoolAccount
  BY DEF TypeOK, PoolAccount
<1>2. PoolWithdraw
  OBVIOUS
<1> QED
  <2>1. "withdraw_transfer_done" \in Steps
    BY DEF Steps
  <2>2. ChainTyped'
    BY <1>2, PoolRepliesType, <2>1, TRUE \in BOOLEAN, FALSE \in BOOLEAN, Zenon DEF PoolWithdraw
  <2>3. pool' \in PoolAccount /\ cash' \in Int
    <3>1. pool.unstaked >= amount => pool.unstaked - amount \in Nat
      BY <1>p
    <3>2. cash + amount \in Int
      BY <1>p
    <3> QED
      BY <1>2, <1>p, <3>1, <3>2, PoolUpdateType, Zenon DEF PoolWithdraw
  <2> QED
    BY <1>2, <2>2, <2>3 DEF PoolWithdraw, TypeOK, ChainTyped

\* deposit_and_stake at the pool keeps the state well typed.
LEMMA PoolDepositAndStakeType == TypeOK /\ PoolDepositAndStake => TypeOK'
<1> SUFFICES ASSUME TypeOK, PoolDepositAndStake PROVE TypeOK'
  OBVIOUS
<1> USE DEF row, chain, money, admin
<1>p. /\ pool.staked \in Nat /\ pool.unstaked \in Nat /\ pool.available \in Nat
      /\ epoch \in Nat /\ amount \in Nat /\ cash \in Int /\ pool_ops \in Nat
      /\ cont \in UserAction /\ pool \in PoolAccount
  BY DEF TypeOK, PoolAccount
<1>3. PoolDepositAndStake
  OBVIOUS
<1> QED
  <2>1. "on_deposit_and_stake" \in Steps
    BY DEF Steps
  <2>2. ChainTyped'
    BY <1>3, PoolRepliesType, <2>1, TRUE \in BOOLEAN, FALSE \in BOOLEAN, Zenon DEF PoolDepositAndStake
  <2>3. pool' \in PoolAccount /\ cash' \in Int /\ pool_ops' \in Nat
    <3>1. pool.staked + amount \in Nat /\ cash + amount \in Int /\ pool_ops + 1 \in Nat
      BY <1>p
    <3> QED
      BY <1>3, <1>p, <3>1, PoolUpdateType, Zenon DEF PoolDepositAndStake
  <2> QED
    BY <1>3, <2>2, <2>3 DEF PoolDepositAndStake, TypeOK, ChainTyped

\* unstake at the pool keeps the state well typed.
LEMMA PoolUnstakeType == TypeOK /\ PoolUnstake => TypeOK'
<1> SUFFICES ASSUME TypeOK, PoolUnstake PROVE TypeOK'
  OBVIOUS
<1> USE DEF row, chain, money, admin
<1>p. /\ pool.staked \in Nat /\ pool.unstaked \in Nat /\ pool.available \in Nat
      /\ epoch \in Nat /\ amount \in Nat /\ cash \in Int /\ pool_ops \in Nat
      /\ cont \in UserAction /\ pool \in PoolAccount
  BY DEF TypeOK, PoolAccount
<1>4. PoolUnstake
  OBVIOUS
<1> QED
  <2>1. "on_unstake" \in Steps
    BY DEF Steps
  <2>2. ChainTyped'
    BY <1>4, PoolRepliesType, <2>1, TRUE \in BOOLEAN, FALSE \in BOOLEAN, Zenon DEF PoolUnstake
  <2>3. pool' \in PoolAccount /\ pool_ops' \in Nat
    <3>1. ASSUME NEW dust \in 0..PoolDust, pool.staked >= amount + dust
          PROVE  /\ pool.staked - (amount + dust) \in Nat
                 /\ pool.unstaked + amount + dust \in Nat
      BY <1>p, <3>1, EpochsAssumption
    <3>2. epoch + PoolEpochs \in Nat /\ pool_ops + 1 \in Nat
      BY <1>p, EpochsAssumption
    <3>3. CASE \E dust \in 0..PoolDust :
                 /\ pool.staked >= amount + dust
                 /\ pool' = [staked |-> pool.staked - (amount + dust),
                             unstaked |-> pool.unstaked + amount + dust,
                             available |-> epoch + PoolEpochs]
                 /\ pool_ops' = pool_ops + 1
      <4>1. PICK dust \in 0..PoolDust :
                 /\ pool.staked >= amount + dust
                 /\ pool' = [staked |-> pool.staked - (amount + dust),
                             unstaked |-> pool.unstaked + amount + dust,
                             available |-> epoch + PoolEpochs]
                 /\ pool_ops' = pool_ops + 1
        BY <3>3
      <4>2. /\ pool.staked - (amount + dust) \in Nat
            /\ pool.unstaked + amount + dust \in Nat
        BY <4>1, <3>1
      <4>3. [staked |-> pool.staked - (amount + dust),
             unstaked |-> pool.unstaked + amount + dust,
             available |-> epoch + PoolEpochs] \in PoolAccount
        BY <4>2, <3>2, Zenon DEF PoolAccount
      <4> QED
        BY <4>1, <4>3, <3>2
    <3>4. CASE UNCHANGED <<pool, pool_ops>>
      BY <3>4, <1>p
    <3> QED
      BY Zenon, <1>4, <3>3, <3>4 DEF PoolUnstake
  <2> QED
    BY <1>4, <2>2, <2>3 DEF PoolUnstake, TypeOK, ChainTyped

\* The next epoch keeps the state well typed.
LEMMA EpochAdvancesType == TypeOK /\ EpochAdvances => TypeOK'
<1> SUFFICES ASSUME TypeOK, EpochAdvances PROVE TypeOK'
  OBVIOUS
<1> USE DEF row, chain, money, admin
<1>p. /\ pool.staked \in Nat /\ pool.unstaked \in Nat /\ pool.available \in Nat
      /\ epoch \in Nat /\ amount \in Nat /\ cash \in Int /\ pool_ops \in Nat
      /\ cont \in UserAction /\ pool \in PoolAccount
  BY DEF TypeOK, PoolAccount
<1>5. EpochAdvances
  OBVIOUS
<1> QED
  <2>1. pool' \in PoolAccount /\ epoch' \in Nat /\ pool_ops' \in Nat
    <3>1. \A r \in Rewards : pool.staked + r \in Nat
      BY <1>p, AmountsAssumption
    <3>2. epoch + 1 \in Nat /\ 0 \in Nat
      BY <1>p
    <3>3. pool' \in PoolAccount
      <4>1. PICK r \in Rewards :
              pool' = IF pool.staked > 0 THEN [pool EXCEPT !.staked = @ + r] ELSE pool
        BY <1>5 DEF EpochAdvances
      <4> QED
        BY <1>p, <3>1, <4>1, PoolUpdateType, Zenon
    <3> QED
      BY <1>5, <3>2, <3>3 DEF EpochAdvances
  <2> QED
    BY <1>5, <2>1 DEF EpochAdvances, TypeOK

\* [1] on_epoch_settlement_after_pool_account keeps the state well typed.
LEMMA AfterPoolAccountType == TypeOK /\ AfterPoolAccount => TypeOK'
<1> SUFFICES ASSUME TypeOK, AfterPoolAccount PROVE TypeOK'
  OBVIOUS
<1> USE DEF row, money, admin
<1>t. /\ validator \in Validator /\ cont \in UserAction /\ amount \in Nat
      /\ epoch \in Nat /\ view \in PoolView /\ cash \in Int /\ 0 \in Nat
      /\ lost \in Nat
  BY DEF TypeOK
<1>s. {"release", "tail", "pool_withdraw", "maybe_settle", "dispatch"} \subseteq Steps
  BY DEF Steps
<1>1. AfterPoolAccount
  OBVIOUS
<1> QED
  <2> DEFINE v == [validator EXCEPT !.total_staked_balance = view.total]
  <2>1. v \in Validator /\ view.unstaked \in Nat
    BY <1>t DEF Validator, PoolView
  <2>2. /\ validator' \in Validator /\ ChainTyped'
        /\ cash' \in Int /\ lost' \in Nat
    <3>1. CASE refund_payable_pipeline
      BY <3>1, RefundType
    <3>2. CASE GoTo("release", cont) /\ UNCHANGED <<validator, money>>
      <4>1. ChainTyped'
        BY <3>2, <1>t, <1>s, GoToType, Zenon
      <4> QED
        BY <3>2, <4>1, <1>t
    <3>3. CASE /\ validator' = v
               /\ CallPool("pool_withdraw", view.unstaked)
               /\ UNCHANGED cash
               /\ UNCHANGED lost
      <4>1. ChainTyped'
        BY <3>3, <2>1, <1>t, <1>s, GoToType, Zenon
      <4> QED
        BY <3>3, <4>1, <2>1, <1>t
    <3>4. CASE try_epoch_stake_or_unstake(v) /\ UNCHANGED lost
      BY <3>4, <2>1, <1>t, TryType, Zenon
    <3> QED
      BY <1>1, <3>1, <3>2, <3>3, <3>4, Zenon DEF AfterPoolAccount
  <2> QED
    BY <1>1, <2>2 DEF AfterPoolAccount, TypeOK, ChainTyped

\* [2b] on_epoch_withdraw_transfer_done keeps the state well typed.
LEMMA WithdrawTransferDoneType == TypeOK /\ WithdrawTransferDone => TypeOK'
<1> SUFFICES ASSUME TypeOK, WithdrawTransferDone PROVE TypeOK'
  OBVIOUS
<1> USE DEF row, money, admin
<1>t. /\ validator \in Validator /\ cont \in UserAction /\ amount \in Nat
      /\ epoch \in Nat /\ view \in PoolView /\ cash \in Int /\ 0 \in Nat
      /\ lost \in Nat
  BY DEF TypeOK
<1>s. {"release", "tail", "pool_withdraw", "maybe_settle", "dispatch"} \subseteq Steps
  BY DEF Steps
<1>2. WithdrawTransferDone
  OBVIOUS
<1> QED
  <2>1. validator' \in Validator
    BY <1>2, <1>t, CreditType DEF WithdrawTransferDone
  <2>2. ok' \in BOOLEAN
    BY <1>2 DEF WithdrawTransferDone
  <2>3. step' \in Steps /\ cont' \in UserAction /\ amount' \in Nat /\ view' \in PoolView
    BY <1>2, <1>t, <1>s DEF WithdrawTransferDone
  <2> QED
    BY <1>2, <2>1, <2>2, <2>3 DEF WithdrawTransferDone, TypeOK

\* [2c] on_after_pool_withdraw_maybe_settle keeps the state well typed.
LEMMA AfterPoolWithdrawMaybeSettleType == TypeOK /\ AfterPoolWithdrawMaybeSettle => TypeOK'
<1> SUFFICES ASSUME TypeOK, AfterPoolWithdrawMaybeSettle PROVE TypeOK'
  OBVIOUS
<1> USE DEF row, money, admin
<1>t. /\ validator \in Validator /\ cont \in UserAction /\ amount \in Nat
      /\ epoch \in Nat /\ view \in PoolView /\ cash \in Int /\ 0 \in Nat
      /\ lost \in Nat
  BY DEF TypeOK
<1>s. {"release", "tail", "pool_withdraw", "maybe_settle", "dispatch"} \subseteq Steps
  BY DEF Steps
<1>d. DispatchContinue(cont) => ChainTyped'
  BY <1>t, <1>s, GoToType, Zenon DEF DispatchContinue
<1>3. AfterPoolWithdrawMaybeSettle
  OBVIOUS
<1> QED
  <2>1. validator' \in Validator /\ ChainTyped' /\ cash' \in Int
    BY <1>3, <1>t, <1>d, TryType DEF AfterPoolWithdrawMaybeSettle
  <2> QED
    BY <1>3, <2>1 DEF AfterPoolWithdrawMaybeSettle, TypeOK, ChainTyped

\* [3b] on_deposit_and_stake keeps the state well typed.
LEMMA OnDepositAndStakeType == TypeOK /\ OnDepositAndStake => TypeOK'
<1> SUFFICES ASSUME TypeOK, OnDepositAndStake PROVE TypeOK'
  OBVIOUS
<1> USE DEF row, money, admin
<1>t. /\ validator \in Validator /\ cont \in UserAction /\ amount \in Nat
      /\ epoch \in Nat /\ view \in PoolView /\ cash \in Int /\ 0 \in Nat
      /\ lost \in Nat
  BY DEF TypeOK
<1>s. {"release", "tail", "pool_withdraw", "maybe_settle", "dispatch"} \subseteq Steps
  BY DEF Steps
<1>4. OnDepositAndStake
  OBVIOUS
<1> QED
  <2>1. validator' \in Validator
    BY <1>4, <1>t, SettleStakeType DEF OnDepositAndStake
  <2>2. ChainTyped'
    BY <1>4, <1>t, <1>s, GoToType, Zenon DEF OnDepositAndStake
  <2> QED
    BY <1>4, <2>1, <2>2 DEF OnDepositAndStake, TypeOK, ChainTyped

\* [3c] on_unstake keeps the state well typed.
LEMMA OnUnstakeType == TypeOK /\ OnUnstake => TypeOK'
<1> SUFFICES ASSUME TypeOK, OnUnstake PROVE TypeOK'
  OBVIOUS
<1> USE DEF row, money, admin
<1>t. /\ validator \in Validator /\ cont \in UserAction /\ amount \in Nat
      /\ epoch \in Nat /\ view \in PoolView /\ cash \in Int /\ 0 \in Nat
      /\ lost \in Nat
  BY DEF TypeOK
<1>s. {"release", "tail", "pool_withdraw", "maybe_settle", "dispatch"} \subseteq Steps
  BY DEF Steps
<1>5. OnUnstake
  OBVIOUS
<1> QED
  <2>1. validator' \in Validator
    BY <1>5, <1>t, SettleUnstakeType DEF OnUnstake
  <2>2. ChainTyped'
    BY <1>5, <1>t, <1>s, GoToType, Zenon DEF OnUnstake
  <2> QED
    BY <1>5, <2>1, <2>2 DEF OnUnstake, TypeOK, ChainTyped

\* [4] on_epoch_settlement_dispatch_continue keeps the state well typed.
LEMMA DispatchType == TypeOK /\ Dispatch => TypeOK'
<1> SUFFICES ASSUME TypeOK, Dispatch PROVE TypeOK'
  OBVIOUS
<1> USE DEF row, money, admin
<1>t. /\ validator \in Validator /\ cont \in UserAction /\ amount \in Nat
      /\ epoch \in Nat /\ view \in PoolView /\ cash \in Int /\ 0 \in Nat
      /\ lost \in Nat
  BY DEF TypeOK
<1>s. {"release", "tail", "pool_withdraw", "maybe_settle", "dispatch"} \subseteq Steps
  BY DEF Steps
<1>d. DispatchContinue(cont) => ChainTyped'
  BY <1>t, <1>s, GoToType, Zenon DEF DispatchContinue
<1>6. Dispatch
  OBVIOUS
<1> QED
  BY <1>6, <1>d DEF Dispatch, TypeOK, ChainTyped

\* The end of a tail leaves a well-typed chain.
LEMMA TailResultType ==
    ASSUME TypeOK, NEW r \in BOOLEAN, TailResult(r)
    PROVE  ChainTyped'
<1>1. "release" \in Steps /\ cont \in UserAction
  BY DEF Steps, TypeOK
<1> QED
  BY <1>1, NoViewType, ScheduleType, 0 \in Nat, Zenon DEF TailResult

\* A tail that panics keeps the state well typed.
LEMMA PanicType ==
    ASSUME TypeOK, TailPanics, UNCHANGED <<admin, pool, epoch, calls, pool_ops>>
    PROVE  TypeOK'
<1> USE DEF row, money, admin
<1>1. ChainTyped'
  BY TailResultType, FALSE \in BOOLEAN, Zenon DEF TailPanics
<1> QED
  BY <1>1 DEF TailPanics, TypeOK, ChainTyped

\* [5] resolve_lock keeps the state well typed.
LEMMA ResolveLockType == TypeOK /\ ResolveLock => TypeOK'
<1> SUFFICES ASSUME TypeOK, ResolveLock PROVE TypeOK'
  OBVIOUS
<1> USE DEF row, money, admin
<1>t. /\ validator \in Validator /\ cont \in UserAction
      /\ user_validator_shares \in [Users -> Nat]
      /\ locks \in Seq(Lock)
      /\ epoch \in Nat /\ cash \in Int /\ lost \in Nat /\ owed \in Int
  BY DEF TypeOK
<1>1. ResolveLock
  OBVIOUS
<1> QED
  <2> DEFINE new == mint_shares(validator, cont.locked)
  <2>0. cont.kind = "CommitLock"
    BY <1>1 DEF ResolveLock
  <2>1. cont.buyer \in Users /\ cont.locked \in Nat /\ cont.duration \in Nat
    BY <2>0, <1>t DEF UserAction, SettleOnly, NoAction
  <2>2. new \in Nat
    BY Zenon, <2>1, <1>t, PriceTypes
  <2>3. CASE /\ internal_stake(cont.buyer, cont.locked)
             /\ locks' = Append(locks, [owner |-> cont.buyer, shares |-> new,
                                        end |-> epoch + cont.duration,
                                        status |-> "Active"])
             /\ TailResult(TRUE)
             /\ UNCHANGED <<user_pending_unstake, money, owed>>
    <3>1. validator' \in Validator
      BY Zenon, <2>3, <2>1, <2>2, <1>t, MintBurnType DEF internal_stake
    <3>2. user_validator_shares' \in [Users -> Nat]
      BY <2>3, <2>1, <2>2, <1>t DEF internal_stake
    <3>3. locks' \in Seq(Lock)
      <4>1. epoch + cont.duration \in Nat
        BY <2>1, <1>t
      <4>2. [owner |-> cont.buyer, shares |-> new, end |-> epoch + cont.duration,
             status |-> "Active"] \in Lock
        BY <2>1, <2>2, <4>1 DEF Lock
      <4> QED
        BY <2>3, <4>2, <1>t, SeqAppend
    <3>4. ChainTyped'
      BY <2>3, TailResultType, TRUE \in BOOLEAN, Zenon
    <3> QED
      BY <1>1, <2>3, <3>1, <3>2, <3>3, <3>4 DEF ResolveLock, TypeOK, ChainTyped
  <2>4. CASE TailPanics
    BY <1>1, <2>4, PanicType DEF ResolveLock
  <2> QED
    BY <1>1, <2>3, <2>4, Zenon DEF ResolveLock

\* pending_unstake_tranche_available_epoch_height is an epoch number.
LEMMA AvailableEpoch ==
    ASSUME NEW v \in Validator, epoch \in Nat
    PROVE  pending_unstake_tranche_available_epoch_height(v) \in Nat
<1> DEFINE a == epoch + 1
           b == v.last_unstake_epoch + SettleEpochs
<1>1. v.last_unstake_epoch \in Nat
  BY DEF Validator
<1>2. a \in Nat /\ b \in Nat /\ SettleEpochs \in Nat
  BY <1>1, EpochsAssumption
<1>3. pending_unstake_tranche_available_epoch_height(v) = Max2(a, b) + SettleEpochs
  BY Zenon DEF pending_unstake_tranche_available_epoch_height
<1> HIDE DEF a, b
<1>4. Max2(a, b) \in Nat
  BY <1>2, Zenon DEF Max2
<1> QED
  BY <1>2, <1>3, <1>4

\* internal_unstake queues a tranche of naturals.
LEMMA QueuedType ==
    ASSUME TypeOK, NEW u \in Users, NEW s, near_from_shares(validator, s) \in Nat,
           internal_unstake(u, s)
    PROVE  user_pending_unstake' \in [Users -> Seq(Tranche)]
<1> DEFINE near == near_from_shares(validator, s)
           t == [amount |-> near,
                 available |->
                   pending_unstake_tranche_available_epoch_height(validator)]
<1>1. pending_unstake_tranche_available_epoch_height(validator) \in Nat
  BY AvailableEpoch DEF TypeOK
<1>2. t \in Tranche
  <2> HIDE DEF near
  <2> QED
    BY <1>1 DEF Tranche, near
<1>3. user_pending_unstake'
        = [user_pending_unstake EXCEPT ![u] = Append(user_pending_unstake[u], t)]
  BY Zenon DEF internal_unstake
<1> HIDE DEF t
<1>4. Append(user_pending_unstake[u], t) \in Seq(Tranche)
  BY <1>2, SeqAppend DEF TypeOK
<1> QED
  BY Zenon, <1>3, <1>4 DEF TypeOK

\* [5] resolve_unlock keeps the state well typed.
LEMMA ResolveUnlockType == TypeOK /\ ResolveUnlock => TypeOK'
<1> SUFFICES ASSUME TypeOK, ResolveUnlock PROVE TypeOK'
  OBVIOUS
<1> USE DEF row, money, admin
<1>t. /\ validator \in Validator /\ cont \in UserAction
      /\ user_validator_shares \in [Users -> Nat]
      /\ locks \in Seq(Lock)
      /\ epoch \in Nat /\ cash \in Int /\ lost \in Nat /\ owed \in Int
  BY DEF TypeOK
<1>2. ResolveUnlock
  OBVIOUS
<1> QED
  <2>0. cont.kind = "UnlockQueueUnstake"
    BY <1>2 DEF ResolveUnlock
  <2>1. cont.account \in Users /\ cont.shares \in Nat /\ cont.lock \in Nat
    BY <2>0, <1>t DEF UserAction, SettleOnly, NoAction
  <2>2. near_from_shares(validator, cont.shares) \in Nat
    BY Zenon, <2>1, <1>t, PriceTypes
  <2>3. CASE /\ CanResolveUnlock
             /\ internal_unstake(cont.account, cont.shares)
             /\ locks' = [locks EXCEPT ![cont.lock].status = "UnlockRequested"]
             /\ TailResult(TRUE)
             /\ UNCHANGED money
    <3>1. validator' \in Validator
      BY Zenon, <2>3, <2>1, <2>2, <1>t, MintBurnType
         DEF internal_unstake, CanResolveUnlock, CanUnstake
    <3>2. user_validator_shares' \in [Users -> Nat]
      BY <2>3, <2>1, <2>2, <1>t DEF internal_unstake, CanResolveUnlock, CanUnstake
    <3>3. locks' \in Seq(Lock)
      <4>1. ASSUME NEW l \in Lock PROVE [l EXCEPT !.status = "UnlockRequested"] \in Lock
        BY DEF Lock
      <4>2. ASSUME NEW i \in 1..Len(locks) PROVE locks'[i] \in Lock
        BY <2>3, <4>1, <1>t
      <4>3. Len(locks) \in Nat /\ locks \in [1..Len(locks) -> Lock]
        BY <1>t, SeqFunction
      <4>4. locks' \in [1..Len(locks) -> Lock]
        BY Zenon, <2>3, <4>2, <4>3
      <4> QED
        BY <4>3, <4>4, FunctionSeq
    <3>4. ChainTyped'
      BY <2>3, TailResultType, TRUE \in BOOLEAN, Zenon
    <3>5. owed' \in Int
      BY <2>3, <2>2, <1>t DEF internal_unstake, TypeOK
    <3>6. user_pending_unstake' \in [Users -> Seq(Tranche)]
      BY <2>3, <2>1, <2>2, QueuedType
    <3> QED
      BY <1>2, <2>3, <3>1, <3>2, <3>3, <3>4, <3>5, <3>6
         DEF ResolveUnlock, TypeOK, ChainTyped
  <2>4. CASE TailPanics
    BY <1>2, <2>4, PanicType DEF ResolveUnlock
  <2> QED
    BY <1>2, <2>3, <2>4, Zenon DEF ResolveUnlock

\* [5] on_withdraw_user_transfer_after_settle keeps the state well typed.
LEMMA WithdrawUserTransferTailType == TypeOK /\ WithdrawUserTransferTail => TypeOK'
<1> SUFFICES ASSUME TypeOK, WithdrawUserTransferTail PROVE TypeOK'
  OBVIOUS
<1> USE DEF row, money, admin
<1>t. /\ validator \in Validator /\ cont \in UserAction
      /\ user_validator_shares \in [Users -> Nat]
      /\ locks \in Seq(Lock)
      /\ epoch \in Nat /\ cash \in Int /\ lost \in Nat /\ owed \in Int
  BY DEF TypeOK
<1>3. WithdrawUserTransferTail
  OBVIOUS
<1> QED
  <2> DEFINE credit == claimable_credit(cont.account)
  <2>1. CASE /\ credit \in 1..validator.pending_to_claim
             /\ validator' = [validator EXCEPT !.pending_to_claim = @ - credit]
             /\ user_pending_unstake' =
                  [user_pending_unstake EXCEPT ![cont.account] = kept_tranches(cont.account)]
             /\ owed' = owed - credit
             /\ TransferToUser(credit)
             /\ TailResult(TRUE)
             /\ UNCHANGED <<user_validator_shares, locks>>
    <3> HIDE DEF credit
    <3>1. credit \in Nat /\ validator' \in Validator
      <4>1. validator.pending_to_claim \in Nat
        BY <1>t DEF Validator
      <4>2. credit \in Nat /\ validator.pending_to_claim - credit \in Nat
        BY <2>1, <4>1
      <4> QED
        BY <2>1, <4>2, <1>t, Zenon DEF Validator
    <3>2. cash' \in Int /\ lost' \in Nat /\ owed' \in Int
      BY <2>1, <3>1, <1>t DEF TransferToUser
    <3>3. ChainTyped'
      BY <2>1, TailResultType, TRUE \in BOOLEAN, Zenon
    <3>4. user_pending_unstake' \in [Users -> Seq(Tranche)]
      <4>1. cont.account \in Users
        BY <1>3, <1>t DEF WithdrawUserTransferTail, UserAction, SettleOnly, NoAction
      <4>2. kept_tranches(cont.account) \in Seq(Tranche)
        BY <4>1, KeptAndTaken DEF TypeOK
      <4> QED
        BY Zenon, <2>1, <4>1, <4>2 DEF TypeOK
    <3> QED
      BY Zenon, <1>3, <2>1, <3>1, <3>2, <3>3, <3>4
         DEF WithdrawUserTransferTail, TypeOK, ChainTyped
  <2>2. CASE TailPanics
    BY <1>3, <2>2, PanicType DEF WithdrawUserTransferTail
  <2> QED
    BY <1>3, <2>1, <2>2, Zenon DEF WithdrawUserTransferTail

\* [6] the release of the row keeps the state well typed.
LEMMA PipelineReleaseType == TypeOK /\ PipelineRelease => TypeOK'
<1> SUFFICES ASSUME TypeOK, PipelineRelease PROVE TypeOK'
  OBVIOUS
<1> USE DEF row, money, admin
<1>t. /\ validator \in Validator /\ cont \in UserAction
      /\ user_validator_shares \in [Users -> Nat]
      /\ locks \in Seq(Lock)
      /\ epoch \in Nat /\ cash \in Int /\ lost \in Nat /\ owed \in Int
  BY DEF TypeOK
<1>4. PipelineRelease
  OBVIOUS
<1> QED
  <2>1. /\ validator' \in Validator /\ ChainTyped'
        /\ cash' \in Int /\ lost' \in Nat
    <3>1. CASE refund_payable_pipeline
      BY <3>1, RefundType
    <3>2. CASE /\ validator' = [validator EXCEPT !.tx_status = "Idle"]
               /\ GoTo("idle", NoAction)
               /\ UNCHANGED money
      <4>1. NoAction \in UserAction /\ "idle" \in Steps
        BY DEF UserAction, Steps
      <4>2. ChainTyped'
        BY <3>2, <4>1, GoToType, 0 \in Nat, Zenon
      <4> QED
        BY Zenon, <3>2, <4>2, <1>t DEF Validator
    <3> QED
      BY <1>4, <3>1, <3>2, Zenon DEF PipelineRelease
  <2> QED
    BY <1>4, <2>1 DEF PipelineRelease, TypeOK, ChainTyped

\* TypeOK holds in every reachable state: no bucket of the row, share balance
\* or NEAR amount of the pipeline ever underflows.
THEOREM TypeCorrect == Spec => []TypeOK
<1>1. TypeOK /\ [Next]_vars => TypeOK'
  <2> SUFFICES ASSUME TypeOK, [Next]_vars PROVE TypeOK'
    OBVIOUS
  <2>1. CASE UNCHANGED vars
    BY <2>1 DEF vars, row, chain, money, admin, TypeOK
  <2>2. CASE NoCall
    BY <2>2, <2>1 DEF NoCall
  <2> QED
    BY <2>1, <2>2, UserCallsType, AdminCallsType,
       PoolGetAccountType, PoolWithdrawType, PoolDepositAndStakeType,
       PoolUnstakeType, EpochAdvancesType,
       AfterPoolAccountType, WithdrawTransferDoneType, AfterPoolWithdrawMaybeSettleType,
       OnDepositAndStakeType, OnUnstakeType, DispatchType,
       ResolveLockType, ResolveUnlockType,
       WithdrawUserTransferTailType, PipelineReleaseType
       DEF Next, Receipt
<1> QED
  BY <1>1, InitTypeOK, PTL DEF Spec

-----------------------------------------------------------------------------
(* What the row updates do, field by field. *)

\* Fields no settlement step touches, and the two that only [3] writes.
SameIdentity(v, w) ==
    /\ w.status = v.status
    /\ w.tx_status = v.tx_status
    /\ w.total_shares = v.total_shares

\* [3] and [3a]: marking the epoch, and cancelling stake against unstake.
LEMMA NetZeroFields ==
    ASSUME NEW v \in Validator
    PROVE  LET w == apply_net_zero_pending_matched_clear(v)
               m == mark_epoch_settlement_handled(v)
           IN  /\ SameIdentity(v, w)
               /\ w.total_staked_balance = v.total_staked_balance
               /\ w.pending_to_stake = 0
               /\ w.pending_to_unstake = 0
               /\ w.pending_to_withdraw = v.pending_to_withdraw
               /\ w.pending_to_claim = v.pending_to_claim + v.pending_to_stake
               /\ w.last_unstake_epoch = v.last_unstake_epoch
               /\ w.last_settlement_epoch = epoch
               /\ SameIdentity(v, m)
               /\ m.total_staked_balance = v.total_staked_balance
               /\ m.pending_to_stake = v.pending_to_stake
               /\ m.pending_to_unstake = v.pending_to_unstake
               /\ m.pending_to_withdraw = v.pending_to_withdraw
               /\ m.pending_to_claim = v.pending_to_claim
               /\ m.last_unstake_epoch = v.last_unstake_epoch
               /\ m.last_settlement_epoch = epoch
  BY DEF apply_net_zero_pending_matched_clear, mark_epoch_settlement_handled,
         SameIdentity, Validator

\* [2b]: a pool withdraw of c moves c into the claim bucket.
LEMMA CreditFields ==
    ASSUME NEW v \in Validator, NEW c
    PROVE  LET w == credit_withdrawn(v, c)
           IN  /\ SameIdentity(v, w)
               /\ w.total_staked_balance = v.total_staked_balance - c
               /\ w.pending_to_stake = v.pending_to_stake
               /\ w.pending_to_unstake = v.pending_to_unstake
               /\ w.pending_to_withdraw = Sat(v.pending_to_withdraw, c)
               /\ w.pending_to_claim = v.pending_to_claim + c
               /\ w.last_unstake_epoch = v.last_unstake_epoch
               /\ w.last_settlement_epoch = v.last_settlement_epoch
  BY DEF credit_withdrawn, SameIdentity, Validator

\* [3b]: the net of stake over unstake went to the pool.
LEMMA SettleStakeFields ==
    ASSUME NEW v \in Validator
    PROVE  LET w == settle_stake(v)
           IN  /\ SameIdentity(v, w)
               /\ w.total_staked_balance = v.total_staked_balance
                                + (v.pending_to_stake - v.pending_to_unstake)
               /\ w.pending_to_stake = 0
               /\ w.pending_to_unstake = 0
               /\ w.pending_to_withdraw = v.pending_to_withdraw
               /\ w.pending_to_claim = v.pending_to_claim + v.pending_to_unstake
               /\ w.last_unstake_epoch = v.last_unstake_epoch
               /\ w.last_settlement_epoch = epoch
  BY DEF settle_stake, SameIdentity, Validator

\* [3c]: the net of unstake over stake is unbonding at the pool.
LEMMA SettleUnstakeFields ==
    ASSUME NEW v \in Validator
    PROVE  LET w == settle_unstake(v)
           IN  /\ SameIdentity(v, w)
               /\ w.total_staked_balance = v.total_staked_balance
               /\ w.pending_to_stake = 0
               /\ w.pending_to_unstake = 0
               /\ w.pending_to_withdraw = v.pending_to_withdraw
                                + (v.pending_to_unstake - v.pending_to_stake)
               /\ w.pending_to_claim = v.pending_to_claim + v.pending_to_stake
               /\ w.last_unstake_epoch = epoch
               /\ w.last_settlement_epoch = epoch
  BY DEF settle_unstake, SameIdentity, Validator

-----------------------------------------------------------------------------
(* The inductive invariant. *)

\* What a pool call in flight knows about the row: its amount is still the one
\* the pending buckets gave, and the refreshed balance covers a withdraw.
CallInv ==
    /\ step = "after_pool_account" /\ ok => view.total >= view.unstaked
    /\ step = "pool_withdraw" => validator.total_staked_balance >= amount
    /\ step = "withdraw_transfer_done" /\ ok =>
          validator.total_staked_balance >= amount
    /\ step \in {"pool_deposit_and_stake", "on_deposit_and_stake"} =>
          /\ amount > 0
          /\ validator.pending_to_stake = validator.pending_to_unstake + amount
    /\ step \in {"pool_unstake", "on_unstake"} =>
          /\ amount > 0
          /\ validator.pending_to_unstake = validator.pending_to_stake + amount

\* The pool operation of this epoch is either recorded on the row or waiting
\* for its callback; before it runs there was none.
OpInv ==
    /\ pool_ops <= 1
    /\ step \in {"pool_deposit_and_stake", "pool_unstake"} => pool_ops = 0
    /\ pool_ops > 0 =>
          \/ validator.last_settlement_epoch >= epoch
          \/ step \in {"on_deposit_and_stake", "on_unstake"} /\ ok

\* The pool's unlock epoch is within the wait the row has recorded, or the
\* callback that records it is pending; an unstake leaves only after the wait.
UnbondInv ==
    /\ epoch >= 1
    /\ step = "on_unstake" /\ ok => pool.available <= epoch + SettleEpochs
    /\ step = "pool_unstake" => pool.available <= epoch
    /\ \/ step = "on_unstake" /\ ok
       \/ validator.last_unstake_epoch = 0 /\ pool.available = 0
       \/ /\ validator.last_unstake_epoch > 0
          /\ pool.available <= validator.last_unstake_epoch + SettleEpochs

IInv ==
    /\ BusyIffInFlight
    /\ CallInv
    /\ OpInv
    /\ LiabilityCovered
    /\ Solvent
    /\ PoolEpochs <= SettleEpochs => UnbondInv

\* The row keeps its balances and epochs.
SameBooks ==
    /\ validator'.total_staked_balance = validator.total_staked_balance
    /\ validator'.pending_to_stake = validator.pending_to_stake
    /\ validator'.pending_to_unstake = validator.pending_to_unstake
    /\ validator'.pending_to_withdraw = validator.pending_to_withdraw
    /\ validator'.pending_to_claim = validator.pending_to_claim
    /\ validator'.last_unstake_epoch = validator.last_unstake_epoch
    /\ validator'.last_settlement_epoch = validator.last_settlement_epoch

\* The numbers the invariant speaks about.
LEMMA Numbers ==
    ASSUME TypeOK
    PROVE  /\ validator.total_staked_balance \in Nat
           /\ validator.pending_to_stake \in Nat
           /\ validator.pending_to_unstake \in Nat
           /\ validator.pending_to_withdraw \in Nat
           /\ validator.pending_to_claim \in Nat
           /\ validator.last_unstake_epoch \in Nat
           /\ validator.last_settlement_epoch \in Nat
           /\ validator.tx_status \in {"Idle", "Busy"}
           /\ amount \in Nat /\ epoch \in Nat /\ cash \in Int
           /\ owed \in Int /\ lost \in Nat /\ pool_ops \in Nat
           /\ pool.staked \in Nat /\ pool.unstaked \in Nat
           /\ pool.available \in Nat
           /\ view.total \in Nat /\ view.unstaked \in Nat
           /\ payable_refund(cont) \in Nat
<1>1. payable_refund(cont) \in Nat
  BY DEF TypeOK, UserAction, payable_refund, SettleOnly, NoAction
<1>2. view.total \in Nat /\ view.unstaked \in Nat
  BY DEF TypeOK, PoolView
<1> QED
  BY <1>1, <1>2 DEF TypeOK, Validator, PoolAccount

\* The invariant holds of add_validator's row.
LEMMA InitIInv == Init => IInv
<1> SUFFICES ASSUME Init PROVE IInv
  OBVIOUS
<1>1. BusyIffInFlight /\ CallInv /\ OpInv /\ UnbondInv
  BY DEF Init, BusyIffInFlight, CallInv, OpInv, UnbondInv
<1>2. LiabilityCovered
  BY DEF Init, LiabilityCovered, pending_user_liability, pending_not_in_contract
<1>3. Solvent
  BY DEF Init, Solvent, UnbookedAtPool, UnbookedFromPool, Escrow
<1> QED
  BY <1>1, <1>2, <1>3 DEF IInv

\* [0] preserves the invariant: the entry's deposit becomes the escrow.
LEMMA BeginSafe ==
    ASSUME TypeOK, IInv, NEW c \in UserAction, BeginPipeline(c),
           cash' = cash + payable_refund(c),
           UNCHANGED <<lost, pool, epoch, owed, pool_ops>>
    PROVE  IInv'
<1>1. SameBooks /\ validator.tx_status = "Idle" /\ validator'.tx_status = "Busy"
  BY DEF TypeOK, BeginPipeline, Validator, SameBooks
<1>2. step = "idle"
  BY <1>1 DEF IInv, BusyIffInFlight
<1>3. /\ cont' = c /\ amount' = 0 /\ ok'
      /\ step' \in {"release", "tail", "pool_get_account"}
      /\ step' = "release" => c.kind = "SettleOnly"
  BY DEF BeginPipeline, DispatchContinue, GoTo, Schedule
<1>4. payable_refund(c) \in Nat /\ (c.kind = "SettleOnly" => payable_refund(c) = 0)
  BY DEF UserAction, payable_refund, SettleOnly, NoAction
<1>5. BusyIffInFlight' /\ CallInv' /\ OpInv'
  BY <1>1, <1>2, <1>3 DEF IInv, BusyIffInFlight, CallInv, OpInv, SameBooks
<1>6. LiabilityCovered'
  BY <1>1 DEF IInv, LiabilityCovered, pending_user_liability,
              pending_not_in_contract, SameBooks
<1>7. Solvent'
  BY <1>1, <1>2, <1>3, <1>4, Numbers
     DEF IInv, Solvent, UnbookedAtPool, UnbookedFromPool, Escrow, SameBooks
<1>8. (PoolEpochs <= SettleEpochs => UnbondInv)'
  BY <1>1, <1>2, <1>3 DEF IInv, UnbondInv, SameBooks
<1> QED
  BY <1>5, <1>6, <1>7, <1>8 DEF IInv

\* [3] preserves the invariant.  v is the row with a refreshed pool balance.
LEMMA TrySafe ==
    ASSUME TypeOK, IInv, NEW n \in Nat,
           NEW v, v = [validator EXCEPT !.total_staked_balance = n],
           step \in {"after_pool_account", "maybe_settle"},
           try_epoch_stake_or_unstake(v),
           UNCHANGED <<lost, pool, epoch, owed, pool_ops>>
    PROVE  IInv'
<1> DEFINE ps == validator.pending_to_stake
           pu == validator.pending_to_unstake
<1>1. /\ v \in Validator
      /\ v.pending_to_stake = ps /\ v.pending_to_unstake = pu
      /\ v.pending_to_withdraw = validator.pending_to_withdraw
      /\ v.pending_to_claim = validator.pending_to_claim
      /\ v.last_unstake_epoch = validator.last_unstake_epoch
      /\ v.last_settlement_epoch = validator.last_settlement_epoch
      /\ v.tx_status = validator.tx_status
  BY Zenon DEF TypeOK, Validator
<1>2. validator.tx_status = "Busy"
  BY DEF IInv, BusyIffInFlight
<1>d. ASSUME DispatchContinue(cont)
      PROVE  /\ cont' = cont /\ amount' = 0 /\ ok'
             /\ step' \in {"release", "tail"}
             /\ step' = "release" => payable_refund(cont) = 0
  BY <1>d DEF DispatchContinue, GoTo, Schedule, payable_refund
<1>c. ASSUME NEW s, NEW a, CallPool(s, a)
      PROVE  step' = s /\ amount' = a /\ cont' = cont
  BY <1>c DEF CallPool, Schedule
<1>3. CASE /\ validator' = v \/ validator' = mark_epoch_settlement_handled(v)
           /\ DispatchContinue(cont)
           /\ UNCHANGED cash
  <2>1. /\ validator'.tx_status = "Busy"
        /\ validator'.pending_to_stake = ps
        /\ validator'.pending_to_unstake = pu
        /\ validator'.pending_to_withdraw = validator.pending_to_withdraw
        /\ validator'.pending_to_claim = validator.pending_to_claim
        /\ validator'.last_unstake_epoch = validator.last_unstake_epoch
        /\ \/ validator'.last_settlement_epoch = validator.last_settlement_epoch
           \/ validator'.last_settlement_epoch = epoch
    BY ZenonT(30), <1>1, <1>2, <1>3, NetZeroFields DEF SameIdentity
  <2>2. BusyIffInFlight' /\ CallInv' /\ OpInv'
    BY <1>3, <1>d, <2>1, Numbers DEF IInv, BusyIffInFlight, CallInv, OpInv
  <2>3. LiabilityCovered'
    BY <2>1
         DEF IInv, LiabilityCovered, pending_user_liability, pending_not_in_contract
  <2>4. Solvent'
    BY <1>3, <1>d, <2>1, Numbers
      
         DEF IInv, Solvent, UnbookedAtPool, UnbookedFromPool, Escrow
  <2>5. (PoolEpochs <= SettleEpochs => UnbondInv)'
    BY <1>3, <1>d, <2>1 DEF IInv, UnbondInv
  <2> QED
    BY <2>2, <2>3, <2>4, <2>5 DEF IInv
<1>4. CASE /\ ps = pu
           /\ validator' = apply_net_zero_pending_matched_clear(v)
           /\ DispatchContinue(cont)
           /\ UNCHANGED cash
  <2>1. /\ validator'.tx_status = "Busy"
        /\ validator'.pending_to_stake = 0
        /\ validator'.pending_to_unstake = 0
        /\ validator'.pending_to_withdraw = validator.pending_to_withdraw
        /\ validator'.pending_to_claim = validator.pending_to_claim + ps
        /\ validator'.last_unstake_epoch = validator.last_unstake_epoch
        /\ validator'.last_settlement_epoch = epoch
    BY Zenon, <1>1, <1>2, <1>4, NetZeroFields DEF SameIdentity
  <2>2. BusyIffInFlight' /\ CallInv' /\ OpInv'
    BY <1>4, <1>d, <2>1, Numbers DEF IInv, BusyIffInFlight, CallInv, OpInv
  <2>3. LiabilityCovered'
    BY <1>4, <2>1, Numbers
      
         DEF IInv, LiabilityCovered, pending_user_liability, pending_not_in_contract
  <2>4. Solvent'
    BY <1>4, <1>d, <2>1, Numbers
      
         DEF IInv, Solvent, UnbookedAtPool, UnbookedFromPool, Escrow
  <2>5. (PoolEpochs <= SettleEpochs => UnbondInv)'
    BY <1>4, <1>d, <2>1 DEF IInv, UnbondInv
  <2> QED
    BY <2>2, <2>3, <2>4, <2>5 DEF IInv
<1>5. CASE /\ validator.last_settlement_epoch < epoch /\ ps > pu
           /\ validator' = v
           /\ CallPool("pool_deposit_and_stake", ps - pu)
           /\ cash' = cash - (ps - pu)
  <2>1. step' = "pool_deposit_and_stake" /\ amount' = ps - pu /\ cont' = cont
    BY <1>5, <1>c
  <2>2. BusyIffInFlight' /\ CallInv' /\ OpInv'
    BY <1>1, <1>2, <1>5, <2>1, Numbers DEF IInv, BusyIffInFlight, CallInv, OpInv
  <2>3. LiabilityCovered'
    BY <1>1, <1>5
         DEF IInv, LiabilityCovered, pending_user_liability, pending_not_in_contract
  <2>4. Solvent'
    BY <1>1, <1>5, <2>1, Numbers
      
         DEF IInv, Solvent, UnbookedAtPool, UnbookedFromPool, Escrow
  <2>5. (PoolEpochs <= SettleEpochs => UnbondInv)'
    BY <1>1, <1>5, <2>1 DEF IInv, UnbondInv
  <2> QED
    BY <2>2, <2>3, <2>4, <2>5 DEF IInv
<1>6. CASE /\ validator.last_settlement_epoch < epoch /\ pu > ps
           /\ v.last_unstake_epoch > 0 => validator_unstake_waiting_finished(v)
           /\ validator' = v
           /\ CallPool("pool_unstake", pu - ps)
           /\ UNCHANGED cash
  <2>1. step' = "pool_unstake" /\ amount' = pu - ps /\ cont' = cont
    BY <1>6, <1>c
  <2>2. BusyIffInFlight' /\ CallInv' /\ OpInv'
    BY <1>1, <1>2, <1>6, <2>1, Numbers DEF IInv, BusyIffInFlight, CallInv, OpInv
  <2>3. LiabilityCovered'
    BY <1>1, <1>6
         DEF IInv, LiabilityCovered, pending_user_liability, pending_not_in_contract
  <2>4. Solvent'
    BY <1>1, <1>6, <2>1, Numbers
      
         DEF IInv, Solvent, UnbookedAtPool, UnbookedFromPool, Escrow
  <2>5. (PoolEpochs <= SettleEpochs => UnbondInv)'
    BY <1>1, <1>6, <2>1, Numbers, EpochsAssumption
       DEF IInv, UnbondInv, validator_unstake_waiting_finished
  <2> QED
    BY <2>2, <2>3, <2>4, <2>5 DEF IInv
<1> QED
  BY <1>1, <1>3, <1>4, <1>5, <1>6 DEF try_epoch_stake_or_unstake

\* Refunding the deposit and releasing the row ([1] and [6]) preserves it.
LEMMA RefundSafe ==
    ASSUME TypeOK, IInv, refund_payable_pipeline,
           step \in {"after_pool_account", "release"}, ~ok,
           UNCHANGED <<pool, epoch, owed, pool_ops>>
    PROVE  IInv'
<1>1. SameBooks /\ validator'.tx_status = "Idle"
  BY DEF TypeOK, refund_payable_pipeline, Validator, SameBooks
<1>2. step' = "idle" /\ amount' = 0
  BY DEF refund_payable_pipeline, GoTo, Schedule
<1>3. BusyIffInFlight' /\ CallInv' /\ OpInv'
  BY <1>1, <1>2 DEF IInv, BusyIffInFlight, CallInv, OpInv, SameBooks
<1>4. LiabilityCovered'
  BY <1>1 DEF IInv, LiabilityCovered, pending_user_liability,
              pending_not_in_contract, SameBooks
<1>5. Solvent'
  BY <1>1, <1>2, Numbers
     DEF IInv, Solvent, UnbookedAtPool, UnbookedFromPool, Escrow, SameBooks,
         refund_payable_pipeline, TransferToUser
<1>6. (PoolEpochs <= SettleEpochs => UnbondInv)'
  BY <1>1, <1>2 DEF IInv, UnbondInv, SameBooks
<1> QED
  BY <1>3, <1>4, <1>5, <1>6 DEF IInv

\* Users' calls preserve the invariant.
LEMMA UserCallsSafe == TypeOK /\ IInv /\ UserCalls => IInv'
<1> SUFFICES ASSUME TypeOK, IInv, UserCalls PROVE IInv'
  OBVIOUS
<1> USE DEF money
<1>0. cash \in Int
  BY DEF TypeOK
<1>1. ASSUME NEW u \in Users, NEW a \in LockAmounts, NEW d \in Durations,
             lock(u, a, d)
      PROVE  IInv'
  <2>1. CommitLock(u, a, d) \in UserAction /\ payable_refund(CommitLock(u, a, d)) = a
    BY AmountsAssumption DEF CommitLock, UserAction, payable_refund
  <2> QED
    BY <1>1, <2>1, BeginSafe DEF lock
<1>2. ASSUME NEW u \in Users, NEW l \in 1..Len(locks), unlock(u, l)
      PROVE  IInv'
  <2> DEFINE c == UnlockQueueUnstake(u, l, locks[l].shares)
  <2>1. locks[l] \in Lock /\ l \in Nat
    BY DEF TypeOK
  <2>2. c \in UserAction /\ payable_refund(c) = 0
    BY <2>1 DEF UnlockQueueUnstake, UserAction, payable_refund, Lock
  <2> QED
    BY <1>2, <2>2, <1>0, BeginSafe DEF unlock
<1>3. ASSUME NEW u \in Users, withdraw(u)
      PROVE  IInv'
  <2>1. /\ WithdrawUserTransfer(u) \in UserAction
        /\ payable_refund(WithdrawUserTransfer(u)) = 0
    BY Zenon DEF WithdrawUserTransfer, UserAction, payable_refund
  <2> QED
    BY <1>3, <2>1, <1>0, BeginSafe DEF withdraw
<1>4. ASSUME epoch_settle
      PROVE  IInv'
  <2>1. SettleOnly \in UserAction /\ payable_refund(SettleOnly) = 0
    BY DEF SettleOnly, UserAction, payable_refund
  <2> QED
    BY <1>4, <2>1, <1>0, BeginSafe DEF epoch_settle
<1> QED
  BY <1>1, <1>2, <1>3, <1>4 DEF UserCalls

\* Administrative calls and stuttering leave everything the invariant reads.
LEMMA QuietSafe ==
    ASSUME TypeOK, IInv, SameBooks, validator'.tx_status = validator.tx_status,
           UNCHANGED <<chain, money, pool, epoch, owed, pool_ops>>
    PROVE  IInv'
<1> USE DEF chain, money
<1>1. BusyIffInFlight' /\ CallInv' /\ OpInv'
  BY DEF IInv, BusyIffInFlight, CallInv, OpInv, SameBooks
<1>2. LiabilityCovered'
  BY DEF IInv, LiabilityCovered, pending_user_liability, pending_not_in_contract, SameBooks
<1>3. Solvent'
  BY DEF IInv, Solvent, UnbookedAtPool, UnbookedFromPool, Escrow, SameBooks, payable_refund
<1>4. (PoolEpochs <= SettleEpochs => UnbondInv)'
  BY Zenon DEF IInv, UnbondInv, SameBooks
<1> QED
  BY <1>1, <1>2, <1>3, <1>4 DEF IInv

\* pause, unpause, archive, unarchive, pause_validator and remove_validator.
LEMMA AdminCallsSafe == TypeOK /\ IInv /\ AdminCalls => IInv'
<1> SUFFICES ASSUME TypeOK, IInv, AdminCalls PROVE IInv'
  OBVIOUS
<1>1. SameBooks /\ validator'.tx_status = validator.tx_status
  BY Zenon DEF AdminCalls, pause, unpause, archive_price, unarchive_price,
         pause_validator, remove_validator, row, SameBooks, TypeOK, Validator
<1>2. UNCHANGED <<chain, money, pool, epoch, owed, pool_ops>>
  BY DEF AdminCalls, pause, unpause, archive_price, unarchive_price,
         pause_validator, remove_validator
<1> QED
  BY <1>1, <1>2, QuietSafe

\* get_account at the pool preserves the invariant.
LEMMA PoolGetAccountSafe == TypeOK /\ IInv /\ PoolGetAccount => IInv'
<1> SUFFICES ASSUME TypeOK, IInv, PoolGetAccount PROVE IInv'
  OBVIOUS
<1> USE DEF row, money, chain
<1>1. PoolGetAccount
  OBVIOUS
<1> QED
  <2>1. step' = "after_pool_account" /\ amount' = 0 /\ cont' = cont
    BY Zenon, <1>1 DEF PoolGetAccount, Schedule
  <2>2. ok' => view'.total >= view'.unstaked
    BY SMTT(30), <1>1, Numbers DEF PoolGetAccount, Schedule
  <2>3. BusyIffInFlight' /\ CallInv' /\ OpInv'
    BY Zenon, <1>1, <2>1, <2>2 DEF PoolGetAccount, IInv, BusyIffInFlight, CallInv, OpInv
  <2>4. LiabilityCovered'
    BY Zenon, <1>1 DEF PoolGetAccount, IInv, LiabilityCovered, pending_user_liability, pending_not_in_contract
  <2>5. Solvent'
    BY Zenon, <1>1, <2>1, Numbers DEF PoolGetAccount, IInv, Solvent, UnbookedAtPool, UnbookedFromPool, Escrow
  <2>6. (PoolEpochs <= SettleEpochs => UnbondInv)'
    BY Zenon, <1>1, <2>1 DEF PoolGetAccount, IInv, UnbondInv
  <2> QED
    BY <2>3, <2>4, <2>5, <2>6 DEF IInv

\* withdraw at the pool preserves the invariant.
LEMMA PoolWithdrawSafe == TypeOK /\ IInv /\ PoolWithdraw => IInv'
<1> SUFFICES ASSUME TypeOK, IInv, PoolWithdraw PROVE IInv'
  OBVIOUS
<1> USE DEF row, money, chain
<1>2. PoolWithdraw
  OBVIOUS
<1> QED
  <2>1. /\ step' = "withdraw_transfer_done" /\ amount' = amount /\ cont' = cont
        /\ pool'.available = pool.available
        /\ ok' => cash' = cash + amount
        /\ ~ok' => cash' = cash
    BY <1>2 DEF PoolWithdraw, PoolReplies, Schedule, TypeOK, PoolAccount
  <2>3. BusyIffInFlight' /\ CallInv' /\ OpInv'
    BY <1>2, <2>1 DEF PoolWithdraw, IInv, BusyIffInFlight, CallInv, OpInv
  <2>4. LiabilityCovered'
    BY <1>2 DEF PoolWithdraw, IInv, LiabilityCovered, pending_user_liability, pending_not_in_contract
  <2>5. Solvent'
    BY <1>2, <2>1, Numbers DEF PoolWithdraw, IInv, Solvent, UnbookedAtPool, UnbookedFromPool, Escrow
  <2>6. (PoolEpochs <= SettleEpochs => UnbondInv)'
    BY <1>2, <2>1 DEF PoolWithdraw, IInv, UnbondInv
  <2> QED
    BY <2>3, <2>4, <2>5, <2>6 DEF IInv

\* deposit_and_stake at the pool preserves the invariant.
LEMMA PoolDepositAndStakeSafe == TypeOK /\ IInv /\ PoolDepositAndStake => IInv'
<1> SUFFICES ASSUME TypeOK, IInv, PoolDepositAndStake PROVE IInv'
  OBVIOUS
<1> USE DEF row, money, chain
<1>3. PoolDepositAndStake
  OBVIOUS
<1> QED
  <2>1. /\ step' = "on_deposit_and_stake" /\ amount' = amount /\ cont' = cont
        /\ pool'.available = pool.available
        /\ ok' => cash' = cash /\ pool_ops' = pool_ops + 1
        /\ ~ok' => cash' = cash + amount /\ pool_ops' = pool_ops
    BY <1>3 DEF PoolDepositAndStake, PoolReplies, Schedule, TypeOK, PoolAccount
  <2>3. BusyIffInFlight' /\ CallInv' /\ OpInv'
    BY <1>3, <2>1, Numbers
       DEF PoolDepositAndStake, IInv, BusyIffInFlight, CallInv, OpInv
  <2>4. LiabilityCovered'
    BY <1>3 DEF PoolDepositAndStake, IInv, LiabilityCovered, pending_user_liability, pending_not_in_contract
  <2>5. Solvent'
    BY <1>3, <2>1, Numbers DEF PoolDepositAndStake, IInv, Solvent, UnbookedAtPool, UnbookedFromPool, Escrow
  <2>6. (PoolEpochs <= SettleEpochs => UnbondInv)'
    BY <1>3, <2>1 DEF PoolDepositAndStake, IInv, UnbondInv
  <2> QED
    BY <2>3, <2>4, <2>5, <2>6 DEF IInv

\* unstake at the pool preserves the invariant.
LEMMA PoolUnstakeSafe == TypeOK /\ IInv /\ PoolUnstake => IInv'
<1> SUFFICES ASSUME TypeOK, IInv, PoolUnstake PROVE IInv'
  OBVIOUS
<1> USE DEF row, money, chain
<1>4. PoolUnstake
  OBVIOUS
<1> QED
  <2>1. /\ step' = "on_unstake" /\ amount' = amount /\ cont' = cont
        /\ ok' => pool'.available = epoch + PoolEpochs /\ pool_ops' = pool_ops + 1
        /\ ~ok' => pool' = pool /\ pool_ops' = pool_ops
    BY <1>4 DEF PoolUnstake, PoolReplies, Schedule
  <2>3. BusyIffInFlight' /\ CallInv' /\ OpInv'
    BY <1>4, <2>1, Numbers DEF PoolUnstake, IInv, BusyIffInFlight, CallInv, OpInv
  <2>4. LiabilityCovered'
    BY <1>4 DEF PoolUnstake, IInv, LiabilityCovered, pending_user_liability, pending_not_in_contract
  <2>5. Solvent'
    BY <1>4, <2>1, Numbers DEF PoolUnstake, IInv, Solvent, UnbookedAtPool, UnbookedFromPool, Escrow
  <2>6. (PoolEpochs <= SettleEpochs => UnbondInv)'
    BY <1>4, <2>1, Numbers, EpochsAssumption DEF PoolUnstake, IInv, UnbondInv
  <2> QED
    BY <2>3, <2>4, <2>5, <2>6 DEF IInv

\* The next epoch preserves the invariant.
LEMMA EpochAdvancesSafe == TypeOK /\ IInv /\ EpochAdvances => IInv'
<1> SUFFICES ASSUME TypeOK, IInv, EpochAdvances PROVE IInv'
  OBVIOUS
<1> USE DEF row, money, chain
<1>5. EpochAdvances
  OBVIOUS
<1> QED
  <2>1. /\ epoch' = epoch + 1 /\ pool_ops' = 0
        /\ pool'.available = pool.available
    BY <1>5 DEF EpochAdvances, TypeOK, PoolAccount
  <2>3. BusyIffInFlight' /\ CallInv' /\ OpInv'
    BY <1>5, <2>1 DEF EpochAdvances, IInv, BusyIffInFlight, CallInv, OpInv
  <2>4. LiabilityCovered'
    BY <1>5 DEF EpochAdvances, IInv, LiabilityCovered, pending_user_liability, pending_not_in_contract
  <2>5. Solvent'
    BY <1>5, <2>1 DEF EpochAdvances, IInv, Solvent, UnbookedAtPool, UnbookedFromPool, Escrow
  <2>6. (PoolEpochs <= SettleEpochs => UnbondInv)'
    BY <1>5, <2>1, Numbers, EpochsAssumption DEF EpochAdvances, IInv, UnbondInv
  <2> QED
    BY <2>3, <2>4, <2>5, <2>6 DEF IInv

-----------------------------------------------------------------------------
(* The receipts of the contract preserve the invariant. *)

\* Where a chain goes that makes no pool call.
LEMMA GoToEffect ==
    ASSUME NEW s, GoTo(s, cont)
    PROVE  step' = s /\ cont' = cont /\ amount' = 0 /\ ok'
  BY DEF GoTo, Schedule

\* Where [4] sends the chain: to a tail, or to the release if there is none.
LEMMA DispatchEffect ==
    ASSUME DispatchContinue(cont)
    PROVE  /\ cont' = cont /\ amount' = 0 /\ ok'
           /\ step' \in {"release", "tail"}
           /\ step' = "release" => payable_refund(cont) = 0
  BY DEF DispatchContinue, GoTo, Schedule, payable_refund

\* [1] on_epoch_settlement_after_pool_account preserves the invariant.
LEMMA AfterPoolAccountSafe == TypeOK /\ IInv /\ AfterPoolAccount => IInv'
<1> SUFFICES ASSUME TypeOK, IInv, AfterPoolAccount PROVE IInv'
  OBVIOUS
<1> USE DEF row, money
<1>v. validator \in Validator /\ cash \in Int
  BY DEF TypeOK
<1>1. AfterPoolAccount
  OBVIOUS
<1> QED
  <2> DEFINE v == [validator EXCEPT !.total_staked_balance = view.total]
  <2>0. step = "after_pool_account" /\ UNCHANGED <<pool, epoch, owed, pool_ops>>
    BY <1>1 DEF AfterPoolAccount
  <2>1. CASE ~ok /\ refund_payable_pipeline
    BY <2>0, <2>1, RefundSafe
  <2>2. CASE /\ payable_refund(cont) = 0 /\ GoTo("release", cont)
             /\ UNCHANGED <<validator, money>>
    <3>1. step' = "release" /\ amount' = 0 /\ ok' /\ cont' = cont
      BY <2>2, GoToEffect
    <3>2. BusyIffInFlight' /\ CallInv' /\ OpInv'
      BY <2>0, <2>2, <3>1 DEF IInv, BusyIffInFlight, CallInv, OpInv
    <3>3. LiabilityCovered'
      BY <2>0, <2>2
         DEF IInv, LiabilityCovered, pending_user_liability, pending_not_in_contract
    <3>4. Solvent'
      BY <2>0, <2>2, <3>1, Numbers
         DEF IInv, Solvent, UnbookedAtPool, UnbookedFromPool, Escrow
    <3>5. (PoolEpochs <= SettleEpochs => UnbondInv)'
      BY <2>0, <2>2, <3>1 DEF IInv, UnbondInv
    <3> QED
      BY <3>2, <3>3, <3>4, <3>5 DEF IInv
  <2>3. CASE /\ ok /\ validator' = v
             /\ CallPool("pool_withdraw", view.unstaked)
             /\ UNCHANGED cash /\ UNCHANGED lost
    <3>1. step' = "pool_withdraw" /\ amount' = view.unstaked /\ cont' = cont
      BY <2>3 DEF CallPool, Schedule
    <3>2. /\ validator'.total_staked_balance = view.total
          /\ validator'.tx_status = validator.tx_status
          /\ validator'.pending_to_stake = validator.pending_to_stake
          /\ validator'.pending_to_unstake = validator.pending_to_unstake
          /\ validator'.pending_to_withdraw = validator.pending_to_withdraw
          /\ validator'.pending_to_claim = validator.pending_to_claim
          /\ validator'.last_unstake_epoch = validator.last_unstake_epoch
          /\ validator'.last_settlement_epoch = validator.last_settlement_epoch
      BY <2>3, <1>v DEF Validator
    <3>3. BusyIffInFlight' /\ CallInv' /\ OpInv'
      BY <2>0, <2>3, <3>1, <3>2 DEF IInv, BusyIffInFlight, CallInv, OpInv
    <3>4. LiabilityCovered'
      BY <2>0, <3>2
         DEF IInv, LiabilityCovered, pending_user_liability, pending_not_in_contract
    <3>5. Solvent'
      BY <2>0, <2>3, <3>1, <3>2, Numbers
         DEF IInv, Solvent, UnbookedAtPool, UnbookedFromPool, Escrow
    <3>6. (PoolEpochs <= SettleEpochs => UnbondInv)'
      BY <2>0, <3>1, <3>2 DEF IInv, UnbondInv
    <3> QED
      BY <3>3, <3>4, <3>5, <3>6 DEF IInv
  <2>4. CASE try_epoch_stake_or_unstake(v) /\ UNCHANGED lost
    BY <2>0, <2>4, Numbers, TrySafe
  <2> QED
    BY <1>1, <2>1, <2>2, <2>3, <2>4, Zenon DEF AfterPoolAccount

\* [2b] on_epoch_withdraw_transfer_done preserves the invariant.
LEMMA WithdrawTransferDoneSafe == TypeOK /\ IInv /\ WithdrawTransferDone => IInv'
<1> SUFFICES ASSUME TypeOK, IInv, WithdrawTransferDone PROVE IInv'
  OBVIOUS
<1> USE DEF row, money
<1>v. validator \in Validator /\ cash \in Int
  BY DEF TypeOK
<1>2. WithdrawTransferDone
  OBVIOUS
<1> QED
  <2>1. /\ step = "withdraw_transfer_done" /\ step' = "maybe_settle"
        /\ cont' = cont /\ amount' = 0
        /\ UNCHANGED <<cash, lost, pool, epoch, owed, pool_ops>>
    BY <1>2 DEF WithdrawTransferDone
  <2>2. CASE ok
    <3>1. validator' = credit_withdrawn(validator, amount)
      BY <1>2, <2>1, <2>2 DEF WithdrawTransferDone, IInv, CallInv
    <3>2. BusyIffInFlight' /\ CallInv' /\ OpInv'
      BY <1>v, <2>1, <3>1, CreditFields
         DEF IInv, BusyIffInFlight, CallInv, OpInv, SameIdentity
    <3>3. LiabilityCovered'
      BY <1>v, <2>1, <3>1, CreditFields, Numbers DEF IInv, LiabilityCovered, pending_user_liability, pending_not_in_contract, Sat
    <3>4. Solvent'
      BY <1>v, <2>1, <2>2, <3>1, CreditFields, Numbers
         DEF IInv, Solvent, UnbookedAtPool, UnbookedFromPool, Escrow
    <3>5. (PoolEpochs <= SettleEpochs => UnbondInv)'
      BY <1>v, <2>1, <3>1, CreditFields DEF IInv, UnbondInv
    <3> QED
      BY <3>2, <3>3, <3>4, <3>5 DEF IInv
  <2>3. CASE ~ok
    <3>1. validator' = validator
      BY <1>2, <2>3 DEF WithdrawTransferDone
    <3>2. BusyIffInFlight' /\ CallInv' /\ OpInv'
      BY <2>1, <3>1 DEF IInv, BusyIffInFlight, CallInv, OpInv
    <3>3. LiabilityCovered'
      BY <2>1, <3>1
         DEF IInv, LiabilityCovered, pending_user_liability, pending_not_in_contract
    <3>4. Solvent'
      BY <2>1, <2>3, <3>1, Numbers
         DEF IInv, Solvent, UnbookedAtPool, UnbookedFromPool, Escrow
    <3>5. (PoolEpochs <= SettleEpochs => UnbondInv)'
      BY <2>1, <3>1 DEF IInv, UnbondInv
    <3> QED
      BY <3>2, <3>3, <3>4, <3>5 DEF IInv
  <2> QED
    BY <2>2, <2>3

\* [2c] on_after_pool_withdraw_maybe_settle preserves the invariant.
LEMMA AfterPoolWithdrawMaybeSettleSafe == TypeOK /\ IInv /\ AfterPoolWithdrawMaybeSettle => IInv'
<1> SUFFICES ASSUME TypeOK, IInv, AfterPoolWithdrawMaybeSettle PROVE IInv'
  OBVIOUS
<1> USE DEF row, money
<1>v. validator \in Validator /\ cash \in Int
  BY DEF TypeOK
<1>3. AfterPoolWithdrawMaybeSettle
  OBVIOUS
<1> QED
  <2>0. step = "maybe_settle" /\ UNCHANGED <<lost, pool, epoch, owed, pool_ops>>
    BY <1>3 DEF AfterPoolWithdrawMaybeSettle
  <2>1. CASE try_epoch_stake_or_unstake(validator)
    <3>1. validator = [validator EXCEPT !.total_staked_balance = validator.total_staked_balance]
      BY <1>v DEF Validator
    <3> QED
      BY <2>0, <2>1, <3>1, Numbers, TrySafe
  <2>2. CASE DispatchContinue(cont) /\ UNCHANGED <<validator, cash>>
    <3>2. BusyIffInFlight' /\ CallInv' /\ OpInv'
      BY <2>0, <2>2, DispatchEffect DEF IInv, BusyIffInFlight, CallInv, OpInv
    <3>3. LiabilityCovered'
      BY <2>0, <2>2
         DEF IInv, LiabilityCovered, pending_user_liability, pending_not_in_contract
    <3>4. Solvent'
      BY <2>0, <2>2, DispatchEffect, Numbers
         DEF IInv, Solvent, UnbookedAtPool, UnbookedFromPool, Escrow
    <3>5. (PoolEpochs <= SettleEpochs => UnbondInv)'
      BY <2>0, <2>2, DispatchEffect DEF IInv, UnbondInv
    <3> QED
      BY <3>2, <3>3, <3>4, <3>5 DEF IInv
  <2> QED
    BY <1>3, <2>1, <2>2 DEF AfterPoolWithdrawMaybeSettle

\* [3b] on_deposit_and_stake preserves the invariant.
LEMMA OnDepositAndStakeSafe == TypeOK /\ IInv /\ OnDepositAndStake => IInv'
<1> SUFFICES ASSUME TypeOK, IInv, OnDepositAndStake PROVE IInv'
  OBVIOUS
<1> USE DEF row, money
<1>v. validator \in Validator /\ cash \in Int
  BY DEF TypeOK
<1>4. OnDepositAndStake
  OBVIOUS
<1> QED
  <2>1. /\ step = "on_deposit_and_stake" /\ step' = "dispatch"
        /\ cont' = cont /\ amount' = 0
        /\ UNCHANGED <<cash, lost, pool, epoch, owed, pool_ops>>
    BY <1>4, GoToEffect DEF OnDepositAndStake
  <2>2. CASE ok
    <3>1. validator' = settle_stake(validator)
      BY <1>4, <2>1, <2>2, Numbers DEF OnDepositAndStake, IInv, CallInv
    <3>2. BusyIffInFlight' /\ CallInv' /\ OpInv'
      BY <1>v, <2>1, <3>1, SettleStakeFields, Numbers
         DEF IInv, BusyIffInFlight, CallInv, OpInv, SameIdentity
    <3>3. LiabilityCovered'
      BY <1>v, <2>1, <3>1, SettleStakeFields, Numbers
         DEF IInv, LiabilityCovered, pending_user_liability, pending_not_in_contract
    <3>4. Solvent'
      <4>1. cash + amount = validator.pending_to_stake
                            + validator.pending_to_claim + payable_refund(cont) + lost
        BY <2>1, <2>2, Numbers
           DEF IInv, Solvent, UnbookedAtPool, UnbookedFromPool, Escrow
      <4>2. /\ validator.pending_to_stake = validator.pending_to_unstake + amount
            /\ validator'.pending_to_stake = 0
            /\ validator'.pending_to_claim
                 = validator.pending_to_claim + validator.pending_to_unstake
        BY <1>v, <2>1, <3>1, SettleStakeFields DEF IInv, CallInv
      <4>3. /\ UnbookedAtPool' = 0 /\ UnbookedFromPool' = 0
            /\ Escrow' = payable_refund(cont)
        BY <2>1 DEF UnbookedAtPool, UnbookedFromPool, Escrow
      <4>4. /\ cash \in Int /\ amount \in Nat /\ lost \in Nat
            /\ payable_refund(cont) \in Nat
            /\ validator.pending_to_claim \in Nat
            /\ validator.pending_to_unstake \in Nat
        BY Numbers
      <4>5. cash' = cash /\ lost' = lost
        BY <2>1
      <4> QED
        BY <4>1, <4>2, <4>3, <4>4, <4>5 DEF Solvent
    <3>5. (PoolEpochs <= SettleEpochs => UnbondInv)'
      BY <1>v, <2>1, <3>1, SettleStakeFields DEF IInv, UnbondInv
    <3> QED
      BY <3>2, <3>3, <3>4, <3>5 DEF IInv
  <2>3. CASE ~ok
    <3>1. validator' = validator
      BY <1>4, <2>3 DEF OnDepositAndStake
    <3>2. BusyIffInFlight' /\ CallInv' /\ OpInv'
      BY <2>1, <2>3, <3>1 DEF IInv, BusyIffInFlight, CallInv, OpInv
    <3>3. LiabilityCovered'
      BY <2>1, <3>1
         DEF IInv, LiabilityCovered, pending_user_liability, pending_not_in_contract
    <3>4. Solvent'
      BY <2>1, <2>3, <3>1, Numbers
         DEF IInv, Solvent, UnbookedAtPool, UnbookedFromPool, Escrow
    <3>5. (PoolEpochs <= SettleEpochs => UnbondInv)'
      BY <2>1, <3>1 DEF IInv, UnbondInv
    <3> QED
      BY <3>2, <3>3, <3>4, <3>5 DEF IInv
  <2> QED
    BY <2>2, <2>3

\* [3c] on_unstake preserves the invariant.
LEMMA OnUnstakeSafe == TypeOK /\ IInv /\ OnUnstake => IInv'
<1> SUFFICES ASSUME TypeOK, IInv, OnUnstake PROVE IInv'
  OBVIOUS
<1> USE DEF row, money
<1>v. validator \in Validator /\ cash \in Int
  BY DEF TypeOK
<1>5. OnUnstake
  OBVIOUS
<1> QED
  <2>1. /\ step = "on_unstake" /\ step' = "dispatch"
        /\ cont' = cont /\ amount' = 0
        /\ UNCHANGED <<cash, lost, pool, epoch, owed, pool_ops>>
    BY <1>5, GoToEffect DEF OnUnstake
  <2>2. CASE ok
    <3>1. validator' = settle_unstake(validator)
      BY <1>5, <2>1, <2>2, Numbers DEF OnUnstake, IInv, CallInv
    <3>2. BusyIffInFlight' /\ CallInv' /\ OpInv'
      BY <1>v, <2>1, <3>1, SettleUnstakeFields, Numbers
         DEF IInv, BusyIffInFlight, CallInv, OpInv, SameIdentity
    <3>3. LiabilityCovered'
      BY <1>v, <2>1, <3>1, SettleUnstakeFields, Numbers
         DEF IInv, LiabilityCovered, pending_user_liability, pending_not_in_contract
    <3>4. Solvent'
      BY <1>v, <2>1, <2>2, <3>1, SettleUnstakeFields, Numbers
         DEF IInv, Solvent, UnbookedAtPool, UnbookedFromPool, Escrow
    <3>5. (PoolEpochs <= SettleEpochs => UnbondInv)'
      BY <1>v, <2>1, <2>2, <3>1, SettleUnstakeFields, Numbers, EpochsAssumption
         DEF IInv, UnbondInv
    <3> QED
      BY <3>2, <3>3, <3>4, <3>5 DEF IInv
  <2>3. CASE ~ok
    <3>1. validator' = validator
      BY <1>5, <2>3 DEF OnUnstake
    <3>2. BusyIffInFlight' /\ CallInv' /\ OpInv'
      BY <2>1, <2>3, <3>1 DEF IInv, BusyIffInFlight, CallInv, OpInv
    <3>3. LiabilityCovered'
      BY <2>1, <3>1
         DEF IInv, LiabilityCovered, pending_user_liability, pending_not_in_contract
    <3>4. Solvent'
      BY <2>1, <2>3, <3>1, Numbers
         DEF IInv, Solvent, UnbookedAtPool, UnbookedFromPool, Escrow
    <3>5. (PoolEpochs <= SettleEpochs => UnbondInv)'
      BY <2>1, <2>3, <3>1 DEF IInv, UnbondInv
    <3> QED
      BY <3>2, <3>3, <3>4, <3>5 DEF IInv
  <2> QED
    BY <2>2, <2>3

\* [4] on_epoch_settlement_dispatch_continue preserves the invariant.
LEMMA DispatchSafe == TypeOK /\ IInv /\ Dispatch => IInv'
<1> SUFFICES ASSUME TypeOK, IInv, Dispatch PROVE IInv'
  OBVIOUS
<1> USE DEF row, money
<1>6. Dispatch
  OBVIOUS
<1> QED
  <2>1. /\ step = "dispatch"
        /\ UNCHANGED <<validator, cash, lost, pool, epoch, owed, pool_ops>>
    BY <1>6 DEF Dispatch
  <2>2. DispatchContinue(cont)
    BY <1>6 DEF Dispatch
  <2>3. BusyIffInFlight' /\ CallInv' /\ OpInv'
    BY <2>1, <2>2, DispatchEffect DEF IInv, BusyIffInFlight, CallInv, OpInv
  <2>4. LiabilityCovered'
    BY <2>1
         DEF IInv, LiabilityCovered, pending_user_liability, pending_not_in_contract
  <2>5. Solvent'
    BY <2>1, <2>2, DispatchEffect, Numbers
         DEF IInv, Solvent, UnbookedAtPool, UnbookedFromPool, Escrow
  <2>6. (PoolEpochs <= SettleEpochs => UnbondInv)'
    BY <2>1, <2>2, DispatchEffect DEF IInv, UnbondInv
  <2> QED
    BY <2>3, <2>4, <2>5, <2>6 DEF IInv

\* A tail that panics changes nothing but the chain.
LEMMA PanicSafe ==
    ASSUME TypeOK, IInv, step = "tail", TailPanics,
           UNCHANGED <<pool, epoch, pool_ops>>
    PROVE  IInv'
<1> USE DEF row, money
<1>1. /\ step' = "release" /\ cont' = cont /\ amount' = 0 /\ ok' = FALSE
      /\ UNCHANGED <<validator, cash, lost, owed>>
  BY DEF TailPanics, TailResult, Schedule
<1>2. BusyIffInFlight' /\ CallInv' /\ OpInv'
  BY <1>1 DEF IInv, BusyIffInFlight, CallInv, OpInv
<1>3. LiabilityCovered'
  BY <1>1
       DEF IInv, LiabilityCovered, pending_user_liability, pending_not_in_contract
<1>4. Solvent'
  BY <1>1, Numbers
       DEF IInv, Solvent, UnbookedAtPool, UnbookedFromPool, Escrow
<1>5. (PoolEpochs <= SettleEpochs => UnbondInv)'
  BY <1>1 DEF IInv, UnbondInv
<1> QED
  BY <1>2, <1>3, <1>4, <1>5 DEF IInv

\* [5] resolve_lock preserves the invariant.
LEMMA ResolveLockSafe == TypeOK /\ IInv /\ ResolveLock => IInv'
<1> SUFFICES ASSUME TypeOK, IInv, ResolveLock PROVE IInv'
  OBVIOUS
<1> USE DEF row, money
<1>v. validator \in Validator /\ cont \in UserAction
  BY DEF TypeOK
<1>1. ResolveLock
  OBVIOUS
<1> QED
  <2>0. /\ step = "tail" /\ cont.kind = "CommitLock"
        /\ UNCHANGED <<pool, epoch, pool_ops>>
    BY <1>1 DEF ResolveLock
  <2>1. cont.locked \in Nat /\ payable_refund(cont) = cont.locked
    BY <2>0, <1>v DEF UserAction, payable_refund, SettleOnly, NoAction
  <2>2. CASE /\ internal_stake(cont.buyer, cont.locked) /\ TailResult(TRUE)
             /\ UNCHANGED <<cash, lost, owed>>
    <3>1. step' = "release" /\ cont' = cont /\ amount' = 0 /\ ok'
      BY <2>2 DEF TailResult, Schedule
    <3>2. /\ validator'.tx_status = validator.tx_status
          /\ validator'.total_staked_balance = validator.total_staked_balance
          /\ validator'.pending_to_stake = validator.pending_to_stake + cont.locked
          /\ validator'.pending_to_unstake = validator.pending_to_unstake
          /\ validator'.pending_to_withdraw = validator.pending_to_withdraw
          /\ validator'.pending_to_claim = validator.pending_to_claim
          /\ validator'.last_unstake_epoch = validator.last_unstake_epoch
          /\ validator'.last_settlement_epoch = validator.last_settlement_epoch
      BY <2>2, <1>v DEF internal_stake, Validator
    <3>3. BusyIffInFlight' /\ CallInv' /\ OpInv'
      BY <2>0, <3>1, <3>2 DEF IInv, BusyIffInFlight, CallInv, OpInv
    <3>4. LiabilityCovered'
      BY <2>2, <3>2
         DEF IInv, LiabilityCovered, pending_user_liability, pending_not_in_contract
    <3>5. Solvent'
      BY <2>0, <2>1, <2>2, <3>1, <3>2, Numbers
         DEF IInv, Solvent, UnbookedAtPool, UnbookedFromPool, Escrow
    <3>6. (PoolEpochs <= SettleEpochs => UnbondInv)'
      BY <2>0, <3>1, <3>2 DEF IInv, UnbondInv
    <3> QED
      BY <3>3, <3>4, <3>5, <3>6 DEF IInv
  <2>3. CASE TailPanics
    BY <2>0, <2>3, PanicSafe
  <2> QED
    BY Zenon, <1>1, <2>2, <2>3 DEF ResolveLock

\* [5] resolve_unlock preserves the invariant.
LEMMA ResolveUnlockSafe == TypeOK /\ IInv /\ ResolveUnlock => IInv'
<1> SUFFICES ASSUME TypeOK, IInv, ResolveUnlock PROVE IInv'
  OBVIOUS
<1> USE DEF row, money
<1>v. validator \in Validator /\ cont \in UserAction
  BY DEF TypeOK
<1>2. ResolveUnlock
  OBVIOUS
<1> QED
  <2> DEFINE near == near_from_shares(validator, cont.shares)
  <2>0. /\ step = "tail" /\ cont.kind = "UnlockQueueUnstake"
        /\ UNCHANGED <<pool, epoch, pool_ops>>
    BY <1>2 DEF ResolveUnlock
  <2>1. /\ cont.shares \in Nat /\ payable_refund(cont) = 0
    BY <2>0, <1>v DEF UserAction, payable_refund, SettleOnly, NoAction
  <2>2. near \in Nat
    BY <2>1, <1>v, PriceTypes
  <2>3. CASE /\ internal_unstake(cont.account, cont.shares) /\ TailResult(TRUE)
             /\ UNCHANGED <<cash, lost>>
    <3>1. step' = "release" /\ cont' = cont /\ amount' = 0 /\ ok'
      BY <2>3 DEF TailResult, Schedule
    <3>2. /\ owed' = owed + near
          /\ validator' = [validator EXCEPT !.total_shares = @ - cont.shares,
                                            !.pending_to_unstake = @ + near]
      BY <2>3 DEF internal_unstake
    <3> HIDE DEF near
    <3>3. /\ validator'.tx_status = validator.tx_status
          /\ validator'.total_staked_balance = validator.total_staked_balance
          /\ validator'.pending_to_stake = validator.pending_to_stake
          /\ validator'.pending_to_unstake = validator.pending_to_unstake + near
          /\ validator'.pending_to_withdraw = validator.pending_to_withdraw
          /\ validator'.pending_to_claim = validator.pending_to_claim
          /\ validator'.last_unstake_epoch = validator.last_unstake_epoch
          /\ validator'.last_settlement_epoch = validator.last_settlement_epoch
      BY <3>2, <1>v DEF Validator
    <3>4. BusyIffInFlight' /\ CallInv' /\ OpInv'
      BY <2>0, <3>1, <3>3 DEF IInv, BusyIffInFlight, CallInv, OpInv
    <3>5. LiabilityCovered'
      BY <2>2, <3>2, <3>3, Numbers
         DEF IInv, LiabilityCovered, pending_user_liability, pending_not_in_contract
    <3>6. Solvent'
      BY <2>0, <2>1, <2>3, <3>1, <3>3, Numbers
         DEF IInv, Solvent, UnbookedAtPool, UnbookedFromPool, Escrow
    <3>7. (PoolEpochs <= SettleEpochs => UnbondInv)'
      BY <2>0, <3>1, <3>3 DEF IInv, UnbondInv
    <3> QED
      BY <3>4, <3>5, <3>6, <3>7 DEF IInv
  <2>4. CASE TailPanics
    BY <2>0, <2>4, PanicSafe
  <2> QED
    BY Zenon, <1>2, <2>3, <2>4 DEF ResolveUnlock

\* [5] on_withdraw_user_transfer_after_settle preserves the invariant.
LEMMA WithdrawUserTransferTailSafe == TypeOK /\ IInv /\ WithdrawUserTransferTail => IInv'
<1> SUFFICES ASSUME TypeOK, IInv, WithdrawUserTransferTail PROVE IInv'
  OBVIOUS
<1> USE DEF row, money
<1>v. validator \in Validator /\ cont \in UserAction
  BY DEF TypeOK
<1>3. WithdrawUserTransferTail
  OBVIOUS
<1> QED
  <2> DEFINE credit == claimable_credit(cont.account)
  <2>0. /\ step = "tail" /\ cont.kind = "WithdrawUserTransfer"
        /\ UNCHANGED <<pool, epoch, pool_ops>>
    BY <1>3 DEF WithdrawUserTransferTail
  <2>1. payable_refund(cont) = 0
    BY <2>0 DEF payable_refund
  <2>2. CASE /\ credit \in 1..validator.pending_to_claim
             /\ validator' = [validator EXCEPT !.pending_to_claim = @ - credit]
             /\ owed' = owed - credit
             /\ TransferToUser(credit) /\ TailResult(TRUE)
    <3> HIDE DEF credit
    <3>1. step' = "release" /\ cont' = cont /\ amount' = 0 /\ ok'
      BY <2>2 DEF TailResult, Schedule
    <3>2. /\ validator'.tx_status = validator.tx_status
          /\ validator'.total_staked_balance = validator.total_staked_balance
          /\ validator'.pending_to_stake = validator.pending_to_stake
          /\ validator'.pending_to_unstake = validator.pending_to_unstake
          /\ validator'.pending_to_withdraw = validator.pending_to_withdraw
          /\ validator'.pending_to_claim = validator.pending_to_claim - credit
          /\ validator'.last_unstake_epoch = validator.last_unstake_epoch
          /\ validator'.last_settlement_epoch = validator.last_settlement_epoch
      BY <2>2, <1>v DEF Validator
    <3>3. credit \in Nat
      BY <2>2, Numbers
    <3>4. BusyIffInFlight' /\ CallInv' /\ OpInv'
      BY <2>0, <3>1, <3>2 DEF IInv, BusyIffInFlight, CallInv, OpInv
    <3>5. LiabilityCovered'
      BY <2>2, <3>2, <3>3, Numbers
         DEF IInv, LiabilityCovered, pending_user_liability, pending_not_in_contract
    <3>6. Solvent'
      BY <2>0, <2>1, <2>2, <3>1, <3>2, <3>3, Numbers DEF IInv, Solvent, UnbookedAtPool, UnbookedFromPool, Escrow, TransferToUser
    <3>7. (PoolEpochs <= SettleEpochs => UnbondInv)'
      BY <2>0, <3>1, <3>2 DEF IInv, UnbondInv
    <3> QED
      BY <3>4, <3>5, <3>6, <3>7 DEF IInv
  <2>3. CASE TailPanics
    BY <2>0, <2>3, PanicSafe
  <2> QED
    BY <1>3, <2>2, <2>3, Zenon DEF WithdrawUserTransferTail

\* [6] the release of the row preserves the invariant.
LEMMA PipelineReleaseSafe == TypeOK /\ IInv /\ PipelineRelease => IInv'
<1> SUFFICES ASSUME TypeOK, IInv, PipelineRelease PROVE IInv'
  OBVIOUS
<1> USE DEF row, money
<1>v. validator \in Validator /\ cont \in UserAction
  BY DEF TypeOK
<1>4. PipelineRelease
  OBVIOUS
<1> QED
  <2>0. step = "release" /\ UNCHANGED <<pool, epoch, owed, pool_ops>>
    BY <1>4 DEF PipelineRelease
  <2>1. CASE ~ok /\ refund_payable_pipeline
    BY <2>0, <2>1, RefundSafe
  <2>2. CASE /\ ok \/ payable_refund(cont) = 0
             /\ validator' = [validator EXCEPT !.tx_status = "Idle"]
             /\ GoTo("idle", NoAction)
             /\ UNCHANGED <<cash, lost>>
    <3>1. step' = "idle" /\ amount' = 0
      BY <2>2 DEF GoTo, Schedule
    <3>2. SameBooks /\ validator'.tx_status = "Idle"
      BY <2>2, <1>v DEF Validator, SameBooks
    <3>3. BusyIffInFlight' /\ CallInv' /\ OpInv'
      BY <2>0, <3>1, <3>2 DEF IInv, BusyIffInFlight, CallInv, OpInv, SameBooks
    <3>4. LiabilityCovered'
      BY <2>0, <3>2 DEF IInv, LiabilityCovered, pending_user_liability, pending_not_in_contract, SameBooks
    <3>5. Solvent'
      BY <2>0, <2>2, <3>1, <3>2, Numbers DEF IInv, Solvent, UnbookedAtPool, UnbookedFromPool, Escrow, SameBooks
    <3>6. (PoolEpochs <= SettleEpochs => UnbondInv)'
      BY <2>0, <3>1, <3>2 DEF IInv, UnbondInv, SameBooks
    <3> QED
      BY <3>3, <3>4, <3>5, <3>6 DEF IInv
  <2> QED
    BY <1>4, <2>1, <2>2 DEF PipelineRelease

-----------------------------------------------------------------------------
(* The theorems. *)

\* IInv is inductive relative to TypeOK.
LEMMA IInvStep == TypeOK /\ IInv /\ [Next]_vars => IInv'
<1> SUFFICES ASSUME TypeOK, IInv, [Next]_vars PROVE IInv'
  OBVIOUS
<1>1. CASE UNCHANGED vars
  BY <1>1, QuietSafe DEF vars, row, chain, money, SameBooks
<1>2. CASE NoCall
  BY <1>2, <1>1 DEF NoCall
<1> QED
  BY <1>1, <1>2, UserCallsSafe, AdminCallsSafe,
     PoolGetAccountSafe, PoolWithdrawSafe, PoolDepositAndStakeSafe,
     PoolUnstakeSafe, EpochAdvancesSafe,
     AfterPoolAccountSafe, WithdrawTransferDoneSafe, AfterPoolWithdrawMaybeSettleSafe,
     OnDepositAndStakeSafe, OnUnstakeSafe, DispatchSafe,
     ResolveLockSafe, ResolveUnlockSafe,
     WithdrawUserTransferTailSafe, PipelineReleaseSafe
     DEF Next, Receipt

\* IInv holds in every reachable state.
LEMMA Invariance == Spec => [](TypeOK /\ IInv)
<1>1. Init => IInv
  BY InitIInv
<1> QED
  BY <1>1, IInvStep, TypeCorrect, PTL DEF Spec

\* At most one chain of receipts is in flight per row, and tx_status tells.
THEOREM Exclusion == Spec => []BusyIffInFlight
<1>1. IInv => BusyIffInFlight
  BY DEF IInv
<1> QED
  BY <1>1, Invariance, PTL

\* The pool never executes two stakes or unstakes of this row in one epoch,
\* wherever the epoch boundary falls between the calls and their callbacks.
THEOREM OneOpPerEpoch == Spec => []OnePoolOpPerEpoch
<1>1. IInv => OnePoolOpPerEpoch
  BY DEF IInv, OpInv, OnePoolOpPerEpoch
<1> QED
  BY <1>1, Invariance, PTL

\* The buckets always cover what users are owed.
THEOREM Liability == Spec => []LiabilityCovered
<1>1. IInv => LiabilityCovered
  BY DEF IInv
<1> QED
  BY <1>1, Invariance, PTL

\* The contract's NEAR is exactly what the row's buckets say, so a deposit is
\* committed or refunded once and no pool transfer is credited twice.
THEOREM Solvency == Spec => []Solvent
<1>1. IInv => Solvent
  BY DEF IInv
<1> QED
  BY <1>1, Invariance, PTL

\* No require! of a pool callback can fail after the pool has acted.
THEOREM CallbacksSafe == Spec => []CallbacksFindTheirState
<1>1. IInv => CallbacksFindTheirState
  BY DEF IInv, CallInv, CallbacksFindTheirState
<1> QED
  BY <1>1, Invariance, PTL

\* When the configured settle epochs are at least the pool's unlock delay, an
\* unstake never restarts the delay of NEAR that is still unbonding.
THEOREM Unbonding ==
    ASSUME PoolEpochs <= SettleEpochs
    PROVE  Spec => UnbondingRunsOut
<1>1. TypeOK /\ IInv /\ [Next]_vars =>
        (pool'.available # pool.available => pool.available <= epoch)
  <2> SUFFICES ASSUME TypeOK, IInv, [Next]_vars, pool'.available # pool.available
               PROVE  pool.available <= epoch
    OBVIOUS
  <2>1. CASE PoolUnstake
    BY <2>1 DEF PoolUnstake, IInv, UnbondInv
  <2>2. CASE PoolWithdraw \/ PoolDepositAndStake \/ EpochAdvances
    BY Zenon, <2>2 DEF PoolWithdraw, PoolDepositAndStake, EpochAdvances, TypeOK, PoolAccount
  <2>3. CASE UNCHANGED pool
    BY <2>3
  <2> QED
    BY Zenon, <2>1, <2>2, <2>3
       DEF Next, Receipt, UserCalls, AdminCalls, NoCall, vars, lock, unlock,
           withdraw, epoch_settle, PoolGetAccount, AfterPoolAccount,
           WithdrawTransferDone, AfterPoolWithdrawMaybeSettle,
           OnDepositAndStake, OnUnstake, Dispatch, ResolveLock, ResolveUnlock,
           WithdrawUserTransferTail, PipelineRelease, pause, unpause,
           archive_price, unarchive_price, pause_validator, remove_validator
<1> QED
  BY <1>1, Invariance, PTL DEF Spec, UnbondingRunsOut

-----------------------------------------------------------------------------
(* The abstract call as seen through the refinement mapping. *)

\* What the mapping gives is of the types SettledCall asks for.
LEMMA MappedTypes ==
    ASSUME TypeOK
    PROVE  /\ cash \in Int /\ lost \in Nat /\ cash - lost \in Int
           /\ validator.total_shares \in Nat
           /\ payable_refund(cont) \in Nat
           /\ Escrow \in Nat
<1>1. payable_refund(cont) \in Nat
  BY DEF TypeOK, UserAction, payable_refund, SettleOnly, NoAction
<1> QED
  BY <1>1 DEF TypeOK, Validator, Escrow

\* A chain that goes on without a tail result keeps what the call attached.
LEMMA EscrowKept ==
    ASSUME step # "idle", ~(step = "release" /\ ok), cont' = cont,
           step' # "idle", step' = "release" => payable_refund(cont) = 0
    PROVE  Escrow' = Escrow
  BY DEF Escrow, payable_refund

\* A receipt between the entry and the tail is a Settle step if it keeps the
\* call and the shares.
LEMMA SettleStep ==
    ASSUME TypeOK, TypeOK', Stage = "settling", cont' = cont,
           step' # "idle", step' = "release" => payable_refund(cont) = 0,
           validator'.total_shares = validator.total_shares
    PROVE  Call!Settle
<1>1. step # "idle" /\ step # "release" /\ step # "tail"
  BY DEF Stage
<1>2. Escrow' = Escrow
  BY <1>1, EscrowKept
<1>3. Stage' \in {"settling", "tail", "release"}
  BY DEF Stage
<1>4. Stage' = "release" => Escrow = 0
  BY <1>1 DEF Stage, Escrow
<1>5. cash' - lost' \in Int
  BY DEF TypeOK
<1> QED
  BY <1>2, <1>3, <1>4, <1>5 DEF Call!Settle

-----------------------------------------------------------------------------
(* The steps. *)

\* [0]: an entry point that takes the row is an Enter step.
LEMMA BeginEnters ==
    ASSUME TypeOK, TypeOK', BusyIffInFlight, NEW c \in UserAction, BeginPipeline(c),
           cash' - lost' = cash - lost + payable_refund(c)
    PROVE  Call!Enter
<1>1. validator \in Validator
  BY DEF TypeOK
<1>2. step = "idle"
  BY <1>1 DEF BeginPipeline, BusyIffInFlight
<1>3. validator'.total_shares = validator.total_shares
  BY <1>1 DEF BeginPipeline, Validator
<1>4. /\ step' \in {"release", "tail", "pool_get_account"}
      /\ step' = "release" => payable_refund(c) = 0
      /\ cont' = c /\ ok'
  BY DEF BeginPipeline, DispatchContinue, GoTo, Schedule, payable_refund
<1>5. Escrow' = payable_refund(c)
  BY <1>4 DEF Escrow, payable_refund
<1>6. payable_refund(c) \in Nat
  BY DEF UserAction, payable_refund, SettleOnly, NoAction
<1>7. Stage = "idle"
  BY <1>2 DEF Stage
<1>8. /\ Stage' \in {"settling", "tail", "release"}
      /\ Stage' = "release" => Escrow' = 0
  BY <1>4, <1>5 DEF Stage
<1> QED
  BY <1>3, <1>5, <1>6, <1>7, <1>8 DEF Call!Enter

\* The users' calls all enter through [0].
LEMMA UserCallsEnter ==
    ASSUME TypeOK, TypeOK', BusyIffInFlight, UserCalls
    PROVE  Call!Enter
<1>t. cash \in Int /\ lost \in Nat
  BY DEF TypeOK
<1>1. CASE \E u \in Users, a \in LockAmounts, d \in Durations : lock(u, a, d)
  <2>1. PICK u \in Users, a \in LockAmounts, d \in Durations : lock(u, a, d)
    BY <1>1
  <2>2. CommitLock(u, a, d) \in UserAction /\ payable_refund(CommitLock(u, a, d)) = a
    BY AmountsAssumption, Zenon DEF CommitLock, UserAction, payable_refund
  <2>3. a \in Nat
    BY AmountsAssumption
  <2>4. BeginPipeline(CommitLock(u, a, d)) /\ cash' = cash + a /\ lost' = lost
    BY <2>1, Zenon DEF lock
  <2>5. cash' - lost' = cash - lost + a
    BY <1>t, <2>3, <2>4
  <2> QED
    BY <2>2, <2>4, <2>5, BeginEnters, Zenon
<1>2. CASE \E u \in Users, l \in 1..Len(locks) : unlock(u, l)
  <2>1. PICK u \in Users, l \in 1..Len(locks) : unlock(u, l)
    BY <1>2
  <2>2. locks \in Seq(Lock)
    BY DEF TypeOK
  <2>3. locks[l] \in Lock /\ l \in Nat
    BY <2>2
  <2>4. /\ UnlockQueueUnstake(u, l, locks[l].shares) \in UserAction
        /\ payable_refund(UnlockQueueUnstake(u, l, locks[l].shares)) = 0
    BY <2>3, Zenon DEF UnlockQueueUnstake, UserAction, payable_refund, Lock
  <2>5. BeginPipeline(UnlockQueueUnstake(u, l, locks[l].shares))
        /\ cash' = cash /\ lost' = lost
    BY <2>1, Zenon DEF unlock, money
  <2>6. cash' - lost' = cash - lost + 0
    BY <1>t, <2>5
  <2> QED
    BY <2>4, <2>5, <2>6, BeginEnters, Zenon
<1>3. CASE \E u \in Users : withdraw(u)
  <2>1. PICK u \in Users : withdraw(u)
    BY <1>3
  <2>2. /\ WithdrawUserTransfer(u) \in UserAction
        /\ payable_refund(WithdrawUserTransfer(u)) = 0
    BY DEF WithdrawUserTransfer, UserAction, payable_refund
  <2>3. BeginPipeline(WithdrawUserTransfer(u)) /\ cash' = cash /\ lost' = lost
    BY <2>1, Zenon DEF withdraw, money
  <2>4. cash' - lost' = cash - lost + 0
    BY <1>t, <2>3
  <2> QED
    BY <2>2, <2>3, <2>4, BeginEnters, Zenon
<1>4. CASE epoch_settle
  <2>1. SettleOnly \in UserAction /\ payable_refund(SettleOnly) = 0
    BY DEF SettleOnly, UserAction, payable_refund
  <2>2. BeginPipeline(SettleOnly) /\ cash' = cash /\ lost' = lost
    BY <1>4, Zenon DEF epoch_settle, money
  <2>3. cash' - lost' = cash - lost + 0
    BY <1>t, <2>2
  <2> QED
    BY <2>1, <2>2, <2>3, BeginEnters, Zenon
<1> QED
  BY <1>1, <1>2, <1>3, <1>4 DEF UserCalls

\* The pool's receipts move NEAR and nothing else of the call.
LEMMA PoolSettles ==
    ASSUME TypeOK, TypeOK',
           PoolGetAccount \/ PoolWithdraw \/ PoolDepositAndStake \/ PoolUnstake
    PROVE  Call!Settle
<1>1. Stage = "settling"
  BY Zenon DEF PoolGetAccount, PoolWithdraw, PoolDepositAndStake, PoolUnstake, Stage
<1>2. cont' = cont /\ step' # "idle" /\ step' # "release"
  BY DEF PoolGetAccount, PoolWithdraw, PoolDepositAndStake, PoolUnstake,
         PoolReplies, Schedule
<1>3. validator' = validator
  BY Zenon DEF PoolGetAccount, PoolWithdraw, PoolDepositAndStake, PoolUnstake, row
<1> QED
  BY <1>1, <1>2, <1>3, SettleStep

\* [3] goes on to the pool or to [4], and keeps the shares.
LEMMA TryEffect ==
    ASSUME NEW v \in Validator, try_epoch_stake_or_unstake(v)
    PROVE  /\ cont' = cont /\ step' # "idle"
           /\ step' = "release" => payable_refund(cont) = 0
           /\ validator'.total_shares = v.total_shares
<1>1. \/ validator' = v
      \/ validator' = mark_epoch_settlement_handled(v)
      \/ validator' = apply_net_zero_pending_matched_clear(v)
  BY DEF try_epoch_stake_or_unstake
<1>2. validator'.total_shares = v.total_shares
  BY <1>1, NetZeroFields, Zenon DEF SameIdentity
<1>3. \/ DispatchContinue(cont)
      \/ \E n : CallPool("pool_deposit_and_stake", n)
      \/ \E n : CallPool("pool_unstake", n)
  BY Zenon DEF try_epoch_stake_or_unstake
<1>4. /\ cont' = cont /\ step' # "idle"
      /\ step' = "release" => payable_refund(cont) = 0
  BY <1>3, DispatchEffect DEF CallPool, Schedule
<1> QED
  BY <1>2, <1>4

\* A transfer to a user takes its NEAR off the balance, bounced or not.
LEMMA TransferEffect ==
    ASSUME TypeOK, NEW a \in Nat, TransferToUser(a)
    PROVE  cash' - lost' = cash - lost - a
  BY DEF TypeOK, TransferToUser

\* [1]: the row is refreshed and settled, or the call is aborted and refunded.
LEMMA AfterPoolAccountRefines ==
    ASSUME TypeOK, TypeOK', AfterPoolAccount
    PROVE  Call!Settle \/ Call!Abort
<1>t. validator \in Validator /\ view \in PoolView
  BY DEF TypeOK
<1>s. Stage = "settling" /\ step = "after_pool_account"
  BY DEF AfterPoolAccount, Stage
<1>1. CASE payable_refund(cont) > 0 /\ refund_payable_pipeline
  <2>1. /\ step' = "idle"
        /\ validator'.total_shares = validator.total_shares
    BY <1>1, <1>t DEF refund_payable_pipeline, GoTo, Schedule, Validator
  <2>2. Escrow = payable_refund(cont) /\ Escrow' = 0 /\ Stage' = "idle"
    BY <1>s, <2>1, Zenon DEF Escrow, Stage
  <2>3. cash' - lost' = cash - lost - payable_refund(cont)
    BY <1>1, MappedTypes, TransferEffect DEF refund_payable_pipeline
  <2> QED
    BY <1>1, <1>s, <2>1, <2>2, <2>3 DEF Call!Abort
<1>2. CASE payable_refund(cont) = 0 /\ GoTo("release", cont) /\ UNCHANGED validator
  BY <1>2, <1>s, SettleStep DEF GoTo, Schedule
<1>3. CASE ok
  <2> DEFINE v == [validator EXCEPT !.total_staked_balance = view.total]
  <2>1. v \in Validator /\ v.total_shares = validator.total_shares
    BY <1>t DEF Validator, PoolView
  <2>2. \/ validator' = v /\ CallPool("pool_withdraw", view.unstaked)
        \/ try_epoch_stake_or_unstake(v)
    BY <1>3 DEF AfterPoolAccount
  <2>3. CASE validator' = v /\ CallPool("pool_withdraw", view.unstaked)
    BY <1>s, <2>1, <2>3, SettleStep DEF CallPool, Schedule
  <2>4. CASE try_epoch_stake_or_unstake(v)
    <3> HIDE DEF v
    <3> QED
      BY <1>s, <2>1, <2>4, TryEffect, SettleStep
  <2> QED
    BY <2>2, <2>3, <2>4
<1> QED
  BY <1>1, <1>2, <1>3 DEF AfterPoolAccount

\* [2b], [2c], [3b], [3c] and [4] belong to the settlement.
LEMMA CallbacksSettle ==
    ASSUME TypeOK, TypeOK',
           \/ WithdrawTransferDone \/ AfterPoolWithdrawMaybeSettle
           \/ OnDepositAndStake \/ OnUnstake \/ Dispatch
    PROVE  Call!Settle
<1>t. validator \in Validator
  BY Zenon DEF TypeOK
<1>1. CASE WithdrawTransferDone
  <2>1. validator'.total_shares = validator.total_shares
    BY <1>1, <1>t, CreditFields DEF WithdrawTransferDone, SameIdentity
  <2>2. Stage = "settling" /\ cont' = cont /\ step' = "maybe_settle"
    BY <1>1 DEF WithdrawTransferDone, Stage
  <2> QED
    BY <2>1, <2>2, SettleStep
<1>2. CASE AfterPoolWithdrawMaybeSettle
  <2>1. Stage = "settling"
    BY <1>2 DEF AfterPoolWithdrawMaybeSettle, Stage
  <2>2. \/ try_epoch_stake_or_unstake(validator)
        \/ DispatchContinue(cont) /\ validator' = validator
    BY <1>2 DEF AfterPoolWithdrawMaybeSettle
  <2>3. CASE try_epoch_stake_or_unstake(validator)
    BY <1>t, <2>1, <2>3, TryEffect, SettleStep, Zenon
  <2>4. CASE DispatchContinue(cont) /\ validator' = validator
    BY <2>1, <2>4, DispatchEffect, SettleStep
  <2> QED
    BY <2>2, <2>3, <2>4
<1>3. CASE OnDepositAndStake
  <2>1. validator'.total_shares = validator.total_shares
    BY <1>3, <1>t, SettleStakeFields DEF OnDepositAndStake, SameIdentity
  <2>2. Stage = "settling" /\ cont' = cont /\ step' = "dispatch"
    BY <1>3 DEF OnDepositAndStake, Stage, GoTo, Schedule
  <2> QED
    BY <2>1, <2>2, SettleStep
<1>4. CASE OnUnstake
  <2>1. validator'.total_shares = validator.total_shares
    BY <1>4, <1>t, SettleUnstakeFields DEF OnUnstake, SameIdentity
  <2>2. Stage = "settling" /\ cont' = cont /\ step' = "dispatch"
    BY <1>4 DEF OnUnstake, Stage, GoTo, Schedule
  <2> QED
    BY <2>1, <2>2, SettleStep
<1>5. CASE Dispatch
  <2>1. Stage = "settling" /\ validator' = validator /\ DispatchContinue(cont)
    BY <1>5 DEF Dispatch, Stage, row
  <2> QED
    BY <2>1, DispatchEffect, SettleStep
<1> QED
  BY <1>1, <1>2, <1>3, <1>4, <1>5

\* A tail that panics is a Fail step.
LEMMA TailPanicsFails ==
    ASSUME TypeOK, step = "tail", TailPanics
    PROVE  Call!Fail
<1>1. step' = "release" /\ cont' = cont /\ ~ok'
  BY DEF TailPanics, TailResult, Schedule
<1>2. UNCHANGED <<validator, cash, lost>>
  BY DEF TailPanics, row, money
<1>3. Stage = "tail" /\ Stage' = "release" /\ Escrow' = Escrow
  BY <1>1 DEF Stage, Escrow, payable_refund
<1> QED
  BY <1>2, <1>3 DEF Call!Fail

\* A tail that succeeds is a Commit step if it keeps a payable call's NEAR and
\* takes in none from the others.
LEMMA TailCommits ==
    ASSUME TypeOK, TypeOK', step = "tail", TailResult(TRUE),
           IF payable_refund(cont) > 0 THEN cash' - lost' = cash - lost
                                       ELSE cash' - lost' <= cash - lost
    PROVE  Call!Commit
<1>1. step' = "release" /\ ok'
  BY DEF TailResult, Schedule
<1>2. /\ Stage = "tail" /\ Stage' = "release"
      /\ Escrow = payable_refund(cont) /\ Escrow' = 0
  BY <1>1 DEF Stage, Escrow
<1>3. validator'.total_shares \in Nat /\ cash' - lost' \in Int
  BY DEF TypeOK, Validator
<1> QED
  BY <1>2, <1>3 DEF Call!Commit

\* [5]: the three tails.
LEMMA TailsRefine ==
    ASSUME TypeOK, TypeOK',
           ResolveLock \/ ResolveUnlock \/ WithdrawUserTransferTail
    PROVE  Call!Commit \/ Call!Fail
<1>t. step = "tail" /\ cash \in Int /\ lost \in Nat
  BY Zenon DEF ResolveLock, ResolveUnlock, WithdrawUserTransferTail, TypeOK
<1>1. CASE TailPanics
  BY <1>t, <1>1, TailPanicsFails
<1>2. CASE TailResult(TRUE) /\ UNCHANGED money
  BY <1>t, <1>2, TailCommits DEF money
<1>3. CASE /\ cont.kind = "WithdrawUserTransfer" /\ TailResult(TRUE)
           /\ \E credit \in Nat : TransferToUser(credit)
  <2>1. PICK credit \in Nat : TransferToUser(credit)
    BY <1>3
  <2>2. cash' - lost' = cash - lost - credit
    BY <2>1, TransferEffect
  <2>3. cash' - lost' <= cash - lost
    BY <1>t, <2>2
  <2>4. payable_refund(cont) = 0
    BY <1>3 DEF payable_refund
  <2> QED
    BY <1>t, <1>3, <2>3, <2>4, TailCommits
<1>4. ResolveLock => TailPanics \/ (TailResult(TRUE) /\ UNCHANGED money)
  BY Zenon DEF ResolveLock, money
<1>5. ResolveUnlock => TailPanics \/ (TailResult(TRUE) /\ UNCHANGED money)
  BY Zenon DEF ResolveUnlock, money
<1>6. ASSUME WithdrawUserTransferTail, ~TailPanics
      PROVE  /\ cont.kind = "WithdrawUserTransfer" /\ TailResult(TRUE)
             /\ \E credit \in Nat : TransferToUser(credit)
  <2>1. validator.pending_to_claim \in Nat
    BY DEF TypeOK, Validator
  <2> DEFINE credit == claimable_credit(cont.account)
  <2>2. /\ cont.kind = "WithdrawUserTransfer" /\ TailResult(TRUE)
        /\ credit \in 1..validator.pending_to_claim /\ TransferToUser(credit)
    BY <1>6, Zenon DEF WithdrawUserTransferTail
  <2> HIDE DEF credit
  <2>3. credit \in Nat
    BY <2>1, <2>2
  <2> QED
    BY <2>2, <2>3, Zenon
<1> QED
  BY <1>1, <1>2, <1>3, <1>4, <1>5, <1>6, Zenon

\* [6]: the row is released, with the refund of a tail that failed.
LEMMA PipelineReleaseRefines ==
    ASSUME TypeOK, TypeOK', PipelineRelease
    PROVE  Call!Release
<1>t. validator \in Validator /\ cash \in Int /\ lost \in Nat /\ step = "release"
  BY DEF TypeOK, PipelineRelease
<1>1. step' = "idle" /\ validator'.total_shares = validator.total_shares
  BY <1>t DEF PipelineRelease, refund_payable_pipeline, GoTo, Schedule, Validator
<1>2. Stage = "release" /\ Stage' = "idle" /\ Escrow' = 0
  BY <1>t, <1>1 DEF Stage, Escrow
<1>3. cash' - lost' = cash - lost - Escrow
  <2>1. CASE ~ok /\ refund_payable_pipeline
    <3>1. Escrow = payable_refund(cont)
      BY <1>t, <2>1 DEF Escrow
    <3> QED
      BY <2>1, <3>1, MappedTypes, TransferEffect DEF refund_payable_pipeline
  <2>2. CASE (ok \/ payable_refund(cont) = 0) /\ UNCHANGED money
    <3>1. Escrow = 0
      BY <1>t, <2>2 DEF Escrow
    <3> QED
      BY <1>t, <2>2, <3>1 DEF money
  <2> QED
    BY <2>1, <2>2 DEF PipelineRelease
<1> QED
  BY <1>1, <1>2, <1>3 DEF Call!Release

\* The administrators, the epochs and the idle row leave the call alone.
LEMMA QuietStutters ==
    ASSUME TypeOK, AdminCalls \/ EpochAdvances \/ NoCall \/ UNCHANGED vars
    PROVE  UNCHANGED Call!callVars
<1>1. UNCHANGED <<step, cont, ok, cash, lost>>
  BY DEF AdminCalls, pause, unpause, archive_price, unarchive_price,
         pause_validator, remove_validator, EpochAdvances, NoCall, vars, chain, money
<1>2. validator \in Validator
  BY DEF TypeOK
<1>3. validator'.total_shares = validator.total_shares
  BY <1>2 DEF AdminCalls, pause, unpause, archive_price, unarchive_price,
         pause_validator, remove_validator, EpochAdvances, NoCall, vars, row, Validator
<1>4. Stage' = Stage /\ Escrow' = Escrow
  BY <1>1 DEF Stage, Escrow, payable_refund
<1> QED
  BY <1>1, <1>3, <1>4 DEF Call!callVars

-----------------------------------------------------------------------------

\* Every step of the pipeline is a step of the settled call or stutters.
LEMMA StepRefines ==
    TypeOK /\ TypeOK' /\ IInv /\ [Next]_vars => [Call!CallNext]_(Call!callVars)
<1> SUFFICES ASSUME TypeOK, TypeOK', IInv, [Next]_vars
             PROVE  Call!CallNext \/ UNCHANGED Call!callVars
  OBVIOUS
<1>1. CASE UserCalls
  BY <1>1, UserCallsEnter DEF IInv, Call!CallNext
<1>2. CASE Receipt
  BY <1>2, PoolSettles, AfterPoolAccountRefines, CallbacksSettle, TailsRefine,
     PipelineReleaseRefines DEF Receipt, Call!CallNext
<1>3. CASE AdminCalls \/ EpochAdvances \/ NoCall \/ UNCHANGED vars
  BY <1>3, QuietStutters
<1> QED
  BY <1>1, <1>2, <1>3 DEF Next

\* The receipts of epoch.rs implement the settled call the other components
\* rely on: one call per row at a time, shares move only in its tail, and its
\* NEAR is kept by the tail or sent back.
THEOREM PipelineImplementsSettledCall == Spec => ImplementsSettledCall
<1>1. ASSUME Init PROVE Call!CallInit
  <2>1. step = "idle" /\ cash = 0 /\ lost = 0
    BY <1>1, Zenon DEF Init
  <2>2. validator.total_shares = 0
    BY <1>1 DEF Init
  <2>3. Stage = "idle" /\ Escrow = 0
    BY <2>1, Zenon DEF Stage, Escrow
  <2>4. cash - lost \in Int
    BY <2>1
  <2> QED
    BY <2>2, <2>3, <2>4, Zenon DEF Call!CallInit
<1> QED
  BY <1>1, StepRefines, Invariance, PTL DEF Spec, ImplementsSettledCall, Call!CallSpec
===============================================================================
