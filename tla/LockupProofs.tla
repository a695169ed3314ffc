---------------------------- MODULE LockupProofs ----------------------------
(***************************************************************************)
(* Safety of the lockup for every value of its constants: one pool call at *)
(* a time, a known deposit that is really at the pool, and locked NEAR     *)
(* that only lock_near can leave uncovered.  Then the lockup with the      *)
(* veNEAR contract: once the newest report is in, the contract holds the   *)
(* balance the lockup has locked.  Last, how balances grow and are shared. *)
(***************************************************************************)
EXTENDS VenearSystem, TLAPS

-----------------------------------------------------------------------------
(* Types. *)

USE DEF locks_, life, staking

\* A call in flight is one of the records of PoolCall.
LEMMA CallInFlight ==
    ASSUME call \in PoolCall, call.step # "none"
    PROVE  call \in [step: {"pool", "transfer", "callback"}, method: PoolMethods,
                     amount: Nat, ok: BOOLEAN]
  BY DEF PoolCall, NoPoolCall

\* The end of a call is of its type.
LEMMA NoCallType == NoPoolCall \in PoolCall
  BY DEF PoolCall

\* The initial state is of its types.
LEMMA InitType == LockupInit => LockupTypeOK
<1> SUFFICES ASSUME LockupInit PROVE LockupTypeOK
  OBVIOUS
<1>1. pool \in [staked: Nat, unstaked: Nat]
  BY DEF LockupInit
<1>2. updates \subseteq [version: Nat, locked: Nat, nonce: Nat]
  BY DEF LockupInit
<1> QED
  BY <1>1, <1>2, NoCallType, Zenon DEF LockupInit, LockupTypeOK

\* The calls of venear.rs keep the types.
LEMMA VenearCallsType == LockupTypeOK /\ VenearCalls => LockupTypeOK'
<1> SUFFICES ASSUME LockupTypeOK, VenearCalls PROVE LockupTypeOK'
  OBVIOUS
<1>1. \A a \in Nat : venear_lockup_update(a) /\ UNCHANGED version =>
        /\ lockup_update_nonce' \in Nat
        /\ updates' \subseteq [version: Nat, locked: Nat, nonce: Nat]
  BY DEF LockupTypeOK, venear_lockup_update
<1>2. \A a \in AmountOrAll(venear_locked_balance)
            \cup AmountOrAll(venear_pending_balance) : a \in Nat
  BY LockupAmounts DEF AmountOrAll, LockupTypeOK
<1>3. LegalBalance => \A a \in AmountOrAll(venear_liquid_balance) : a \in Nat
  BY LockupAmounts DEF AmountOrAll, LockupTypeOK, LegalBalance, venear_liquid_balance,
       total_near_balance, get_known_deposited_balance
<1>4. CASE lock_near
  BY <1>1, <1>3, <1>4 DEF lock_near, OwnerCall, SetLocked, LockupTypeOK
<1>5. CASE begin_unlock_near
  BY <1>1, <1>2, <1>5, LockupBounds DEF begin_unlock_near, OwnerCall, SetLocked, LockupTypeOK
<1>6. CASE end_unlock_near
  BY <1>1, <1>2, <1>6 DEF end_unlock_near, OwnerCall, SetLocked, LockupTypeOK
<1>7. CASE lock_pending_near
  BY <1>1, <1>2, <1>7 DEF lock_pending_near, OwnerCall, SetLocked, LockupTypeOK
<1>8. CASE delete_lockup
  BY <1>8 DEF delete_lockup, LockupTypeOK
<1> QED
  BY <1>4, <1>5, <1>6, <1>7, <1>8 DEF VenearCalls

\* A pool call that starts is of its type, and so is the row after it.
LEMMA StartType ==
    ASSUME LockupTypeOK, NEW m \in PoolMethods, NEW a \in Nat, StartPoolCall(m, a)
    PROVE  /\ call' \in PoolCall /\ status' \in {"Idle", "Busy"}
           /\ selected' \in BOOLEAN /\ deposit_amount' \in Nat
           /\ checks' \in Nat /\ refunds' \in Nat
  BY DEF StartPoolCall, LockupTypeOK, PoolCall

\* The calls of owner.rs keep the types.
LEMMA StakingCallsType == LockupTypeOK /\ StakingCalls => LockupTypeOK'
<1> SUFFICES ASSUME LockupTypeOK, StakingCalls PROVE LockupTypeOK'
  OBVIOUS
<1>1. CASE select_staking_pool
  BY <1>1 DEF select_staking_pool, PoolOwnerCall, LockupTypeOK
<1>2. CASE unselect_staking_pool
  <2>1. pool_calls' \in Nat
    BY <1>2 DEF unselect_staking_pool, PoolOwnerCall, LockupTypeOK
  <2> QED
    BY Zenon, <1>2, <2>1 DEF unselect_staking_pool, PoolOwnerCall, LockupTypeOK
<1>3. ASSUME NEW m \in {"deposit", "deposit_and_stake"}, deposit_to_staking_pool(m)
      PROVE  LockupTypeOK'
  <2>1. PICK a \in Amounts : /\ get_account_balance >= a
                             /\ StartPoolCall(m, a)
                             /\ balance' = balance - a
    BY <1>3 DEF deposit_to_staking_pool
  <2>2. a \in Nat /\ m \in PoolMethods
    BY <1>3, LockupAmounts DEF PoolMethods
  <2>3. balance' \in Nat
    BY <2>1, <2>2, LockupAmounts DEF get_account_balance, Sat, LockupTypeOK
  <2> QED
    BY <1>3, <2>1, <2>2, <2>3, StartType DEF deposit_to_staking_pool, PoolOwnerCall,
       LockupTypeOK
<1>4. ASSUME NEW m \in PoolMethods, NEW a \in Nat, PoolOwnerCall, StartPoolCall(m, a),
             UNCHANGED balance
      PROVE  LockupTypeOK'
  BY <1>4, StartType DEF PoolOwnerCall, LockupTypeOK
<1>5. CASE refresh_staking_pool_balance \/ withdraw_all_from_staking_pool \/ unstake_all
  <2>1. /\ "get_account_total_balance" \in PoolMethods
        /\ "get_account_unstaked_balance" \in PoolMethods
        /\ "unstake_all" \in PoolMethods
    BY DEF PoolMethods
  <2> QED
    BY <1>4, <1>5, <2>1 DEF refresh_staking_pool_balance, withdraw_all_from_staking_pool,
       unstake_all
<1>6. CASE withdraw_from_staking_pool \/ stake \/ unstake
  <2>1. /\ "withdraw" \in PoolMethods /\ "stake" \in PoolMethods
        /\ "unstake" \in PoolMethods
    BY DEF PoolMethods
  <2>2. \A a \in Amounts : a \in Nat
    BY LockupAmounts
  <2> QED
    BY <1>4, <1>6, <2>1, <2>2 DEF withdraw_from_staking_pool, stake, unstake, MoveAtPool
<1>7. CASE transfer
  <2>1. PICK a \in Amounts : /\ get_account_balance >= a
                             /\ balance' = balance - a
                             /\ refunds' \in {refunds, refunds + a}
    BY <1>7 DEF transfer
  <2>2. balance' \in Nat /\ refunds' \in Nat
    BY <2>1, LockupAmounts DEF get_account_balance, Sat, LockupTypeOK
  <2> QED
    BY <1>7, <2>2 DEF transfer, PoolOwnerCall, LockupTypeOK
<1> QED
  BY <1>1, <1>2, <1>3, <1>5, <1>6, <1>7 DEF StakingCalls

\* What the pool does keeps its balances natural.
LEMMA PoolEffectType ==
    ASSUME LockupTypeOK, call.step = "pool", PoolAccepts(call, pool)
    PROVE  /\ PoolEffect(call, pool) \in [staked: Nat, unstaked: Nat]
           /\ PoolReply(call, pool) \in Nat
<1>1. call \in [step: {"pool", "transfer", "callback"}, method: PoolMethods,
                amount: Nat, ok: BOOLEAN]
  BY CallInFlight DEF LockupTypeOK
<1>2. pool \in [staked: Nat, unstaked: Nat]
  BY DEF LockupTypeOK
<1>3. PoolReply(call, pool) \in Nat
  BY <1>1, <1>2 DEF PoolReply
<1>4. PoolEffect(call, pool) \in [staked: Nat, unstaked: Nat]
  BY <1>1, <1>2 DEF PoolEffect, PoolAccepts
<1> QED
  BY <1>3, <1>4

\* The pool's receipts keep the types.
LEMMA PoolReceiptsType ==
    ASSUME LockupTypeOK,
           PoolRuns \/ PoolFails \/ PoolTransferArrives \/ RefundArrives \/ PoolRewards
    PROVE  LockupTypeOK'
<1>1. CASE PoolRuns
  <2>1. call' \in PoolCall
    BY <1>1, CallInFlight, PoolEffectType, Zenon DEF PoolRuns, LockupTypeOK, PoolCall
  <2> QED
    BY <1>1, <2>1, PoolEffectType DEF PoolRuns, LockupTypeOK
<1>2. CASE PoolFails
  <2>1. call' \in PoolCall
    BY <1>2, CallInFlight, Zenon DEF PoolFails, LockupTypeOK, PoolCall
  <2>2. call.amount \in Nat
    BY <1>2, CallInFlight DEF PoolFails, LockupTypeOK
  <2> QED
    BY <1>2, <2>1, <2>2 DEF PoolFails, LockupTypeOK
<1>3. CASE PoolTransferArrives
  <2>1. call' \in PoolCall
    BY <1>3, CallInFlight, Zenon DEF PoolTransferArrives, LockupTypeOK, PoolCall
  <2>2. call.amount \in Nat
    BY <1>3, CallInFlight DEF PoolTransferArrives, LockupTypeOK
  <2> QED
    BY <1>3, <2>1, <2>2 DEF PoolTransferArrives, LockupTypeOK
<1>4. CASE RefundArrives
  BY <1>4 DEF RefundArrives, LockupTypeOK
<1>5. CASE PoolRewards
  BY <1>5, LockupAmounts DEF PoolRewards, LockupTypeOK
<1> QED
  BY <1>1, <1>2, <1>3, <1>4, <1>5

\* The callbacks of owner_callbacks.rs keep the types.
LEMMA CallbacksType ==
    ASSUME LockupTypeOK,
           \/ on_whitelist_is_whitelisted \/ on_staking_pool_deposit
           \/ on_staking_pool_withdraw \/ on_staking_pool_stake
           \/ on_get_account_total_balance
           \/ on_get_account_unstaked_balance_to_withdraw_by_owner
           \/ CallbackWithoutAccount
    PROVE  LockupTypeOK'
<1>1. call.step = "callback" => call.amount \in Nat
  BY CallInFlight DEF LockupTypeOK
<1>2. CASE on_whitelist_is_whitelisted
  <2>1. checks' \in Nat /\ deposit_amount' \in Nat
    BY <1>2 DEF on_whitelist_is_whitelisted, LockupTypeOK
  <2> QED
    BY Zenon, <1>2, <2>1 DEF on_whitelist_is_whitelisted, CallbackFrame, LockupTypeOK
<1>3. CASE on_staking_pool_deposit
  BY <1>1, <1>3, NoCallType DEF on_staking_pool_deposit, CallbackOf, CallbackFrame, LockupTypeOK
<1>4. CASE on_staking_pool_withdraw
  BY <1>1, <1>4, NoCallType DEF on_staking_pool_withdraw, CallbackOf, CallbackFrame, LockupTypeOK, Sat
<1>5. CASE on_staking_pool_stake
  BY <1>5, NoCallType DEF on_staking_pool_stake, CallbackOf, CallbackFrame, LockupTypeOK
<1>6. CASE on_get_account_total_balance
  BY <1>1, <1>6, NoCallType DEF on_get_account_total_balance, CallbackOf, CallbackFrame, LockupTypeOK
<1>7. CASE on_get_account_unstaked_balance_to_withdraw_by_owner
  <2>1. [call EXCEPT !.step = "pool", !.method = "withdraw"] \in PoolCall
    BY <1>7, CallInFlight, Zenon DEF on_get_account_unstaked_balance_to_withdraw_by_owner, CallbackOf,
       LockupTypeOK, PoolCall, PoolMethods
  <2> QED
    BY <1>7, <2>1, NoCallType DEF on_get_account_unstaked_balance_to_withdraw_by_owner,
       CallbackOf, CallbackFrame, LockupTypeOK
<1>8. CASE CallbackWithoutAccount
  BY <1>8, NoCallType DEF CallbackWithoutAccount, CallbackFrame, LockupTypeOK
<1> QED
  BY <1>2, <1>3, <1>4, <1>5, <1>6, <1>7, <1>8

\* Creation keeps the types, whatever the deployment asked for.
LEMMA NewType ==
    ASSUME LockupTypeOK, NEW v \in Nat, NEW n \in Nat, NEW d \in Nat, new(v, n, d)
    PROVE  LockupTypeOK'
  BY Zenon DEF new, LockupTypeOK

\* Creation, deletion and time keep the types.
LEMMA LifeType ==
    ASSUME LockupTypeOK,
           \/ Tick \/ DeleteAccount
           \/ \E d \in Deposits : new(1, now * NonceGap, d)
    PROVE  LockupTypeOK'
<1>1. CASE Tick
  BY <1>1 DEF Tick, LockupTypeOK
<1>2. CASE DeleteAccount
  BY Zenon, <1>2 DEF DeleteAccount, LockupTypeOK
<1>3. ASSUME NEW d \in Deposits, new(1, now * NonceGap, d) PROVE LockupTypeOK'
  <2>1. d \in Nat /\ now * NonceGap \in Nat
    BY LockupAmounts, LockupBounds DEF LockupTypeOK
  <2> QED
    BY <1>3, <2>1, NewType
<1> QED
  BY <1>1, <1>2, <1>3

\* Every amount the lockup and the pool keep stays a natural number: none of
\* the contract's subtractions can go below zero.
THEOREM LockupTypes == LockupSpec => []LockupTypeOK
<1>1. LockupTypeOK /\ [LockupNext]_lockupVars => LockupTypeOK'
  <2> SUFFICES ASSUME LockupTypeOK, [LockupNext]_lockupVars PROVE LockupTypeOK'
    OBVIOUS
  <2>1. CASE UNCHANGED lockupVars
    BY <2>1 DEF lockupVars, LockupTypeOK
  <2> QED
    BY <2>1, VenearCallsType, StakingCallsType, PoolReceiptsType, CallbacksType, LifeType
       DEF LockupNext, LockupSteps, LockupReceipts
<1> QED
  BY <1>1, InitType, PTL DEF LockupSpec

-----------------------------------------------------------------------------
(* The inductive invariant. *)

\* What a chain in flight knows: it succeeded so far, only a withdrawal has a
\* transfer, and a balance just read is at least the deposit known before.
ChainInv ==
    /\ ~deployed => ~selected
    /\ call.step \in {"pool", "transfer"} => call.ok
    /\ call.step = "transfer" => call.method = "withdraw"
    /\ call.step = "callback" /\ call.ok /\ deployed
       /\ call.method = "get_account_total_balance"
       => deposit_amount <= call.amount

LInv == BusyWhileCalling /\ ChainInv /\ KnownDepositIsThere

\* The numbers the invariant speaks about.
LEMMA Numbers ==
    ASSUME LockupTypeOK
    PROVE  /\ call.amount \in Nat /\ deposit_amount \in Nat
           /\ pool.staked \in Nat /\ pool.unstaked \in Nat
           /\ Withdrawn \in Nat
<1>1. call.amount \in Nat
  BY DEF LockupTypeOK, PoolCall, NoPoolCall
<1> QED
  BY <1>1 DEF LockupTypeOK, Withdrawn

\* Steps away from the pool call keep the invariant.
LEMMA QuietSafe ==
    ASSUME LInv, UNCHANGED <<call, pool, selected, status, deposit_amount, deployed>>
    PROVE  LInv'
  BY DEF LInv, BusyWhileCalling, ChainInv, KnownDepositIsThere, KnownDeposit,
         get_known_deposited_balance, Withdrawn, pool_total, Sat

\* Between two calls the known deposit is the recorded one.
LEMMA KnownBetweenCalls ==
    ASSUME LockupTypeOK, call.step = "none"
    PROVE  KnownDeposit = get_known_deposited_balance
  BY Numbers DEF KnownDeposit, Withdrawn, Sat, get_known_deposited_balance

\* An idle pool means that no call is in flight.
LEMMA IdleMeansNoCall ==
    ASSUME LInv, deployed, assert_no_staking_or_idle
    PROVE  call.step = "none"
  BY DEF LInv, BusyWhileCalling, assert_no_staking_or_idle

\* A pool call that starts keeps the invariant.
LEMMA StartSafe ==
    ASSUME LockupTypeOK, LInv, NEW m \in PoolMethods, NEW a \in Nat,
           PoolOwnerCall, StartPoolCall(m, a)
    PROVE  LInv'
<1>1. call.step = "none" /\ selected /\ deployed
  BY IdleMeansNoCall DEF StartPoolCall, assert_staking_pool_is_idle,
     assert_no_staking_or_idle, PoolOwnerCall
<1>2. /\ call' = [step |-> "pool", method |-> m, amount |-> a, ok |-> TRUE]
      /\ selected' = selected /\ status' = "Busy" /\ deployed' = deployed
      /\ deposit_amount' = deposit_amount /\ pool' = pool
  BY DEF StartPoolCall, PoolOwnerCall
<1>3. deposit_amount <= pool_total
  BY <1>1, KnownBetweenCalls DEF LInv, KnownDepositIsThere, get_known_deposited_balance
<1>4. KnownDeposit' = deposit_amount
  BY <1>1, <1>2, Numbers DEF KnownDeposit, get_known_deposited_balance, Withdrawn, Sat
<1>5. KnownDepositIsThere'
  BY <1>2, <1>3, <1>4 DEF KnownDepositIsThere, pool_total
<1>6. BusyWhileCalling'
  BY <1>1, <1>2 DEF BusyWhileCalling
<1>7. ChainInv'
  BY <1>1, <1>2 DEF ChainInv
<1> QED
  BY <1>5, <1>6, <1>7 DEF LInv

\* The calls of owner.rs keep the invariant.
LEMMA StakingCallsSafe == LockupTypeOK /\ LInv /\ StakingCalls => LInv'
<1> SUFFICES ASSUME LockupTypeOK, LInv, StakingCalls PROVE LInv'
  OBVIOUS
<1>1. CASE select_staking_pool
  BY <1>1, QuietSafe DEF select_staking_pool, PoolOwnerCall
<1>2. CASE transfer
  BY <1>2, QuietSafe DEF transfer, PoolOwnerCall
<1>3. CASE unselect_staking_pool
  <2>1. call.step = "none" /\ deployed
    BY <1>3, IdleMeansNoCall DEF unselect_staking_pool, assert_staking_pool_is_idle,
       assert_no_staking_or_idle, PoolOwnerCall
  <2>2. call' = call /\ pool' = pool /\ selected' = FALSE /\ deployed' = deployed
    BY <1>3 DEF unselect_staking_pool, PoolOwnerCall
  <2>3. KnownDeposit' = 0
    BY <2>1, <2>2 DEF KnownDeposit, get_known_deposited_balance, Withdrawn, Sat
  <2>4. pool_total' >= 0
    BY <2>2, Numbers DEF pool_total
  <2> QED
    BY <2>1, <2>2, <2>3, <2>4 DEF LInv, BusyWhileCalling, ChainInv, KnownDepositIsThere
<1>4. \A a \in Amounts : a \in Nat
  BY LockupAmounts
<1>5. CASE \/ deposit_to_staking_pool("deposit")
           \/ deposit_to_staking_pool("deposit_and_stake")
  BY <1>4, <1>5, StartSafe DEF deposit_to_staking_pool, PoolMethods
<1>6. CASE refresh_staking_pool_balance \/ withdraw_all_from_staking_pool \/ unstake_all
  BY <1>6, StartSafe DEF refresh_staking_pool_balance, withdraw_all_from_staking_pool,
     unstake_all, PoolMethods
<1>7. CASE withdraw_from_staking_pool \/ stake \/ unstake
  BY <1>4, <1>7, StartSafe DEF withdraw_from_staking_pool, stake, unstake, MoveAtPool,
     PoolMethods
<1> QED
  BY <1>1, <1>2, <1>3, <1>5, <1>6, <1>7 DEF StakingCalls

\* The pool runs a call: what it takes or gives is what the chain then knows.
LEMMA PoolRunsSafe == LockupTypeOK /\ LInv /\ PoolRuns => LInv'
<1> SUFFICES ASSUME LockupTypeOK, LInv, PoolRuns PROVE LInv'
  OBVIOUS
<1>1. call \in [step: {"pool", "transfer", "callback"}, method: PoolMethods,
                amount: Nat, ok: BOOLEAN]
  BY CallInFlight DEF LockupTypeOK, PoolRuns
<1>2. /\ call.step = "pool" /\ call.ok
      /\ call'.step = (IF call.method = "withdraw" THEN "transfer" ELSE "callback")
      /\ call'.method = call.method /\ call'.ok = call.ok
      /\ call'.amount = PoolReply(call, pool)
      /\ UNCHANGED <<selected, status, deposit_amount, deployed>>
  BY <1>1 DEF PoolRuns, LInv, ChainInv
<1>3. pool \in [staked: Nat, unstaked: Nat] /\ deposit_amount \in Nat
  BY DEF LockupTypeOK
<1>4. get_known_deposited_balance <= pool_total
  BY <1>1, <1>2, <1>3 DEF LInv, KnownDepositIsThere, KnownDeposit, Withdrawn, Sat,
     get_known_deposited_balance
<1>5. deployed => selected
  BY <1>2 DEF LInv, BusyWhileCalling
<1>6. CASE call.method = "withdraw"
  <2>1. /\ pool_total' = pool_total - call.amount /\ call.amount <= pool_total
        /\ call'.amount = call.amount
    BY <1>1, <1>2, <1>3, <1>6 DEF PoolRuns, PoolEffect, PoolAccepts, PoolReply, pool_total
  <2>2. KnownDeposit' = Sat(get_known_deposited_balance, call.amount)
    BY <1>2, <1>6, <2>1 DEF KnownDeposit, get_known_deposited_balance, Withdrawn
  <2>3. KnownDeposit' <= pool_total'
    BY <1>1, <1>3, <1>4, <2>1, <2>2 DEF Sat, get_known_deposited_balance, pool_total
  <2> QED
    BY <1>2, <1>6, <2>3 DEF LInv, BusyWhileCalling, ChainInv, KnownDepositIsThere
<1>7. CASE call.method \in {"deposit", "deposit_and_stake"}
  <2>1. /\ pool_total' = pool_total + call.amount
        /\ call'.amount = call.amount
    BY <1>1, <1>2, <1>3, <1>7 DEF PoolRuns, PoolEffect, PoolReply, pool_total
  <2>2. KnownDeposit' = get_known_deposited_balance
    BY <1>2, <1>3, <1>7 DEF KnownDeposit, get_known_deposited_balance, Withdrawn, Sat
  <2>3. /\ KnownDeposit' <= pool_total'
        /\ deployed => deposit_amount + call.amount <= pool_total'
    BY <1>1, <1>3, <1>4, <1>5, <2>1, <2>2 DEF get_known_deposited_balance, pool_total
  <2> QED
    BY <1>2, <1>7, <2>1, <2>3 DEF LInv, BusyWhileCalling, ChainInv, KnownDepositIsThere
<1>8. CASE call.method \notin {"withdraw", "deposit", "deposit_and_stake"}
  <2>1. pool_total' = pool_total
    BY <1>1, <1>3, <1>8 DEF PoolRuns, PoolEffect, PoolAccepts, PoolMethods, pool_total
  <2>2. KnownDeposit' = get_known_deposited_balance
    BY <1>2, <1>3, <1>8 DEF KnownDeposit, get_known_deposited_balance, Withdrawn, Sat
  <2>3. call.method = "get_account_total_balance" => call'.amount = pool_total
    BY <1>2 DEF PoolReply, pool_total
  <2>4. deployed => deposit_amount <= pool_total
    BY <1>4, <1>5 DEF get_known_deposited_balance
  <2>5. pool_total <= pool_total
    BY <1>3 DEF pool_total
  <2> QED
    BY <1>2, <1>4, <1>8, <2>1, <2>2, <2>3, <2>4, <2>5
       DEF LInv, BusyWhileCalling, ChainInv, KnownDepositIsThere
<1> QED
  BY <1>6, <1>7, <1>8

\* A failed call, a transfer, a refund and a reward keep the invariant.
LEMMA PoolReceiptsSafe ==
    ASSUME LockupTypeOK, LInv,
           PoolFails \/ PoolTransferArrives \/ RefundArrives \/ PoolRewards
    PROVE  LInv'
<1>1. CASE PoolFails
  <2>1. call \in [step: {"pool", "transfer", "callback"}, method: PoolMethods,
                  amount: Nat, ok: BOOLEAN]
    BY <1>1, CallInFlight DEF LockupTypeOK, PoolFails
  <2>2. /\ call.step = "pool" /\ call'.step = "callback" /\ ~call'.ok
        /\ UNCHANGED <<selected, status, deposit_amount, deployed, pool>>
    BY <1>1, <2>1 DEF PoolFails
  <2>3. KnownDeposit' = KnownDeposit
    BY <2>2 DEF KnownDeposit, get_known_deposited_balance, Withdrawn
  <2> QED
    BY <2>2, <2>3 DEF LInv, BusyWhileCalling, ChainInv, KnownDepositIsThere, pool_total
<1>2. CASE PoolTransferArrives
  <2>1. call \in [step: {"pool", "transfer", "callback"}, method: PoolMethods,
                  amount: Nat, ok: BOOLEAN]
    BY <1>2, CallInFlight DEF LockupTypeOK, PoolTransferArrives
  <2>2. /\ call.step = "transfer" /\ call.ok /\ call.method = "withdraw"
        /\ call'.step = "callback" /\ call'.ok = deployed
        /\ call'.method = "withdraw" /\ call'.amount = call.amount
        /\ UNCHANGED <<selected, status, deposit_amount, deployed, pool>>
    BY <1>2, <2>1 DEF PoolTransferArrives, LInv, ChainInv
  <2>3. KnownDeposit' = KnownDeposit
    <3>1. CASE deployed
      BY <2>2, <3>1 DEF KnownDeposit, get_known_deposited_balance, Withdrawn
    <3>2. CASE ~deployed
      <4>1. ~selected
        BY <3>2 DEF LInv, ChainInv
      <4> QED
        BY <2>2, <4>1, Numbers DEF KnownDeposit, get_known_deposited_balance, Withdrawn, Sat
    <3> QED
      BY <3>1, <3>2
  <2> QED
    BY <2>2, <2>3 DEF LInv, BusyWhileCalling, ChainInv, KnownDepositIsThere, pool_total
<1>3. CASE RefundArrives
  BY <1>3, QuietSafe DEF RefundArrives
<1>4. CASE PoolRewards
  <2>1. PICK r \in Rewards : pool' = [pool EXCEPT !.staked = @ + r]
    BY <1>4 DEF PoolRewards
  <2>2. pool_total' >= pool_total
    BY <2>1, LockupAmounts DEF LockupTypeOK, pool_total
  <2>3. UNCHANGED <<call, selected, status, deposit_amount, deployed>>
    BY <1>4 DEF PoolRewards
  <2>4. KnownDeposit' = KnownDeposit
    BY <2>3 DEF KnownDeposit, get_known_deposited_balance, Withdrawn
  <2>5. pool_total \in Nat /\ pool_total' \in Int /\ KnownDeposit \in Nat
    BY <2>1, Numbers, LockupAmounts DEF LockupTypeOK, pool_total, KnownDeposit, Sat,
       get_known_deposited_balance
  <2>6. KnownDepositIsThere'
    BY <2>2, <2>3, <2>4, <2>5, Numbers DEF LInv, KnownDepositIsThere
  <2> QED
    BY <2>3, <2>6 DEF LInv, BusyWhileCalling, ChainInv
<1> QED
  BY <1>1, <1>2, <1>3, <1>4

\* A chain that ends with a deposit the pool has keeps the invariant.
LEMMA EndSafe ==
    ASSUME LockupTypeOK, LockupTypeOK', LInv, call' = NoPoolCall,
           UNCHANGED <<pool, selected, deployed>>,
           deposit_amount' <= pool_total \/ ~selected
    PROVE  LInv'
<1>1. pool_total' = pool_total /\ pool_total \in Nat
  BY Numbers DEF pool_total
<1>2. deposit_amount' \in Nat
  BY DEF LockupTypeOK
<1>3. call'.step = "none" /\ selected' = selected
  BY DEF NoPoolCall
<1>4. KnownDeposit' <= pool_total
  <2>1. CASE selected
    <3>1. KnownDeposit' = Sat(deposit_amount', 0)
      BY <1>3, <2>1 DEF KnownDeposit, get_known_deposited_balance, Withdrawn
    <3>2. \A n \in Nat : Sat(n, 0) = n
      BY DEF Sat
    <3> QED
      BY <1>2, <2>1, <3>1, <3>2
  <2>2. CASE ~selected
    <3>1. KnownDeposit' = 0
      BY <1>3, <2>2 DEF KnownDeposit, get_known_deposited_balance, Withdrawn, Sat
    <3> QED
      BY <1>1, <3>1
  <2> QED
    BY <2>1, <2>2
<1>5. KnownDeposit' <= pool_total'
  BY <1>1, <1>4
<1> QED
  BY <1>5 DEF LInv, BusyWhileCalling, ChainInv, KnownDepositIsThere, NoPoolCall

\* What a callback finds.
LEMMA CallbackFinds ==
    ASSUME LockupTypeOK, LInv, call.step = "callback", deployed
    PROVE  /\ selected
           /\ Sat(deposit_amount, Withdrawn) <= pool_total
           /\ Withdrawn = IF call.method = "withdraw" /\ call.ok THEN call.amount ELSE 0
  BY DEF LInv, BusyWhileCalling, KnownDepositIsThere, KnownDeposit,
         get_known_deposited_balance, Withdrawn

\* The callbacks of owner_callbacks.rs keep the invariant.
LEMMA CallbacksSafe ==
    ASSUME LockupTypeOK, LInv,
           \/ on_whitelist_is_whitelisted \/ on_staking_pool_deposit
           \/ on_staking_pool_withdraw \/ on_staking_pool_stake
           \/ on_get_account_total_balance
           \/ on_get_account_unstaked_balance_to_withdraw_by_owner
           \/ CallbackWithoutAccount
    PROVE  LInv'
<1>n. /\ pool_total \in Nat /\ deposit_amount \in Nat /\ call.amount \in Nat
  BY Numbers DEF pool_total
<1>t. LockupTypeOK'
  BY CallbacksType
<1>1. CASE on_whitelist_is_whitelisted
  <2>1. CASE deployed /\ ~selected
    <3>1. call.step = "none" /\ call' = call /\ pool' = pool /\ deployed' = deployed
      BY <1>1, <2>1 DEF on_whitelist_is_whitelisted, CallbackFrame, LInv, BusyWhileCalling
    <3>2. Withdrawn' = 0
      BY <3>1 DEF Withdrawn
    <3>3. deposit_amount' = 0 \/ ~selected'
      BY <1>1, <2>1 DEF on_whitelist_is_whitelisted
    <3>4. pool_total' = pool_total
      BY <3>1 DEF pool_total
    <3>5. KnownDeposit' <= pool_total'
      BY <1>n, <3>2, <3>3, <3>4 DEF KnownDeposit, get_known_deposited_balance, Sat
    <3> QED
      BY <2>1, <3>1, <3>5 DEF LInv, BusyWhileCalling, ChainInv, KnownDepositIsThere
  <2>2. CASE ~(deployed /\ ~selected)
    BY <1>1, <2>2, QuietSafe DEF on_whitelist_is_whitelisted, CallbackFrame
  <2> QED
    BY <2>1, <2>2
<1>2. CASE on_staking_pool_deposit
  <2>1. /\ call.step = "callback" /\ deployed /\ call' = NoPoolCall
        /\ UNCHANGED <<pool, selected, deployed>>
    BY <1>2 DEF on_staking_pool_deposit, CallbackOf, CallbackFrame
  <2>2. deposit_amount' <= pool_total
    <3>1. CASE call.ok
      BY <1>2, <2>1, <3>1 DEF on_staking_pool_deposit, CallbackOf, LInv, KnownDepositIsThere
    <3>2. CASE ~call.ok
      BY <1>n, <1>2, <2>1, <3>2, CallbackFinds DEF on_staking_pool_deposit, Sat
    <3> QED
      BY <3>1, <3>2
  <2> QED
    BY <1>t, <2>1, <2>2, EndSafe
<1>3. CASE on_staking_pool_withdraw
  <2>1. /\ call.step = "callback" /\ deployed /\ call' = NoPoolCall
        /\ UNCHANGED <<pool, selected, deployed>>
    BY <1>3 DEF on_staking_pool_withdraw, CallbackOf, CallbackFrame
  <2>2. deposit_amount' <= pool_total
    BY <1>n, <1>3, <2>1, CallbackFinds DEF on_staking_pool_withdraw, CallbackOf, Sat
  <2> QED
    BY <1>t, <2>1, <2>2, EndSafe
<1>4. CASE on_staking_pool_stake
  <2>1. /\ call.step = "callback" /\ deployed /\ call' = NoPoolCall
        /\ UNCHANGED <<pool, selected, deployed, deposit_amount>>
    BY <1>4 DEF on_staking_pool_stake, CallbackOf, CallbackFrame
  <2>2. deposit_amount' <= pool_total
    BY <1>n, <1>4, <2>1, CallbackFinds DEF on_staking_pool_stake, CallbackOf, Sat
  <2> QED
    BY <1>t, <2>1, <2>2, EndSafe
<1>5. CASE on_get_account_total_balance
  <2>1. /\ call.step = "callback" /\ deployed /\ call' = NoPoolCall
        /\ UNCHANGED <<pool, selected, deployed>>
    BY <1>5 DEF on_get_account_total_balance, CallbackOf, CallbackFrame
  <2>2. deposit_amount' <= pool_total
    <3>1. CASE call.ok
      BY <1>5, <2>1, <3>1 DEF on_get_account_total_balance, CallbackOf, LInv,
         KnownDepositIsThere
    <3>2. CASE ~call.ok
      BY <1>n, <1>5, <2>1, <3>2, CallbackFinds DEF on_get_account_total_balance, Sat
    <3> QED
      BY <3>1, <3>2
  <2> QED
    BY <1>t, <2>1, <2>2, EndSafe
<1>6. CASE on_get_account_unstaked_balance_to_withdraw_by_owner
  <2>1. /\ call.step = "callback" /\ call.method = "get_account_unstaked_balance"
        /\ deployed
        /\ UNCHANGED <<pool, selected, deployed, deposit_amount>>
    BY <1>6 DEF on_get_account_unstaked_balance_to_withdraw_by_owner, CallbackOf,
       CallbackFrame
  <2>2. selected /\ status = "Busy" /\ deposit_amount <= pool_total
    BY <1>n, <2>1, CallbackFinds DEF LInv, BusyWhileCalling, Sat
  <2>3. CASE call.ok /\ call.amount > 0
    <3>1. /\ call'.step = "pool" /\ call'.method = "withdraw" /\ call'.ok
          /\ status' = status
      <4>1. call \in [step: {"pool", "transfer", "callback"}, method: PoolMethods,
                      amount: Nat, ok: BOOLEAN]
        BY <2>1, CallInFlight DEF LockupTypeOK
      <4> QED
        BY <1>6, <2>3, <4>1 DEF on_get_account_unstaked_balance_to_withdraw_by_owner
    <3>2. KnownDeposit' = deposit_amount /\ pool_total' = pool_total
      BY <1>n, <2>1, <2>2, <3>1 DEF KnownDeposit, get_known_deposited_balance, Withdrawn,
         Sat, pool_total
    <3> QED
      BY <2>1, <2>2, <3>1, <3>2 DEF LInv, BusyWhileCalling, ChainInv, KnownDepositIsThere
  <2>4. CASE ~(call.ok /\ call.amount > 0)
    BY <1>6, <1>t, <2>1, <2>2, <2>4, EndSafe
       DEF on_get_account_unstaked_balance_to_withdraw_by_owner
  <2> QED
    BY <2>3, <2>4
<1>7. CASE CallbackWithoutAccount
  <2>1. ~selected /\ call' = NoPoolCall /\ UNCHANGED <<pool, selected, deployed>>
    BY <1>7 DEF CallbackWithoutAccount, CallbackFrame, LInv, ChainInv
  <2> QED
    BY <1>t, <2>1, EndSafe
<1> QED
  BY <1>1, <1>2, <1>3, <1>4, <1>5, <1>6, <1>7

\* Creation, deletion and time keep the invariant.
LEMMA LifeSafe ==
    ASSUME LockupTypeOK, LInv,
           \/ Tick \/ DeleteAccount
           \/ \E d \in Deposits : new(1, now * NonceGap, d)
    PROVE  LInv'
<1>1. CASE Tick
  BY <1>1, QuietSafe DEF Tick
<1>2. CASE DeleteAccount
  <2>1. /\ ~deployed' /\ ~selected' /\ call' = call /\ pool' = pool
        /\ UNCHANGED call
    BY <1>2 DEF DeleteAccount
  <2>2. pool_total' = pool_total /\ pool_total \in Nat /\ Withdrawn' = Withdrawn
    BY <2>1, Numbers DEF pool_total, Withdrawn
  <2>3. KnownDeposit' = 0
    BY <2>1, <2>2, Numbers DEF KnownDeposit, get_known_deposited_balance, Sat
  <2>4. call.step = "callback" /\ call.ok /\ call.method = "get_account_total_balance"
        => call.amount <= pool_total
    BY DEF LInv, KnownDepositIsThere
  <2>5. KnownDepositIsThere'
    BY <2>1, <2>2, <2>3, <2>4 DEF KnownDepositIsThere
  <2> QED
    BY <2>1, <2>5 DEF LInv, BusyWhileCalling, ChainInv
<1>3. ASSUME NEW d \in Deposits, new(1, now * NonceGap, d) PROVE LInv'
  <2>1. /\ call = NoPoolCall /\ call' = call /\ pool' = pool
        /\ selected' = FALSE /\ deployed' = TRUE
    BY <1>3 DEF new
  <2>2. Withdrawn' = 0 /\ pool_total' \in Nat
    BY <2>1, Numbers DEF Withdrawn, NoPoolCall, pool_total
  <2>3. KnownDeposit' = 0
    BY <2>1, <2>2 DEF KnownDeposit, get_known_deposited_balance, Sat
  <2> QED
    BY <2>1, <2>2, <2>3 DEF LInv, BusyWhileCalling, ChainInv, KnownDepositIsThere, NoPoolCall
<1> QED
  BY <1>1, <1>2, <1>3

\* LInv holds in every reachable state.
LEMMA LockupInvariance == LockupSpec => [](LockupTypeOK /\ LInv)
<1>1. LockupInit => LInv
  BY DEF LockupInit, LInv, BusyWhileCalling, ChainInv, KnownDepositIsThere, KnownDeposit,
         Withdrawn, Sat, get_known_deposited_balance, pool_total, NoPoolCall
<1>2. LockupTypeOK /\ LInv /\ [LockupNext]_lockupVars => LInv'
  <2> SUFFICES ASSUME LockupTypeOK, LInv, [LockupNext]_lockupVars PROVE LInv'
    OBVIOUS
  <2>1. CASE UNCHANGED lockupVars
    BY <2>1, QuietSafe DEF lockupVars
  <2>2. CASE VenearCalls
    BY <2>2, QuietSafe, Zenon DEF VenearCalls, lock_near, begin_unlock_near, end_unlock_near,
       lock_pending_near, delete_lockup, OwnerCall, SetLocked
  <2> QED
    BY <2>1, <2>2, StakingCallsSafe, PoolRunsSafe, PoolReceiptsSafe, CallbacksSafe, LifeSafe
       DEF LockupNext, LockupSteps, LockupReceipts
<1> QED
  BY <1>1, <1>2, LockupTypes, PTL DEF LockupSpec

\* One pool call at a time: a chain in flight means Busy, for every order of
\* calls, receipts, failures, deletions and deployments.
THEOREM OneCallAtATime == LockupSpec => []BusyWhileCalling
<1>1. LInv => BusyWhileCalling
  BY DEF LInv
<1> QED
  BY <1>1, LockupInvariance, PTL

\* The deposit the lockup counts on is at the pool.
THEOREM DepositIsThere == LockupSpec => []KnownDepositIsThere
<1>1. LInv => KnownDepositIsThere
  BY DEF LInv
<1> QED
  BY <1>1, LockupInvariance, PTL

-----------------------------------------------------------------------------
(* Locked NEAR and what covers it. *)

\* The amounts that cover a lock are natural numbers.
LEMMA CoverNumbers ==
    ASSUME LockupTypeOK
    PROVE  KnownDeposit \in Nat /\ InTransit \in Nat /\ balance \in Nat
<1>1. KnownDeposit \in Nat
  BY Numbers DEF KnownDeposit, get_known_deposited_balance, Sat
<1>2. InTransit \in Nat
  BY Numbers DEF InTransit, LockupTypeOK
<1> QED
  BY <1>1, <1>2 DEF LockupTypeOK

\* A step away from the pool and the balances leaves the cover as it is.
LEMMA CoverUnchanged ==
    ASSUME UNCHANGED <<call, refunds, selected, deposit_amount, balance>>
    PROVE  UNCHANGED <<KnownDeposit, InTransit>>
  BY DEF KnownDeposit, get_known_deposited_balance, Withdrawn, InTransit

\* The calls of venear.rs other than lock_near keep the locks covered.
LEMMA VenearCallsCover ==
    ASSUME LockupTypeOK, Backed, VenearCalls, ~lock_near
    PROVE  Backed'
<1>1. deployed /\ UNCHANGED <<call, refunds, selected, deposit_amount, balance>>
  BY DEF VenearCalls, begin_unlock_near, end_unlock_near, lock_pending_near,
     delete_lockup, OwnerCall, SetLocked
<1>2. UNCHANGED <<KnownDeposit, InTransit>>
  BY <1>1, CoverUnchanged
<1>3. /\ KnownDeposit \in Nat /\ InTransit \in Nat /\ balance \in Nat
      /\ venear_locked_balance \in Nat /\ venear_pending_balance \in Nat
  BY CoverNumbers DEF LockupTypeOK
<1>4. venear_locked_balance + venear_pending_balance <= balance + KnownDeposit + InTransit
  BY <1>1 DEF Backed
<1>5. \A a \in AmountOrAll(venear_locked_balance)
            \cup AmountOrAll(venear_pending_balance) : a \in Nat
  BY LockupAmounts DEF AmountOrAll, LockupTypeOK
<1>6. venear_locked_balance' + venear_pending_balance'
        <= balance + KnownDeposit + InTransit
  <2>1. CASE begin_unlock_near
    BY <1>3, <1>4, <1>5, <2>1 DEF begin_unlock_near, SetLocked
  <2>2. CASE end_unlock_near
    BY <1>3, <1>4, <1>5, <2>2 DEF end_unlock_near, SetLocked
  <2>3. CASE lock_pending_near
    BY <1>3, <1>4, <1>5, <2>3 DEF lock_pending_near, SetLocked
  <2>4. CASE delete_lockup
    BY <1>3, <1>4, <2>4 DEF delete_lockup
  <2> QED
    BY <2>1, <2>2, <2>3, <2>4 DEF VenearCalls
<1> QED
  BY <1>1, <1>2, <1>6 DEF Backed

\* A pool call that starts moves the deposit it carries from the account into
\* transit and touches nothing else.
LEMMA StartCover ==
    ASSUME LockupTypeOK, LInv, NEW m \in PoolMethods, NEW a \in Nat,
           PoolOwnerCall, StartPoolCall(m, a)
    PROVE  /\ KnownDeposit' = KnownDeposit
           /\ InTransit' = InTransit
                + (IF m \in {"deposit", "deposit_and_stake"} THEN a ELSE 0)
<1>1. call.step = "none" /\ selected /\ deployed
  BY IdleMeansNoCall DEF StartPoolCall, assert_staking_pool_is_idle,
     assert_no_staking_or_idle, PoolOwnerCall
<1>2. call = NoPoolCall
  BY <1>1 DEF LockupTypeOK, PoolCall
<1>3. /\ call' = [step |-> "pool", method |-> m, amount |-> a, ok |-> TRUE]
      /\ selected' = selected /\ deposit_amount' = deposit_amount /\ refunds' = refunds
  BY DEF StartPoolCall, PoolOwnerCall
<1>4. KnownDeposit' = KnownDeposit
  BY <1>1, <1>3 DEF KnownDeposit, get_known_deposited_balance, Withdrawn
<1>5. InTransit = refunds
  BY <1>2 DEF InTransit, NoPoolCall, LockupTypeOK
<1>6. InTransit' = refunds + (IF m \in {"deposit", "deposit_and_stake"} THEN a ELSE 0)
  BY <1>3 DEF InTransit
<1> QED
  BY <1>4, <1>5, <1>6

\* What covers the locks of a lockup that exists.
LEMMA CoverNow ==
    ASSUME LockupTypeOK, Backed, deployed
    PROVE  /\ KnownDeposit \in Nat /\ InTransit \in Nat /\ balance \in Nat
           /\ venear_locked_balance \in Nat /\ venear_pending_balance \in Nat
           /\ venear_locked_balance + venear_pending_balance
                <= balance + KnownDeposit + InTransit
  BY CoverNumbers DEF LockupTypeOK, Backed

\* The calls of owner.rs keep the locks covered: a transfer takes only what is
\* liquid, and what is liquid is computed while no call is in flight.
LEMMA StakingCallsCover ==
    ASSUME LockupTypeOK, LInv, Backed, StakingCalls
    PROVE  Backed'
<1>1. /\ deployed /\ deployed' = deployed
      /\ UNCHANGED <<venear_locked_balance, venear_pending_balance>>
  BY Zenon DEF StakingCalls, select_staking_pool, unselect_staking_pool,
     deposit_to_staking_pool, refresh_staking_pool_balance, withdraw_from_staking_pool,
     withdraw_all_from_staking_pool, stake, unstake, unstake_all, transfer, MoveAtPool,
     PoolOwnerCall
<1>2. \A a \in Amounts : a \in Nat
  BY LockupAmounts
<1>3. CASE select_staking_pool
  BY <1>1, <1>3, CoverUnchanged DEF select_staking_pool, Backed
<1>4. CASE unselect_staking_pool
  <2>1. call.step = "none"
    BY <1>1, <1>4, IdleMeansNoCall DEF unselect_staking_pool, assert_staking_pool_is_idle,
       assert_no_staking_or_idle
  <2>2. KnownDeposit = 0
    BY <1>4, <2>1 DEF unselect_staking_pool, KnownDeposit, get_known_deposited_balance,
       Withdrawn, Sat
  <2>3. KnownDeposit' = 0 /\ InTransit' = InTransit
    BY <1>4, <2>1 DEF unselect_staking_pool, KnownDeposit, get_known_deposited_balance,
       Withdrawn, Sat, InTransit
  <2> QED
    BY <1>1, <1>4, <2>2, <2>3 DEF unselect_staking_pool, Backed
<1>5. ASSUME NEW m \in {"deposit", "deposit_and_stake"}, deposit_to_staking_pool(m)
      PROVE  Backed'
  <2>1. PICK a \in Amounts : StartPoolCall(m, a) /\ balance' = balance - a
    BY <1>5 DEF deposit_to_staking_pool
  <2>2. KnownDeposit' = KnownDeposit /\ InTransit' = InTransit + a
    BY <1>2, <1>5, <2>1, StartCover DEF deposit_to_staking_pool, PoolMethods
  <2> QED
    BY <1>1, <1>2, <2>1, <2>2, CoverNow DEF Backed
<1>6. ASSUME NEW m \in PoolMethods \ {"deposit", "deposit_and_stake"}, NEW a \in Nat,
             PoolOwnerCall, StartPoolCall(m, a), balance' = balance
      PROVE  Backed'
  <2>1. KnownDeposit' = KnownDeposit /\ InTransit' = InTransit
    BY <1>6, StartCover, CoverNumbers
  <2> QED
    BY <1>1, <1>6, <2>1 DEF Backed
<1>7. CASE refresh_staking_pool_balance \/ withdraw_all_from_staking_pool \/ unstake_all
  BY <1>6, <1>7 DEF refresh_staking_pool_balance, withdraw_all_from_staking_pool,
     unstake_all, PoolMethods
<1>8. CASE withdraw_from_staking_pool \/ stake \/ unstake
  BY <1>2, <1>6, <1>8 DEF withdraw_from_staking_pool, stake, unstake, MoveAtPool,
     PoolMethods
<1>9. CASE transfer
  <2>1. PICK a \in Amounts : /\ venear_liquid_balance >= a
                             /\ balance' = balance - a
                             /\ refunds' \in {refunds, refunds + a}
    BY <1>9 DEF transfer
  <2>2. call.step = "none" /\ UNCHANGED <<call, selected, deposit_amount>>
    BY <1>1, <1>9, IdleMeansNoCall DEF transfer
  <2>3. call = NoPoolCall
    BY <2>2 DEF LockupTypeOK, PoolCall
  <2>4. KnownDeposit' = KnownDeposit
    BY <2>2 DEF KnownDeposit, get_known_deposited_balance, Withdrawn
  <2>5. PICK r \in Nat : refunds' = r
    BY <1>2, <2>1 DEF LockupTypeOK
  <2>6. InTransit' = r
    BY <2>2, <2>3, <2>5 DEF InTransit, NoPoolCall
  <2>7. venear_locked_balance + venear_pending_balance + a <= balance + KnownDeposit
    BY <1>1, <1>2, <2>1, <2>2, KnownBetweenCalls, CoverNow
       DEF venear_liquid_balance, total_near_balance
  <2>8. venear_locked_balance + venear_pending_balance <= balance - a + KnownDeposit + r
    BY <1>1, <1>2, <2>7, CoverNow
  <2> QED
    BY <1>1, <2>1, <2>4, <2>6, <2>8 DEF Backed
<1> QED
  BY <1>3, <1>4, <1>5, <1>7, <1>8, <1>9 DEF StakingCalls

\* The pool's receipts keep the locks covered: what leaves the pool or fails
\* there is in transit until it arrives.
LEMMA PoolReceiptsCover ==
    ASSUME LockupTypeOK, LInv, Backed, deployed,
           PoolRuns \/ PoolFails \/ PoolTransferArrives \/ RefundArrives \/ PoolRewards
    PROVE  Backed'
<1>1. /\ deployed' = deployed
      /\ UNCHANGED <<venear_locked_balance, venear_pending_balance, selected,
                     deposit_amount>>
  BY Zenon DEF PoolRuns, PoolFails, PoolTransferArrives, RefundArrives, PoolRewards
<1>2. refunds \in Nat /\ call.amount \in Nat /\ deposit_amount \in Nat
  BY Numbers DEF LockupTypeOK
<1>3. call.step # "none" => selected
  BY DEF LInv, BusyWhileCalling
<1>4. CASE PoolRuns
  <2>1. call \in [step: {"pool", "transfer", "callback"}, method: PoolMethods,
                  amount: Nat, ok: BOOLEAN]
    BY <1>4, CallInFlight DEF LockupTypeOK, PoolRuns
  <2>2. /\ call.step = "pool" /\ call.ok /\ selected
        /\ call'.step = (IF call.method = "withdraw" THEN "transfer" ELSE "callback")
        /\ call'.method = call.method /\ call'.ok = call.ok
        /\ call'.amount = PoolReply(call, pool)
        /\ UNCHANGED <<balance, refunds>>
    BY <1>3, <1>4, <2>1 DEF PoolRuns, LInv, ChainInv
  <2>3. KnownDeposit = deposit_amount
    BY <1>2, <2>2 DEF KnownDeposit, get_known_deposited_balance, Withdrawn, Sat
  <2>4. CASE call.method = "withdraw"
    <3>1. call'.amount = call.amount
      BY <2>2, <2>4 DEF PoolReply
    <3>2. KnownDeposit' = Sat(deposit_amount, call.amount)
      BY <1>1, <2>2, <2>4, <3>1 DEF KnownDeposit, get_known_deposited_balance, Withdrawn
    <3>3. InTransit = refunds /\ InTransit' = refunds + call.amount
      BY <1>2, <2>2, <2>4, <3>1 DEF InTransit
    <3>4. Sat(deposit_amount, call.amount) + call.amount >= deposit_amount
          /\ Sat(deposit_amount, call.amount) \in Nat
      BY <1>2 DEF Sat
    <3>5. venear_locked_balance + venear_pending_balance
            <= balance + Sat(deposit_amount, call.amount) + (refunds + call.amount)
      BY <1>2, <2>3, <3>3, <3>4, CoverNow
    <3> QED
      BY <1>1, <2>2, <3>2, <3>3, <3>5 DEF Backed
  <2>5. CASE call.method # "withdraw"
    <3>1. KnownDeposit' = deposit_amount
      BY <1>1, <1>2, <2>2, <2>5 DEF KnownDeposit, get_known_deposited_balance, Withdrawn, Sat
    <3>2. InTransit' = InTransit
      BY <2>2, <2>5 DEF InTransit, PoolReply
    <3> QED
      BY <1>1, <2>2, <2>3, <3>1, <3>2 DEF Backed
  <2> QED
    BY <2>4, <2>5
<1>5. CASE PoolFails
  <2>1. call \in [step: {"pool", "transfer", "callback"}, method: PoolMethods,
                  amount: Nat, ok: BOOLEAN]
    BY <1>5, CallInFlight DEF LockupTypeOK, PoolFails
  <2>2. /\ call.step = "pool" /\ call'.step = "callback" /\ ~call'.ok
        /\ balance' = balance
        /\ refunds' = IF call.method \in {"deposit", "deposit_and_stake"}
                      THEN refunds + call.amount ELSE refunds
    BY <1>5, <2>1 DEF PoolFails
  <2>3. KnownDeposit' = KnownDeposit
    BY <1>1, <2>2 DEF KnownDeposit, get_known_deposited_balance, Withdrawn
  <2>4. InTransit' = InTransit
    BY <1>2, <2>2 DEF InTransit
  <2> QED
    BY <1>1, <2>2, <2>3, <2>4 DEF Backed
<1>6. CASE PoolTransferArrives
  <2>1. call \in [step: {"pool", "transfer", "callback"}, method: PoolMethods,
                  amount: Nat, ok: BOOLEAN]
    BY <1>6, CallInFlight DEF LockupTypeOK, PoolTransferArrives
  <2>2. /\ call.step = "transfer" /\ call.ok /\ call.method = "withdraw"
        /\ call'.step = "callback" /\ call'.ok
        /\ call'.method = "withdraw" /\ call'.amount = call.amount
        /\ balance' = balance + call.amount /\ refunds' = refunds
    BY <1>6, <2>1 DEF PoolTransferArrives, LInv, ChainInv
  <2>3. KnownDeposit' = KnownDeposit
    BY <1>1, <2>2 DEF KnownDeposit, get_known_deposited_balance, Withdrawn
  <2>4. InTransit = refunds + call.amount /\ InTransit' = refunds
    BY <1>2, <2>2 DEF InTransit
  <2>5. venear_locked_balance + venear_pending_balance
          <= balance + call.amount + KnownDeposit + refunds
    BY <1>2, <2>4, CoverNow
  <2> QED
    BY <1>1, <2>2, <2>3, <2>4, <2>5 DEF Backed
<1>7. CASE RefundArrives
  <2>1. call' = call /\ balance' = balance + refunds /\ refunds' = 0
    BY <1>7 DEF RefundArrives
  <2>2. KnownDeposit' = KnownDeposit
    BY <1>1, <2>1 DEF KnownDeposit, get_known_deposited_balance, Withdrawn
  <2>3. PICK t \in Nat : InTransit = refunds + t /\ InTransit' = t
    BY <1>2, <2>1 DEF InTransit
  <2>4. venear_locked_balance + venear_pending_balance
          <= balance + refunds + KnownDeposit + t
    BY <1>2, <2>3, CoverNow
  <2> QED
    BY <1>1, <2>1, <2>2, <2>3, <2>4 DEF Backed
<1>8. CASE PoolRewards
  BY <1>1, <1>8, CoverUnchanged DEF PoolRewards, Backed
<1> QED
  BY <1>4, <1>5, <1>6, <1>7, <1>8

\* The callbacks keep the locks covered: each records what its chain moved.
LEMMA CallbacksCover ==
    ASSUME LockupTypeOK, LInv, Backed, deployed,
           \/ on_whitelist_is_whitelisted \/ on_staking_pool_deposit
           \/ on_staking_pool_withdraw \/ on_staking_pool_stake
           \/ on_get_account_total_balance
           \/ on_get_account_unstaked_balance_to_withdraw_by_owner
    PROVE  Backed'
<1>1. /\ deployed' = deployed
      /\ UNCHANGED <<venear_locked_balance, venear_pending_balance, balance, refunds>>
  BY Zenon DEF on_whitelist_is_whitelisted, on_staking_pool_deposit, on_staking_pool_withdraw,
     on_staking_pool_stake, on_get_account_total_balance, CallbackOf, CallbackFrame,
     on_get_account_unstaked_balance_to_withdraw_by_owner
<1>2. refunds \in Nat /\ call.amount \in Nat /\ deposit_amount \in Nat
  BY Numbers DEF LockupTypeOK
<1>3. call.step = "callback" => selected
  BY DEF LInv, BusyWhileCalling
<1>4. ASSUME NEW d \in Nat, call.step = "callback", call' = NoPoolCall,
             selected' = selected, deposit_amount' = d,
             KnownDeposit + InTransit <= d + refunds
      PROVE  Backed'
  <2>1. InTransit' = refunds
    BY <1>1, <1>2, <1>4 DEF InTransit, NoPoolCall
  <2>2. KnownDeposit' = d
    BY <1>3, <1>4 DEF KnownDeposit, get_known_deposited_balance, Withdrawn, NoPoolCall, Sat
  <2>3. venear_locked_balance + venear_pending_balance <= balance + d + refunds
    BY <1>2, <1>4, CoverNow
  <2> QED
    BY <1>1, <2>1, <2>2, <2>3 DEF Backed
<1>5. call.step = "callback" =>
        KnownDeposit = Sat(deposit_amount,
                           IF call.method = "withdraw" /\ call.ok THEN call.amount ELSE 0)
  BY <1>3 DEF KnownDeposit, get_known_deposited_balance, Withdrawn
<1>6. call.step = "callback" =>
        InTransit = refunds
          + (IF call.method \in {"deposit", "deposit_and_stake"} /\ call.ok
             THEN call.amount ELSE 0)
  BY DEF InTransit
<1>7. CASE on_whitelist_is_whitelisted
  <2>1. UNCHANGED <<call, refunds, balance>>
    BY <1>7 DEF on_whitelist_is_whitelisted, CallbackFrame
  <2>2. CASE UNCHANGED <<selected, deposit_amount>>
    BY <1>1, <2>1, <2>2, CoverUnchanged DEF Backed
  <2>3. CASE ~selected /\ selected' = TRUE /\ deposit_amount' = 0
    <3>1. call.step = "none"
      BY <2>3 DEF LInv, BusyWhileCalling
    <3>2. KnownDeposit = 0 /\ KnownDeposit' = 0 /\ InTransit' = InTransit
      BY <2>1, <2>3, <3>1 DEF KnownDeposit, get_known_deposited_balance, Withdrawn, Sat,
         InTransit
    <3> QED
      BY <1>1, <3>2 DEF Backed
  <2> QED
    BY <1>7, <2>2, <2>3, Zenon DEF on_whitelist_is_whitelisted
<1>8. CASE on_staking_pool_deposit
  BY <1>2, <1>4, <1>5, <1>6, <1>8 DEF on_staking_pool_deposit, CallbackOf, Sat
<1>9. CASE on_staking_pool_withdraw
  BY <1>2, <1>4, <1>5, <1>6, <1>9 DEF on_staking_pool_withdraw, CallbackOf, Sat
<1>10. CASE on_staking_pool_stake
  BY <1>2, <1>4, <1>5, <1>6, <1>10 DEF on_staking_pool_stake, CallbackOf, Sat
<1>11. CASE on_get_account_total_balance
  <2>1. call.ok => deposit_amount <= call.amount
    BY <1>11 DEF on_get_account_total_balance, CallbackOf, LInv, ChainInv
  <2> QED
    BY <1>2, <1>4, <1>5, <1>6, <1>11, <2>1 DEF on_get_account_total_balance, CallbackOf, Sat
<1>12. CASE on_get_account_unstaked_balance_to_withdraw_by_owner
  <2>1. CASE call.ok /\ call.amount > 0
    <3>1. call \in [step: {"pool", "transfer", "callback"}, method: PoolMethods,
                    amount: Nat, ok: BOOLEAN]
      BY <1>12, CallInFlight DEF on_get_account_unstaked_balance_to_withdraw_by_owner,
         CallbackOf, LockupTypeOK
    <3>2. /\ call.step = "callback" /\ call.method = "get_account_unstaked_balance"
          /\ call'.step = "pool" /\ call'.method = "withdraw"
          /\ UNCHANGED <<selected, deposit_amount>>
      BY <1>12, <2>1, <3>1 DEF on_get_account_unstaked_balance_to_withdraw_by_owner,
         CallbackOf
    <3>3. KnownDeposit' = KnownDeposit /\ InTransit' = InTransit
      BY <1>1, <3>2 DEF KnownDeposit, get_known_deposited_balance, Withdrawn, InTransit
    <3> QED
      BY <1>1, <3>3 DEF Backed
  <2>2. CASE ~(call.ok /\ call.amount > 0)
    BY <1>2, <1>4, <1>5, <1>6, <1>12, <2>2
       DEF on_get_account_unstaked_balance_to_withdraw_by_owner, CallbackOf, Sat
  <2> QED
    BY <2>1, <2>2
<1> QED
  BY <1>7, <1>8, <1>9, <1>10, <1>11, <1>12

\* A new lockup has nothing locked; a deleted one has no locks.
LEMMA LifeCover ==
    ASSUME LockupTypeOK, Backed,
           \/ Tick \/ DeleteAccount
           \/ \E d \in Deposits : new(1, now * NonceGap, d)
    PROVE  Backed'
<1>1. CASE Tick
  BY <1>1, CoverUnchanged DEF Tick, Backed
<1>2. CASE DeleteAccount
  BY <1>2 DEF DeleteAccount, Backed
<1>3. ASSUME NEW d \in Deposits, new(1, now * NonceGap, d) PROVE Backed'
  <2>1. /\ call' = NoPoolCall /\ refunds' = 0 /\ selected' = FALSE /\ balance' = d
        /\ venear_locked_balance' = 0 /\ venear_pending_balance' = 0
    BY <1>3 DEF new
  <2>2. KnownDeposit' = 0 /\ InTransit' = 0
    BY <2>1 DEF KnownDeposit, get_known_deposited_balance, Withdrawn, NoPoolCall, Sat,
       InTransit
  <2>3. d \in Nat
    BY LockupAmounts
  <2> QED
    BY <2>1, <2>2, <2>3 DEF Backed
<1> QED
  BY <1>1, <1>2, <1>3

\* Only lock_near can leave locked NEAR uncovered: for every order of calls,
\* receipts, failures and refunds no other step does.
THEOREM LocksStayCovered == LockupSpec => OnlyLockNearUnbacks
<1>1. ASSUME LockupTypeOK, LInv, LockupNext, Backed, ~lock_near PROVE Backed'
  <2>1. CASE deployed
    BY <1>1, <2>1, VenearCallsCover, StakingCallsCover, PoolReceiptsCover, CallbacksCover,
       LifeCover DEF LockupNext, LockupSteps, LockupReceipts, CallbackWithoutAccount
  <2>2. CASE ~deployed /\ ~deployed'
    BY <2>2 DEF Backed
  <2>3. CASE ~deployed /\ deployed'
    <3>1. \E d \in Deposits : new(1, now * NonceGap, d)
      BY <1>1, <2>3, Zenon DEF LockupNext, LockupSteps, LockupReceipts, VenearCalls, StakingCalls,
         begin_unlock_near, end_unlock_near, lock_pending_near, delete_lockup, OwnerCall,
         select_staking_pool, unselect_staking_pool, deposit_to_staking_pool,
         refresh_staking_pool_balance, withdraw_from_staking_pool,
         withdraw_all_from_staking_pool, stake, unstake, unstake_all, transfer, MoveAtPool,
         PoolOwnerCall, PoolRuns, PoolFails, PoolTransferArrives, RefundArrives,
         PoolRewards, on_whitelist_is_whitelisted, on_staking_pool_deposit,
         on_staking_pool_withdraw, on_staking_pool_stake, on_get_account_total_balance,
         on_get_account_unstaked_balance_to_withdraw_by_owner, CallbackWithoutAccount,
         CallbackOf, CallbackFrame, DeleteAccount, Tick
    <3> QED
      BY <1>1, <3>1, LifeCover
  <2> QED
    BY <2>1, <2>2, <2>3
<1>2. LockupTypeOK /\ LInv /\ [LockupNext]_lockupVars
        => [Backed /\ ~lock_near => Backed']_lockupVars
  BY <1>1
<1> QED
  BY <1>2, LockupInvariance, PTL DEF LockupSpec, OnlyLockNearUnbacks

-----------------------------------------------------------------------------
(* What the veNEAR contract knows of the lockup. *)

AccountInternal == [lockup_version: Nat, deposit: Nat, lockup_update_nonce: Nat]

Config == [lockup_version: Nat, local_deposit: Nat,
           max_delegations: MaxDelegations \cup {V!Max(MaxDelegations)}]

Deployment == [step: {"create", "callback"}, id: Nat, version: Nat, nonce: Nat,
               deposit: Nat, height: Nat, ok: BOOLEAN]

\* The fields of an account of the tree.
Fields(r) ==
    r = [update_timestamp |-> r.update_timestamp,
         balance |-> V!Balance(r.balance.near_balance, r.balance.extra_venear_balance),
         delegated_balance |-> r.delegated_balance, delegations |-> r.delegations]

RecordsOK ==
    /\ config \in Config
    /\ DOMAIN tree = DOMAIN accounts /\ DOMAIN accounts \subseteq Accounts
    /\ \A a \in DOMAIN accounts : accounts[a] \in AccountInternal
    /\ \A a \in DOMAIN accounts : Fields(tree[a])

DeploysOK == deploys \subseteq Deployment /\ deployments \in Nat /\ reported \in Nat

SystemTypeOK == LockupTypeOK /\ RecordsOK /\ DeploysOK

\* Nonces grow with the height.
LEMMA NonceGrows ==
  ASSUME NEW i \in Nat, NEW j \in Nat, i <= j
  PROVE  i * NonceGap \in Nat /\ i * NonceGap <= j * NonceGap
<1>1. PICK k \in Nat : j = i + k
  <2>1. j - i \in Nat /\ j = i + (j - i)
    OBVIOUS
  <2> QED
    BY <2>1
<1>2. i * NonceGap \in Nat /\ k * NonceGap \in Nat
  BY LockupBounds
<1>3. (i + k) * NonceGap = i * NonceGap + k * NonceGap
  BY LockupBounds
<1> QED
  BY <1>1, <1>2, <1>3

\* The nonces of a height are reserved.
LEMMA NonceReserve ==
  ASSUME NEW i \in Nat
  PROVE  (i + 1) * NonceGap = i * NonceGap + NonceGap /\ i * NonceGap \in Nat
  BY LockupBounds

\* Balances brought up to date, credited or not, keep their fields.
LEMMA UpdatedFields ==
  ASSUME NEW r, Fields(r)
  PROVE  /\ Fields(V!Updated(r))
         /\ V!Updated(r).balance.near_balance = r.balance.near_balance
<1> DEFINE t == V!truncate_to_seconds(now)
           b == V!Grow(r.balance, r.update_timestamp, t)
           d == V!Grow(r.delegated_balance, r.update_timestamp, t)
           c == V!calculate(r.update_timestamp, t, r.balance.near_balance)
<1>1. V!Updated(r) = [r EXCEPT !.balance = b, !.delegated_balance = d, !.update_timestamp = t]
  BY DEF V!Updated
<1>2. b = [r.balance EXCEPT !.extra_venear_balance = @ + c]
  BY DEF V!Grow
<1> HIDE DEF t, b, d, c
<1>3. b = V!Balance(r.balance.near_balance, r.balance.extra_venear_balance + c)
  BY <1>2 DEF Fields, V!Balance
<1>4. V!Updated(r) = [update_timestamp |-> t, balance |-> b, delegated_balance |-> d,
                      delegations |-> r.delegations]
  BY <1>1, Zenon DEF Fields
<1> QED
  BY <1>3, <1>4 DEF Fields, V!Balance

\* The tree C has the accounts of T, each with the same balance of its own.
OwnKept(C, T) ==
    /\ DOMAIN C = DOMAIN T
    /\ \A x \in DOMAIN T :
         Fields(C[x]) /\ C[x].balance.near_balance = T[x].balance.near_balance

\* Crediting the delegates leaves every account its own balance.
LEMMA CreditFields ==
  ASSUME NEW T, NEW b, NEW entries, NEW sign, \A x \in DOMAIN T : Fields(T[x])
  PROVE  OwnKept(V!Credit(T, b, entries, sign), T)
<1> DEFINE C == V!Credit(T, b, entries, sign)
<1>1. DOMAIN C = DOMAIN T
  BY DEF V!Credit
<1>2. ASSUME NEW x \in DOMAIN T
      PROVE  Fields(C[x]) /\ C[x].balance.near_balance = T[x].balance.near_balance
  <2>1. CASE x \notin DOMAIN entries
    BY <2>1 DEF V!Credit
  <2>2. CASE x \in DOMAIN entries
    <3> DEFINE u == V!Updated(T[x])
               s == V!delegation_contribution(b, entries[x])
               d == IF sign = 1 THEN V!Add(u.delegated_balance, s)
                                ELSE V!Minus(u.delegated_balance, s)
    <3>1. C[x] = [u EXCEPT !.delegated_balance = d]
      BY <2>2 DEF V!Credit
    <3>2. Fields(u) /\ u.balance.near_balance = T[x].balance.near_balance
      BY UpdatedFields
    <3> HIDE DEF C, u, d
    <3> QED
      BY <3>1, <3>2 DEF Fields, V!Balance
  <2> QED
    BY <2>1, <2>2, Zenon
<1> QED
  BY <1>1, <1>2, Zenon DEF OwnKept

\* No call of a user or of the owner changes what is recorded of a lockup.
LEMMA VenearCallsRecords ==
  ASSUME RecordsOK, V!VenearCalls
  PROVE  /\ RecordsOK' /\ DOMAIN accounts \subseteq DOMAIN accounts'
         /\ \A x \in DOMAIN accounts :
              /\ accounts'[x] = accounts[x]
              /\ tree'[x].balance.near_balance = tree[x].balance.near_balance
         /\ \A x \in DOMAIN accounts' \ DOMAIN accounts :
              /\ accounts'[x].lockup_update_nonce = 0
              /\ tree'[x].balance.near_balance = accounts'[x].deposit
<1>1. ASSUME NEW a \in Accounts, V!storage_deposit(a)
      PROVE  /\ RecordsOK' /\ DOMAIN accounts' = DOMAIN accounts \cup {a}
             /\ \A x \in DOMAIN accounts : accounts'[x] = accounts[x] /\ tree'[x] = tree[x]
             /\ accounts'[a].lockup_update_nonce = 0
             /\ tree'[a].balance.near_balance = accounts'[a].deposit
  <2> DEFINE i == V!NewInternal(config.local_deposit)
             r == V!NewAccount(config.local_deposit)
  <2>1. /\ a \notin DOMAIN accounts /\ config' = config
        /\ accounts' = V!Put(accounts, a, i) /\ tree' = V!Put(tree, a, r)
    BY <1>1 DEF V!storage_deposit, V!UserCall, V!internal_register_account
  <2>2. i \in AccountInternal /\ i.lockup_update_nonce = 0
    BY Zenon DEF RecordsOK, Config, AccountInternal, V!NewInternal
  <2>3. Fields(r) /\ r.balance.near_balance = i.deposit
    BY Zenon DEF Fields, V!NewAccount, V!NewInternal, V!Balance
  <2> HIDE DEF i, r
  <2>4. /\ DOMAIN accounts' = DOMAIN accounts \cup {a} /\ DOMAIN tree' = DOMAIN tree \cup {a}
        /\ accounts'[a] = i /\ tree'[a] = r
        /\ \A x \in DOMAIN accounts : accounts'[x] = accounts[x] /\ tree'[x] = tree[x]
    BY <2>1, Zenon DEF V!Put, RecordsOK
  <2>5. RecordsOK'
    <3>1. \A x \in DOMAIN accounts' : accounts'[x] \in AccountInternal /\ Fields(tree'[x])
      BY <2>2, <2>3, <2>4, Zenon DEF RecordsOK
    <3> QED
      BY <2>1, <2>4, <3>1, Zenon DEF RecordsOK, Config, AccountInternal, Fields, V!Balance
  <2> QED
    BY <2>2, <2>3, <2>4, <2>5, Zenon
<1>2. ASSUME NEW a \in Accounts, NEW entries \in DelegationChoices,
             V!set_delegations(a, entries)
      PROVE  /\ RecordsOK' /\ accounts' = accounts
             /\ \A x \in DOMAIN accounts :
                  tree'[x].balance.near_balance = tree[x].balance.near_balance
  <2> DEFINE owner == V!Updated(tree[a])
             B == V!Credit(tree, owner.balance, owner.delegations, -1)
             C == V!Credit(B, owner.balance, entries, 1)
             r == [owner EXCEPT !.delegations = entries]
  <2>1. /\ a \in DOMAIN accounts /\ config' = config /\ accounts' = accounts
        /\ tree' = [C EXCEPT ![a] = r]
    BY <1>2 DEF V!set_delegations, V!UserCall
  <2>2. Fields(owner) /\ owner.balance.near_balance = tree[a].balance.near_balance
    BY <2>1, UpdatedFields DEF RecordsOK
  <2>3. OwnKept(B, tree)
    BY CreditFields, Zenon DEF RecordsOK
  <2> HIDE DEF B, owner
  <2>4. OwnKept(C, B)
    <3>1. \A x \in DOMAIN B : Fields(B[x])
      BY <2>3, Zenon DEF OwnKept
    <3> QED
      BY <3>1, CreditFields, Zenon
  <2>5. Fields(r) /\ r.balance.near_balance = tree[a].balance.near_balance
    BY <2>2 DEF Fields, V!Balance
  <2> HIDE DEF C, r
  <2>6. /\ DOMAIN tree' = DOMAIN tree
        /\ \A x \in DOMAIN tree :
             Fields(tree'[x]) /\ tree'[x].balance.near_balance = tree[x].balance.near_balance
    BY <2>1, <2>3, <2>4, <2>5, Zenon DEF OwnKept
  <2> QED
    BY <2>1, <2>6, Zenon DEF RecordsOK, Config, AccountInternal, Fields, V!Balance
<1>3. ASSUME V!set_lockup_contract \/ V!set_local_deposit \/ V!set_max_delegations
             \/ V!pause \/ V!unpause
      PROVE  RecordsOK' /\ accounts' = accounts /\ tree' = tree
  <2>1. accounts' = accounts /\ tree' = tree
    BY <1>3 DEF V!set_lockup_contract, V!set_local_deposit, V!set_max_delegations,
       V!pause, V!unpause, V!OwnerCalls, V!state
  <2>2. config' \in Config
    BY <1>3, VenearAssumption DEF V!set_lockup_contract, V!set_local_deposit,
       V!set_max_delegations, V!pause, V!unpause, V!internal_set_lockup, Config, RecordsOK
  <2> QED
    BY <2>1, <2>2, Zenon DEF RecordsOK, Config, AccountInternal, Fields, V!Balance
<1> QED
  BY <1>1, <1>2, <1>3, Zenon DEF V!VenearCalls, RecordsOK

\* A report that is accepted replaces the nonce and the balance recorded.
LEMMA UpdateRecords ==
  ASSUME RecordsOK, NEW a, NEW u, u.nonce \in Nat, V!on_lockup_update(a, u)
  PROVE  /\ RecordsOK' /\ DOMAIN accounts' = DOMAIN accounts
         /\ a \in DOMAIN accounts /\ u.nonce > accounts[a].lockup_update_nonce
         /\ accounts[a].lockup_version = u.version
         /\ accounts'[a].lockup_version = u.version
         /\ accounts'[a].lockup_update_nonce = u.nonce
         /\ accounts'[a].deposit = accounts[a].deposit
         /\ tree'[a].balance.near_balance = u.locked + accounts[a].deposit
<1> DEFINE old == V!Updated(tree[a])
           b == V!Balance(u.locked + accounts[a].deposit,
                          IF u.locked < old.balance.near_balance - accounts[a].deposit
                          THEN 0 ELSE old.balance.extra_venear_balance)
           B == V!Credit(tree, old.balance, old.delegations, -1)
           C == V!Credit(B, b, old.delegations, 1)
           r == [old EXCEPT !.balance = b]
<1>1. /\ a \in DOMAIN accounts /\ u.nonce > accounts[a].lockup_update_nonce
      /\ accounts[a].lockup_version = u.version /\ config' = config
      /\ accounts' = [accounts EXCEPT ![a].lockup_update_nonce = u.nonce]
      /\ tree' = [C EXCEPT ![a] = r]
  BY DEF V!on_lockup_update, V!AcceptsUpdate, V!internal_lockup_update
<1>2. Fields(old)
  BY <1>1, UpdatedFields DEF RecordsOK
<1>3. OwnKept(B, tree)
  BY CreditFields, Zenon DEF RecordsOK
<1>4. Fields(r) /\ r.balance.near_balance = u.locked + accounts[a].deposit
  <2> HIDE DEF old
  <2> QED
    BY <1>2 DEF Fields, V!Balance
<1> HIDE DEF B, old, b, r
<1>5. OwnKept(C, B)
  <2>1. \A x \in DOMAIN B : Fields(B[x])
    BY <1>3, Zenon DEF OwnKept
  <2> QED
    BY <2>1, CreditFields, Zenon
<1> HIDE DEF C
<1>6. /\ DOMAIN tree' = DOMAIN tree /\ tree'[a] = r
      /\ \A x \in DOMAIN tree : Fields(tree'[x])
  BY <1>1, <1>3, <1>4, <1>5, Zenon DEF RecordsOK, OwnKept
<1>7. /\ DOMAIN accounts' = DOMAIN accounts
      /\ \A x \in DOMAIN accounts : accounts'[x] \in AccountInternal
      /\ accounts'[a].lockup_update_nonce = u.nonce
      /\ accounts'[a].lockup_version = u.version
      /\ accounts'[a].deposit = accounts[a].deposit
  BY <1>1 DEF RecordsOK, AccountInternal
<1>8. RecordsOK'
  BY <1>1, <1>6, <1>7, Zenon DEF RecordsOK, Config, AccountInternal, Fields, V!Balance
<1> QED
  BY <1>1, <1>4, <1>6, <1>7, <1>8

\* The callback of a deployment records the version and the nonce, unless a
\* report came first.
LEMMA DeployedRecords ==
  ASSUME RecordsOK, NEW a \in DOMAIN accounts, NEW v \in Nat, NEW n \in Nat,
         V!on_lockup_deployed(a, v, n)
  PROVE  /\ RecordsOK' /\ DOMAIN accounts' = DOMAIN accounts /\ tree' = tree
         /\ accounts'[a].deposit = accounts[a].deposit
         /\ \/ /\ ~(accounts[a].lockup_update_nonce <= n)
               /\ accounts'[a] = accounts[a]
            \/ /\ accounts[a].lockup_update_nonce <= n
               /\ accounts'[a].lockup_update_nonce = n
               /\ accounts'[a].lockup_version = v
<1>1. accounts[a] \in AccountInternal
  BY DEF RecordsOK
<1>2. config' = config /\ tree' = tree
  BY DEF V!on_lockup_deployed
<1>3. CASE accounts[a].lockup_update_nonce <= n
  <2>1. accounts' = [accounts EXCEPT ![a] = [accounts[a] EXCEPT !.lockup_version = v,
                                               !.lockup_update_nonce = n]]
    BY <1>1, <1>3, Zenon DEF V!on_lockup_deployed, AccountInternal
  <2>2. /\ DOMAIN accounts' = DOMAIN accounts /\ accounts'[a].lockup_update_nonce = n
        /\ accounts'[a].lockup_version = v
        /\ \A x \in DOMAIN accounts : accounts'[x] \in AccountInternal
        /\ accounts'[a].deposit = accounts[a].deposit
    BY <1>1, <2>1, Zenon DEF AccountInternal, RecordsOK
  <2>3. RecordsOK'
    BY <1>2, <2>2, Zenon DEF RecordsOK, Config, AccountInternal, Fields, V!Balance
  <2> QED
    BY <1>2, <1>3, <2>2, <2>3, Zenon
<1>4. CASE ~(accounts[a].lockup_update_nonce <= n)
  <2>1. accounts' = accounts
    BY <1>4 DEF V!on_lockup_deployed
  <2> QED
    BY <1>2, <1>4, <2>1, Zenon DEF RecordsOK, Config, AccountInternal, Fields, V!Balance
<1> QED
  BY <1>3, <1>4, Zenon

-----------------------------------------------------------------------------
(* The invariant of the nonces. *)

\* The nonces of a lockup lie above those of the lockups before it: a lockup
\* that is gone is older than the last block, one to be deleted older than
\* the block of delete_lockup.
NonceInv ==
    /\ now >= 1 /\ owner_calls <= MaxOwnerCalls
    /\ first_nonce <= lockup_update_nonce
    /\ lockup_update_nonce <= first_nonce + owner_calls
    /\ reported <= lockup_update_nonce
    /\ ~deployed => /\ lockup_update_nonce = 0 \/ lockup_update_nonce < (now - 1) * NonceGap
                    /\ venear_locked_balance = 0
    /\ deployed => first_nonce <= (now - 1) * NonceGap
    /\ deleting # 0 => /\ deployed /\ deleting <= now
                       /\ first_nonce <= (deleting - 1) * NonceGap

\* A deployment still to be created has a nonce no lockup has yet; a lockup
\* that was created has the version and the nonce of its deployment.
DeployInv ==
    \A m \in deploys :
        /\ m.step = "create" =>
             /\ m.nonce = m.height * NonceGap /\ ~m.ok
             /\ 1 <= m.height /\ now - 1 <= m.height /\ m.height <= now
        /\ m.ok => /\ m.nonce <= first_nonce
                   /\ m.nonce = first_nonce => m.version = version

\* What a report on its way says.
ReportInv ==
    \A u \in updates :
        /\ u.nonce <= reported
        /\ u.nonce > first_nonce => u.version = version
        /\ u.nonce = reported /\ ~missed => u.locked = venear_locked_balance

\* Only a registered owner has a lockup, and no report is recorded before it is made.
OwnerInv ==
    /\ deployed \/ deploys # {} \/ updates # {} \/ reported # 0 => Owner \in DOMAIN accounts
    /\ Owner \in DOMAIN accounts =>
         accounts[Owner].lockup_update_nonce <= lockup_update_nonce

\* The callback of the lockup's deployment is to run, or its version is recorded.
VersionInv ==
    /\ Owner \in DOMAIN accounts /\ accounts[Owner].lockup_update_nonce > first_nonce
       => accounts[Owner].lockup_version = version
    /\ deployed =>
         \/ /\ accounts[Owner].lockup_version = version
            /\ accounts[Owner].lockup_update_nonce >= first_nonce
         \/ \E m \in deploys : m.ok /\ m.nonce = first_nonce

\* The last report is on its way or recorded.
NewestInv ==
    Owner \in DOMAIN accounts /\ ~missed =>
      \/ \E u \in updates : u.nonce = reported
      \/ /\ accounts[Owner].lockup_update_nonce >= reported
         /\ tree[Owner].balance.near_balance
            = venear_locked_balance + accounts[Owner].deposit

KnownInv == NonceInv /\ DeployInv /\ ReportInv /\ OwnerInv /\ VersionInv /\ NewestInv

\* What the invariant reads of the lockup.
seen == <<deployed, deleting, version, first_nonce, lockup_update_nonce, updates, now,
          owner_calls, venear_locked_balance>>

\* The pool calls and their callbacks change none of it.
LEMMA PoolStepsUnseen ==
  ASSUME StakingCalls \/ (LockupReceipts /\ ~DeleteAccount)
  PROVE  UNCHANGED seen
<1> USE DEF seen, locks_, life
<1>1. CASE StakingCalls
  BY <1>1, Zenon DEF StakingCalls, select_staking_pool, unselect_staking_pool,
     deposit_to_staking_pool, refresh_staking_pool_balance, withdraw_from_staking_pool,
     withdraw_all_from_staking_pool, stake, unstake, unstake_all, MoveAtPool, transfer,
     PoolOwnerCall
<1>2. CASE LockupReceipts /\ ~DeleteAccount
  BY <1>2, Zenon DEF LockupReceipts, PoolRuns, PoolFails, PoolTransferArrives, RefundArrives,
     on_whitelist_is_whitelisted, on_staking_pool_deposit, on_staking_pool_withdraw,
     on_staking_pool_stake, on_get_account_total_balance,
     on_get_account_unstaked_balance_to_withdraw_by_owner, CallbackWithoutAccount,
     CallbackOf, CallbackFrame
<1> QED
  BY <1>1, <1>2

\* A step that changes nothing the view theorem speaks of preserves its invariant.
LEMMA UnseenKnown ==
  ASSUME KnownInv, UNCHANGED <<seen, accounts, tree, deploys, reported, missed>>
  PROVE  KnownInv'
  BY Zenon DEF KnownInv, NonceInv, DeployInv, ReportInv, OwnerInv, VersionInv, NewestInv, seen

\* A call of venear.rs reports what is locked after it, or asks for the deletion.
LEMMA VenearCallsReport ==
  ASSUME LockupTypeOK, VenearCalls
  PROVE  /\ deployed /\ owner_calls < MaxOwnerCalls /\ owner_calls' = owner_calls + 1
         /\ UNCHANGED <<deployed, version, first_nonce, now>>
         /\ \/ /\ UNCHANGED deleting
               /\ venear_lockup_update(venear_locked_balance')
            \/ /\ UNCHANGED <<lockup_update_nonce, updates, venear_locked_balance>>
               /\ deleting' = IF deleting = 0 THEN now ELSE deleting
<1> USE DEF locks_, life
<1>1. CASE lock_near
  BY <1>1, Zenon DEF lock_near, OwnerCall, SetLocked, venear_lockup_update
<1>2. CASE begin_unlock_near
  BY <1>2, Zenon DEF begin_unlock_near, OwnerCall, SetLocked, venear_lockup_update
<1>3. CASE end_unlock_near
  BY <1>3, Zenon DEF end_unlock_near, OwnerCall, SetLocked, venear_lockup_update
<1>4. CASE lock_pending_near
  BY <1>4, Zenon DEF lock_pending_near, OwnerCall, SetLocked, venear_lockup_update
<1>5. CASE delete_lockup
  BY <1>5 DEF delete_lockup
<1> QED
  BY <1>1, <1>2, <1>3, <1>4, <1>5, Zenon DEF VenearCalls

\* The owner's calls of venear.rs preserve what is known of the reports.
LEMMA VenearCallsKnown ==
  ASSUME SystemTypeOK, KnownInv, OwnerReports
  PROVE  KnownInv' /\ DeploysOK'
<1>1. UNCHANGED <<accounts, tree, deploys, deployments>>
  BY DEF OwnerReports, venear
<1>2. /\ deployed /\ owner_calls < MaxOwnerCalls /\ owner_calls' = owner_calls + 1
      /\ UNCHANGED <<deployed, version, first_nonce, now>>
  BY VenearCallsReport DEF SystemTypeOK, OwnerReports
<1>3. /\ owner_calls \in Nat /\ lockup_update_nonce \in Nat /\ first_nonce \in Nat
      /\ now \in Nat /\ MaxOwnerCalls \in Nat /\ reported \in Nat
      /\ updates \subseteq [version: Nat, locked: Nat, nonce: Nat]
  BY LockupBounds DEF SystemTypeOK, LockupTypeOK, DeploysOK
<1>4. DeployInv' /\ VersionInv'
  BY <1>1, <1>2, Zenon DEF DeployInv, VersionInv, KnownInv
<1>5. CASE UNCHANGED deleting /\ venear_lockup_update(venear_locked_balance')
  <2> DEFINE u == [version |-> version, locked |-> venear_locked_balance',
                   nonce |-> lockup_update_nonce + 1]
  <2>1. lockup_update_nonce' = lockup_update_nonce + 1 /\ updates' = updates \cup {u}
        /\ deleting' = deleting
    BY <1>5 DEF venear_lockup_update
  <2>2. u.version = version /\ u.locked = venear_locked_balance'
        /\ u.nonce = lockup_update_nonce + 1
    OBVIOUS
  <2> HIDE DEF u
  <2>3. reported' = lockup_update_nonce + 1
    <3>1. lockup_update_nonce' > lockup_update_nonce
      BY <1>3, <2>1
    <3> QED
      BY <2>1, <3>1, Zenon DEF OwnerReports
  <2>4. NonceInv'
    BY <1>2, <1>3, <2>1, <2>3 DEF NonceInv, KnownInv
  <2>5. ReportInv'
    <3>1. ASSUME NEW w \in updates
          PROVE  /\ w.nonce <= reported' /\ w.nonce # reported'
                 /\ w.nonce > first_nonce => w.version = version
      BY <1>3, <2>3 DEF ReportInv, KnownInv, NonceInv
    <3>2. u.nonce <= reported'
      BY <1>3, <2>2, <2>3
    <3> QED
      BY <1>2, <2>1, <2>2, <3>1, <3>2, Zenon DEF ReportInv
  <2>6. OwnerInv'
    <3>1. /\ Owner \in DOMAIN accounts
          /\ accounts[Owner].lockup_update_nonce <= lockup_update_nonce
          /\ accounts[Owner].lockup_update_nonce \in Nat
      BY <1>2 DEF KnownInv, OwnerInv, SystemTypeOK, RecordsOK, AccountInternal
    <3> QED
      BY <1>1, <1>3, <2>1, <3>1 DEF OwnerInv
  <2>7. NewestInv'
    BY <2>1, <2>2, <2>3, Zenon DEF NewestInv
  <2>8. DeploysOK'
    BY <1>1, <1>3, <2>3 DEF DeploysOK, SystemTypeOK
  <2> QED
    BY <1>4, <2>4, <2>5, <2>6, <2>7, <2>8, Zenon DEF KnownInv
<1>6. CASE /\ UNCHANGED <<lockup_update_nonce, updates, venear_locked_balance>>
           /\ deleting' = IF deleting = 0 THEN now ELSE deleting
  <2>1. UNCHANGED <<reported, missed>>
    <3>1. ~(lockup_update_nonce' > lockup_update_nonce)
      BY <1>3, <1>6
    <3> QED
      BY <3>1, Zenon DEF OwnerReports
  <2>2. NonceInv'
    <3>1. CASE deleting = 0
      <4>1. deleting' = now
        BY <1>6, <3>1
      <4> QED
        BY <1>2, <1>3, <1>6, <2>1, <4>1 DEF NonceInv, KnownInv
    <3>2. CASE deleting # 0
      <4>1. deleting' = deleting
        BY <1>6, <3>2
      <4> QED
        BY <1>2, <1>3, <1>6, <2>1, <4>1 DEF NonceInv, KnownInv
    <3> QED
      BY <3>1, <3>2
  <2>3. DeploysOK'
    BY <1>1, <1>3, <2>1, Zenon DEF DeploysOK, SystemTypeOK
  <2> QED
    BY <1>1, <1>2, <1>4, <1>6, <2>1, <2>2, <2>3, Zenon
       DEF KnownInv, ReportInv, OwnerInv, NewestInv
<1> QED
  BY <1>5, <1>6, VenearCallsReport DEF SystemTypeOK, OwnerReports

\* A lockup is deleted in a block after the one that asked for it.
LEMMA DeleteKnown ==
  ASSUME SystemTypeOK, KnownInv, DeleteAccount, ReceiptRuns
  PROVE  KnownInv'
<1>1. /\ UNCHANGED <<accounts, tree, deploys, reported, version, first_nonce,
                     lockup_update_nonce, updates, now, owner_calls>>
      /\ deployed' = FALSE /\ deleting' = 0 /\ 0 < deleting /\ deleting < now
      /\ venear_locked_balance' = 0
      /\ ~missed' => ~missed /\ venear_locked_balance' = venear_locked_balance
  BY Zenon DEF DeleteAccount, ReceiptRuns, venear
<1>2. /\ owner_calls \in Nat /\ lockup_update_nonce \in Nat /\ first_nonce \in Nat
      /\ now \in Nat /\ deleting \in Nat /\ MaxOwnerCalls \in Nat /\ NonceGap \in Nat
  BY LockupBounds DEF SystemTypeOK, LockupTypeOK
<1>3. lockup_update_nonce < (now - 1) * NonceGap
  <2> DEFINE d == deleting - 1
             g == d * NonceGap
             h == (d + 1) * NonceGap
             k == (now - 1) * NonceGap
  <2>1. d \in Nat /\ d + 1 \in Nat /\ now - 1 \in Nat /\ d + 1 <= now - 1
    BY <1>1, <1>2
  <2> HIDE DEF d
  <2>2. h = g + NonceGap /\ g \in Nat /\ h <= k /\ h \in Nat /\ k \in Nat
    <3>1. h = g + NonceGap /\ g \in Nat
      BY <2>1, NonceReserve
    <3>2. h <= k /\ h \in Nat
      BY <2>1, NonceGrows
    <3> QED
      BY <1>2, <2>1, <3>1, <3>2
  <2>3. /\ first_nonce <= g /\ lockup_update_nonce <= first_nonce + owner_calls
        /\ owner_calls <= MaxOwnerCalls
    BY <1>1 DEF NonceInv, KnownInv, d
  <2> HIDE DEF g, h, k
  <2>4. lockup_update_nonce < k
    BY <1>2, <2>2, <2>3, NonceAssumption
  <2> QED
    BY <2>4 DEF k
<1>4. NonceInv'
  BY <1>1, <1>2, <1>3 DEF NonceInv, KnownInv
<1>5. DeployInv' /\ ReportInv' /\ OwnerInv'
  BY <1>1, Zenon DEF KnownInv, DeployInv, ReportInv, OwnerInv
<1>6. VersionInv' /\ NewestInv'
  BY <1>1, Zenon DEF KnownInv, VersionInv, NewestInv
<1> QED
  BY <1>4, <1>5, <1>6, Zenon DEF KnownInv

\* The clock waits for a deployment to be created.
LEMMA ClockKnown ==
  ASSUME SystemTypeOK, KnownInv, ClockTicks
  PROVE  KnownInv'
<1>1. /\ UNCHANGED <<accounts, tree, deploys, reported, missed, deployed, deleting, version,
                     first_nonce, lockup_update_nonce, updates, owner_calls,
                     venear_locked_balance>>
      /\ now' = now + 1 /\ \A m \in deploys : m.step = "create" => m.height >= now
  BY DEF ClockTicks, Tick, PoolRewards, locks_, life, venear, system
<1>2. /\ now \in Nat /\ deleting \in Nat /\ lockup_update_nonce \in Nat /\ first_nonce \in Nat
      /\ deploys \subseteq Deployment /\ now >= 1
  BY DEF SystemTypeOK, LockupTypeOK, DeploysOK, KnownInv, NonceInv
<1>3. /\ (now - 1) * NonceGap \in Nat /\ (now - 1) * NonceGap <= (now' - 1) * NonceGap
      /\ (now' - 1) * NonceGap \in Nat
  <2>1. now - 1 \in Nat /\ now' - 1 \in Nat /\ now - 1 <= now' - 1 /\ now' - 1 <= now' - 1
    BY <1>1, <1>2
  <2> QED
    BY <2>1, NonceGrows
<1>4. NonceInv'
  <2> DEFINE g == (now - 1) * NonceGap
             h == (now' - 1) * NonceGap
  <2>1. g \in Nat /\ h \in Nat /\ g <= h
    BY <1>3
  <2>2. /\ ~deployed => lockup_update_nonce = 0 \/ lockup_update_nonce < g
        /\ deployed => first_nonce <= g
    BY DEF KnownInv, NonceInv
  <2> HIDE DEF g, h
  <2>3. /\ ~deployed => lockup_update_nonce = 0 \/ lockup_update_nonce < h
        /\ deployed => first_nonce <= h
    BY <1>2, <2>1, <2>2
  <2>4. now' >= 1 /\ \A d \in Nat : d <= now => d <= now'
    BY <1>1, <1>2
  <2> QED
    BY <1>1, <1>2, <2>3, <2>4 DEF KnownInv, NonceInv, h
<1>5. DeployInv'
  BY <1>1, <1>2 DEF DeployInv, KnownInv, Deployment
<1> QED
  BY <1>1, <1>4, <1>5, Zenon DEF KnownInv, ReportInv, OwnerInv, VersionInv, NewestInv

\* The calls of users and of the owner.
LEMMA UserCallsKnown ==
  ASSUME SystemTypeOK, KnownInv, V!VenearCalls, UNCHANGED <<lockupVars, system>>
  PROVE  KnownInv'
<1>1. UNCHANGED <<deployed, deleting, version, first_nonce, lockup_update_nonce, updates,
                  now, owner_calls, venear_locked_balance, deploys, reported, missed>>
  BY DEF lockupVars, locks_, life, system
<1>2. /\ DOMAIN accounts \subseteq DOMAIN accounts'
      /\ Owner \in DOMAIN accounts =>
           /\ accounts'[Owner] = accounts[Owner]
           /\ tree'[Owner].balance.near_balance = tree[Owner].balance.near_balance
      /\ Owner \in DOMAIN accounts' \ DOMAIN accounts =>
           /\ accounts'[Owner].lockup_update_nonce = 0
           /\ tree'[Owner].balance.near_balance = accounts'[Owner].deposit
           /\ accounts'[Owner].deposit \in Nat
  BY VenearCallsRecords, Zenon DEF SystemTypeOK, RecordsOK, AccountInternal
<1>3. lockup_update_nonce \in Nat /\ first_nonce \in Nat
  BY DEF SystemTypeOK, LockupTypeOK
<1>4. NonceInv' /\ DeployInv' /\ ReportInv'
  BY <1>1, Zenon DEF KnownInv, NonceInv, DeployInv, ReportInv
<1>5. CASE Owner \in DOMAIN accounts
  <2>1. OwnerInv' /\ VersionInv' /\ NewestInv'
    BY <1>1, <1>2, <1>5, Zenon DEF KnownInv, OwnerInv, VersionInv, NewestInv
  <2> QED
    BY <1>4, <2>1, Zenon DEF KnownInv
<1>6. CASE Owner \notin DOMAIN accounts
  <2>1. ~deployed /\ deploys = {} /\ updates = {} /\ reported = 0
    BY <1>6, Zenon DEF KnownInv, OwnerInv
  <2>2. venear_locked_balance = 0
    BY <2>1, Zenon DEF KnownInv, NonceInv
  <2>3. OwnerInv'
    <3>1. 0 <= lockup_update_nonce
      BY <1>3
    <3> QED
      BY <1>1, <1>2, <1>6, <2>1, <3>1, Zenon DEF OwnerInv
  <2>4. VersionInv'
    <3>1. ~(0 > first_nonce)
      BY <1>3
    <3> QED
      BY <1>1, <1>2, <1>6, <2>1, <3>1, Zenon DEF VersionInv
  <2>5. NewestInv'
    <3>1. 0 >= 0 /\ \A d \in Nat : d = 0 + d
      OBVIOUS
    <3> QED
      BY <1>1, <1>2, <1>6, <2>1, <2>2, <3>1, Zenon DEF NewestInv
  <2> QED
    BY <1>4, <2>3, <2>4, <2>5, Zenon DEF KnownInv
<1> QED
  BY <1>5, <1>6, Zenon

\* A deployment is asked for.
LEMMA DeployKnown ==
  ASSUME SystemTypeOK, KnownInv, NEW d \in Deposits, deploy_lockup(d)
  PROVE  KnownInv' /\ SystemTypeOK'
<1> DEFINE m == [step |-> "create", id |-> deployments, version |-> config.lockup_version,
                 nonce |-> NewNonce, deposit |-> d, height |-> now, ok |-> FALSE]
<1>1. /\ UNCHANGED <<lockupVars, reported, missed, config, accounts, tree>>
      /\ Owner \in DOMAIN accounts /\ deploys' = deploys \cup {m}
      /\ deployments' = deployments + 1
  BY Zenon DEF deploy_lockup, V!deploy_lockup, V!venearVars
<1>2. UNCHANGED <<deployed, deleting, version, first_nonce, lockup_update_nonce, updates,
                  now, owner_calls, venear_locked_balance>>
  BY <1>1, Zenon DEF lockupVars, locks_, life
<1>3. now \in Nat /\ now >= 1 /\ NewNonce \in Nat
  BY LockupBounds DEF SystemTypeOK, LockupTypeOK, KnownInv, NonceInv, NewNonce
<1>4. m \in Deployment
  BY <1>3, LockupAmounts, Zenon DEF Deployment, SystemTypeOK, RecordsOK, DeploysOK, Config
<1>5. DeployInv'
  <2>1. m.nonce = m.height * NonceGap /\ ~m.ok /\ m.height = now
    BY DEF NewNonce
  <2>2. 1 <= now /\ now - 1 <= now /\ now <= now
    BY <1>3
  <2> HIDE DEF m
  <2> QED
    BY <1>1, <1>2, <2>1, <2>2, Zenon DEF KnownInv, DeployInv
<1>6. KnownInv'
  BY <1>1, <1>2, <1>5, Zenon DEF KnownInv, NonceInv, ReportInv, OwnerInv, VersionInv, NewestInv
<1>7. LockupTypeOK'
  BY <1>1, Zenon DEF lockupVars, locks_, life, staking, SystemTypeOK, LockupTypeOK
<1>8. RecordsOK'
  BY <1>1, Zenon DEF SystemTypeOK, RecordsOK, Config, AccountInternal, Fields, V!Balance
<1>9. DeploysOK'
  <2> HIDE DEF m
  <2> QED
    BY <1>1, <1>4 DEF SystemTypeOK, DeploysOK
<1> QED
  BY <1>6, <1>7, <1>8, <1>9 DEF SystemTypeOK

\* The deployments and the reports on their way are of their types.
LEMMA ReceiptType ==
  ASSUME SystemTypeOK
  PROVE  /\ \A m \in deploys :
              /\ m \in Deployment /\ m.nonce \in Nat /\ m.height \in Nat
              /\ m.version \in Nat /\ m.deposit \in Nat
         /\ \A u \in updates : u \in [version: Nat, locked: Nat, nonce: Nat]
                              /\ u.nonce \in Nat /\ u.locked \in Nat
  BY DEF SystemTypeOK, DeploysOK, Deployment, LockupTypeOK

\* The lockup is created, or its account exists and the deployment fails.
LEMMA CreateKnown ==
  ASSUME SystemTypeOK, KnownInv, NEW m \in deploys, CreateLockup(m)
  PROVE  KnownInv' /\ SystemTypeOK'
<1>1. /\ UNCHANGED <<accounts, tree, config, deployments, reported, missed>>
      /\ m.step = "create" /\ m.height < now
  BY DEF CreateLockup, venear
<1>2. /\ m \in Deployment /\ m.nonce \in Nat /\ m.height \in Nat
      /\ m.version \in Nat /\ m.deposit \in Nat
      /\ m.nonce = m.height * NonceGap /\ 1 <= m.height /\ now - 1 <= m.height /\ ~m.ok
  BY <1>1, ReceiptType DEF KnownInv, DeployInv
<1>3. /\ now \in Nat /\ lockup_update_nonce \in Nat /\ first_nonce \in Nat /\ owner_calls \in Nat
      /\ deleting \in Nat /\ reported \in Nat /\ reported <= lockup_update_nonce
  BY DEF SystemTypeOK, LockupTypeOK, DeploysOK, KnownInv, NonceInv
<1>4. RecordsOK'
  BY <1>1, Zenon DEF SystemTypeOK, RecordsOK, Config, AccountInternal, Fields, V!Balance
<1>5. CASE /\ new(m.version, m.nonce, m.deposit)
           /\ deploys' = (deploys \ {m}) \cup {[m EXCEPT !.step = "callback", !.ok = TRUE]}
  <2> DEFINE c == [m EXCEPT !.step = "callback", !.ok = TRUE]
  <2>1. /\ c \in Deployment /\ c.step = "callback" /\ c.nonce = m.nonce
        /\ c.ok /\ c.version = m.version
    BY <1>2, Zenon DEF Deployment
  <2>2. deploys' = (deploys \ {m}) \cup {c}
    BY <1>5
  <2> HIDE DEF c
  <2>3. /\ ~deployed /\ deployed' = TRUE /\ version' = m.version /\ first_nonce' = m.nonce
        /\ lockup_update_nonce' = m.nonce /\ venear_locked_balance' = 0
        /\ UNCHANGED <<deleting, updates, now, owner_calls, venear_locked_balance>>
    BY <1>5 DEF new, KnownInv, NonceInv
  <2>4. LockupTypeOK'
    BY <1>2, <1>5, NewType DEF SystemTypeOK
  <2>5. DeploysOK'
    BY <1>1, <2>1, <2>2 DEF DeploysOK, SystemTypeOK
  <2>6. m.nonce <= (now - 1) * NonceGap /\ (now - 1) * NonceGap <= m.nonce
    <3>1. now - 1 \in Nat /\ m.height <= now - 1
      BY <1>1, <1>2, <1>3
    <3>2. m.height * NonceGap <= (now - 1) * NonceGap
      BY <1>2, <3>1, NonceGrows
    <3>3. (now - 1) * NonceGap <= m.height * NonceGap
      BY <1>2, <3>1, NonceGrows
    <3> QED
      BY <1>2, <3>2, <3>3
  <2>7. lockup_update_nonce < m.nonce
    <3> DEFINE g == (now - 1) * NonceGap
    <3>1. g <= m.nonce /\ (lockup_update_nonce = 0 \/ lockup_update_nonce < g)
      BY <2>3, <2>6 DEF KnownInv, NonceInv
    <3>2. g \in Nat
      BY <1>1, <1>2, <1>3, LockupBounds
    <3>3. NonceGap <= m.nonce
      BY <1>2, NonceGrows, LockupBounds
    <3> HIDE DEF g
    <3> QED
      BY <1>2, <1>3, <3>1, <3>2, <3>3, NonceAssumption, LockupBounds
  <2>8. NonceInv'
    BY <1>1, <1>2, <1>3, <2>3, <2>6, <2>7 DEF KnownInv, NonceInv
  <2>9. DeployInv'
    <3>1. ASSUME NEW x \in deploys
          PROVE  /\ x.step = "create" =>
                      /\ x.nonce = x.height * NonceGap /\ ~x.ok
                      /\ 1 <= x.height /\ now' - 1 <= x.height /\ x.height <= now'
                 /\ x.ok => x.nonce <= first_nonce' /\ x.nonce # first_nonce'
      <4>1. x.nonce \in Nat
        BY ReceiptType
      <4>2. x.ok => x.nonce <= first_nonce' /\ x.nonce # first_nonce'
        BY <1>2, <1>3, <2>3, <2>7, <4>1 DEF KnownInv, DeployInv, NonceInv
      <4> QED
        BY <2>3, <4>2, Zenon DEF KnownInv, DeployInv
    <3>2. c.step # "create" /\ c.nonce <= first_nonce' /\ c.version = version'
      BY <1>2, <2>1, <2>3
    <3> QED
      BY <2>2, <3>1, <3>2, Zenon DEF DeployInv
  <2>10. ReportInv'
    <3>1. ASSUME NEW u \in updates PROVE ~(u.nonce > m.nonce)
      BY <1>2, <1>3, <2>7, ReceiptType DEF KnownInv, ReportInv
    <3> QED
      BY <1>1, <2>3, <3>1, Zenon DEF KnownInv, ReportInv
  <2>11. /\ Owner \in DOMAIN accounts /\ accounts[Owner].lockup_update_nonce <= lockup_update_nonce
         /\ accounts[Owner].lockup_update_nonce \in Nat
    BY Zenon DEF KnownInv, OwnerInv, SystemTypeOK, RecordsOK, AccountInternal
  <2>12. OwnerInv' /\ VersionInv'
    <3> DEFINE z == accounts[Owner].lockup_update_nonce
    <3>1. z \in Nat /\ z <= lockup_update_nonce /\ lockup_update_nonce < m.nonce
          /\ m.nonce \in Nat /\ lockup_update_nonce \in Nat
      BY <1>2, <1>3, <2>7, <2>11, Zenon
    <3> HIDE DEF z
    <3>2. z <= m.nonce /\ ~(z > m.nonce)
      BY <3>1
    <3> QED
      BY <1>1, <2>1, <2>2, <2>3, <2>11, <3>2, Zenon DEF OwnerInv, VersionInv, z
  <2>13. NewestInv'
    BY <1>1, <2>3, Zenon DEF KnownInv, NewestInv
  <2> QED
    BY <1>4, <2>4, <2>5, <2>8, <2>9, <2>10, <2>12, <2>13, Zenon DEF KnownInv, SystemTypeOK
<1>6. CASE /\ deployed /\ UNCHANGED lockupVars
           /\ deploys' = (deploys \ {m}) \cup {[m EXCEPT !.step = "callback"]}
  <2> DEFINE c == [m EXCEPT !.step = "callback"]
  <2>1. c \in Deployment /\ c.step = "callback" /\ ~c.ok
    BY <1>2 DEF Deployment
  <2>2. deploys' = (deploys \ {m}) \cup {c}
    BY <1>6
  <2> HIDE DEF c
  <2>3. UNCHANGED seen
    BY <1>6 DEF lockupVars, locks_, life, seen
  <2>4. LockupTypeOK'
    BY <1>6 DEF lockupVars, locks_, life, staking, SystemTypeOK, LockupTypeOK
  <2>5. DeploysOK'
    BY <1>1, <2>1, <2>2 DEF DeploysOK, SystemTypeOK
  <2>6. DeployInv'
    BY <2>1, <2>2, <2>3, Zenon DEF KnownInv, DeployInv, seen
  <2>7. NonceInv' /\ ReportInv' /\ OwnerInv' /\ NewestInv'
    BY <1>1, <1>6, <2>3, Zenon DEF KnownInv, NonceInv, ReportInv, OwnerInv, NewestInv, seen
  <2>8. VersionInv'
    BY <1>1, <1>2, <2>2, <2>3, Zenon DEF KnownInv, VersionInv, seen
  <2> QED
    BY <1>4, <2>4, <2>5, <2>6, <2>7, <2>8, Zenon DEF KnownInv, SystemTypeOK
<1> QED
  BY <1>5, <1>6, Zenon DEF CreateLockup

\* The callback of a deployment.
LEMMA DeployedKnown ==
  ASSUME SystemTypeOK, KnownInv, NEW m \in deploys, LockupDeployed(m)
  PROVE  KnownInv' /\ SystemTypeOK'
<1>1. UNCHANGED <<lockupVars, deployments, reported, missed>> /\ deploys' = deploys \ {m}
  BY DEF LockupDeployed
<1>2. UNCHANGED seen
  BY <1>1 DEF lockupVars, locks_, life, seen
<1>3. /\ m.nonce \in Nat /\ m.version \in Nat
      /\ m.ok => /\ m.nonce <= first_nonce
                 /\ m.nonce = first_nonce => m.version = version
  BY ReceiptType DEF KnownInv, DeployInv
<1>4. /\ Owner \in DOMAIN accounts /\ accounts[Owner].lockup_update_nonce \in Nat
      /\ accounts[Owner].lockup_update_nonce <= lockup_update_nonce
      /\ first_nonce <= lockup_update_nonce
      /\ first_nonce \in Nat /\ lockup_update_nonce \in Nat /\ reported \in Nat
  BY Zenon DEF KnownInv, OwnerInv, NonceInv, DeploysOK, SystemTypeOK, RecordsOK, AccountInternal, LockupTypeOK
<1>5. LockupTypeOK' /\ DeploysOK'
  <2>1. LockupTypeOK'
    BY <1>1 DEF lockupVars, locks_, life, staking, SystemTypeOK, LockupTypeOK
  <2> QED
    BY <1>1, <2>1, Zenon DEF SystemTypeOK, DeploysOK
<1>6. NonceInv' /\ DeployInv' /\ ReportInv'
  BY <1>1, <1>2, Zenon DEF KnownInv, NonceInv, DeployInv, ReportInv, seen
<1>7. /\ RecordsOK' /\ DOMAIN accounts' = DOMAIN accounts /\ tree' = tree
      /\ accounts'[Owner].deposit = accounts[Owner].deposit
      /\ \/ ~m.ok /\ accounts'[Owner] = accounts[Owner]
         \/ /\ m.ok /\ ~(accounts[Owner].lockup_update_nonce <= m.nonce)
            /\ accounts'[Owner] = accounts[Owner]
         \/ /\ m.ok /\ accounts[Owner].lockup_update_nonce <= m.nonce
            /\ accounts'[Owner].lockup_update_nonce = m.nonce
            /\ accounts'[Owner].lockup_version = m.version
  <2>1. CASE m.ok
    BY <1>3, <1>4, <2>1, DeployedRecords, Zenon DEF LockupDeployed, SystemTypeOK
  <2>2. CASE ~m.ok
    <3>1. UNCHANGED <<config, accounts, tree>>
      BY <2>2 DEF LockupDeployed, venear
    <3>2. RecordsOK'
      BY <3>1, Zenon DEF SystemTypeOK, RecordsOK, Config, AccountInternal, Fields, V!Balance
    <3> QED
      BY <2>2, <3>1, <3>2, Zenon
  <2> QED
    BY <2>1, <2>2, Zenon
<1> DEFINE z == accounts[Owner].lockup_update_nonce
\* Nothing is recorded: the deployment failed.
<1>8. CASE ~m.ok /\ accounts'[Owner] = accounts[Owner]
  BY <1>1, <1>2, <1>5, <1>6, <1>7, <1>8, Zenon
     DEF KnownInv, SystemTypeOK, OwnerInv, VersionInv, NewestInv, seen
\* Nothing is recorded: a report of this lockup or of a later one came first.
<1>9. CASE m.ok /\ ~(z <= m.nonce) /\ accounts'[Owner] = accounts[Owner]
  <2>1. OwnerInv' /\ NewestInv'
    BY <1>1, <1>2, <1>7, <1>9, Zenon DEF KnownInv, OwnerInv, NewestInv, seen
  <2>2. m.nonce = first_nonce =>
          z > first_nonce /\ z >= first_nonce /\ accounts[Owner].lockup_version = version
    <3>1. m.nonce = first_nonce => z > first_nonce /\ z >= first_nonce
      <4>1. z \in Nat /\ m.nonce \in Nat /\ ~(z <= m.nonce)
        BY <1>3, <1>4, <1>9
      <4> HIDE DEF z
      <4> QED
        BY <4>1
    <3> QED
      BY <1>4, <3>1, Zenon DEF KnownInv, VersionInv
  <2>3. VersionInv'
    BY <1>1, <1>2, <1>7, <1>9, <2>2, Zenon DEF KnownInv, VersionInv, seen
  <2> QED
    BY <1>5, <1>6, <1>7, <2>1, <2>3, Zenon DEF KnownInv, SystemTypeOK
<1>10. CASE /\ m.ok /\ z <= m.nonce /\ accounts'[Owner].lockup_update_nonce = m.nonce
            /\ accounts'[Owner].lockup_version = m.version
  <2>1. m.nonce <= lockup_update_nonce /\ ~(m.nonce > first_nonce) /\ m.nonce <= first_nonce
    BY <1>3, <1>4, <1>10
  <2>2. z >= reported => m.nonce >= reported
    <3>1. z \in Nat /\ m.nonce \in Nat /\ reported \in Nat /\ z <= m.nonce
      BY <1>3, <1>4, <1>10
    <3> HIDE DEF z
    <3> QED
      BY <3>1
  <2>3. OwnerInv'
    BY <1>2, <1>4, <1>7, <1>10, <2>1, Zenon DEF OwnerInv, seen
  <2>4. NewestInv'
    BY <1>1, <1>2, <1>4, <1>7, <1>10, <2>2, Zenon DEF KnownInv, NewestInv, seen
  <2>5. VersionInv'
    <3>1. CASE m.nonce = first_nonce
      <4>1. m.version = version /\ m.nonce >= first_nonce
        BY <1>3, <1>4, <1>10, <3>1
      <4> QED
        BY <1>2, <1>7, <1>10, <2>1, <4>1, Zenon DEF VersionInv, seen
    <3>2. CASE m.nonce # first_nonce
      <4>1. ~(z >= first_nonce)
        <5>1. z \in Nat /\ m.nonce \in Nat /\ first_nonce \in Nat /\ z <= m.nonce
          BY <1>3, <1>4, <1>10
        <5> HIDE DEF z
        <5> QED
          BY <2>1, <3>2, <5>1
      <4> QED
        BY <1>1, <1>2, <1>7, <1>10, <2>1, <3>2, <4>1, Zenon DEF KnownInv, VersionInv, seen
    <3> QED
      BY <3>1, <3>2, Zenon
  <2> QED
    BY <1>5, <1>6, <1>7, <2>3, <2>4, <2>5, Zenon DEF KnownInv, SystemTypeOK
<1> QED
  BY <1>7, <1>8, <1>9, <1>10, Zenon

\* A report arrives.
LEMMA ArrivesKnown ==
  ASSUME SystemTypeOK, KnownInv, NEW u \in updates, UpdateArrives(u)
  PROVE  KnownInv' /\ SystemTypeOK'
<1>1. updates' = updates \ {u} /\ UNCHANGED <<lockupRest, deploys, deployments, reported>>
  BY DEF UpdateArrives
<1>2. UNCHANGED <<deployed, deleting, version, first_nonce, lockup_update_nonce, now,
                  owner_calls, venear_locked_balance>>
  BY <1>1 DEF lockupRest, life
<1>3. u.nonce \in Nat /\ u.locked \in Nat /\ u \in [version: Nat, locked: Nat, nonce: Nat]
  BY ReceiptType
<1>4. /\ u.nonce <= reported /\ reported <= lockup_update_nonce
      /\ u.nonce > first_nonce => u.version = version
      /\ u.nonce = reported /\ ~missed => u.locked = venear_locked_balance
  BY Zenon DEF KnownInv, ReportInv, NonceInv
<1>5. /\ Owner \in DOMAIN accounts /\ accounts[Owner].lockup_update_nonce \in Nat
      /\ first_nonce \in Nat /\ lockup_update_nonce \in Nat /\ reported \in Nat
  BY Zenon DEF KnownInv, OwnerInv, SystemTypeOK, RecordsOK, AccountInternal, LockupTypeOK, DeploysOK
<1>6. LockupTypeOK' /\ DeploysOK'
  <2>1. LockupTypeOK'
    BY <1>1 DEF lockupRest, life, staking, SystemTypeOK, LockupTypeOK
  <2> QED
    BY <1>1, <2>1, Zenon DEF SystemTypeOK, DeploysOK
<1>7. NonceInv' /\ DeployInv'
  BY <1>1, <1>2, Zenon DEF KnownInv, NonceInv, DeployInv
<1>8. ASSUME NEW w \in updates, w.nonce = reported, u.nonce # reported
      PROVE  w \in updates'
  BY <1>1, <1>8
<1>9. CASE V!on_lockup_update(Owner, u) /\ UNCHANGED missed
  <2> DEFINE z == accounts[Owner].lockup_update_nonce
  <2>1. /\ RecordsOK' /\ DOMAIN accounts' = DOMAIN accounts
        /\ u.nonce > z /\ accounts[Owner].lockup_version = u.version
        /\ accounts'[Owner].lockup_version = u.version
        /\ accounts'[Owner].lockup_update_nonce = u.nonce
        /\ accounts'[Owner].deposit = accounts[Owner].deposit
        /\ tree'[Owner].balance.near_balance = u.locked + accounts[Owner].deposit
    BY <1>3, <1>9, UpdateRecords, Zenon DEF SystemTypeOK
  <2>2. /\ z >= first_nonce => u.nonce >= first_nonce
        /\ u.nonce # reported => ~(z >= reported)
        /\ u.nonce <= lockup_update_nonce /\ (u.nonce = reported => u.nonce >= reported)
    <3>1. /\ z \in Nat /\ u.nonce \in Nat /\ first_nonce \in Nat /\ reported \in Nat
          /\ lockup_update_nonce \in Nat /\ u.nonce > z /\ u.nonce <= reported
          /\ reported <= lockup_update_nonce
      BY <1>3, <1>4, <1>5, <2>1, Zenon
    <3> HIDE DEF z
    <3> QED
      BY <3>1
  <2>3. OwnerInv' /\ ReportInv'
    BY <1>1, <1>2, <1>5, <1>9, <2>1, <2>2, Zenon DEF KnownInv, OwnerInv, ReportInv
  <2>4. VersionInv'
    BY <1>1, <1>2, <1>4, <2>1, <2>2, Zenon DEF KnownInv, VersionInv
  <2>5. NewestInv'
    <3>1. CASE u.nonce = reported
      BY <1>1, <1>2, <1>4, <1>9, <2>1, <2>2, <3>1, Zenon DEF NewestInv
    <3>2. CASE u.nonce # reported
      BY <1>1, <1>2, <1>5, <1>8, <1>9, <2>1, <2>2, <3>2, Zenon DEF KnownInv, NewestInv
    <3> QED
      BY <3>1, <3>2, Zenon
  <2> QED
    BY <1>6, <1>7, <2>1, <2>3, <2>4, <2>5, Zenon DEF KnownInv, SystemTypeOK
<1>10. CASE V!UpdateRefused(Owner, u) /\ missed' = (missed \/ u.nonce = reported)
  <2>1. UNCHANGED <<config, accounts, tree>>
    BY <1>10, Zenon DEF V!UpdateRefused, V!venearVars
  <2>2. RecordsOK'
    BY <2>1, Zenon DEF SystemTypeOK, RecordsOK, Config, AccountInternal, Fields, V!Balance
  <2>3. ~missed' => ~missed /\ u.nonce # reported
    BY <1>10, Zenon
  <2>4. OwnerInv' /\ ReportInv' /\ VersionInv'
    BY <1>1, <1>2, <1>5, <2>1, <2>3, Zenon DEF KnownInv, OwnerInv, ReportInv, VersionInv
  <2>5. NewestInv'
    BY <1>1, <1>2, <1>8, <2>1, <2>3, Zenon DEF KnownInv, NewestInv
  <2> QED
    BY <1>6, <1>7, <2>2, <2>4, <2>5, Zenon DEF KnownInv, SystemTypeOK
<1> QED
  BY <1>9, <1>10, Zenon DEF UpdateArrives

-----------------------------------------------------------------------------
(* The theorem. *)

\* The types hold at the start and after every step.
LEMMA SystemInit == Init => SystemTypeOK /\ KnownInv
<1> SUFFICES ASSUME Init PROVE SystemTypeOK /\ KnownInv
  OBVIOUS
<1>1. LockupTypeOK /\ DeploysOK
  BY InitType DEF Init, DeploysOK
<1>2. V!Max(LocalDeposits) \in Nat
  <2>1. PICK d \in LocalDeposits : \A e \in LocalDeposits : d >= e
    BY VenearAssumption
  <2> QED
    BY <2>1, VenearAssumption DEF V!Max
<1>3. RecordsOK
  <2>1. /\ config = [lockup_version |-> 1, local_deposit |-> V!Max(LocalDeposits),
                     max_delegations |-> V!Max(MaxDelegations)]
        /\ accounts = [a \in Registered |-> V!NewInternal(config.local_deposit)]
        /\ tree = [a \in Registered |-> V!NewAccount(config.local_deposit)]
    BY DEF Init, V!VenearInit
  <2>2. config \in Config
    BY <1>2, <2>1, Zenon DEF Config
  <2>3. V!NewInternal(config.local_deposit) \in AccountInternal
    BY <2>2 DEF Config, AccountInternal, V!NewInternal
  <2>4. Fields(V!NewAccount(config.local_deposit))
    BY Zenon DEF Fields, V!NewAccount, V!Balance
  <2> QED
    BY <2>1, <2>2, <2>3, <2>4, VenearAssumption DEF RecordsOK
<1>4. KnownInv
  <2>1. Owner \in DOMAIN accounts =>
          /\ accounts[Owner].lockup_update_nonce = 0
          /\ tree[Owner].balance.near_balance = accounts[Owner].deposit
          /\ accounts[Owner].deposit \in Nat
    BY <1>3, Zenon DEF Init, V!VenearInit, V!NewInternal, V!NewAccount, V!Balance, RecordsOK,
       AccountInternal
  <2>2. /\ now = 1 /\ owner_calls = 0 /\ first_nonce = 0 /\ lockup_update_nonce = 0
        /\ reported = 0 /\ ~deployed /\ deleting = 0 /\ venear_locked_balance = 0
        /\ deploys = {} /\ updates = {}
    BY Zenon DEF Init, LockupInit
  <2>3. NonceInv
    BY <2>2, LockupBounds DEF NonceInv
  <2>4. DeployInv /\ ReportInv
    BY <2>2, Zenon DEF DeployInv, ReportInv
  <2>5. 0 <= 0 /\ 0 >= 0 /\ ~(0 > 0) /\ \A d \in Nat : d = 0 + d
    OBVIOUS
  <2>6. OwnerInv /\ VersionInv /\ NewestInv
    BY <2>1, <2>2, <2>5, Zenon DEF OwnerInv, VersionInv, NewestInv
  <2> QED
    BY <2>3, <2>4, <2>6, Zenon DEF KnownInv
<1> QED
  BY <1>1, <1>3, <1>4 DEF SystemTypeOK

\* Every step of the system preserves the types and what is known of the reports.
LEMMA SystemStep ==
  ASSUME SystemTypeOK, KnownInv, [Next]_vars
  PROVE  SystemTypeOK' /\ KnownInv'
<1>1. ASSUME UNCHANGED venear PROVE RecordsOK'
  BY <1>1, Zenon DEF venear, SystemTypeOK, RecordsOK, Config, AccountInternal, Fields, V!Balance
<1>2. ASSUME UNCHANGED <<deploys, deployments, reported>> PROVE DeploysOK'
  BY <1>2, Zenon DEF SystemTypeOK, DeploysOK
<1>3. CASE OwnerReports
  <2>1. LockupTypeOK'
    BY <1>3, VenearCallsType DEF SystemTypeOK, OwnerReports
  <2> QED
    BY <1>1, <1>3, <2>1, VenearCallsKnown, Zenon DEF SystemTypeOK, OwnerReports
<1>4. CASE ReceiptRuns
  <2>1. LockupTypeOK' /\ RecordsOK' /\ DeploysOK'
    BY <1>1, <1>2, <1>4, PoolReceiptsType, CallbacksType, LifeType
       DEF SystemTypeOK, LockupReceipts, ReceiptRuns
  <2>2. CASE DeleteAccount
    BY <1>4, <2>1, <2>2, DeleteKnown DEF SystemTypeOK
  <2>3. CASE ~DeleteAccount
    <3>1. UNCHANGED seen
      BY <1>4, <2>3, PoolStepsUnseen DEF ReceiptRuns
    <3>2. /\ UNCHANGED <<accounts, tree, deploys, reported>> /\ (missed' <=> missed)
          /\ UNCHANGED venear_locked_balance
      BY <1>4, <3>1, Zenon DEF ReceiptRuns, venear, seen
    <3>3. NonceInv' /\ DeployInv' /\ ReportInv' /\ OwnerInv' /\ VersionInv' /\ NewestInv'
      BY <3>1, <3>2, Zenon
         DEF KnownInv, NonceInv, DeployInv, ReportInv, OwnerInv, VersionInv, NewestInv, seen
    <3> QED
      BY <2>1, <3>3, Zenon DEF KnownInv, SystemTypeOK
  <2> QED
    BY <2>2, <2>3
<1>5. CASE StakingCalls /\ UNCHANGED <<venear, system>>
  <2>1. LockupTypeOK'
    BY <1>5, StakingCallsType DEF SystemTypeOK
  <2>2. UNCHANGED <<seen, accounts, tree, deploys, deployments, reported, missed>>
    BY <1>5, PoolStepsUnseen DEF venear, system
  <2> QED
    BY <1>1, <1>2, <1>5, <2>1, <2>2, UnseenKnown DEF SystemTypeOK
<1>6. CASE V!VenearCalls /\ UNCHANGED <<lockupVars, system>>
  <2>1. LockupTypeOK' /\ DeploysOK'
    <3>1. LockupTypeOK'
      BY <1>6 DEF lockupVars, locks_, life, staking, SystemTypeOK, LockupTypeOK
    <3> QED
      BY <1>6, <3>1, Zenon DEF system, SystemTypeOK, DeploysOK
  <2> QED
    BY <1>6, <2>1, VenearCallsRecords, UserCallsKnown DEF SystemTypeOK
<1>7. CASE ClockTicks
  <2>1. LockupTypeOK'
    BY <1>7, PoolReceiptsType, LifeType DEF ClockTicks, SystemTypeOK
  <2> QED
    BY <1>1, <1>2, <1>7, <2>1, ClockKnown DEF ClockTicks, SystemTypeOK, system
<1>8. CASE UNCHANGED vars
  <2>1. /\ UNCHANGED <<venear, system>>
        /\ UNCHANGED <<seen, accounts, tree, deploys, deployments, reported, missed>>
    BY <1>8, Zenon DEF vars, lockupVars, locks_, life, seen, venear, system
  <2>2. LockupTypeOK'
    BY <1>8, Zenon DEF vars, lockupVars, locks_, life, staking, SystemTypeOK, LockupTypeOK
  <2> QED
    BY <1>1, <1>2, <2>1, <2>2, UnseenKnown DEF SystemTypeOK
<1> QED
  BY <1>3, <1>6, <1>7, <1>8, <1>4, <1>5, DeployKnown, CreateKnown, DeployedKnown, ArrivesKnown
     DEF Next

\* Once every receipt has arrived, what veNEAR counts for the owner is what
\* the lockup has locked, unless its last report was refused or it was deleted
\* with NEAR locked after the checks; and the next report will be accepted.
THEOREM ViewSafe == Spec => []ViewAgrees
<1>1. SystemTypeOK /\ KnownInv => ViewAgrees
  BY Zenon DEF KnownInv, OwnerInv, VersionInv, NewestInv, ViewAgrees
<1>2. SystemTypeOK /\ KnownInv /\ [Next]_vars => SystemTypeOK' /\ KnownInv'
  BY SystemStep
<1> QED
  BY <1>1, <1>2, SystemInit, PTL DEF Spec

-----------------------------------------------------------------------------
(* Division. *)

\* The quotient is the whole number that the division rounds down to.
LEMMA DivBounds ==
  ASSUME NEW a \in Int, NEW b \in Nat \ {0}
  PROVE  a \div b \in Int /\ b * (a \div b) <= a /\ a < b * (a \div b) + b
  OBVIOUS

\* No other number lies between the bounds.
LEMMA DivUnique ==
  ASSUME NEW a \in Int, NEW b \in Nat \ {0}, NEW q \in Int, b * q <= a, a < b * q + b
  PROVE  a \div b = q
<1> DEFINE d == a \div b
<1>1. d \in Int /\ b * d <= a /\ a < b * d + b
  BY DivBounds
<1> HIDE DEF d
<1>2. b * (d - q) < b /\ b * (q - d) < b
  BY <1>1
<1>3. \A x \in Int : b * x < b => x < 1
  OBVIOUS
<1>4. d - q < 1 /\ q - d < 1
  BY <1>1, <1>2, <1>3
<1> QED
  BY <1>1, <1>4 DEF d

\* A multiple of the divisor comes out of a division unrounded.
LEMMA DivShift ==
  ASSUME NEW a \in Int, NEW b \in Nat \ {0}, NEW k \in Int
  PROVE  (a + b * k) \div b = (a \div b) + k
<1> DEFINE d == a \div b
<1>1. d \in Int /\ b * d <= a /\ a < b * d + b
  BY DivBounds
<1> HIDE DEF d
<1>2. b * (d + k) = b * d + b * k /\ a + b * k \in Int /\ d + k \in Int
      /\ b * k \in Int /\ b * d \in Int
  BY <1>1
<1>3. b * (d + k) <= a + b * k /\ a + b * k < b * (d + k) + b
  BY <1>1, <1>2
<1>4. (a + b * k) \div b = d + k
  BY <1>2, <1>3, DivUnique
<1> QED
  BY <1>4 DEF d

\* A common factor cancels.
LEMMA DivScale ==
  ASSUME NEW a \in Int, NEW b \in Nat \ {0}, NEW k \in Nat \ {0}
  PROVE  (k * a) \div (k * b) = a \div b
<1> DEFINE d == a \div b
<1>1. d \in Int /\ b * d <= a /\ a < b * d + b
  BY DivBounds
<1> HIDE DEF d
<1>2. k * b \in Nat \ {0} /\ k * a \in Int /\ (k * b) * d = k * (b * d)
      /\ b * d \in Int
  BY <1>1
<1>3. \A x, y \in Int : x <= y => k * x <= k * y
  OBVIOUS
<1>4. \A x, y \in Int : x < y => k * x < k * y
  OBVIOUS
<1>5. k * (b * d) <= k * a /\ k * a < k * (b * d + b)
  BY <1>1, <1>2, <1>3, <1>4
<1>6. k * (b * d + b) = k * (b * d) + k * b
  BY <1>1, <1>2
<1>7. (k * a) \div (k * b) = d
  <2> DEFINE kb == k * b
             ka == k * a
  <2>1. kb \in Nat \ {0} /\ ka \in Int /\ kb * d <= ka /\ ka < kb * d + kb
    BY <1>2, <1>5, <1>6
  <2> HIDE DEF kb, ka
  <2>2. ka \div kb = d
    BY <1>1, <2>1, DivUnique
  <2> QED
    BY <2>2 DEF kb, ka
<1> QED
  BY <1>7 DEF d

-----------------------------------------------------------------------------
(* What growth leaves alone. *)

\* Whole milliNEAR of an amount, whole seconds of a time.
Whole(n) == n \div MILLI
Secs(t)  == t \div TICKS

\* What a milliNEAR has grown by since the epoch, at time t.
Grown(t) == Secs(t) * Rate

Times == {t \in Int : t = TICKS * Secs(t)}

Balances == [near_balance: Nat, extra_venear_balance: Int]
Pools    == [near_balance: Int, extra_venear_balance: Int]

\* The delegations an account may have when the accounts D are registered.
Delegations(D) == UNION {[S -> 0..MAX_BPS] : S \in SUBSET D}

Account(D) == [update_timestamp: Times, balance: Balances,
               delegated_balance: Pools, delegations: Delegations(D)]

\* The extra balance the account had at time 0, had it only grown since.
Origin(r) == r.balance.extra_venear_balance
             - Grown(r.update_timestamp) * Whole(r.balance.near_balance)

DelegatedOrigin(r) == r.delegated_balance.extra_venear_balance
                      - Grown(r.update_timestamp) * Whole(r.delegated_balance.near_balance)

\* The milliNEAR that r contributes to x, and the extra balance at time 0.
Part(r, x) ==
    IF x \in DOMAIN r.delegations
    THEN Whole((r.delegations[x] * r.balance.near_balance) \div MAX_BPS) ELSE 0

Share(r, x) ==
    IF Whole(r.balance.near_balance) = 0 THEN 0
    ELSE (Origin(r) * Part(r, x)) \div Whole(r.balance.near_balance)

\* The present time, in whole seconds.
Today == V!truncate_to_seconds(now)

\* A list of delegations gives each delegate in it a share of at most MAX_BPS.
LEMMA DelegationsAre ==
  ASSUME NEW D, NEW f
  PROVE  f \in Delegations(D) <=> DOMAIN f \subseteq D /\ f \in [DOMAIN f -> 0..MAX_BPS]
  BY DEF Delegations

\* Truncation in terms of division.
LEMMA Truncation ==
  ASSUME NEW n \in Int
  PROVE  /\ Whole(n) \in Int /\ V!truncate_near_to_millis(n) = MILLI * Whole(n)
         /\ V!truncate_near_to_millis(n) \div MILLI = Whole(n)
         /\ n \in Nat => Whole(n) \in Nat
<1>1. Whole(n) \in Int /\ MILLI * Whole(n) <= n /\ n < MILLI * Whole(n) + MILLI
  BY DivBounds, VenearAssumption DEF Whole
<1>2. V!truncate_near_to_millis(n) = MILLI * Whole(n)
  BY <1>1, VenearAssumption DEF Whole, V!truncate_near_to_millis
<1>3. (MILLI * Whole(n)) \div MILLI = Whole(n)
  <2> DEFINE w == Whole(n)
  <2>1. w \in Int
    BY <1>1
  <2> HIDE DEF w
  <2>2. MILLI * w <= MILLI * w /\ MILLI * w < MILLI * w + MILLI /\ MILLI * w \in Int
    BY <2>1, VenearAssumption
  <2>3. (MILLI * w) \div MILLI = w
    BY <2>1, <2>2, DivUnique, VenearAssumption
  <2> QED BY <2>3 DEF w
<1>4. n \in Nat => Whole(n) \in Nat
  <2> DEFINE w == Whole(n)
  <2>1. w \in Int /\ n < MILLI * w + MILLI
    BY <1>1
  <2> HIDE DEF w
  <2>2. \A x \in Int : 0 < MILLI * x + MILLI => x >= 0
    BY VenearAssumption
  <2>3. n \in Nat => w \in Nat
    BY <2>1, <2>2, VenearAssumption
  <2> QED BY <2>3 DEF w
<1> QED
  BY <1>1, <1>2, <1>3, <1>4, Zenon

\* The present time is a whole second.
LEMMA TodayIsTime ==
  ASSUME now \in Nat
  PROVE  Today \in Times /\ Secs(Today) = Secs(now) /\ Secs(Today) \in Int
<1> DEFINE w == Secs(now)
<1>1. w \in Int /\ Today = TICKS * w
  BY DivBounds, VenearAssumption DEF Secs, Today, V!truncate_to_seconds
<1> HIDE DEF w
<1>2. TICKS * w <= TICKS * w /\ TICKS * w < TICKS * w + TICKS /\ TICKS * w \in Int
  BY <1>1, VenearAssumption
<1>3. (TICKS * w) \div TICKS = w
  BY <1>1, <1>2, DivUnique, VenearAssumption
<1>4. Secs(Today) = w
  BY <1>1, <1>3 DEF Secs
<1>5. Today \in Times
  BY <1>1, <1>2, <1>4 DEF Times
<1> QED
  BY <1>1, <1>4, <1>5 DEF w

\* Growth between two times is linear in the whole seconds between them.
LEMMA Growth ==
  ASSUME NEW from \in Times, NEW to \in Times, NEW n \in Int
  PROVE  /\ Grown(from) \in Int /\ Grown(to) \in Int
         /\ V!calculate(from, to, n) = (Grown(to) - Grown(from)) * Whole(n)
<1> DEFINE f == Secs(from)
           t == Secs(to)
           w == Whole(n)
<1>1. f \in Int /\ t \in Int /\ from = TICKS * f /\ to = TICKS * t
  BY DivBounds, VenearAssumption DEF Secs, Times
<1>2. w \in Int /\ V!truncate_near_to_millis(n) \div MILLI = w
  BY Truncation
<1> HIDE DEF f, t, w
<1>3. to - from = TICKS * (t - f) /\ to - from \in Int /\ t - f \in Int
  BY <1>1, VenearAssumption
<1>4. (to - from) \div TICKS = t - f
  <2>1. TICKS * (t - f) <= to - from /\ to - from < TICKS * (t - f) + TICKS
    BY <1>1, <1>3, VenearAssumption
  <2> QED BY <1>3, <2>1, DivUnique, VenearAssumption
<1>5. Grown(from) = f * Rate /\ Grown(to) = t * Rate
  BY DEF Grown, f, t
<1>6. V!calculate(from, to, n) = (t - f) * Rate * w
  BY <1>2, <1>4 DEF V!calculate
<1>7. (t - f) * Rate * w = (t * Rate - f * Rate) * w
  BY <1>1, <1>2, VenearAssumption
<1>8. f * Rate \in Int /\ t * Rate \in Int
  BY <1>1, VenearAssumption
<1> QED
  BY <1>5, <1>6, <1>7, <1>8 DEF w

\* Bringing an account up to date changes neither its whole milliNEAR nor
\* where its balances have grown from.
LEMMA UpdatedAccount ==
  ASSUME now \in Nat, NEW D, NEW r \in Account(D)
  PROVE  /\ V!Updated(r) \in Account(D)
         /\ V!Updated(r).update_timestamp = Today
         /\ V!Updated(r).balance.near_balance = r.balance.near_balance
         /\ V!Updated(r).delegations = r.delegations
         /\ V!Updated(r).delegated_balance.near_balance = r.delegated_balance.near_balance
         /\ Origin(V!Updated(r)) = Origin(r)
         /\ DelegatedOrigin(V!Updated(r)) = DelegatedOrigin(r)
<1> DEFINE t == Today
           f == r.update_timestamp
           n == r.balance.near_balance
           m == r.delegated_balance.near_balance
           x == V!calculate(f, t, n)
           y == V!calculate(f, t, m)
           b == [r.balance EXCEPT !.extra_venear_balance = @ + x]
           d == [r.delegated_balance EXCEPT !.extra_venear_balance = @ + y]
           u == [r EXCEPT !.balance = b, !.delegated_balance = d, !.update_timestamp = t]
<1>1. t \in Times /\ f \in Times /\ n \in Nat /\ m \in Int
      /\ r.balance \in Balances /\ r.delegated_balance \in Pools
      /\ r.delegations \in Delegations(D)
  BY TodayIsTime DEF Account, Balances, Pools
<1>2. V!Updated(r) = u
  BY DEF V!Updated, V!Grow, Today
<1> HIDE DEF t, f, n, m
<1>3. x = (Grown(t) - Grown(f)) * Whole(n) /\ y = (Grown(t) - Grown(f)) * Whole(m)
      /\ Grown(t) \in Int /\ Grown(f) \in Int /\ Whole(n) \in Int /\ Whole(m) \in Int
  BY <1>1, Growth, Truncation
<1> HIDE DEF x, y
<1>4. x \in Int /\ y \in Int
  BY <1>3
<1>5. /\ b \in Balances /\ b.near_balance = n
      /\ b.extra_venear_balance = r.balance.extra_venear_balance + x
  BY <1>1, <1>4 DEF Balances, n
<1>6. /\ d \in Pools /\ d.near_balance = m
      /\ d.extra_venear_balance = r.delegated_balance.extra_venear_balance + y
  BY <1>1, <1>4 DEF Pools, m
<1> HIDE DEF b, d
<1>7. /\ u \in Account(D) /\ u.update_timestamp = t /\ u.balance = b
      /\ u.delegated_balance = d /\ u.delegations = r.delegations
  BY <1>1, <1>5, <1>6, Zenon DEF Account
<1> HIDE DEF u
<1>8. Origin(u) = Origin(r)
  <2>1. r.balance.extra_venear_balance \in Int
    BY <1>1 DEF Balances
  <2>2. Origin(u) = (r.balance.extra_venear_balance + x) - Grown(t) * Whole(n)
    BY <1>5, <1>7, Zenon DEF Origin
  <2>3. Origin(r) = r.balance.extra_venear_balance - Grown(f) * Whole(n)
    BY DEF Origin, f, n
  <2> QED
    BY <1>3, <2>1, <2>2, <2>3, SMTT(30)
<1>9. DelegatedOrigin(u) = DelegatedOrigin(r)
  <2>1. r.delegated_balance.extra_venear_balance \in Int
    BY <1>1 DEF Pools
  <2>2. DelegatedOrigin(u) = (r.delegated_balance.extra_venear_balance + y) - Grown(t) * Whole(m)
    BY <1>6, <1>7 DEF DelegatedOrigin
  <2>3. DelegatedOrigin(r) = r.delegated_balance.extra_venear_balance - Grown(f) * Whole(m)
    BY DEF DelegatedOrigin, f, m
  <2> QED
    BY <1>3, <2>1, <2>2, <2>3, SMTT(30)
<1> QED
  BY <1>2, <1>5, <1>6, <1>7, <1>8, <1>9, Zenon DEF t, n, m

\* The contribution of a balance, by what does not depend on the time: the
\* realised ratio splits what the balance grew by exactly.
Splits(t, n, e, bps, p, q, o, s) ==
    /\ t \in Times /\ n \in Nat /\ e \in Int /\ bps \in 0..MAX_BPS
    /\ p = Whole(n) /\ q = Whole((bps * n) \div MAX_BPS)
    /\ o = e - Grown(t) * p
    /\ s = IF p = 0 THEN 0 ELSE (o * q) \div p

\* What a delegation of bps moves: q whole units and, of the growth, s and what
\* q units grow by until t.
LEMMA Contribution ==
  ASSUME NEW t, NEW n, NEW e, NEW bps, NEW p, NEW q, NEW o, NEW s,
         Splits(t, n, e, bps, p, q, o, s)
  PROVE  /\ V!delegation_contribution(V!Balance(n, e), bps)
              = V!Balance(MILLI * q, s + Grown(t) * q)
         /\ p \in Nat /\ q \in Nat /\ s \in Int /\ Grown(t) \in Int
         /\ p = 0 => q = 0
<1> DEFINE a == (bps * n) \div MAX_BPS
           g == Grown(t)
<1> USE DEF Splits
<1>1. bps \in Nat /\ bps <= MAX_BPS /\ MAX_BPS \in Nat \ {0} /\ MILLI \in Nat \ {0}
  BY VenearAssumption
<1>2. bps * n \in Nat /\ bps * n <= MAX_BPS * n
  BY <1>1
<1>3. a \in Int /\ MAX_BPS * a <= bps * n /\ bps * n < MAX_BPS * a + MAX_BPS
  BY <1>1, <1>2, DivBounds
<1> HIDE DEF a
<1>4. a <= n /\ a \in Nat
  <2>1. \A x \in Int : MAX_BPS * x <= MAX_BPS * n => x <= n
    BY <1>1
  <2>2. \A x \in Int : 0 < MAX_BPS * x + MAX_BPS => x >= 0
    BY <1>1
  <2>3. MAX_BPS * a <= MAX_BPS * n /\ 0 < MAX_BPS * a + MAX_BPS
    BY <1>1, <1>2, <1>3
  <2> QED
    BY <1>3, <2>1, <2>2, <2>3
<1>5. /\ p \in Nat /\ V!truncate_near_to_millis(n) = MILLI * p
      /\ q \in Nat /\ V!truncate_near_to_millis(a) = MILLI * q
  BY <1>4, Truncation DEF a
<1>6. g \in Int
  BY Growth
<1> HIDE DEF g
<1>7. p = 0 => q = 0
  <2>1. /\ n < MILLI * p + MILLI /\ MILLI * q <= a
    BY <1>1, <1>4, DivBounds DEF Whole, a
  <2>2. ASSUME p = 0 PROVE q = 0
    <3>1. MILLI * q < MILLI
      BY <1>1, <1>4, <1>5, <2>1, <2>2
    <3>2. \A x \in Nat : MILLI * x < MILLI => x = 0
      BY <1>1
    <3> QED
      BY <1>5, <3>1, <3>2
  <2> QED BY <2>2
<1> DEFINE base == MILLI * p
           near == MILLI * q
<1>8. V!delegation_contribution(V!Balance(n, e), bps)
        = IF base = 0 THEN V!Balance(0, 0) ELSE V!Balance(near, (e * near) \div base)
  BY <1>5 DEF V!delegation_contribution, V!Balance, V!Zero, a
<1>9. CASE p = 0
  <2>1. base = 0 /\ near = 0 /\ s = 0 /\ s + g * q = 0 /\ q = 0
    BY <1>1, <1>6, <1>7, <1>9
  <2> QED
    BY <1>5, <1>6, <1>8, <2>1 DEF g
<1>10. CASE p # 0
  <2>1. base # 0
    BY <1>1, <1>5, <1>10
  <2>2. e * near = MILLI * (e * q) /\ e * q \in Int
    BY <1>1, <1>5
  <2>3. (MILLI * (e * q)) \div (MILLI * p) = (e * q) \div p
    BY <1>1, <1>5, <1>10, <2>2, DivScale, Zenon
  <2>4. o \in Int /\ o * q \in Int /\ g * q \in Int /\ e * q = o * q + p * (g * q)
    <3> DEFINE gp == g * p
    <3>6. o = e - gp
      BY Zenon DEF g
    <3>7. gp \in Int
      BY <1>5, <1>6
    <3> HIDE DEF gp
    <3>8. o \in Int
      BY <3>6, <3>7
    <3>2. o \in Int /\ o * q \in Int /\ g * q \in Int
      BY <1>5, <1>6, <3>8
    <3>3. \A i, j, k \in Int : (i - j) * k = i * k - j * k
      OBVIOUS
    <3>4. o * q = e * q - gp * q
      BY <1>5, <3>3, <3>6, <3>7
    <3>5. gp * q = p * (g * q)
      BY <1>5, <1>6 DEF gp
    <3> QED
      BY <1>5, <2>2, <3>2, <3>4, <3>5
  <2>5. (o * q + p * (g * q)) \div p = ((o * q) \div p) + g * q
    <3> DEFINE i == o * q
               k == g * q
    <3>1. i \in Int /\ k \in Int /\ p \in Nat \ {0}
      BY <1>5, <1>10, <2>4
    <3> HIDE DEF i, k
    <3>2. (i + p * k) \div p = (i \div p) + k
      BY <3>1, DivShift, Zenon
    <3> QED
      BY <3>2 DEF i, k
  <2>6. s = (o * q) \div p /\ s \in Int
    BY <1>5, <1>10, <2>4, DivBounds
  <2>7. (e * near) \div base = s + g * q
    BY <2>2, <2>3, <2>4, <2>5, <2>6
  <2> QED
    BY <1>5, <1>6, <1>8, <1>10, <2>1, <2>6, <2>7, Zenon DEF g
<1> QED
  BY <1>9, <1>10

\* What an account contributes to x; an account x it does not delegate to
\* gets nothing.
LEMMA ContributionOf ==
  ASSUME NEW D, NEW r \in Account(D), NEW x
  PROVE  /\ Part(r, x) \in Nat /\ Share(r, x) \in Int /\ Grown(r.update_timestamp) \in Int
         /\ Whole(r.balance.near_balance) \in Nat /\ Origin(r) \in Int
         /\ x \in DOMAIN r.delegations =>
              V!delegation_contribution(r.balance, r.delegations[x])
              = V!Balance(MILLI * Part(r, x),
                          Share(r, x) + Grown(r.update_timestamp) * Part(r, x))
         /\ x \notin DOMAIN r.delegations => Part(r, x) = 0 /\ Share(r, x) = 0
<1> DEFINE t == r.update_timestamp
           n == r.balance.near_balance
           e == r.balance.extra_venear_balance
           p == Whole(n)
<1>1. /\ t \in Times /\ n \in Nat /\ e \in Int /\ r.balance = V!Balance(n, e)
      /\ DOMAIN r.delegations \subseteq D
      /\ r.delegations \in [DOMAIN r.delegations -> 0..MAX_BPS]
  <2>1. r.balance \in Balances /\ r.update_timestamp \in Times
        /\ r.delegations \in Delegations(D)
    BY DEF Account
  <2>2. r.balance = V!Balance(n, e) /\ n \in Nat /\ e \in Int
    BY <2>1, Zenon DEF Balances, V!Balance
  <2>3. DOMAIN r.delegations \subseteq D /\ r.delegations \in [DOMAIN r.delegations -> 0..MAX_BPS]
    BY <2>1, DelegationsAre
  <2> QED
    BY <2>1, <2>2, <2>3, Zenon
<1>2. p \in Nat /\ Grown(t) \in Int
  BY <1>1, Truncation, Growth, SMTT(30)
<1>3. Origin(r) = e - Grown(t) * p
  BY DEF Origin
<1>4. Origin(r) \in Int
  <2> HIDE DEF p, t, e
  <2> QED BY <1>1, <1>2, <1>3
<1>5. CASE x \in DOMAIN r.delegations
  <2> DEFINE bps == r.delegations[x]
             q == Part(r, x)
             s == Share(r, x)
             o == Origin(r)
  <2>1. bps \in 0..MAX_BPS
    BY <1>1, <1>5, Zenon
  <2>2. q = Whole((bps * n) \div MAX_BPS)
    BY <1>5 DEF Part
  <2>3. s = IF p = 0 THEN 0 ELSE (o * q) \div p
    BY DEF Share
  <2> HIDE DEF bps, q, s, o, p, n, e, t
  <2>4. p = Whole(n) /\ o = e - Grown(t) * p
    BY <1>3 DEF p, o
  <2>5. /\ V!delegation_contribution(V!Balance(n, e), bps)
             = V!Balance(MILLI * q, s + Grown(t) * q)
        /\ q \in Nat /\ s \in Int
    <3>1. Splits(t, n, e, bps, p, q, o, s)
      BY <1>1, <2>1, <2>2, <2>3, <2>4 DEF Splits
    <3> QED
      BY <3>1, Contribution
  <2> QED
    BY <1>1, <1>2, <1>4, <1>5, <2>5, Zenon DEF bps, q, s, p, t, n
<1>6. CASE x \notin DOMAIN r.delegations
  <2>1. Part(r, x) = 0
    BY <1>6 DEF Part
  <2>2. Share(r, x) = IF p = 0 THEN 0 ELSE (Origin(r) * 0) \div p
    BY <2>1 DEF Share
  <2>3. Origin(r) * 0 = 0
    BY <1>4
  <2> HIDE DEF p
  <2>4. p # 0 => 0 \div p = 0
    BY <1>2, DivUnique
  <2>5. Share(r, x) = 0
    BY <2>2, <2>3, <2>4
  <2> QED
    BY <1>2, <1>4, <1>6, <2>1, <2>5 DEF p, t, n
<1> QED
  BY <1>5, <1>6, Zenon

\* Two accounts with this in common contribute the same.
SameProfile(r, s) ==
    /\ r.balance.near_balance = s.balance.near_balance
    /\ r.delegations = s.delegations
    /\ Origin(r) = Origin(s)

\* Accounts with the same profile contribute the same.
LEMMA SameContributions ==
  ASSUME NEW r, NEW s, SameProfile(r, s)
  PROVE  \A x : Part(r, x) = Part(s, x) /\ Share(r, x) = Share(s, x)
  BY Zenon DEF SameProfile, Part, Share

\* A share added to, or taken from, what is delegated to an account.
CreditOf(r, share, sign) ==
    [V!Updated(r) EXCEPT !.delegated_balance =
       IF sign = 1 THEN V!Add(@, share) ELSE V!Minus(@, share)]

\* q milliNEAR, and the extra balance that s at time 0 has become.
Shared(q, s) == V!Balance(MILLI * q, s + Grown(Today) * q)

\* q milliNEAR and an extra balance s at time 0 more are delegated to c than to r.
Moved(c, r, q, s) ==
    /\ SameProfile(c, r)
    /\ c.delegated_balance.near_balance = r.delegated_balance.near_balance + MILLI * q
    /\ DelegatedOrigin(c) = DelegatedOrigin(r) + s

\* A credit of q units moves the delegated balance by q and its origin by s, and
\* nothing else.
LEMMA Credited ==
  ASSUME now \in Nat, NEW D, NEW r \in Account(D), NEW q \in Int, NEW s \in Int,
         NEW sign \in {1, -1}, NEW c,
         c = CreditOf(r, Shared(q, s), sign)
  PROVE  c \in Account(D) /\ Moved(c, r, sign * q, sign * s)
<1> DEFINE u == V!Updated(r)
           m == u.delegated_balance.near_balance
           e == u.delegated_balance.extra_venear_balance
           g == Grown(Today)
           d == V!Balance(m + MILLI * (sign * q), e + sign * s + g * (sign * q))
<1>1. /\ u \in Account(D) /\ u.update_timestamp = Today /\ SameProfile(u, r)
      /\ m = r.delegated_balance.near_balance /\ DelegatedOrigin(u) = DelegatedOrigin(r)
  BY UpdatedAccount DEF SameProfile
<1>2. m \in Int /\ e \in Int /\ u.delegated_balance \in Pools
  <2> HIDE DEF u
  <2> QED BY <1>1 DEF Account, Pools
<1>3. g \in Int /\ Today \in Times
  BY TodayIsTime, Growth
<1> HIDE DEF u, m, e, g
<1>4. c = [u EXCEPT !.delegated_balance = d]
  <2> USE DEF CreditOf, Shared
  <2>1. MILLI * q \in Int /\ g * q \in Int
    BY <1>3, VenearAssumption
  <2>2. CASE sign = 1
    <3>1. sign * q = q /\ sign * s = s
      BY <2>2
    <3>2. e + (s + g * q) = e + s + g * q
      BY <1>2, <2>1
    <3>3. V!Add(u.delegated_balance, V!Balance(MILLI * q, s + g * q)) = d
      BY <3>1, <3>2 DEF V!Add, V!Balance, m, e
    <3> QED
      BY <2>2, <3>3 DEF u, g
  <2>3. CASE sign = -1
    <3>1. sign * q = -q /\ sign * s = -s
      BY <2>3
    <3>2. /\ e - (s + g * q) = e + (-s) + g * (-q)
          /\ m - MILLI * q = m + MILLI * (-q)
      BY <1>2, <1>3, <2>1, VenearAssumption
    <3>3. V!Minus(u.delegated_balance, V!Balance(MILLI * q, s + g * q)) = d
      BY <3>1, <3>2 DEF V!Minus, V!Balance, m, e
    <3> QED
      BY <2>3, <3>3 DEF u, g
  <2> QED
    BY <2>2, <2>3
<1> DEFINE k == sign * q
           j == sign * s
           mk == m + MILLI * k
           ek == e + j + g * k
<1>5. k \in Int /\ j \in Int
  OBVIOUS
<1>6. d = [near_balance |-> mk, extra_venear_balance |-> ek]
  BY DEF V!Balance
<1> HIDE DEF d, k, j
<1>7. mk \in Int /\ ek \in Int /\ g * k \in Int
  BY <1>2, <1>3, <1>5, VenearAssumption
<1>8. Whole(mk) = Whole(m) + k /\ Whole(m) \in Int
  BY <1>2, <1>5, DivShift, DivBounds, VenearAssumption DEF Whole
<1> HIDE DEF mk, ek
<1>9. d \in Pools /\ d.near_balance = mk /\ d.extra_venear_balance = ek
  BY <1>6, <1>7 DEF Pools
<1>10. /\ c \in Account(D) /\ c.delegated_balance = d /\ c.update_timestamp = Today
       /\ c.balance = u.balance /\ c.delegations = u.delegations
  BY <1>1, <1>4, <1>9 DEF Account
<1>11. Origin(c) = Origin(u)
  BY <1>1, <1>10, Zenon DEF Origin
<1>12. SameProfile(c, r)
  BY <1>1, <1>10, <1>11, Zenon DEF SameProfile
<1>13. DelegatedOrigin(c) = ek - g * (Whole(m) + k)
  BY <1>8, <1>9, <1>10, Zenon DEF DelegatedOrigin, g
<1>14. DelegatedOrigin(u) = e - g * Whole(m)
  BY <1>1, Zenon DEF DelegatedOrigin, g, e, m
<1>15. g * (Whole(m) + k) = g * Whole(m) + g * k
  BY <1>3, <1>5, <1>8
<1>16. DelegatedOrigin(c) = DelegatedOrigin(u) + j
  <2>1. g * Whole(m) \in Int /\ ek = e + j + g * k
    BY <1>3, <1>8 DEF ek
  <2> QED
    BY <1>2, <1>5, <1>7, <1>13, <1>14, <1>15, <2>1
<1> QED
  BY <1>1, <1>9, <1>10, <1>12, <1>16, Zenon DEF mk, k, j, Moved

\* The numbers of what is delegated to an account.
LEMMA PoolType ==
  ASSUME NEW D, NEW r \in Account(D)
  PROVE  r.delegated_balance.near_balance \in Int /\ DelegatedOrigin(r) \in Int
<1>1. /\ r.delegated_balance \in Pools /\ r.update_timestamp \in Times
  BY DEF Account
<1>2. /\ r.delegated_balance.near_balance \in Int
      /\ r.delegated_balance.extra_venear_balance \in Int
  BY <1>1 DEF Pools
<1>3. Grown(r.update_timestamp) \in Int /\ Whole(r.delegated_balance.near_balance) \in Int
  BY <1>1, <1>2, Growth, Truncation, Zenon
<1>4. \A e, g, w \in Int : e - g * w \in Int
  OBVIOUS
<1> QED
  BY <1>2, <1>3, <1>4, Zenon DEF DelegatedOrigin

\* What Credit does to one account x, for the delegations of an account a
\* that has been brought up to date.
LEMMA CreditTo ==
  ASSUME now \in Nat, NEW D, NEW r \in Account(D), NEW a \in Account(D),
         a.update_timestamp = Today, NEW sign \in {1, -1}, NEW x, NEW c,
         c = IF x \notin DOMAIN a.delegations THEN r
             ELSE CreditOf(r, V!delegation_contribution(a.balance, a.delegations[x]), sign)
  PROVE  c \in Account(D) /\ Moved(c, r, sign * Part(a, x), sign * Share(a, x))
<1> DEFINE q == Part(a, x)
           s == Share(a, x)
<1>1. /\ q \in Int /\ s \in Int
      /\ x \in DOMAIN a.delegations =>
           V!delegation_contribution(a.balance, a.delegations[x]) = Shared(q, s)
      /\ x \notin DOMAIN a.delegations => q = 0 /\ s = 0
  <2>1. /\ q \in Nat /\ s \in Int
        /\ x \in DOMAIN a.delegations =>
             V!delegation_contribution(a.balance, a.delegations[x])
             = V!Balance(MILLI * q, s + Grown(a.update_timestamp) * q)
        /\ x \notin DOMAIN a.delegations => q = 0 /\ s = 0
    BY ContributionOf, Zenon
  <2>2. q \in Int
    BY <2>1
  <2> QED
    BY <2>1, <2>2, Zenon DEF Shared
<1> HIDE DEF q, s
<1>2. CASE x \in DOMAIN a.delegations
  <2>1. c = CreditOf(r, Shared(q, s), sign)
    BY <1>1, <1>2, Zenon
  <2>2. c \in Account(D) /\ Moved(c, r, sign * q, sign * s)
    BY <1>1, <2>1, Credited, Zenon
  <2> QED
    BY <2>2, Zenon DEF q, s
<1>3. CASE x \notin DOMAIN a.delegations
  <2>1. c = r /\ q = 0 /\ s = 0
    BY <1>1, <1>3, Zenon
  <2>2. SameProfile(r, r)
    BY Zenon DEF SameProfile
  <2>3. r.delegated_balance.near_balance \in Int /\ DelegatedOrigin(r) \in Int
    BY PoolType, Zenon
  <2>4. MILLI * (sign * 0) = 0 /\ sign * 0 = 0
    BY VenearAssumption
  <2>5. \A i \in Int : i = i + 0
    OBVIOUS
  <2> QED
    BY <2>1, <2>2, <2>3, <2>4, <2>5, Zenon DEF q, s, Moved
<1> QED
  BY <1>2, <1>3
=============================================================================
