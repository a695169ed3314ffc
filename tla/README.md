# A formal model of the House of Stake contracts

TLA+ models of the contracts in `src/`, the TLC runs that check them on small
instances, and TLAPS proofs about them for every value of their constants.

## 1. The system

| Part | What it keeps | What changes it |
|---|---|---|
| `staking-contract` | validator rows with share pools and pending buckets, locks, tranches, subscriptions, farm positions, catalog, prepaid storage, revenue | user calls that run through a per-epoch receipt chain to a staking pool; owner and catalog calls |
| `voting-contract` | proposals, active slots and queue, votes, bonds, pause flag | proposers, reviewers, council, voters; a snapshot fetched from veNEAR; actions on other contracts |
| `venear-contract` (with `common`) | accounts, veNEAR balances and growth, delegations, the global total, a Merkle tree of accounts, lockup code | users, lockup reports, snapshot reads |
| `lockup-contract` | liquid and staked NEAR of one owner, the amounts locked for veNEAR, the staking pool's status | its owner; callbacks of the pool; veNEAR |
| `merkle-tree` | an incremental tree and the snapshot of the last changed block | `venear-contract` |
| mock pool, whitelist, CLI | test doubles and a client | - |

They interact by asynchronous receipts. One method call is one atomic receipt; a
panic rolls that receipt back and its caller's callback sees a failed result.
`a.then(b)` runs `b` whether or not `a` succeeded. Between two receipts of a
chain any other receipt may run and the epoch, or the clock, may advance. That is
where the hard behaviour is: who may start a chain while another is in flight,
what a callback may still believe, and what happens to NEAR when a step fails.

`PROJECT.json` lists every component with its status, and every hazard at its
line with the properties that would catch it.

## 2. Modules

| Module | Models |
|---|---|
| `StakingPipeline` | `epoch.rs` receipts [0] to [6] for one validator row, with lock, unlock, withdraw and epoch_settle |
| `SettledCall` | what that chain promises to the operation it carries (abstract) |
| `StakingPipelineCall` | the refinement mapping from the first to the second |
| `Catalog` | products, prices, storage accounts, payments and revenue |
| `Farm` | farm stakes on top of `Catalog` and `SettledCall` |
| `BillingCalendar` | the civil calendar of `subscriptions.rs` |
| `Subscriptions` | monthly subscriptions on top of `SettledCall` |
| `Voting`, `VotingCalendar` | the voting contract, and `next_voting_start_ns` |
| `Lockup` | a lockup and its staking pool |
| `Venear` | the veNEAR contract |
| `VenearSystem` | `Venear` and a `Lockup` composed by their receipts |
| `MerkleTree` | the Merkle tree and its proofs |
| `StakingPipelineProofs`, `StakingPipelineLedger`, `VotingQueue`, `VotingSteps`, `VotingProofs`, `LockupProofs`, `VenearProofs` | proofs only |
| `SumTheorems` | lemmas about finite sets, sums, bounded induction and sequences that the proofs share |
| `MC*` | the sets TLC uses for the constants |

### StakingPipeline and SettledCall

State follows the code: `validator` is the row of `types.rs`, with `tx_status`;
`user_validator_shares`, `user_pending_unstake` and `locks` are the contract's
maps. The chain in flight is `step` (the receipt that runs next), `cont` (the
`UserAction` it carries), `amount` and `view` (arguments and results of the pool
call) and `ok` (the previous receipt's result). `pool` is the contract's account at
the external pool. `cash`, `owed`, `lost` and `pool_ops` are history variables.

| Action | Code |
|---|---|
| `lock`, `unlock`, `withdraw`, `epoch_settle` | the entry points and [0] |
| `PoolGetAccount`, `PoolWithdraw`, `PoolDepositAndStake`, `PoolUnstake` | the pool (external); each may fail |
| `AfterPoolAccount` | [1] `on_epoch_settlement_after_pool_account` |
| `WithdrawTransferDone`, `AfterPoolWithdrawMaybeSettle` | [2b], [2c] |
| `OnDepositAndStake`, `OnUnstake` | [3b], [3c] |
| `Dispatch` | [4] `on_epoch_settlement_dispatch_continue` |
| `ResolveLock`, `ResolveUnlock`, `WithdrawUserTransferTail` | [5] |
| `PipelineRelease` | [6], with the refund of a failed payable entry |
| `pause`, `archive_price`, `pause_validator`, `remove_validator`, ... | administrative calls, between any two receipts |

`SettledCall` is the chain seen by the operation it carries: idle, settling, tail,
release; the deposit attached on entry is kept by the tail or sent back, exactly
once; shares move only in the tail. `ImplementsSettledCall` maps the thirteen
receipts onto it, and `Farm` and `Subscriptions` use its actions for their own
entries and tails. What the refinement shows is the control and the deposit. The
effect of a settlement on the row is not part of `SettledCall`; the two modules take it
to be what the next paragraphs on them say.

Abstractions. One validator row and one price. Amounts are small naturals. A lock
lasts a number of epochs. Gas checks, events and storage deposits are left out.
NEAR the pool sends (a withdrawal, or the refund of a failed deposit) is taken to
arrive no later than the callback that reports it. The pool may unstake up to
`PoolDust` more than asked; a pool that credits less stake than was deposited is
not modelled. Archiving a price stands for deleting it too: both make the lock in
flight fail at commit.

### Catalog and Farm

`Catalog` has the storage deposits (`accounts.rs`), products and prices with their
farm pools (`products.rs`, `prices.rs`) and purchases with the revenue bucket
(`payments.rs`). Catalog changes are modelled at the callback that has learned the
pool's owner; it repeats the checks of the entry point. `Farm` adds `stake` and
`unstake` of `stake.rs` as settled calls: `Begin` is the entry, `Settled` or
`SettlementFails` the settlement, `resolve_farm_stake` and `resolve_farm_unstake` the
tails, `TailPanics` a tail whose checks fail, `on_epoch_pipeline_release` the release.

Abstractions. One active validator. Configuration values are constants.
`usage_count` is kept as whether it is zero. `balance` counts the NEAR held here or at
the pool. Names, descriptions, purchase ids and indexes are left out. The revenue
transfer is taken to arrive. A settlement is one step that changes `net_stake` by any
member of `StakeChanges`, with shares or without: a reward, or dust that the pool unstaked
beyond what was asked and that leaves the stake when it is withdrawn (`epoch.rs:306`).
The result is cut at zero, as `net_stake_yocto` does.

### BillingCalendar and Subscriptions

`BillingCalendar` is the day arithmetic of `subscriptions.rs` (`civil_from_days`,
`days_from_civil`, `add_months_stripe_style`), in days instead of nanoseconds.
`Subscriptions` keeps in `db` the maps these calls write: subscriptions, locks, prices,
the indexes by account, by product and by both, and the counts of pending targets.
`lock`, `update_subscription` and `unlock` are settled calls; `cancel_subscription` and
`resume_subscription` single receipts. A tail is an operator from `db` to the set of
values it may leave, empty when it panics. `fresh` says whether the row was settled in
the current epoch; the clock's step starts a new epoch. A settlement changes `net_stake` as
in `Farm`; if the pool's withdrawal, stake or unstake fails, the tail runs all the same and
the row stays unsettled (`epoch.rs:348`, `:485`, `:522`).

Abstractions. One active validator. Storage, one-off locks, claims and the resolution
of a default price are in the other modules; `user_validator_shares` and the list of all
ids are left out.

### Voting

`proposals`, `active_proposals`, `pending_queue`, `votes`, `paused` and
`max_active_proposals` are the contract's fields; `now` is the block time; `venear`
the version of the external tree; `fetches` the snapshot chains in flight,
each with the vote chained behind it, if any; `results` the outcomes of executed
actions. There is one action per entry point and callback. Nothing happens by
itself when a period ends: as in the code, handlers apply `update` and
`internal_advance_queue` first, and those two are modelled in full, with the
backdated start of a promotion.

Abstractions. A vote's Merkle proof is the requirement that its weight is of the
snapshot's version (what a proof shows is `MerkleTree`'s business). veNEAR growth between
the snapshot and the callback is part of `Weight`; `Supply` is the total of a version, at least
the sum of its weights. A tally is the veNEAR of an option
without its count of voters. The vote's storage deposit is left out. Threshold setters
are left out: their values are copied into a proposal on creation or approval, and enter
as constants. The sandbox build feature's two-minute schedule is not modelled.

### Lockup, Venear, VenearSystem

`Lockup` has the contract's fields under their names. `call` is the chain of receipts
with the pool: the pool's method, for a withdrawal the transfer, and the callback;
`refunds` are failed deposits and transfers on their way back; `updates` the reports sent
to veNEAR, which are detached. Every pool call may fail at any time. The pool itself
follows the mock pool. `delete_lockup` schedules `DeleteAccount`, which runs in a later
block; other calls may run in between, as they may in the code.

`Venear` has the accounts, the values of the Merkle tree, the global state and the part of
the configuration its handlers read. Amounts are small units, of which `MILLI` make a
milliNEAR, and the clock has `TICKS` to the second, so that both truncations are visible.
`set_lockup_contract` is called with the minimum deposit in force. Storage costs are left
out: the attached deposit of `set_delegations` is taken to suffice.

`VenearSystem` composes the two. `deploy_lockup`, `CreateLockup` and `LockupDeployed` are
the deployment and its callback; `UpdateArrives` delivers any report on its way. Two
assumptions about timing come from the runtime: a deployment's receipt runs in the block
after the call's, before the clock goes on; and receipts of a deleted lockup account do
not reach the account deployed in its place.

### MerkleTree

`internal_post_update` rehashes the path of the changed leaf, as in the code;
`ProofsAreExact` compares with a tree hashed from scratch. Hashes are abstract and
injective. `internal_pre_update` takes the snapshot at the first change of a new block.

## 3. Runs

| Run | Question | Result |
|---|---|---|
| `core` | two users, failures everywhere, a pool that rounds unstakes up, administrative calls in the middle of a chain: exclusion, one pool operation per epoch, coverage of claims, conservation of NEAR, the share ledger, callbacks' preconditions, and the refinement of `SettledCall` | holds |
| `deep` | unequal locks, rewards, a two-epoch delay: deficit, share price, unbonding; every chain ends | holds |
| `pull` | "pull from pool first, then `unstake`" | violated |
| `removed` | a removed validator stays empty | violated |
| `queue` | one or two slots, late advances: schedule, order, indexes; a queued proposal starts | holds |
| `tally` | both flows with votes, racing snapshots, pause, veto, execution, expiry: tally, outcome, bonds, terminal statuses | holds |
| `actions` | `Succeeded` means all actions succeeded | violated |
| `lockup` | one lockup and its pool: one call at a time, the known deposit, coverage of locks | holds |
| `system` | veNEAR and a lockup with reordered reports: supply, delegations, agreement | holds |
| `merkle` | proofs against a reference tree; snapshots | holds |
| `farm` | farm stakes with catalog, storage and payment calls: shares, rewards, catalog, prepaid records, money | holds |
| `subs` | subscriptions across month ends: windows, indexes, backing, views | holds |

The three violations are disagreements between the code and its documentation or
messages:

- `pull`: `can_withdraw` is read in one receipt and used in the next. If the epoch
  changes in between, `unstake` is sent with withdrawable NEAR still at the pool
  (`epoch.rs:233`; `docs/features/lazy-epoch-pipeline.md:16`). Nothing is lost; that
  NEAR waits another unlock delay.
- `removed`: `remove_validator` does not look at `tx_status` and
  `commit_catalog_lock` does not look at the status, so a lock in flight lands on
  a removed row (`validators.rs:173`, `lock.rs:533`; the messages at
  `validators.rs:183` and `:252`).
- `actions`: actions are chained with `then`, so the callback sees the last result
  only (`execute.rs:43`, `:63`; `src/README.md:124`).

Further behaviour met while modelling, each at its line among the hazards of
`PROJECT.json`. No run is about these; the properties are stated so as to say what does
hold.

- A lock may be committed with zero shares: `deep` reaches it, with a deposit of 1 when a
  share is worth 2, and that lock can then never be unlocked, because `internal_unstake`
  requires a positive number of shares. A subscription increase is guarded against it
  (`subscriptions.rs:1127`), `commit_catalog_lock` is not. With real amounts a share would
  have to be worth more than `min_lock_amount` (at least 1 NEAR); whether a row can reach
  such a price is not analysed.
- `lock_near` counts the account's balance and the known deposit. Between the arrival of a
  withdrawal and its callback the same NEAR is in both, so more can be locked than there
  is, and `venear_liquid_balance` then panics with "Illegal balance"
  (`lockup-contract/src/venear.rs:10`). `OnlyLockNearUnbacks` says that no other step
  does this.
- A view that fails leaves the lockup Busy (`owner_callbacks.rs:127`): its callback takes
  the result with `#[callback]` and panics. No progress property of `Lockup` is stated.
- The checks of `delete_lockup` run a receipt before the account is deleted
  (`owner.rs:454`, `:478`). If `lock_near` runs in between, the account is deleted with NEAR
  locked, although the comment at `owner.rs:446` says that deletion requires no locked
  balances. Nothing reports the deletion, and `on_lockup_deployed`
  (`venear-contract/src/lockup.rs:96`) keeps the balance, so veNEAR goes on counting it,
  also for the next lockup until that one reports. `ViewAgrees` excepts this.
- A report is refused and lost when it comes before the callback of its own deployment, or
  after that of the next one. `ViewAgrees` excepts the state after the lockup's last report
  was refused, until it reports again. These are its only two exceptions; the history
  variables `reported` and `missed` record them.
- A farm stake worth less than a share opens an active position without shares, which can
  neither be added to nor unstaked (`stake.rs:396`, `:560`); it counts as an active
  position, although `types.rs:472` says "with non-zero shares".
- When a settlement lowers the stake, the rewards shown by `get_farm_account` fall: all time
  since the pool was last settled is priced at the new value of a share (`stake.rs:276`).
  `EarnedByTime` allows this step and no other; what is booked never falls.
- `cancel_subscription` with a due update moves the subscription to the target price
  without counting a use of it, so that price can be deleted (`subscriptions.rs:121`).
- `lock` on a subscription with a due update always panics: applying the update makes the
  period current while the earlier lock is still active (`lock.rs:195` to `:208`). A
  renewal leaves the earlier lock active, and it can be unlocked only once the
  subscription is cancelled (`unlock.rs:105`).
- The tail of a lock does not check prepaid storage again, as a farm stake's does
  (`lock.rs:533`, `stake.rs:375`).

**Bounds.** Staking: two locks let a second user, or a second lock of one user,
meet a row with stake, liabilities or an unbonding amount; four or five epochs
cover stake, unstake, the unlock delay, withdrawal and a claim; one other call
allows a settle or a withdraw. Voting: three proposals on one or two slots give a
promotion that follows a backdated promotion; two voters and two versions of weights make
a wrong snapshot visible; the clock runs past the end of a proposal's periods, though
in `queue` not past the end of the third proposal in a row. Lockup: three calls about
locks and three about the pool, amounts of 1 and 2 and a reward let a deposit, its refund, a
withdrawal and a lock overlap, and time suffices for an unlock and a deletion. System: two
deployments and five owner calls let reports of both lockups be on their way together;
calls are counted against one budget, `MaxTotal`, in which other calls weigh more (an
instance with a budget of 7 and owner calls only also held, with 4.1 million states).
Merkle: five keys take the tree past two powers of two; three blocks give a snapshot that
is replaced. Farm: two users, at most three user calls, three catalog changes and the ticks
of the clock, five in all. The settlements add 13 or take 1: a share price that makes a stake
of 1 worth no share, rewards that fall, a price archived and replaced with a position on the
old one, and a closed position that comes back on the new price are all reached. Subs: one
user, at most three calls, two catalog changes, three jumps of 20 days from 31 December 2023
(so that February of a leap year clamps the anchor) and one failure at the pool, six in all.
With one user, the clauses of `SubscriptionIndexes` that tell accounts apart are not
exercised; two users were too many for a run of minutes.
Symmetry is used in `core`, `farm` and `merkle`, which check invariants and action
properties, and no liveness.

**Fairness.** `FairSpec` of `StakingPipeline` assumes that scheduled receipts run
(`WF_vars(Receipt)`), which the NEAR runtime guarantees; nobody is assumed to call.
`FairSpec` of `Voting` assumes that time passes and that somebody keeps calling
`advance_queue`, which is public; it is weak fairness of that call with its enabling
condition written out, because TLC is slow on `ENABLED` of it. The `queue` run leaves
pausing out: a contract paused for ever starts nothing.

**Deadlock** is checked in the runs of `StakingPipeline`, `Voting`, `Farm` and
`Subscriptions`. In `Voting` some call is always possible; in the others `NoCall` stutters
only while no chain is in flight, so a chain that cannot go on is reported. It is not checked in `lockup`, `system` and
`merkle`: these contracts may stop, when nobody calls or, for the lockup, after a failed
view.

## 4. Proofs

Every theorem holds for all values of the constants that satisfy the named assumptions of
the module it is about (users exist, amounts and bounds are naturals, sets of users and
voters are finite); a run evaluates those assumptions on its instance. The veNEAR theorems
have two more of their own, see below.

### The settlement pipeline

`StakingPipelineProofs` and `StakingPipelineLedger` prove, for every set of users, amounts, delays, dust, rewards, administrative calls and bounds:

| Theorem | States |
|---|---|
| `TypeCorrect` | `TypeOK` |
| `Exclusion` | `BusyIffInFlight` |
| `OneOpPerEpoch` | `OnePoolOpPerEpoch` |
| `Liability` | `LiabilityCovered` |
| `Solvency` | `Solvent` |
| `CallbacksSafe` | `CallbacksFindTheirState` |
| `Unbonding` | `UnbondingRunsOut`, if `PoolEpochs <= SettleEpochs` |
| `PipelineImplementsSettledCall` | `ImplementsSettledCall` |
| `CacheSafe` | `CacheNeverOverstates` |
| `DeficitNeverHidden` | `NoHiddenDeficit`, if `PoolDust = 0` |
| `PriceMonotone` | `PriceNeverDrops`, if `PoolDust = 0` |
| `SharesAreLocks` | `ShareLedger` |
| `OwedIsSum` | `OwedIsTranches` |

`TypeOK` is inductive by itself. The next five follow from `IInv`, which is inductive
given `TypeOK` and adds to the properties: `CallInv`, what the pool call in flight says
about the row's buckets (without it `Solvent` cannot be kept by a callback); `OpInv`, which
ties `pool_ops` to `last_settlement_epoch` and to the operation whose callback is still to
run (without it a second operation in the epoch cannot be excluded); and `UnbondInv`, which
bounds the pool's availability epoch by `last_unstake_epoch` plus the settle epochs. Each
action has a lemma of its own, with one step per conjunct it can disturb.

The refinement: the initial states map to initial states of `SettledCall`, and every step
of the pipeline maps to one of its steps or to a stutter. The entries need `IInv` for no
chain being in flight on a row that is not Busy.

`BookInv` (in `StakingPipelineLedger`) ties the row's cache and buckets to the pool's
account through each receipt of a chain; the price theorem compares the price before and
after each step, with the two rounding facts about `mint_shares` and `near_from_shares`
as lemmas. With dust the two theorems that assume `PoolDust = 0` are false: the pool then
unstakes NEAR nobody asked for, which leaves the gross stake when it is withdrawn and
belongs to no holder. The `deep` run, which checks the two properties, has no dust either;
`core` has it.

The two ledgers are sums over users and over each user's locks or tranches; they use
`SumTheorems`.

### The voting contract

`VotingQueue`, `VotingSteps` and `VotingProofs` prove, for every number of proposals, slots,
voters, durations and thresholds:

| Theorem | States |
|---|---|
| `NextMonday` | the scheduled start is a CET Monday midnight, strictly later and at most seven days away |
| `IndexesAgree` | `QueueIndexes` |
| `SlotsAreUsed` | `NoIdleSlot` |
| `TerminalForEver` | `TerminalStays` |
| `OutcomesAgree` | `OutcomeMatchesTally` |
| `TalliesAreVotes` | `TallyIsVotes` |
| `BondsPaidOnce` | `BondOnce` |

`VotingQueue` is about one call of `internal_advance_queue`: what the loop over the active
proposals and the loop over the queue leave, by induction over the number of proposals
handled (`Runs` is the loop invariant). `VotingSteps` goes through the handlers and shows
`QueueInv` inductive: types, the indexes, and that no slot is idle. `VotingProofs` adds one
layer per theorem on top of it: `AllSane` (which times and snapshot a status implies),
`AllTallies` (tally against recorded votes, and that a recorded vote has a snapshot), and
`BondLedger` (bonds against flow and status). A handler is first reduced to an edit of one
proposal after an advance of the queue; each layer then proves that edits of that kind, and
the promotions inside an advance, keep its invariant.

### The lockup

`LockupProofs` proves, for every amount, reward, duration and bound of `Lockup`:

| Theorem | States |
|---|---|
| `LockupTypes` | every amount stays a natural number |
| `OneCallAtATime` | `BusyWhileCalling` |
| `DepositIsThere` | `KnownDepositIsThere` |
| `LocksStayCovered` | `OnlyLockNearUnbacks` |

They follow from `LInv`, the two invariants together with `ChainInv`, which says what a
chain in flight knows: it has succeeded so far, only a withdrawal has a transfer, and a
balance just read is at least the deposit known before (without the last,
recording that balance could uncover a lock).
The last theorem is an action property: in each step the change of the balance,
the known deposit and the NEAR in transit cancels.

### The veNEAR contract and its lockup

`LockupProofs` and `VenearProofs` prove about `VenearSystem`, for every finite set of
accounts, every growth rate, rounding unit, amount, set of delegations and time:

| Theorem | Module | States |
|---|---|---|
| `ViewSafe` | `LockupProofs` | `ViewAgrees` |
| `SupplySafe` | `VenearProofs` | `SupplyIsBalances` |
| `DelegatedSafe` | `VenearProofs` | `DelegatedIsContributions` |

Assumptions. `VenearAssumption` says that the constants are naturals, the divisors
(a milliNEAR, a second, the basis points) not zero, and that delegation choices map
accounts to naturals; whether a choice is valid is decided by the model, as in the code.
`NonceAssumption` says that one lockup sends fewer reports than the nonces reserved for a
block, 1,000,000 in `venear-contract/src/lockup.rs`. The code relies on it: the first nonce
of a lockup is the block height times that number, and a lockup that used more could have
reports accepted in place of its successor's. In the model a call of the owner that
reports takes one of `MaxOwnerCalls`, so the assumption is about the two bounds. All three theorems
rest on it, because one induction carries their invariants together.

`ViewSafe` follows from `KnownInv`: how the lockup's nonce relates to the block height
(`NonceInv`), that a deployment not yet created has a nonce no lockup has yet
(`DeployInv`), what a report on its way can say (`ReportInv`), that veNEAR recorded no nonce
the lockup has not used (`OwnerInv`), that it knows the version of the lockup unless the
callback is still to come (`VersionInv`), and that, unless `missed` holds, the newest report
made so far is on its way or is the one recorded (`NewestInv`). Without the first two, a
report of a deleted lockup could be taken for one of its successor. `ViewSafe` has the two
exceptions of `ViewAgrees`: the last report was refused, or NEAR was locked between the
checks of `delete_lockup` and the deletion; both end with the next report.

`SupplySafe` and `DelegatedSafe` follow from `TreeInv`. A balance grows linearly in whole
seconds and whole milliNEAR, so each balance is traced back to its *origin*: the extra
balance it would have had at time 0. Origins do not change as time passes, and the
invariant is about them: every account's delegated pool is the sum of its delegators'
parts and shares (`PoolsAgree`), and the global total is the sum of the accounts' whole
milliNEAR and of their extra balances with the remainders below a milliNEAR
(`TotalAgrees`). The first half of the work is arithmetic (the last part of
`LockupProofs`): that growing and taking a share commute although both
round, because a share is rounded to whole milliNEAR before it grows. The other half is
sums: an update of one account moves each pool and the total by just what changed, and
summing the accounts' own and delegated balances exchanges two sums (`SumSwap` in
`SumTheorems`), in which every delegated share cancels against its delegator.

### Induction over data

The provers cannot instantiate an induction theorem that takes a predicate as an operator.
`SumTheorems` therefore states induction with a *set* for the predicate (`BoundedInduction`,
and `BoundedRecursion` for functions defined by recursion on a number), and derives from it
what `SumFunction` and `FoldFunction` compute: that a sum splits at an index, is
monotone, and changes by the change of one entry.

### Only model-checked

- All liveness (`ChainEnds`, `QueuedStarts`).
- `SlotSchedule`, which counts the proposals that occupied a slot at every past moment, and
  `FifoStarts`.
- `MerkleTree`, `Farm`, `Catalog`, `BillingCalendar` and `Subscriptions`. `MerkleTree` and
  `BillingCalendar` are defined by recursion over data; nothing is proved about them.

Checking all proofs from nothing takes about 95 minutes, one module after the other.

## 5. Not modelled

- Configuration setters of the staking contract, most of those of the others, ownership
  proposals: single guarded steps. Their values are constants; a change of one in the
  middle of a chain is covered only where a model has the setter
  (`set_max_active_proposals`, `set_local_deposit`, `set_max_delegations`,
  `set_lockup_contract`).
- Upgrade, migration and the legacy layouts: they are about storage encodings, which the
  models do not have.
- Catalog managers, names and descriptions, list and paging views, ids, gas and events.
- The storage deposit of a vote and of `set_delegations`: it depends on bytes of storage.
- Prepaid storage of locks, tranches and subscriptions; adding a validator; several
  validator rows at once. The rows share no state but the maps keyed by them and storage.
- A pool that loses stake (slashing), or credits less than was deposited.
- The command line tool.
- Progress of withdrawals: it needs users who keep calling `epoch_settle`.
