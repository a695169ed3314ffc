-------------------------------- MODULE Voting --------------------------------
(***************************************************************************)
(* The voting contract: proposals of both flows from creation to execution,*)
(* the bounded set of active proposals with its FIFO queue, votes weighed  *)
(* by a veNEAR snapshot that is fetched asynchronously, and the execution  *)
(* of a passed proposal's actions.                                         *)
(*                                                                         *)
(* Time only advances between receipts.  Nothing happens by itself when a  *)
(* period ends: every handler first brings the proposal it reads, or the   *)
(* whole queue, up to date (update, internal_advance_queue).               *)
(***************************************************************************)
EXTENDS VotingCalendar, Sequences, FiniteSets, FiniteSetsExt, Functions

CONSTANTS
    Flows,                \* the flows in scope, of {"Classic", "FastTrack"}
    ActionLists,          \* how many actions a proposal may carry (0: signaling)
    Voters,               \* veNEAR holders
    Weight,               \* Weight[version][voter]: veNEAR of a snapshot version
    Options,              \* the vote options voters use
    Supply,               \* Supply[version]: the total veNEAR of that version
    proposal_expiration_ns, voting_duration_ns, \* by flow
    timelock_duration_ns, sandbox_duration_ns,
    quorum_threshold_bps, quorum_floor, sandbox_threshold_bps,
    MajorityBps,          \* approval thresholds a reviewer may choose, by flow
    bond_amount,          \* config.bond_amount
    MaxActives,           \* values of config.max_active_proposals, Init's first
    Scope,                \* optional calls in scope
    StartTime, MaxTime,   \* bounds on the clock
    LastApproval,         \* bound: no approval after this time
    MaxProposals,         \* bound on proposals ever created
    MaxFetches            \* bound on snapshot fetches and chained votes

ASSUME VotingAssumption ==
    /\ Flows \subseteq {"Classic", "FastTrack"} /\ ActionLists \subseteq Nat
    /\ Options \subseteq {"For", "Against", "Abstain"}
    /\ IsFiniteSet(Voters)
    /\ 1 \in DOMAIN Weight /\ DOMAIN Weight \subseteq Nat \ {0}
    /\ \A version \in DOMAIN Weight : Weight[version] \in [Voters -> Nat]
    /\ StartTime \in Nat \ {0} /\ MaxTime \in Nat /\ MaxProposals \in Nat
    /\ \A f \in Flows : /\ voting_duration_ns[f] \in Nat \ {0}
                        /\ proposal_expiration_ns[f] \in Nat
                        /\ MajorityBps[f] \subseteq Nat
    /\ timelock_duration_ns \in Nat /\ sandbox_duration_ns \in Nat \ {0}
    /\ bond_amount \in Nat
    /\ 1 \in DOMAIN MaxActives
    /\ \A i \in DOMAIN MaxActives : MaxActives[i] \in Nat \ {0}

ASSUME SupplyAssumption ==
    \A version \in DOMAIN Weight :
        Supply[version] \in Nat /\ SumFunction(Weight[version]) <= Supply[version]

ASSUME BpsAssumption ==
    quorum_threshold_bps \in 0..10000 /\ sandbox_threshold_bps \in 0..10000

VARIABLES
    proposals,            \* Vector<Proposal>, by id
    active_proposals,     \* the ids that occupy a slot
    pending_queue,        \* the approved ids that wait for one
    votes,                \* votes[id][voter]: the option recorded, or "none"
    max_active_proposals,
    most_slots,           \* history: the most slots the owner ever allowed
    paused,
    now,                  \* env::block_timestamp
    venear,               \* current version of the veNEAR merkle tree
    fetches,              \* promise chains of snapshots and chained votes
    results,              \* results[id]: outcomes of the actions executed
    paid,                 \* history: bond NEAR paid to treasury and proposers
    released              \* history: when a veto or noveto freed the slot

queue == <<active_proposals, pending_queue>>
slots == <<max_active_proposals, most_slots>>
vars  == <<proposals, queue, votes, slots, paused, now, venear,
           fetches, results, paid, released>>

-----------------------------------------------------------------------------
(* Data. *)

VoteOption == {"For", "Against", "Abstain"}

Active == {"Sandbox", "Scheduled", "Voting", "Timelock"}

\* Fault: a proposal that waits for its execution keeps its slot.
is_active_status_Executable(s) == s \in Active \cup {"Executable"}

\* Fault: a proposal in its timelock gives its slot up.
is_active_status_NoTimelock(s) == s \in Active \ {"Timelock"}

is_active_status(s) == s \in Active

Versions == DOMAIN Weight

total_venear(version) == Supply[version]

Bps(b, x) == (x * b) \div 10000

\* An unset Option<U64> time, and an unset snapshot, are 0.
NewProposal(f, n) ==
    [flow |-> f, actions |-> n, status |-> "Created",
     expiration |-> IF proposal_expiration_ns[f] > 0
                    THEN now + proposal_expiration_ns[f] ELSE 0,
     approval |-> 0, voting_start |-> 0, sandbox_start |-> 0, snapshot |-> 0,
     approval_bps |-> 0,
     tally |-> [o \in VoteOption |-> 0], total_votes |-> 0,
     bond |-> IF f = "FastTrack" THEN bond_amount ELSE 0]

has_actions(p) == p.actions > 0

activate(p, start_time) ==
    IF p.flow = "Classic"
    THEN [p EXCEPT !.voting_start = start_time, !.status = "Voting"]
    ELSE [p EXCEPT !.sandbox_start = start_time, !.status = "Sandbox"]

sandbox_threshold_met(p) ==
    /\ p.snapshot # 0
    /\ p.tally["For"] >= Bps(sandbox_threshold_bps, total_venear(p.snapshot))

compute_final_status(p) ==
    LET required    == Max({Bps(quorum_threshold_bps, total_venear(p.snapshot)),
                            quorum_floor})
        denominator == p.tally["For"] + p.tally["Against"]
    IN  IF /\ p.snapshot # 0
           /\ p.total_votes >= required
           /\ denominator > 0
           /\ p.tally["For"] * 10000 >= p.approval_bps * denominator
        THEN "Succeeded" ELSE "Defeated"

voting_end(p) == p.voting_start + voting_duration_ns[p.flow]

\* Fault: the slot is taken to be free during the timelock.
active_end_time_ns_NoTimelock(p) ==
    IF p.flow = "Classic" \/ p.voting_start # 0
    THEN voting_end(p) ELSE p.sandbox_start + sandbox_duration_ns

active_end_time_ns(p) ==
    IF p.flow = "Classic"
    THEN IF compute_final_status(p) = "Succeeded"
         THEN voting_end(p) + timelock_duration_ns ELSE voting_end(p)
    ELSE IF p.voting_start # 0
         THEN voting_end(p) ELSE p.sandbox_start + sandbox_duration_ns

Passed(p) == IF has_actions(p) THEN "Executable" ELSE "Succeeded"

\* Proposal::update: the status a proposal has at time t.
updated_status(p, t) ==
    CASE p.status = "Created" /\ p.expiration > 0 /\ t >= p.expiration -> "Expired"
      [] /\ p.flow = "Classic" /\ p.status \in {"Voting", "Timelock"}
         /\ t >= voting_end(p) ->
           IF compute_final_status(p) # "Succeeded" THEN "Defeated"
           ELSE IF t < voting_end(p) + timelock_duration_ns THEN "Timelock"
           ELSE Passed(p)
      [] /\ p.flow = "FastTrack" /\ p.status = "Sandbox"
         /\ t >= p.sandbox_start + sandbox_duration_ns -> "Defeated"
      [] /\ p.flow = "FastTrack" /\ p.status \in {"Scheduled", "Voting"}
         /\ t >= p.voting_start ->
           IF t < voting_end(p) THEN "Voting"
           ELSE IF compute_final_status(p) # "Succeeded" THEN "Defeated"
           ELSE Passed(p)
      [] OTHER -> p.status

update(p) == [p EXCEPT !.status = updated_status(p, now)]

-----------------------------------------------------------------------------
(* The queue.  A handler computes the contract's proposals and queue as one *)
(* record and stores it at its end: a panic stores nothing.                 *)

Stored == [proposals |-> proposals, active |-> active_proposals,
           queue |-> pending_queue]

Store(s) ==
    /\ proposals' = s.proposals
    /\ active_proposals' = s.active
    /\ pending_queue' = s.queue

internal_set_proposal(s, id, p) ==
    [s EXCEPT !.proposals[id] = p,
              !.active = IF is_active_status(p.status) THEN @ \cup {id}
                                                       ELSE @ \ {id}]

\* freed_slot_times is kept in ascending order.
InsertTime(times, t) ==
    LET later == {i \in DOMAIN times : times[i] >= t}
        k     == IF later = {} THEN Len(times) + 1 ELSE Min(later)
    IN  SubSeq(times, 1, k - 1) \o <<t>> \o SubSeq(times, k, Len(times))

\* Proposal::update of every active proposal.  (SubSeq makes it a tuple: TLC
\* loses an EXCEPT of a function constructor in a later Append.)
Refreshed(s) ==
    SubSeq([id \in DOMAIN s.proposals |->
              IF id \in s.active THEN update(s.proposals[id]) ELSE s.proposals[id]],
           1, Len(s.proposals))

\* freed_slot_times: when the proposals that leave their slot left it.
FreedTimes(current, exiting) ==
    LET times[n \in 0..Len(current)] ==
            IF n = 0 THEN <<>>
            ELSE IF n \in exiting
                 THEN InsertTime(times[n - 1], active_end_time_ns(current[n]))
                 ELSE times[n - 1]
    IN  times[Len(current)]

\* One pending proposal takes the earliest freed slot, or an empty one now.  A
\* proposal whose time has run out already frees its slot again.
Promote(acc, id, max) ==
    IF acc.count >= max
    THEN acc
    ELSE LET start == IF acc.freed = <<>> THEN now ELSE Head(acc.freed)
             rest  == IF acc.freed = <<>> THEN <<>> ELSE Tail(acc.freed)
             p     == update(activate(acc.s.proposals[id], start))
             on    == is_active_status(p.status)
         IN  [count |-> IF on THEN acc.count + 1 ELSE acc.count,
              freed |-> IF on THEN rest ELSE InsertTime(rest, active_end_time_ns(p)),
              taken |-> acc.taken + 1,
              s     |-> internal_set_proposal(acc.s, id, p)]

\* The loop over pending_queue: what it has done after n proposals.
Promotions(base, max) ==
    LET after[n \in 0..Len(base.s.queue)] ==
            IF n = 0 THEN base
            ELSE Promote(after[n - 1], base.s.queue[n], max)
    IN  after[Len(base.s.queue)]

\* The active proposals brought up to date, and the slots they leave.
Vacated(s) ==
    LET current == Refreshed(s)
        exiting == {id \in s.active : ~is_active_status(current[id].status)}
        active  == s.active \ exiting
    IN  [count |-> Cardinality(active), freed |-> FreedTimes(current, exiting),
         taken |-> 0, s |-> [s EXCEPT !.proposals = current, !.active = active]]

\* compute_queue_advance and internal_advance_queue, from the state s.
Advance(s, max) ==
    LET done == Promotions(Vacated(s), max)
    IN  [done.s EXCEPT !.queue = SubSeq(@, done.taken + 1, Len(@))]

internal_advance_queue == Advance(Stored, max_active_proposals)

advance_queue ==
    /\ ~paused
    /\ \E s \in {internal_advance_queue} : Store(s)
    /\ UNCHANGED <<votes, slots, paused, now, venear, fetches,
                   results, paid, released>>

set_max_active_proposals ==
    /\ "set_max" \in Scope
    /\ \E i \in DOMAIN MaxActives :
          /\ max_active_proposals' = MaxActives[i]
          /\ most_slots' = Max({most_slots, MaxActives[i]})
          /\ Store(Advance(Stored, MaxActives[i]))
    /\ UNCHANGED <<votes, paused, now, venear, fetches, results, paid, released>>

-----------------------------------------------------------------------------
(* Proposers and reviewers. *)

create_proposal(f, n) ==
    /\ ~paused
    /\ Len(proposals) < MaxProposals
    /\ proposals' = Append(proposals, NewProposal(f, n))
    /\ UNCHANGED <<queue, votes, slots, paused, now, venear,
                   fetches, results, paid, released>>

\* A promise chain: get_snapshot, then on_get_snapshot, then perhaps vote.
NoVote == [voter |-> "none"]

Fetch(stage, id, ballot) ==
    [stage |-> stage, id |-> id, version |-> 0, ballot |-> ballot]

Done == Fetch("done", 0, NoVote)

CanFetch == Len(fetches) < MaxFetches

\* Fault: the newest approval is served first.
Enqueue_Front(q, id) == <<id>> \o q

Enqueue(q, id) == Append(q, id)

\* What approve_proposal does once the queue is s.
Approve(s, id, bps) ==
    LET p == [update(s.proposals[id]) EXCEPT
                !.approval = now, !.bond = 0, !.approval_bps = bps]
    IN  /\ ~paused
        /\ now <= LastApproval
        /\ p.status = "Created"
        /\ paid' = [paid EXCEPT !.treasury = @ + s.proposals[id].bond]
        /\ \/ /\ Cardinality(s.active) < max_active_proposals
              /\ CanFetch
              /\ Store(internal_set_proposal(s, id, activate(p, now)))
              /\ fetches' = Append(fetches, Fetch("venear", id, NoVote))
           \/ /\ Cardinality(s.active) >= max_active_proposals
              /\ Store([internal_set_proposal(s, id, [p EXCEPT !.status = "Queued"])
                          EXCEPT !.queue = Enqueue(@, id)])
              /\ UNCHANGED fetches
        /\ UNCHANGED <<votes, slots, paused, now, venear, results,
                       released>>

approve_proposal(id, bps) == Approve(internal_advance_queue, id, bps)

\* Fault: any proposal can be rejected.
reject_proposal_AnyStatus(id) ==
    /\ ~paused
    /\ Store(internal_set_proposal(Stored, id,
               [update(proposals[id]) EXCEPT !.status = "Rejected"]))
    /\ UNCHANGED <<votes, slots, paused, now, venear, fetches,
                   results, paid, released>>

reject_proposal(id) ==
    LET p == update(proposals[id])
    IN  /\ ~paused
        /\ p.status = "Created"
        /\ Store(internal_set_proposal(Stored, id, [p EXCEPT !.status = "Rejected"]))
        /\ UNCHANGED <<votes, slots, paused, now, venear, fetches,
                       results, paid, released>>

slash_proposal(id) ==
    LET p == update(proposals[id])
    IN  /\ ~paused
        /\ p.flow = "FastTrack"
        /\ p.status = "Created"
        /\ paid' = [paid EXCEPT !.treasury = @ + p.bond]
        /\ Store(internal_set_proposal(Stored, id,
                   [p EXCEPT !.status = "Slashed", !.bond = 0]))
        /\ UNCHANGED <<votes, slots, paused, now, venear, fetches,
                       results, released>>

\* Fault: the claimed bond stays on the proposal.
claim_bond_Again(id) ==
    /\ proposals[id].bond > 0
    /\ updated_status(proposals[id], now) \in {"Expired", "Rejected"}
    /\ paid' = [paid EXCEPT !.proposer = @ + proposals[id].bond]
    /\ Store(internal_set_proposal(Stored, id, update(proposals[id])))
    /\ UNCHANGED <<votes, slots, paused, now, venear, fetches,
                   results, released>>

\* claim_bond does not look at paused.
claim_bond(id) ==
    LET p == update(proposals[id])
    IN  /\ p.flow = "FastTrack"
        /\ p.bond > 0
        /\ p.status \in {"Expired", "Rejected"}
        /\ paid' = [paid EXCEPT !.proposer = @ + p.bond]
        /\ Store(internal_set_proposal(Stored, id, [p EXCEPT !.bond = 0]))
        /\ UNCHANGED <<votes, slots, paused, now, venear, fetches,
                       results, released>>

-----------------------------------------------------------------------------
(* The council. *)

veto_proposal(id) ==
    LET s == internal_advance_queue
        p == update(s.proposals[id])
        v == internal_set_proposal(s, id, [p EXCEPT !.status = "Vetoed"])
    IN  /\ ~paused
        /\ \/ p.flow = "Classic" /\ p.status = "Timelock"
           \/ p.flow = "FastTrack" /\ p.status \in {"Voting", "Scheduled"}
        /\ Store(Advance(v, max_active_proposals))
        /\ released' = [released EXCEPT ![id] = now]
        /\ UNCHANGED <<votes, slots, paused, now, venear, fetches,
                       results, paid>>

\* Fault: the freed slot is not offered to the queue.
noveto_proposal_NoAdvance(id) ==
    LET p == update(proposals[id])
    IN  /\ ~paused
        /\ p.status = "Timelock"
        /\ Store(internal_set_proposal(Stored, id, [p EXCEPT !.status = Passed(p)]))
        /\ released' = [released EXCEPT ![id] = now]
        /\ UNCHANGED <<votes, slots, paused, now, venear, fetches,
                       results, paid>>

noveto_proposal(id) ==
    LET p == update(proposals[id])
        v == internal_set_proposal(Stored, id, [p EXCEPT !.status = Passed(p)])
    IN  /\ ~paused
        /\ p.status = "Timelock"
        /\ Store(Advance(v, max_active_proposals))
        /\ released' = [released EXCEPT ![id] = now]
        /\ UNCHANGED <<votes, slots, paused, now, venear, fetches,
                       results, paid>>

-----------------------------------------------------------------------------
(* Snapshots and votes. *)

take_snapshot_and_vote(id, ballot) ==
    LET s == internal_advance_queue
        p == update(s.proposals[id])
    IN  /\ ~paused
        /\ CanFetch
        /\ p.status \in {"Sandbox", "Voting"}
        /\ p.snapshot = 0 \/ ballot # NoVote
        /\ Store(s)
        /\ fetches' = Append(fetches,
                        Fetch(IF p.snapshot = 0 THEN "venear" ELSE "vote", id, ballot))
        /\ UNCHANGED <<votes, slots, paused, now, venear, results,
                       paid, released>>

\* The veNEAR contract answers with its current snapshot, or the call fails.
get_snapshot(n) ==
    /\ fetches[n].stage = "venear"
    /\ \E v \in {venear} \cup {0 : x \in Scope \cap {"fetch_fails"}} :
          fetches' = [fetches EXCEPT ![n].stage = "callback", ![n].version = v]
    /\ UNCHANGED <<proposals, queue, votes, slots, paused, now,
                   venear, results, paid, released>>

AfterCallback(f) == IF f.ballot = NoVote THEN Done ELSE [f EXCEPT !.stage = "vote"]

SnapshotFits(p) == p.status \in {"Sandbox", "Voting"} /\ p.snapshot = 0

on_get_snapshot(n) ==
    LET f    == fetches[n]
        p    == update(proposals[f.id])
        fits == ~paused /\ f.version # 0 /\ SnapshotFits(p)
    IN  /\ f.stage = "callback"
        /\ fetches' = [fetches EXCEPT ![n] = AfterCallback(f)]
        /\ \/ /\ fits
              /\ Store(internal_set_proposal(Stored, f.id,
                         [p EXCEPT !.snapshot = f.version]))
           \/ ~fits /\ UNCHANGED <<proposals, queue>>
        /\ UNCHANGED <<votes, slots, paused, now, venear, results,
                       paid, released>>

\* Fault: votes are still taken during the timelock.
CanVote_Late(s, id, b) ==
    LET p == update(s.proposals[id])
    IN  /\ ~paused
        /\ p.status \in {"Voting", "Timelock"}
        /\ p.snapshot # 0 /\ b.version = p.snapshot
        /\ Weight[p.snapshot][b.voter] > 0
        /\ votes[id][b.voter] # b.option

\* vote's checks.  The merkle proof of b is for one version of the tree, and
\* must be for the snapshot of the proposal.
CanVote(s, id, b) ==
    LET p == update(s.proposals[id])
    IN  /\ ~paused
        /\ p.status = "Voting" \/ (p.status = "Sandbox" /\ b.option = "For")
        /\ p.snapshot # 0
        /\ b.version = p.snapshot
        /\ Weight[p.snapshot][b.voter] > 0
        /\ votes[id][b.voter] # b.option

\* Fault: a changed vote leaves the old option's tally alone.
Counted_Twice(p, old, b) ==
    LET w == Weight[p.snapshot][b.voter]
    IN  [p EXCEPT !.tally = [p.tally EXCEPT ![b.option] = @ + w],
                  !.total_votes = @ + w]

Counted(p, old, b) ==
    LET w     == Weight[p.snapshot][b.voter]
        minus == IF old = "none" THEN p.tally ELSE [p.tally EXCEPT ![old] = @ - w]
    IN  [p EXCEPT !.tally = [minus EXCEPT ![b.option] = @ + w],
                  !.total_votes = IF old = "none" THEN @ + w ELSE @ - w + w]

Graduated(p) ==
    IF p.flow = "FastTrack" /\ p.status = "Sandbox" /\ sandbox_threshold_met(p)
    THEN [p EXCEPT !.voting_start = next_voting_start_ns(now), !.status = "Scheduled"]
    ELSE p

CastVote(id, b) ==
    LET s == internal_advance_queue
        p == Graduated(Counted(update(s.proposals[id]), votes[id][b.voter], b))
    IN  /\ CanVote(s, id, b)
        /\ Store(internal_set_proposal(s, id, p))
        /\ votes' = [votes EXCEPT ![id][b.voter] = b.option]

vote(id, b) ==
    /\ CastVote(id, b)
    /\ UNCHANGED <<slots, paused, now, venear, fetches, results,
                   paid, released>>

\* The vote a promise chain ends with; a panic keeps the state.
ChainedVote(n) ==
    LET f == fetches[n]
    IN  /\ f.stage = "vote"
        /\ fetches' = [fetches EXCEPT ![n] = Done]
        /\ \/ CastVote(f.id, f.ballot)
           \/ /\ ~CanVote(internal_advance_queue, f.id, f.ballot)
              /\ UNCHANGED <<proposals, queue, votes>>
        /\ UNCHANGED <<slots, paused, now, venear, results, paid,
                       released>>

-----------------------------------------------------------------------------
(* Execution. *)

execute_proposal(id) ==
    LET s == internal_advance_queue
        p == update(s.proposals[id])
    IN  /\ ~paused
        /\ p.status = "Executable"
        /\ Store(internal_set_proposal(s, id, [p EXCEPT !.status = "InProgress"]))
        /\ UNCHANGED <<votes, slots, paused, now, venear, fetches,
                       results, paid, released>>

\* External: the actions run one after the other, whatever the earlier ones did.
RunAction(id) ==
    /\ proposals[id].status = "InProgress"
    /\ Len(results[id]) < proposals[id].actions
    /\ \E r \in BOOLEAN : results' = [results EXCEPT ![id] = Append(@, r)]
    /\ UNCHANGED <<proposals, queue, votes, slots, paused, now,
                   venear, fetches, paid, released>>

\* The callback is chained to the last action: promise_results_count is 1.
on_execute_proposal(id) ==
    LET s             == internal_advance_queue
        all_succeeded == results[id][Len(results[id])]
    IN  /\ proposals[id].status = "InProgress"
        /\ Len(results[id]) = proposals[id].actions
        /\ Store(internal_set_proposal(s, id,
                   [s.proposals[id] EXCEPT
                      !.status = IF all_succeeded THEN "Succeeded" ELSE "Failed"]))
        /\ UNCHANGED <<votes, slots, paused, now, venear, fetches,
                       results, paid, released>>

-----------------------------------------------------------------------------
(* The environment. *)

pause ==
    /\ "pause" \in Scope
    /\ paused' = TRUE
    /\ UNCHANGED <<proposals, queue, votes, slots, now, venear,
                   fetches, results, paid, released>>

unpause ==
    /\ "pause" \in Scope
    /\ paused' = FALSE
    /\ UNCHANGED <<proposals, queue, votes, slots, now, venear,
                   fetches, results, paid, released>>

\* An account of the veNEAR contract is stored with another balance.
VenearChanges ==
    /\ venear + 1 \in Versions
    /\ venear' = venear + 1
    /\ UNCHANGED <<proposals, queue, votes, slots, paused, now,
                   fetches, results, paid, released>>

Tick ==
    /\ now < MaxTime
    /\ now' = now + 1
    /\ UNCHANGED <<proposals, queue, votes, slots, paused, venear,
                   fetches, results, paid, released>>

-----------------------------------------------------------------------------

Init ==
    /\ proposals = <<>>
    /\ active_proposals = {}
    /\ pending_queue = <<>>
    /\ votes = [id \in 1..MaxProposals |-> [v \in Voters |-> "none"]]
    /\ max_active_proposals = MaxActives[1]
    /\ most_slots = MaxActives[1]
    /\ paused = FALSE
    /\ now = StartTime
    /\ venear = 1
    /\ fetches = <<>>
    /\ results = [id \in 1..MaxProposals |-> <<>>]
    /\ paid = [treasury |-> 0, proposer |-> 0]
    /\ released = [id \in 1..MaxProposals |-> 0]

Ids == DOMAIN proposals

Ballots == [voter: Voters, option: Options, version: Versions]

Ballot(v) == {b \in Ballots : b.version = v}

Calls ==
    \/ \E f \in Flows, n \in ActionLists : create_proposal(f, n)
    \/ \E id \in Ids : \E bps \in MajorityBps[proposals[id].flow] :
          approve_proposal(id, bps)
    \/ \E id \in Ids : reject_proposal(id)
    \/ \E id \in Ids : slash_proposal(id)
    \/ \E id \in Ids : claim_bond(id)
    \/ \E id \in Ids : veto_proposal(id)
    \/ \E id \in Ids : noveto_proposal(id)
    \/ \E id \in Ids : \E b \in Ballots : vote(id, b)
    \/ \E id \in Ids : \E b \in {NoVote} \cup Ballot(venear) :
          take_snapshot_and_vote(id, b)
    \/ \E id \in Ids : execute_proposal(id)
    \/ advance_queue
    \/ set_max_active_proposals
    \/ pause \/ unpause

Receipts ==
    \/ \E n \in DOMAIN fetches :
          get_snapshot(n) \/ on_get_snapshot(n) \/ ChainedVote(n)
    \/ \E id \in Ids : RunAction(id) \/ on_execute_proposal(id)

Next == Calls \/ Receipts \/ VenearChanges \/ Tick

Spec == Init /\ [][Next]_vars

\* Time passes, and somebody keeps calling advance_queue: weak fairness of Tick
\* and of advance_queue, the latter with its ENABLED written out.
FairSpec ==
    /\ Spec
    /\ WF_vars(Tick)
    /\ []<>(paused \/ internal_advance_queue = Stored) \/ []<><<advance_queue>>_vars

-----------------------------------------------------------------------------
(* Properties. *)

\* active_proposals and pending_queue index the stored statuses exactly, and
\* no proposal waits twice, whichever handler wrote the proposal last.
QueueIndexes ==
    /\ active_proposals = {id \in Ids : proposals[id].status \in Active}
    /\ Range(pending_queue) = {id \in Ids : proposals[id].status = "Queued"}
    /\ IsInjective(pending_queue)

\* No slot stays empty while a proposal waits: every handler that frees a slot
\* advances the queue before it returns.
NoIdleSlot ==
    pending_queue # <<>> => Cardinality(active_proposals) >= max_active_proposals

Begin(p) == IF p.flow = "Classic" THEN p.voting_start ELSE p.sandbox_start

Started(id) == id \in Ids /\ Begin(proposals[id]) # 0

\* Did id occupy a slot at time t?  Judged with hindsight: by the status that
\* update gives for t from the final tally, unless the council freed the slot.
Occupies(id, t) ==
    LET p     == proposals[id]
        first == CASE p.flow = "Classic" -> "Voting"
                   [] p.flow = "FastTrack" /\ p.voting_start # 0 -> "Scheduled"
                   [] OTHER -> "Sandbox"
    IN  /\ Started(id)
        /\ Begin(p) <= t
        /\ released[id] # 0 => t < released[id]
        /\ updated_status([p EXCEPT !.status = first], t) \in Active

\* Backdating is consistent: at no moment of the past did more proposals run
\* than the owner had allowed slots, however late the queue was advanced.
SlotSchedule ==
    \A t \in StartTime..now :
        Cardinality({id \in Ids : Occupies(id, t)}) <= most_slots

\* Approved proposals start in the order of their approval ("promoted FIFO").
FifoStarts ==
    \A i, j \in Ids :
        Started(j) /\ 0 < proposals[i].approval
          /\ proposals[i].approval < proposals[j].approval =>
            Started(i) /\ Begin(proposals[i]) <= Begin(proposals[j])

SumWeights(S, version) ==
    SumFunction([v \in Voters |-> IF v \in S THEN Weight[version][v] ELSE 0])

\* A tally is the veNEAR, at the proposal's one snapshot, of the accounts whose
\* recorded vote it counts: no vote is counted twice, lost, or counted with the
\* balance of another snapshot.
TallyIsVotes ==
    \A id \in Ids :
        LET p == proposals[id]
            By(S) == {v \in Voters : votes[id][v] \in S}
        IN  IF p.snapshot = 0
            THEN By(VoteOption) = {} /\ p.total_votes = 0
            ELSE /\ p.total_votes = SumWeights(By(VoteOption), p.snapshot)
                 /\ \A o \in VoteOption :
                       p.tally[o] = SumWeights(By({o}), p.snapshot)

\* What the contract says of a voting that has ended agrees with the tally it
\* stores: no late vote or snapshot contradicts an outcome already announced.
\* Actions run only when the timelock is over, by the clock or because the
\* council waived it.
OutcomeMatchesTally ==
    \A id \in Ids :
        LET p == proposals[id]
        IN  /\ p.status \in {"Timelock", "Executable", "InProgress", "Succeeded", "Failed"}
                 => compute_final_status(p) = "Succeeded"
            /\ p.status = "Defeated" /\ p.voting_start # 0
                 => compute_final_status(p) = "Defeated"
            /\ has_actions(p) /\ p.status \in {"InProgress", "Succeeded", "Failed"}
                 => released[id] # 0 \/ now >= active_end_time_ns(p)

Terminal == {"Rejected", "Vetoed", "Succeeded", "Expired", "Defeated", "Failed",
             "Slashed"}

\* A terminal status, as the clock gives it, is never left: neither a late
\* callback nor a reviewer nor the scheduler revives a proposal.
TerminalStays ==
    [][\A id \in Ids :
         updated_status(proposals[id], now) \in Terminal =>
           updated_status(proposals'[id], now') = updated_status(proposals[id], now)]_vars

\* Every bond is on its proposal or was paid out once, to one party, and only
\* a proposal that was never approved gives it back.
BondOnce ==
    /\ paid.treasury + paid.proposer + SumFunction([id \in Ids |-> proposals[id].bond])
         = SumFunction([id \in Ids |->
                          IF proposals[id].flow = "FastTrack" THEN bond_amount ELSE 0])
    /\ paid.proposer <=
         SumFunction([id \in Ids |->
                        IF proposals[id].status \in {"Created", "Expired", "Rejected"}
                        THEN bond_amount ELSE 0])

\* "Succeeded: all actions completed successfully.  Failed: one or more actions
\* failed on-chain" (README.md).
SucceededMeansAll ==
    \A id \in Ids :
        proposals[id].status = "Succeeded" =>
          \A k \in DOMAIN results[id] : results[id][k]

\* An approved proposal does not wait for ever: as long as somebody advances the
\* queue, it gets its slot.
QueuedStarts ==
    \A id \in 1..MaxProposals :
        (id \in Range(pending_queue)) ~> (id \notin Range(pending_queue))
=============================================================================
