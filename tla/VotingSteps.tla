----------------------------- MODULE VotingSteps ----------------------------
(***************************************************************************)
(* Every step of Voting keeps the indexes of the queue, leaves no slot     *)
(* idle, and has one of a few shapes: it edits one proposal in the way of  *)
(* its handler while the others only move with the queue.  The invariants  *)
(* that the shapes are used for are stated here, too.                      *)
(***************************************************************************)
EXTENDS VotingQueue

-----------------------------------------------------------------------------
(* The inductive invariant. *)

FetchType ==
    [stage: {"venear", "callback", "vote", "done"}, id: Nat,
     version: {0} \cup Versions, ballot: Ballots \cup {NoVote}]

\* A promise chain that is not over is about a proposal, and a vote at the end
\* of one has a ballot.
FetchesOk(fs) ==
    /\ fs \in Seq(FetchType)
    /\ \A n \in DOMAIN fs :
          /\ fs[n].stage # "done" => fs[n].id \in Ids
          /\ fs[n].stage = "vote" => fs[n].ballot \in Ballots

\* The types of the variables that the handlers read.
StoreTypes == Stored \in StoredState /\ Len(proposals) <= MaxProposals

OtherTypes ==
    /\ votes \in [1..MaxProposals -> [Voters -> VoteOption \cup {"none"}]]
    /\ max_active_proposals \in Nat
    /\ now \in Nat \ {0}
    /\ venear \in Versions
    /\ FetchesOk(fetches)
    /\ paid \in [treasury: Nat, proposer: Nat]
    /\ released \in [1..MaxProposals -> Nat]

VotingTypes == StoreTypes /\ OtherTypes

\* What the queue is correct by.
QueueInv == VotingTypes /\ QueueIndexes /\ NoIdleSlot

Unapproved == {"Created", "Expired", "Rejected", "Slashed"}

Voted == {"Executable", "InProgress", "Succeeded", "Failed"}

\* A proposal's status agrees with its flow, its times, its snapshot and its
\* bond; freed is when the council gave its slot up.
Sane(p, freed, t) ==
    /\ p.flow = "Classic" =>
         /\ p.status \notin {"Sandbox", "Scheduled", "Slashed"}
         /\ p.bond = 0
    /\ p.flow = "FastTrack" =>
         /\ p.status # "Timelock"
         /\ p.status = "Sandbox" => p.voting_start = 0
         /\ p.status \in {"Scheduled", "Voting", "Vetoed"} \cup Voted => p.voting_start # 0
         /\ p.status = "Created" => p.bond = bond_amount
    /\ p.status \in Unapproved <=> p.approval = 0
    /\ p.status \in Unapproved \cup {"Queued"} =>
         p.snapshot = 0 /\ p.voting_start = 0 /\ p.sandbox_start = 0
    /\ p.status \notin Unapproved \cup {"Queued"} => Begin(p) # 0
    /\ p.status \notin {"Created", "Expired", "Rejected"} => p.bond = 0
    /\ p.bond <= bond_amount
    /\ p.status \in {"Timelock"} \cup Voted => compute_final_status(p) = "Succeeded"
    /\ p.status = "Defeated" /\ p.voting_start # 0 => compute_final_status(p) = "Defeated"
    /\ has_actions(p) /\ p.status \in Voted => freed # 0 \/ t >= active_end_time_ns(p)

AllSane == \A id \in Ids : Sane(proposals[id], released[id], now)

\* The tally of one proposal is that of the votes w.
TallyOf(p, w) ==
    IF p.snapshot = 0
    THEN /\ w = [v \in Voters |-> "none"]
         /\ p.total_votes = 0 /\ \A o \in VoteOption : p.tally[o] = 0
    ELSE /\ p.total_votes = SumWeights({v \in Voters : w[v] \in VoteOption}, p.snapshot)
         /\ \A o \in VoteOption :
               p.tally[o] = SumWeights({v \in Voters : w[v] = o}, p.snapshot)

AllTallies ==
    /\ \A id \in Ids : TallyOf(proposals[id], votes[id])
    /\ \A id \in 1..MaxProposals : id \notin Ids => votes[id] = [v \in Voters |-> "none"]

\* The part of a bond that its proposer has claimed.
Returned(p) ==
    IF p.flow = "FastTrack" /\ p.status \in {"Expired", "Rejected"}
    THEN bond_amount - p.bond ELSE 0

Deposit(p) == IF p.flow = "FastTrack" THEN bond_amount ELSE 0

BondLedger ==
    /\ paid.treasury + paid.proposer + SumFunction([id \in Ids |-> proposals[id].bond])
         = SumFunction([id \in Ids |-> Deposit(proposals[id])])
    /\ paid.proposer = SumFunction([id \in Ids |-> Returned(proposals[id])])

-----------------------------------------------------------------------------
(* What a handler does to the stored state. *)

\* A handler works on s: the stored state, or that state with the queue advanced.
Ready(s) ==
    /\ s \in StoredState
    /\ Indexed(s)
    /\ DOMAIN s.proposals = Ids
    /\ \A x \in Ids : Advanced(proposals[x], s.proposals[x])
    /\ s.queue # <<>> => Cardinality(s.active) >= max_active_proposals

\* The stored state, and what the invariant says of it.
LEMMA StoredIs ==
    ASSUME QueueInv
    PROVE  /\ Stored \in StoredState /\ Indexed(Stored)
           /\ Stored.proposals = proposals /\ Stored.active = active_proposals
           /\ Stored.queue = pending_queue
           /\ now \in Nat \ {0} /\ max_active_proposals \in Nat
           /\ \A x \in Ids : proposals[x] \in Proposal
           /\ Ids = 1..Len(proposals) /\ Len(proposals) \in Nat
           /\ Ids \subseteq 1..MaxProposals
<1>1. /\ Stored \in StoredState /\ now \in Nat \ {0} /\ max_active_proposals \in Nat
      /\ Len(proposals) <= MaxProposals
  BY DEF QueueInv, VotingTypes, StoreTypes, OtherTypes
<1>2. /\ Stored.proposals = proposals /\ Stored.active = active_proposals
      /\ Stored.queue = pending_queue
  BY DEF Stored
<1>3. proposals \in Seq(Proposal)
  BY <1>1, <1>2 DEF StoredState
<1>4. Indexed(Stored)
  BY <1>2 DEF Indexed, QueueInv, QueueIndexes, Ids
<1>5. Ids = 1..Len(proposals) /\ Len(proposals) \in Nat
      /\ \A x \in Ids : proposals[x] \in Proposal
  BY <1>3 DEF Ids
<1>6. Ids \subseteq 1..MaxProposals
  <2>1. MaxProposals \in Nat
    BY VotingAssumption
  <2> QED
    BY <1>1, <1>5, <2>1
<1> QED
  BY <1>1, <1>2, <1>4, <1>5, <1>6

\* The two states that handlers work on.
LEMMA BothReady ==
    ASSUME QueueInv
    PROVE  /\ Ready(Stored)
           /\ Ready(internal_advance_queue)
<1>1. /\ Stored \in StoredState /\ Indexed(Stored)
      /\ Stored.proposals = proposals /\ Stored.active = active_proposals
      /\ Stored.queue = pending_queue
      /\ now \in Nat \ {0} /\ max_active_proposals \in Nat
  BY StoredIs
<1>2. Ready(Stored)
  BY <1>1 DEF Ready, Advanced, QueueInv, NoIdleSlot, Ids
<1> DEFINE s == Stored
           r == Advance(s, max_active_proposals)
<1> HIDE DEF s
<1>3. IsAdvanced(r, s, max_active_proposals)
  BY <1>1, AdvanceIs DEF s
<1> HIDE DEF r
<1>4. Ready(r)
  BY <1>1, <1>3 DEF IsAdvanced, Ready, Ids, s
<1> QED
  BY <1>2, <1>4 DEF internal_advance_queue, r, s

\* Storing a state keeps types and indexes.
LEMMA StoreKeeps ==
    ASSUME QueueInv, NEW s \in StoredState, Indexed(s), DOMAIN s.proposals = Ids, Store(s)
    PROVE  /\ StoreTypes' /\ QueueIndexes'
           /\ DOMAIN proposals' = DOMAIN proposals
<1>1. /\ proposals' = s.proposals /\ active_proposals' = s.active /\ pending_queue' = s.queue
  BY DEF Store
<1>2. /\ proposals' \in Seq(Proposal) /\ active_proposals' \subseteq Nat
      /\ pending_queue' \in Seq(Nat)
  BY <1>1 DEF StoredState
<1>3. Stored' = [proposals |-> proposals', active |-> active_proposals',
                 queue |-> pending_queue']
  BY DEF Stored
<1>4. Stored' \in StoredState
  BY <1>2, <1>3 DEF StoredState
<1>5. DOMAIN proposals' = DOMAIN proposals
  BY <1>1 DEF Ids
<1>6. Len(proposals') <= MaxProposals
  <2>1. /\ DOMAIN proposals = 1..Len(proposals) /\ Len(proposals) \in Nat
        /\ Len(proposals) <= MaxProposals
    BY StoredIs DEF Ids, QueueInv, VotingTypes, StoreTypes
  <2>2. DOMAIN proposals' = 1..Len(proposals') /\ Len(proposals') \in Nat
    BY <1>2
  <2>3. Len(proposals') = Len(proposals)
    BY <1>5, <2>1, <2>2
  <2> QED
    BY <2>1, <2>3
<1>7. QueueIndexes'
  BY <1>1 DEF QueueIndexes, Indexed, Ids
<1> QED
  BY <1>4, <1>5, <1>6, <1>7 DEF StoreTypes

\* A handler edits the proposal id: m is the proposal brought up to date that
\* it reads, the others only move with the queue.
EditOf(id, m) ==
    /\ id \in Ids
    /\ DOMAIN proposals' = DOMAIN proposals
    /\ now' = now
    /\ Advanced(proposals[id], m)
    /\ m \in Proposal
    /\ update(m) = m
    /\ \A x \in Ids \ {id} : Advanced(proposals[x], proposals'[x])

\* What a handler reads.
LEMMA ReadIs ==
    ASSUME QueueInv, NEW s, Ready(s), NEW id \in Ids
    PROVE  /\ s.proposals[id] \in Proposal
           /\ update(s.proposals[id]) \in Proposal
           /\ Advanced(proposals[id], update(s.proposals[id]))
           /\ update(update(s.proposals[id])) = update(s.proposals[id])
           /\ update(s.proposals[id]).status = updated_status(s.proposals[id], now)
<1>1. now \in Nat \ {0} /\ proposals[id] \in Proposal
  BY StoredIs
<1>2. Advanced(proposals[id], s.proposals[id])
  BY DEF Ready
<1>3. s.proposals[id] \in Proposal /\ Advanced(proposals[id], update(s.proposals[id]))
  BY <1>1, <1>2, AdvancedIs
<1> QED
  BY <1>1, <1>3, UpdateIs, UpdateTwice

\* Setting a proposal that neither enters nor leaves a slot or the queue.
LEMMA EditIs ==
    ASSUME QueueInv, NEW s, Ready(s), NEW id \in Ids, NEW q \in Proposal,
           q.status \in Active <=> s.proposals[id].status \in Active,
           q.status = "Queued" <=> s.proposals[id].status = "Queued",
           Store(internal_set_proposal(s, id, q)),
           now' = now, max_active_proposals' = max_active_proposals
    PROVE  /\ StoreTypes' /\ QueueIndexes' /\ NoIdleSlot'
           /\ EditOf(id, update(s.proposals[id]))
           /\ proposals'[id] = q
<1> DEFINE r == internal_set_proposal(s, id, q)
<1>1. /\ s \in StoredState /\ Indexed(s) /\ DOMAIN s.proposals = Ids
      /\ \A x \in Ids : Advanced(proposals[x], s.proposals[x])
      /\ s.queue # <<>> => Cardinality(s.active) >= max_active_proposals
  BY DEF Ready
<1>2. IsSet(r, s, id, q)
  BY <1>1, SetIs
<1>3. Indexed(r)
  BY <1>1, SetIndexed
<1> HIDE DEF r
<1>4. /\ r \in StoredState /\ r.queue = s.queue /\ DOMAIN r.proposals = Ids
      /\ r.proposals[id] = q /\ \A x \in Ids \ {id} : r.proposals[x] = s.proposals[x]
  BY <1>1, <1>2 DEF IsSet
<1>5. r.active = s.active
  BY <1>1, <1>2 DEF IsSet, Indexed
<1>6. Store(r)
  BY DEF r
<1>7. StoreTypes' /\ QueueIndexes' /\ DOMAIN proposals' = DOMAIN proposals
  BY <1>3, <1>4, <1>6, StoreKeeps
<1>8. proposals' = r.proposals /\ active_proposals' = r.active /\ pending_queue' = r.queue
  BY <1>6 DEF Store
<1>9. NoIdleSlot'
  BY <1>1, <1>4, <1>5, <1>8 DEF NoIdleSlot
<1>10. EditOf(id, update(s.proposals[id]))
  <2>1. /\ update(s.proposals[id]) \in Proposal
        /\ Advanced(proposals[id], update(s.proposals[id]))
        /\ update(update(s.proposals[id])) = update(s.proposals[id])
    BY ReadIs
  <2>2. \A x \in Ids \ {id} : Advanced(proposals[x], proposals'[x])
    BY <1>1, <1>4, <1>8
  <2> QED
    BY <1>7, <2>1, <2>2 DEF EditOf
<1> QED
  BY <1>4, <1>7, <1>8, <1>9, <1>10

\* Setting a proposal to a status that frees its slot, and advancing the queue.
LEMMA EditAndAdvanceIs ==
    ASSUME QueueInv, NEW s, Ready(s), NEW id \in Ids, NEW q \in Proposal,
           q.status \in {"Vetoed", "Executable", "Succeeded"},
           s.proposals[id].status # "Queued",
           Store(Advance(internal_set_proposal(s, id, q), max_active_proposals)),
           now' = now, max_active_proposals' = max_active_proposals
    PROVE  /\ StoreTypes' /\ QueueIndexes' /\ NoIdleSlot'
           /\ EditOf(id, update(s.proposals[id]))
           /\ proposals'[id] = q
<1> DEFINE v == internal_set_proposal(s, id, q)
           r == Advance(v, max_active_proposals)
<1>0. now \in Nat \ {0} /\ max_active_proposals \in Nat /\ \A x \in Ids : proposals[x] \in Proposal
  BY StoredIs
<1>1. /\ s \in StoredState /\ Indexed(s) /\ DOMAIN s.proposals = Ids
      /\ \A x \in Ids : Advanced(proposals[x], s.proposals[x])
  BY DEF Ready
<1>2. IsSet(v, s, id, q)
  BY <1>1, SetIs
<1>3. Indexed(v)
  BY <1>1, SetIndexed
<1> HIDE DEF v
<1>4. /\ v \in StoredState /\ DOMAIN v.proposals = Ids
      /\ v.proposals[id] = q /\ \A x \in Ids \ {id} : v.proposals[x] = s.proposals[x]
  BY <1>1, <1>2 DEF IsSet
<1>5. IsAdvanced(r, v, max_active_proposals)
  BY <1>0, <1>3, <1>4, AdvanceIs
<1>6. Store(r)
  BY DEF v
<1> HIDE DEF r
<1>7. /\ r \in StoredState /\ Indexed(r) /\ DOMAIN r.proposals = Ids
      /\ \A x \in Ids : Advanced(v.proposals[x], r.proposals[x])
      /\ r.queue # <<>> => Cardinality(r.active) >= max_active_proposals
  BY <1>4, <1>5 DEF IsAdvanced
<1>8. proposals' = r.proposals /\ active_proposals' = r.active /\ pending_queue' = r.queue
  BY <1>6 DEF Store
<1>9. StoreTypes' /\ QueueIndexes' /\ DOMAIN proposals' = DOMAIN proposals
  BY <1>6, <1>7, StoreKeeps
<1>10. NoIdleSlot'
  BY <1>7, <1>8 DEF NoIdleSlot
<1>11. proposals'[id] = q
  <2>1. Advanced(q, proposals'[id])
    BY <1>4, <1>7, <1>8
  <2>2. updated_status(q, now) = q.status
    BY StatusStep
  <2>3. update(q) = q
    BY <2>2, UpdateIs, SameProposal
  <2> QED
    BY <2>1, <2>3 DEF Advanced
<1>12. \A x \in Ids \ {id} : Advanced(proposals[x], proposals'[x])
  <2> SUFFICES ASSUME NEW x \in Ids \ {id} PROVE Advanced(proposals[x], proposals'[x])
    OBVIOUS
  <2>1. Advanced(proposals[x], s.proposals[x])
    BY <1>1
  <2>2. Advanced(s.proposals[x], proposals'[x])
    BY <1>4, <1>7, <1>8
  <2> QED
    BY <1>0, <2>1, <2>2, AdvancedTwice
<1>13. EditOf(id, update(s.proposals[id]))
  <2>1. /\ update(s.proposals[id]) \in Proposal
        /\ Advanced(proposals[id], update(s.proposals[id]))
        /\ update(update(s.proposals[id])) = update(s.proposals[id])
    BY ReadIs
  <2> QED
    BY <1>9, <1>12, <2>1 DEF EditOf
<1> QED
  BY <1>9, <1>10, <1>11, <1>13

-----------------------------------------------------------------------------
(* What a step does to the proposals, handler by handler: m is the proposal *)
(* read, q the one stored.                                                  *)

Approves(m, q) ==
    /\ m.status = "Created"
    /\ \E bps \in Nat :
          LET c == [m EXCEPT !.approval = now, !.bond = 0, !.approval_bps = bps]
          IN  q = activate(c, now) \/ q = [c EXCEPT !.status = "Queued"]
    /\ paid' = [paid EXCEPT !.treasury = @ + m.bond]
    /\ UNCHANGED <<votes, released>>

Rejects(m, q) ==
    /\ m.status = "Created"
    /\ q = [m EXCEPT !.status = "Rejected"]
    /\ UNCHANGED <<votes, paid, released>>

Slashes(m, q) ==
    /\ m.status = "Created" /\ m.flow = "FastTrack"
    /\ q = [m EXCEPT !.status = "Slashed", !.bond = 0]
    /\ paid' = [paid EXCEPT !.treasury = @ + m.bond]
    /\ UNCHANGED <<votes, released>>

Claims(m, q) ==
    /\ m.status \in {"Expired", "Rejected"} /\ m.flow = "FastTrack"
    /\ q = [m EXCEPT !.bond = 0]
    /\ paid' = [paid EXCEPT !.proposer = @ + m.bond]
    /\ UNCHANGED <<votes, released>>

Vetoes(id, m, q) ==
    /\ \/ m.flow = "Classic" /\ m.status = "Timelock"
       \/ m.flow = "FastTrack" /\ m.status \in {"Voting", "Scheduled"}
    /\ q = [m EXCEPT !.status = "Vetoed"]
    /\ released' = [released EXCEPT ![id] = now]
    /\ UNCHANGED <<votes, paid>>

Waives(id, m, q) ==
    /\ m.status = "Timelock"
    /\ q = [m EXCEPT !.status = Passed(m)]
    /\ released' = [released EXCEPT ![id] = now]
    /\ UNCHANGED <<votes, paid>>

TakesSnapshot(m, q) ==
    /\ SnapshotFits(m)
    /\ \E version \in Versions : q = [m EXCEPT !.snapshot = version]
    /\ UNCHANGED <<votes, paid, released>>

Votes(id, m, q) ==
    /\ \E b \in Ballots :
          /\ m.status = "Voting" \/ (m.status = "Sandbox" /\ b.option = "For")
          /\ m.snapshot # 0 /\ b.version = m.snapshot
          /\ votes[id][b.voter] # b.option
          /\ q = Graduated(Counted(m, votes[id][b.voter], b))
          /\ votes' = [votes EXCEPT ![id][b.voter] = b.option]
    /\ UNCHANGED <<paid, released>>

Executes(m, q) ==
    /\ m.status = "Executable"
    /\ q = [m EXCEPT !.status = "InProgress"]
    /\ UNCHANGED <<votes, paid, released>>

Finishes(m, q) ==
    /\ m.status = "InProgress"
    /\ \E status \in {"Succeeded", "Failed"} : q = [m EXCEPT !.status = status]
    /\ UNCHANGED <<votes, paid, released>>

Edits(id, m, q) ==
    \/ Approves(m, q) \/ Rejects(m, q) \/ Slashes(m, q) \/ Claims(m, q)
    \/ Vetoes(id, m, q) \/ Waives(id, m, q) \/ TakesSnapshot(m, q) \/ Votes(id, m, q)
    \/ Executes(m, q) \/ Finishes(m, q)

OnlyAdvances ==
    /\ DOMAIN proposals' = DOMAIN proposals
    /\ now' = now
    /\ \A x \in Ids : Advanced(proposals[x], proposals'[x])
    /\ UNCHANGED <<votes, paid, released>>

OnlyCreates ==
    /\ now' = now
    /\ Len(proposals) < MaxProposals
    /\ \E f \in Flows, n \in ActionLists : proposals' = Append(proposals, NewProposal(f, n))
    /\ UNCHANGED <<votes, paid, released>>

OnlyTicks ==
    /\ now' = now + 1
    /\ UNCHANGED <<proposals, votes, paid, released>>

Shape ==
    \/ OnlyAdvances
    \/ OnlyCreates
    \/ OnlyTicks
    \/ \E id \in Ids : \E m \in Proposal : EditOf(id, m) /\ Edits(id, m, proposals'[id])

\* What each action is shown to do.
StepOk == QueueInv' /\ Shape

\* The types of the variables outside the stored state, when few of them change.
LEMMA OtherKept ==
    ASSUME OtherTypes, DOMAIN proposals' = DOMAIN proposals,
           UNCHANGED <<max_active_proposals, now, venear>>,
           votes' \in [1..MaxProposals -> [Voters -> VoteOption \cup {"none"}]],
           paid' \in [treasury: Nat, proposer: Nat],
           released' \in [1..MaxProposals -> Nat],
           FetchesOk(fetches')
    PROVE  OtherTypes'
<1>1. Ids' = Ids /\ FetchType' = FetchType /\ Ballots' = Ballots
  BY DEF Ids, FetchType, Ballots, Versions, NoVote
<1>2. FetchesOk(fetches)'
  BY <1>1 DEF FetchesOk
<1> QED
  BY <1>2 DEF OtherTypes, Versions

\* ... when none of them changes.
LEMMA OtherSame ==
    ASSUME OtherTypes, DOMAIN proposals' = DOMAIN proposals,
           UNCHANGED <<max_active_proposals, now, venear, votes, paid, released, fetches>>
    PROVE  OtherTypes'
BY OtherKept DEF OtherTypes

\* reject_proposal.
LEMMA RejectOk ==
    ASSUME QueueInv, NEW id \in Ids, reject_proposal(id)
    PROVE  StepOk
<1> DEFINE s == Stored
           m == update(s.proposals[id])
           q == [m EXCEPT !.status = "Rejected"]
<1>1. Stored.proposals = proposals /\ Ready(s)
  BY StoredIs, BothReady
<1>2. /\ m.status = "Created" /\ Store(internal_set_proposal(s, id, q))
      /\ UNCHANGED <<max_active_proposals, now, venear, votes, paid, released, fetches>>
  BY <1>1 DEF reject_proposal, slots
<1> HIDE DEF s
<1>3. s.proposals[id] \in Proposal /\ m \in Proposal
      /\ m.status = updated_status(s.proposals[id], now)
  BY <1>1, ReadIs
<1>4. s.proposals[id].status = "Created"
  BY <1>2, <1>3, StatusStep DEF Proposal, Status
<1> HIDE DEF m
<1>5. q \in Proposal /\ q.status = "Rejected"
  BY <1>3 DEF Proposal, Status
<1> HIDE DEF q
<1>6. /\ StoreTypes' /\ QueueIndexes' /\ NoIdleSlot' /\ EditOf(id, m) /\ proposals'[id] = q
  BY <1>1, <1>2, <1>4, <1>5, EditIs DEF Active, m
<1>7. OtherTypes'
  BY <1>2, <1>6, OtherSame, Zenon DEF QueueInv, VotingTypes, EditOf
<1>8. Rejects(m, proposals'[id])
  BY <1>2, <1>6 DEF Rejects, q
<1> QED
  BY <1>3, <1>6, <1>7, <1>8 DEF StepOk, QueueInv, VotingTypes, Shape, Edits

\* slash_proposal.
LEMMA SlashOk ==
    ASSUME QueueInv, NEW id \in Ids, slash_proposal(id)
    PROVE  StepOk
<1> DEFINE s == Stored
           m == update(s.proposals[id])
           q == [m EXCEPT !.status = "Slashed", !.bond = 0]
<1>1. Stored.proposals = proposals /\ Ready(s)
  BY StoredIs, BothReady
<1>2. /\ m.status = "Created" /\ m.flow = "FastTrack" /\ Store(internal_set_proposal(s, id, q))
      /\ paid' = [paid EXCEPT !.treasury = @ + m.bond]
      /\ UNCHANGED <<max_active_proposals, now, venear, votes, released, fetches>>
  BY <1>1 DEF slash_proposal, slots
<1> HIDE DEF s
<1>3. s.proposals[id] \in Proposal /\ m \in Proposal
      /\ m.status = updated_status(s.proposals[id], now)
  BY <1>1, ReadIs
<1>4. s.proposals[id].status = "Created"
  BY <1>2, <1>3, StatusStep DEF Proposal, Status
<1> HIDE DEF m
<1>5. q \in Proposal /\ q.status = "Slashed" /\ m.bond \in Nat
  BY <1>3, Zenon DEF Proposal, Status
<1> HIDE DEF q
<1>6. /\ StoreTypes' /\ QueueIndexes' /\ NoIdleSlot' /\ EditOf(id, m) /\ proposals'[id] = q
  BY <1>1, <1>2, <1>4, <1>5, EditIs DEF Active, m
<1>7. OtherTypes'
  BY <1>2, <1>5, <1>6, OtherKept DEF QueueInv, VotingTypes, OtherTypes, EditOf
<1>8. Slashes(m, proposals'[id])
  BY <1>2, <1>6 DEF Slashes, q
<1> QED
  BY <1>3, <1>6, <1>7, <1>8, Zenon DEF StepOk, QueueInv, VotingTypes, Shape, Edits

\* claim_bond.
LEMMA ClaimOk ==
    ASSUME QueueInv, NEW id \in Ids, claim_bond(id)
    PROVE  StepOk
<1> DEFINE s == Stored
           m == update(s.proposals[id])
           q == [m EXCEPT !.bond = 0]
<1>1. Stored.proposals = proposals /\ Ready(s)
  BY StoredIs, BothReady
<1>2. /\ m.status \in {"Expired", "Rejected"} /\ m.flow = "FastTrack"
      /\ Store(internal_set_proposal(s, id, q))
      /\ paid' = [paid EXCEPT !.proposer = @ + m.bond]
      /\ UNCHANGED <<max_active_proposals, now, venear, votes, released, fetches>>
  BY <1>1 DEF claim_bond, slots
<1> HIDE DEF s
<1>3. s.proposals[id] \in Proposal /\ m \in Proposal
      /\ m.status = updated_status(s.proposals[id], now)
  BY <1>1, ReadIs
<1>4. s.proposals[id].status \in {"Created", "Expired", "Rejected"}
  BY <1>2, <1>3, StatusStep DEF Proposal, Status
<1> HIDE DEF m
<1>5. q \in Proposal /\ q.status = m.status /\ m.bond \in Nat
  BY <1>3 DEF Proposal
<1> HIDE DEF q
<1>6. /\ StoreTypes' /\ QueueIndexes' /\ NoIdleSlot' /\ EditOf(id, m) /\ proposals'[id] = q
  BY <1>1, <1>2, <1>4, <1>5, EditIs DEF Active, m
<1>7. OtherTypes'
  BY <1>2, <1>5, <1>6, OtherKept DEF QueueInv, VotingTypes, OtherTypes, EditOf
<1>8. Claims(m, proposals'[id])
  BY <1>2, <1>6 DEF Claims, q
<1> QED
  BY <1>3, <1>6, <1>7, <1>8 DEF StepOk, QueueInv, VotingTypes, Shape, Edits

\* Everything in a slot is up to date once the queue has been advanced.
LEMMA SlotsFresh ==
    ASSUME QueueInv, NEW id \in Ids,
           internal_advance_queue.proposals[id].status \in Active
    PROVE  update(internal_advance_queue.proposals[id]) = internal_advance_queue.proposals[id]
<1> DEFINE s == Stored
           r == Advance(s, max_active_proposals)
<1>1. s \in StoredState /\ Indexed(s) /\ s.proposals = proposals
      /\ now \in Nat \ {0} /\ max_active_proposals \in Nat
  BY StoredIs
<1> HIDE DEF s
<1>2. IsAdvanced(r, s, max_active_proposals)
  BY <1>1, AdvanceIs
<1> HIDE DEF r
<1>3. r = internal_advance_queue
  BY DEF internal_advance_queue, r, s
<1>4. id \in r.active
  BY <1>1, <1>2, <1>3 DEF IsAdvanced, Indexed, Ids
<1> QED
  BY <1>2, <1>3, <1>4 DEF IsAdvanced

\* execute_proposal.
LEMMA ExecuteOk ==
    ASSUME QueueInv, NEW id \in Ids, execute_proposal(id)
    PROVE  StepOk
<1> DEFINE s == internal_advance_queue
           m == update(s.proposals[id])
           q == [m EXCEPT !.status = "InProgress"]
<1>1. Ready(s)
  BY BothReady
<1>2. /\ m.status = "Executable"
      /\ Store(internal_set_proposal(s, id, q))
      /\ UNCHANGED <<max_active_proposals, now, venear, votes, paid, released, fetches>>
  BY DEF execute_proposal, slots
<1>3. s.proposals[id] \in Proposal /\ m \in Proposal
      /\ m.status = updated_status(s.proposals[id], now)
  BY <1>1, ReadIs
<1>4. s.proposals[id].status = "Executable"
  <2>1. s.proposals[id].status \notin Active
    BY <1>2, SlotsFresh DEF Active
  <2> HIDE DEF s
  <2> QED
    BY <1>2, <1>3, <2>1, StatusStep DEF Proposal, Status, Active
<1> HIDE DEF s, m
<1>5. q \in Proposal /\ q.status = "InProgress"
  BY <1>3 DEF Proposal, Status
<1> HIDE DEF q
<1>6. /\ StoreTypes' /\ QueueIndexes' /\ NoIdleSlot' /\ EditOf(id, m) /\ proposals'[id] = q
  BY <1>1, <1>2, <1>4, <1>5, EditIs DEF Active, m
<1>7. OtherTypes'
  BY <1>2, <1>6, OtherSame DEF QueueInv, VotingTypes, EditOf
<1>8. Executes(m, proposals'[id])
  BY <1>2, <1>6 DEF Executes, q
<1> QED
  BY <1>3, <1>6, <1>7, <1>8 DEF StepOk, QueueInv, VotingTypes, Shape, Edits

\* on_execute_proposal: a proposal in progress is as it was stored.
LEMMA OnExecuteOk ==
    ASSUME QueueInv, NEW id \in Ids, on_execute_proposal(id)
    PROVE  StepOk
<1> DEFINE s == internal_advance_queue
           m == s.proposals[id]
           st == IF results[id][Len(results[id])] THEN "Succeeded" ELSE "Failed"
           q == [m EXCEPT !.status = st]
<1>1. Ready(s) /\ proposals[id] \in Proposal
  BY BothReady, StoredIs
<1>2. /\ proposals[id].status = "InProgress"
      /\ Store(internal_set_proposal(s, id, q))
      /\ UNCHANGED <<max_active_proposals, now, venear, votes, paid, released, fetches>>
  BY DEF on_execute_proposal, slots
<1> HIDE DEF s
<1>3. m \in Proposal
  BY <1>1, ReadIs
<1>4. m = proposals[id] /\ update(m) = m
  <2>1. updated_status(proposals[id], now) = "InProgress"
    BY <1>1, <1>2, StatusStep
  <2>2. update(proposals[id]) = proposals[id]
    BY <1>1, <1>2, <2>1, UpdateIs, SameProposal
  <2>3. Advanced(proposals[id], m)
    BY <1>1 DEF Ready
  <2> HIDE DEF m
  <2>4. m = proposals[id]
    BY <1>2, <2>2, <2>3 DEF Advanced
  <2> QED
    BY <2>2, <2>4
<1> HIDE DEF m
<1>5. q \in Proposal /\ q.status = st /\ st \in {"Succeeded", "Failed"}
  <2>1. st \in {"Succeeded", "Failed"}
    OBVIOUS
  <2> HIDE DEF st
  <2> QED
    BY <1>3, <2>1 DEF Proposal, Status
<1> HIDE DEF q, st
<1>6. /\ StoreTypes' /\ QueueIndexes' /\ NoIdleSlot' /\ EditOf(id, m) /\ proposals'[id] = q
  <2>1. s.proposals[id] = m /\ update(s.proposals[id]) = m
    BY <1>4 DEF m
  <2>2. /\ StoreTypes' /\ QueueIndexes' /\ NoIdleSlot'
        /\ EditOf(id, update(s.proposals[id])) /\ proposals'[id] = q
    BY <1>1, <1>2, <1>4, <1>5, <2>1, EditIs DEF Active
  <2> QED
    BY <2>1, <2>2
<1>7. OtherTypes'
  BY <1>2, <1>6, OtherSame DEF QueueInv, VotingTypes, EditOf
<1>8. Finishes(m, proposals'[id])
  BY <1>2, <1>4, <1>5, <1>6 DEF Finishes, q
<1> QED
  BY <1>3, <1>6, <1>7, <1>8 DEF StepOk, QueueInv, VotingTypes, Shape, Edits

\* veto_proposal.
LEMMA VetoOk ==
    ASSUME QueueInv, NEW id \in Ids, veto_proposal(id)
    PROVE  StepOk
<1> DEFINE s == internal_advance_queue
           m == update(s.proposals[id])
           q == [m EXCEPT !.status = "Vetoed"]
<1>1. Ready(s)
  BY BothReady
<1>2. /\ \/ m.flow = "Classic" /\ m.status = "Timelock"
         \/ m.flow = "FastTrack" /\ m.status \in {"Voting", "Scheduled"}
      /\ Store(Advance(internal_set_proposal(s, id, q), max_active_proposals))
      /\ released' = [released EXCEPT ![id] = now]
      /\ UNCHANGED <<max_active_proposals, now, venear, votes, paid, fetches>>
  BY DEF veto_proposal, slots
<1> HIDE DEF s
<1>3. s.proposals[id] \in Proposal /\ m \in Proposal
      /\ m.status = updated_status(s.proposals[id], now)
  BY <1>1, ReadIs
<1>4. s.proposals[id].status # "Queued"
  BY <1>2, <1>3, StatusStep DEF Proposal, Status
<1> HIDE DEF m
<1>5. q \in Proposal /\ q.status = "Vetoed"
  BY <1>3 DEF Proposal, Status
<1> HIDE DEF q
<1>6. /\ StoreTypes' /\ QueueIndexes' /\ NoIdleSlot' /\ EditOf(id, m) /\ proposals'[id] = q
  BY <1>1, <1>2, <1>4, <1>5, EditAndAdvanceIs DEF m
<1>7. OtherTypes'
  BY <1>2, <1>6, OtherKept, Zenon DEF QueueInv, VotingTypes, OtherTypes, EditOf
<1>8. Vetoes(id, m, proposals'[id])
  BY <1>2, <1>6 DEF Vetoes, q
<1> QED
  BY <1>3, <1>6, <1>7, <1>8, Zenon DEF StepOk, QueueInv, VotingTypes, Shape, Edits

\* noveto_proposal.
LEMMA NovetoOk ==
    ASSUME QueueInv, NEW id \in Ids, noveto_proposal(id)
    PROVE  StepOk
<1> DEFINE s == Stored
           m == update(s.proposals[id])
           q == [m EXCEPT !.status = Passed(m)]
<1>1. Stored.proposals = proposals /\ Ready(s)
  BY StoredIs, BothReady
<1>2. /\ m.status = "Timelock"
      /\ Store(Advance(internal_set_proposal(s, id, q), max_active_proposals))
      /\ released' = [released EXCEPT ![id] = now]
      /\ UNCHANGED <<max_active_proposals, now, venear, votes, paid, fetches>>
  BY <1>1 DEF noveto_proposal, slots
<1> HIDE DEF s
<1>3. s.proposals[id] \in Proposal /\ m \in Proposal
      /\ m.status = updated_status(s.proposals[id], now)
  BY <1>1, ReadIs
<1>4. s.proposals[id].status # "Queued"
  BY <1>2, <1>3, StatusStep DEF Proposal, Status
<1> HIDE DEF m
<1>5. q \in Proposal /\ q.status \in {"Executable", "Succeeded"}
  <2>1. Passed(m) \in {"Executable", "Succeeded"}
    BY DEF Passed
  <2> QED
    BY <1>3, <2>1 DEF Proposal, Status
<1> HIDE DEF q
<1>6. /\ StoreTypes' /\ QueueIndexes' /\ NoIdleSlot' /\ EditOf(id, m) /\ proposals'[id] = q
  BY <1>1, <1>2, <1>4, <1>5, EditAndAdvanceIs DEF m
<1>7. OtherTypes'
  BY <1>2, <1>6, OtherKept, Zenon DEF QueueInv, VotingTypes, OtherTypes, EditOf
<1>8. Waives(id, m, proposals'[id])
  BY <1>2, <1>6 DEF Waives, q
<1> QED
  BY <1>3, <1>6, <1>7, <1>8 DEF StepOk, QueueInv, VotingTypes, Shape, Edits

\* A new promise chain, and one that moves on.
LEMMA FetchesGrow ==
    ASSUME OtherTypes, NEW id \in Ids, Ids \subseteq Nat,
           NEW stage \in {"venear", "vote"}, NEW ballot \in Ballots \cup {NoVote},
           stage = "vote" => ballot \in Ballots
    PROVE  FetchesOk(Append(fetches, Fetch(stage, id, ballot)))
<1> DEFINE f == Fetch(stage, id, ballot)
<1>1. f \in FetchType /\ f.stage = stage /\ f.id = id /\ f.ballot = ballot
  BY DEF Fetch, FetchType
<1> HIDE DEF f
<1>2. FetchesOk(fetches)
  BY DEF OtherTypes
<1> QED
  BY <1>1, <1>2 DEF FetchesOk, f

\* A receipt of a promise chain replaces one entry by a well-formed one.
LEMMA FetchesMove ==
    ASSUME OtherTypes, NEW n \in DOMAIN fetches, NEW f \in FetchType,
           f.stage # "done" => f.id \in Ids, f.stage = "vote" => f.ballot \in Ballots
    PROVE  FetchesOk([fetches EXCEPT ![n] = f])
<1>1. FetchesOk(fetches)
  BY DEF OtherTypes
<1> QED
  BY <1>1 DEF FetchesOk

\* approve_proposal: the proposal starts at once, or waits behind full slots.
LEMMA ApproveOk ==
    ASSUME QueueInv, NEW id \in Ids, NEW bps \in MajorityBps[proposals[id].flow],
           approve_proposal(id, bps)
    PROVE  StepOk
<1> DEFINE s == internal_advance_queue
           m == update(s.proposals[id])
           c == [m EXCEPT !.approval = now, !.bond = 0, !.approval_bps = bps]
           max == max_active_proposals
<1>0. /\ bps \in Nat /\ now \in Nat \ {0} /\ max \in Nat /\ Ids \subseteq Nat
      /\ \A x \in Ids : proposals[x] \in Proposal
  <2>1. /\ now \in Nat \ {0} /\ max \in Nat /\ Ids \subseteq Nat
        /\ \A x \in Ids : proposals[x] \in Proposal
    BY StoredIs
  <2>2. proposals[id].flow \in Flows
    BY <2>1 DEF Proposal
  <2>3. MajorityBps[proposals[id].flow] \subseteq Nat
    BY <2>2, VotingAssumption, Zenon
  <2> QED
    BY <2>1, <2>3
<1>1. Ready(s)
  BY BothReady
<1>2. /\ c.status = "Created"
      /\ paid' = [paid EXCEPT !.treasury = @ + s.proposals[id].bond]
      /\ UNCHANGED <<max_active_proposals, now, venear, votes, released>>
      /\ \/ /\ Cardinality(s.active) < max
            /\ Store(internal_set_proposal(s, id, activate(c, now)))
            /\ fetches' = Append(fetches, Fetch("venear", id, NoVote))
         \/ /\ Cardinality(s.active) >= max
            /\ Store([internal_set_proposal(s, id, [c EXCEPT !.status = "Queued"])
                        EXCEPT !.queue = Enqueue(@, id)])
            /\ UNCHANGED fetches
  BY DEF approve_proposal, Approve, slots
<1> HIDE DEF s
<1>3. /\ s.proposals[id] \in Proposal /\ m \in Proposal
      /\ m.status = updated_status(s.proposals[id], now)
      /\ Advanced(proposals[id], m) /\ update(m) = m
  BY <1>1, ReadIs
<1>4. m.bond = s.proposals[id].bond /\ m.bond \in Nat
  BY <1>3, UpdateIs, Zenon DEF SameData, Proposal
<1> HIDE DEF m
<1>5. c \in Proposal /\ m.status = "Created"
  BY <1>0, <1>2, <1>3, Zenon DEF Proposal
<1>6. s.proposals[id].status = "Created"
  BY <1>3, <1>5, StatusStep, Zenon DEF Proposal, Status
<1> DEFINE qa == activate(c, now)
           qq == [c EXCEPT !.status = "Queued"]
<1>7. qa \in Proposal /\ qa.status \in {"Voting", "Sandbox"}
  BY <1>0, <1>5, ActivateIs, Zenon
<1>8. qq \in Proposal /\ qq.status = "Queued"
  BY <1>5, Zenon DEF Proposal, Status
<1>9. Approves(m, qa) /\ Approves(m, qq)
  BY <1>0, <1>2, <1>4, <1>5, Zenon DEF Approves
<1> HIDE DEF c, qa, qq
<1>10. /\ s \in StoredState /\ Indexed(s) /\ DOMAIN s.proposals = Ids
       /\ \A x \in Ids : Advanced(proposals[x], s.proposals[x])
       /\ s.queue # <<>> => Cardinality(s.active) >= max
  BY <1>1 DEF Ready
<1>11. paid' \in [treasury: Nat, proposer: Nat]
  BY <1>2, <1>4 DEF QueueInv, VotingTypes, OtherTypes
<1>12. CASE /\ Cardinality(s.active) < max
            /\ Store(internal_set_proposal(s, id, qa))
            /\ fetches' = Append(fetches, Fetch("venear", id, NoVote))
  <2> DEFINE r == internal_set_proposal(s, id, qa)
  <2>1. IsSet(r, s, id, qa)
    BY <1>7, <1>10, SetIs
  <2>2. Indexed(r)
    BY <1>6, <1>7, <1>10, SetIndexed
  <2>3. Store(r)
    BY <1>12
  <2> HIDE DEF r
  <2>4. /\ r \in StoredState /\ DOMAIN r.proposals = Ids /\ r.queue = s.queue
        /\ r.proposals[id] = qa /\ \A x \in Ids \ {id} : r.proposals[x] = s.proposals[x]
    BY <1>10, <2>1 DEF IsSet
  <2>5. StoreTypes' /\ QueueIndexes' /\ DOMAIN proposals' = DOMAIN proposals
    BY <2>2, <2>3, <2>4, StoreKeeps
  <2>6. proposals' = r.proposals /\ pending_queue' = r.queue
    BY <2>3 DEF Store
  <2>7. s.queue = <<>>
    <3>1. Cardinality(s.active) \in Nat
      <4>1. s.active \subseteq Ids
        BY <1>10 DEF Indexed
      <4>2. IsFiniteSet(Ids)
        <5>1. Ids = 1..Len(proposals) /\ 1 \in Int /\ Len(proposals) \in Int
          BY StoredIs
        <5> QED
          BY <5>1, FinUpTo
      <4> QED
        BY <4>1, <4>2, FiniteSubset, CardinalityNat
    <3> QED
      BY <1>0, <1>10, <1>12, <3>1
  <2>8. NoIdleSlot'
    BY <2>4, <2>6, <2>7 DEF NoIdleSlot
  <2>9. EditOf(id, m) /\ proposals'[id] = qa
    BY <1>2, <1>3, <1>10, <2>4, <2>5, <2>6 DEF EditOf
  <2>10. OtherTypes'
    <3>1. OtherTypes
      BY DEF QueueInv, VotingTypes
    <3>2. FetchesOk(fetches')
      BY <1>0, <1>12, <3>1, FetchesGrow
    <3> QED
      BY <1>2, <1>11, <2>5, <3>1, <3>2, OtherKept DEF OtherTypes
  <2> QED
    BY <1>3, <1>9, <2>5, <2>8, <2>9, <2>10, Zenon
       DEF StepOk, QueueInv, VotingTypes, Shape, Edits
<1>13. CASE /\ Cardinality(s.active) >= max
            /\ Store([internal_set_proposal(s, id, qq) EXCEPT !.queue = Enqueue(@, id)])
            /\ UNCHANGED fetches
  <2> DEFINE v == internal_set_proposal(s, id, qq)
             r == [v EXCEPT !.queue = Enqueue(@, id)]
             e == Append(s.queue, id)
  <2>1. IsSet(v, s, id, qq)
    BY <1>8, <1>10, SetIs
  <2>2. Store(r)
    BY <1>13
  <2> HIDE DEF v
  <2>3. /\ v \in StoredState /\ DOMAIN v.proposals = Ids /\ v.queue = s.queue
        /\ v.proposals[id] = qq /\ \A x \in Ids \ {id} : v.proposals[x] = s.proposals[x]
        /\ v.active = s.active
    BY <1>6, <1>8, <1>10, <2>1 DEF IsSet, Indexed, Active
  <2>4. s.queue \in Seq(Nat) /\ id \in Nat
    BY <1>0, <1>10 DEF StoredState
  <2>5. e \in Seq(Nat) /\ Range(e) = Range(s.queue) \cup {id}
    <3>1. /\ DOMAIN s.queue = 1..Len(s.queue) /\ Len(s.queue) \in Nat
          /\ DOMAIN e = 1..(Len(s.queue) + 1) /\ e[Len(s.queue) + 1] = id
          /\ \A i \in 1..Len(s.queue) : e[i] = s.queue[i]
          /\ e \in Seq(Nat)
      BY <2>4
    <3> HIDE DEF e
    <3>2. ASSUME NEW x \in Range(e) PROVE x \in Range(s.queue) \cup {id}
      <4>1. PICK i \in 1..(Len(s.queue) + 1) : x = e[i]
        BY <3>1 DEF Range
      <4>2. CASE i = Len(s.queue) + 1
        BY <3>1, <4>1, <4>2
      <4>3. CASE i # Len(s.queue) + 1
        <5>1. i \in DOMAIN s.queue /\ x = s.queue[i]
          BY <3>1, <4>1, <4>3
        <5> QED
          BY <5>1 DEF Range
      <4> QED
        BY <4>2, <4>3
    <3>3. ASSUME NEW x \in Range(s.queue) PROVE x \in Range(e)
      <4>1. PICK i \in 1..Len(s.queue) : x = s.queue[i]
        BY <3>1 DEF Range
      <4>2. i \in DOMAIN e /\ x = e[i]
        BY <3>1, <4>1
      <4> QED
        BY <4>2 DEF Range
    <3>4. id \in Range(e)
      <4>1. Len(s.queue) + 1 \in DOMAIN e
        BY <3>1
      <4> QED
        BY <3>1, <4>1 DEF Range
    <3> QED
      BY <3>1, <3>2, <3>3, <3>4
  <2>6. id \notin Range(s.queue)
    BY <1>6, <1>10 DEF Indexed
  <2>7. IsInjective(e)
    <3>1. /\ DOMAIN s.queue = 1..Len(s.queue) /\ Len(s.queue) \in Nat
          /\ DOMAIN e = 1..(Len(s.queue) + 1) /\ e[Len(s.queue) + 1] = id
          /\ \A i \in 1..Len(s.queue) : e[i] = s.queue[i]
      BY <2>4
    <3>2. \A i \in 1..Len(s.queue) : s.queue[i] # id
      BY <2>6, <3>1 DEF Range
    <3>3. \A i, j \in 1..Len(s.queue) : s.queue[i] = s.queue[j] => i = j
      BY <1>10, <3>1, Zenon DEF Indexed, IsInjective
    <3> HIDE DEF e
    <3>4. ASSUME NEW i \in DOMAIN e, NEW j \in DOMAIN e, e[i] = e[j] PROVE i = j
      BY <3>1, <3>2, <3>3, <3>4
    <3> QED
      BY <3>4, Zenon DEF IsInjective
  <2>8. /\ r \in StoredState /\ r.proposals = v.proposals /\ r.active = s.active
        /\ r.queue = e
    <3>1. r = [v EXCEPT !.queue = e]
      BY <2>3 DEF Enqueue
    <3> HIDE DEF r, e
    <3> QED
      BY <2>3, <2>5, <3>1, Zenon DEF StoredState
  <2> HIDE DEF r, e
  <2>9. Indexed(r)
    <3>1. r.active = {x \in DOMAIN r.proposals : r.proposals[x].status \in Active}
      <4>1. \A x \in Ids : r.proposals[x].status \in Active <=> s.proposals[x].status \in Active
        BY <1>6, <1>8, <2>3, <2>8 DEF Active
      <4> QED
        BY <1>10, <2>3, <2>8, <4>1 DEF Indexed
    <3>2. Range(r.queue) = {x \in DOMAIN r.proposals : r.proposals[x].status = "Queued"}
      BY <1>8, <1>10, <2>3, <2>5, <2>8 DEF Indexed
    <3> QED
      BY <2>7, <2>8, <3>1, <3>2 DEF Indexed
  <2>10. StoreTypes' /\ QueueIndexes' /\ DOMAIN proposals' = DOMAIN proposals
    BY <2>2, <2>3, <2>8, <2>9, StoreKeeps
  <2>11. proposals' = r.proposals /\ active_proposals' = r.active
    BY <2>2 DEF Store
  <2>12. NoIdleSlot'
    BY <1>2, <1>13, <2>8, <2>11 DEF NoIdleSlot
  <2>13. EditOf(id, m) /\ proposals'[id] = qq
    BY <1>2, <1>3, <1>10, <2>3, <2>8, <2>10, <2>11 DEF EditOf
  <2>14. OtherTypes'
    <3>1. OtherTypes /\ fetches' = fetches
      BY <1>13 DEF QueueInv, VotingTypes
    <3> QED
      BY <1>2, <1>11, <2>10, <3>1, OtherKept DEF OtherTypes
  <2> QED
    BY <1>3, <1>9, <2>10, <2>12, <2>13, <2>14, Zenon
       DEF StepOk, QueueInv, VotingTypes, Shape, Edits
<1> QED
  BY <1>2, <1>12, <1>13 DEF qa, qq

\* What a ballot is.
LEMMA BallotIs ==
    ASSUME NEW b \in Ballots
    PROVE  b.voter \in Voters /\ b.option \in VoteOption /\ b.version \in Versions
<1>1. Options \subseteq VoteOption
  BY VotingAssumption DEF VoteOption
<1> QED
  BY <1>1 DEF Ballots

\* The weight of a voter at a snapshot.
LEMMA WeightIs ==
    ASSUME NEW version \in Versions, NEW v \in Voters
    PROVE  Weight[version][v] \in Nat /\ version \in Nat /\ version # 0
<1>1. /\ DOMAIN Weight \subseteq Nat \ {0}
      /\ \A x \in DOMAIN Weight : Weight[x] \in [Voters -> Nat]
  BY VotingAssumption
<1> QED
  BY <1>1 DEF Versions

\* What vote writes: the tally, the total and, if the sandbox threshold is met,
\* the start of the voting.
VoteWrites(m, old, b, q) ==
    /\ q \in Proposal
    /\ q.flow = m.flow /\ q.actions = m.actions /\ q.expiration = m.expiration
    /\ q.approval = m.approval /\ q.sandbox_start = m.sandbox_start
    /\ q.snapshot = m.snapshot /\ q.approval_bps = m.approval_bps /\ q.bond = m.bond
    /\ LET w     == Weight[m.snapshot][b.voter]
           minus == IF old = "none" THEN m.tally ELSE [m.tally EXCEPT ![old] = @ - w]
       IN  /\ q.tally = [minus EXCEPT ![b.option] = @ + w]
           /\ q.total_votes = IF old = "none" THEN m.total_votes + w ELSE m.total_votes
    /\ \/ q.status = m.status /\ q.voting_start = m.voting_start
       \/ /\ m.flow = "FastTrack" /\ m.status = "Sandbox" /\ q.status = "Scheduled"
          /\ q.voting_start = next_voting_start_ns(now)

\* The vote of b on m, after old.
LEMMA VoteIs ==
    ASSUME NEW m \in Proposal, m.snapshot # 0, now \in Nat \ {0}, NEW b \in Ballots,
           NEW old \in VoteOption \cup {"none"}
    PROVE  VoteWrites(m, old, b, Graduated(Counted(m, old, b)))
<1> DEFINE w == Weight[m.snapshot][b.voter]
           minus == IF old = "none" THEN m.tally ELSE [m.tally EXCEPT ![old] = @ - w]
           ta == [minus EXCEPT ![b.option] = @ + w]
           tv == IF old = "none" THEN m.total_votes + w ELSE m.total_votes - w + w
           c == Counted(m, old, b)
           q == Graduated(c)
<1>1. b.voter \in Voters /\ b.option \in VoteOption /\ b.version \in Versions
  BY BallotIs
<1>2. /\ m.snapshot \in Versions /\ m.tally \in [VoteOption -> Int] /\ m.total_votes \in Int
  BY DEF Proposal
<1>3. w \in Nat
  BY <1>1, <1>2, WeightIs
<1>4. c = [m EXCEPT !.tally = ta, !.total_votes = tv]
  BY Zenon DEF Counted
<1> HIDE DEF w
<1>5. minus \in [VoteOption -> Int] /\ tv \in Int
      /\ tv = IF old = "none" THEN m.total_votes + w ELSE m.total_votes
  BY <1>2, <1>3
<1> HIDE DEF minus, tv
<1>6. ta \in [VoteOption -> Int]
  BY <1>1, <1>3, <1>5
<1> HIDE DEF ta, c
<1>7. /\ c \in Proposal /\ c.status = m.status /\ c.voting_start = m.voting_start
      /\ c.flow = m.flow /\ c.actions = m.actions /\ c.expiration = m.expiration
      /\ c.approval = m.approval /\ c.sandbox_start = m.sandbox_start
      /\ c.snapshot = m.snapshot /\ c.approval_bps = m.approval_bps /\ c.bond = m.bond
      /\ c.tally = ta /\ c.total_votes = tv
  BY <1>4, <1>5, <1>6, Zenon DEF Proposal
<1> DEFINE st == next_voting_start_ns(now)
<1>8. st \in Nat
  BY NextMonday
<1> HIDE DEF st
<1>9. \/ q = c
      \/ /\ c.flow = "FastTrack" /\ c.status = "Sandbox"
         /\ q = [c EXCEPT !.voting_start = st, !.status = "Scheduled"]
  BY Zenon DEF Graduated, st
<1> HIDE DEF q
<1>10. /\ q \in Proposal
       /\ q.flow = m.flow /\ q.actions = m.actions /\ q.expiration = m.expiration
       /\ q.approval = m.approval /\ q.sandbox_start = m.sandbox_start
       /\ q.snapshot = m.snapshot /\ q.approval_bps = m.approval_bps /\ q.bond = m.bond
       /\ q.tally = ta /\ q.total_votes = tv
       /\ \/ q.status = m.status /\ q.voting_start = m.voting_start
          \/ /\ m.flow = "FastTrack" /\ m.status = "Sandbox" /\ q.status = "Scheduled"
             /\ q.voting_start = st
  <2>1. CASE q = c
    BY <1>7, <2>1
  <2>2. CASE /\ c.flow = "FastTrack" /\ c.status = "Sandbox"
             /\ q = [c EXCEPT !.voting_start = st, !.status = "Scheduled"]
    BY <1>7, <1>8, <2>2, Zenon DEF Proposal, Status
  <2> QED
    BY <1>9, <2>1, <2>2
<1>11. VoteWrites(m, old, b, q)
  BY <1>5, <1>10, Zenon DEF VoteWrites, w, minus, ta, st
<1> QED
  BY <1>11 DEF q, c

\* The state after a vote, of a voter or at the end of a promise chain.
LEMMA CastVoteOk ==
    ASSUME QueueInv, NEW id \in Ids, NEW b \in Ballots, CastVote(id, b),
           UNCHANGED <<slots, now, paid, released>>
    PROVE  /\ StoreTypes' /\ QueueIndexes' /\ NoIdleSlot' /\ Shape
           /\ DOMAIN proposals' = DOMAIN proposals
           /\ votes' \in [1..MaxProposals -> [Voters -> VoteOption \cup {"none"}]]
<1> DEFINE s == internal_advance_queue
           m == update(s.proposals[id])
           old == votes[id][b.voter]
           q == Graduated(Counted(m, old, b))
<1>0. /\ votes \in [1..MaxProposals -> [Voters -> VoteOption \cup {"none"}]]
      /\ id \in 1..MaxProposals /\ now \in Nat \ {0}
      /\ b.voter \in Voters /\ b.option \in VoteOption
  BY StoredIs, BallotIs DEF QueueInv, VotingTypes, OtherTypes
<1>1. Ready(s)
  BY BothReady
<1>2. /\ m.status = "Voting" \/ (m.status = "Sandbox" /\ b.option = "For")
      /\ m.snapshot # 0 /\ b.version = m.snapshot /\ old # b.option
      /\ Store(internal_set_proposal(s, id, q))
      /\ votes' = [votes EXCEPT ![id][b.voter] = b.option]
      /\ now' = now /\ max_active_proposals' = max_active_proposals
  BY DEF CastVote, CanVote, slots
<1> HIDE DEF s
<1>3. s.proposals[id] \in Proposal /\ m \in Proposal
      /\ m.status = updated_status(s.proposals[id], now)
  BY <1>1, ReadIs, Zenon
<1>4. s.proposals[id].status \in Active
  BY <1>2, <1>3, StatusStep DEF Proposal, Status, Active
<1> HIDE DEF m
<1>5. old \in VoteOption \cup {"none"}
  BY <1>0
<1>6. q \in Proposal /\ q.status \in Active
  <2>1. VoteWrites(m, old, b, q)
    BY <1>0, <1>2, <1>3, <1>5, VoteIs, Zenon
  <2> HIDE DEF q, old
  <2> QED
    BY <1>2, <2>1 DEF VoteWrites, Active
<1> HIDE DEF q
<1>7. /\ StoreTypes' /\ QueueIndexes' /\ NoIdleSlot' /\ EditOf(id, m) /\ proposals'[id] = q
  BY <1>1, <1>2, <1>4, <1>6, EditIs DEF Active, m
<1>8. votes' \in [1..MaxProposals -> [Voters -> VoteOption \cup {"none"}]]
  BY <1>0, <1>2
<1>9. Votes(id, m, proposals'[id])
  BY <1>2, <1>7, Zenon DEF Votes, q, old
<1> QED
  BY <1>3, <1>7, <1>8, <1>9, Zenon DEF Shape, Edits, EditOf

\* vote.
LEMMA VoteOk ==
    ASSUME QueueInv, NEW id \in Ids, NEW b \in Ballots, vote(id, b)
    PROVE  StepOk
<1>1. /\ CastVote(id, b)
      /\ UNCHANGED <<slots, now, paid, released>>
      /\ UNCHANGED <<max_active_proposals, now, venear, fetches, paid, released>>
  BY DEF vote, slots
<1>2. /\ StoreTypes' /\ QueueIndexes' /\ NoIdleSlot' /\ Shape
      /\ DOMAIN proposals' = DOMAIN proposals
      /\ votes' \in [1..MaxProposals -> [Voters -> VoteOption \cup {"none"}]]
  BY <1>1, CastVoteOk, Zenon
<1>3. OtherTypes'
  BY <1>1, <1>2, OtherKept, Zenon DEF QueueInv, VotingTypes, OtherTypes
<1> QED
  BY <1>2, <1>3 DEF StepOk, QueueInv, VotingTypes

\* A step that leaves the stored state alone.
LEMMA StoreSame ==
    ASSUME QueueInv, UNCHANGED <<proposals, active_proposals, pending_queue,
                                 max_active_proposals>>
    PROVE  /\ StoreTypes' /\ QueueIndexes' /\ NoIdleSlot'
           /\ DOMAIN proposals' = DOMAIN proposals
           /\ UNCHANGED <<now, votes, paid, released>> => Shape
<1>1. StoreTypes' /\ QueueIndexes' /\ NoIdleSlot'
  BY DEF QueueInv, VotingTypes, StoreTypes, Stored, QueueIndexes, NoIdleSlot, Ids
<1>2. UNCHANGED <<now, votes, paid, released>> => OnlyAdvances
  BY DEF OnlyAdvances, Advanced
<1> QED
  BY <1>1, <1>2 DEF Shape

\* The promise chain n, while it is not over.
LEMMA ChainIs ==
    ASSUME QueueInv, NEW n \in DOMAIN fetches, fetches[n].stage # "done"
    PROVE  /\ fetches[n] \in FetchType /\ fetches[n].id \in Ids
           /\ fetches[n].stage = "vote" => fetches[n].ballot \in Ballots
           /\ Done \in FetchType /\ Done.stage = "done"
<1>1. FetchesOk(fetches)
  BY DEF QueueInv, VotingTypes, OtherTypes
<1>2. Done \in FetchType /\ Done.stage = "done"
  BY DEF Done, Fetch, FetchType
<1> QED
  BY <1>1, <1>2 DEF FetchesOk

\* get_snapshot.
LEMMA GetSnapshotOk ==
    ASSUME QueueInv, NEW n \in DOMAIN fetches, get_snapshot(n)
    PROVE  StepOk
<1>1. /\ fetches[n].stage = "venear"
      /\ UNCHANGED <<proposals, active_proposals, pending_queue, max_active_proposals>>
      /\ UNCHANGED <<max_active_proposals, now, venear, votes, paid, released>>
  BY DEF get_snapshot, slots, queue
<1>2. PICK v \in {venear} \cup {0 : x \in Scope \cap {"fetch_fails"}} :
        fetches' = [fetches EXCEPT ![n].stage = "callback", ![n].version = v]
  BY Zenon DEF get_snapshot
<1> DEFINE f == [fetches[n] EXCEPT !.stage = "callback", !.version = v]
<1>3. OtherTypes /\ v \in {0} \cup Versions
  BY DEF QueueInv, VotingTypes, OtherTypes
<1>4. f \in FetchType /\ f.stage = "callback" /\ f.id \in Ids
  BY <1>1, <1>3, ChainIs, Zenon DEF FetchType
<1>5. fetches' = [fetches EXCEPT ![n] = f]
  <2>1. fetches \in Seq(FetchType)
    BY <1>3 DEF OtherTypes, FetchesOk
  <2> QED
    BY <1>2, <2>1, Zenon
<1> HIDE DEF f
<1>6. FetchesOk(fetches')
  BY <1>3, <1>4, <1>5, FetchesMove, Zenon
<1>7. StoreTypes' /\ QueueIndexes' /\ NoIdleSlot' /\ Shape /\ DOMAIN proposals' = DOMAIN proposals
  BY <1>1, StoreSame
<1>8. OtherTypes'
  BY <1>1, <1>3, <1>6, <1>7, OtherKept DEF OtherTypes
<1> QED
  BY <1>7, <1>8 DEF StepOk, QueueInv, VotingTypes

\* on_get_snapshot, whether the snapshot is stored or not.
LEMMA OnGetSnapshotOk ==
    ASSUME QueueInv, NEW n \in DOMAIN fetches, on_get_snapshot(n)
    PROVE  StepOk
<1> DEFINE f == fetches[n]
           s == Stored
           id == f.id
           m == update(s.proposals[id])
           q == [m EXCEPT !.snapshot = f.version]
<1>0. Stored.proposals = proposals /\ Ready(s) /\ OtherTypes
  BY StoredIs, BothReady DEF QueueInv, VotingTypes
<1>1. /\ f.stage = "callback"
      /\ fetches' = [fetches EXCEPT ![n] = AfterCallback(f)]
      /\ UNCHANGED <<max_active_proposals, now, venear, votes, paid, released>>
      /\ \/ /\ f.version # 0 /\ SnapshotFits(m)
            /\ Store(internal_set_proposal(s, id, q))
         \/ UNCHANGED <<proposals, active_proposals, pending_queue>>
  BY <1>0 DEF on_get_snapshot, slots, queue
<1> HIDE DEF s
<1>2. f \in FetchType /\ id \in Ids /\ Done \in FetchType /\ Done.stage = "done"
  BY <1>1, ChainIs
<1>3. FetchesOk(fetches')
  <2> DEFINE g == AfterCallback(f)
  <2> HIDE DEF f
  <2>1. /\ g \in FetchType
        /\ g.stage # "done" => g.id \in Ids
        /\ g.stage = "vote" => g.ballot \in Ballots
    BY <1>2 DEF AfterCallback, FetchType
  <2> HIDE DEF g
  <2> QED
    BY <1>0, <1>1, <2>1, FetchesMove, Zenon DEF g
<1>4. CASE UNCHANGED <<proposals, active_proposals, pending_queue>>
  <2>1. StoreTypes' /\ QueueIndexes' /\ NoIdleSlot' /\ Shape
        /\ DOMAIN proposals' = DOMAIN proposals
    BY <1>1, <1>4, StoreSame
  <2>2. OtherTypes'
    BY <1>0, <1>1, <1>3, <2>1, OtherKept DEF OtherTypes
  <2> QED
    BY <2>1, <2>2 DEF StepOk, QueueInv, VotingTypes
<1>5. CASE /\ f.version # 0 /\ SnapshotFits(m)
           /\ Store(internal_set_proposal(s, id, q))
  <2>1. s.proposals[id] \in Proposal /\ m \in Proposal
        /\ m.status = updated_status(s.proposals[id], now)
    BY <1>0, <1>2, ReadIs, Zenon
  <2>2. m.status \in {"Sandbox", "Voting"} /\ f.version \in Versions
    BY <1>2, <1>5 DEF SnapshotFits, FetchType
  <2> HIDE DEF m, f, id
  <2>3. s.proposals[id].status \in Active
    BY <2>1, <2>2, StatusStep DEF Proposal, Status, Active
  <2>4. q \in Proposal /\ q.status = m.status
    BY <2>1, <2>2 DEF Proposal
  <2> HIDE DEF q
  <2>5. /\ StoreTypes' /\ QueueIndexes' /\ NoIdleSlot' /\ EditOf(id, m) /\ proposals'[id] = q
    BY <1>0, <1>1, <1>2, <1>5, <2>2, <2>3, <2>4, EditIs DEF Active, m
  <2>6. OtherTypes'
    BY <1>0, <1>1, <1>3, <2>5, OtherKept, Zenon DEF OtherTypes, EditOf
  <2>7. TakesSnapshot(m, proposals'[id])
    BY <1>1, <1>5, <2>2, <2>5 DEF TakesSnapshot, q
  <2> QED
    BY <1>2, <2>1, <2>5, <2>6, <2>7, Zenon DEF StepOk, QueueInv, VotingTypes, Shape, Edits
<1> QED
  BY <1>1, <1>4, <1>5

\* The vote that ends a promise chain, whether it is counted or panics.
LEMMA ChainedVoteOk ==
    ASSUME QueueInv, NEW n \in DOMAIN fetches, ChainedVote(n)
    PROVE  StepOk
<1> DEFINE f == fetches[n]
<1>1. /\ f.stage = "vote" /\ fetches' = [fetches EXCEPT ![n] = Done]
      /\ UNCHANGED <<slots, now, paid, released>>
      /\ UNCHANGED <<max_active_proposals, now, venear, paid, released>>
      /\ \/ CastVote(f.id, f.ballot)
         \/ UNCHANGED <<proposals, active_proposals, pending_queue>> /\ UNCHANGED votes
  BY DEF ChainedVote, slots, queue
<1>2. f.id \in Ids /\ f.ballot \in Ballots /\ Done \in FetchType /\ Done.stage = "done"
  BY <1>1, ChainIs
<1>3. OtherTypes
  BY DEF QueueInv, VotingTypes
<1>4. FetchesOk(fetches')
  BY <1>1, <1>2, <1>3, FetchesMove, Zenon
<1>5. /\ StoreTypes' /\ QueueIndexes' /\ NoIdleSlot' /\ Shape
      /\ DOMAIN proposals' = DOMAIN proposals
      /\ votes' \in [1..MaxProposals -> [Voters -> VoteOption \cup {"none"}]]
  <2>1. CASE CastVote(f.id, f.ballot)
    BY <1>1, <1>2, <2>1, CastVoteOk
  <2>2. CASE UNCHANGED <<proposals, active_proposals, pending_queue>> /\ UNCHANGED votes
    BY <1>1, <1>3, <2>2, StoreSame DEF OtherTypes
  <2> QED
    BY <1>1, <2>1, <2>2
<1>6. OtherTypes'
  BY <1>1, <1>3, <1>4, <1>5, OtherKept DEF OtherTypes
<1> QED
  BY <1>5, <1>6 DEF StepOk, QueueInv, VotingTypes

\* Storing the state a handler works on.
LEMMA StoreReady ==
    ASSUME QueueInv, NEW s, Ready(s), Store(s),
           UNCHANGED <<max_active_proposals, now, votes, paid, released>>
    PROVE  /\ StoreTypes' /\ QueueIndexes' /\ NoIdleSlot' /\ Shape
           /\ DOMAIN proposals' = DOMAIN proposals
<1>1. /\ s \in StoredState /\ Indexed(s) /\ DOMAIN s.proposals = Ids
      /\ \A x \in Ids : Advanced(proposals[x], s.proposals[x])
      /\ s.queue # <<>> => Cardinality(s.active) >= max_active_proposals
  BY DEF Ready
<1>2. StoreTypes' /\ QueueIndexes' /\ DOMAIN proposals' = DOMAIN proposals
  BY <1>1, StoreKeeps
<1>3. proposals' = s.proposals /\ active_proposals' = s.active /\ pending_queue' = s.queue
  BY DEF Store
<1>4. NoIdleSlot'
  BY <1>1, <1>3 DEF NoIdleSlot
<1>5. OnlyAdvances
  BY <1>1, <1>2, <1>3 DEF OnlyAdvances
<1> QED
  BY <1>2, <1>4, <1>5, Zenon DEF Shape

\* take_snapshot_and_vote: with a snapshot already taken, the chain is a vote.
LEMMA TakeSnapshotOk ==
    ASSUME QueueInv, NEW id \in Ids, NEW ballot \in {NoVote} \cup Ballot(venear),
           take_snapshot_and_vote(id, ballot)
    PROVE  StepOk
<1> DEFINE s == internal_advance_queue
           p == update(s.proposals[id])
           stage == IF p.snapshot = 0 THEN "venear" ELSE "vote"
<1>1. /\ p.snapshot = 0 \/ ballot # NoVote
      /\ Store(s) /\ fetches' = Append(fetches, Fetch(stage, id, ballot))
      /\ UNCHANGED <<max_active_proposals, now, votes, paid, released>>
      /\ UNCHANGED <<max_active_proposals, now, venear, votes, paid, released>>
  BY DEF take_snapshot_and_vote, slots
<1>2. Ready(s)
  BY BothReady
<1>3. /\ ballot \in Ballots \cup {NoVote} /\ stage \in {"venear", "vote"}
      /\ stage = "vote" => ballot \in Ballots
  BY <1>1 DEF Ballot
<1> HIDE DEF s, p, stage
<1>4. OtherTypes /\ Ids \subseteq Nat
  BY StoredIs DEF QueueInv, VotingTypes
<1>5. FetchesOk(fetches')
  BY <1>1, <1>3, <1>4, FetchesGrow
<1>6. /\ StoreTypes' /\ QueueIndexes' /\ NoIdleSlot' /\ Shape
      /\ DOMAIN proposals' = DOMAIN proposals
  BY <1>1, <1>2, StoreReady
<1>7. OtherTypes'
  BY <1>1, <1>4, <1>5, <1>6, OtherKept DEF OtherTypes
<1> QED
  BY <1>6, <1>7 DEF StepOk, QueueInv, VotingTypes

\* advance_queue.
LEMMA AdvanceQueueOk ==
    ASSUME QueueInv, advance_queue
    PROVE  StepOk
<1>1. /\ Store(internal_advance_queue)
      /\ UNCHANGED <<max_active_proposals, now, votes, paid, released>>
      /\ UNCHANGED <<max_active_proposals, now, venear, votes, paid, released, fetches>>
  BY DEF advance_queue, slots
<1>2. /\ StoreTypes' /\ QueueIndexes' /\ NoIdleSlot' /\ Shape
      /\ DOMAIN proposals' = DOMAIN proposals
  BY <1>1, BothReady, StoreReady
<1>3. OtherTypes'
  BY <1>1, <1>2, OtherSame DEF QueueInv, VotingTypes
<1> QED
  BY <1>2, <1>3 DEF StepOk, QueueInv, VotingTypes

\* set_max_active_proposals: the queue is advanced with the new number of slots.
LEMMA SetMaxOk ==
    ASSUME QueueInv, set_max_active_proposals
    PROVE  StepOk
<1>1. PICK i \in DOMAIN MaxActives :
        max_active_proposals' = MaxActives[i] /\ Store(Advance(Stored, MaxActives[i]))
  BY DEF set_max_active_proposals
<1>2. UNCHANGED <<now, venear, votes, paid, released, fetches>>
  BY DEF set_max_active_proposals
<1> DEFINE s == Stored
           max == MaxActives[i]
           r == Advance(s, max)
<1>3. max \in Nat
  BY VotingAssumption
<1>4. s \in StoredState /\ Indexed(s) /\ s.proposals = proposals /\ now \in Nat \ {0}
  BY StoredIs
<1>5. Store(r)
  BY <1>1
<1> HIDE DEF s
<1>6. IsAdvanced(r, s, max)
  BY <1>3, <1>4, AdvanceIs
<1> HIDE DEF r
<1>7. /\ r \in StoredState /\ Indexed(r) /\ DOMAIN r.proposals = Ids
      /\ \A x \in Ids : Advanced(proposals[x], r.proposals[x])
      /\ r.queue # <<>> => Cardinality(r.active) >= max
  BY <1>4, <1>6 DEF IsAdvanced, Ids
<1>8. StoreTypes' /\ QueueIndexes' /\ DOMAIN proposals' = DOMAIN proposals
  BY <1>5, <1>7, StoreKeeps
<1>9. proposals' = r.proposals /\ active_proposals' = r.active /\ pending_queue' = r.queue
  BY <1>5 DEF Store
<1>10. NoIdleSlot'
  BY <1>1, <1>7, <1>9 DEF NoIdleSlot
<1>11. OnlyAdvances
  BY <1>2, <1>7, <1>8, <1>9, Zenon DEF OnlyAdvances
<1>12. OtherTypes'
  <2>1. Ids' = Ids /\ FetchType' = FetchType /\ Ballots' = Ballots
    BY <1>8 DEF Ids, FetchType, Ballots, Versions, NoVote
  <2>2. FetchesOk(fetches)'
    BY <1>2, <2>1 DEF FetchesOk, QueueInv, VotingTypes, OtherTypes
  <2> QED
    BY <1>1, <1>2, <1>3, <2>2 DEF OtherTypes, QueueInv, VotingTypes, Versions
<1> QED
  BY <1>8, <1>10, <1>11, <1>12 DEF StepOk, QueueInv, VotingTypes, Shape

\* A new proposal.
LEMMA NewIs ==
    ASSUME NEW f \in Flows, NEW n \in ActionLists, now \in Nat \ {0}
    PROVE  NewProposal(f, n) \in Proposal
<1>1. n \in Nat /\ proposal_expiration_ns[f] \in Nat /\ bond_amount \in Nat
  BY VotingAssumption
<1> DEFINE e == IF proposal_expiration_ns[f] > 0 THEN now + proposal_expiration_ns[f] ELSE 0
           bo == IF f = "FastTrack" THEN bond_amount ELSE 0
           ta == [o \in VoteOption |-> 0]
<1>2. e \in Nat /\ bo \in Nat /\ ta \in [VoteOption -> Int] /\ "Created" \in Status
  BY <1>1 DEF Status
<1> HIDE DEF e, bo, ta
<1>3. NewProposal(f, n) =
        [flow |-> f, actions |-> n, status |-> "Created", expiration |-> e, approval |-> 0,
         voting_start |-> 0, sandbox_start |-> 0, snapshot |-> 0, approval_bps |-> 0,
         tally |-> ta, total_votes |-> 0, bond |-> bo]
  BY DEF NewProposal, e, bo, ta
<1> QED
  BY <1>1, <1>2, <1>3 DEF Proposal

\* create_proposal.
LEMMA CreateOk ==
    ASSUME QueueInv, NEW f \in Flows, NEW k \in ActionLists, create_proposal(f, k)
    PROVE  StepOk
<1> DEFINE p == NewProposal(f, k)
           N == Len(proposals)
<1>1. /\ N < MaxProposals /\ proposals' = Append(proposals, p)
      /\ UNCHANGED <<active_proposals, pending_queue, max_active_proposals>>
      /\ UNCHANGED <<now, venear, votes, paid, released, fetches>>
  BY DEF create_proposal, slots, queue
<1>2. /\ Stored \in StoredState /\ Stored.proposals = proposals
      /\ Stored.active = active_proposals /\ Stored.queue = pending_queue
      /\ now \in Nat \ {0} /\ Ids = 1..N /\ N \in Nat
  BY StoredIs
<1>3. p \in Proposal /\ p.status = "Created"
  BY <1>2, NewIs DEF NewProposal
<1> HIDE DEF p
<1>4. /\ proposals \in Seq(Proposal) /\ active_proposals \subseteq Nat
      /\ pending_queue \in Seq(Nat) /\ MaxProposals \in Nat
  BY <1>2, VotingAssumption DEF StoredState
<1>5. /\ proposals' \in Seq(Proposal) /\ Len(proposals') = N + 1
      /\ DOMAIN proposals' = Ids \cup {N + 1} /\ N + 1 \notin Ids
      /\ proposals'[N + 1] = p /\ \A x \in Ids : proposals'[x] = proposals[x]
  BY <1>1, <1>2, <1>3, <1>4
<1>6. StoreTypes'
  BY <1>1, <1>2, <1>4, <1>5 DEF StoreTypes, Stored, StoredState
<1>7. QueueIndexes'
  <2>1. active_proposals' = {x \in Ids' : proposals'[x].status \in Active}
    BY <1>1, <1>3, <1>5 DEF QueueInv, QueueIndexes, Active, Ids
  <2>2. Range(pending_queue') = {x \in Ids' : proposals'[x].status = "Queued"}
    BY <1>1, <1>3, <1>5 DEF QueueInv, QueueIndexes, Ids
  <2> QED
    BY <1>1, <2>1, <2>2, Zenon DEF QueueInv, QueueIndexes
<1>8. NoIdleSlot'
  BY <1>1 DEF NoIdleSlot, QueueInv
<1>9. OtherTypes'
  <2>1. FetchType' = FetchType /\ Ballots' = Ballots /\ Ids \subseteq Ids'
    BY <1>5 DEF Ids, FetchType, Ballots, Versions, NoVote
  <2>2. FetchesOk(fetches)'
    BY <1>1, <2>1, Zenon DEF FetchesOk, QueueInv, VotingTypes, OtherTypes
  <2> QED
    BY <1>1, <2>2 DEF OtherTypes, QueueInv, VotingTypes, Versions
<1>10. OnlyCreates
  BY <1>1 DEF OnlyCreates, p
<1> QED
  BY <1>6, <1>7, <1>8, <1>9, <1>10 DEF StepOk, QueueInv, VotingTypes, Shape

\* The steps that leave the stored state alone.
LEMMA OtherOk ==
    ASSUME QueueInv,
           \/ pause \/ unpause \/ VenearChanges \/ Tick
           \/ \E id \in Ids : RunAction(id)
    PROVE  StepOk
<1>1. CASE pause \/ unpause \/ \E id \in Ids : RunAction(id)
  <2>1. /\ UNCHANGED <<proposals, active_proposals, pending_queue, max_active_proposals>>
        /\ UNCHANGED <<now, votes, paid, released>>
        /\ UNCHANGED <<max_active_proposals, now, venear, votes, paid, released, fetches>>
    BY <1>1 DEF pause, unpause, RunAction, slots, queue
  <2>2. /\ StoreTypes' /\ QueueIndexes' /\ NoIdleSlot' /\ Shape
        /\ DOMAIN proposals' = DOMAIN proposals
    BY <2>1, StoreSame
  <2>3. OtherTypes'
    BY <2>1, <2>2, OtherSame DEF QueueInv, VotingTypes
  <2> QED
    BY <2>2, <2>3 DEF StepOk, QueueInv, VotingTypes
<1>2. CASE VenearChanges
  <2>1. /\ UNCHANGED <<proposals, active_proposals, pending_queue, max_active_proposals>>
        /\ UNCHANGED <<now, votes, paid, released, fetches>> /\ venear' \in Versions
    BY <1>2 DEF VenearChanges, slots, queue
  <2>2. StoreTypes' /\ QueueIndexes' /\ NoIdleSlot' /\ Shape
    BY <2>1, StoreSame
  <2>3. OtherTypes'
    <3>1. FetchType' = FetchType /\ Ballots' = Ballots /\ Ids = Ids'
      BY <2>1 DEF Ids, FetchType, Ballots, Versions, NoVote
    <3>2. FetchesOk(fetches)'
      BY <2>1, <3>1 DEF FetchesOk, QueueInv, VotingTypes, OtherTypes
    <3> QED
      BY <2>1, <3>2 DEF OtherTypes, QueueInv, VotingTypes, Versions
  <2> QED
    BY <2>2, <2>3 DEF StepOk, QueueInv, VotingTypes
<1>3. CASE Tick
  <2>1. /\ UNCHANGED <<proposals, active_proposals, pending_queue, max_active_proposals>>
        /\ UNCHANGED <<venear, votes, paid, released, fetches>> /\ now' = now + 1
    BY <1>3 DEF Tick, slots, queue
  <2>2. StoreTypes' /\ QueueIndexes' /\ NoIdleSlot'
    BY <2>1, StoreSame
  <2>3. OnlyTicks
    BY <2>1 DEF OnlyTicks
  <2>4. OtherTypes'
    <3>1. FetchType' = FetchType /\ Ballots' = Ballots /\ Ids = Ids'
      BY <2>1 DEF Ids, FetchType, Ballots, Versions, NoVote
    <3>2. FetchesOk(fetches)'
      BY <2>1, <3>1 DEF FetchesOk, QueueInv, VotingTypes, OtherTypes
    <3> QED
      BY <2>1, <3>2 DEF OtherTypes, QueueInv, VotingTypes, Versions
  <2> QED
    BY <2>2, <2>3, <2>4 DEF StepOk, QueueInv, VotingTypes, Shape
<1> QED
  BY <1>1, <1>2, <1>3

-----------------------------------------------------------------------------
(* The queue. *)

\* The contract starts with no proposals.
LEMMA InitQueue ==
    ASSUME Init
    PROVE  QueueInv
<1> DEFINE e == <<>>
<1>1. /\ e \in Seq(Proposal) /\ e \in Seq(Nat) /\ e \in Seq(FetchType)
      /\ DOMAIN e = {} /\ Len(e) = 0
  OBVIOUS
<1> HIDE DEF e
<1>2. proposals = e /\ active_proposals = {} /\ pending_queue = e /\ fetches = e
  BY DEF Init, e
<1>3. /\ MaxProposals \in Nat /\ StartTime \in Nat \ {0} /\ MaxActives[1] \in Nat
      /\ 1 \in Versions
  BY VotingAssumption DEF Versions
<1>4. StoreTypes
  BY <1>1, <1>2, <1>3 DEF StoreTypes, Stored, StoredState
<1>5. OtherTypes
  BY <1>1, <1>2, <1>3 DEF OtherTypes, FetchesOk, Init
<1>6. QueueIndexes
  BY <1>1, <1>2 DEF QueueIndexes, Ids, Range, IsInjective
<1>7. NoIdleSlot
  BY <1>2 DEF NoIdleSlot, e
<1> QED
  BY <1>4, <1>5, <1>6, <1>7 DEF QueueInv, VotingTypes

\* Every step keeps the queue's invariant and has one of the shapes above.
LEMMA StepIs ==
    ASSUME QueueInv, Next
    PROVE  StepOk
<1>1. CASE Calls
  <2>1. ASSUME NEW f \in Flows, NEW n \in ActionLists, create_proposal(f, n)
        PROVE  StepOk
    BY <2>1, CreateOk
  <2>2. ASSUME NEW id \in Ids, NEW bps \in MajorityBps[proposals[id].flow],
               approve_proposal(id, bps)
        PROVE  StepOk
    BY <2>2, ApproveOk
  <2>3. ASSUME NEW id \in Ids, reject_proposal(id) PROVE StepOk
    BY <2>3, RejectOk
  <2>4. ASSUME NEW id \in Ids, slash_proposal(id) PROVE StepOk
    BY <2>4, SlashOk
  <2>5. ASSUME NEW id \in Ids, claim_bond(id) PROVE StepOk
    BY <2>5, ClaimOk
  <2>6. ASSUME NEW id \in Ids, veto_proposal(id) PROVE StepOk
    BY <2>6, VetoOk
  <2>7. ASSUME NEW id \in Ids, noveto_proposal(id) PROVE StepOk
    BY <2>7, NovetoOk
  <2>8. ASSUME NEW id \in Ids, NEW b \in Ballots, vote(id, b) PROVE StepOk
    BY <2>8, VoteOk
  <2>9. ASSUME NEW id \in Ids, NEW b \in {NoVote} \cup Ballot(venear),
               take_snapshot_and_vote(id, b)
        PROVE  StepOk
    BY <2>9, TakeSnapshotOk
  <2>10. ASSUME NEW id \in Ids, execute_proposal(id) PROVE StepOk
    BY <2>10, ExecuteOk
  <2>11. advance_queue => StepOk
    BY AdvanceQueueOk
  <2>12. set_max_active_proposals => StepOk
    BY SetMaxOk
  <2>13. pause \/ unpause => StepOk
    BY OtherOk
  <2> QED
    BY <1>1, <2>1, <2>2, <2>3, <2>4, <2>5, <2>6, <2>7, <2>8, <2>9, <2>10, <2>11, <2>12,
       <2>13, Zenon DEF Calls
<1>2. CASE Receipts
  <2>1. ASSUME NEW n \in DOMAIN fetches, get_snapshot(n) PROVE StepOk
    BY <2>1, GetSnapshotOk
  <2>2. ASSUME NEW n \in DOMAIN fetches, on_get_snapshot(n) PROVE StepOk
    BY <2>2, OnGetSnapshotOk
  <2>3. ASSUME NEW n \in DOMAIN fetches, ChainedVote(n) PROVE StepOk
    BY <2>3, ChainedVoteOk
  <2>4. ASSUME NEW id \in Ids, RunAction(id) PROVE StepOk
    BY <2>4, OtherOk
  <2>5. ASSUME NEW id \in Ids, on_execute_proposal(id) PROVE StepOk
    BY <2>5, OnExecuteOk
  <2> QED
    BY <1>2, <2>1, <2>2, <2>3, <2>4, <2>5, Zenon DEF Receipts
<1>3. CASE VenearChanges \/ Tick
  BY <1>3, OtherOk
<1> QED
  BY <1>1, <1>2, <1>3 DEF Next

\* A step that changes nothing only advances.
LEMMA StutterIs ==
    ASSUME QueueInv, UNCHANGED vars
    PROVE  StepOk
<1>1. /\ UNCHANGED <<proposals, active_proposals, pending_queue, max_active_proposals>>
      /\ UNCHANGED <<now, votes, paid, released>>
      /\ UNCHANGED <<max_active_proposals, now, venear, votes, paid, released, fetches>>
  BY DEF vars, slots, queue
<1>2. /\ StoreTypes' /\ QueueIndexes' /\ NoIdleSlot' /\ Shape
      /\ DOMAIN proposals' = DOMAIN proposals
  BY <1>1, StoreSame
<1>3. OtherTypes'
  BY <1>1, <1>2, OtherSame DEF QueueInv, VotingTypes
<1> QED
  BY <1>2, <1>3 DEF StepOk, QueueInv, VotingTypes

\* The queue's invariant.
LEMMA QueueInvariance == Spec => []QueueInv
<1>1. Init => QueueInv
  BY InitQueue
<1>2. QueueInv /\ [Next]_vars => QueueInv'
  BY StepIs, StutterIs DEF StepOk
<1> QED
  BY <1>1, <1>2, PTL DEF Spec

\* active_proposals and pending_queue index the stored statuses exactly, and no
\* proposal waits twice, whichever handler stored the proposal last.
THEOREM IndexesAgree == Spec => []QueueIndexes
<1>1. QueueInv => QueueIndexes
  BY DEF QueueInv
<1> QED
  BY <1>1, QueueInvariance, PTL

\* No slot stays empty while a proposal waits: every handler that can free a
\* slot, or add one, advances the queue before it returns.
THEOREM SlotsAreUsed == Spec => []NoIdleSlot
<1>1. QueueInv => NoIdleSlot
  BY DEF QueueInv
<1> QED
  BY <1>1, QueueInvariance, PTL

=============================================================================
