---------------------------- MODULE VotingProofs ----------------------------
(***************************************************************************)
(* What a proposal's life is correct by, from the shapes of the steps: a   *)
(* terminal status stays, an outcome agrees with the tally, the tally with *)
(* the votes, and a bond is paid out once.                                 *)
(***************************************************************************)
EXTENDS VotingSteps

-----------------------------------------------------------------------------
(* Terminal statuses. *)

\* A terminal status that Proposal::update gives, it also gives a moment later.
LEMMA TerminalKept ==
    ASSUME NEW p \in Proposal, NEW t \in Nat, updated_status(p, t) \in Terminal
    PROVE  updated_status(p, t + 1) = updated_status(p, t)
<1>1. /\ p.status \in Status /\ p.flow \in {"Classic", "FastTrack"}
      /\ p.expiration \in Nat /\ p.voting_start \in Nat
      /\ p.sandbox_start + sandbox_duration_ns \in Nat
      /\ voting_end(p) \in Nat /\ voting_end(p) + timelock_duration_ns \in Nat
  <2>1. Flows \subseteq {"Classic", "FastTrack"} /\ sandbox_duration_ns \in Nat
        /\ timelock_duration_ns \in Nat
    BY VotingAssumption
  <2>2. voting_end(p) \in Nat
    BY EndTimeType
  <2>3. p.status \in Status /\ p.flow \in Flows /\ p.expiration \in Nat
        /\ p.voting_start \in Nat /\ p.sandbox_start \in Nat
    BY Zenon DEF Proposal
  <2>4. p.flow \in {"Classic", "FastTrack"}
    BY <2>1, <2>3, Zenon
  <2>5. /\ p.sandbox_start + sandbox_duration_ns \in Nat
        /\ voting_end(p) + timelock_duration_ns \in Nat
    BY <2>1, <2>2, <2>3
  <2> QED
    BY <2>2, <2>3, <2>4, <2>5, Zenon
<1>2. compute_final_status(p) \in {"Succeeded", "Defeated"}
      /\ Passed(p) \in {"Executable", "Succeeded"}
  BY TwoOutcomes DEF Passed
<1>3. CASE p.status = "Created"
  BY <1>1, <1>3 DEF updated_status, Terminal
<1>4. CASE p.flow = "Classic" /\ p.status \in {"Voting", "Timelock"}
  BY <1>1, <1>2, <1>4 DEF updated_status, Terminal
<1>5. CASE p.flow = "FastTrack" /\ p.status \in {"Sandbox", "Scheduled", "Voting"}
  BY <1>1, <1>2, <1>5 DEF updated_status, Terminal
<1>6. CASE \/ p.flow = "Classic" /\ p.status \in {"Sandbox", "Scheduled"}
           \/ p.flow = "FastTrack" /\ p.status = "Timelock"
  BY <1>6 DEF updated_status, Terminal
<1>7. CASE p.status \notin {"Created", "Sandbox", "Scheduled", "Voting", "Timelock"}
  BY <1>7, StatusStep
<1> QED
  BY <1>1, <1>3, <1>4, <1>5, <1>6, <1>7

\* Advancing the queue leaves a terminal status alone.
LEMMA AdvancedTerminal ==
    ASSUME NEW p \in Proposal, NEW q, Advanced(p, q), now \in Nat,
           updated_status(p, now) \in Terminal
    PROVE  updated_status(q, now) = updated_status(p, now)
<1>1. CASE q = update(p)
  BY <1>1, UpdateIs, StatusSettles
<1>2. p.status # "Queued"
  <2>1. p.status = "Queued" => updated_status(p, now) = "Queued"
    BY StatusStep
  <2> QED
    BY <2>1 DEF Terminal
<1> QED
  BY <1>1, <1>2 DEF Advanced

\* No handler takes a proposal out of a terminal status: of all edits only the
\* claim of the bond is one of a terminal proposal, and it keeps the status.
LEMMA EditTerminal ==
    ASSUME QueueInv, NEW id \in Ids, NEW m, NEW q, EditOf(id, m), Edits(id, m, q),
           updated_status(proposals[id], now) \in Terminal
    PROVE  updated_status(q, now) = updated_status(proposals[id], now)
<1>1. /\ now \in Nat /\ proposals[id] \in Proposal /\ m \in Proposal
      /\ Advanced(proposals[id], m) /\ update(m) = m
  BY StoredIs DEF EditOf
<1>2. updated_status(m, now) = updated_status(proposals[id], now)
  BY <1>1, AdvancedTerminal
<1>3. m.status = updated_status(m, now)
  BY <1>1, UpdateIs
<1>4. m.status \in Terminal
  BY <1>2, <1>3
<1>5. Claims(m, q)
  BY <1>4, Zenon
     DEF Terminal, Edits, Approves, Rejects, Slashes, Vetoes, Waives, TakesSnapshot,
               SnapshotFits, Votes, Executes, Finishes
<1>6. q = [m EXCEPT !.bond = 0] /\ m.status \in {"Expired", "Rejected"}
  BY <1>5 DEF Claims
<1>7. q \in Proposal /\ q.status = m.status
  BY <1>1, <1>6 DEF Proposal
<1>8. updated_status(q, now) = q.status
  BY <1>6, <1>7, StatusStep, Zenon
<1> QED
  BY <1>2, <1>3, <1>7, <1>8

\* What a step keeps of the terminal statuses.
TerminalsKept ==
    \A id \in Ids :
      updated_status(proposals[id], now) \in Terminal =>
        updated_status(proposals'[id], now') = updated_status(proposals[id], now)

\* Every shape of a step keeps them.
LEMMA TerminalStep ==
    ASSUME QueueInv, Shape
    PROVE  TerminalsKept
<1> SUFFICES ASSUME NEW id \in Ids, updated_status(proposals[id], now) \in Terminal
             PROVE  updated_status(proposals'[id], now') = updated_status(proposals[id], now)
  BY DEF TerminalsKept
<1>1. now \in Nat /\ proposals[id] \in Proposal
  BY StoredIs
<1>2. CASE OnlyAdvances
  BY <1>1, <1>2, AdvancedTerminal DEF OnlyAdvances
<1>3. CASE OnlyCreates
  <2>1. PICK f \in Flows, n \in ActionLists : proposals' = Append(proposals, NewProposal(f, n))
    BY <1>3 DEF OnlyCreates
  <2>2. proposals'[id] = proposals[id]
    <3>1. proposals \in Seq(Proposal) /\ id \in 1..Len(proposals)
      BY StoredIs DEF StoredState
    <3> QED
      BY <2>1, <3>1
  <2> QED
    BY <1>3, <2>2 DEF OnlyCreates
<1>4. CASE OnlyTicks
  BY <1>1, <1>4, TerminalKept DEF OnlyTicks
<1>5. CASE \E x \in Ids : \E m \in Proposal : EditOf(x, m) /\ Edits(x, m, proposals'[x])
  <2>1. PICK x \in Ids, m \in Proposal : EditOf(x, m) /\ Edits(x, m, proposals'[x])
    BY <1>5
  <2>2. now' = now
    BY <2>1 DEF EditOf
  <2>3. CASE x = id
    BY <2>1, <2>2, <2>3, EditTerminal
  <2>4. CASE x # id
    <3>1. Advanced(proposals[id], proposals'[id])
      BY <2>1, <2>4 DEF EditOf
    <3> QED
      BY <1>1, <2>2, <3>1, AdvancedTerminal
  <2> QED
    BY <2>3, <2>4
<1> QED
  BY <1>2, <1>3, <1>4, <1>5 DEF Shape

\* A terminal status, as the clock gives it, is never left: neither a late
\* callback of a snapshot or an execution, nor a reviewer, nor the queue revives
\* a proposal.
THEOREM TerminalForEver == Spec => TerminalStays
<1>1. QueueInv /\ [Next]_vars => [TerminalsKept]_vars
  BY StepIs, StutterIs, TerminalStep DEF StepOk
<1>2. TerminalsKept =>
        \A id \in Ids :
          updated_status(proposals[id], now) \in Terminal =>
            updated_status(proposals'[id], now') = updated_status(proposals[id], now)
  BY DEF TerminalsKept
<1> QED
  BY <1>1, <1>2, QueueInvariance, PTL DEF Spec, TerminalStays

-----------------------------------------------------------------------------
(* Sane proposals. *)

\* The rest of a proposal's data, and what is computed from it, is the same when
\* only the status differs.
LEMMA SameComputed ==
    ASSUME NEW p, NEW q, SameData(p, q)
    PROVE  /\ compute_final_status(q) = compute_final_status(p)
           /\ voting_end(q) = voting_end(p)
           /\ active_end_time_ns(q) = active_end_time_ns(p)
           /\ Begin(q) = Begin(p)
           /\ has_actions(q) <=> has_actions(p)
<1>1. compute_final_status(q) = compute_final_status(p)
  BY SameOutcome DEF SameData
<1>2. voting_end(q) = voting_end(p)
  BY DEF SameData, voting_end
<1> QED
  BY <1>1, <1>2, Zenon DEF SameData, active_end_time_ns, Begin, has_actions

\* Time only helps.
LEMMA SaneLater ==
    ASSUME NEW p \in Proposal, NEW freed, NEW t \in Nat, Sane(p, freed, t)
    PROVE  Sane(p, freed, t + 1)
<1>1. active_end_time_ns(p) \in Nat
  BY EndTimeType
<1>2. t >= active_end_time_ns(p) => t + 1 >= active_end_time_ns(p)
  BY <1>1
<1> QED
  BY <1>2, Zenon DEF Sane

\* Proposal::update keeps a proposal sane.
LEMMA SaneUpdate ==
    ASSUME NEW p \in Proposal, NEW freed, now \in Nat, Sane(p, freed, now)
    PROVE  Sane(update(p), freed, now)
<1> DEFINE u == update(p)
<1>1. u \in Proposal /\ u.status = updated_status(p, now) /\ SameData(p, u)
  BY UpdateIs
<1> SUFFICES Sane(u, freed, now)
  OBVIOUS
<1> HIDE DEF u
<1>2. /\ compute_final_status(u) = compute_final_status(p)
      /\ active_end_time_ns(u) = active_end_time_ns(p)
      /\ Begin(u) = Begin(p)
      /\ u.actions = p.actions /\ u.flow = p.flow /\ u.bond = p.bond /\ u.voting_start = p.voting_start
      /\ u.sandbox_start = p.sandbox_start /\ u.approval = p.approval
      /\ u.snapshot = p.snapshot
  BY <1>1, SameComputed DEF SameData
<1>3. CASE u.status = p.status
  BY <1>2, <1>3 DEF Sane, has_actions
<1>4. /\ p.status \in Status /\ p.flow \in {"Classic", "FastTrack"}
      /\ compute_final_status(p) \in {"Succeeded", "Defeated"}
      /\ Passed(p) \in {"Executable", "Succeeded"}
  <2>1. Flows \subseteq {"Classic", "FastTrack"}
    BY VotingAssumption
  <2> QED
    BY <2>1, TwoOutcomes, Zenon DEF Proposal, Passed
<1>5. CASE p.status = "Created" /\ u.status = "Expired"
  BY <1>2, <1>4, <1>5 DEF Sane, Unapproved, Voted, has_actions
<1>6. CASE /\ p.flow = "Classic" /\ p.status \in {"Voting", "Timelock"} /\ now >= voting_end(p)
  <2>1. \/ u.status = "Defeated" /\ compute_final_status(p) = "Defeated"
        \/ u.status = "Timelock" /\ compute_final_status(p) = "Succeeded"
        \/ /\ u.status \in {"Executable", "Succeeded"}
           /\ compute_final_status(p) = "Succeeded"
           /\ ~(now < voting_end(p) + timelock_duration_ns)
    BY <1>1, <1>4, <1>6 DEF updated_status
  <2>2. /\ compute_final_status(p) = "Succeeded"
           => active_end_time_ns(p) = voting_end(p) + timelock_duration_ns
    BY <1>6 DEF active_end_time_ns
  <2>3. voting_end(p) + timelock_duration_ns \in Nat
    BY EndTimeType, VotingAssumption
  <2>4. u.status \in {"Executable", "Succeeded"} => now >= active_end_time_ns(p)
    BY <2>1, <2>2, <2>3
  <2> QED
    BY <1>2, <1>6, <2>1, <2>4 DEF Sane, Unapproved, Voted, has_actions
<1>7. CASE p.flow = "FastTrack" /\ p.status = "Sandbox" /\ u.status = "Defeated"
  BY <1>2, <1>7 DEF Sane, Unapproved, Voted, has_actions
<1>8. CASE p.flow = "FastTrack" /\ p.status \in {"Scheduled", "Voting"}
  <2>1. \/ u.status = p.status
        \/ u.status = "Voting"
        \/ u.status = "Defeated" /\ compute_final_status(p) = "Defeated"
        \/ /\ u.status \in {"Executable", "Succeeded"}
           /\ compute_final_status(p) = "Succeeded"
           /\ ~(now < voting_end(p))
    BY <1>1, <1>4, <1>8 DEF updated_status
  <2>2. p.voting_start # 0
    BY <1>8 DEF Sane
  <2>3. active_end_time_ns(p) = voting_end(p) /\ voting_end(p) \in Nat
    BY <1>8, <2>2, EndTimeType DEF active_end_time_ns
  <2>4. u.status \in {"Executable", "Succeeded"} => now >= active_end_time_ns(p)
    BY <1>8, <2>1, <2>3
  <2> QED
    BY <1>2, <1>8, <2>1, <2>2, <2>4 DEF Sane, Unapproved, Voted, has_actions
<1>9. \/ u.status = p.status
      \/ p.status = "Created" /\ u.status = "Expired"
      \/ p.flow = "Classic" /\ p.status \in {"Voting", "Timelock"} /\ now >= voting_end(p)
      \/ p.flow = "FastTrack" /\ p.status = "Sandbox" /\ u.status = "Defeated"
      \/ p.flow = "FastTrack" /\ p.status \in {"Scheduled", "Voting"}
  BY <1>1, <1>4 DEF updated_status
<1> QED
  BY <1>3, <1>5, <1>6, <1>7, <1>8, <1>9

\* A promotion from the queue keeps a proposal sane.
LEMMA SaneActivate ==
    ASSUME NEW p \in Proposal, NEW freed, NEW t, NEW start \in Nat \ {0},
           Sane(p, freed, t), p.status = "Queued"
    PROVE  Sane(activate(p, start), freed, t)
<1> DEFINE a == activate(p, start)
<1>1. /\ a \in Proposal /\ a.flow = p.flow /\ a.approval = p.approval
      /\ a.snapshot = p.snapshot /\ a.bond = p.bond
      /\ p.flow = "Classic" => a.status = "Voting" /\ a.voting_start = start
      /\ p.flow # "Classic" => /\ a.status = "Sandbox" /\ a.sandbox_start = start
                               /\ a.voting_start = p.voting_start
  BY ActivateIs
<1> SUFFICES Sane(a, freed, t)
  OBVIOUS
<1> HIDE DEF a
<1>2. p.flow \in {"Classic", "FastTrack"}
  BY VotingAssumption, Zenon DEF Proposal
<1>3. Begin(a) # 0
  BY <1>1 DEF Begin
<1> QED
  BY <1>1, <1>2, <1>3 DEF Sane, Unapproved, Voted, has_actions

\* Advancing the queue keeps a proposal sane.
LEMMA SaneAdvanced ==
    ASSUME NEW p \in Proposal, NEW q, NEW freed, now \in Nat, Sane(p, freed, now),
           Advanced(p, q)
    PROVE  Sane(q, freed, now)
<1>1. CASE q = p \/ q = update(p)
  BY <1>1, SaneUpdate
<1>2. CASE p.status = "Queued" /\ \E start \in Nat \ {0} : q = update(activate(p, start))
  <2>1. PICK start \in Nat \ {0} : q = update(activate(p, start))
    BY <1>2
  <2>2. activate(p, start) \in Proposal /\ Sane(activate(p, start), freed, now)
    BY <1>2, ActivateIs, SaneActivate
  <2> QED
    BY <2>1, <2>2, SaneUpdate
<1> QED
  BY <1>1, <1>2 DEF Advanced

\* Every handler keeps the proposal it edits sane: an outcome is set only from
\* the tally, and a vote or a snapshot comes only before the outcome.
LEMMA SaneEdit ==
    ASSUME QueueInv, NEW id \in Ids, NEW m, NEW q, EditOf(id, m), Edits(id, m, q),
           Sane(proposals[id], released[id], now)
    PROVE  Sane(q, released'[id], now)
<1>1. /\ now \in Nat \ {0} /\ proposals[id] \in Proposal /\ m \in Proposal
      /\ Advanced(proposals[id], m)
  BY StoredIs DEF EditOf
<1>2. Sane(m, released[id], now)
  BY <1>1, SaneAdvanced
<1>3. /\ m.flow \in {"Classic", "FastTrack"} /\ m.status \in Status /\ m.bond \in Nat
      /\ bond_amount \in Nat
  BY <1>1, VotingAssumption, Zenon DEF Proposal
<1>4. id \in 1..MaxProposals /\ released \in [1..MaxProposals -> Nat]
  BY StoredIs DEF QueueInv, VotingTypes, OtherTypes
<1>5. CASE Approves(m, q)
  <2>1. PICK bps \in Nat :
          LET c == [m EXCEPT !.approval = now, !.bond = 0, !.approval_bps = bps]
          IN  q = activate(c, now) \/ q = [c EXCEPT !.status = "Queued"]
    BY <1>5, Zenon DEF Approves
  <2>2. m.status = "Created" /\ released' = released
    BY <1>5 DEF Approves
  <2> DEFINE c == [m EXCEPT !.approval = now, !.bond = 0, !.approval_bps = bps]
             w == [c EXCEPT !.status = "Queued"]
  <2>3. /\ c \in Proposal /\ c.status = "Created" /\ c.approval = now /\ c.bond = 0
        /\ c.flow = m.flow /\ c.voting_start = m.voting_start
        /\ c.sandbox_start = m.sandbox_start /\ c.snapshot = m.snapshot
    BY <1>1, <2>2, Zenon DEF Proposal
  <2>4. q = activate(c, now) \/ q = w
    BY <2>1
  <2>5. /\ w \in Proposal /\ w.status = "Queued" /\ w.approval = now /\ w.bond = 0
        /\ w.flow = m.flow /\ w.voting_start = m.voting_start
        /\ w.sandbox_start = m.sandbox_start /\ w.snapshot = m.snapshot
    <3> HIDE DEF c
    <3> QED
      BY <2>3 DEF Proposal, Status
  <2> HIDE DEF c, w
  <2>6. Sane(w, released[id], now)
    BY <1>1, <1>2, <1>3, <2>2, <2>5 DEF Sane, Unapproved, Voted, Begin
  <2>7. Sane(activate(c, now), released[id], now)
    <3> DEFINE a == activate(c, now)
    <3>1. /\ a.flow = c.flow /\ a.approval = c.approval
          /\ a.snapshot = c.snapshot /\ a.bond = c.bond
          /\ c.flow = "Classic" => a.status = "Voting" /\ a.voting_start = now
          /\ c.flow # "Classic" => /\ a.status = "Sandbox" /\ a.sandbox_start = now
                                   /\ a.voting_start = c.voting_start
      BY <1>1, <2>3, ActivateIs
    <3> SUFFICES Sane(a, released[id], now)
      OBVIOUS
    <3> HIDE DEF a
    <3>2. Begin(a) # 0 /\ c.voting_start = 0
      BY <1>1, <1>2, <2>2, <2>3, <3>1 DEF Begin, Sane, Unapproved
    <3> QED
      BY <1>1, <1>3, <2>3, <3>1, <3>2 DEF Sane, Unapproved, Voted
  <2> QED
    BY <2>2, <2>4, <2>6, <2>7
<1>6. CASE Rejects(m, q) \/ Slashes(m, q) \/ Claims(m, q)
  <2>1. /\ m.status \in {"Created", "Expired", "Rejected"} /\ released' = released
        /\ \/ m.status = "Created" /\ q = [m EXCEPT !.status = "Rejected"]
           \/ /\ m.status = "Created" /\ m.flow = "FastTrack"
              /\ q = [m EXCEPT !.status = "Slashed", !.bond = 0]
           \/ m.status \in {"Expired", "Rejected"} /\ q = [m EXCEPT !.bond = 0]
    BY <1>6 DEF Rejects, Slashes, Claims
  <2>2. /\ q.flow = m.flow /\ q.approval = m.approval /\ q.snapshot = m.snapshot
        /\ q.voting_start = m.voting_start /\ q.sandbox_start = m.sandbox_start
        /\ \/ m.status = "Created" /\ q.status = "Rejected" /\ q.bond = m.bond
           \/ /\ m.status = "Created" /\ m.flow = "FastTrack"
              /\ q.status = "Slashed" /\ q.bond = 0
           \/ m.status \in {"Expired", "Rejected"} /\ q.status = m.status /\ q.bond = 0
    BY <1>1, <2>1, Zenon DEF Proposal
  <2> QED
    BY <1>2, <1>3, <2>1, <2>2 DEF Sane, Unapproved, Voted
<1>7. CASE Vetoes(id, m, q)
  <2>1. /\ q = [m EXCEPT !.status = "Vetoed"]
        /\ m.flow = "FastTrack" => m.status \in {"Voting", "Scheduled"}
        /\ m.status \in {"Timelock", "Voting", "Scheduled"}
    BY <1>7 DEF Vetoes
  <2>2. /\ q.flow = m.flow /\ q.approval = m.approval /\ q.snapshot = m.snapshot
        /\ q.voting_start = m.voting_start /\ q.sandbox_start = m.sandbox_start
        /\ q.bond = m.bond /\ q.status = "Vetoed"
    BY <1>1, <2>1, Zenon DEF Proposal
  <2>3. Begin(q) = Begin(m)
    BY <2>2 DEF Begin
  <2> QED
    BY <1>2, <1>3, <2>1, <2>2, <2>3 DEF Sane, Unapproved, Voted
<1>8. CASE Waives(id, m, q)
  <2>1. /\ q = [m EXCEPT !.status = Passed(m)] /\ m.status = "Timelock"
        /\ released'[id] = now
    BY <1>4, <1>8 DEF Waives
  <2>2. Passed(m) \in {"Executable", "Succeeded"}
    BY DEF Passed
  <2>3. /\ SameData(m, q) /\ q.status = Passed(m)
    BY <1>1, <2>1, Zenon DEF Proposal, SameData
  <2>4. Begin(q) = Begin(m) /\ compute_final_status(q) = compute_final_status(m)
    BY <2>3, SameComputed
  <2> QED
    BY <1>1, <1>2, <1>3, <2>1, <2>2, <2>3, <2>4 DEF Sane, Unapproved, Voted, SameData
<1>9. CASE TakesSnapshot(m, q)
  <2>1. PICK version \in Versions : q = [m EXCEPT !.snapshot = version]
    BY <1>9 DEF TakesSnapshot
  <2>2. m.status \in {"Sandbox", "Voting"} /\ released' = released
    BY <1>9 DEF TakesSnapshot, SnapshotFits
  <2>3. /\ q.flow = m.flow /\ q.approval = m.approval /\ q.status = m.status
        /\ q.voting_start = m.voting_start /\ q.sandbox_start = m.sandbox_start
        /\ q.bond = m.bond
    BY <1>1, <2>1, Zenon DEF Proposal
  <2>4. Begin(q) = Begin(m)
    BY <2>3 DEF Begin
  <2> QED
    BY <1>2, <1>3, <2>2, <2>3, <2>4 DEF Sane, Unapproved, Voted
<1>10. CASE Votes(id, m, q)
  <2>1. PICK b \in Ballots :
          /\ m.status = "Voting" \/ (m.status = "Sandbox" /\ b.option = "For")
          /\ m.snapshot # 0
          /\ q = Graduated(Counted(m, votes[id][b.voter], b))
    BY <1>10 DEF Votes
  <2>2. m.status \in {"Voting", "Sandbox"} /\ released' = released
    BY <1>10, <2>1 DEF Votes
  <2>3. votes[id][b.voter] \in VoteOption \cup {"none"}
    BY <1>4, BallotIs DEF QueueInv, VotingTypes, OtherTypes
  <2>4. VoteWrites(m, votes[id][b.voter], b, q)
    BY <1>1, <2>1, <2>3, VoteIs
  <2>5. /\ q.flow = m.flow /\ q.approval = m.approval
        /\ q.sandbox_start = m.sandbox_start /\ q.bond = m.bond
        /\ \/ q.status = m.status /\ q.voting_start = m.voting_start
           \/ /\ m.flow = "FastTrack" /\ q.status = "Scheduled"
              /\ q.voting_start = next_voting_start_ns(now)
    BY <2>4 DEF VoteWrites
  <2>6. next_voting_start_ns(now) # 0
    BY <1>1, NextMonday
  <2>7. Begin(q) = Begin(m) /\ Begin(m) # 0
    BY <1>2, <2>2, <2>5 DEF Begin, Sane, Unapproved
  <2> QED
    BY <1>2, <1>3, <2>2, <2>5, <2>6, <2>7 DEF Sane, Unapproved, Voted
<1>11. CASE Executes(m, q) \/ Finishes(m, q)
  <2>1. /\ \E s \in {"InProgress", "Succeeded", "Failed"} : q = [m EXCEPT !.status = s]
        /\ m.status \in {"Executable", "InProgress"} /\ released' = released
    BY <1>11 DEF Executes, Finishes
  <2>2. /\ SameData(m, q) /\ q.status \in {"InProgress", "Succeeded", "Failed"}
    BY <1>1, <2>1, Zenon DEF Proposal, SameData
  <2>3. /\ Begin(q) = Begin(m) /\ compute_final_status(q) = compute_final_status(m)
        /\ active_end_time_ns(q) = active_end_time_ns(m)
    BY <2>2, SameComputed
  <2> QED
    BY <1>2, <1>3, <2>1, <2>2, <2>3 DEF Sane, Unapproved, Voted, SameData, has_actions
<1> QED
  BY <1>5, <1>6, <1>7, <1>8, <1>9, <1>10, <1>11 DEF Edits

\* A new proposal is sane.
LEMMA SaneNew ==
    ASSUME NEW f \in Flows, NEW n \in ActionLists, now \in Nat \ {0}, NEW freed
    PROVE  Sane(NewProposal(f, n), freed, now)
<1> DEFINE p == NewProposal(f, n)
<1>1. /\ p.flow = f /\ p.status = "Created" /\ p.approval = 0 /\ p.voting_start = 0
      /\ p.sandbox_start = 0 /\ p.snapshot = 0
      /\ p.bond = IF f = "FastTrack" THEN bond_amount ELSE 0
  BY Zenon DEF NewProposal
<1>2. bond_amount \in Nat /\ f \in {"Classic", "FastTrack"}
  BY VotingAssumption
<1> HIDE DEF p
<1>3. Sane(p, freed, now)
  BY <1>1, <1>2 DEF Sane, Unapproved, Voted
<1> QED
  BY <1>3 DEF p

\* What create_proposal appends.
LEMMA CreateIs ==
    ASSUME QueueInv, OnlyCreates
    PROVE  LET k == Len(proposals) + 1
           IN  /\ Ids' = Ids \cup {k} /\ k \notin Ids /\ k \in 1..MaxProposals
               /\ \A id \in Ids : proposals'[id] = proposals[id]
               /\ \E f \in Flows, n \in ActionLists : proposals'[k] = NewProposal(f, n)
<1>1. PICK f \in Flows, n \in ActionLists : proposals' = Append(proposals, NewProposal(f, n))
  BY DEF OnlyCreates
<1>2. /\ proposals \in Seq(Proposal) /\ Len(proposals) \in Nat /\ Ids = 1..Len(proposals)
      /\ MaxProposals \in Nat /\ Len(proposals) < MaxProposals
  BY StoredIs, VotingAssumption DEF StoredState, OnlyCreates
<1> DEFINE k == Len(proposals) + 1
           e == NewProposal(f, n)
<1>3. e \in Proposal
  BY NewIs, StoredIs
<1> HIDE DEF e
<1>4. /\ DOMAIN proposals' = 1..k /\ proposals'[k] = e
      /\ \A id \in 1..Len(proposals) : proposals'[id] = proposals[id]
  BY <1>1, <1>2, <1>3 DEF e
<1>5. 1..k = 1..Len(proposals) \cup {k} /\ k \notin 1..Len(proposals) /\ k \in 1..MaxProposals
  BY <1>2
<1> HIDE DEF k
<1>6. \E g \in Flows, i \in ActionLists : proposals'[k] = NewProposal(g, i)
  BY <1>4 DEF e
<1> QED
  BY <1>2, <1>4, <1>5, <1>6, Zenon DEF Ids, k

\* Every step keeps every proposal sane.
LEMMA SaneStep ==
    ASSUME QueueInv, AllSane, Shape
    PROVE  AllSane'
<1>1. /\ now \in Nat \ {0} /\ now \in Nat /\ \A x \in Ids : proposals[x] \in Proposal
      /\ \A x \in Ids : Sane(proposals[x], released[x], now)
  BY StoredIs DEF AllSane
<1> SUFFICES ASSUME NEW id \in Ids' PROVE Sane(proposals'[id], released'[id], now')
  BY DEF AllSane
<1>2. CASE OnlyAdvances
  <2>1. /\ id \in Ids /\ now' = now /\ released' = released
        /\ Advanced(proposals[id], proposals'[id])
    BY <1>2 DEF OnlyAdvances, Ids
  <2> QED
    BY <1>1, <2>1, SaneAdvanced
<1>3. CASE OnlyCreates
  <2>1. now' = now /\ released' = released
    BY <1>3 DEF OnlyCreates
  <2>2. CASE id \in Ids
    BY <1>1, <1>3, <2>1, <2>2, CreateIs
  <2>3. CASE id \notin Ids
    <3>1. PICK f \in Flows, n \in ActionLists : proposals'[id] = NewProposal(f, n)
      BY <1>3, <2>3, CreateIs
    <3> QED
      BY <1>1, <2>1, <3>1, SaneNew
  <2> QED
    BY <2>2, <2>3
<1>4. CASE OnlyTicks
  <2>1. id \in Ids /\ now' = now + 1 /\ proposals' = proposals /\ released' = released
    BY <1>4 DEF OnlyTicks, Ids
  <2> QED
    BY <1>1, <2>1, SaneLater
<1>5. CASE \E x \in Ids : \E m \in Proposal : EditOf(x, m) /\ Edits(x, m, proposals'[x])
  <2>1. PICK x \in Ids, m \in Proposal : EditOf(x, m) /\ Edits(x, m, proposals'[x])
    BY <1>5
  <2>2. now' = now /\ id \in Ids
    BY <2>1 DEF EditOf, Ids
  <2>3. CASE x = id
    BY <1>1, <2>1, <2>2, <2>3, SaneEdit
  <2>4. CASE x # id
    <3>1. Advanced(proposals[id], proposals'[id])
      BY <2>1, <2>2, <2>4 DEF EditOf
    <3>2. released'[id] = released[id]
      <4>1. /\ x \in 1..MaxProposals /\ id \in 1..MaxProposals
            /\ released \in [1..MaxProposals -> Nat]
        BY <2>2, StoredIs DEF QueueInv, VotingTypes, OtherTypes
      <4>2. released' = released \/ released' = [released EXCEPT ![x] = now]
        BY <2>1, Zenon DEF Edits, Approves, Rejects, Slashes, Claims, Vetoes, Waives,
             TakesSnapshot, Votes, Executes, Finishes
      <4> QED
        BY <2>4, <4>1, <4>2, Zenon
    <3> QED
      BY <1>1, <2>2, <3>1, <3>2, SaneAdvanced
  <2> QED
    BY <2>3, <2>4
<1> QED
  BY <1>2, <1>3, <1>4, <1>5 DEF Shape

\* The proposals are sane.
LEMMA SaneInvariance == Spec => []AllSane
<1>1. Init => AllSane
  BY DEF Init, AllSane, Ids
<1>2. QueueInv /\ AllSane /\ [Next]_vars => AllSane'
  BY StepIs, StutterIs, SaneStep DEF StepOk
<1> QED
  BY <1>1, <1>2, QueueInvariance, PTL DEF Spec

\* What the contract says of a voting that has ended agrees with the tally it
\* stores: no late vote or snapshot contradicts an outcome already announced,
\* and actions run only when the timelock is over or waived.
THEOREM OutcomesAgree == Spec => []OutcomeMatchesTally
<1>1. AllSane => OutcomeMatchesTally
  BY DEF AllSane, Sane, OutcomeMatchesTally, Voted
<1> QED
  BY <1>1, SaneInvariance, PTL

-----------------------------------------------------------------------------
(* Tallies. *)

\* What advancing the queue does not touch.
LEMMA AdvancedData ==
    ASSUME NEW p \in Proposal, NEW q, Advanced(p, q)
    PROVE  /\ q.flow = p.flow /\ q.actions = p.actions /\ q.approval = p.approval
           /\ q.snapshot = p.snapshot /\ q.tally = p.tally
           /\ q.total_votes = p.total_votes /\ q.bond = p.bond
<1>1. CASE q = p \/ q = update(p)
  BY <1>1, UpdateIs DEF SameData
<1>2. CASE \E start \in Nat \ {0} : q = update(activate(p, start))
  <2>1. PICK start \in Nat \ {0} : q = update(activate(p, start))
    BY <1>2
  <2> DEFINE a == activate(p, start)
  <2>2. /\ a \in Proposal /\ a.flow = p.flow /\ a.actions = p.actions
        /\ a.approval = p.approval /\ a.snapshot = p.snapshot /\ a.tally = p.tally
        /\ a.total_votes = p.total_votes /\ a.bond = p.bond
    BY ActivateIs
  <2> HIDE DEF a
  <2>3. SameData(a, q)
    BY <2>1, <2>2, UpdateIs DEF a
  <2> QED
    BY <2>2, <2>3 DEF SameData
<1> QED
  BY <1>1, <1>2 DEF Advanced

\* The veNEAR of two sets of accounts that differ in one account.
LEMMA WeightsChange ==
    ASSUME NEW version \in Versions, NEW S, NEW T, NEW x \in Voters,
           \A y \in Voters \ {x} : y \in S <=> y \in T
    PROVE  LET w == Weight[version][x]
           IN  /\ SumWeights(S, version) \in Int
               /\ SumWeights(T, version)
                    = (SumWeights(S, version) - (IF x \in S THEN w ELSE 0))
                        + (IF x \in T THEN w ELSE 0)
<1> DEFINE W == Weight[version]
           f == [v \in Voters |-> IF v \in S THEN W[v] ELSE 0]
           g == [v \in Voters |-> IF v \in T THEN W[v] ELSE 0]
<1>1. IsFiniteSet(Voters) /\ W \in [Voters -> Nat]
  BY VotingAssumption DEF Versions
<1>2. SumWeights(S, version) = SumFunction(f) /\ SumWeights(T, version) = SumFunction(g)
  BY Zenon DEF SumWeights
<1> HIDE DEF W
<1>3. f \in [Voters -> Nat] /\ f \in [Voters -> Int] /\ g \in [Voters -> Int]
      /\ f[x] = (IF x \in S THEN W[x] ELSE 0) /\ g[x] = (IF x \in T THEN W[x] ELSE 0)
      /\ \A y \in Voters \ {x} : f[y] = g[y]
  BY <1>1
<1> HIDE DEF f, g
<1>4. SumFunction(g) = (SumFunction(f) - f[x]) + g[x]
  BY <1>1, <1>3, SumChange
<1>5. SumFunction(f) \in Nat
  BY <1>1, <1>3, SumEntry
<1> QED
  BY <1>2, <1>3, <1>4, <1>5 DEF W

\* No accounts, no veNEAR.
LEMMA WeightsNone ==
    ASSUME NEW version \in Versions, NEW S, S = {}
    PROVE  SumWeights(S, version) = 0
<1> DEFINE f == [v \in Voters |-> IF v \in S THEN Weight[version][v] ELSE 0]
<1>1. IsFiniteSet(Voters)
  BY VotingAssumption
<1>2. f \in [Voters -> Int] /\ \A x \in Voters : f[x] = 0
  OBVIOUS
<1>3. SumWeights(S, version) = SumFunction(f)
  BY Zenon DEF SumWeights
<1> HIDE DEF f
<1> QED
  BY <1>1, <1>2, <1>3, SumZero

\* A vote moves the voter's veNEAR from the old option to the new one.
LEMMA TallyVote ==
    ASSUME NEW m \in Proposal, NEW w \in [Voters -> VoteOption \cup {"none"}],
           NEW b \in Ballots, NEW q, VoteWrites(m, w[b.voter], b, q),
           m.snapshot # 0, w[b.voter] # b.option, TallyOf(m, w)
    PROVE  TallyOf(q, [w EXCEPT ![b.voter] = b.option])
<1> DEFINE x == b.voter
           o == b.option
           old == w[x]
           v == [w EXCEPT ![x] = o]
           k == m.snapshot
           wt == Weight[k][x]
           minus == IF old = "none" THEN m.tally ELSE [m.tally EXCEPT ![old] = @ - wt]
           S(c) == {y \in Voters : w[y] = c}
           T(c) == {y \in Voters : v[y] = c}
           SA == {y \in Voters : w[y] \in VoteOption}
           TA == {y \in Voters : v[y] \in VoteOption}
<1>1. /\ x \in Voters /\ o \in VoteOption /\ old \in VoteOption \cup {"none"} /\ old # o
      /\ k \in Versions /\ m.tally \in [VoteOption -> Int] /\ m.total_votes \in Int
      /\ wt \in Nat /\ "none" \notin VoteOption
  <2>1. x \in Voters /\ o \in VoteOption /\ k \in Versions
    BY BallotIs, Zenon DEF Proposal
  <2>2. wt \in Nat
    BY <2>1, WeightIs
  <2> QED
    BY <2>1, <2>2 DEF Proposal, VoteOption
<1>2. /\ q.snapshot = k
      /\ q.tally = [minus EXCEPT ![o] = @ + wt]
      /\ q.total_votes = IF old = "none" THEN m.total_votes + wt ELSE m.total_votes
  BY Zenon DEF VoteWrites
<1>3. /\ m.total_votes = SumWeights(SA, k)
      /\ \A c \in VoteOption : m.tally[c] = SumWeights(S(c), k)
  BY DEF TallyOf
<1>4. /\ v \in [Voters -> VoteOption \cup {"none"}] /\ v[x] = o
      /\ \A y \in Voters \ {x} : v[y] = w[y]
  BY <1>1
<1> HIDE DEF wt, v, old, x, o, k
<1>5. q.total_votes = SumWeights(TA, k)
  <2>1. /\ \A y \in Voters \ {x} : y \in SA <=> y \in TA
        /\ x \in TA
        /\ x \in SA <=> old # "none"
    BY <1>1, <1>4 DEF old
  <2> HIDE DEF SA, TA
  <2>2. /\ SumWeights(SA, k) \in Int
        /\ SumWeights(TA, k) = (SumWeights(SA, k) - (IF x \in SA THEN wt ELSE 0))
                                 + (IF x \in TA THEN wt ELSE 0)
    BY <1>1, <2>1, WeightsChange DEF wt
  <2> QED
    BY <1>1, <1>2, <1>3, <2>1, <2>2
<1>6. ASSUME NEW c \in VoteOption PROVE q.tally[c] = SumWeights(T(c), k)
  <2> DEFINE A == S(c)
             B == T(c)
  <2>1. /\ \A y \in Voters \ {x} : y \in A <=> y \in B
        /\ x \in B <=> c = o
        /\ x \in A <=> c = old
    BY <1>1, <1>4 DEF old
  <2> HIDE DEF A, B
  <2>2. /\ SumWeights(A, k) \in Int
        /\ SumWeights(B, k) = (SumWeights(A, k) - (IF x \in A THEN wt ELSE 0))
                                 + (IF x \in B THEN wt ELSE 0)
    BY <1>1, <2>1, WeightsChange DEF wt
  <2>3. m.tally[c] = SumWeights(A, k)
    BY <1>3 DEF A
  <2>4. /\ minus \in [VoteOption -> Int]
        /\ minus[c] = IF c = old THEN m.tally[c] - wt ELSE m.tally[c]
    BY <1>1
  <2> HIDE DEF minus
  <2>5. q.tally[c] = IF c = o THEN minus[c] + wt ELSE minus[c]
    BY <1>1, <1>2, <2>4
  <2>6. q.tally[c] = SumWeights(B, k)
    BY <1>1, <2>1, <2>2, <2>3, <2>4, <2>5
  <2> QED
    BY <2>6 DEF B
<1>7. q.snapshot # 0
  BY <1>2 DEF k
<1> QED
  BY <1>2, <1>5, <1>6, <1>7, Zenon DEF TallyOf, v, x, o

\* The first snapshot finds no votes.
LEMMA TallySnapshot ==
    ASSUME NEW m \in Proposal, NEW w, NEW q, m.snapshot = 0, NEW version \in Versions,
           q.snapshot = version, q.tally = m.tally, q.total_votes = m.total_votes,
           TallyOf(m, w)
    PROVE  TallyOf(q, w)
<1>1. /\ w = [v \in Voters |-> "none"] /\ m.total_votes = 0
      /\ \A o \in VoteOption : m.tally[o] = 0
  BY DEF TallyOf
<1>2. version # 0
  BY VotingAssumption DEF Versions
<1>3. /\ {v \in Voters : w[v] \in VoteOption} = {}
      /\ \A o \in VoteOption : {v \in Voters : w[v] = o} = {}
  BY <1>1 DEF VoteOption
<1>4. /\ SumWeights({v \in Voters : w[v] \in VoteOption}, version) = 0
      /\ \A o \in VoteOption : SumWeights({v \in Voters : w[v] = o}, version) = 0
  BY <1>3, WeightsNone
<1> QED
  BY <1>1, <1>2, <1>4 DEF TallyOf

\* The tally reads no other field.
LEMMA TallySame ==
    ASSUME NEW p, NEW q, NEW w, q.snapshot = p.snapshot, q.tally = p.tally,
           q.total_votes = p.total_votes, TallyOf(p, w)
    PROVE  TallyOf(q, w)
BY Zenon DEF TallyOf

\* Every handler keeps the tally of the proposal it edits.
LEMMA TallyEdit ==
    ASSUME QueueInv, NEW id \in Ids, NEW m, NEW q, EditOf(id, m), Edits(id, m, q),
           TallyOf(proposals[id], votes[id])
    PROVE  /\ TallyOf(q, votes'[id])
           /\ \A x \in 1..MaxProposals : x # id => votes'[x] = votes[x]
<1>1. /\ now \in Nat \ {0} /\ proposals[id] \in Proposal /\ m \in Proposal
      /\ Advanced(proposals[id], m)
      /\ id \in 1..MaxProposals
      /\ votes \in [1..MaxProposals -> [Voters -> VoteOption \cup {"none"}]]
  BY StoredIs, Zenon DEF EditOf, QueueInv, VotingTypes, OtherTypes
<1>2. TallyOf(m, votes[id])
  BY <1>1, AdvancedData, TallySame
<1>3. CASE Votes(id, m, q)
  <2>1. PICK b \in Ballots :
          /\ m.snapshot # 0 /\ votes[id][b.voter] # b.option
          /\ q = Graduated(Counted(m, votes[id][b.voter], b))
          /\ votes' = [votes EXCEPT ![id][b.voter] = b.option]
    BY <1>3, Zenon DEF Votes
  <2>2. votes[id] \in [Voters -> VoteOption \cup {"none"}]
    BY <1>1
  <2>3. votes[id][b.voter] \in VoteOption \cup {"none"}
    BY <2>2, BallotIs
  <2>4. VoteWrites(m, votes[id][b.voter], b, q)
    BY <1>1, <2>1, <2>3, VoteIs, Zenon
  <2>5. TallyOf(q, [votes[id] EXCEPT ![b.voter] = b.option])
    BY <1>1, <1>2, <2>1, <2>2, <2>4, TallyVote, Zenon
  <2>6. /\ votes'[id] = [votes[id] EXCEPT ![b.voter] = b.option]
        /\ \A x \in 1..MaxProposals : x # id => votes'[x] = votes[x]
    BY <1>1, <2>1, Zenon
  <2> QED
    BY <2>5, <2>6
<1>4. CASE TakesSnapshot(m, q)
  <2>1. PICK version \in Versions : q = [m EXCEPT !.snapshot = version]
    BY <1>4 DEF TakesSnapshot
  <2>2. m.snapshot = 0 /\ votes' = votes
    BY <1>4 DEF TakesSnapshot, SnapshotFits
  <2>3. q.snapshot = version /\ q.tally = m.tally /\ q.total_votes = m.total_votes
    BY <1>1, <2>1, Zenon DEF Proposal
  <2> QED
    BY <1>1, <1>2, <2>2, <2>3, TallySnapshot
<1>5. CASE Approves(m, q)
  <2>1. PICK bps \in Nat :
          LET c == [m EXCEPT !.approval = now, !.bond = 0, !.approval_bps = bps]
          IN  q = activate(c, now) \/ q = [c EXCEPT !.status = "Queued"]
    BY <1>5, Zenon DEF Approves
  <2> DEFINE c == [m EXCEPT !.approval = now, !.bond = 0, !.approval_bps = bps]
  <2>2. /\ c \in Proposal /\ c.snapshot = m.snapshot /\ c.tally = m.tally
        /\ c.total_votes = m.total_votes
    BY <1>1, Zenon DEF Proposal
  <2>3. q = activate(c, now) \/ q = [c EXCEPT !.status = "Queued"]
    BY <2>1
  <2> HIDE DEF c
  <2>4. q.snapshot = c.snapshot /\ q.tally = c.tally /\ q.total_votes = c.total_votes
    <3>1. CASE q = activate(c, now)
      BY <1>1, <2>2, <3>1, ActivateIs, Zenon
    <3>2. CASE q = [c EXCEPT !.status = "Queued"]
      BY <2>2, <3>2, Zenon DEF Proposal
    <3> QED
      BY <2>3, <3>1, <3>2
  <2>5. votes' = votes
    BY <1>5 DEF Approves
  <2> QED
    BY <1>2, <2>2, <2>4, <2>5, TallySame
<1>6. CASE /\ \/ Rejects(m, q) \/ Slashes(m, q) \/ Claims(m, q) \/ Vetoes(id, m, q)
              \/ Waives(id, m, q) \/ Executes(m, q) \/ Finishes(m, q)
  <2>1. /\ votes' = votes
        /\ \/ \E st : q = [m EXCEPT !.status = st]
           \/ \E st : q = [m EXCEPT !.status = st, !.bond = 0]
           \/ q = [m EXCEPT !.bond = 0]
    BY <1>6, Zenon DEF Rejects, Slashes, Claims, Vetoes, Waives, Executes, Finishes
  <2>2. q.snapshot = m.snapshot /\ q.tally = m.tally /\ q.total_votes = m.total_votes
    BY <1>1, <2>1, Zenon DEF Proposal
  <2> QED
    BY <1>2, <2>1, <2>2, TallySame, Zenon
<1> QED
  BY <1>3, <1>4, <1>5, <1>6, Zenon DEF Edits

\* Every step keeps all tallies.
LEMMA TallyStep ==
    ASSUME QueueInv, AllTallies, Shape
    PROVE  AllTallies'
<1> DEFINE none == [v \in Voters |-> "none"]
<1>1. /\ \A x \in Ids : proposals[x] \in Proposal
      /\ \A x \in Ids : TallyOf(proposals[x], votes[x])
      /\ \A x \in 1..MaxProposals : x \notin Ids => votes[x] = none
      /\ Ids \subseteq 1..MaxProposals
  BY StoredIs DEF AllTallies
<1>2. ASSUME NEW x \in Ids, Advanced(proposals[x], proposals'[x]), votes'[x] = votes[x]
      PROVE  TallyOf(proposals'[x], votes'[x])
  <2>1. /\ proposals'[x].snapshot = proposals[x].snapshot
        /\ proposals'[x].tally = proposals[x].tally
        /\ proposals'[x].total_votes = proposals[x].total_votes
    BY <1>1, <1>2, AdvancedData
  <2> QED
    BY <1>1, <1>2, <2>1, TallySame
<1> HIDE DEF none
<1> SUFFICES /\ \A x \in Ids' : TallyOf(proposals'[x], votes'[x])
             /\ \A x \in 1..MaxProposals : x \notin Ids' => votes'[x] = none
  BY Zenon DEF AllTallies, none, TallyOf, SumWeights, VoteOption
<1>3. CASE OnlyAdvances
  BY <1>1, <1>2, <1>3, Zenon DEF OnlyAdvances, Ids
<1>4. CASE OnlyCreates
  <2> DEFINE k == Len(proposals) + 1
  <2>1. /\ Ids' = Ids \cup {k} /\ k \notin Ids /\ k \in 1..MaxProposals
        /\ \A x \in Ids : proposals'[x] = proposals[x]
        /\ \E f \in Flows, n \in ActionLists : proposals'[k] = NewProposal(f, n)
    BY <1>4, CreateIs
  <2> HIDE DEF k
  <2>2. votes' = votes
    BY <1>4 DEF OnlyCreates
  <2>3. /\ proposals'[k].snapshot = 0 /\ proposals'[k].total_votes = 0
        /\ \A o \in VoteOption : proposals'[k].tally[o] = 0
    <3>1. PICK f \in Flows, n \in ActionLists : proposals'[k] = NewProposal(f, n)
      BY <2>1
    <3>2. /\ NewProposal(f, n).snapshot = 0 /\ NewProposal(f, n).total_votes = 0
          /\ NewProposal(f, n).tally = [o \in VoteOption |-> 0]
      BY Zenon DEF NewProposal
    <3> QED
      BY <3>1, <3>2
  <2>4. TallyOf(proposals'[k], votes'[k])
    BY <1>1, <2>1, <2>2, <2>3, Zenon DEF TallyOf, none
  <2> QED
    BY <1>1, <2>1, <2>2, <2>4, Zenon
<1>5. CASE OnlyTicks
  BY <1>1, <1>5, Zenon DEF OnlyTicks, Ids
<1>6. CASE \E x \in Ids : \E m \in Proposal : EditOf(x, m) /\ Edits(x, m, proposals'[x])
  <2>1. PICK x \in Ids, m \in Proposal : EditOf(x, m) /\ Edits(x, m, proposals'[x])
    BY <1>6
  <2>2. /\ TallyOf(proposals'[x], votes'[x])
        /\ \A y \in 1..MaxProposals : y # x => votes'[y] = votes[y]
    BY <1>1, <2>1, TallyEdit
  <2>3. Ids' = Ids /\ \A y \in Ids \ {x} : Advanced(proposals[y], proposals'[y])
    BY <2>1 DEF EditOf, Ids
  <2>4. \A y \in Ids : TallyOf(proposals'[y], votes'[y])
    <3> SUFFICES ASSUME NEW y \in Ids, y # x PROVE TallyOf(proposals'[y], votes'[y])
      BY <2>2
    <3> QED
      BY <1>1, <1>2, <2>2, <2>3
  <2> QED
    BY <1>1, <2>2, <2>3, <2>4, Zenon
<1> QED
  BY <1>3, <1>4, <1>5, <1>6 DEF Shape

\* The tallies are those of the votes.
LEMMA TallyInvariance == Spec => []AllTallies
<1>1. Init => AllTallies
  BY DEF Init, AllTallies, Ids
<1>2. QueueInv /\ AllTallies /\ [Next]_vars => AllTallies'
  BY StepIs, StutterIs, TallyStep DEF StepOk
<1> QED
  BY <1>1, <1>2, QueueInvariance, PTL DEF Spec

\* A tally is the veNEAR, at the proposal's one snapshot, of the accounts whose
\* recorded vote it counts: no vote is counted twice, lost, or counted with the
\* balance of another snapshot.
THEOREM TalliesAreVotes == Spec => []TallyIsVotes
<1>1. AllTallies => TallyIsVotes
  <2> SUFFICES ASSUME AllTallies, NEW id \in Ids
               PROVE  LET p == proposals[id]
                          By(S) == {v \in Voters : votes[id][v] \in S}
                      IN  IF p.snapshot = 0
                          THEN By(VoteOption) = {} /\ p.total_votes = 0
                          ELSE /\ p.total_votes = SumWeights(By(VoteOption), p.snapshot)
                               /\ \A o \in VoteOption :
                                     p.tally[o] = SumWeights(By({o}), p.snapshot)
    BY Zenon DEF TallyIsVotes
  <2> DEFINE p == proposals[id]
             w == votes[id]
  <2>1. TallyOf(p, w)
    BY DEF AllTallies
  <2> HIDE DEF p, w
  <2>2. \A o : {v \in Voters : w[v] \in {o}} = {v \in Voters : w[v] = o}
    OBVIOUS
  <2>3. p.snapshot = 0 => {v \in Voters : w[v] \in VoteOption} = {}
    BY <2>1 DEF TallyOf, VoteOption
  <2>4. IF p.snapshot = 0
        THEN {v \in Voters : w[v] \in VoteOption} = {} /\ p.total_votes = 0
        ELSE /\ p.total_votes = SumWeights({v \in Voters : w[v] \in VoteOption}, p.snapshot)
             /\ \A o \in VoteOption :
                   p.tally[o] = SumWeights({v \in Voters : w[v] \in {o}}, p.snapshot)
    BY <2>1, <2>2, <2>3, Zenon DEF TallyOf
  <2> QED
    BY <2>4, Zenon DEF p, w
<1> QED
  BY <1>1, TallyInvariance, PTL

-----------------------------------------------------------------------------
(* Bonds. *)

\* Advancing the queue moves no bond: a proposal that expires still has its own.
LEMMA AdvancedBond ==
    ASSUME NEW p \in Proposal, NEW q, NEW freed, now \in Nat, Sane(p, freed, now),
           Advanced(p, q)
    PROVE  q.flow = p.flow /\ q.bond = p.bond /\ Returned(q) = Returned(p)
<1>1. q.flow = p.flow /\ q.bond = p.bond
  BY AdvancedData
<1>2. CASE q = p
  BY <1>2
<1>3. CASE q = update(p)
  <2>1. q.status = updated_status(p, now) /\ p.status \in Status
    BY <1>3, UpdateIs DEF Proposal
  <2>2. \/ q.status = p.status
        \/ p.status = "Created" /\ q.status = "Expired"
        \/ p.status \notin {"Expired", "Rejected"} /\ q.status \notin {"Expired", "Rejected"}
    BY <2>1, StatusStep DEF Status
  <2>3. bond_amount - bond_amount = 0
    BY VotingAssumption
  <2> QED
    BY <1>1, <2>2, <2>3 DEF Returned, Sane
<1>4. CASE p.status = "Queued" /\ \E start \in Nat \ {0} : q = update(activate(p, start))
  <2>1. PICK start \in Nat \ {0} : q = update(activate(p, start))
    BY <1>4
  <2> DEFINE a == activate(p, start)
  <2>2. a \in Proposal /\ a.status \in {"Voting", "Sandbox"}
    BY ActivateIs
  <2>3. q = update(a)
    BY <2>1
  <2> HIDE DEF a
  <2>4. q.status = updated_status(a, now)
    BY <2>2, <2>3, UpdateIs
  <2>5. q.status \notin {"Expired", "Rejected"}
    BY <2>2, <2>4, StatusStep
  <2> QED
    BY <1>1, <1>4, <2>5 DEF Returned
<1> QED
  BY <1>1, <1>2, <1>3, <1>4 DEF Advanced

\* dt of a bond goes to the treasury and dp back to the proposer.
BondMoves(p, q, dt, dp) ==
    /\ paid'.treasury = paid.treasury + dt /\ paid'.proposer = paid.proposer + dp
    /\ q.flow = p.flow /\ q.bond \in Nat /\ p.bond \in Nat
    /\ q.bond + dt + dp = p.bond
    /\ Returned(q) = Returned(p) + dp

\* What a handler pays out is what the proposal loses; only claim_bond gives
\* it back.
LEMMA BondEdit ==
    ASSUME QueueInv, NEW id \in Ids, NEW m, NEW q, EditOf(id, m), Edits(id, m, q),
           Sane(proposals[id], released[id], now)
    PROVE  \E dt, dp \in Nat : BondMoves(proposals[id], q, dt, dp)
<1> DEFINE p == proposals[id]
<1>1. /\ now \in Nat \ {0} /\ now \in Nat /\ p \in Proposal /\ m \in Proposal /\ Advanced(p, m)
      /\ id \in 1..MaxProposals
      /\ paid \in [treasury: Nat, proposer: Nat] /\ bond_amount \in Nat
  BY StoredIs, VotingAssumption, Zenon DEF EditOf, QueueInv, VotingTypes, OtherTypes
<1>2. /\ m.flow = p.flow /\ m.bond = p.bond /\ Returned(m) = Returned(p)
      /\ Sane(m, released[id], now)
  BY <1>1, AdvancedBond, SaneAdvanced
<1>3. m.bond \in Nat /\ paid.treasury \in Nat /\ paid.proposer \in Nat
  BY <1>1 DEF Proposal
<1> HIDE DEF p
<1> SUFFICES \E dt, dp \in Nat : BondMoves(m, q, dt, dp)
  BY <1>2, Zenon DEF BondMoves, p
<1>4. CASE Approves(m, q) \/ Slashes(m, q)
  <2>1. /\ q.flow = m.flow /\ q.bond = 0 /\ q.status \notin {"Expired", "Rejected"}
        /\ m.status = "Created" /\ paid' = [paid EXCEPT !.treasury = @ + m.bond]
    <3>1. CASE Slashes(m, q)
      BY <1>1, <3>1 DEF Slashes, Proposal
    <3>2. CASE Approves(m, q)
      <4>1. PICK bps \in Nat :
              LET c == [m EXCEPT !.approval = now, !.bond = 0, !.approval_bps = bps]
              IN  q = activate(c, now) \/ q = [c EXCEPT !.status = "Queued"]
        BY <3>2, Zenon DEF Approves
      <4> DEFINE c == [m EXCEPT !.approval = now, !.bond = 0, !.approval_bps = bps]
      <4>2. c \in Proposal /\ c.flow = m.flow /\ c.bond = 0
        BY <1>1, Zenon DEF Proposal
      <4>3. q = activate(c, now) \/ q = [c EXCEPT !.status = "Queued"]
        BY <4>1
      <4> HIDE DEF c
      <4>4. q.flow = c.flow /\ q.bond = c.bond /\ q.status \in {"Voting", "Sandbox", "Queued"}
        <5>1. CASE q = activate(c, now)
          <6>1. /\ activate(c, now).flow = c.flow /\ activate(c, now).bond = c.bond
                /\ activate(c, now).status \in {"Voting", "Sandbox"}
            <7>1. now \in Nat /\ c \in Proposal
              BY <1>1, <4>2
            <7> QED
              BY <7>1, ActivateIs, Zenon
          <6> QED
            BY <5>1, <6>1
        <5>2. CASE q = [c EXCEPT !.status = "Queued"]
          <6>1. q.flow = c.flow /\ q.bond = c.bond
            BY <4>2, <5>2, Zenon DEF Proposal
          <6>2. q.status = "Queued"
            BY <4>2, <5>2 DEF Proposal
          <6> QED
            BY <6>1, <6>2
        <5> QED
          BY <4>3, <5>1, <5>2
      <4> QED
        BY <3>2, <4>2, <4>4 DEF Approves
    <3> QED
      BY <1>4, <3>1, <3>2
  <2>2. Returned(q) = 0 /\ Returned(m) = 0
    BY <2>1 DEF Returned
  <2>3. BondMoves(m, q, m.bond, 0)
    BY <1>1, <1>3, <2>1, <2>2 DEF BondMoves
  <2> QED
    BY <1>3, <2>3
<1>5. CASE Claims(m, q)
  <2>1. /\ q.flow = m.flow /\ q.bond = 0 /\ q.status = m.status
        /\ m.status \in {"Expired", "Rejected"} /\ m.flow = "FastTrack"
        /\ paid' = [paid EXCEPT !.proposer = @ + m.bond]
    BY <1>1, <1>5 DEF Claims, Proposal
  <2>2. Returned(q) = bond_amount - 0 /\ Returned(m) = bond_amount - m.bond
    BY <2>1 DEF Returned
  <2>3. Returned(q) = Returned(m) + m.bond
    BY <1>1, <1>3, <2>2
  <2>4. BondMoves(m, q, 0, m.bond)
    BY <1>1, <1>3, <2>1, <2>3 DEF BondMoves
  <2> QED
    BY <1>3, <2>4, Zenon
<1>6. CASE Rejects(m, q)
  <2>1. /\ q.flow = m.flow /\ q.bond = m.bond /\ q.status = "Rejected"
        /\ m.status = "Created" /\ paid' = paid
    BY <1>1, <1>6 DEF Rejects, Proposal
  <2>2. Returned(m) = 0
    BY <2>1 DEF Returned
  <2>a. m.flow = "FastTrack" => m.bond = bond_amount
    BY <1>2, <2>1, Zenon DEF Sane
  <2>b. Returned(q) = 0
    BY <1>1, <2>1, <2>a DEF Returned
  <2>3. BondMoves(m, q, 0, 0)
    BY <1>1, <1>3, <2>1, <2>2, <2>b DEF BondMoves
  <2> QED
    BY <2>3
<1>7. CASE \/ Vetoes(id, m, q) \/ Waives(id, m, q) \/ TakesSnapshot(m, q) \/ Votes(id, m, q)
           \/ Executes(m, q) \/ Finishes(m, q)
  <2>1. /\ q.flow = m.flow /\ q.bond = m.bond /\ paid' = paid
        /\ m.status \notin {"Expired", "Rejected"} /\ q.status \notin {"Expired", "Rejected"}
    <3>1. CASE Vetoes(id, m, q)
      BY <1>1, <3>1 DEF Vetoes, Proposal
    <3>2. CASE Waives(id, m, q)
      BY <1>1, <3>2 DEF Waives, Passed, Proposal
    <3>3. CASE TakesSnapshot(m, q)
      BY <1>1, <3>3 DEF TakesSnapshot, SnapshotFits, Proposal
    <3>4. CASE Executes(m, q) \/ Finishes(m, q)
      BY <1>1, <3>4 DEF Executes, Finishes, Proposal
    <3>5. CASE Votes(id, m, q)
      <4>1. PICK b \in Ballots :
              /\ m.status = "Voting" \/ (m.status = "Sandbox" /\ b.option = "For")
              /\ m.snapshot # 0
              /\ q = Graduated(Counted(m, votes[id][b.voter], b))
        BY <3>5 DEF Votes
      <4>2. votes[id][b.voter] \in VoteOption \cup {"none"}
        BY <1>1, BallotIs DEF QueueInv, VotingTypes, OtherTypes
      <4>3. VoteWrites(m, votes[id][b.voter], b, q)
        BY <1>1, <4>1, <4>2, VoteIs, Zenon
      <4>4. /\ q.flow = m.flow /\ q.bond = m.bond
            /\ q.status = m.status \/ q.status = "Scheduled"
        BY <4>3, Zenon DEF VoteWrites
      <4> QED
        BY <3>5, <4>1, <4>4 DEF Votes
    <3> QED
      BY <1>7, <3>1, <3>2, <3>3, <3>4, <3>5, Zenon
  <2>2. Returned(q) = 0 /\ Returned(m) = 0
    BY <2>1, Zenon DEF Returned
  <2>3. BondMoves(m, q, 0, 0)
    BY <1>1, <1>3, <2>1, <2>2 DEF BondMoves
  <2> QED
    BY <2>3
<1> QED
  BY <1>4, <1>5, <1>6, <1>7, Zenon DEF Edits

\* The ids are finitely many, and a bond and what was returned of it are numbers.
LEMMA BondNumbers ==
    ASSUME QueueInv, AllSane
    PROVE  /\ IsFiniteSet(Ids) /\ bond_amount \in Nat
           /\ \A x \in Ids : /\ proposals[x].bond \in Nat /\ Returned(proposals[x]) \in Nat
                             /\ Deposit(proposals[x]) \in Nat
           /\ paid.treasury \in Nat /\ paid.proposer \in Nat
<1>1. IsFiniteSet(Ids)
  <2>1. Ids = 1..Len(proposals) /\ 1 \in Int /\ Len(proposals) \in Int
    BY StoredIs
  <2> QED
    BY <2>1, FinUpTo
<1>2. bond_amount \in Nat /\ paid.treasury \in Nat /\ paid.proposer \in Nat
  BY VotingAssumption DEF QueueInv, VotingTypes, OtherTypes
<1>3. ASSUME NEW x \in Ids
      PROVE  /\ proposals[x].bond \in Nat /\ Returned(proposals[x]) \in Nat
             /\ Deposit(proposals[x]) \in Nat
  <2>1. proposals[x] \in Proposal /\ Sane(proposals[x], released[x], now)
    BY StoredIs DEF AllSane
  <2>2. proposals[x].bond \in Nat
    BY <2>1 DEF Proposal
  <2>3. proposals[x].bond <= bond_amount
    BY <2>1 DEF Sane
  <2>4. bond_amount - proposals[x].bond \in Nat
    BY <1>2, <2>2, <2>3
  <2> QED
    BY <1>2, <2>2, <2>4 DEF Returned, Deposit
<1> QED
  BY <1>1, <1>2, <1>3

\* The ledger when one bond moves.
LEMMA LedgerMoves ==
    ASSUME QueueInv, AllSane, BondLedger, Ids' = Ids, NEW x \in Ids, NEW dt \in Nat,
           NEW dp \in Nat, BondMoves(proposals[x], proposals'[x], dt, dp),
           \A y \in Ids \ {x} : /\ proposals'[y].flow = proposals[y].flow
                                /\ proposals'[y].bond = proposals[y].bond
                                /\ Returned(proposals'[y]) = Returned(proposals[y])
    PROVE  BondLedger'
<1> DEFINE b == [id \in Ids |-> proposals[id].bond]
           c == [id \in Ids |-> proposals'[id].bond]
           d == [id \in Ids |-> Deposit(proposals[id])]
           e == [id \in Ids |-> Deposit(proposals'[id])]
           f == [id \in Ids |-> Returned(proposals[id])]
           g == [id \in Ids |-> Returned(proposals'[id])]
<1>1. /\ IsFiniteSet(Ids) /\ paid.treasury \in Nat /\ paid.proposer \in Nat
      /\ \A y \in Ids : proposals[y].bond \in Nat /\ Returned(proposals[y]) \in Nat
  BY BondNumbers
<1>2. /\ paid'.treasury = paid.treasury + dt /\ paid'.proposer = paid.proposer + dp
      /\ proposals'[x].flow = proposals[x].flow /\ proposals'[x].bond \in Nat
      /\ proposals'[x].bond + dt + dp = proposals[x].bond
      /\ Returned(proposals'[x]) = Returned(proposals[x]) + dp
  BY DEF BondMoves
<1>3. e = d
  BY <1>2, Zenon DEF Deposit
<1>4. /\ b \in [Ids -> Int] /\ c \in [Ids -> Int] /\ \A y \in Ids \ {x} : b[y] = c[y]
      /\ b \in [Ids -> Nat] /\ b[x] = proposals[x].bond /\ c[x] = proposals'[x].bond
  BY <1>1, <1>2, SMTT(30)
<1>5. /\ f \in [Ids -> Int] /\ g \in [Ids -> Int] /\ \A y \in Ids \ {x} : f[y] = g[y]
      /\ f \in [Ids -> Nat] /\ f[x] = Returned(proposals[x]) /\ g[x] = Returned(proposals'[x])
  <2>1. \A y \in Ids : Returned(proposals'[y]) \in Nat
    <3>1. Returned(proposals'[x]) \in Nat
      BY <1>1, <1>2
    <3> QED
      BY <1>1, <3>1, Zenon
  <2> QED
    BY <1>1, <2>1, SMTT(30)
<1>6. /\ paid.treasury + paid.proposer + SumFunction(b) = SumFunction(d)
      /\ paid.proposer = SumFunction(f)
  BY Zenon DEF BondLedger
<1> SUFFICES /\ paid'.treasury + paid'.proposer + SumFunction(c) = SumFunction(e)
             /\ paid'.proposer = SumFunction(g)
  BY Zenon DEF BondLedger, Deposit, Returned
<1> HIDE DEF b, c, d, e, f, g
<1>7. SumFunction(c) = (SumFunction(b) - b[x]) + c[x] /\ SumFunction(b) \in Nat
  <2>1. SumFunction(b) \in Nat
    BY <1>1, <1>4, SumEntry
  <2>2. SumFunction(c) = (SumFunction(b) - b[x]) + c[x]
    BY <1>1, <1>4, SumChange, SMTT(30)
  <2> QED
    BY <2>1, <2>2
<1>8. SumFunction(g) = (SumFunction(f) - f[x]) + g[x] /\ SumFunction(f) \in Nat
  <2>1. SumFunction(f) \in Nat
    BY <1>1, <1>5, SumEntry
  <2>2. SumFunction(g) = (SumFunction(f) - f[x]) + g[x]
    BY <1>1, <1>5, SumChange, SMTT(30)
  <2> QED
    BY <2>1, <2>2
<1>9. Returned(proposals[x]) \in Nat /\ proposals[x].bond \in Nat
  BY <1>1
<1>10. /\ c[x] + dt + dp = b[x] /\ g[x] = f[x] + dp /\ f[x] \in Nat /\ b[x] \in Nat
       /\ c[x] \in Nat
  BY <1>2, <1>4, <1>5, <1>9, Zenon
<1>11. paid'.proposer = SumFunction(g)
  <2>1. paid'.proposer = SumFunction(f) + dp
    BY <1>2, <1>6, Zenon
  <2> QED
    BY <1>8, <1>10, <2>1
<1>12. paid'.treasury + paid'.proposer + SumFunction(c) = SumFunction(d)
  <2>1. /\ paid'.treasury = paid.treasury + dt /\ paid'.proposer = paid.proposer + dp
        /\ paid.treasury \in Nat /\ paid.proposer \in Nat
    BY <1>1, <1>2, Zenon
  <2> QED
    BY <1>6, <1>7, <1>10, <2>1
<1> QED
  BY <1>3, <1>11, <1>12

\* The ledger when a proposal is created: its bond is a deposit.
LEMMA LedgerGrows ==
    ASSUME QueueInv, AllSane, BondLedger, OnlyCreates
    PROVE  BondLedger'
<1> DEFINE k == Len(proposals) + 1
           new == proposals'[k]
           b == [id \in Ids |-> proposals[id].bond]
           c == [id \in Ids' |-> proposals'[id].bond]
           d == [id \in Ids |-> Deposit(proposals[id])]
           e == [id \in Ids' |-> Deposit(proposals'[id])]
           f == [id \in Ids |-> Returned(proposals[id])]
           g == [id \in Ids' |-> Returned(proposals'[id])]
<1>1. /\ Ids' = Ids \cup {k} /\ k \notin Ids
      /\ \A id \in Ids : proposals'[id] = proposals[id]
      /\ \E i \in Flows, n \in ActionLists : new = NewProposal(i, n)
  BY CreateIs
<1>2. /\ IsFiniteSet(Ids) /\ bond_amount \in Nat
      /\ \A x \in Ids : /\ proposals[x].bond \in Nat /\ Returned(proposals[x]) \in Nat
                        /\ Deposit(proposals[x]) \in Nat
      /\ paid.treasury \in Nat /\ paid.proposer \in Nat
  BY BondNumbers
<1> HIDE DEF k, new
<1>3. new.bond = Deposit(new) /\ Returned(new) = 0 /\ new.bond \in Nat
  <2>1. PICK i \in Flows, n \in ActionLists : new = NewProposal(i, n)
    BY <1>1
  <2>2. /\ NewProposal(i, n).flow = i /\ NewProposal(i, n).status = "Created"
        /\ NewProposal(i, n).bond = IF i = "FastTrack" THEN bond_amount ELSE 0
    BY Zenon DEF NewProposal
  <2>3. new.flow = i /\ new.status = "Created"
        /\ new.bond = IF i = "FastTrack" THEN bond_amount ELSE 0
    BY <2>1, <2>2, Zenon
  <2> QED
    BY <1>2, <2>3 DEF Deposit, Returned
<1>4. /\ OneMore(c, b, k, Ids) /\ OneMore(e, d, k, Ids) /\ OneMore(g, f, k, Ids)
      /\ c[k] = new.bond /\ e[k] = Deposit(new) /\ g[k] = 0
  <2>1. \A x \in Ids' : /\ proposals'[x].bond \in Nat /\ Returned(proposals'[x]) \in Nat
                        /\ Deposit(proposals'[x]) \in Nat
    BY <1>1, <1>2, <1>3 DEF new
  <2>2. OneMore(c, b, k, Ids) /\ c[k] = new.bond
    BY <1>1, <1>2, <2>1 DEF OneMore, new
  <2>3. OneMore(e, d, k, Ids) /\ e[k] = Deposit(new)
    BY <1>1, <1>2, <2>1, SMTT(30) DEF OneMore, new
  <2>4. OneMore(g, f, k, Ids) /\ g[k] = 0
    BY <1>1, <1>2, <1>3, <2>1 DEF OneMore, new
  <2> QED
    BY <2>2, <2>3, <2>4, Zenon
<1>5. /\ paid.treasury + paid.proposer + SumFunction(b) = SumFunction(d)
      /\ paid.proposer = SumFunction(f)
  BY DEF BondLedger
<1> SUFFICES /\ paid'.treasury + paid'.proposer + SumFunction(c) = SumFunction(e)
             /\ paid'.proposer = SumFunction(g)
  BY Zenon DEF BondLedger, Deposit, Returned
<1>6. b \in [Ids -> Nat]
  BY <1>2
<1> HIDE DEF b, c, d, e, f, g
<1>7. /\ SumFunction(c) = SumFunction(b) + new.bond
      /\ SumFunction(e) = SumFunction(d) + Deposit(new)
      /\ SumFunction(g) = SumFunction(f) + 0
  BY <1>4, SumExtend
<1>8. SumFunction(b) \in Nat
  <2>1. CASE Ids = {}
    <3>1. b \in [{} -> Int] /\ \A x \in {} : b[x] = 0
      BY <1>6, <2>1
    <3>2. SumFunction(b) = 0
      BY <3>1, SumZero, FiniteEmpty, Zenon
    <3> QED
      BY <3>2
  <2>2. CASE Ids # {}
    <3>1. PICK x \in Ids : TRUE
      BY <2>2
    <3> QED
      BY <1>2, <1>6, SumEntry
  <2> QED
    BY <2>1, <2>2
<1>9. paid' = paid
  BY DEF OnlyCreates
<1> QED
  BY <1>2, <1>3, <1>5, <1>7, <1>8, <1>9

\* Every step keeps the ledger.
LEMMA LedgerStep ==
    ASSUME QueueInv, AllSane, BondLedger, Shape
    PROVE  BondLedger'
<1>1. /\ now \in Nat /\ \A x \in Ids : proposals[x] \in Proposal
      /\ \A x \in Ids : Sane(proposals[x], released[x], now)
  BY StoredIs DEF AllSane
<1>2. CASE OnlyAdvances
  <2>1. Ids' = Ids /\ paid' = paid /\ \A x \in Ids : Advanced(proposals[x], proposals'[x])
    BY <1>2 DEF OnlyAdvances, Ids
  <2>2. \A x \in Ids : /\ proposals'[x].flow = proposals[x].flow
                       /\ proposals'[x].bond = proposals[x].bond
                       /\ Returned(proposals'[x]) = Returned(proposals[x])
    BY <1>1, <2>1, AdvancedBond
  <2>3. /\ [id \in Ids |-> proposals'[id].bond] = [id \in Ids |-> proposals[id].bond]
        /\ [id \in Ids |-> Deposit(proposals'[id])] = [id \in Ids |-> Deposit(proposals[id])]
        /\ [id \in Ids |-> Returned(proposals'[id])] = [id \in Ids |-> Returned(proposals[id])]
    BY <2>2, Zenon DEF Deposit
  <2>4. /\ paid'.treasury + paid'.proposer + SumFunction([id \in Ids |-> proposals'[id].bond])
             = SumFunction([id \in Ids |-> Deposit(proposals'[id])])
        /\ paid'.proposer = SumFunction([id \in Ids |-> Returned(proposals'[id])])
    BY <2>1, <2>3, Zenon DEF BondLedger
  <2> QED
    BY <2>1, <2>4, Zenon DEF BondLedger, Deposit, Returned
<1>3. CASE OnlyCreates
  BY <1>3, LedgerGrows
<1>4. CASE OnlyTicks
  BY <1>4, Zenon DEF OnlyTicks, BondLedger, Ids, Deposit, Returned
<1>5. CASE \E x \in Ids : \E m \in Proposal : EditOf(x, m) /\ Edits(x, m, proposals'[x])
  <2>1. PICK x \in Ids, m \in Proposal : EditOf(x, m) /\ Edits(x, m, proposals'[x])
    BY <1>5
  <2>2. Ids' = Ids /\ \A y \in Ids \ {x} : Advanced(proposals[y], proposals'[y])
    BY <2>1 DEF EditOf, Ids
  <2>3. PICK dt \in Nat, dp \in Nat : BondMoves(proposals[x], proposals'[x], dt, dp)
    BY <1>1, <2>1, BondEdit
  <2>4. \A y \in Ids \ {x} : /\ proposals'[y].flow = proposals[y].flow
                             /\ proposals'[y].bond = proposals[y].bond
                             /\ Returned(proposals'[y]) = Returned(proposals[y])
    BY <1>1, <2>2, AdvancedBond
  <2> QED
    BY <2>2, <2>3, <2>4, LedgerMoves
<1> QED
  BY <1>2, <1>3, <1>4, <1>5 DEF Shape

\* The ledger of the bonds.
LEMMA LedgerInvariance == Spec => []BondLedger
<1>1. Init => BondLedger
  <2> SUFFICES ASSUME Init PROVE BondLedger
    OBVIOUS
  <2>1. Ids = {} /\ paid = [treasury |-> 0, proposer |-> 0]
    BY DEF Init, Ids
  <2>2. ASSUME NEW w \in [{} -> Int] PROVE SumFunction(w) = 0
    BY SumZero, FiniteEmpty, Zenon
  <2> DEFINE b == [id \in {} |-> proposals[id].bond]
             d == [id \in {} |-> Deposit(proposals[id])]
             f == [id \in {} |-> Returned(proposals[id])]
  <2>3. b \in [{} -> Int] /\ d \in [{} -> Int] /\ f \in [{} -> Int]
    OBVIOUS
  <2> HIDE DEF b, d, f
  <2>4. SumFunction(b) = 0 /\ SumFunction(d) = 0 /\ SumFunction(f) = 0
    BY <2>2, <2>3, Zenon
  <2>5. /\ paid.treasury + paid.proposer + SumFunction(b) = SumFunction(d)
        /\ paid.proposer = SumFunction(f)
    BY <2>1, <2>4
  <2> QED
    BY <2>1, <2>5, Zenon DEF BondLedger, b, d, f
<1>2. QueueInv /\ AllSane /\ BondLedger /\ [Next]_vars => BondLedger'
  BY StepIs, StutterIs, LedgerStep DEF StepOk
<1> QED
  BY <1>1, <1>2, QueueInvariance, SaneInvariance, PTL DEF Spec

\* Every bond is on its proposal or was paid out once, to the treasury or back
\* to the proposer, and only a proposal that was never approved gave it back.
THEOREM BondsPaidOnce == Spec => []BondOnce
<1>1. QueueInv /\ AllSane /\ BondLedger => BondOnce
  <2> SUFFICES ASSUME QueueInv, AllSane, BondLedger PROVE BondOnce
    OBVIOUS
  <2> DEFINE f == [id \in Ids |-> Returned(proposals[id])]
             h == [id \in Ids |-> IF proposals[id].status \in {"Created", "Expired", "Rejected"}
                                  THEN bond_amount ELSE 0]
  <2>1. /\ IsFiniteSet(Ids) /\ bond_amount \in Nat
        /\ \A x \in Ids : proposals[x].bond \in Nat /\ Returned(proposals[x]) \in Nat
    BY BondNumbers
  <2>2. \A x \in Ids : f[x] \in Int /\ h[x] \in Int /\ f[x] <= h[x]
    BY <2>1 DEF Returned
  <2>3. paid.proposer = SumFunction(f)
    BY DEF BondLedger
  <2>4. SumFunction(f) = SumFunctionOnSet(f, Ids) /\ SumFunction(h) = SumFunctionOnSet(h, Ids)
    BY Zenon DEF SumFunction, SumFunctionOnSet, FoldFunction
  <2> HIDE DEF f, h
  <2>5. paid.proposer <= SumFunction(h)
    BY <2>1, <2>2, <2>3, <2>4, SumMonotone
  <2>6. paid.treasury + paid.proposer + SumFunction([id \in Ids |-> proposals[id].bond])
          = SumFunction([id \in Ids |->
                           IF proposals[id].flow = "FastTrack" THEN bond_amount ELSE 0])
    BY Zenon DEF BondLedger, Deposit
  <2> QED
    BY <2>5, <2>6, Zenon DEF BondOnce, h
<1> QED
  BY <1>1, QueueInvariance, SaneInvariance, LedgerInvariance, PTL

=============================================================================
