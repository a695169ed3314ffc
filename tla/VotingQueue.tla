----------------------------- MODULE VotingQueue ----------------------------
(***************************************************************************)
(* Lemmas about Voting's operators, for every value of the constants: the  *)
(* calendar, Proposal::update, and what advancing the queue does to the    *)
(* proposals, the active set and the queue.                                *)
(***************************************************************************)
EXTENDS Voting, SumTheorems

-----------------------------------------------------------------------------
(* The calendar. *)

\* days_since_epoch is the day that after_ns falls on.
LEMMA DayBounds ==
    ASSUME NEW x \in Nat, NEW d \in Nat \ {0}
    PROVE  /\ x \div d \in Nat
           /\ (x \div d) * d <= x
           /\ x < (x \div d + 1) * d
OBVIOUS

\* Whatever the time of day and the day of the week, voting starts strictly
\* later, at a CET Monday midnight, and within a week of the current day's end.
THEOREM NextMonday ==
    ASSUME NEW t \in Nat
    PROVE  LET s == next_voting_start_ns(t)
           IN  /\ s \in Nat
               /\ t < s
               /\ s <= t + 7 * NsPerDay
               /\ MondayMidnight(s)
<1> USE CalendarAssumption
<1> DEFINE x == t + CetOffset
           days == x \div NsPerDay
           until == ((10 - (days % 7)) % 7) + 1
<1>0. x \in Nat
  OBVIOUS
<1>1. days \in Nat /\ days * NsPerDay <= x /\ x < (days + 1) * NsPerDay
  BY <1>0, DayBounds
<1> HIDE DEF days
<1>2. until \in 1..7 /\ \E week \in Int : days + until = 7 * week + 4
  <2> DEFINE q == days \div 7
             w == days % 7
  <2>1. q \in Nat /\ w \in 0..6 /\ days = 7 * q + w
    BY <1>1
  <2>2. until = ((10 - w) % 7) + 1
    OBVIOUS
  <2> HIDE DEF q, w, until
  <2>3. \/ until = 4 - w /\ w <= 3
        \/ until = 11 - w /\ w >= 4
    BY <2>1, <2>2
  <2>4. \/ days + until = 7 * q + 4
        \/ days + until = 7 * (q + 1) + 4
    BY <2>1, <2>3
  <2>5. until \in 1..7
    BY <2>1, <2>3
  <2>6. q \in Int /\ q + 1 \in Int
    BY <2>1
  <2>7. \E week \in Int : days + until = 7 * week + 4
    <3>1. CASE days + until = 7 * q + 4
      BY <2>6, <3>1
    <3>2. CASE days + until = 7 * (q + 1) + 4
      <4> USE <2>6
      <4> WITNESS q + 1 \in Int
      <4> QED
        BY <3>2
    <3> QED
      BY <2>4, <3>1, <3>2
  <2> QED
    BY <2>5, <2>7
<1> HIDE DEF until, x
<1>3. next_voting_start_ns(t) = (days + until) * NsPerDay - CetOffset
  BY DEF next_voting_start_ns, days, until, x
<1>4. (days + until) * NsPerDay = days * NsPerDay + until * NsPerDay
  BY <1>1, <1>2
<1>5. NsPerDay <= until * NsPerDay /\ until * NsPerDay <= 7 * NsPerDay
  BY <1>2
<1>6. (days + 1) * NsPerDay = days * NsPerDay + NsPerDay
  BY <1>1
<1>7. days * NsPerDay \in Nat /\ until * NsPerDay \in Nat
  BY <1>1, <1>2
<1>8. MondayMidnight(next_voting_start_ns(t))
  <2>1. PICK week \in Int : days + until = 7 * week + 4
    BY <1>2
  <2>2. next_voting_start_ns(t) + CetOffset = (7 * week + 4) * NsPerDay
    BY <1>3, <1>4, <1>7, <2>1
  <2>3. week \in Nat
    BY <1>1, <1>2, <2>1
  <2>4. 7 * week + 3 \in Nat /\ 7 * week + 3 <= (7 * week + 3) * NsPerDay
    BY <2>3
  <2>5. (7 * week + 4) * NsPerDay = (7 * week + 3) * NsPerDay + NsPerDay
    BY <2>3
  <2>6. week \in 0..next_voting_start_ns(t)
    BY <1>3, <1>7, <1>4, <2>2, <2>3, <2>4, <2>5
  <2> QED
    BY <2>2, <2>6 DEF MondayMidnight
<1> QED
  BY <1>0, <1>1, <1>3, <1>4, <1>5, <1>6, <1>7, <1>8 DEF x

-----------------------------------------------------------------------------
(* Proposals. *)

Status == {"Created", "Expired", "Rejected", "Slashed", "Queued", "Sandbox",
           "Scheduled", "Voting", "Timelock", "Executable", "InProgress",
           "Succeeded", "Failed", "Defeated", "Vetoed"}

Proposal ==
    [flow: Flows, actions: Nat, status: Status, expiration: Nat, approval: Nat,
     voting_start: Nat, sandbox_start: Nat, snapshot: {0} \cup Versions,
     approval_bps: Nat, tally: [VoteOption -> Int], total_votes: Int, bond: Nat]

\* compute_final_status has two answers.
LEMMA TwoOutcomes ==
    ASSUME NEW p
    PROVE  compute_final_status(p) \in {"Succeeded", "Defeated"}
BY DEF compute_final_status

\* It reads the snapshot, the tally and the threshold, and nothing else.
LEMMA SameOutcome ==
    ASSUME NEW p, NEW q, q.snapshot = p.snapshot, q.tally = p.tally,
           q.total_votes = p.total_votes, q.approval_bps = p.approval_bps
    PROVE  compute_final_status(q) = compute_final_status(p)
BY DEF compute_final_status

\* Where Proposal::update can take a proposal.
LEMMA StatusStep ==
    ASSUME NEW p \in Proposal, NEW t
    PROVE  LET u == updated_status(p, t)
               c == compute_final_status(p)
           IN  /\ p.status = "Created" => u \in {"Created", "Expired"}
               /\ p.status = "Sandbox" => u \in {"Sandbox", "Defeated"}
               /\ p.status = "Scheduled" =>
                    u \in {"Scheduled", "Voting", "Defeated", "Executable", "Succeeded"}
               /\ p.status = "Voting" =>
                    u \in {"Voting", "Timelock", "Defeated", "Executable", "Succeeded"}
               /\ p.status = "Timelock" =>
                    u \in {"Timelock", "Defeated", "Executable", "Succeeded"}
               /\ p.status \notin {"Created", "Sandbox", "Scheduled", "Voting", "Timelock"}
                    => u = p.status
               /\ u \in Status
<1>1. compute_final_status(p) \in {"Succeeded", "Defeated"}
  BY TwoOutcomes
<1>2. p.status \in Status /\ p.flow \in {"Classic", "FastTrack"}
  <2>1. Flows \subseteq {"Classic", "FastTrack"}
    BY VotingAssumption
  <2> QED
    BY <2>1, Zenon DEF Proposal
<1> QED
  BY <1>1, <1>2 DEF updated_status, Status, Passed

\* What only Proposal::update leaves alone: everything but the status.
SameData(p, q) ==
    /\ q.flow = p.flow /\ q.actions = p.actions /\ q.expiration = p.expiration
    /\ q.approval = p.approval /\ q.voting_start = p.voting_start
    /\ q.sandbox_start = p.sandbox_start /\ q.snapshot = p.snapshot
    /\ q.approval_bps = p.approval_bps /\ q.tally = p.tally
    /\ q.total_votes = p.total_votes /\ q.bond = p.bond

\* Two proposals with the same data and status are the same.
LEMMA SameProposal ==
    ASSUME NEW p \in Proposal, NEW q \in Proposal, SameData(p, q), q.status = p.status
    PROVE  q = p
BY DEF SameData, Proposal

\* Proposal::update writes the status and nothing else.
LEMMA UpdateIs ==
    ASSUME NEW p \in Proposal
    PROVE  /\ update(p) \in Proposal
           /\ update(p).status = updated_status(p, now)
           /\ SameData(p, update(p))
<1>1. updated_status(p, now) \in Status
  BY StatusStep
<1> QED
  BY <1>1 DEF update, Proposal, SameData

\* A status that update gives to a proposal, update leaves alone.
LEMMA StatusSettles ==
    ASSUME NEW p \in Proposal, NEW q \in Proposal, SameData(p, q), NEW t \in Nat,
           q.status = updated_status(p, t)
    PROVE  updated_status(q, t) = updated_status(p, t)
<1>1. compute_final_status(q) = compute_final_status(p)
  BY SameOutcome DEF SameData
<1>2. compute_final_status(p) \in {"Succeeded", "Defeated"}
  BY TwoOutcomes
<1>3. voting_end(q) = voting_end(p) /\ q.flow = p.flow /\ Passed(q) = Passed(p)
      /\ Passed(p) \in {"Executable", "Succeeded"}
      /\ q.sandbox_start = p.sandbox_start /\ q.voting_start = p.voting_start
      /\ q.expiration = p.expiration
  BY DEF SameData, voting_end, Passed, has_actions
<1>4. p.status \in Status /\ p.flow \in {"Classic", "FastTrack"}
  <2>1. Flows \subseteq {"Classic", "FastTrack"}
    BY VotingAssumption
  <2> QED
    BY <2>1, Zenon DEF Proposal
<1>5. CASE p.status = "Created"
  BY <1>3, <1>5 DEF updated_status
<1>6. CASE p.status \in {"Voting", "Timelock"} /\ p.flow = "Classic"
  BY <1>1, <1>2, <1>3, <1>6 DEF updated_status
<1>7. CASE p.status \in {"Sandbox", "Scheduled", "Voting"} /\ p.flow = "FastTrack"
  BY <1>1, <1>2, <1>3, <1>7 DEF updated_status
<1>8. CASE \/ p.status \in {"Sandbox", "Scheduled"} /\ p.flow = "Classic"
           \/ p.status = "Timelock" /\ p.flow = "FastTrack"
           \/ p.status \notin {"Created", "Sandbox", "Scheduled", "Voting", "Timelock"}
  <2>1. updated_status(p, t) = p.status
    BY <1>4, <1>8 DEF updated_status
  <2>2. q.status = p.status
    BY <2>1
  <2> QED
    BY <1>3, <1>4, <1>8, <2>1, <2>2 DEF updated_status
<1> QED
  BY <1>4, <1>5, <1>6, <1>7, <1>8

\* At one moment a second Proposal::update changes nothing.
LEMMA UpdateTwice ==
    ASSUME NEW p \in Proposal, now \in Nat
    PROVE  update(update(p)) = update(p)
<1> DEFINE u == update(p)
<1>1. u \in Proposal /\ u.status = updated_status(p, now) /\ SameData(p, u)
  BY UpdateIs
<1> HIDE DEF u
<1>2. updated_status(u, now) = u.status
  BY <1>1, StatusSettles
<1>3. update(u) \in Proposal /\ update(u).status = u.status /\ SameData(u, update(u))
  BY <1>1, <1>2, UpdateIs
<1> QED
  BY <1>1, <1>3, SameProposal DEF u

-----------------------------------------------------------------------------
(* What advancing the queue does to one proposal. *)

\* p is untouched, brought up to date, or promoted from the queue.
Advanced(p, q) ==
    \/ q = p
    \/ q = update(p)
    \/ /\ p.status = "Queued"
       /\ \E start \in Nat \ {0} : q = update(activate(p, start))

\* What activate writes.
LEMMA ActivateIs ==
    ASSUME NEW p \in Proposal, NEW start \in Nat
    PROVE  LET a == activate(p, start)
           IN  /\ a \in Proposal
               /\ a.flow = p.flow /\ a.actions = p.actions
               /\ a.expiration = p.expiration /\ a.approval = p.approval
               /\ a.snapshot = p.snapshot /\ a.approval_bps = p.approval_bps
               /\ a.tally = p.tally /\ a.total_votes = p.total_votes
               /\ a.bond = p.bond
               /\ p.flow = "Classic" =>
                    /\ a.status = "Voting" /\ a.voting_start = start
                    /\ a.sandbox_start = p.sandbox_start
               /\ p.flow # "Classic" =>
                    /\ a.status = "Sandbox" /\ a.sandbox_start = start
                    /\ a.voting_start = p.voting_start
<1>1. "Voting" \in Status /\ "Sandbox" \in Status
  BY DEF Status
<1> QED
  BY <1>1, Zenon DEF activate, Proposal

\* Advancing the queue leaves a proposal alone, updates it, or starts it from
\* the queue; a later update at the same moment is still such a change.
LEMMA AdvancedIs ==
    ASSUME NEW p \in Proposal, NEW q, Advanced(p, q), now \in Nat
    PROVE  /\ q \in Proposal
           /\ q.status = "Queued" => q = p
           /\ Advanced(p, update(q))
<1>1. CASE q = p
  BY <1>1 DEF Advanced
<1>2. CASE q = update(p)
  <2>1. q \in Proposal /\ update(q) = q
    BY <1>2, UpdateIs, UpdateTwice
  <2>2. q.status = "Queued" => q = p
    <3>1. q.status = updated_status(p, now) /\ SameData(p, q) /\ p.status \in Status
      BY <1>2, UpdateIs DEF Proposal
    <3>2. q.status = "Queued" => p.status = "Queued"
      BY <3>1, StatusStep, Zenon DEF Status
    <3> QED
      BY <2>1, <3>1, <3>2, SameProposal
  <2> QED
    BY <2>1, <2>2
<1>3. CASE p.status = "Queued" /\ \E start \in Nat \ {0} : q = update(activate(p, start))
  <2>1. PICK start \in Nat \ {0} : q = update(activate(p, start))
    BY <1>3
  <2> DEFINE a == activate(p, start)
  <2>2. a \in Proposal /\ a.status \in {"Voting", "Sandbox"}
    BY ActivateIs
  <2> HIDE DEF a
  <2>3. q \in Proposal /\ update(q) = q /\ q.status = updated_status(a, now)
    BY <2>1, <2>2, UpdateIs, UpdateTwice DEF a
  <2>4. q.status # "Queued"
    BY <2>2, <2>3, StatusStep
  <2> QED
    BY <2>3, <2>4
<1> QED
  BY <1>1, <1>2, <1>3 DEF Advanced

\* Two changes of that kind, as the advance and the loop in it make, are one.
LEMMA AdvancedTwice ==
    ASSUME NEW p \in Proposal, NEW q, NEW r, Advanced(p, q), Advanced(q, r), now \in Nat
    PROVE  Advanced(p, r)
<1>1. CASE r = q \/ r = update(q)
  BY <1>1, AdvancedIs
<1>2. CASE q.status = "Queued"
  BY <1>2, AdvancedIs
<1> QED
  BY <1>1, <1>2 DEF Advanced

-----------------------------------------------------------------------------
(* freed_slot_times. *)

Ascending(q) == \A i, j \in DOMAIN q : i <= j => q[i] <= q[j]

\* The place where a time is inserted: before it times are earlier, and from
\* it on they are not.
LEMMA InsertPlace ==
    ASSUME NEW times \in Seq(Nat \ {0}), NEW t \in Nat \ {0}
    PROVE  LET later == {i \in DOMAIN times : times[i] >= t}
               k == IF later = {} THEN Len(times) + 1 ELSE Min(later)
           IN  /\ k \in 1..(Len(times) + 1)
               /\ \A i \in 1..Len(times) : i < k => times[i] < t
               /\ k <= Len(times) => times[k] >= t
<1> DEFINE later == {i \in DOMAIN times : times[i] >= t}
<1>1. DOMAIN times = 1..Len(times) /\ Len(times) \in Nat
      /\ \A i \in 1..Len(times) : times[i] \in Nat
  OBVIOUS
<1>2. CASE later = {}
  <2>1. \A i \in 1..Len(times) : times[i] < t
    BY <1>1, <1>2
  <2> QED
    BY <1>1, <1>2, <2>1
<1>3. CASE later # {}
  <2>1. later \subseteq Nat
    BY <1>1
  <2>2. PICK m \in later : \A i \in later : m <= i
    <3> HIDE DEF later
    <3> QED
      BY <1>3, <2>1, NatMin, Zenon
  <2>3. Min(later) \in later /\ \A i \in later : Min(later) <= i
    <3> HIDE DEF later
    <3> QED
      BY <2>2, Zenon DEF Min
  <2> DEFINE k == Min(later)
  <2> HIDE DEF k
  <2>4. k \in later /\ \A i \in later : k <= i
    BY <2>3 DEF k
  <2>5. /\ k \in 1..Len(times) /\ times[k] >= t
        /\ \A i \in 1..Len(times) : i < k => times[i] < t
    BY <1>1, <2>4
  <2> HIDE DEF later, k
  <2>6. /\ k \in 1..(Len(times) + 1)
        /\ \A i \in 1..Len(times) : i < k => times[i] < t
        /\ k <= Len(times) => times[k] >= t
    BY <1>1, <2>5
  <2> QED
    BY <1>3, <2>6, Zenon DEF k, later
<1> QED
  BY <1>2, <1>3, Zenon

\* VecDeque::insert keeps the times in order.
LEMMA InsertTimeIs ==
    ASSUME NEW times \in Seq(Nat \ {0}), NEW t \in Nat \ {0}
    PROVE  LET r == InsertTime(times, t)
           IN  /\ r \in Seq(Nat \ {0}) /\ r # <<>>
               /\ \A i \in DOMAIN r : r[i] = t \/ \E j \in DOMAIN times : r[i] = times[j]
               /\ Ascending(times) => Ascending(r)
<1> DEFINE later == {i \in DOMAIN times : times[i] >= t}
           k == IF later = {} THEN Len(times) + 1 ELSE Min(later)
           N == Len(times)
           a == SubSeq(times, 1, k - 1)
           b == SubSeq(times, k, N)
           r == a \o <<t>> \o b
<1>1. N \in Nat /\ DOMAIN times = 1..N /\ \A i \in 1..N : times[i] \in Nat
  OBVIOUS
<1>2. /\ k \in 1..(N + 1)
      /\ \A i \in 1..N : i < k => times[i] < t
      /\ k <= N => times[k] >= t
  BY InsertPlace, Zenon
<1>3. InsertTime(times, t) = r
  BY Zenon DEF InsertTime
<1> HIDE DEF k, later
<1>4. /\ a \in Seq(Nat \ {0}) /\ Len(a) = k - 1
      /\ \A i \in 1..(k - 1) : a[i] = times[i]
  BY <1>1, <1>2
<1>5. /\ b \in Seq(Nat \ {0}) /\ Len(b) = N - k + 1
      /\ \A i \in 1..(N - k + 1) : b[i] = times[k + i - 1]
  BY <1>1, <1>2
<1> HIDE DEF a, b, N
<1>6. /\ r \in Seq(Nat \ {0}) /\ Len(r) = N + 1
      /\ \A i \in 1..(N + 1) : r[i] = IF i < k THEN times[i]
                                      ELSE IF i = k THEN t ELSE times[i - 1]
  <2> DEFINE c == <<t>>
             d == a \o c
  <2>1. c \in Seq(Nat \ {0}) /\ Len(c) = 1 /\ c[1] = t
    OBVIOUS
  <2>2. /\ d \in Seq(Nat \ {0}) /\ Len(d) = k
        /\ \A i \in 1..k : d[i] = IF i < k THEN times[i] ELSE t
    <3> HIDE DEF c
    <3>1. /\ a \o c \in Seq(Nat \ {0}) /\ Len(a \o c) = Len(a) + Len(c)
          /\ \A i \in 1..(Len(a) + Len(c)) :
                (a \o c)[i] = IF i <= Len(a) THEN a[i] ELSE c[i - Len(a)]
      BY <1>4, <2>1, SeqConcat, Zenon
    <3>2. Len(a) + Len(c) = k /\ d = a \o c
      BY <1>2, <1>4, <2>1
    <3>3. ASSUME NEW i \in 1..k PROVE d[i] = IF i < k THEN times[i] ELSE t
      <4>1. d[i] = IF i <= k - 1 THEN a[i] ELSE c[i - (k - 1)]
        BY <1>4, <3>1, <3>2, Zenon
      <4>2. CASE i < k
        BY <1>2, <1>4, <4>1, <4>2
      <4>3. CASE i = k
        BY <1>2, <2>1, <4>1, <4>3
      <4>4. i < k \/ i = k
        BY <1>1, <1>2
      <4> QED
        BY <4>2, <4>3, <4>4, Zenon
    <3> QED
      BY <3>1, <3>2, <3>3
  <2> HIDE DEF d
  <2>c. /\ d \o b \in Seq(Nat \ {0}) /\ Len(d \o b) = Len(d) + Len(b)
        /\ \A i \in 1..(Len(d) + Len(b)) :
              (d \o b)[i] = IF i <= Len(d) THEN d[i] ELSE b[i - Len(d)]
    BY <1>5, <2>2, SeqConcat, Zenon
  <2>l. Len(d) + Len(b) = N + 1 /\ Len(d) = k
    BY <1>1, <1>2, <1>5, <2>2
  <2>3. d \o b \in Seq(Nat \ {0}) /\ Len(d \o b) = N + 1
    BY <2>c, <2>l
  <2>4. ASSUME NEW i \in 1..(N + 1)
        PROVE  (d \o b)[i] = IF i < k THEN times[i] ELSE IF i = k THEN t ELSE times[i - 1]
    <3>1. (d \o b)[i] = IF i <= k THEN d[i] ELSE b[i - k]
      BY <2>c, <2>l
    <3>2. CASE i <= k
      BY <1>1, <1>2, <2>2, <3>1, <3>2
    <3>3. CASE i > k
      <4>1. i - k \in 1..(N - k + 1) /\ k + (i - k) - 1 = i - 1
            /\ ~(i <= k) /\ ~(i < k) /\ i # k
        BY <1>1, <1>2, <3>3
      <4>2. b[i - k] = times[k + (i - k) - 1]
        BY <1>5, <4>1
      <4> QED
        BY <3>1, <4>1, <4>2
    <3>4. i <= k \/ i > k
      BY <1>1, <1>2
    <3> QED
      BY <3>2, <3>3, <3>4, Zenon
  <2> QED
    BY <2>3, <2>4, Zenon DEF d
<1> HIDE DEF r
<1>7. DOMAIN r = 1..(N + 1) /\ r # <<>>
  BY <1>1, <1>6
<1>8. \A i \in DOMAIN r : r[i] = t \/ \E j \in DOMAIN times : r[i] = times[j]
  <2> SUFFICES ASSUME NEW i \in 1..(N + 1), r[i] # t
               PROVE  \E j \in 1..N : r[i] = times[j]
    BY <1>1, <1>7, Zenon
  <2>1. CASE i < k
    BY <1>1, <1>2, <1>6, <2>1
  <2>2. CASE i > k
    <3>1. i - 1 \in 1..N /\ r[i] = times[i - 1]
      BY <1>1, <1>2, <1>6, <2>2
    <3> QED
      BY <3>1
  <2> QED
    BY <1>1, <1>2, <1>6, <2>1, <2>2
<1>9. ASSUME Ascending(times) PROVE Ascending(r)
  <2>1. \A i, j \in 1..N : i <= j => times[i] <= times[j]
    BY <1>1, <1>9 DEF Ascending
  <2>2. \A i \in 1..N : i >= k => times[i] >= t
    BY <1>1, <1>2, <2>1
  <2>3. ASSUME NEW i \in 1..(N + 1), NEW j \in 1..(N + 1), i <= j
        PROVE  r[i] <= r[j]
    <3>1. CASE j < k
      <4>1. j \in 1..N /\ i \in 1..N /\ r[i] = times[i] /\ r[j] = times[j]
        BY <1>1, <1>2, <1>6, <2>3, <3>1
      <4> QED
        BY <2>1, <2>3, <4>1
    <3>2. CASE j = k
      BY <1>1, <1>2, <1>6, <2>3, <3>2
    <3>3. CASE j > k /\ i < k
      <4>1. j - 1 \in 1..N /\ i \in 1..N /\ i <= j - 1
            /\ r[i] = times[i] /\ r[j] = times[j - 1]
        BY <1>1, <1>2, <1>6, <3>3
      <4> QED
        BY <2>1, <4>1
    <3>4. CASE j > k /\ i = k
      <4>1. j - 1 \in 1..N /\ j - 1 >= k /\ r[i] = t /\ r[j] = times[j - 1]
        BY <1>1, <1>2, <1>6, <3>4
      <4> QED
        BY <2>2, <4>1
    <3>5. CASE i > k
      <4>1. j - 1 \in 1..N /\ i - 1 \in 1..N /\ i - 1 <= j - 1
            /\ r[i] = times[i - 1] /\ r[j] = times[j - 1]
        BY <1>1, <1>2, <1>6, <2>3, <3>5
      <4> QED
        BY <2>1, <4>1
    <3> QED
      BY <1>1, <1>2, <2>3, <3>1, <3>2, <3>3, <3>4, <3>5
  <2> QED
    BY <1>7, <2>3 DEF Ascending
<1> QED
  BY <1>3, <1>6, <1>7, <1>8, <1>9

\* The time at which an active proposal frees its slot is a positive number of
\* nanoseconds, as the promotion that inherits it as a start time needs.
LEMMA EndTimeType ==
    ASSUME NEW p \in Proposal
    PROVE  active_end_time_ns(p) \in Nat \ {0} /\ voting_end(p) \in Nat \ {0}
<1>1. voting_duration_ns[p.flow] \in Nat \ {0} /\ p.voting_start \in Nat
      /\ p.sandbox_start \in Nat
  BY VotingAssumption, Zenon DEF Proposal
<1>2. voting_end(p) \in Nat \ {0}
  BY <1>1 DEF voting_end
<1>3. timelock_duration_ns \in Nat /\ sandbox_duration_ns \in Nat
  BY VotingAssumption
<1>4. /\ voting_end(p) + timelock_duration_ns \in Nat \ {0}
      /\ p.sandbox_start + sandbox_duration_ns \in Nat \ {0}
  BY <1>1, <1>2, <1>3, VotingAssumption
<1> QED
  BY <1>2, <1>4, Zenon DEF active_end_time_ns

\* The recursion of FreedTimes.
FreedUpTo(ps, ids) ==
    CHOOSE g : g = [n \in 0..Len(ps) |->
                      IF n = 0 THEN <<>>
                      ELSE IF n \in ids
                           THEN InsertTime(g[n - 1], active_end_time_ns(ps[n]))
                           ELSE g[n - 1]]

\* The freed times are gathered one active proposal after the other.
LEMMA FreedRecursion ==
    ASSUME NEW ps \in Seq(Proposal), NEW ids
    PROVE  LET h == FreedUpTo(ps, ids)
           IN  /\ h[0] = <<>>
               /\ \A n \in 1..Len(ps) :
                     h[n] = IF n \in ids
                            THEN InsertTime(h[n - 1], active_end_time_ns(ps[n]))
                            ELSE h[n - 1]
<1> DEFINE N == Len(ps)
           A == Seq(Nat \ {0})
           Step(x, n) == IF n \in ids THEN InsertTime(x, active_end_time_ns(ps[n])) ELSE x
           F == [n \in 1..N |-> [x \in A |-> Step(x, n)]]
           Rhs(g) == [n \in 0..N |-> IF n = 0 THEN <<>> ELSE Step(g[n - 1], n)]
           e == <<>>
<1>1. N \in Nat /\ e \in A /\ \A n \in 1..N : ps[n] \in Proposal
  OBVIOUS
<1>2. ASSUME NEW n \in 1..N, NEW x \in A PROVE Step(x, n) \in A
  <2>1. active_end_time_ns(ps[n]) \in Nat \ {0}
    BY <1>1, EndTimeType
  <2>2. InsertTime(x, active_end_time_ns(ps[n])) \in A
    <3> DEFINE t == active_end_time_ns(ps[n])
    <3> HIDE DEF t
    <3>1. t \in Nat \ {0}
      BY <2>1 DEF t
    <3>2. InsertTime(x, t) \in Seq(Nat \ {0})
      BY <3>1, InsertTimeIs
    <3> QED
      BY <3>2 DEF t
  <2> QED
    BY <2>2
<1> HIDE DEF Step, A, N
<1>3. PICK g : Follows(g, F, e, N, A)
  <2>1. StepFunction(F, N, A)
    BY <1>2 DEF StepFunction
  <2> HIDE DEF F, e
  <2> QED
    BY <1>1, <2>1, BoundedRecursion
<1>4. g = Rhs(g)
  <2>1. g \in [0..N -> A] /\ g[0] = e /\ \A n \in 1..N : g[n] = F[n][g[n - 1]]
    BY <1>3 DEF Follows
  <2>2. ASSUME NEW n \in 0..N, n # 0 PROVE g[n] = Step(g[n - 1], n)
    <3>1. n \in 1..N /\ n - 1 \in 0..N
      BY <1>1, <2>2
    <3>2. g[n - 1] \in A
      BY <2>1, <3>1
    <3> QED
      BY <2>1, <3>1, <3>2, Zenon
  <2> QED
    BY <2>1, <2>2
<1>5. FreedUpTo(ps, ids) = Rhs(FreedUpTo(ps, ids))
  <2>1. FreedUpTo(ps, ids) = CHOOSE f : f = Rhs(f)
    BY Zenon DEF FreedUpTo, N, Step
  <2> HIDE DEF Rhs
  <2>2. (CHOOSE f : f = Rhs(f)) = Rhs(CHOOSE f : f = Rhs(f))
    BY <1>4, Zenon
  <2> QED
    BY <2>1, <2>2, Zenon
<1> DEFINE h == FreedUpTo(ps, ids)
<1>6. h = Rhs(h)
  BY <1>5, Zenon
<1> HIDE DEF h
<1>7. \A n \in 0..N : h[n] = IF n = 0 THEN <<>> ELSE Step(h[n - 1], n)
  <2>1. \A n \in 0..N : Rhs(h)[n] = IF n = 0 THEN <<>> ELSE Step(h[n - 1], n)
    OBVIOUS
  <2> HIDE DEF Rhs
  <2> QED
    BY <1>6, <2>1, Zenon
<1>8. 0 \in 0..N /\ \A n \in 1..N : n \in 0..N /\ n # 0
  BY <1>1
<1>9. h[0] = <<>> /\ \A n \in 1..N : h[n] = Step(h[n - 1], n)
  BY <1>7, <1>8, Zenon
<1> QED
  BY <1>9 DEF h, N, Step

\* The freed times are the end times of the proposals that left, in order.
LEMMA FreedTimesAre ==
    ASSUME NEW ps \in Seq(Proposal), NEW ids
    PROVE  LET f == FreedTimes(ps, ids)
           IN  /\ f \in Seq(Nat \ {0}) /\ Ascending(f)
               /\ \A i \in DOMAIN f :
                     \E id \in ids \cap DOMAIN ps : f[i] = active_end_time_ns(ps[id])
<1> DEFINE N == Len(ps)
           h == FreedUpTo(ps, ids)
           Ends(f) == \A i \in DOMAIN f :
                        \E id \in ids \cap DOMAIN ps : f[i] = active_end_time_ns(ps[id])
           T == {n \in 0..N : h[n] \in Seq(Nat \ {0}) /\ Ascending(h[n]) /\ Ends(h[n])}
<1>0. N \in Nat /\ DOMAIN ps = 1..N /\ \A n \in 1..N : ps[n] \in Proposal
  OBVIOUS
<1>1. /\ h[0] = <<>>
      /\ \A n \in 1..N : h[n] = IF n \in ids
                                THEN InsertTime(h[n - 1], active_end_time_ns(ps[n]))
                                ELSE h[n - 1]
  BY FreedRecursion
<1> HIDE DEF h
<1>2. 0 \in T
  <2> DEFINE e == <<>>
  <2>1. e \in Seq(Nat \ {0}) /\ DOMAIN e = {}
    OBVIOUS
  <2> HIDE DEF e
  <2>2. Ascending(e) /\ Ends(e)
    BY <2>1 DEF Ascending
  <2>3. h[0] = e /\ 0 \in 0..N
    BY <1>0, <1>1 DEF e
  <2> HIDE DEF N, Ends
  <2> QED
    BY <2>1, <2>2, <2>3, Zenon
<1>3. ASSUME NEW n \in 1..N, n - 1 \in T PROVE n \in T
  <2> DEFINE x == h[n - 1]
             t == active_end_time_ns(ps[n])
             r == InsertTime(x, t)
  <2>1. x \in Seq(Nat \ {0}) /\ Ascending(x) /\ Ends(x) /\ n \in 0..N
    BY <1>3
  <2>2. t \in Nat \ {0}
    BY <1>0, EndTimeType
  <2>3. CASE n \notin ids
    BY <1>1, <2>1, <2>3
  <2>4. CASE n \in ids
    <3> HIDE DEF t, x
    <3>1. /\ r \in Seq(Nat \ {0}) /\ Ascending(r)
          /\ \A i \in DOMAIN r : r[i] = t \/ \E j \in DOMAIN x : r[i] = x[j]
      BY <2>1, <2>2, InsertTimeIs, Zenon
    <3>2. n \in ids \cap DOMAIN ps
      BY <1>0, <2>4
    <3> HIDE DEF r
    <3>3. Ends(r)
      BY <2>1, <3>1, <3>2 DEF t
    <3>4. h[n] = r
      BY <1>1, <2>4 DEF r, x, t
    <3> QED
      BY <2>1, <3>1, <3>3, <3>4
  <2> QED
    BY <2>3, <2>4
<1>4. N \in T
  <2> HIDE DEF T, N
  <2>1. \A n \in 0..N : n \in T
    BY <1>0, <1>2, <1>3, BoundedInduction
  <2> QED
    BY <1>0, <2>1
<1>5. FreedTimes(ps, ids) = h[N]
  BY Zenon DEF FreedTimes, FreedUpTo, h
<1>6. h[N] \in Seq(Nat \ {0}) /\ Ascending(h[N]) /\ Ends(h[N])
  BY <1>4
<1> HIDE DEF N
<1> QED
  BY <1>5, <1>6, Zenon

-----------------------------------------------------------------------------
(* The stored proposals and the two indexes over them. *)

StoredState == [proposals: Seq(Proposal), active: SUBSET Nat, queue: Seq(Nat)]

\* The indexes agree with the statuses.
Indexed(s) ==
    /\ s.active = {id \in DOMAIN s.proposals : s.proposals[id].status \in Active}
    /\ Range(s.queue) = {id \in DOMAIN s.proposals : s.proposals[id].status = "Queued"}
    /\ IsInjective(s.queue)

\* r is s with the proposal id set to p, and active kept in step.
IsSet(r, s, id, p) ==
    /\ r \in StoredState
    /\ r.queue = s.queue
    /\ DOMAIN r.proposals = DOMAIN s.proposals
    /\ r.proposals[id] = p
    /\ \A x \in DOMAIN s.proposals \ {id} : r.proposals[x] = s.proposals[x]
    /\ r.active = IF p.status \in Active THEN s.active \cup {id} ELSE s.active \ {id}

\* What internal_set_proposal stores.
LEMMA SetIs ==
    ASSUME NEW s \in StoredState, NEW id \in DOMAIN s.proposals, NEW p \in Proposal
    PROVE  IsSet(internal_set_proposal(s, id, p), s, id, p)
<1> DEFINE ps == [s.proposals EXCEPT ![id] = p]
           ac == IF p.status \in Active THEN s.active \cup {id} ELSE s.active \ {id}
           r == [s EXCEPT !.proposals = ps, !.active = ac]
<1>1. /\ s.proposals \in Seq(Proposal) /\ s.active \subseteq Nat /\ s.queue \in Seq(Nat)
  BY DEF StoredState
<1>2. DOMAIN s.proposals = 1..Len(s.proposals) /\ Len(s.proposals) \in Nat
  BY <1>1
<1>3. /\ ps \in Seq(Proposal) /\ DOMAIN ps = DOMAIN s.proposals /\ ps[id] = p
      /\ \A x \in DOMAIN s.proposals \ {id} : ps[x] = s.proposals[x]
  BY <1>1, <1>2
<1>4. ac \subseteq Nat
  BY <1>1, <1>2
<1>5. internal_set_proposal(s, id, p) = r
  BY DEF internal_set_proposal, is_active_status, StoredState
<1> HIDE DEF ps, ac
<1>6. /\ r \in StoredState /\ r.proposals = ps /\ r.active = ac /\ r.queue = s.queue
  BY <1>1, <1>3, <1>4, Zenon DEF StoredState
<1> HIDE DEF r
<1>7. IsSet(r, s, id, p)
  BY <1>3, <1>6 DEF IsSet, ac
<1> QED
  BY <1>5, <1>7, Zenon

\* internal_set_proposal keeps the indexes if it does not move the proposal
\* into the queue or out of it.
LEMMA SetIndexed ==
    ASSUME NEW s \in StoredState, Indexed(s), NEW id \in DOMAIN s.proposals,
           NEW p \in Proposal,
           p.status = "Queued" <=> s.proposals[id].status = "Queued"
    PROVE  Indexed(internal_set_proposal(s, id, p))
<1> DEFINE r == internal_set_proposal(s, id, p)
<1>1. /\ r.queue = s.queue /\ DOMAIN r.proposals = DOMAIN s.proposals
      /\ r.proposals[id] = p
      /\ \A x \in DOMAIN s.proposals \ {id} : r.proposals[x] = s.proposals[x]
      /\ r.active = IF p.status \in Active THEN s.active \cup {id} ELSE s.active \ {id}
  <2>1. IsSet(r, s, id, p)
    BY SetIs
  <2> HIDE DEF r
  <2> QED
    BY <2>1 DEF IsSet
<1> HIDE DEF r
<1>2. r.active = {x \in DOMAIN r.proposals : r.proposals[x].status \in Active}
  BY <1>1 DEF Indexed
<1>3. Range(r.queue) = {x \in DOMAIN r.proposals : r.proposals[x].status = "Queued"}
  BY <1>1 DEF Indexed
<1> QED
  BY <1>1, <1>2, <1>3 DEF Indexed, r

-----------------------------------------------------------------------------
(* The loop over the pending queue. *)

\* What the loop carries, started from the state s.
Loop(s) ==
    {a \in [count: Nat, freed: Seq(Nat \ {0}), taken: Nat, s: StoredState] :
       DOMAIN a.s.proposals = DOMAIN s.proposals /\ a.s.queue = s.queue}

\* The start time of a promotion and what is left of the freed times.
LEMMA NextStart ==
    ASSUME NEW f \in Seq(Nat \ {0}), now \in Nat \ {0}
    PROVE  /\ (IF f = <<>> THEN now ELSE Head(f)) \in Nat \ {0}
           /\ (IF f = <<>> THEN <<>> ELSE Tail(f)) \in Seq(Nat \ {0})
<1>1. CASE f = <<>>
  BY <1>1
<1>2. CASE f # <<>>
  BY <1>2, SeqHeadTail
<1> QED
  BY <1>1, <1>2

\* r is the loop's state after a has promoted id with the given start time.
IsPromoted(r, s, a, id, start) ==
    LET q    == update(activate(a.s.proposals[id], start))
        rest == IF a.freed = <<>> THEN <<>> ELSE Tail(a.freed)
    IN  /\ start = IF a.freed = <<>> THEN now ELSE Head(a.freed)
        /\ q \in Proposal
        /\ r \in Loop(s)
        /\ r.count = IF q.status \in Active THEN a.count + 1 ELSE a.count
        /\ r.taken = a.taken + 1
        /\ r.s = internal_set_proposal(a.s, id, q)
        /\ r.freed = IF q.status \in Active THEN rest
                     ELSE InsertTime(rest, active_end_time_ns(q))

\* What Promote does when there is a slot.
LEMMA PromoteIs ==
    ASSUME NEW s, NEW a \in Loop(s), NEW id \in DOMAIN s.proposals, NEW max \in Nat,
           now \in Nat \ {0}, ~(a.count >= max)
    PROVE  \E start \in Nat \ {0} : IsPromoted(Promote(a, id, max), s, a, id, start)
<1> DEFINE start == IF a.freed = <<>> THEN now ELSE Head(a.freed)
           rest == IF a.freed = <<>> THEN <<>> ELSE Tail(a.freed)
           q == update(activate(a.s.proposals[id], start))
           r == Promote(a, id, max)
           fr == IF q.status \in Active THEN rest
                 ELSE InsertTime(rest, active_end_time_ns(q))
           ct == IF q.status \in Active THEN a.count + 1 ELSE a.count
           st == internal_set_proposal(a.s, id, q)
<1>1. /\ a.count \in Nat /\ a.freed \in Seq(Nat \ {0}) /\ a.taken \in Nat /\ a.s \in StoredState
      /\ DOMAIN a.s.proposals = DOMAIN s.proposals /\ a.s.queue = s.queue
  BY DEF Loop
<1>2. a.s.proposals[id] \in Proposal
  BY <1>1 DEF StoredState
<1>3. start \in Nat \ {0} /\ rest \in Seq(Nat \ {0})
  BY <1>1, NextStart
<1> HIDE DEF start, rest
<1>4. q \in Proposal
  BY <1>2, <1>3, ActivateIs, UpdateIs
<1>5. r = [count |-> ct, freed |-> fr, taken |-> a.taken + 1, s |-> st]
  BY Zenon DEF Promote, is_active_status, start, rest
<1> HIDE DEF q
<1>6. active_end_time_ns(q) \in Nat \ {0}
  BY <1>4, EndTimeType
<1>7. InsertTime(rest, active_end_time_ns(q)) \in Seq(Nat \ {0})
  <2> DEFINE t == active_end_time_ns(q)
  <2> HIDE DEF t
  <2>1. t \in Nat \ {0}
    BY <1>6 DEF t
  <2>2. InsertTime(rest, t) \in Seq(Nat \ {0})
    BY <1>3, <2>1, InsertTimeIs
  <2> QED
    BY <2>2 DEF t
<1>8. fr \in Seq(Nat \ {0}) /\ ct \in Nat /\ a.taken + 1 \in Nat
  BY <1>1, <1>3, <1>7
<1>9. st \in StoredState /\ st.queue = s.queue /\ DOMAIN st.proposals = DOMAIN s.proposals
  <2>1. id \in DOMAIN a.s.proposals
    BY <1>1
  <2>2. st \in StoredState /\ st.queue = a.s.queue
        /\ DOMAIN st.proposals = DOMAIN a.s.proposals
    <3>1. IsSet(st, a.s, id, q)
      BY <1>1, <1>4, <2>1, SetIs
    <3> HIDE DEF st
    <3> QED
      BY <3>1 DEF IsSet
  <2> QED
    BY <1>1, <2>2, Zenon
<1> HIDE DEF fr, ct, st, r
<1>10. r \in Loop(s)
  BY <1>5, <1>8, <1>9 DEF Loop
<1>11. r.count = ct /\ r.taken = a.taken + 1 /\ r.s = st /\ r.freed = fr
  BY <1>5
<1>12. IsPromoted(r, s, a, id, start)
  BY <1>4, <1>10, <1>11, Zenon DEF IsPromoted, fr, ct, st, start, rest, q
<1> QED
  BY <1>3, <1>12 DEF r

\* Promote keeps the loop's type, whether there is a slot or not.
LEMMA PromoteType ==
    ASSUME NEW s, NEW a \in Loop(s), NEW id \in DOMAIN s.proposals, NEW max \in Nat,
           now \in Nat \ {0}
    PROVE  Promote(a, id, max) \in Loop(s)
<1>1. CASE a.count >= max
  BY <1>1 DEF Promote
<1>2. CASE ~(a.count >= max)
  BY <1>2, PromoteIs DEF IsPromoted
<1> QED
  BY <1>1, <1>2

\* The recursion of Promotions.
PromotedUpTo(base, max) ==
    CHOOSE g : g = [n \in 0..Len(base.s.queue) |->
                      IF n = 0 THEN base
                      ELSE Promote(g[n - 1], base.s.queue[n], max)]

\* The loop over pending_queue has a result after each turn.
LEMMA PromotedRecursion ==
    ASSUME NEW base, base \in Loop(base.s), NEW max \in Nat, now \in Nat \ {0},
           \A n \in 1..Len(base.s.queue) : base.s.queue[n] \in DOMAIN base.s.proposals
    PROVE  LET h == PromotedUpTo(base, max)
           IN  /\ h[0] = base
               /\ \A n \in 1..Len(base.s.queue) :
                     h[n] = Promote(h[n - 1], base.s.queue[n], max)
<1> DEFINE N == Len(base.s.queue)
           A == Loop(base.s)
           Step(x, n) == Promote(x, base.s.queue[n], max)
           F == [n \in 1..N |-> [x \in A |-> Step(x, n)]]
           Rhs(g) == [n \in 0..N |-> IF n = 0 THEN base ELSE Step(g[n - 1], n)]
<1>1. N \in Nat /\ base \in A
  <2>1. base.s.queue \in Seq(Nat)
    BY DEF Loop, StoredState
  <2> QED
    BY <2>1
<1>2. ASSUME NEW n \in 1..N, NEW x \in A PROVE Step(x, n) \in A
  BY PromoteType
<1> HIDE DEF Step, A, N
<1>3. PICK g : Follows(g, F, base, N, A)
  <2>1. StepFunction(F, N, A)
    BY <1>2 DEF StepFunction
  <2> HIDE DEF F
  <2> QED
    BY <1>1, <2>1, BoundedRecursion
<1>4. g = Rhs(g)
  <2>1. g \in [0..N -> A] /\ g[0] = base /\ \A n \in 1..N : g[n] = F[n][g[n - 1]]
    BY <1>3 DEF Follows
  <2>2. ASSUME NEW n \in 0..N, n # 0 PROVE g[n] = Step(g[n - 1], n)
    <3>1. n \in 1..N /\ n - 1 \in 0..N
      BY <1>1, <2>2
    <3>2. g[n - 1] \in A
      BY <2>1, <3>1
    <3> QED
      BY <2>1, <3>1, <3>2, Zenon
  <2> QED
    BY <2>1, <2>2
<1>5. PromotedUpTo(base, max) = Rhs(PromotedUpTo(base, max))
  <2>1. PromotedUpTo(base, max) = CHOOSE f : f = Rhs(f)
    BY Zenon DEF PromotedUpTo, N, Step
  <2> HIDE DEF Rhs
  <2>2. (CHOOSE f : f = Rhs(f)) = Rhs(CHOOSE f : f = Rhs(f))
    BY <1>4, Zenon
  <2> QED
    BY <2>1, <2>2, Zenon
<1> DEFINE h == PromotedUpTo(base, max)
<1>6. h = Rhs(h)
  BY <1>5, Zenon
<1> HIDE DEF h
<1>7. \A n \in 0..N : h[n] = IF n = 0 THEN base ELSE Step(h[n - 1], n)
  <2>1. \A n \in 0..N : Rhs(h)[n] = IF n = 0 THEN base ELSE Step(h[n - 1], n)
    OBVIOUS
  <2> HIDE DEF Rhs
  <2> QED
    BY <1>6, <2>1, Zenon
<1>8. 0 \in 0..N /\ \A n \in 1..N : n \in 0..N /\ n # 0
  BY <1>1
<1>9. h[0] = base /\ \A n \in 1..N : h[n] = Step(h[n - 1], n)
  BY <1>7, <1>8, Zenon
<1> QED
  BY <1>9 DEF h, N, Step

\* After n turns, from the state s: only the head of the queue was taken, and
\* all of it while there were slots; the active set and its size agree with the
\* statuses; what is left of the queue is what is still queued.
LoopInv(s, max, n, a) ==
    /\ a \in Loop(s)
    /\ a.taken \in 0..n
    /\ a.count < max => a.taken = n
    /\ a.count = Cardinality(a.s.active)
    /\ a.s.active = {id \in DOMAIN s.proposals : a.s.proposals[id].status \in Active}
    /\ \A id \in DOMAIN s.proposals :
          a.s.proposals[id].status = "Queued" <=>
            \E m \in (a.taken + 1)..Len(s.queue) : s.queue[m] = id
    /\ \A id \in DOMAIN s.proposals : Advanced(s.proposals[id], a.s.proposals[id])
    /\ \A id \in a.s.active : update(a.s.proposals[id]) = a.s.proposals[id]

\* One turn of the loop.
LEMMA PromoteStep ==
    ASSUME NEW s \in StoredState, NEW max \in Nat, now \in Nat \ {0},
           Range(s.queue) \subseteq DOMAIN s.proposals, IsInjective(s.queue),
           NEW n \in 1..Len(s.queue), NEW a, LoopInv(s, max, n - 1, a)
    PROVE  LoopInv(s, max, n, Promote(a, s.queue[n], max))
<1> DEFINE id == s.queue[n]
           r == Promote(a, id, max)
           D == DOMAIN s.proposals
           N == Len(s.queue)
<1>0. /\ s.queue \in Seq(Nat) /\ s.proposals \in Seq(Proposal) /\ N \in Nat
      /\ DOMAIN s.queue = 1..N /\ id \in D /\ n \in Nat
      /\ IsFiniteSet(D) /\ \A x \in D : s.proposals[x] \in Proposal
  <2>1. s.queue \in Seq(Nat) /\ s.proposals \in Seq(Proposal)
    BY DEF StoredState
  <2>2. IsFiniteSet(D)
    <3>1. D = 1..Len(s.proposals) /\ Len(s.proposals) \in Nat
      BY <2>1
    <3>2. IsFiniteSet(1..Len(s.proposals))
      BY <3>1, FinUpTo, Zenon
    <3> QED
      BY <3>1, <3>2, Zenon
  <2>3. id \in Range(s.queue)
    BY <2>1 DEF Range
  <2> QED
    BY <2>1, <2>2, <2>3
<1>1. /\ a \in Loop(s) /\ a.count \in Nat /\ a.taken \in Nat /\ a.s \in StoredState
      /\ a.taken \in 0..(n - 1) /\ (a.count < max => a.taken = n - 1)
      /\ a.count = Cardinality(a.s.active)
      /\ DOMAIN a.s.proposals = D /\ a.s.queue = s.queue
  BY DEF LoopInv, Loop
<1>2. CASE a.count >= max
  <2>1. r = a
    BY <1>2, Zenon DEF Promote
  <2>2. LoopInv(s, max, n, a)
    <3>1. a.taken \in 0..n /\ (a.count < max => a.taken = n)
      BY <1>0, <1>1, <1>2
    <3> QED
      BY <3>1, Zenon DEF LoopInv
  <2> QED
    BY <2>1, <2>2
<1>3. CASE ~(a.count >= max)
  <2>0. a.taken = n - 1
    BY <1>1, <1>3
  <2>1. PICK start \in Nat \ {0} : IsPromoted(r, s, a, id, start)
    BY <1>0, <1>1, <1>3, PromoteIs
  <2> DEFINE old == a.s.proposals[id]
             q == update(activate(old, start))
  <2>2. IsSet(r.s, a.s, id, q)
    BY <1>0, <1>1, <2>1, SetIs, Zenon DEF IsPromoted
  <2>3. old.status = "Queued"
    <3>1. n \in (a.taken + 1)..N
      BY <1>0, <2>0
    <3> QED
      BY <1>0, <3>1, Zenon DEF LoopInv
  <2>4. Advanced(s.proposals[id], old)
    BY <1>0 DEF LoopInv
  <2>5. old = s.proposals[id]
    BY <1>0, <2>3, <2>4, AdvancedIs
  <2>6. /\ q \in Proposal /\ update(q) = q /\ q.status # "Queued"
        /\ Advanced(s.proposals[id], q)
    <3> DEFINE b == activate(old, start)
    <3>1. old \in Proposal
      BY <1>0, <2>5
    <3>2. b \in Proposal /\ b.status \in {"Voting", "Sandbox"}
      BY <3>1, ActivateIs, Zenon
    <3>3. Advanced(s.proposals[id], q)
      BY <2>3, <2>5 DEF Advanced
    <3> HIDE DEF b
    <3>4. q \in Proposal /\ q.status = updated_status(b, now) /\ update(q) = q
      BY <3>2, UpdateIs, UpdateTwice, Zenon DEF b
    <3>5. q.status # "Queued"
      BY <3>2, <3>4, StatusStep
    <3> QED
      BY <3>3, <3>4, <3>5, Zenon
  <2> HIDE DEF q, old
  <2>7. /\ r \in Loop(s) /\ r.taken = n
        /\ r.count = IF q.status \in Active THEN a.count + 1 ELSE a.count
    <3>1. /\ r \in Loop(s) /\ r.taken = a.taken + 1
          /\ r.count = IF q.status \in Active THEN a.count + 1 ELSE a.count
      BY <2>1, Zenon DEF IsPromoted, q, old
    <3>2. n \in Nat
      BY <1>0
    <3>3. r.taken = n
      BY <2>0, <3>1, <3>2
    <3> QED
      BY <3>1, <3>3, Zenon
  <2> HIDE DEF r, D, N, id
  <2>8. /\ r.s.proposals[id] = q
        /\ \A x \in D \ {id} : r.s.proposals[x] = a.s.proposals[x]
        /\ r.s.active = IF q.status \in Active THEN a.s.active \cup {id}
                                               ELSE a.s.active \ {id}
    BY <1>1, <2>2 DEF IsSet
  <2>9. /\ a.s.active = {x \in D : a.s.proposals[x].status \in Active}
        /\ id \notin a.s.active
    BY <2>3 DEF LoopInv, Active, D, old
  <2>10. r.count = Cardinality(r.s.active)
    <3>1. IsFiniteSet(a.s.active)
      BY <1>0, <2>9, FiniteSubset
    <3>2. Cardinality(a.s.active \cup {id}) = Cardinality(a.s.active) + 1
      BY <2>9, <3>1, CardinalityAdd, Zenon
    <3>3. a.s.active \ {id} = a.s.active
      BY <2>9
    <3> QED
      BY <1>1, <2>7, <2>8, <3>2, <3>3, Zenon
  <2>11. r.s.active = {x \in D : r.s.proposals[x].status \in Active}
    BY <1>0, <2>8, <2>9
  <2>12. ASSUME NEW x \in D
         PROVE  r.s.proposals[x].status = "Queued" <=>
                  \E m \in (r.taken + 1)..N : s.queue[m] = x
    <3>1. CASE x = id
      <4>1. ~ \E m \in (n + 1)..N : s.queue[m] = id
        <5> SUFFICES ASSUME NEW m \in (n + 1)..N, s.queue[m] = s.queue[n] PROVE FALSE
          BY DEF id
        <5>1. m \in DOMAIN s.queue /\ n \in DOMAIN s.queue /\ m # n
          BY <1>0 DEF N
        <5> QED
          BY <5>1, Zenon DEF IsInjective
      <4> QED
        BY <2>6, <2>7, <2>8, <3>1, <4>1
    <3>2. CASE x # id
      <4>1. a.s.proposals[x].status = "Queued" <=>
              \E m \in (a.taken + 1)..N : s.queue[m] = x
        BY DEF LoopInv, D, N
      <4>2. (\E m \in n..N : s.queue[m] = x) <=> \E m \in (n + 1)..N : s.queue[m] = x
        BY <1>0, <3>2 DEF id
      <4>3. a.taken + 1 = n
        BY <1>0, <2>0
      <4> QED
        BY <2>7, <2>8, <3>2, <4>1, <4>2, <4>3
    <3> QED
      BY <3>1, <3>2
  <2>13. \A x \in D : Advanced(s.proposals[x], r.s.proposals[x])
    BY <2>6, <2>8 DEF LoopInv, D
  <2>14. \A x \in r.s.active : update(r.s.proposals[x]) = r.s.proposals[x]
    BY <2>6, <2>8, <2>9 DEF LoopInv
  <2>15. r.taken \in 0..n /\ (r.count < max => r.taken = n)
    BY <1>0, <2>7
  <2>16. LoopInv(s, max, n, r)
    BY <2>7, <2>10, <2>11, <2>12, <2>13, <2>14, <2>15, Zenon DEF LoopInv, D, N
  <2> QED
    BY <2>16 DEF r, id
<1> QED
  BY <1>1, <1>2, <1>3

-----------------------------------------------------------------------------
(* Advancing the queue. *)

\* The active proposals are updated, the others are not touched.
LEMMA RefreshedIs ==
    ASSUME NEW s \in StoredState
    PROVE  /\ Refreshed(s) \in Seq(Proposal)
           /\ DOMAIN Refreshed(s) = DOMAIN s.proposals
           /\ \A id \in DOMAIN s.proposals :
                 Refreshed(s)[id] = IF id \in s.active THEN update(s.proposals[id])
                                                       ELSE s.proposals[id]
<1> DEFINE Now(id) == IF id \in s.active THEN update(s.proposals[id]) ELSE s.proposals[id]
           N == Len(s.proposals)
           f == [id \in DOMAIN s.proposals |-> Now(id)]
<1>1. N \in Nat /\ DOMAIN s.proposals = 1..N /\ \A id \in 1..N : s.proposals[id] \in Proposal
  BY DEF StoredState
<1>2. \A id \in 1..N : Now(id) \in Proposal
  BY <1>1, UpdateIs
<1> HIDE DEF Now, N
<1>3. f \in Seq(Proposal) /\ Len(f) = N /\ \A id \in 1..N : f[id] = Now(id)
  BY <1>1, <1>2
<1> HIDE DEF f
<1>4. /\ SubSeq(f, 1, N) \in Seq(Proposal) /\ Len(SubSeq(f, 1, N)) = N
      /\ \A id \in 1..N : SubSeq(f, 1, N)[id] = f[id]
  BY <1>1, <1>3
<1>5. Refreshed(s) = SubSeq(f, 1, N)
  BY DEF Refreshed, f, Now, N
<1>6. DOMAIN Refreshed(s) = 1..N
  BY <1>4, <1>5
<1>7. \A id \in 1..N : Refreshed(s)[id] = Now(id)
  BY <1>3, <1>4, <1>5, Zenon
<1> QED
  BY <1>1, <1>4, <1>5, <1>6, <1>7 DEF Now

\* What the loop starts from: the indexes agree with the statuses, and every
\* proposal that still has a slot is up to date.
IsVacated(b, s) ==
    /\ b \in Loop(b.s)
    /\ b.s.queue = s.queue
    /\ DOMAIN b.s.proposals = DOMAIN s.proposals
    /\ Indexed(b.s)
    /\ b.count = Cardinality(b.s.active)
    /\ b.taken = 0
    /\ \A id \in DOMAIN s.proposals :
          b.s.proposals[id] = IF id \in s.active THEN update(s.proposals[id])
                                                 ELSE s.proposals[id]
    /\ b.freed = FreedTimes(b.s.proposals, s.active \ b.s.active)
    /\ b.s.active \subseteq s.active

\* The first half of compute_queue_advance.
LEMMA VacatedIs ==
    ASSUME NEW s \in StoredState, Indexed(s), now \in Nat \ {0}
    PROVE  IsVacated(Vacated(s), s)
<1> DEFINE cur == Refreshed(s)
           exiting == {id \in s.active : cur[id].status \notin Active}
           act == s.active \ exiting
           fr == FreedTimes(cur, exiting)
           b == [count |-> Cardinality(act), freed |-> fr, taken |-> 0,
                 s |-> [s EXCEPT !.proposals = cur, !.active = act]]
           D == DOMAIN s.proposals
<1>1. /\ s.proposals \in Seq(Proposal) /\ s.active \subseteq Nat /\ s.queue \in Seq(Nat)
      /\ D = 1..Len(s.proposals) /\ Len(s.proposals) \in Nat
      /\ \A id \in D : s.proposals[id] \in Proposal
  BY DEF StoredState
<1>2. /\ cur \in Seq(Proposal) /\ DOMAIN cur = D
      /\ \A id \in D : cur[id] = IF id \in s.active THEN update(s.proposals[id])
                                                    ELSE s.proposals[id]
  BY RefreshedIs
<1>3. Vacated(s) = b
  BY Zenon DEF Vacated, is_active_status
<1> HIDE DEF cur
<1>4. s.active \subseteq D /\ IsFiniteSet(act)
  <2>1. s.active \subseteq D
    BY DEF Indexed
  <2>2. IsFiniteSet(D)
    BY <1>1, FinUpTo
  <2>3. act \subseteq D
    BY <2>1
  <2> QED
    BY <2>1, <2>2, <2>3, FiniteSubset
<1>5. Cardinality(act) \in Nat
  BY <1>4, CardinalityNat
<1>6. fr \in Seq(Nat \ {0})
  BY <1>2, FreedTimesAre
<1>7. act = {id \in D : cur[id].status \in Active}
  BY <1>2, <1>4 DEF Indexed
<1>8. {id \in D : cur[id].status = "Queued"} = {id \in D : s.proposals[id].status = "Queued"}
  <2>1. ASSUME NEW id \in D PROVE cur[id].status = "Queued" <=> s.proposals[id].status = "Queued"
    <3>1. CASE id \notin s.active
      BY <1>2, <3>1
    <3>2. CASE id \in s.active
      <4>1. s.proposals[id].status \in Active
        BY <3>2 DEF Indexed
      <4>2. cur[id].status = updated_status(s.proposals[id], now)
        BY <1>1, <1>2, <3>2, UpdateIs
      <4> QED
        BY <1>1, <4>1, <4>2, StatusStep DEF Active
    <3> QED
      BY <3>1, <3>2
  <2> QED
    BY <2>1
<1>9. s.active \ act = exiting
  OBVIOUS
<1> HIDE DEF act, fr, exiting
<1>10. /\ b.s \in StoredState /\ b.s.proposals = cur /\ b.s.active = act /\ b.s.queue = s.queue
       /\ b.count = Cardinality(act) /\ b.freed = fr /\ b.taken = 0
  <2> DEFINE z == [s EXCEPT !.proposals = cur, !.active = act]
  <2>1. act \subseteq Nat
    BY <1>1, <1>7
  <2>2. z \in StoredState /\ z.proposals = cur /\ z.active = act /\ z.queue = s.queue
    BY <1>1, <1>2, <2>1, Zenon DEF StoredState
  <2> HIDE DEF z
  <2>3. b.s = z
    BY DEF z
  <2> QED
    BY <2>2, <2>3
<1>11. b \in [count: Nat, freed: Seq(Nat \ {0}), taken: Nat, s: StoredState]
  BY <1>5, <1>6, <1>10
<1> HIDE DEF b
<1>12. b \in Loop(b.s)
  BY <1>11 DEF Loop
<1>13. Indexed(b.s)
  BY <1>2, <1>7, <1>8, <1>10 DEF Indexed
<1>14. b.freed = FreedTimes(b.s.proposals, s.active \ b.s.active)
  BY <1>9, <1>10 DEF fr
<1>15. b.s.active \subseteq s.active
  BY <1>10 DEF act
<1>16. IsVacated(b, s)
  BY <1>2, <1>10, <1>12, <1>13, <1>14, <1>15 DEF IsVacated
<1> QED
  BY <1>3, <1>16

\* h[n] is the state of the loop after n turns of internal_advance_queue from s.
Runs(h, s, max) ==
    /\ h[0] = Vacated(s)
    /\ \A n \in 1..Len(s.queue) : h[n] = Promote(h[n - 1], s.queue[n], max)
    /\ \A n \in 0..Len(s.queue) : LoopInv(Vacated(s).s, max, n, h[n])
    /\ Advance(s, max) =
         [h[Len(s.queue)].s EXCEPT !.queue = SubSeq(@, h[Len(s.queue)].taken + 1, Len(@))]

\* The loop runs, and keeps its invariant.
LEMMA AdvanceRuns ==
    ASSUME NEW s \in StoredState, Indexed(s), NEW max \in Nat, now \in Nat \ {0}
    PROVE  \E h : Runs(h, s, max)
<1> DEFINE b == Vacated(s)
           z == b.s
           h == PromotedUpTo(b, max)
           N == Len(s.queue)
           T == {n \in 0..N : LoopInv(z, max, n, h[n])}
<1>1. IsVacated(b, s)
  BY VacatedIs
<1> HIDE DEF b
<1>2. /\ b \in Loop(z) /\ z \in StoredState /\ z.queue = s.queue
      /\ DOMAIN z.proposals = DOMAIN s.proposals
      /\ Indexed(z) /\ b.count = Cardinality(z.active) /\ b.taken = 0
  BY <1>1 DEF IsVacated, Loop
<1>3. z.queue \in Seq(Nat) /\ N \in Nat /\ DOMAIN z.queue = 1..N
  BY <1>2 DEF StoredState
<1>4. Range(z.queue) \subseteq DOMAIN z.proposals /\ IsInjective(z.queue)
  BY <1>2 DEF Indexed
<1>5. \A n \in 1..N : z.queue[n] \in DOMAIN z.proposals
  BY <1>3, <1>4 DEF Range
<1>6. h[0] = b /\ \A n \in 1..N : h[n] = Promote(h[n - 1], z.queue[n], max)
  BY <1>2, <1>5, PromotedRecursion
<1>7. 0 \in T
  <2>1. LoopInv(z, max, 0, b)
    <3> HIDE DEF z
    <3>1. z.active = {id \in DOMAIN z.proposals : z.proposals[id].status \in Active}
      BY <1>2 DEF Indexed
    <3>2. \A id \in DOMAIN z.proposals :
            z.proposals[id].status = "Queued" <=> \E m \in 1..N : z.queue[m] = id
      <4>1. \A id \in DOMAIN z.proposals :
              z.proposals[id].status = "Queued" <=> id \in Range(z.queue)
        BY <1>2 DEF Indexed
      <4> QED
        BY <1>3, <4>1 DEF Range
    <3>3. \A id \in DOMAIN z.proposals : Advanced(z.proposals[id], z.proposals[id])
      BY DEF Advanced
    <3>4. \A id \in z.active : update(z.proposals[id]) = z.proposals[id]
      <4> SUFFICES ASSUME NEW id \in z.active
                   PROVE  update(z.proposals[id]) = z.proposals[id]
        OBVIOUS
      <4>1. id \in DOMAIN s.proposals /\ id \in s.active
        BY <1>1, <1>2, <3>1 DEF IsVacated, z
      <4>2. z.proposals[id] = update(s.proposals[id]) /\ s.proposals[id] \in Proposal
        BY <1>1, <4>1 DEF IsVacated, z, StoredState
      <4> QED
        BY <4>2, UpdateTwice
    <3>5. 0 \in 0..0 /\ b.taken + 1 = 1 /\ N = Len(z.queue)
      BY <1>2
    <3>6. b.s = z
      BY DEF z
    <3> HIDE DEF N
    <3>7. \A id \in DOMAIN z.proposals :
            z.proposals[id].status = "Queued" <=>
              \E m \in (b.taken + 1)..Len(z.queue) : z.queue[m] = id
      BY <3>2, <3>5
    <3> QED
      BY <1>2, <3>1, <3>3, <3>4, <3>5, <3>6, <3>7, Zenon DEF LoopInv
  <2> HIDE DEF z, h
  <2> QED
    BY <1>3, <1>6, <2>1
<1>8. ASSUME NEW n \in 1..N, n - 1 \in T PROVE n \in T
  <2> HIDE DEF z, h
  <2>1. LoopInv(z, max, n - 1, h[n - 1]) /\ n \in 1..Len(z.queue)
    BY <1>2, <1>8
  <2>2. LoopInv(z, max, n, Promote(h[n - 1], z.queue[n], max))
    BY <1>2, <1>4, <2>1, PromoteStep
  <2> QED
    BY <1>3, <1>6, <2>2
<1>9. \A n \in 0..N : n \in T
  <2> HIDE DEF T, N
  <2> QED
    BY <1>3, <1>7, <1>8, BoundedInduction, Zenon
<1>10. Advance(s, max) = [h[N].s EXCEPT !.queue = SubSeq(@, h[N].taken + 1, Len(@))]
  <2>1. Promotions(b, max) = h[Len(b.s.queue)]
    BY Zenon DEF Promotions, PromotedUpTo, h
  <2>2. Promotions(b, max) = h[N]
    BY <1>2, <2>1
  <2> HIDE DEF h, N
  <2>3. Promotions(Vacated(s), max) = h[N]
    BY <2>2 DEF b
  <2> QED
    BY <2>3, Zenon DEF Advance
<1> HIDE DEF h
<1>11. Runs(h, s, max)
  <2>1. h[0] = Vacated(s)
    BY <1>6 DEF b
  <2>2. \A n \in 1..Len(s.queue) : h[n] = Promote(h[n - 1], s.queue[n], max)
    BY <1>2, <1>6
  <2>3. \A n \in 0..Len(s.queue) : LoopInv(Vacated(s).s, max, n, h[n])
    BY <1>9 DEF b
  <2> QED
    BY <1>10, <2>1, <2>2, <2>3 DEF Runs
<1> QED
  BY <1>11

\* r is s with the queue advanced: proposals only move as Advanced says, the
\* indexes agree with the statuses, the queue lost a prefix and is blocked only
\* by full slots, and everything in a slot is up to date.
IsAdvanced(r, s, max) ==
    /\ r \in StoredState
    /\ Indexed(r)
    /\ DOMAIN r.proposals = DOMAIN s.proposals
    /\ \A id \in DOMAIN s.proposals : Advanced(s.proposals[id], r.proposals[id])
    /\ \A id \in r.active : update(r.proposals[id]) = r.proposals[id]
    /\ r.queue # <<>> => Cardinality(r.active) >= max
    /\ \E k \in 0..Len(s.queue) : r.queue = SubSeq(s.queue, k + 1, Len(s.queue))

\* What internal_advance_queue does.
LEMMA AdvanceIs ==
    ASSUME NEW s \in StoredState, Indexed(s), NEW max \in Nat, now \in Nat \ {0}
    PROVE  IsAdvanced(Advance(s, max), s, max)
<1> DEFINE b == Vacated(s)
           z == b.s
           N == Len(s.queue)
           D == DOMAIN s.proposals
           r == Advance(s, max)
<1>1. PICK h : Runs(h, s, max)
  BY AdvanceRuns
<1> DEFINE a == h[N]
           k == a.taken
           q == SubSeq(s.queue, k + 1, N)
<1>2. IsVacated(b, s)
  BY VacatedIs
<1>3. /\ s.queue \in Seq(Nat) /\ N \in Nat /\ DOMAIN s.queue = 1..N
      /\ \A id \in D : s.proposals[id] \in Proposal
  BY DEF StoredState
<1>4. LoopInv(z, max, N, a)
  BY <1>1, <1>3 DEF Runs
<1>5. r = [a.s EXCEPT !.queue = SubSeq(@, k + 1, Len(@))]
  BY <1>1, Zenon DEF Runs
<1> HIDE DEF r, b, a
<1>6. /\ z.queue = s.queue /\ DOMAIN z.proposals = D
      /\ \A id \in D : z.proposals[id] = IF id \in s.active THEN update(s.proposals[id])
                                                            ELSE s.proposals[id]
  BY <1>2 DEF IsVacated
<1> HIDE DEF z
<1>7. /\ a.s \in StoredState /\ a.s.queue = s.queue /\ DOMAIN a.s.proposals = D
      /\ k \in 0..N /\ (a.count < max => k = N) /\ a.count = Cardinality(a.s.active)
      /\ a.s.active = {id \in D : a.s.proposals[id].status \in Active}
      /\ \A id \in D : a.s.proposals[id].status = "Queued" <=>
                         \E m \in (k + 1)..N : s.queue[m] = id
      /\ \A id \in D : Advanced(z.proposals[id], a.s.proposals[id])
      /\ \A id \in a.s.active : update(a.s.proposals[id]) = a.s.proposals[id]
      /\ a.count \in Nat
  <2>1. a \in Loop(z) /\ N = Len(z.queue)
    BY <1>4, <1>6, Zenon DEF LoopInv
  <2>2. /\ a.s \in StoredState /\ a.s.queue = s.queue /\ DOMAIN a.s.proposals = D
        /\ a.count \in Nat
    BY <1>6, <2>1 DEF Loop
  <2>3. /\ k \in 0..N /\ (a.count < max => k = N) /\ a.count = Cardinality(a.s.active)
        /\ \A id \in a.s.active : update(a.s.proposals[id]) = a.s.proposals[id]
    BY <1>4, Zenon DEF LoopInv
  <2>4. /\ a.s.active = {id \in D : a.s.proposals[id].status \in Active}
        /\ \A id \in D : Advanced(z.proposals[id], a.s.proposals[id])
    BY <1>4, <1>6, Zenon DEF LoopInv
  <2>5. \A id \in D : a.s.proposals[id].status = "Queued" <=>
                      \E m \in (k + 1)..N : s.queue[m] = id
    BY <1>4, <1>6, Zenon DEF LoopInv
  <2> QED
    BY <2>2, <2>3, <2>4, <2>5, Zenon
<1> HIDE DEF k
<1>8. /\ q \in Seq(Nat) /\ Len(q) = N - k /\ DOMAIN q = 1..(N - k)
      /\ \A i \in 1..(N - k) : q[i] = s.queue[k + i]
  <2> DEFINE sq == s.queue
  <2>1. sq \in Seq(Nat) /\ N = Len(sq) /\ N \in Nat /\ k \in 0..N
    BY <1>3, <1>7, Zenon
  <2> HIDE DEF sq, N
  <2>2. k + 1 \in 1..(Len(sq) + 1) /\ Len(sq) \in k..Len(sq)
    BY <2>1
  <2>3. /\ SubSeq(sq, k + 1, N) \in Seq(Nat)
        /\ Len(SubSeq(sq, k + 1, N)) = N - k
        /\ \A i \in 1..(N - k) : SubSeq(sq, k + 1, N)[i] = sq[k + i]
    BY <2>1, <2>2
  <2>4. q = SubSeq(sq, k + 1, N)
    BY DEF q, sq
  <2>5. /\ q \in Seq(Nat) /\ Len(q) = N - k
        /\ \A i \in 1..(N - k) : q[i] = sq[k + i]
    BY <2>3, <2>4, Zenon
  <2> HIDE DEF q
  <2>6. DOMAIN q = 1..(N - k)
    BY <2>5
  <2> QED
    BY <2>5, <2>6 DEF sq
<1> HIDE DEF q, N
<1>20. N \in Nat /\ k \in 0..N /\ DOMAIN s.queue = 1..N
  BY <1>3, <1>7
<1>21. N \in Nat /\ k \in Nat /\ k <= N
  BY <1>20
<1>22. \A i \in 1..(N - k) : i \in Int /\ k + i \in (k + 1)..N /\ k + i \in 1..N
  BY <1>21
<1>23. \A i \in DOMAIN q : /\ i \in Int /\ k + i \in (k + 1)..N
                           /\ k + i \in DOMAIN s.queue /\ q[i] = s.queue[k + i]
  BY <1>8, <1>20, <1>22, Zenon
<1>9. /\ r \in StoredState /\ r.queue = q /\ r.proposals = a.s.proposals
      /\ r.active = a.s.active
  <2>1. r = [a.s EXCEPT !.queue = q]
    BY <1>5, <1>7 DEF q, N
  <2> QED
    BY <1>7, <1>8, <2>1, Zenon DEF StoredState
<1>10. ASSUME NEW id \in D PROVE Advanced(s.proposals[id], r.proposals[id])
  <2>1. Advanced(s.proposals[id], z.proposals[id])
    BY <1>6 DEF Advanced
  <2>2. Advanced(z.proposals[id], r.proposals[id])
    BY <1>7, <1>9
  <2> QED
    BY <1>3, <2>1, <2>2, AdvancedTwice
<1>11. Range(q) = {s.queue[m] : m \in (k + 1)..N}
  <2>1. ASSUME NEW m \in (k + 1)..N PROVE s.queue[m] \in Range(q)
    <3>1. m - k \in 1..(N - k) /\ k + (m - k) = m
      BY <1>20
    <3>2. m - k \in DOMAIN q /\ q[m - k] = s.queue[m]
      BY <1>8, <3>1
    <3> QED
      BY <3>2 DEF Range
  <2>2. ASSUME NEW i \in DOMAIN q PROVE \E m \in (k + 1)..N : q[i] = s.queue[m]
    BY <1>23, Zenon
  <2> QED
    BY <2>1, <2>2 DEF Range
<1>12. \A m \in 1..N : s.queue[m] \in D
  BY <1>3 DEF Indexed, Range
<1>13. Range(q) = {id \in D : r.proposals[id].status = "Queued"}
  <2>1. \A m \in (k + 1)..N : s.queue[m] \in D
    BY <1>12, <1>20
  <2>2. \A id \in D : r.proposals[id].status = "Queued" <=>
                      \E m \in (k + 1)..N : s.queue[m] = id
    BY <1>7, <1>9
  <2> QED
    BY <1>11, <2>1, <2>2
<1>14. IsInjective(q)
  <2> SUFFICES ASSUME NEW i \in DOMAIN q, NEW j \in DOMAIN q, q[i] = q[j] PROVE i = j
    BY DEF IsInjective
  <2>1. k + i \in DOMAIN s.queue /\ k + j \in DOMAIN s.queue
        /\ s.queue[k + i] = s.queue[k + j]
    BY <1>23, Zenon
  <2>2. k + i = k + j
    BY <2>1, Zenon DEF Indexed, IsInjective
  <2>3. i \in Int /\ j \in Int /\ k \in Int
    BY <1>21, <1>23
  <2>4. \A x, y, d \in Int : d + x = d + y => x = y
    OBVIOUS
  <2> QED
    BY <2>2, <2>3, <2>4, Zenon
<1>15. Indexed(r)
  BY <1>7, <1>9, <1>13, <1>14, Zenon DEF Indexed
<1>16. r.queue # <<>> => Cardinality(r.active) >= max
  <2> SUFFICES ASSUME q # <<>> PROVE a.count >= max
    BY <1>7, <1>9
  <2>1. Len(q) # 0
    BY <1>8
  <2>2. k # N
    BY <1>8, <1>21, <2>1
  <2>3. a.count \in Nat /\ ~ (a.count < max)
    BY <1>7, <2>2, Zenon
  <2> QED
    BY <2>3
<1>17. \E i \in 0..Len(s.queue) : r.queue = SubSeq(s.queue, i + 1, Len(s.queue))
  BY <1>7, <1>9 DEF q, N
<1>18. \A id \in r.active : update(r.proposals[id]) = r.proposals[id]
  BY <1>7, <1>9
<1>19. IsAdvanced(r, s, max)
  BY <1>7, <1>9, <1>10, <1>15, <1>16, <1>17, <1>18, Zenon DEF IsAdvanced
<1> QED
  BY <1>19 DEF r

=============================================================================
