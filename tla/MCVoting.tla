------------------------------ MODULE MCVoting ------------------------------
(* Small instances of Voting for TLC.  One unit of time is a day. *)
EXTENDS Voting, TLC

CONSTANTS a, b

OneVoter  == {a}
TwoVoters == {a, b}

OneVersion  == <<[v \in Voters |-> 1]>>
TwoVersions == <<(a :> 1 @@ b :> 2), (a :> 2 @@ b :> 1)>>

AllVote == <<Cardinality(Voters)>>
OneIdle == <<4, 4>>

NoExpiration == [Classic |-> 0, FastTrack |-> 0]
Expiration   == [Classic |-> 2, FastTrack |-> 2]
OneDay       == [Classic |-> 1, FastTrack |-> 1]
Majorities   == [Classic |-> {5000}, FastTrack |-> {5000, 6667}]

OneSlot       == <<1>>
OneOrTwoSlots == <<1, 2>>
=============================================================================
