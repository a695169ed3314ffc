---------------------------- MODULE VotingCalendar ----------------------------
(***************************************************************************)
(* next_voting_start_ns of the voting contract: full voting of a FastTrack *)
(* proposal starts on the next Monday, 00:00 CET.  Day 0 of the epoch is a *)
(* Thursday, so the Mondays are the days congruent to 4 modulo 7.          *)
(***************************************************************************)
EXTENDS Integers

CONSTANTS
    NsPerDay,       \* NS_PER_DAY
    CetOffset       \* CET_OFFSET_NS, one hour

ASSUME CalendarAssumption ==
    /\ NsPerDay \in Nat \ {0}
    /\ CetOffset \in 0..NsPerDay

next_voting_start_ns(after_ns) ==
    LET days_since_epoch  == (after_ns + CetOffset) \div NsPerDay
        day_of_week       == days_since_epoch % 7
        days_until_monday == ((10 - day_of_week) % 7) + 1
    IN  (days_since_epoch + days_until_monday) * NsPerDay - CetOffset

\* The start of a Monday in CET.
MondayMidnight(t) ==
    \E week \in 0..t : t + CetOffset = (7 * week + 4) * NsPerDay
==============================================================================
