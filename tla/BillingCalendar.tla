--------------------------- MODULE BillingCalendar ---------------------------
(***************************************************************************)
(* The calendar months of subscription billing (subscriptions.rs), in days *)
(* since 1970-01-01: the time of day is carried over unchanged.            *)
(***************************************************************************)
EXTENDS Integers

is_leap_year(year) == (year % 4 = 0 /\ year % 100 # 0) \/ year % 400 = 0

last_day_of_month(year, month) ==
    CASE month \in {4, 6, 9, 11} -> 30
      [] month = 2 -> IF is_leap_year(year) THEN 29 ELSE 28
      [] OTHER -> 31

\* Months are counted from March, so that the leap day ends the year.
CivilOfDayOfYear(year, doy) ==
    LET mp   == (5 * doy + 2) \div 153
        late == mp >= 10
    IN  [year  |-> IF late THEN year + 1 ELSE year,
         month |-> IF late THEN mp - 9 ELSE mp + 3,
         day   |-> doy - (153 * mp + 2) \div 5 + 1]

CivilOfYear(era, yoe, doe) ==
    CivilOfDayOfYear(era * 400 + yoe, doe - (365 * yoe + yoe \div 4 - yoe \div 100))

CivilOfEra(era, doe) ==
    CivilOfYear(era,
                (doe - doe \div 1460 + doe \div 36524 - doe \div 146096) \div 365,
                doe)

civil_from_days[days \in Nat] ==
    CivilOfEra((days + 719468) \div 146097, (days + 719468) % 146097)

days_from_civil(year, month, day) ==
    LET y   == year - (IF month <= 2 THEN 1 ELSE 0)
        era == y \div 400
        yoe == y - era * 400
        mp  == month + (IF month > 2 THEN -3 ELSE 9)
        doy == (153 * mp + 2) \div 5 + day - 1
    IN  era * 146097 + yoe * 365 + yoe \div 4 - yoe \div 100 + doy - 719468

billing_anchor_day_from_timestamp(day) == civil_from_days[day].day

Smaller(a, b) == IF a <= b THEN a ELSE b

\* index counts months from year 0.
DayInMonth(index, day) ==
    days_from_civil(index \div 12, (index % 12) + 1,
                    Smaller(day, last_day_of_month(index \div 12, (index % 12) + 1)))

\* Fault: the day of the last boundary takes the place of the anchor.
AddMonths_Drifts(civil, anchor_day, months) ==
    DayInMonth(civil.year * 12 + (civil.month - 1) + months, civil.day)

AddMonths(civil, anchor_day, months) ==
    DayInMonth(civil.year * 12 + (civil.month - 1) + months, anchor_day)

\* The same day of the month, or the last one of a month without it.
add_months_stripe_style(anchor_day, months, from) ==
    AddMonths(civil_from_days[from], anchor_day, months)
==============================================================================
