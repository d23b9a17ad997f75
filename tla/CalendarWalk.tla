---------------------------- MODULE CalendarWalk ----------------------------
(***************************************************************************)
(* The civil calendar walked day by day from thursday 1970-01-01, against  *)
(* which the arithmetic of Calendar is checked.                            *)
(***************************************************************************)
EXTENDS Calendar

CONSTANT LastYear  \* bound: the walk ends with this year

VARIABLES tick, year, month, day, weekday, week

walkVars == <<tick, year, month, day, weekday, week>>

IsLeap(y) == (y % 4 = 0 /\ y % 100 # 0) \/ y % 400 = 0

DaysIn(m, y) ==
    IF m = 2
    THEN IF IsLeap(y) THEN 29 ELSE 28
    ELSE IF m \in {4, 6, 9, 11} THEN 30 ELSE 31

Thursday == 3  \* 0 is monday, as in weekday_names

WalkInit ==
    /\ tick = 0
    /\ year = 1970 /\ month = 1 /\ day = 1
    /\ weekday = Thursday
    /\ week = 0

SameDay ==
    /\ (tick + 1) % TicksPerDay # 0
    /\ UNCHANGED <<year, month, day, weekday, week>>

NextDate ==
    \/ /\ day < DaysIn(month, year)
       /\ day' = day + 1
       /\ UNCHANGED <<year, month>>
    \/ /\ day = DaysIn(month, year) /\ month < 12
       /\ day' = 1
       /\ month' = month + 1
       /\ UNCHANGED year
    \/ /\ day = 31 /\ month = 12 /\ year < LastYear
       /\ day' = 1
       /\ month' = 1
       /\ year' = year + 1

NewDay ==
    /\ (tick + 1) % TicksPerDay = 0
    /\ NextDate
    /\ weekday' = (weekday + 1) % 7
    /\ week' = IF weekday' = 0 THEN week + 1 ELSE week

WalkNext == tick' = tick + 1 /\ (SameDay \/ NewDay)

WalkSpec == WalkInit /\ [][WalkNext]_walkVars

\* A month of prune is a month of the calendar, leap years and centuries
\* included: no two months share an identifier, none is split.
MonthsAreCivil == to_month_identifier_since_epoch(tick) = year * 100 + month

\* A week of prune starts on a monday, so that the last backup of a week's
\* work is the one that is kept.
WeeksStartOnMonday == to_weeks_since_epoch(tick) = week

=============================================================================
