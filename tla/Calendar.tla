------------------------------ MODULE Calendar ------------------------------
(***************************************************************************)
(* The day, the week and the month a point in time belongs to, as prune    *)
(* calculates them from the time since the epoch.  The code counts         *)
(* nanoseconds, 86400 * 10^9 of them a day; TicksPerDay scales them down.  *)
(***************************************************************************)
EXTENDS Naturals

CONSTANT TicksPerDay

ASSUME TicksPerDayAssumption == TicksPerDay \in Nat \ {0}

\* Mutant: the day a point is nearest to, which for an afternoon is the next.
nearest_day_since_epoch(p) == (p + TicksPerDay \div 2) \div TicksPerDay

to_days_since_epoch(p) == p \div TicksPerDay

\* Mutant: weeks that start on thursdays, as the epoch did.
weeks_since_the_epoch_day(p) == p \div (7 * TicksPerDay)

\* The epoch was a thursday: three more days align the weeks to mondays.
to_weeks_since_epoch(p) == (p + 3 * TicksPerDay) \div (7 * TicksPerDay)

\* Year * 100 + month, by Howard Hinnant's civil_from_days: years that begin in
\* march, in eras of 400 years.
to_month_identifier_since_epoch(p) ==
    LET z   == to_days_since_epoch(p) + 719468
        era == z \div 146097
        doe == z - era * 146097
        yoe == (doe - doe \div 1460 + doe \div 36524 - doe \div 146096) \div 365
        doy == doe - (365 * yoe + yoe \div 4 - yoe \div 100)
        mp  == (5 * doy + 2) \div 153
        m   == IF mp < 10 THEN mp + 3 ELSE mp - 9
        y   == yoe + era * 400 + (IF m <= 2 THEN 1 ELSE 0)
    IN  y * 100 + m

=============================================================================
