CONSTANTS
    TicksPerDay = 2
    LastYear = 2105
SPECIFICATION WalkSpec
INVARIANTS
    MonthsAreCivil
    WeeksStartOnMonday
CHECK_DEADLOCK FALSE
