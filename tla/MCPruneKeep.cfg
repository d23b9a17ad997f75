CONSTANTS
    TicksPerDay = 4
    TicksPerSecond = 2
    Times <- MCTimes
    KeepRules <- MCKeepRules
SPECIFICATION Spec
INVARIANTS
    KeepsByRule
    NothingForgotten
CHECK_DEADLOCK FALSE
