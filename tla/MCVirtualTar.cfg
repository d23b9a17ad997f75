CONSTANTS
    Block = 2
    BufferSize = 4
    Entries <- MCEntries
    MaxEntries = 2
    SplitSizes = {6, 8}
    PartHeaders = {0, 2}
    Paddings = {"None", "Absolute", "Relative"}
    TargetSize = 6
    DiskUnit = 5
SPECIFICATION FairSpec
INVARIANTS
    PartsAddUp
    PartsMakeTheTar
    ReadsBack
PROPERTIES
    CopiesEnd
CHECK_DEADLOCK FALSE
