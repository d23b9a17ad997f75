SPECIFICATION Spec
CONSTANTS
    Inputs <- MCInputs
    Universe <- MCUniverse
    SizeOf <- MCSizeOf
    Sorted <- MCSorted
    Cut = "cut"
    Now = 9
    None = None
INVARIANTS NewerIsKept FinishedIsRestored SecondHasNothingToDo EmptyDiffMeansSame
PROPERTY NamesChangeWhereWritable
