CONSTANTS
    subOld = subOld
    rootOld = rootOld
    rootNew = rootNew
    None = None
    Points <- MCPoints
    Tars <- MCTars
    SubFiles <- MCSubFiles
    RootTars <- MCRootTars
SPECIFICATION FairSpec
INVARIANTS
    PromisedIntact
PROPERTIES
    PruneLeavesOnlyKept
    FsckLeavesNoBrokenPoint
    ImplementsPromise
    EndsUnlessStalled
CHECK_DEADLOCK FALSE
