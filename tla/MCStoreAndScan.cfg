CONSTANTS
    sub = sub
    rootOld = rootOld
    None = None
    Points <- MCPoints
    Tars <- MCTars
    SubFiles <- MCSubFiles
    RootTars <- MCRootTars
SPECIFICATION PairSpec
INVARIANTS
    RestorableSurvives
CHECK_DEADLOCK FALSE
