CONSTANTS
    subOld = subOld
    rootOld = rootOld
    rootNew = rootNew
    None = None
    Points <- MCPoints
    Tars <- MCTars
    SubFiles <- MCSubFiles
    RootTars <- MCRootTars
SPECIFICATION Spec
PROPERTIES
    PruneSparesLastBackup
CHECK_DEADLOCK FALSE
