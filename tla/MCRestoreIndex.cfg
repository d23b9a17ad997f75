SPECIFICATION FairSpec
CHECK_DEADLOCK FALSE
CONSTANTS
    Paths <- MCPaths
    Absent <- MCAbsent
    Root = "root"
    Parent <- MCParent
    Above <- MCAbove
    Dirs <- MCDirs
    StorageDirs <- MCStorageDirs
    Home <- MCHome
    LinkTarget <- MCLinkTarget
    MaxFailed = 2
    None = None
INVARIANTS ReaddirIsExact NoFalseAbsence PassIsComplete
PROPERTIES DirOnStackIsFixed CallsAreAnswered
