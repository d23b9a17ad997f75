SPECIFICATION CommandSpec
CONSTANTS
    a = a
    b = b
    l1 = l1
    l2 = l2
    dir = dir
    link = link
    s3 = s3
    std_dir = std_dir
    std = std
    own = own
    zero = zero
    None = None
    Names = {a, b}
    Locations = {l1, l2, link}
    Keeps = {std, zero}
    Real <- MCReal
    Locals = {dir}
    StdDir = std_dir
    StdKeep = std
    ZeroKeep = zero
    Files <- MCFiles
    MaxEdits = 3
    Paths <- MCPaths
    Remotes <- MCRemotes
    FirstFs <- MCFirstFs
    Points = {"@2"}
    Tried = {"config", "store", "restore", "prune", "diff", "status", "import", "push", "fsck", "camera"}
    OptionWords <- MCOptions
    MaxWords = 3
    MaxLines = 2
INVARIANTS OneRulePerLocation OptionsAreHonoured
PROPERTIES  FilesStayFiles
CHECK_DEADLOCK FALSE
