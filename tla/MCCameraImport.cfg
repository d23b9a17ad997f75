SPECIFICATION Spec
CONSTANTS
    p1 = p1
    p2 = p2
    p3 = p3
    None = None
    Photos = {p1, p2, p3}
    Name <- MCName
    Size <- MCSize
    Suffix <- MCSuffix
    Hour <- MCHour
    Tells <- MCTells
    PathTells <- MCPathTells
    Media = {"jpg", "mp4"}
    Videos = {"mp4"}
    Masked = FALSE
    Directory = Directory
    Meta <- MCMeta
    First = {p1}
    MaxAttempts = 1
    MaxFaults = 3
    MaxRuns = 3
INVARIANTS DoneMeansArchived PartsAreOfGonePhotos
PROPERTIES ArchiveIsKept OnlyRefusalsHang
CHECK_DEADLOCK FALSE
