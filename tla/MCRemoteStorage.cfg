SPECIFICATION Spec
CONSTANTS
    both = both
    old = old
    None = None
    Points <- MCPoints
    Tars <- MCTars
    Plain <- MCPlain
    TarsOf <- MCTarsOf
    Namings <- MCNamings
INVARIANTS PromisedIsThere FsckOkMeansStored
PROPERTY CopyIsLocal
CHECK_DEADLOCK FALSE
