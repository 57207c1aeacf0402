SPECIFICATION FairSpec
CONSTANTS
    p1 = p1  p2 = p2  vault = vault  swap = swap  v1 = v1  v2 = v2  f1 = f1
    Proc = {p1, p2}
    Program = {vault}
    Version = {v1, v2}
    IdSets <- NoIds
    Forms = {"value", "invalid"}
    MvMayFail = TRUE
    LockTimeout = 1
    MaxCommands = 3
    MaxCrashes = 1
INVARIANT UniqueUnlessOverlap
PROPERTY LossNeedsRace
PROPERTY CommandReturns
PROPERTY LockFreed
CHECK_DEADLOCK FALSE
