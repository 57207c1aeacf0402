SPECIFICATION SeqSpec
CONSTANTS
    p1 = p1  p2 = p2  vault = vault  swap = swap  v1 = v1  v2 = v2  f1 = f1
    Proc = {p1, p2}
    Program = {vault, swap}
    Version = {v1, v2}
    IdSets <- TwoIdSets
    Forms = {"value", "stream"}
    MvMayFail = FALSE
    LockTimeout = 1
    MaxCommands = 4
    MaxCrashes = 1
INVARIANT AckedUnlessEmpty
PROPERTY ImplementsLog
CHECK_DEADLOCK FALSE
