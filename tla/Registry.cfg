CONSTANTS
    Names = {1, 2}
    ExecRevs = {3}
    Undelivered = {3}
    Revs = {1, 2, 3}
    NoFile = NoFile
    NoPlan = NoPlan
    NoProc = NoProc
    Procs = {p, q}
    p = p
    q = q
    Commands = {"init", "scaffold", "collection", "format", "vendor", "batch", "revendor", "promote", "refresh", "lock", "build", "publish"}
    Starts <- MCStarts
    MaxCommands = 2
    MaxOutside = 1
    Faults = TRUE
SPECIFICATION Spec
INVARIANTS GatesAreExact CopyIsRecorded
PROPERTIES RefusedLeavesNothing AppliedIsReviewed CommitIsCompiled
CHECK_DEADLOCK FALSE
SYMMETRY Symmetric
