SPECIFICATION Spec
CONSTANTS
    p1 = p1
    d1 = d1
    d2 = d2
    Absent = Absent
    Foreign = Foreign
    None = None
    Free = Free
    Procs <- OneProc
    Width = 2
    MaxCommands = 4
    MaxEdits = 1
    Recipes <- SomeRecipes
    Digests <- TwoDigests
    Faults <- FaultKinds
INVARIANTS
    TakenBackIsRestored
    ConfiguredIsInPlace
    UndoRestores
    RecordRetained
PROPERTY
    FilesKept
SYMMETRY Symmetry
CHECK_DEADLOCK FALSE
