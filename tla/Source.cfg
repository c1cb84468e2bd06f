SPECIFICATION Spec
CONSTANTS
    p1 = p1
    p2 = p2
    a1 = a1
    a2 = a2
    b1 = b1
    None = None
    Free = Free
    Dead = Dead
    Procs <- TwoProcs
    Snapshots <- ThreeSnapshots
    Ids <- TwoIds
    Ident <- Declared
    Ops <- EveryOp
    Faults <- AllFaults
INVARIANTS
    PointerWhole
    LeaseReturned
PROPERTIES
    IdentityReviewed
    RemovalComplete
