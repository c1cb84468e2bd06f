SPECIFICATION Spec
CONSTANTS
    c1 = c1
    c2 = c2
    c3 = c3
    NoLock = NoLock
    NoOwner = NoOwner
    Torn = Torn
    Calls <- MCCalls
    Reclaimers <- OneReclaimer
    Faults <- OrdinaryFaults
INVARIANTS
    MutualExclusion
PROPERTIES
    OnlyOwnLockRemoved
CHECK_DEADLOCK FALSE
