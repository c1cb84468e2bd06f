SPECIFICATION FairSpec
CONSTANTS
    c1 = c1
    c2 = c2
    c3 = c3
    NoLock = NoLock
    NoOwner = NoOwner
    Torn = Torn
    Calls <- MCCalls
    Reclaimers <- AllReclaimers
    Faults <- AllFaults
INVARIANTS
    NoForgottenOwner
PROPERTIES
    AcquireReturns
CHECK_DEADLOCK FALSE
