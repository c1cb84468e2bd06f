SPECIFICATION FairSpec
CONSTANTS
    w1 = w1
    w2 = w2
    NoFile = NoFile
    NoLock = NoLock
    NoOwner = NoOwner
    Torn = Torn
    Writers <- TwoWriters
    Reclaimers <- OneReclaimer
    Faults <- AllFaults
INVARIANTS
    OneWriter
PROPERTIES
    NoLostUpdate
    NamedLockRecovered
