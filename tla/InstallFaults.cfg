SPECIFICATION FairSpec
CONSTANTS
    p1 = p1
    p2 = p2
    a1 = a1
    a2 = a2
    d1 = d1
    d2 = d2
    o1 = o1
    Absent = Absent
    Foreign = Foreign
    NoState = NoState
    NoPlan = NoPlan
    Digests <- TwoDigests
    Inodes <- OneInode
    Seed = d1
    Procs <- OneProc
    Forcing <- OneProc
    Arts <- TwoArts
    Linked <- OneArt
    Removable <- OneArt
    Varying <- TwoArts
    Preinstalled <- NoOne
    Others <- OneOther
    Faults <- Compensated
PROPERTIES
    CommandReturns
    AllOrNothing
