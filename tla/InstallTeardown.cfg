SPECIFICATION Spec
CONSTANTS
    p1 = p1
    p2 = p2
    a1 = a1
    a2 = a2
    d1 = d1
    d2 = d2
    o1 = o1
    Absent = Absent
    Foreign = Foreign
    NoState = NoState
    NoPlan = NoPlan
    Digests <- TwoDigests
    Inodes <- TwoInodes
    Forcing <- NoOne
    Seed = d1
    Procs <- TwoProcs
    Arts <- TwoArts
    Linked <- OneArt
    Removable <- TwoArts
    Varying <- NoOne
    Preinstalled <- NoOne
    Others <- NoOne
    Faults <- NoFault
INVARIANT
    ScopeSerialized
