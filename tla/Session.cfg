SPECIFICATION MCSpec
CONSTANTS
    None = None
    reg = reg
    own = own
    a1 = a1
    a2 = a2
    bundle = bundle
    claude = claude
    Sources <- MCSources
    Registries <- MCRegistries
    Required <- NoOne
    AllowDirect = TRUE
    Profiles <- MCProfiles
    Curations <- MCCurations
    Detailed <- MCDetailed
    Artifacts <- MCArtifacts
    Collections <- MCCollections
    Home <- MCHome
    Members <- MCMembers
    Fits <- MCFits
    SetUp <- MCSetUp
    Faults <- FaultKinds
    MaxChanges = 1
    MaxOutside = 1
INVARIANTS

    NoGhostRecord
    BasketIsOffered
    DefaultUsable
PROPERTIES
    Answered
CHECK_DEADLOCK FALSE
