SPECIFICATION Spec
CONSTANTS
    p1 = p1
    p2 = p2
    g1 = g1
    Publishers <- MCPublishers
    Collectors <- MCCollectors
    MaxAttempts = 2
    MaxFaults = 2
    Damage <- MCDamage
INVARIANTS
    RepairConverges
    NeverHalf
CHECK_DEADLOCK FALSE
