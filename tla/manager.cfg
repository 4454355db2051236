\* Leases of 15 s, renewed within 10 s, in ticks of 5 s.
SPECIFICATION FairSpec
CONSTANTS
    one = one
    two = two
    three = three
    None = None
    Replica <- Three
    LeaderElect = TRUE
    LeaseDuration = 3
    RenewDeadline = 2
    MaxFaults = 3
INVARIANTS TypeOK AtMostOneActive
PROPERTY TakesOver
