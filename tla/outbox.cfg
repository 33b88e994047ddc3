SPECIFICATION FairSpec
CONSTANTS
    Events = {1, 2, 3}
    Poison = {2}
    Projectors = {p1, p2}
    BatchSize = 2
    MaxRetries = 2
    MaxFaults = 2
INVARIANTS
    DuplicatesNeedFaults
PROPERTIES
    ImplementsAtLeastOnce
    PendingIsSettled
