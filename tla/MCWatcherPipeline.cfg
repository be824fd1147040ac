SPECIFICATION FairSpec
CONSTANTS
    a = a
    b = b
    Paths = {a, b}
    Artifacts = {}
    RawCapacity = 1
    Capacity = 1
    MaxScheduled = 1
    MaxEdits = 2
    MaxFaults = 1
INVARIANTS
    NoLostChange
    PendingIsScheduled
PROPERTIES
    EveryChangeIndexed
CHECK_DEADLOCK FALSE
