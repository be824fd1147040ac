SPECIFICATION Spec
CONSTANTS
    Requests = {r1, r2}
    LocalIndexers = {}
    RemoteIndexers = {i1}
    MaxWaves = 2
    MaxEdits = 1
    ActiveCapacity = 2
CHECK_DEADLOCK FALSE
INVARIANTS
    Freshness
    NoLiveWaiterCancelled
    NoLostWaiter
    SingleTask
    WaveAccounting
PROPERTIES
    ImplementsFreshRetrieval
    EveryCallReturns
