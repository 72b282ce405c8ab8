CONSTANTS
    speed = speed
    power = power
    k1 = k1
    k2 = k2
    None = None
    Params = {speed}
    Requests <- MCRequests
    Callers = {k1, k2}
    Retries = 1
    Exchanges = 2
    Dials = 2
    Budget = 1
SPECIFICATION FairSpec
INVARIANTS
    TypeOK
    SureMeansApplied
    ReadsAreRecent
    LastWriteStands
PROPERTIES
    CallsReturn
CHECK_DEADLOCK FALSE
