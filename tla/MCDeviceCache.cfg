CONSTANTS
    speed = speed
    rpm = rpm
    filter = filter
    w1 = w1
    w2 = w2
    Poller = Poller
    None = None
    Params <- MCParams
    ReadIDs <- MCReadIDs
    BatchSize = 2
    FanWrites = {speed}
    FanReads = {rpm}
    Settle = 2
    Ramp = 2
    Ops <- MCOps
    Workers = {w1, w2}
    HasPoller = TRUE
    Budget = 3
SPECIFICATION FairSpec
INVARIANTS
    TypeOK
    LastPollHonest
    LockHeld
    SettleCovers
PROPERTIES
    NeverGoesBack
    OpsFinish
    Converges
