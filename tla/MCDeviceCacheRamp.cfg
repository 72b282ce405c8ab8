CONSTANTS
    speed = speed
    rpm = rpm
    filter = filter
    w1 = w1
    w2 = w2
    Poller = Poller
    None = None
    Params <- MCParams
    ReadIDs <- MCReadIDs
    BatchSize = 2
    FanWrites = {speed}
    FanReads = {rpm}
    Settle = 1
    Ramp = 1
    Ops <- MCOneOp
    Workers = {w1}
    HasPoller = TRUE
    Budget = 1
SPECIFICATION Spec
INVARIANT NoRampRecorded
