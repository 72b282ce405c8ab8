CONSTANTS
    speed = speed
    power = power
    k1 = k1
    k2 = k2
    None = None
    Params = {speed, power}
    Requests <- MCWrites
    Callers = {k1}
    Retries = 1
    Exchanges = 2
    Dials = 1
    Budget = 0
SPECIFICATION Spec
INVARIANTS
    AckMeansApplied
CHECK_DEADLOCK FALSE
