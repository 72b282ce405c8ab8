SPECIFICATION Spec
CONSTANTS
    Callers = {a, b}
    a = a
    b = b
    ReadOnlyParams <- MCReadOnlyParams
    Lower <- MCLower
    Requests <- MCRequests
    Device0 <- MCDevice0
    Faults = 1
    Asks = 2
SYMMETRY MCSymmetry
INVARIANTS
    FrontEndsAlike
CHECK_DEADLOCK FALSE
