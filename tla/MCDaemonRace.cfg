CONSTANTS
    Devices = {1, 2}
    Addresses = {"a", "b", "c"}
    None = None
    Torn = Torn
    Pins = {"p", "q"}
    Default <- MCDefault
    Configs <- MCConfigs
    Moves = 1
    Starts = 2
SPECIFICATION Spec
INVARIANTS
    MapSafe
\* An operator with no starts left may leave the daemon down.
CHECK_DEADLOCK FALSE
