CONSTANTS
    d1 = d1
    d2 = d2
    s1 = s1
    h1 = h1
    None = None
    Devices = {d1, d2}
    Pages = {s1}
    Handlers = {h1}
    Buffer = 2
    Changes = 1
    Budget = 1
SPECIFICATION FairSpec
INVARIANTS
    EveryCardShows
