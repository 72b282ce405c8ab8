CONSTANTS
    None = None
    Controllers = {k1, k2}
    RemoteWrites <- MCWrites
    Devices <- MCDevices
    Changes <- MCChanges
    PresetPct <- MCPresetPct
    Writes = 2
    Budget = 1
SPECIFICATION FairSpec
INVARIANTS
    ExclusiveUnlessOverlapped
    AloneFollows
PROPERTIES
    Settles
