CONSTANTS
    None = None
    Controllers = {k1}
    RemoteWrites <- MCTimerWrites
    Devices <- MCBoosts
    Changes <- MCBoosts
    PresetPct <- MCPresetPct
    Writes = 1
    Budget = 0
SPECIFICATION Spec
INVARIANTS
    ExclusiveAtRest
