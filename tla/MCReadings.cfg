CONSTANTS
    Units <- MCUnits
    Others <- MCOthers
    ReadIDs <- MCReadIDs
    BatchSize = 30
    FanWrites <- MCFanWrites
    FanReads <- MCFanReads
    Writes <- MCWrites
    DeviceID <- MCDeviceID
    Wildcard <- MCWildcard
    Password <- MCPassword
    Budget = 1
SPECIFICATION ReadingsSpec
INVARIANTS
    WireFaithful
    ViewsAgree
