SPECIFICATION FairSpec
CONSTANTS
    Publishers = 2
    Capacity = 2
    ReplayLimit = 2
    MaxEvents = 4
    MaxDrops = 1
    MaxCrashes = 1
    Mishaps = {"insert", "drop", "replay", "power"}
    MaxMishaps = 1
CHECK_DEADLOCK FALSE
INVARIANTS
    StreamIsSound
PROPERTIES
    EveryEventArrives
