SPECIFICATION ZoneFairSpec
CONSTANTS
    MaxJobs = 3
    MaxFaults = 1
CHECK_DEADLOCK FALSE
INVARIANTS
    DataIsOwned
    PurgedIsGone
PROPERTIES
    ZoneDataStays
    EveryJobEnds
