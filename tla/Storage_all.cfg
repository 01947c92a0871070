SPECIFICATION FairSpec
CONSTANTS
    MaxRequests = 3
    MaxCuts = 1
    PoolNames = {"tank"}
    SnapshotNames = {"@1", "@2"}
    Places <- MCPlaces
    Layouts <- MCLayouts
    Asks <- MCAsks
    Alone = {3}
CHECK_DEADLOCK FALSE
INVARIANTS
    Identity
    PoolIsReadBack
PROPERTIES
    VanishesByAsking
    MetadataStays
    EveryScrubJobEnds
