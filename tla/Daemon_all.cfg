SPECIFICATION FairSpec
CONSTANTS
    MaxRequests = 4
    MaxFaults = 1
    MaxTaken = 5
    Images = {0, 1, 2}
    Keys = {k1}
    Kept = 1
    k1 = k1
    Keyed = {1, 2, 4}
    Asks <- MCAsks
    Alone = {3, 4}
CHECK_DEADLOCK FALSE
INVARIANTS
    OneUpdateAtATime
    PlanCanBeApplied
    ConsoleIsExclusive
PROPERTIES
    OnceByKey
    FirstBootOnce
