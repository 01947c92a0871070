SPECIFICATION VmSpec
CONSTANTS
    MaxRequests = 3
    MaxCuts = 1
    MaxWrites = 1
    MaxDisks = 4
    Sizes = {1, 2}
    Isos = {7}
    Names = {"s"}
    Layouts <- MCLayouts
    Asks <- MCAsks
    Alone = {3}
CHECK_DEADLOCK FALSE
INVARIANTS
    DisksExist
PROPERTIES
    OnlyWhatIsAsked
    RollbackIsWhole
