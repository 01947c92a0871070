SPECIFICATION Spec
CONSTANTS
    MaxRequests = 3
    MaxCuts = 1
    NewNames = {"n0"}
    IPs = {"mgmt", "other"}
    Listen = "mgmt"
    Asks <- MCAsks
    Alone = {3}
CHECK_DEADLOCK FALSE
INVARIANTS
    HostIsSound
    ListingsAreTrue
PROPERTIES
    ManagementStays
    MetadataIsOfThis
