SPECIFICATION FairSpec
CONSTANTS
    i1 = i1
    i2 = i2
    Images = {i1, i2}
    Types <- MCTypes
    Payloads = {p1}
    NoPayload = NoPayload
    MaxMishaps = 1
CHECK_DEADLOCK FALSE
INVARIANTS
    ImagesAreWhole
PROPERTIES
    ReadyStays
    EveryImportSettles
