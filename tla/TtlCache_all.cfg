SPECIFICATION CacheFairSpec
CONSTANTS
    Readers = {r1, r2}
    Writers = {w1, w2}
    Ttl = 2
    MaxFill = 1
    MaxChanges = 2
INVARIANTS
    StalenessIsBounded
PROPERTIES
    EventuallyCurrent
