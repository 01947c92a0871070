SPECIFICATION SourceSpec
CONSTANTS
    Handlers = {h1, h2}
    Keys = {k1, k2}
    NoKey = NoKey
    MaxIssues = 2
    MaxRequests = 4
SYMMETRY Symmetry
CHECK_DEADLOCK FALSE
INVARIANTS
    VerdictIsSound
    UnverifiedIsRefused
