SPECIFICATION FairSpec
CONSTANTS
    Jobs = {j1, j2}
    Full = 1
    MaxReports = 1
    MaxCrashes = 1
    Mishaps = {"drop", "panic", "dberror"}
    MaxMishaps = 2
CHECK_DEADLOCK FALSE
INVARIANTS
    TypeOK
    OutcomesAreTold
PROPERTIES
    FinalOutcome
    ImplementsLifecycle
    EveryJobSettles
