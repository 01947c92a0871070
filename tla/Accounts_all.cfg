SPECIFICATION Spec
CONSTANTS
    Users = {u1, u2}
    Sessions = {s1, s2}
    Tokens = {t1}
    Requests = {r1, r2}
    Root = Root
    Nobody = Nobody
    Patches <- SomePatches
    MaxRequests = 3
    MaxPassword = 1
    MaxMishaps = 1
SYMMETRY Symmetry
CHECK_DEADLOCK FALSE
INVARIANTS
    CredentialsHaveOwners
    OldPasswordEndsSessions
PROPERTIES
    LastAdminIsKept
