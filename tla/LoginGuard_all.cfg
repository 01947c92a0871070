SPECIFICATION GuardFairSpec
CONSTANTS
    Sources = {s1, s2}
    LockAfter = 3
    LockTicks = 4
    RateMax = 2
    RateTicks = 2
    SweepAbove = 1
    MaxRestarts = 1
INVARIANTS
    GuessingIsBounded
PROPERTIES
    LockEnds
