CONSTANTS
    tight = tight
    loose = loose
    Tiers = {tight, loose}
    Limit <- TwoLimits
    Window <- TwoWindows
    Second = 2
    MaxTime = 9
    MaxHits = 6
SPECIFICATION Spec
INVARIANTS
    TypeOK
    WindowLimit
    ServedWithinLimit
    RefusedOnlyWhenSpent
    RetryAfterHonest
