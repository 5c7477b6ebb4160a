CONSTANTS
    s1 = s1
    s2 = s2
    u1 = u1
    u2 = u2
    r1 = r1
    r2 = r2
    r3 = r3
    Users = {u1}
    SessionIds = {s1}
    Requests = {r1}
    NoOne = NoOne
    Idle = 3
    Absolute = 6
    Floor = 1
    Skew = 0
    MaxDelay = 1
    MaxTime = 4
SPECIFICATION Spec
SYMMETRY Symmetry
INVARIANT CookieKeepsUp
