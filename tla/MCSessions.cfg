CONSTANTS
    s1 = s1
    s2 = s2
    u1 = u1
    u2 = u2
    r1 = r1
    r2 = r2
    r3 = r3
    Users = {u1, u2}
    SessionIds = {s1, s2}
    Requests = {r1, r2, r3}
    NoOne = NoOne
    Idle = 3
    Absolute = 5
    Floor = 1
    Skew <- AppBehind
    MaxDelay = 1
    MaxTime = 5
SPECIFICATION Spec
SYMMETRY Symmetry
VIEW Relevant
INVARIANTS
    TypeOK
    EndedSessionRefused
    OthersEnded
    AbsoluteCeiling
    IdlePromise
PROPERTY OwnSessionsOnly
