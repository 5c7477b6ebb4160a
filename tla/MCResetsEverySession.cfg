CONSTANTS
    r1 = r1
    r2 = r2
    c1 = c1
    c2 = c2
    l1 = l1
    l2 = l2
    u1 = u1
    u2 = u2
    p1 = p1
    p2 = p2
    NoOne = NoOne
    Requesters = {r1}
    Confirmers = {c1}
    Logins = {l1}
    Users = {u1}
    Passwords = {p1, p2}
    FirstPassword = p1
    Window = 2
    Skew = 0
    MaxTime = 2
SPECIFICATION Spec
SYMMETRY Symmetry
PROPERTY EverySessionGoes
