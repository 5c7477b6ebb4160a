CONSTANTS
    r1 = r1
    r2 = r2
    c1 = c1
    c2 = c2
    l1 = l1
    l2 = l2
    u1 = u1
    u2 = u2
    p1 = p1
    p2 = p2
    NoOne = NoOne
    Requesters = {r1, r2}
    Confirmers = {c1, c2}
    Logins = {l1}
    Users = {u1}
    Passwords = {p1, p2}
    FirstPassword = p1
    Window = 2
    Skew <- AppBehind
    MaxTime = 1
SPECIFICATION Spec
SYMMETRY Symmetry
VIEW Unanswered
INVARIANTS
    TypeOK
    OneConfirmationPerLink
    SupersededLinkRefused
    ResetEndsEarlierSessions
PROPERTIES
    PasswordChangesOnlyByReset
    MaskedAccountUntouched
    ImplementsLink
