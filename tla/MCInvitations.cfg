CONSTANTS
    c1 = c1
    c2 = c2
    a1 = a1
    a2 = a2
    e1 = e1
    e2 = e2
    Creators = {c1, c2}
    Accepters = {a1, a2}
    Emails = {e1, e2}
    NoEmail = NoEmail
    NoToken = NoToken
    Window = 2
    Skew <- AppBehind
    MaxTime = 1
SPECIFICATION FairSpec
INVARIANTS
    TypeOK
    OneAccountPerLink
    OneLiveAccountPerAddress
    RefusalCreatesNothing
    SupersededClosed
    SupersededLinkRefused
PROPERTIES
    AcceptedRowsKept
    RequestsAnswered
    ImplementsLink
