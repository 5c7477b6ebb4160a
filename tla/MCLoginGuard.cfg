CONSTANTS
    alice = alice
    bob = bob
    home = home
    network = network
    a1 = a1
    a2 = a2
    Accounts = {alice, bob}
    Addresses = {home}
    Attempts = {a1, a2}
    Tiers <- Limits
    Second = 1
    MaxTime = 2
    MaxTries = 4
SPECIFICATION Spec
SYMMETRY Interchangeable
INVARIANTS
    TypeOK
    GuessesBounded
    SpentOnlyByFailures
    RetryAfterHonest
