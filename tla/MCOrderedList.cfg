CONSTANTS
    r1 = r1
    r2 = r2
    r3 = r3
    m1 = m1
    m2 = m2
    Rows = {r1, r2, r3}
    Movers = {m1, m2}
    Nobody = Nobody
    Base = 4
    Widest = 2
    Positions <- Starts
    MaxLen = 8
    MaxMoves = 2
SPECIFICATION Spec
SYMMETRY Symmetry
INVARIANTS
    TypeOK
    LandsInGap
