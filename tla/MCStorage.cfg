SPECIFICATION Spec
CONSTANTS
    alice = alice
    bob = bob
    peer = peer
    s1 = s1
    s2 = s2
    Nobody = Nobody
    Node = {peer}
    Author = {alice, bob}
    Body <- MCBody
    Unit <- MCUnit
    UnitType = {"assertion", "inference"}
    Base = {0, 1}
    Seed = {s1, s2}
    NoSeed = NoSeed
    Top = 2
    Threshold = 2
    Scores = {0, 2}
    Filters <- MCFilters
    MaxCalls = 4
    MaxFaults = 1
INVARIANTS
    TypeOK
    ReadsAgree
    IdentityIsStable
PROPERTY ImplementsStorage
SYMMETRY Seeds
CHECK_DEADLOCK FALSE
