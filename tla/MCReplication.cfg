SPECIFICATION Spec
CONSTANTS
    a = a
    b = b
    alice = alice
    Nobody = Nobody
    Node = {a, b}
    Author = {alice}
    Body = {0, 1}
    Unit <- MCUnit
    Peers <- Pair
    Offered <- Everywhere
    PageLimit = 1
    MaxHandlers = 1
    MaxFaults = 1
INVARIANTS
    TypeOK
    AnsweredIsHeld
    PrivateStaysHome
    DrainedIsComplete
PROPERTIES
    ScoreIsFinal
    ImplementsUnitGraph
