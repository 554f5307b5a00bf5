SPECIFICATION FairSpec
CONSTANTS
    a = a
    b = b
    alice = alice
    Nobody = Nobody
    Node = {a, b}
    Author = {alice}
    Body = {0, 1}
    Unit <- TwoUnits
    Peers <- Pair
    Offered <- Overlap
    PageLimit = 1
    MaxHandlers = 1
    MaxFaults = 1
PROPERTIES
    AheadIsPulled
    RoundsEnd
