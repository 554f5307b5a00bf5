SPECIFICATION Spec
CONSTANTS
    a = a
    b = b
    alice = alice
    Nobody = Nobody
    Node = {a, b}
    Author = {alice}
    Body = {0, 1}
    Unit <- TwoUnits
    Peers <- Pair
    Offered <- Everywhere
    PageLimit = 1
    MaxHandlers = 1
    MaxFaults = 0
INVARIANT UpToDateAfterSync
