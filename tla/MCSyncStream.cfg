SPECIFICATION FairSpec
CONSTANTS
    alice = alice
    Node = {}
    Author = {alice}
    Body = {0}
    Client = {c}
    Unit <- MCUnit
    Offered <- MCUnit
    Federated <- FromPeers
    PageLimit = 2
    Capacity = 1
    MaxFaults = 1
INVARIANTS
    TypeOK
    QuietIsComplete
    OnlyPublicStreamed
PROPERTY Pushed
CHECK_DEADLOCK FALSE
