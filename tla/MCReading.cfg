SPECIFICATION FairSpec
CONSTANTS
    alice = alice
    bob = bob
    r1 = r1
    r2 = r2
    Nobody = Nobody
    NoKey = NoKey
    Node = {}
    Author = {alice, bob}
    Body = {{}, {bob}}
    Unit <- MCUnit
    Reader = {r1, r2}
    Did <- Readers
    Forwarded <- MCForwarded
    RealIp <- MCRealIp
    Questions <- MCQuestions
    Stored0 <- MCStored
    Arriving <- MCArriving
    Deliveries <- MCDeliveries
    Follows0 <- BobFollowsAlice
    PageLimit = 1
    Limit = 1
    Window = 3
    Second = 2
    Skew = 1
    MaxChanges = 1
    MaxFaults = 1
INVARIANTS
    TypeOK
    OnlyEntitled
    WalkIsComplete
    BurstIsBounded
PROPERTY WalkEnds
