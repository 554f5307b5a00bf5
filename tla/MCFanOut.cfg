SPECIFICATION FairSpec
CONSTANTS
    a = a
    b = b
    c = c
    alice = alice
    bob = bob
    carol = carol
    Nobody = Nobody
    Unregistered = Unregistered
    Elsewhere = Elsewhere
    BadUrl = BadUrl
    atA = atA
    toBob = toBob
    web = web
    garbage = garbage
    Node = {a, b}
    Host = {a, b, c}
    Url = {atA, toBob, web, garbage}
    Leads <- Web
    Under <- BelowA
    Address <- Published
    Author = {alice, bob, carol}
    Body = {0}
    Unit <- BothUnits
    Origin <- AtA
    Audience <- ToOthers
    Remote <- ByAddress
    Profile0 <- Homes
    Follows0 <- Fans
    Asked <- Changes
    MaxAttempts = 2
    MaxChanges = 1
    MaxFaults = 2
INVARIANTS
    TypeOK
    OnlyRecipients
    AckedIsDelivered
    RemoteIsSettled
    NobodyForgotten
PROPERTIES
    ImplementsInboxService
    FanOutEnds
CHECK_DEADLOCK FALSE
