SPECIFICATION Spec
CONSTANTS
    alice = alice
    Node = {}
    Author = {alice}
    Body <- Links
    Unit <- PublicUnits
    Submitted <- PublicUnits
    MaxDepth = 2
    MaxFaults = 1
INVARIANTS
    TypeOK
    AnswerIsComplete
    AnswerIsConnected
CHECK_DEADLOCK FALSE
