SPECIFICATION Spec
CONSTANTS
    alice = alice
    Node = {}
    Author = {alice}
    Body <- Links
    Unit <- MixedUnits
    Submitted <- MixedUnits
    MaxDepth = 2
    MaxFaults = 0
INVARIANT AnswerIsPublic
CHECK_DEADLOCK FALSE
