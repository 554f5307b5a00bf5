SPECIFICATION Spec
CONSTANTS
    a = a
    b = b
    h = h
    k = k
    NoOne = NoOne
    Agent = {a, b}
    Founders = {a, b}
    Handler = {h, k}
    Proposed <- Extremes
    Threshold = 2
    Top = 4
    Sigma = 1
    Persistent = TRUE
    MaxCount = 3
    MaxFaults = 1
INVARIANTS
    TypeOK
    ProbationEnds
    SponsorsWereMembers
PROPERTIES
    StandingIsKept
    ReturnsAreFresh
SYMMETRY Alike
CHECK_DEADLOCK FALSE
