SPECIFICATION Spec
CONSTANTS
    a = a
    b = b
    e = e
    Peer = {a, b, e}
    Announcer = {a}
    Vote = {v}
    Check = {c}
    Proposed <- Extremes
    Claimed <- Claims
    MaxPeers = 2
    Top = 2
    Gain = 1
    Penalty = 2
    Sigma = 1
    KeepsClaim = FALSE
    MaxEntered = 2
    MaxFaults = 0
PROPERTY NudgeKeepsVotes
CHECK_DEADLOCK FALSE
