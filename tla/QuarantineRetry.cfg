CONSTANTS
    Ids = {g1, g2, g3}
    Revisions = {"a", "b"}
    Initial = "a"
    Restart <- MCRestart
    Api = {p1}
    MaxEdits = 1
    MaxCalls = 0
    MaxFaults = 1
SPECIFICATION FairSpec
PROPERTY QuarantineIsRetried
CHECK_DEADLOCK FALSE
