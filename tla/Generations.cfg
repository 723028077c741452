CONSTANTS
    Ids = {g1, g2, g3, g4}
    Revisions = {"a", "b", "c"}
    Initial = "a"
    Restart <- MCRestart
    Api = {p1}
    MaxEdits = 1
    MaxCalls = 1
    MaxFaults = 2
SPECIFICATION FairSpec
INVARIANT OneGenerationAccepts
INVARIANT PermitPinsActive
INVARIANT ActiveServesUnlessDrained
INVARIANT PublishedRuntimeIsLive
PROPERTY Converges
PROPERTY StopCompletes
CHECK_DEADLOCK FALSE
