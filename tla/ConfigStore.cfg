SPECIFICATION Spec
CONSTANTS
    MaxSaves = 2
    MaxWrites = 3
    MaxFaults = 2
    MaxCrashes = 1
INVARIANT CanonicalIsWhole
INVARIANT LeftoversAreReported
PROPERTY NoLostUpdate
PROPERTY OutcomeIsTrue
CHECK_DEADLOCK FALSE
