SPECIFICATION Spec
CONSTANTS
    MaxSaves = 2
    MaxWrites = 1
    MaxFaults = 1
    MaxCrashes = 0
PROPERTY MismatchDoesNotWrite
CHECK_DEADLOCK FALSE
