CONSTANTS
    Keys <- MCKeys
    Bases <- MCBases
    BaseOf <- MCBaseOf
    SchemaOf <- MCSchemaOf
    Tagged <- MCTagged
    MaxEntries = 2
    MaxFiles = 2
    MaxInFlight = 2
    MaxFills = 3
    MaxTick = 4
    MaxPurges = 1
    MaxFaults = 1
    MaxCrashes = 1
SPECIFICATION Spec
CHECK_DEADLOCK FALSE
INVARIANT PurgesAreDurable
