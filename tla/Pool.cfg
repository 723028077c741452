CONSTANTS
    small = small
    large = large
    Servers <- MCServers
    any = any
    named = named
    Requests <- MCRequests
    Connectors = {c1, c2}
    Operators = {o}
    Ask <- MCAsk
    Configured <- MCConfigured
    States = {"Ready", "Maintenance"}
    HealthOverrides = {"Up"}
    Overrides = {2}
    Managed = {large}
    Startup = "Healthy"
    HealthyThreshold = 1
    UnhealthyThreshold = 1
    ErrorLimit = 1
    RecoveryThreshold = 1
    MarkDown = FALSE
    MarkUp = FALSE
    MaxEvents = 4
SPECIFICATION Spec
SYMMETRY Symmetric
CHECK_DEADLOCK FALSE
INVARIANT PermitsAreCounted
INVARIANT OnlyTheHeadSelects
INVARIANT SleepingHeadMustWait
INVARIANT SleepingConnectorMustWait
