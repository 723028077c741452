\* A TCP listener with a connection, a QUIC endpoint, a session and two controllers
\* that may both close and drain, for up to three transitions of the gate.
CONSTANTS
    Tasks = {t}
    Endpoints = {e}
    Conns = {conn}
    Sessions = {s1}
    Controllers = {c1, c2}
    MaxEpoch = 3
SPECIFICATION GateFairSpec
CHECK_DEADLOCK FALSE

INVARIANT QuiescedExcludesOwners
INVARIANT DrainedMeansIdle
PROPERTY StoppedForGood
PROPERTY ListenersResume
