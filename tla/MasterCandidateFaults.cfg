CONSTANTS
    MaxInstances = 5
    InstanceIds <- MCInstanceIds
    NoInstance = 0
    DocumentIds <- MCInstanceIds
    NoDocumentId = 0
    Revisions <- MCRevisions
    NoRevision = "none"
    ListenersOf <- MCListenersOf
    Refusable = {}
    MaxGeneration = 9
    Faulty <- MCSecond
    Bounds <- MCCandidateFaults

SPECIFICATION OldFirst
CHECK_DEADLOCK FALSE

INVARIANT HealthyActiveSurvives
INVARIANT PollSucceeds
PROPERTY ShutdownCompletes
PROPERTY FailingEnds
PROPERTY ReplacementEnds
PROPERTY RunnerEnds
PROPERTY Converges
