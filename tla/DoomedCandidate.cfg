CONSTANTS
    MaxInstances = 2
    InstanceIds <- MCInstanceIds
    NoInstance = 0
    DocumentIds <- MCInstanceIds
    NoDocumentId = 0
    Revisions <- MCRevisions
    NoRevision = "none"
    ListenersOf <- MCListenersOf
    Refusable = {}
    MaxGeneration = 9
    Faulty <- MCSecond
    Bounds <- MCFrames

SPECIFICATION Spec
CHECK_DEADLOCK FALSE

INVARIANT HealthyActiveSurvives
