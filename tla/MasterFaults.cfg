CONSTANTS
    MaxInstances = 2
    InstanceIds <- MCInstanceIds
    NoInstance = 0
    DocumentIds <- MCInstanceIds
    NoDocumentId = 0
    Revisions <- MCAllRevisions
    NoRevision = "none"
    ListenersOf <- MCAllListenersOf
    Refusable <- MCBroken
    MaxGeneration = 9
    Faulty <- MCAll
    Bounds <- MCFaults

SPECIFICATION Spec
CHECK_DEADLOCK FALSE

INVARIANT SlotsMatchSupervisor
INVARIANT OneWorkerAdmits
INVARIANT RunningMeansServing
INVARIANT EveryWorkerHasARole
INVARIANT CatalogMatchesMaster
INVARIANT SameListeners
