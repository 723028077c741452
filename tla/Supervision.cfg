\* Three identities and four generations: one completed replacement, one
\* rollback and a third attempt, with a stale or repeated candidate offered.
\* Two requests wait for one of three ids in the correlation table.
CONSTANTS
    a = a
    b = b
    c = c
    None = None
    InstanceIds <- MCInstanceIds
    NoInstance <- None
    Generations <- MCGenerations
    i = i
    j = j
    k = k
    NoId = NoId
    r = r
    NoRev = NoRev
    DocumentIds <- MCDocumentIds
    NoDocumentId <- NoId
    Revisions <- MCRevisions
    NoRevision <- NoRev
    MaxGeneration = 4
    RequestIds = {1, 2, 3}
    Epochs = {1, 2}
    MaxPending = 2
    MaxCorrelation = 4

SPECIFICATION SupervisionSpec
SYMMETRY MCSymmetry

INVARIANT RolesAgree
PROPERTY ImplementsHandover
PROPERTY ConsumedOnce
PROPERTY GenerationsNeverRepeat
INVARIANT ResolvedOnce
