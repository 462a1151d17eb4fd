CONSTANTS
    Staff = {s1}
    Request = {a1, a2}
    MaxRevision = 1
    MaxVersion = 3
    MayFail = FALSE

SPECIFICATION FairSpec

INVARIANT OneUndecidedRequest

PROPERTIES
    ReleasedIsImmutable
    DecisionReachesOrder
