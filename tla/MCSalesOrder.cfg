CONSTANTS
    Staff = {s1, s2}
    Request = {a1, a2}
    MaxRevision = 1
    MaxVersion = 1
    MayFail = TRUE

SPECIFICATION Spec
SYMMETRY Symmetry

INVARIANTS
    TypeOK
    ReleasedWasApproved
    BaselineIsNewestRelease
