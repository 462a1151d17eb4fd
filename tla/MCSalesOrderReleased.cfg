CONSTANTS
    Staff = {s1, s2}
    Request = {a1, a2}
    MaxRevision = 0
    MaxVersion = 1
    MayFail = FALSE

SPECIFICATION Spec
SYMMETRY Symmetry

PROPERTY ReleasedIsImmutable
