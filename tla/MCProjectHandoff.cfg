CONSTANTS
    Engineer = {ed, eve}
    Nobody = nobody
    Question = {q1, q2, q3}
    MaxRevision = 2

SPECIFICATION Spec
SYMMETRY Symmetry

INVARIANTS
    TypeOK
    AcceptedHasNoOpenQuestion
    OwnersAgree
    NoSilentBaselineChange
