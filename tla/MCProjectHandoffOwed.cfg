CONSTANTS
    Engineer = {ed}
    Nobody = nobody
    Question = {q1, q2}
    MaxRevision = 0

SPECIFICATION Spec
SYMMETRY Symmetry

INVARIANT ClarificationIsOwed
