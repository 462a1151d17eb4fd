CONSTANTS
    Request = {a1, a2}
    MaxRevision = 2
    MaxVersion = 2

SPECIFICATION FairSpec

INVARIANTS
    TypeOK
    SentWasCleared
    ConfirmedAfterSending
PROPERTIES
    FrozenIsKept
    DecisionReachesRevision

\* Staff may leave a quotation at rest; past the last revision it must.
CHECK_DEADLOCK FALSE
