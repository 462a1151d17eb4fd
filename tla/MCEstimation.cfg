CONSTANTS
    Clarification = {q1}
    Request = {a1, a2}
    NoRequest = NoRequest
    Clerk = {c1}
    MaxReview = 2
    MaxEstimate = 2
    MaxPrice = 1

SPECIFICATION Spec
SYMMETRY Interchangeable

INVARIANTS
    TypeOK
    EstimateRestsOnFeasibleReview
    ApprovedAsSubmitted
    CompleteMeansApproved
    QuotedWasApproved
