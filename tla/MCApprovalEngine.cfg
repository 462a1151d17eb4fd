CONSTANTS
    ann = ann
    bob = bob
    cid = cid
    dee = dee
    direct = direct
    twoStep = twoStep
    Request = {r1}
    User <- MCUser
    Step = {1, 2}
    Version = {direct, twoStep}
    Workflow <- MCWorkflow
    Permitted <- MCPermitted

SPECIFICATION FairSpec

INVARIANTS
    TypeOK
    InOrder
    SeparationOfDuties

PROPERTIES
    OutcomeIsTheVotes
    DecidedUnlessStuck
