-------------------------- MODULE MCApprovalEngine --------------------------
(***************************************************************************)
(* Instances of ApprovalEngine for TLC: a one-approver workflow that allows *)
(* self approval and a two-step one whose first step needs two approvals.  *)
(***************************************************************************)
EXTENDS ApprovalEngine, TLC

CONSTANTS ann, bob, cid, dee, direct, twoStep

MCUser == {ann, bob, cid, dee}

MCPermitted ==
    [submit  |-> {ann, bob}, approve |-> {ann, bob, cid, dee}, reject |-> {bob},
     return  |-> {cid},      cancel  |-> {ann},           manage |-> {cid}]

MCWorkflow ==
    (direct :> [allowSelf |-> TRUE,
                steps     |-> {2},
                minimum   |-> <<1, 1>>,
                resolver  |-> <<{}, {ann, bob}>>,
                mayReject |-> <<TRUE, TRUE>>,
                mayReturn |-> <<TRUE, FALSE>>])
    @@
    (twoStep :> [allowSelf |-> FALSE,
                 steps     |-> {1, 2},
                 minimum   |-> <<2, 1>>,
                 resolver  |-> <<{ann, bob, cid}, {bob}>>,
                 mayReject |-> <<FALSE, TRUE>>,
                 mayReturn |-> <<TRUE, TRUE>>])

=============================================================================
