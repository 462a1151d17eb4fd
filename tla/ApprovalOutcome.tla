--------------------------- MODULE ApprovalOutcome ---------------------------
(***************************************************************************)
(* What the approval engine promises the quotation, the sales order or the *)
(* estimate that asks for a decision: the outcome is what the votes say.   *)
(* There are no assignments, no current step and no accounts here, only    *)
(* who voted on what.  ApprovalEngine implements this specification.       *)
(***************************************************************************)
EXTENDS Naturals, FiniteSets

CONSTANTS Request, User, Step, Version, Workflow

VARIABLES
    status,     \* the outcome of each request so far
    version,    \* the workflow version it follows
    requester,  \* who asks
    votes       \* the votes cast: [step, by, verdict]

vars == <<status, version, requester, votes>>

StepsOf(r) == Workflow[version[r]].steps

\* Step s has enough votes among V.
Quorate(r, s, V) ==
    Cardinality({u \in User : [step |-> s, by |-> u, verdict |-> "APPROVED"] \in V})
        >= Workflow[version[r]].minimum[s]

\* The first step without its votes is the one that is due.
Due(r, s) ==
    /\ s \in StepsOf(r) /\ ~Quorate(r, s, votes[r])
    /\ \A t \in StepsOf(r) : t < s => Quorate(r, t, votes[r])

Init ==
    /\ status = [r \in Request |-> "NONE"]
    /\ version \in [Request -> Version]
    /\ requester \in [Request -> User]
    /\ votes = [r \in Request |-> {}]

Submit(r) ==
    /\ status[r] = "NONE"
    /\ status' = [status EXCEPT ![r] = "IN_PROGRESS"]
    /\ UNCHANGED <<version, requester, votes>>

\* A vote on the step that is due, once for each voter, and never by the
\* requester unless the version allows it.
Vote(r, u, s, verdict) ==
    /\ status[r] = "IN_PROGRESS"
    /\ Due(r, s)
    /\ requester[r] = u => Workflow[version[r]].allowSelf
    /\ \A d \in votes[r] : ~(d.step = s /\ d.by = u)
    /\ votes' = [votes EXCEPT ![r] = @ \cup {[step |-> s, by |-> u, verdict |-> verdict]}]
    /\ UNCHANGED <<version, requester>>

\* The vote that completes the last step approves the request.
Approve(r, u, s) ==
    /\ Vote(r, u, s, "APPROVED")
    /\ status' = [status EXCEPT ![r] =
         IF \A t \in StepsOf(r) : Quorate(r, t, votes'[r]) THEN "APPROVED" ELSE @]

\* One refusal is enough, where the step allows it.
Refuse(r, u, s) ==
    \E verdict \in {"REJECTED", "RETURNED"} :
        /\ verdict = "REJECTED" => Workflow[version[r]].mayReject[s]
        /\ verdict = "RETURNED" => Workflow[version[r]].mayReturn[s]
        /\ Vote(r, u, s, verdict)
        /\ status' = [status EXCEPT ![r] = verdict]

Cancel(r) ==
    /\ status[r] = "IN_PROGRESS"
    /\ status' = [status EXCEPT ![r] = "CANCELLED"]
    /\ UNCHANGED <<version, requester, votes>>

Next ==
    \E r \in Request :
        \/ Submit(r)
        \/ \E u \in User, s \in Step : Approve(r, u, s) \/ Refuse(r, u, s)
        \/ Cancel(r)

Spec == Init /\ [][Next]_vars

=============================================================================
