--------------------------- MODULE ApprovalEngine ---------------------------
(***************************************************************************)
(* The runtime of the approval engine (backend/apps/approvals): a request  *)
(* walks through the ordered steps of an activated workflow version; every *)
(* step collects the approvals of the users assigned to it.                *)
(*                                                                         *)
(* Every command of services.py runs in one transaction that begins with   *)
(* SELECT ... FOR UPDATE of the request row and reads everything else      *)
(* after that lock, so a command is one atomic step of this model.  Users  *)
(* lose and regain their account between any two commands.                 *)
(*                                                                         *)
(* A request copies the definition of its steps when it is submitted, so a *)
(* workflow version is a constant here.  All users belong to one company.  *)
(***************************************************************************)
EXTENDS Naturals, FiniteSets

CONSTANTS
    Request,    \* approval requests that may be submitted
    User,       \* accounts of the company
    Step,       \* sequence numbers of step definitions
    Version,    \* activated workflow versions
    Workflow,   \* what each version defines
    Permitted   \* permission -> the users whose roles grant it

Permission == {"submit", "approve", "reject", "return", "cancel", "manage"}

\* allowSelf: allow_self_approval; steps: the active step definitions; for
\* each step its minimum_approvals, the users its resolver names, allow_reject
\* and allow_return_for_changes.
WorkflowVersion ==
    [allowSelf : BOOLEAN,
     steps     : SUBSET Step \ {{}},
     minimum   : [Step -> Nat \ {0}],
     resolver  : [Step -> SUBSET User],
     mayReject : [Step -> BOOLEAN],
     mayReturn : [Step -> BOOLEAN]]

ASSUME StepsArePositive == Step \subseteq Nat \ {0}
ASSUME UsersAreFinite == IsFiniteSet(User)
ASSUME WorkflowAssumption == Workflow \in [Version -> WorkflowVersion]
ASSUME PermittedAssumption == Permitted \in [Permission -> SUBSET User]

VARIABLES
    active,     \* users whose account is active
    status,     \* ApprovalRequest.status, "NONE" before submission
    version,    \* ApprovalRequest.workflow_version
    requester,  \* ApprovalRequest.requested_by
    current,    \* sequence of ApprovalRequest.current_step, NoStep if null
    step,       \* ApprovalStepInstance.status, "NONE" if there is no instance
    assigned,   \* ApprovalAssignment.status by step and approver
    decisions   \* the ApprovalDecision rows

vars == <<active, status, version, requester, current, step, assigned, decisions>>

NoStep == 0
Verdict == {"APPROVED", "REJECTED", "RETURNED"}
RequestStatus == {"NONE", "IN_PROGRESS", "CANCELLED"} \cup Verdict
StepStatus == {"NONE", "WAITING", "OPEN", "CANCELLED"} \cup Verdict
AssignmentStatus == {"NONE", "PENDING", "SKIPPED", "CANCELLED"} \cup Verdict
Decision == [step : Step, by : User, verdict : Verdict]

TypeOK ==
    /\ active \subseteq User
    /\ status \in [Request -> RequestStatus]
    /\ version \in [Request -> Version]
    /\ requester \in [Request -> User]
    /\ current \in [Request -> Step \cup {NoStep}]
    /\ step \in [Request -> [Step -> StepStatus]]
    /\ assigned \in [Request -> [Step -> [User -> AssignmentStatus]]]
    /\ decisions \in [Request -> SUBSET Decision]

Init ==
    /\ active = User
    /\ status = [r \in Request |-> "NONE"]
    /\ version \in [Request -> Version]
    /\ requester \in [Request -> User]
    /\ current = [r \in Request |-> NoStep]
    /\ step = [r \in Request |-> [s \in Step |-> "NONE"]]
    /\ assigned = [r \in Request |-> [s \in Step |-> [u \in User |-> "NONE"]]]
    /\ decisions = [r \in Request |-> {}]

-----------------------------------------------------------------------------
(* Helpers *)

\* has_permission: an inactive account has none.
Can(u, permission) == u \in active /\ u \in Permitted[permission]

StepsOf(r) == Workflow[version[r]].steps
Minimum(r, s) == Workflow[version[r]].minimum[s]
LaterSteps(r, s) == {t \in StepsOf(r) : t > s}

\* Mutant: the steps are taken in descending order.
IsFirstDescending(s, S) == s \in S /\ \A t \in S : t <= s

IsFirst(s, S) == s \in S /\ \A t \in S : s <= t

Approvers(r, s) == {u \in User : assigned[r][s][u] = "APPROVED"}
Pending(r, s) == {u \in User : assigned[r][s][u] = "PENDING"}

\* resolve_approvers: the active users the definition names.
Resolved(v, s) == Workflow[v].resolver[s] \cap active

\* Pending assignments become `to`, the others stay.
Retire(assignment, to) ==
    [u \in User |-> IF assignment[u] = "PENDING" THEN to ELSE assignment[u]]

-----------------------------------------------------------------------------
(* Commands *)

\* create_approval_request: the transaction fails unless every step resolves
\* enough approvers; _open_step opens the first step.
CreateApprovalRequest(r, u) ==
    LET v == version[r] IN
    /\ status[r] = "NONE"
    /\ u = requester[r]
    /\ Can(u, "submit")
    /\ \A s \in StepsOf(r) : Cardinality(Resolved(v, s)) >= Minimum(r, s)
    /\ \E first \in Step :
         /\ IsFirst(first, StepsOf(r))
         /\ current' = [current EXCEPT ![r] = first]
         /\ step' = [step EXCEPT ![r] =
              [s \in Step |-> IF s = first THEN "OPEN"
                              ELSE IF s \in StepsOf(r) THEN "WAITING" ELSE "NONE"]]
    /\ assigned' = [assigned EXCEPT ![r] =
         [s \in Step |-> [x \in User |->
            IF s \in StepsOf(r) /\ x \in Resolved(v, s) THEN "PENDING" ELSE "NONE"]]]
    /\ status' = [status EXCEPT ![r] = "IN_PROGRESS"]
    /\ UNCHANGED <<active, version, requester, decisions>>

\* Mutant: the self-approval check is missing.
LockedContextAllowingSelf(r, u, permission) ==
    /\ Can(u, permission)
    /\ status[r] = "IN_PROGRESS"
    /\ current[r] # NoStep
    /\ assigned[r][current[r]][u] = "PENDING"

\* _locked_context: what every decision checks after locking the request.
LockedContext(r, u, permission) ==
    /\ Can(u, permission)
    /\ status[r] = "IN_PROGRESS"
    /\ current[r] # NoStep
    /\ assigned[r][current[r]][u] = "PENDING"
    /\ requester[r] = u => Workflow[version[r]].allowSelf

RecordDecision(r, u, verdict) ==
    decisions' = [decisions EXCEPT ![r] =
        @ \cup {[step |-> current[r], by |-> u, verdict |-> verdict]}]

\* The assignments of the current step once u has approved.
AfterApproval(r, u) == [assigned[r][current[r]] EXCEPT ![u] = "APPROVED"]

\* Mutant: asks for more than the minimum.
ReachesMinimumLate(r, u) ==
    Cardinality({x \in User : AfterApproval(r, u)[x] = "APPROVED"})
        > Minimum(r, current[r])

ReachesMinimum(r, u) ==
    Cardinality({x \in User : AfterApproval(r, u)[x] = "APPROVED"})
        >= Minimum(r, current[r])

\* approve_request while the step still needs other approvals.
ApproveAndWait(r, u) ==
    /\ ~ReachesMinimum(r, u)
    /\ assigned' = [assigned EXCEPT ![r][current[r]] = AfterApproval(r, u)]
    /\ UNCHANGED <<status, current, step>>

\* approve_request completes the step and opens the next one.
ApproveAndAdvance(r, u) ==
    /\ ReachesMinimum(r, u)
    /\ assigned' = [assigned EXCEPT ![r][current[r]] = Retire(AfterApproval(r, u), "SKIPPED")]
    /\ \E next \in Step :
         /\ IsFirst(next, LaterSteps(r, current[r]))
         /\ step' = [step EXCEPT ![r] =
              [@ EXCEPT ![current[r]] = "APPROVED", ![next] = "OPEN"]]
         /\ current' = [current EXCEPT ![r] = next]
    /\ UNCHANGED status

\* Mutant: the last step of a version is taken to be the highest step number.
ApproveAndOverrun(r, u) ==
    /\ ReachesMinimum(r, u)
    /\ LaterSteps(r, current[r]) = {}
    /\ assigned' = [assigned EXCEPT ![r][current[r]] = Retire(AfterApproval(r, u), "SKIPPED")]
    /\ step' = [step EXCEPT ![r][current[r]] = "APPROVED"]
    /\ current' = [current EXCEPT ![r] = @ + 1]
    /\ UNCHANGED status

\* approve_request completes the last step and with it the request.
ApproveAndComplete(r, u) ==
    /\ ReachesMinimum(r, u)
    /\ LaterSteps(r, current[r]) = {}
    /\ assigned' = [assigned EXCEPT ![r][current[r]] = Retire(AfterApproval(r, u), "SKIPPED")]
    /\ step' = [step EXCEPT ![r][current[r]] = "APPROVED"]
    /\ status' = [status EXCEPT ![r] = "APPROVED"]
    /\ current' = [current EXCEPT ![r] = NoStep]

ApproveRequest(r, u) ==
    /\ LockedContext(r, u, "approve")
    /\ RecordDecision(r, u, "APPROVED")
    /\ \/ ApproveAndWait(r, u)
       \/ ApproveAndAdvance(r, u)
       \/ ApproveAndComplete(r, u)
    /\ UNCHANGED <<active, version, requester>>

\* _terminal_decision: reject_request and return_request end the request; the
\* steps after the current one stay WAITING.
TerminalDecision(r, u, verdict) ==
    LET s == current[r] IN
    /\ RecordDecision(r, u, verdict)
    /\ assigned' = [assigned EXCEPT ![r][s] =
         Retire([@ EXCEPT ![u] = verdict], "SKIPPED")]
    /\ step' = [step EXCEPT ![r][s] = verdict]
    /\ status' = [status EXCEPT ![r] = verdict]
    /\ current' = [current EXCEPT ![r] = NoStep]
    /\ UNCHANGED <<active, version, requester>>

RejectRequest(r, u) ==
    /\ LockedContext(r, u, "reject")
    /\ Workflow[version[r]].mayReject[current[r]]
    /\ TerminalDecision(r, u, "REJECTED")

ReturnRequest(r, u) ==
    /\ LockedContext(r, u, "return")
    /\ Workflow[version[r]].mayReturn[current[r]]
    /\ TerminalDecision(r, u, "RETURNED")

\* Mutant: the status of the locked request is not looked at.
CancelAnyRequest(r, u) ==
    /\ Can(u, "cancel")
    /\ status[r] # "NONE"
    /\ status' = [status EXCEPT ![r] = "CANCELLED"]
    /\ current' = [current EXCEPT ![r] = NoStep]
    /\ UNCHANGED <<active, version, requester, step, assigned, decisions>>

\* cancel_request: PENDING, the other status it accepts, is never written.
CancelRequest(r, u) ==
    /\ Can(u, "cancel")
    /\ status[r] = "IN_PROGRESS"
    /\ step' = [step EXCEPT ![r] =
         [s \in Step |-> IF @[s] \in {"WAITING", "OPEN"} THEN "CANCELLED" ELSE @[s]]]
    /\ assigned' = [assigned EXCEPT ![r] = [s \in Step |-> Retire(@[s], "CANCELLED")]]
    /\ status' = [status EXCEPT ![r] = "CANCELLED"]
    /\ current' = [current EXCEPT ![r] = NoStep]
    /\ UNCHANGED <<active, version, requester, decisions>>

\* reassign_request: `from` keeps its row as SKIPPED, `to` gets a new one.
ReassignRequest(r, from, to, u) ==
    LET s == current[r] IN
    /\ Can(u, "manage")
    /\ status[r] = "IN_PROGRESS"
    /\ s # NoStep
    /\ assigned[r][s][from] = "PENDING"
    /\ assigned[r][s][to] = "NONE"
    /\ Can(to, "approve")
    /\ assigned' = [assigned EXCEPT ![r][s] =
         [@ EXCEPT ![from] = "SKIPPED", ![to] = "PENDING"]]
    /\ UNCHANGED <<active, status, version, requester, current, step, decisions>>

\* UserViewSet.deactivate: never one's own account.
DeactivateUser(u) ==
    /\ u \in active
    /\ active # {u}
    /\ active' = active \ {u}
    /\ UNCHANGED <<status, version, requester, current, step, assigned, decisions>>

ActivateUser(u) ==
    /\ u \notin active
    /\ active' = active \cup {u}
    /\ UNCHANGED <<status, version, requester, current, step, assigned, decisions>>

-----------------------------------------------------------------------------

Command(r) ==
    \/ \E u \in User :
         \/ CreateApprovalRequest(r, u)
         \/ ApproveRequest(r, u)
         \/ RejectRequest(r, u)
         \/ ReturnRequest(r, u)
         \/ CancelRequest(r, u)
    \/ \E from, to, u \in User : ReassignRequest(r, from, to, u)

Next ==
    \/ \E r \in Request : Command(r)
    \/ \E u \in User : DeactivateUser(u) \/ ActivateUser(u)

Spec == Init /\ [][Next]_vars

\* Approvers who can act on an open request eventually do; nothing else is
\* owed: nobody has to reject, cancel, reassign or reactivate.
Fairness ==
    \A r \in Request : WF_vars(\E u \in User : ApproveRequest(r, u))

FairSpec == Spec /\ Fairness

-----------------------------------------------------------------------------
(* Properties *)

\* Steps are worked strictly in order: a request in progress has exactly one
\* open step, the one current_step points to, with every earlier step
\* approved and every later one still waiting (_open_step, approve_request).
InOrder ==
    \A r \in Request : status[r] = "IN_PROGRESS" =>
        /\ current[r] \in StepsOf(r)
        /\ \A s \in StepsOf(r) :
             step[r][s] = IF s < current[r] THEN "APPROVED"
                          ELSE IF s = current[r] THEN "OPEN" ELSE "WAITING"

\* An approved step has the approvals of at least minimum_approvals different
\* users, and an approved request has only approved steps, whatever was
\* reassigned or skipped on the way (approve_request).
Quorum ==
    \A r \in Request :
        /\ \A s \in StepsOf(r) :
             step[r][s] = "APPROVED" => Cardinality(Approvers(r, s)) >= Minimum(r, s)
        /\ status[r] = "APPROVED" => \A s \in StepsOf(r) : step[r][s] = "APPROVED"

\* Nobody decides a request of their own unless the version allows it, even
\* when they were assigned or reassigned to it (_locked_context).
SeparationOfDuties ==
    \A r \in Request : \A d \in decisions[r] :
        d.by = requester[r] => Workflow[version[r]].allowSelf

\* No reassignment ever leaves the open step with too few assignees to reach
\* its minimum (reassign_request adds a row for the one it skips).
QuorumReachable ==
    \A r \in Request : status[r] = "IN_PROGRESS" =>
        Cardinality(Approvers(r, current[r]) \cup Pending(r, current[r]))
            >= Minimum(r, current[r])

\* The decision records explain the outcome: a request is rejected (returned)
\* exactly when one decision rejects (returns) it, each user decides a step at
\* most once, and the record agrees with the assignment (OneToOne assignment).
DecisionsExplainOutcome ==
    \A r \in Request :
        /\ \A v \in {"REJECTED", "RETURNED"} :
             status[r] = v <=> \E d \in decisions[r] : d.verdict = v
        /\ \A d \in decisions[r] : assigned[r][d.step][d.by] = d.verdict
        /\ \A s \in Step : \A u \in Approvers(r, s) :
             [step |-> s, by |-> u, verdict |-> "APPROVED"] \in decisions[r]

\* A decided step owes nobody an action: no assignment stays PENDING in it.
NothingPendingOnceDecided ==
    \A r \in Request : \A s \in Step :
        Pending(r, s) # {} => step[r][s] \in {"WAITING", "OPEN"}

\* Racing commands never touch a request that was decided: its steps, its
\* assignments and its decisions are history (APPROVAL_ALREADY_DECIDED).
DecidedIsFinal ==
    [][\A r \in Request :
         status[r] \in Verdict \cup {"CANCELLED"} =>
             /\ status'[r] = status[r]
             /\ step'[r] = step[r]
             /\ assigned'[r] = assigned[r]
             /\ decisions'[r] = decisions[r]]_vars

\* Those who could still approve the open step of r.
CanStillApprove(r) ==
    {u \in Pending(r, current[r]) :
        /\ Can(u, "approve")
        /\ requester[r] = u => Workflow[version[r]].allowSelf}

\* Too few of them are left: the code lets this happen (an account is disabled,
\* or the step falls to the requester), and only a person can repair it.
Stuck(r) ==
    /\ status[r] = "IN_PROGRESS"
    /\ Cardinality(Approvers(r, current[r]) \cup CanStillApprove(r)) < Minimum(r, current[r])

\* Being short of able approvers is the only way a submitted request is left
\* undecided when those who can act do act (approve_request, _open_step).
DecidedUnlessStuck ==
    \A r \in Request :
        status[r] = "IN_PROGRESS" ~> (status[r] # "IN_PROGRESS" \/ Stuck(r))

\* The abstract view of a request: its outcome and the votes, with the steps,
\* the assignments and the accounts hidden.
Outcome == INSTANCE ApprovalOutcome WITH votes <- decisions

\* Whatever is reassigned, skipped or disabled, and whoever races whom, the
\* outcome is what the votes say: steps in order, each by its own quorum, one
\* vote a person, a single refusal, and nothing after the decision (services.py).
OutcomeIsTheVotes == Outcome!Spec

\* The same to a record that asks: only whether a request is open, and how it
\* ended.
Verdicts == INSTANCE ApprovalVerdict
    WITH outcome <- [r \in Request |-> IF status[r] = "IN_PROGRESS" THEN "OPEN" ELSE status[r]]

=============================================================================
