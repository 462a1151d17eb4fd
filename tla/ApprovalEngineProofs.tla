------------------------ MODULE ApprovalEngineProofs ------------------------
(***************************************************************************)
(* Theorems about ApprovalEngine for every set of users, every workflow    *)
(* version and any number of requests.                                     *)
(***************************************************************************)
EXTENDS ApprovalEngine, FiniteSetTheorems, TLAPS

LEMMA StepFacts ==
    /\ NoStep \notin Step
    /\ \A s \in Step : s \in Nat
  BY StepsArePositive DEF NoStep

LEMMA WorkflowFacts ==
    ASSUME TypeOK, NEW r \in Request
    PROVE  /\ StepsOf(r) \subseteq Step
           /\ \A s \in Step : Minimum(r, s) \in Nat \ {0}
  BY WorkflowAssumption DEF TypeOK, StepsOf, Minimum, WorkflowVersion

\* Every command writes values of the declared types.
LEMMA InitTypeOK == Init => TypeOK
  BY DEF Init, TypeOK, RequestStatus, StepStatus, AssignmentStatus, Verdict, NoStep

LEMMA RetireType ==
    ASSUME NEW a \in [User -> AssignmentStatus], NEW to \in AssignmentStatus
    PROVE  Retire(a, to) \in [User -> AssignmentStatus]
  BY DEF Retire

LEMMA NextTypeOK == TypeOK /\ [Next]_vars => TypeOK'
<1> SUFFICES ASSUME TypeOK, [Next]_vars PROVE TypeOK'
  OBVIOUS
<1> USE DEF TypeOK, RequestStatus, StepStatus, AssignmentStatus, Verdict
<1>1. ASSUME NEW r \in Request, NEW u \in User, CreateApprovalRequest(r, u)
      PROVE  TypeOK'
  BY <1>1 DEF CreateApprovalRequest
<1>2. ASSUME NEW r \in Request, NEW u \in User, ApproveRequest(r, u)
      PROVE  TypeOK'
  <2>1. current[r] \in Step
    BY <1>2 DEF ApproveRequest, LockedContext
  <2>2. AfterApproval(r, u) \in [User -> AssignmentStatus]
    BY <2>1 DEF AfterApproval
  <2>3. Retire(AfterApproval(r, u), "SKIPPED") \in [User -> AssignmentStatus]
    BY <2>2, RetireType
  <2>4. decisions' \in [Request -> SUBSET Decision]
    BY <1>2, <2>1 DEF ApproveRequest, RecordDecision, Decision
  <2>5. UNCHANGED <<active, version, requester>>
    BY <1>2 DEF ApproveRequest
  <2>6. CASE ApproveAndWait(r, u)
    BY <2>1, <2>2, <2>4, <2>5, <2>6 DEF ApproveAndWait
  <2>7. CASE ApproveAndAdvance(r, u)
    <3>1. PICK next \in Step :
            /\ step' = [step EXCEPT ![r] =
                 [@ EXCEPT ![current[r]] = "APPROVED", ![next] = "OPEN"]]
            /\ current' = [current EXCEPT ![r] = next]
      BY <2>7 DEF ApproveAndAdvance
    <3>2. step' \in [Request -> [Step -> StepStatus]]
      BY <2>1, <3>1
    <3> QED
      BY <2>1, <2>3, <2>4, <2>5, <2>7, <3>1, <3>2 DEF ApproveAndAdvance
  <2>8. CASE ApproveAndComplete(r, u)
    BY <2>1, <2>3, <2>4, <2>5, <2>8 DEF ApproveAndComplete
  <2> QED
    BY <1>2, <2>6, <2>7, <2>8 DEF ApproveRequest
<1>3. ASSUME NEW r \in Request, NEW u \in User, NEW v \in {"REJECTED", "RETURNED"},
             TerminalDecision(r, u, v), current[r] # NoStep
      PROVE  TypeOK'
  <2>1. current[r] \in Step
    BY <1>3
  <2>2. decisions' \in [Request -> SUBSET Decision]
    BY <1>3, <2>1 DEF TerminalDecision, RecordDecision, Decision
  <2>3. [assigned[r][current[r]] EXCEPT ![u] = v] \in [User -> AssignmentStatus]
    BY <2>1
  <2>4. Retire([assigned[r][current[r]] EXCEPT ![u] = v], "SKIPPED")
          \in [User -> AssignmentStatus]
    BY <2>3, RetireType
  <2> QED
    BY <1>3, <2>1, <2>2, <2>4 DEF TerminalDecision
<1>4. ASSUME NEW r \in Request, NEW u \in User, CancelRequest(r, u)
      PROVE  TypeOK'
  <2>1. \A s \in Step : Retire(assigned[r][s], "CANCELLED") \in [User -> AssignmentStatus]
    BY RetireType
  <2> QED
    BY <1>4, <2>1 DEF CancelRequest
<1>5. ASSUME NEW r \in Request, NEW from \in User, NEW to \in User, NEW u \in User,
             ReassignRequest(r, from, to, u)
      PROVE  TypeOK'
  BY <1>5 DEF ReassignRequest
<1>6. ASSUME NEW u \in User, DeactivateUser(u) \/ ActivateUser(u)
      PROVE  TypeOK'
  BY <1>6 DEF DeactivateUser, ActivateUser
<1>7. CASE UNCHANGED vars
  BY <1>7 DEF vars
<1> QED
  BY <1>1, <1>2, <1>3, <1>4, <1>5, <1>6, <1>7
     DEF Next, Command, RejectRequest, ReturnRequest, LockedContext

\* Type correctness of the engine's rows (models.py).
THEOREM TypeCorrect == Spec => []TypeOK
  BY InitTypeOK, NextTypeOK, PTL DEF Spec


-----------------------------------------------------------------------------
(***************************************************************************)
(* The inductive invariant, one request at a time.  InOrder and Quorum are *)
(* not inductive alone: approving a step needs to know that the later ones *)
(* wait, and the quorum of a step survives because nothing writes to the   *)
(* assignments of a decided step, which needs NothingPendingOnceDecided.   *)
(***************************************************************************)

\* Those a step can still count on.
Counted(r, s) == Approvers(r, s) \cup Pending(r, s)

NotSubmitted(r) ==
    status[r] = "NONE" =>
        /\ decisions[r] = {}
        /\ \A s \in Step : step[r][s] = "NONE" /\ \A u \in User : assigned[r][s][u] = "NONE"

Ordered(r) ==
    status[r] = "IN_PROGRESS" =>
        /\ current[r] \in StepsOf(r)
        /\ \A s \in StepsOf(r) :
             step[r][s] = IF s < current[r] THEN "APPROVED"
                          ELSE IF s = current[r] THEN "OPEN" ELSE "WAITING"

Complete(r) ==
    status[r] = "APPROVED" => \A s \in StepsOf(r) : step[r][s] = "APPROVED"

StepQuorum(r) ==
    \A s \in StepsOf(r) :
        step[r][s] = "APPROVED" => Cardinality(Approvers(r, s)) >= Minimum(r, s)

PendingInUndecided(r) ==
    \A s \in Step : \A u \in User :
        assigned[r][s][u] = "PENDING" => step[r][s] \in {"WAITING", "OPEN"}

Separated(r) ==
    \A d \in decisions[r] : d.by = requester[r] => Workflow[version[r]].allowSelf

Reachable(r) ==
    status[r] = "IN_PROGRESS" =>
        \A s \in StepsOf(r) : step[r][s] \in {"WAITING", "OPEN"} =>
            Cardinality(Counted(r, s)) >= Minimum(r, s)

RowInv(r) ==
    /\ NotSubmitted(r)
    /\ Ordered(r)
    /\ Complete(r)
    /\ StepQuorum(r)
    /\ PendingInUndecided(r)
    /\ Separated(r)
    /\ Reachable(r)

IInv == TypeOK /\ \A r \in Request : RowInv(r)

LEMMA InitIInv == Init => IInv
<1> SUFFICES ASSUME Init PROVE IInv
  OBVIOUS
<1>1. TypeOK
  BY InitTypeOK
<1>2. ASSUME NEW r \in Request PROVE RowInv(r)
  <2>1. StepsOf(r) \subseteq Step
    BY <1>1, WorkflowFacts
  <2> QED
    BY <2>1 DEF Init, RowInv, NotSubmitted, Ordered, Complete, StepQuorum,
                PendingInUndecided, Separated, Reachable
<1> QED
  BY <1>1, <1>2 DEF IInv

\* The seven columns that make up the row of a request.
SameRow(q) ==
    /\ status'[q] = status[q]
    /\ version'[q] = version[q]
    /\ requester'[q] = requester[q]
    /\ current'[q] = current[q]
    /\ step'[q] = step[q]
    /\ assigned'[q] = assigned[q]
    /\ decisions'[q] = decisions[q]

LEMMA SameRowKeepsInv ==
    ASSUME NEW q \in Request, RowInv(q), SameRow(q)
    PROVE  RowInv(q)'
  BY DEF RowInv, SameRow, NotSubmitted, Ordered, Complete, StepQuorum, Counted,
         PendingInUndecided, Separated, Reachable, StepsOf, Minimum, Approvers, Pending

LEMMA CommandFrame ==
    ASSUME TypeOK, NEW r \in Request, Command(r), NEW q \in Request, q # r
    PROVE  SameRow(q)
  BY ZenonT(60) DEF TypeOK, Command, SameRow, CreateApprovalRequest, ApproveRequest, RecordDecision,
         ApproveAndWait, ApproveAndAdvance, ApproveAndComplete, RejectRequest,
         ReturnRequest, TerminalDecision, CancelRequest, ReassignRequest

\* Submission: the first step opens, the others wait, everybody resolved is
\* pending, and each step resolved enough approvers.
LEMMA CreateKeepsRow ==
    ASSUME IInv, NEW r \in Request, NEW u \in User, CreateApprovalRequest(r, u)
    PROVE  RowInv(r)'
<1> USE DEF IInv, TypeOK
<1>1. PICK first \in Step :
        /\ IsFirst(first, StepsOf(r))
        /\ current' = [current EXCEPT ![r] = first]
        /\ step' = [step EXCEPT ![r] =
             [s \in Step |-> IF s = first THEN "OPEN"
                             ELSE IF s \in StepsOf(r) THEN "WAITING" ELSE "NONE"]]
  BY DEF CreateApprovalRequest
<1>2. /\ status'[r] = "IN_PROGRESS"
      /\ decisions'[r] = {}
      /\ version'[r] = version[r]
      /\ StepsOf(r)' = StepsOf(r)
      /\ StepsOf(r) \subseteq Step
  BY WorkflowFacts DEF CreateApprovalRequest, RowInv, NotSubmitted, StepsOf
<1>3. ASSUME NEW s \in Step
      PROVE  assigned'[r][s] =
               [x \in User |-> IF s \in StepsOf(r) /\ x \in Resolved(version[r], s)
                               THEN "PENDING" ELSE "NONE"]
  BY DEF CreateApprovalRequest
<1>4. NotSubmitted(r)' /\ Complete(r)' /\ Separated(r)'
  BY <1>2 DEF NotSubmitted, Complete, Separated
<1>5. Ordered(r)'
  BY <1>1, <1>2, StepFacts DEF Ordered, IsFirst
<1>6. StepQuorum(r)'
  BY <1>1, <1>2 DEF StepQuorum
<1>7. PendingInUndecided(r)'
  BY <1>1, <1>2, <1>3 DEF PendingInUndecided
<1>8. Reachable(r)'
  <2>1. ASSUME NEW s \in StepsOf(r)
        PROVE  Cardinality(Counted(r, s)') >= Minimum(r, s)'
    <3>1. Counted(r, s)' = Resolved(version[r], s)
      BY <1>2, <1>3, <2>1, ZenonT(60) DEF Counted, Approvers, Pending, Resolved
    <3>2. Minimum(r, s)' = Minimum(r, s)
      BY <1>2 DEF Minimum
    <3>3. Cardinality(Resolved(version[r], s)) >= Minimum(r, s)
      BY <2>1 DEF CreateApprovalRequest
    <3> QED
      BY <3>1, <3>2, <3>3
  <2> QED
    BY <1>2, <2>1 DEF Reachable
<1> QED
  BY <1>4, <1>5, <1>6, <1>7, <1>8 DEF RowInv

\* What a decision of u on r starts from.
LEMMA DecisionFacts ==
    ASSUME IInv, NEW r \in Request, NEW u \in User, NEW p \in Permission,
           LockedContext(r, u, p)
    PROVE  /\ current[r] \in Step
           /\ current[r] \in StepsOf(r)
           /\ StepsOf(r) \subseteq Step
           /\ status[r] = "IN_PROGRESS"
           /\ step[r][current[r]] = "OPEN"
           /\ assigned[r][current[r]][u] = "PENDING"
           /\ \A s \in StepsOf(r) : s # current[r] => step[r][s] \in {"APPROVED", "WAITING"}
  BY WorkflowFacts, StepFacts DEF IInv, TypeOK, RowInv, Ordered, LockedContext

\* A decision by u keeps the separation of duties, whatever its verdict.
LEMMA DecisionKeepsSeparated ==
    ASSUME IInv, NEW r \in Request, NEW u \in User, NEW p \in Permission, NEW v \in Verdict,
           LockedContext(r, u, p), RecordDecision(r, u, v),
           UNCHANGED <<version, requester>>
    PROVE  Separated(r)'
<1>1. decisions'[r] = decisions[r] \cup {[step |-> current[r], by |-> u, verdict |-> v]}
  BY DEF IInv, TypeOK, RecordDecision
<1>2. Separated(r)
  BY DEF IInv, RowInv
<1> QED
  BY <1>1, <1>2 DEF Separated, LockedContext

LEMMA UserSubsets ==
    ASSUME NEW S \in SUBSET User
    PROVE  IsFiniteSet(S) /\ Cardinality(S) \in Nat
  BY UsersAreFinite, FS_Subset, FS_CardinalityType

\* Approving keeps the row invariant, in each of its three outcomes.
LEMMA ApproveKeepsRow ==
    ASSUME IInv, NEW r \in Request, NEW u \in User, ApproveRequest(r, u)
    PROVE  RowInv(r)'
<1>0. "approve" \in Permission /\ "APPROVED" \in Verdict
  BY DEF Permission, Verdict
<1> PICK c \in Step : c = current[r]
  BY <1>0, DecisionFacts DEF ApproveRequest
<1>1. /\ c \in Step /\ c \in StepsOf(r) /\ StepsOf(r) \subseteq Step
      /\ status[r] = "IN_PROGRESS"
      /\ step[r][c] = "OPEN"
      /\ assigned[r][c][u] = "PENDING"
      /\ \A s \in StepsOf(r) : s # c => step[r][s] \in {"APPROVED", "WAITING"}
  BY <1>0, DecisionFacts DEF ApproveRequest
<1>2. /\ UNCHANGED <<version, requester>>
      /\ StepsOf(r)' = StepsOf(r)
      /\ \A s \in Step : Minimum(r, s)' = Minimum(r, s)
  BY DEF ApproveRequest, StepsOf, Minimum
<1>3. Separated(r)'
  BY <1>0, <1>2, DecisionKeepsSeparated DEF ApproveRequest
<1>4. /\ TypeOK /\ Ordered(r) /\ StepQuorum(r)
      /\ PendingInUndecided(r) /\ Reachable(r)
  BY DEF IInv, RowInv
<1>5. /\ AfterApproval(r, u) \in [User -> AssignmentStatus]
      /\ AfterApproval(r, u)[u] = "APPROVED"
      /\ \A x \in User : x # u => AfterApproval(r, u)[x] = assigned[r][c][x]
  BY <1>1, <1>4 DEF AfterApproval, AssignmentStatus, Verdict, TypeOK
<1>6. ASSUME NEW s \in Step, s # c
      PROVE  assigned'[r][s] = assigned[r][s]
  BY <1>1, <1>4, <1>6
     DEF ApproveRequest, ApproveAndWait, ApproveAndAdvance, ApproveAndComplete, TypeOK
<1>7. ASSUME NEW s \in Step, s # c
      PROVE  /\ Counted(r, s)' = Counted(r, s)
             /\ Approvers(r, s)' = Approvers(r, s)
             /\ Pending(r, s)' = Pending(r, s)
  BY <1>6, <1>7 DEF Counted, Approvers, Pending
<1>8. CASE ApproveAndWait(r, u)
  <2>1. /\ status'[r] = "IN_PROGRESS" /\ current'[r] = c /\ step' = step
        /\ assigned'[r][c] = AfterApproval(r, u)
    BY <1>1, <1>4, <1>8 DEF ApproveAndWait, TypeOK
  <2>2. Counted(r, c)' = Counted(r, c)
    BY <1>1, <1>5, <2>1 DEF Counted, Approvers, Pending
  <2>3. NotSubmitted(r)' /\ Ordered(r)' /\ Complete(r)'
    BY <1>1, <1>2, <1>4, <2>1 DEF NotSubmitted, Ordered, Complete
  <2>4. StepQuorum(r)'
    BY <1>1, <1>2, <1>4, <1>7, <2>1 DEF StepQuorum
  <2>5. PendingInUndecided(r)'
    BY <1>1, <1>4, <1>5, <1>6, <2>1 DEF PendingInUndecided
  <2>6. Reachable(r)'
    BY <1>1, <1>2, <1>4, <1>7, <2>1, <2>2 DEF Reachable
  <2> QED
    BY <1>3, <2>3, <2>4, <2>5, <2>6 DEF RowInv
<1>9. ASSUME ReachesMinimum(r, u),
             assigned' = [assigned EXCEPT ![r][c] = Retire(AfterApproval(r, u), "SKIPPED")]
      PROVE  /\ Cardinality(Approvers(r, c)') >= Minimum(r, c)
             /\ Pending(r, c)' = {}
  <2>1. assigned'[r][c] = Retire(AfterApproval(r, u), "SKIPPED")
    BY <1>1, <1>4, <1>9 DEF TypeOK
  <2>2. Approvers(r, c)' = {x \in User : AfterApproval(r, u)[x] = "APPROVED"}
    BY <1>5, <2>1 DEF Approvers, Retire
  <2>3. Pending(r, c)' = {}
    BY <1>5, <2>1 DEF Pending, Retire
  <2> QED
    BY <1>9, <2>2, <2>3 DEF ReachesMinimum
<1>10. CASE ApproveAndAdvance(r, u)
  <2>1. PICK next \in Step :
          /\ IsFirst(next, LaterSteps(r, c))
          /\ step' = [step EXCEPT ![r] = [@ EXCEPT ![c] = "APPROVED", ![next] = "OPEN"]]
          /\ current' = [current EXCEPT ![r] = next]
    BY <1>10 DEF ApproveAndAdvance
  <2>2. next \in StepsOf(r) /\ next > c /\ \A s \in StepsOf(r) : s > c => next <= s
    BY <2>1 DEF IsFirst, LaterSteps
  <2>3. /\ step'[r][c] = "APPROVED"
        /\ step'[r][next] = "OPEN"
        /\ \A s \in Step : s # c /\ s # next => step'[r][s] = step[r][s]
        /\ step[r][next] = "WAITING"
    BY <1>1, <1>4, <2>1, <2>2, StepFacts DEF Ordered, TypeOK
  <2>4. status'[r] = "IN_PROGRESS" /\ current'[r] = next
    BY <1>1, <1>4, <1>10, <2>1 DEF ApproveAndAdvance, TypeOK
  <2>5. /\ Cardinality(Approvers(r, c)') >= Minimum(r, c)
        /\ Pending(r, c)' = {}
    BY <1>9, <1>10 DEF ApproveAndAdvance
  <2>6. NotSubmitted(r)' /\ Complete(r)'
    BY <2>4 DEF NotSubmitted, Complete
  <2>7. Ordered(r)'
    BY <1>1, <1>2, <1>4, <2>2, <2>3, <2>4, StepFacts DEF Ordered
  <2>8. StepQuorum(r)'
    BY <1>1, <1>2, <1>4, <1>7, <2>3, <2>5 DEF StepQuorum
  <2>9. PendingInUndecided(r)'
    BY <1>4, <1>6, <2>3, <2>5 DEF PendingInUndecided, Pending
  <2>10. Reachable(r)'
    BY <1>1, <1>2, <1>4, <1>7, <2>3, <2>4 DEF Reachable
  <2> QED
    BY <1>3, <2>6, <2>7, <2>8, <2>9, <2>10 DEF RowInv
<1>11. CASE ApproveAndComplete(r, u)
  <2>1. /\ status'[r] = "APPROVED" /\ current'[r] = NoStep
        /\ step'[r][c] = "APPROVED"
        /\ \A s \in Step : s # c => step'[r][s] = step[r][s]
        /\ \A s \in StepsOf(r) : ~(s > c)
    BY <1>1, <1>4, <1>11 DEF ApproveAndComplete, LaterSteps, TypeOK
  <2>2. /\ Cardinality(Approvers(r, c)') >= Minimum(r, c)
        /\ Pending(r, c)' = {}
    BY <1>9, <1>11 DEF ApproveAndComplete
  <2>3. NotSubmitted(r)' /\ Ordered(r)' /\ Reachable(r)'
    BY <2>1 DEF NotSubmitted, Ordered, Reachable
  <2>4. Complete(r)'
    BY <1>1, <1>2, <1>4, <2>1, StepFacts DEF Complete, Ordered
  <2>5. StepQuorum(r)'
    BY <1>1, <1>2, <1>4, <1>7, <2>1, <2>2 DEF StepQuorum
  <2>6. PendingInUndecided(r)'
    BY <1>4, <1>6, <2>1, <2>2 DEF PendingInUndecided, Pending
  <2> QED
    BY <1>3, <2>3, <2>4, <2>5, <2>6 DEF RowInv
<1> QED
  BY <1>8, <1>10, <1>11 DEF ApproveRequest

\* Rejecting and returning end the request and close its current step.
LEMMA TerminalKeepsRow ==
    ASSUME IInv, NEW r \in Request, NEW u \in User, NEW p \in Permission,
           NEW v \in {"REJECTED", "RETURNED"},
           LockedContext(r, u, p), TerminalDecision(r, u, v)
    PROVE  RowInv(r)'
<1> PICK c \in Step : c = current[r]
  BY DecisionFacts
<1>1. TypeOK /\ StepQuorum(r) /\ PendingInUndecided(r)
  BY DEF IInv, RowInv
<1>2. /\ UNCHANGED <<version, requester>>
      /\ StepsOf(r)' = StepsOf(r)
      /\ \A s \in Step : Minimum(r, s)' = Minimum(r, s)
      /\ StepsOf(r) \subseteq Step
  BY <1>1, WorkflowFacts DEF TerminalDecision, StepsOf, Minimum
<1>3. /\ status'[r] = v
      /\ step'[r][c] = v
      /\ \A s \in Step : s # c => step'[r][s] = step[r][s] /\ assigned'[r][s] = assigned[r][s]
      /\ assigned'[r][c] = Retire([assigned[r][c] EXCEPT ![u] = v], "SKIPPED")
  BY <1>1 DEF TerminalDecision, TypeOK
<1>4. \A x \in User : assigned'[r][c][x] # "PENDING"
  BY <1>1, <1>3 DEF Retire, TypeOK
<1>5. ASSUME NEW s \in Step, s # c PROVE Approvers(r, s)' = Approvers(r, s)
  BY <1>3, <1>5 DEF Approvers
<1>6. NotSubmitted(r)' /\ Ordered(r)' /\ Complete(r)' /\ Reachable(r)'
  BY <1>3 DEF NotSubmitted, Ordered, Complete, Reachable
<1>7. StepQuorum(r)'
  BY <1>1, <1>2, <1>3, <1>5 DEF StepQuorum
<1>8. PendingInUndecided(r)'
  BY <1>1, <1>3, <1>4 DEF PendingInUndecided
<1>9. Separated(r)'
  <2>1. v \in Verdict /\ RecordDecision(r, u, v)
    BY DEF Verdict, TerminalDecision
  <2> QED
    BY <1>2, <2>1, DecisionKeepsSeparated
<1> QED
  BY <1>6, <1>7, <1>8, <1>9 DEF RowInv

\* Cancelling closes every step that is not decided.
LEMMA CancelKeepsRow ==
    ASSUME IInv, NEW r \in Request, NEW u \in User, CancelRequest(r, u)
    PROVE  RowInv(r)'
<1>1. TypeOK /\ StepQuorum(r) /\ PendingInUndecided(r) /\ Separated(r)
  BY DEF IInv, RowInv
<1>2. /\ UNCHANGED <<version, requester, decisions>>
      /\ StepsOf(r)' = StepsOf(r)
      /\ \A s \in Step : Minimum(r, s)' = Minimum(r, s)
      /\ StepsOf(r) \subseteq Step
  BY <1>1, WorkflowFacts DEF CancelRequest, StepsOf, Minimum
<1>3. /\ status'[r] = "CANCELLED"
      /\ \A s \in Step : step'[r][s] = IF step[r][s] \in {"WAITING", "OPEN"}
                                       THEN "CANCELLED" ELSE step[r][s]
      /\ \A s \in Step : assigned'[r][s] = Retire(assigned[r][s], "CANCELLED")
  BY <1>1 DEF CancelRequest, TypeOK
<1>4. ASSUME NEW s \in Step, NEW x \in User
      PROVE  assigned'[r][s][x] = IF assigned[r][s][x] = "PENDING" THEN "CANCELLED"
                                  ELSE assigned[r][s][x]
  <2>1. assigned'[r][s] = Retire(assigned[r][s], "CANCELLED")
    BY <1>3
  <2> QED
    BY <2>1 DEF Retire
<1>5. ASSUME NEW s \in Step PROVE Approvers(r, s)' = Approvers(r, s)
  BY <1>4 DEF Approvers
<1>6. NotSubmitted(r)' /\ Ordered(r)' /\ Complete(r)' /\ Reachable(r)'
  BY <1>3 DEF NotSubmitted, Ordered, Complete, Reachable
<1>7. StepQuorum(r)'
  BY <1>1, <1>2, <1>3, <1>5 DEF StepQuorum
<1>8. PendingInUndecided(r)'
  BY <1>4 DEF PendingInUndecided
<1>9. Separated(r)'
  BY <1>1, <1>2 DEF Separated
<1> QED
  BY <1>6, <1>7, <1>8, <1>9 DEF RowInv

\* Replacing one element of a set by another one keeps its size.
LEMMA SwapKeepsCardinality ==
    ASSUME NEW S \in SUBSET User, NEW x \in S, NEW y \in User, y \notin S
    PROVE  Cardinality((S \ {x}) \cup {y}) = Cardinality(S)
<1>1. IsFiniteSet(S) /\ IsFiniteSet(S \ {x}) /\ S \ {x} \in SUBSET User
  BY UserSubsets
<1>2. Cardinality(S \ {x}) = Cardinality(S) - 1
  BY <1>1, FS_RemoveElement
<1>3. Cardinality((S \ {x}) \cup {y}) = Cardinality(S \ {x}) + 1
  BY <1>1, FS_AddElement
<1> QED
  BY <1>1, <1>2, <1>3, UserSubsets

\* Reassigning swaps one counted user for another.
LEMMA ReassignKeepsRow ==
    ASSUME IInv, NEW r \in Request, NEW from \in User, NEW to \in User, NEW u \in User,
           ReassignRequest(r, from, to, u)
    PROVE  RowInv(r)'
<1>1. /\ TypeOK /\ Ordered(r) /\ StepQuorum(r) /\ PendingInUndecided(r)
      /\ Separated(r) /\ Reachable(r)
  BY DEF IInv, RowInv
<1> PICK c \in Step : c = current[r]
  BY <1>1, WorkflowFacts DEF ReassignRequest, TypeOK
<1>2. /\ UNCHANGED <<status, version, requester, current, step, decisions>>
      /\ StepsOf(r)' = StepsOf(r)
      /\ \A s \in Step : Minimum(r, s)' = Minimum(r, s)
      /\ StepsOf(r) \subseteq Step
      /\ status[r] = "IN_PROGRESS"
  BY <1>1, WorkflowFacts DEF ReassignRequest, StepsOf, Minimum
<1>3. /\ assigned[r][c][from] = "PENDING" /\ assigned[r][c][to] = "NONE"
      /\ assigned'[r][c] = [assigned[r][c] EXCEPT ![from] = "SKIPPED", ![to] = "PENDING"]
      /\ \A s \in Step : s # c => assigned'[r][s] = assigned[r][s]
      /\ c \in StepsOf(r) /\ step[r][c] = "OPEN"
  <2>1. c \in StepsOf(r) /\ step[r][c] = "OPEN"
    BY <1>1, <1>2, StepFacts DEF Ordered
  <2>2. assigned[r][c][from] = "PENDING" /\ assigned[r][c][to] = "NONE"
    BY DEF ReassignRequest
  <2>3. assigned' = [assigned EXCEPT ![r][c] =
          [assigned[r][c] EXCEPT ![from] = "SKIPPED", ![to] = "PENDING"]]
    BY DEF ReassignRequest
  <2>4. assigned'[r] = [assigned[r] EXCEPT ![c] =
          [assigned[r][c] EXCEPT ![from] = "SKIPPED", ![to] = "PENDING"]]
    BY <1>1, <2>3 DEF TypeOK
  <2>5. assigned[r] \in [Step -> [User -> AssignmentStatus]]
    BY <1>1 DEF TypeOK
  <2> QED
    BY <2>1, <2>2, <2>4, <2>5
<1>3a. \A s \in Step, x \in User :
         assigned'[r][s][x] = IF s = c /\ x = to THEN "PENDING"
                              ELSE IF s = c /\ x = from THEN "SKIPPED" ELSE assigned[r][s][x]
  BY <1>1, <1>3 DEF TypeOK
<1>4. ASSUME NEW s \in Step PROVE Approvers(r, s)' = Approvers(r, s)
  <2>1. \A x \in User : assigned'[r][s][x] = "APPROVED" <=> assigned[r][s][x] = "APPROVED"
    BY <1>3, <1>3a
  <2> QED
    BY <2>1 DEF Approvers
<1>5. ASSUME NEW s \in Step, s # c PROVE Counted(r, s)' = Counted(r, s)
  BY <1>3, <1>4, <1>5 DEF Counted, Pending
<1>6. Cardinality(Counted(r, c)) = Cardinality((Counted(r, c) \ {from}) \cup {to})
  <2>1. Counted(r, c) \in SUBSET User /\ from \in Counted(r, c) /\ to \notin Counted(r, c)
    BY <1>3 DEF Counted, Approvers, Pending
  <2> QED
    BY <2>1, SwapKeepsCardinality
<1>7. {x \in User : assigned'[r][c][x] \in {"APPROVED", "PENDING"}}
        = (Counted(r, c) \ {from}) \cup {to}
  BY <1>1, <1>3 DEF Counted, Approvers, Pending, TypeOK
<1>8. \A s \in StepsOf(r) : step[r][s] \in {"WAITING", "OPEN"} =>
        Cardinality({x \in User : assigned'[r][s][x] \in {"APPROVED", "PENDING"}})
            >= Minimum(r, s)
  <2> SUFFICES ASSUME NEW s \in StepsOf(r), step[r][s] \in {"WAITING", "OPEN"}
               PROVE  Cardinality({x \in User : assigned'[r][s][x] \in {"APPROVED", "PENDING"}})
                        >= Minimum(r, s)
    OBVIOUS
  <2>1. Cardinality(Counted(r, s)) >= Minimum(r, s)
    BY <1>1, <1>2 DEF Reachable
  <2>2. CASE s = c
    BY <1>6, <1>7, <2>1, <2>2
  <2>3. CASE s # c
    <3>1. {x \in User : assigned'[r][s][x] \in {"APPROVED", "PENDING"}} = Counted(r, s)
      BY <1>2, <1>3, <2>3 DEF Counted, Approvers, Pending
    <3> QED
      BY <2>1, <3>1
  <2> QED
    BY <2>2, <2>3
<1>9. Reachable(r)'
  <2>1. ASSUME NEW s \in Step
        PROVE  Counted(r, s)' = {x \in User : assigned'[r][s][x] \in {"APPROVED", "PENDING"}}
    BY DEF Counted, Approvers, Pending
  <2> QED
    BY <1>2, <1>8, <2>1 DEF Reachable
<1>10. NotSubmitted(r)' /\ Ordered(r)' /\ Complete(r)'
  BY <1>1, <1>2 DEF NotSubmitted, Ordered, Complete
<1>11. StepQuorum(r)'
  BY <1>1, <1>2, <1>4 DEF StepQuorum
<1>12. PendingInUndecided(r)'
  BY <1>1, <1>2, <1>3, ZenonT(60) DEF PendingInUndecided, TypeOK
<1>13. Separated(r)'
  BY <1>1, <1>2 DEF Separated
<1> QED
  BY <1>9, <1>10, <1>11, <1>12, <1>13 DEF RowInv

LEMMA CommandKeepsRow ==
    ASSUME IInv, NEW r \in Request, Command(r)
    PROVE  RowInv(r)'
  BY CreateKeepsRow, ApproveKeepsRow, TerminalKeepsRow, CancelKeepsRow, ReassignKeepsRow
     DEF Command, RejectRequest, ReturnRequest, Permission

LEMMA NextIInv == IInv /\ [Next]_vars => IInv'
<1> SUFFICES ASSUME IInv, [Next]_vars PROVE IInv'
  OBVIOUS
<1>1. TypeOK /\ TypeOK'
  BY NextTypeOK DEF IInv
<1>2. ASSUME NEW r \in Request, Command(r), NEW q \in Request
      PROVE  RowInv(q)'
  <2>1. CASE q = r
    BY <1>2, <2>1, CommandKeepsRow
  <2>2. CASE q # r
    BY <1>1, <1>2, <2>2, CommandFrame, SameRowKeepsInv DEF IInv
  <2> QED
    BY <2>1, <2>2
<1>3. ASSUME NEW q \in Request,
             UNCHANGED vars \/ \E u \in User : DeactivateUser(u) \/ ActivateUser(u)
      PROVE  RowInv(q)'
  <2>1. SameRow(q)
    BY <1>3 DEF SameRow, vars, DeactivateUser, ActivateUser
  <2> QED
    BY <2>1, SameRowKeepsInv DEF IInv
<1> QED
  BY <1>1, <1>2, <1>3 DEF IInv, Next

LEMMA Inductive == Spec => []IInv
  BY InitIInv, NextIInv, PTL DEF Spec

\* A request in progress has one open step, every earlier one approved and
\* every later one waiting.
THEOREM StepsInOrder == Spec => []InOrder
<1>1. IInv => InOrder
  BY DEF IInv, RowInv, Ordered, InOrder
<1> QED
  BY <1>1, Inductive, PTL

\* An approved step has its quorum, an approved request only approved steps.
THEOREM ApprovalHasQuorum == Spec => []Quorum
<1>1. IInv => Quorum
  BY DEF IInv, RowInv, StepQuorum, Complete, Quorum
<1> QED
  BY <1>1, Inductive, PTL

\* Nobody decides a request of their own unless the version allows it.
THEOREM NoSelfApproval == Spec => []SeparationOfDuties
<1>1. IInv => SeparationOfDuties
  BY DEF IInv, RowInv, Separated, SeparationOfDuties
<1> QED
  BY <1>1, Inductive, PTL

\* The open step always counts enough approvals and pending assignees.
THEOREM MinimumStaysReachable == Spec => []QuorumReachable
<1>1. IInv => QuorumReachable
  <2> SUFFICES ASSUME IInv, NEW r \in Request, status[r] = "IN_PROGRESS"
               PROVE  Cardinality(Counted(r, current[r])) >= Minimum(r, current[r])
    BY DEF QuorumReachable, Counted
  <2>1. current[r] \in StepsOf(r) /\ step[r][current[r]] = "OPEN"
    BY WorkflowFacts, StepFacts DEF IInv, RowInv, Ordered
  <2> QED
    BY <2>1 DEF IInv, RowInv, Reachable
<1> QED
  BY <1>1, Inductive, PTL

\* No assignment stays pending in a decided step.
THEOREM DecidedStepsOweNothing == Spec => []NothingPendingOnceDecided
<1>1. IInv => NothingPendingOnceDecided
  BY DEF IInv, RowInv, PendingInUndecided, Pending, NothingPendingOnceDecided
<1> QED
  BY <1>1, Inductive, PTL

\* A decided request is never touched again.
THEOREM DecidedIsHistory == Spec => DecidedIsFinal
<1>1. ASSUME TypeOK, [Next]_vars, NEW r \in Request, status[r] \in Verdict \cup {"CANCELLED"}
      PROVE  SameRow(r)
  <2>1. ASSUME NEW q \in Request, Command(q)
        PROVE  SameRow(r)
    <3>1. status[q] \in {"NONE", "IN_PROGRESS"}
      BY <2>1 DEF Command, CreateApprovalRequest, ApproveRequest, RejectRequest, ReturnRequest,
                  CancelRequest, ReassignRequest, LockedContext
    <3>2. r # q
      BY <1>1, <3>1 DEF Verdict
    <3> QED
      BY <1>1, <2>1, <3>2, CommandFrame
  <2>2. CASE UNCHANGED vars \/ \E u \in User : DeactivateUser(u) \/ ActivateUser(u)
    BY <2>2 DEF SameRow, vars, DeactivateUser, ActivateUser
  <2> QED
    BY <1>1, <2>1, <2>2 DEF Next
<1>2. TypeOK /\ [Next]_vars =>
        [\A r \in Request : status[r] \in Verdict \cup {"CANCELLED"} =>
            /\ status'[r] = status[r]
            /\ step'[r] = step[r]
            /\ assigned'[r] = assigned[r]
            /\ decisions'[r] = decisions[r]]_vars
  BY <1>1 DEF SameRow
<1> QED
  BY <1>2, TypeCorrect, PTL DEF Spec, DecidedIsFinal

-------------------------------------------------------------------------------
(***************************************************************************)
(* ApprovalEngine implements ApprovalOutcome, for every set of users, every *)
(* workflow version and any number of requests.  The argument is that the   *)
(* decision rows and the assignments tell the same story: an assignment is  *)
(* approved exactly when its user's vote is recorded, so a step of the      *)
(* engine has its minimum exactly when the votes say so.                    *)
(***************************************************************************)

\* The decision rows agree with the assignments.
RowsAgree(r) ==
    /\ \A d \in decisions[r] : assigned[r][d.step][d.by] = d.verdict
    /\ \A s \in Step : \A u \in User : assigned[r][s][u] = "APPROVED" =>
         [step |-> s, by |-> u, verdict |-> "APPROVED"] \in decisions[r]

\* A refused request has its refusal on record, and no other one has any.
RefusalsAgree(r) ==
    \A v \in {"REJECTED", "RETURNED"} :
        status[r] = v <=> \E d \in decisions[r] : d.verdict = v

\* Nobody has approved a step that waits, and the open one is short of votes.
NothingEarly(r) ==
    /\ \A s \in Step : \A u \in User :
         step[r][s] = "WAITING" => assigned[r][s][u] # "APPROVED"
    /\ status[r] = "IN_PROGRESS" =>
         Cardinality(Approvers(r, current[r])) < Minimum(r, current[r])

Recorded(r) == RowsAgree(r) /\ RefusalsAgree(r) /\ NothingEarly(r)
RInv == IInv /\ \A r \in Request : Recorded(r)

\* The votes for a step are the votes of those whose assignment is approved.
LEMMA VotesAreApprovals ==
    ASSUME NEW V \in SUBSET Decision, NEW a \in [Step -> [User -> AssignmentStatus]],
           NEW s \in Step,
           \A d \in V : a[d.step][d.by] = d.verdict,
           \A u \in User : a[s][u] = "APPROVED" =>
             [step |-> s, by |-> u, verdict |-> "APPROVED"] \in V
    PROVE  {u \in User : [step |-> s, by |-> u, verdict |-> "APPROVED"] \in V}
             = {u \in User : a[s][u] = "APPROVED"}
<1>1. ASSUME NEW u \in User, [step |-> s, by |-> u, verdict |-> "APPROVED"] \in V
      PROVE  a[s][u] = "APPROVED"
  <2> DEFINE d == [step |-> s, by |-> u, verdict |-> "APPROVED"]
  <2>1. a[d.step][d.by] = d.verdict
    BY <1>1
  <2> QED
    BY <2>1
<1> QED
  BY <1>1

LEMMA NoApprovers ==
    ASSUME TypeOK, NEW r \in Request, NEW S \in SUBSET User, S = {}, NEW s \in Step
    PROVE  Cardinality(S) < Minimum(r, s)
  BY FS_EmptySet, WorkflowFacts

-----------------------------------------------------------------------------
(* The rows keep telling the same story. *)

LEMMA InitRInv == Init => RInv
<1> SUFFICES ASSUME Init PROVE \A r \in Request : Recorded(r)
  BY InitIInv DEF RInv
<1> QED
  BY DEF Init, Recorded, RowsAgree, RefusalsAgree, NothingEarly

LEMMA SameRowKeepsRecord ==
    ASSUME NEW q \in Request, Recorded(q), SameRow(q)
    PROVE  Recorded(q)'
  BY DEF SameRow, Recorded, RowsAgree, RefusalsAgree, NothingEarly, Approvers, Minimum

LEMMA CreateKeepsRecord ==
    ASSUME RInv, NEW r \in Request, NEW u \in User, CreateApprovalRequest(r, u)
    PROVE  Recorded(r)'
<1>1. TypeOK /\ NotSubmitted(r) /\ TypeOK'
  BY NextTypeOK DEF RInv, IInv, RowInv, Next, Command
<1>2. /\ status'[r] = "IN_PROGRESS" /\ decisions'[r] = {}
      /\ \A s \in Step : Minimum(r, s)' = Minimum(r, s)
      /\ \A s \in Step : \A x \in User : assigned'[r][s][x] # "APPROVED"
  BY <1>1 DEF CreateApprovalRequest, NotSubmitted, TypeOK, Minimum
<1>3. PICK first \in Step : current'[r] = first
  BY <1>1 DEF CreateApprovalRequest, TypeOK
<1>4. Approvers(r, first)' = {}
  BY <1>2 DEF Approvers
<1>5. Cardinality({x \in User : assigned'[r][first][x] = "APPROVED"}) < Minimum(r, first)
  BY <1>1, <1>2, NoApprovers
<1> QED
  BY <1>2, <1>3, <1>5 DEF Recorded, RowsAgree, RefusalsAgree, NothingEarly, Approvers

\* A recorded decision of u changes the assignment of u on the open step and,
\* at most, turns pending ones into skipped ones.
LEMMA DecisionKeepsRows ==
    ASSUME RInv, NEW r \in Request, NEW c \in Step, NEW u \in User, NEW v \in Verdict,
           assigned[r][c][u] = "PENDING",
           decisions'[r] = decisions[r] \cup {[step |-> c, by |-> u, verdict |-> v]},
           assigned'[r][c][u] = v,
           \A s \in Step : \A x \in User :
             (s # c \/ x # u) =>
               (assigned'[r][s][x] = assigned[r][s][x]
                  \/ (assigned[r][s][x] = "PENDING" /\ assigned'[r][s][x] = "SKIPPED"))
    PROVE  RowsAgree(r)'
<1>1. RowsAgree(r) /\ decisions[r] \in SUBSET Decision
  BY DEF RInv, IInv, TypeOK, Recorded
<1>2. ASSUME NEW d \in decisions[r] PROVE assigned'[r][d.step][d.by] = d.verdict
  <2>1. d.step \in Step /\ d.by \in User /\ d.verdict \in Verdict
    BY <1>1 DEF Decision
  <2>2. assigned[r][d.step][d.by] = d.verdict /\ d.verdict # "PENDING"
    BY <1>1, <2>1 DEF RowsAgree, Verdict
  <2>3. d.step # c \/ d.by # u
    BY <2>2
  <2> QED
    BY <2>1, <2>2, <2>3
<1>3. \A d \in decisions'[r] : assigned'[r][d.step][d.by] = d.verdict
  BY <1>2
<1>4. ASSUME NEW s \in Step, NEW x \in User, assigned'[r][s][x] = "APPROVED"
      PROVE  [step |-> s, by |-> x, verdict |-> "APPROVED"] \in decisions'[r]
  <2>1. CASE s = c /\ x = u
    BY <1>4, <2>1
  <2>2. CASE s # c \/ x # u
    BY <1>1, <1>4, <2>2 DEF RowsAgree
  <2> QED
    BY <2>1, <2>2
<1> QED
  BY <1>3, <1>4 DEF RowsAgree

\* What a vote of u on r starts from.
LEMMA VoteFacts ==
    ASSUME RInv, NEW r \in Request, NEW u \in User, NEW p \in Permission, LockedContext(r, u, p)
    PROVE  /\ TypeOK /\ Recorded(r) /\ Ordered(r) /\ StepQuorum(r)
           /\ status[r] = "IN_PROGRESS"
           /\ current[r] \in StepsOf(r) /\ StepsOf(r) \subseteq Step
           /\ step[r][current[r]] = "OPEN"
           /\ assigned[r][current[r]][u] = "PENDING"
  BY DecisionFacts DEF RInv, IInv, RowInv

LEMMA ApproveKeepsRecord ==
    ASSUME RInv, NEW r \in Request, NEW u \in User, ApproveRequest(r, u)
    PROVE  Recorded(r)'
<1>0. "approve" \in Permission /\ "APPROVED" \in Verdict
  BY DEF Permission, Verdict
<1>1. /\ TypeOK /\ Recorded(r) /\ Ordered(r)
      /\ status[r] = "IN_PROGRESS"
      /\ current[r] \in StepsOf(r) /\ StepsOf(r) \subseteq Step
      /\ step[r][current[r]] = "OPEN"
      /\ assigned[r][current[r]][u] = "PENDING"
  BY <1>0, VoteFacts DEF ApproveRequest
<1> PICK c \in Step : c = current[r]
  BY <1>1
<1>2. /\ decisions'[r] = decisions[r] \cup {[step |-> c, by |-> u, verdict |-> "APPROVED"]}
      /\ UNCHANGED version
      /\ \A s \in Step : Minimum(r, s)' = Minimum(r, s)
  BY <1>1 DEF ApproveRequest, RecordDecision, TypeOK, Minimum
<1>3. /\ AfterApproval(r, u) \in [User -> AssignmentStatus]
      /\ AfterApproval(r, u)[u] = "APPROVED"
      /\ \A x \in User : x # u => AfterApproval(r, u)[x] = assigned[r][c][x]
  BY <1>1 DEF AfterApproval, AssignmentStatus, Verdict, TypeOK
<1>4. \/ assigned' = [assigned EXCEPT ![r][c] = AfterApproval(r, u)]
      \/ assigned' = [assigned EXCEPT ![r][c] = Retire(AfterApproval(r, u), "SKIPPED")]
  BY DEF ApproveRequest, ApproveAndWait, ApproveAndAdvance, ApproveAndComplete
<1>5. /\ \A s \in Step : s # c => assigned'[r][s] = assigned[r][s]
      /\ assigned'[r][c][u] = "APPROVED"
      /\ \A x \in User : x # u =>
           (assigned'[r][c][x] = assigned[r][c][x]
              \/ (assigned[r][c][x] = "PENDING" /\ assigned'[r][c][x] = "SKIPPED"))
  <2>1. CASE assigned' = [assigned EXCEPT ![r][c] = AfterApproval(r, u)]
    <3>1. /\ assigned'[r][c] = AfterApproval(r, u)
          /\ \A s \in Step : s # c => assigned'[r][s] = assigned[r][s]
      BY <1>1, <2>1 DEF TypeOK
    <3> QED
      BY <1>3, <3>1
  <2>2. CASE assigned' = [assigned EXCEPT ![r][c] = Retire(AfterApproval(r, u), "SKIPPED")]
    <3>1. assigned'[r][c] = Retire(AfterApproval(r, u), "SKIPPED")
      BY <1>1, <2>2 DEF TypeOK
    <3>2. \A s \in Step : s # c => assigned'[r][s] = assigned[r][s]
      BY <1>1, <2>2 DEF TypeOK
    <3>3. \A x \in User : assigned'[r][c][x] =
            IF AfterApproval(r, u)[x] = "PENDING" THEN "SKIPPED" ELSE AfterApproval(r, u)[x]
      BY <3>1 DEF Retire
    <3> QED
      BY <1>3, <3>2, <3>3
  <2> QED
    BY <1>4, <2>1, <2>2
<1>6. RowsAgree(r)'
  BY <1>0, <1>1, <1>2, <1>5, DecisionKeepsRows
<1>7. RefusalsAgree(r) /\ NothingEarly(r)
  BY <1>1 DEF Recorded
<1>8. status'[r] \in {"IN_PROGRESS", "APPROVED"}
  BY <1>1 DEF ApproveRequest, ApproveAndWait, ApproveAndAdvance, ApproveAndComplete, TypeOK
<1>9. RefusalsAgree(r)'
  BY <1>1, <1>2, <1>7, <1>8 DEF RefusalsAgree
<1>10. NothingEarly(r)'
  <2>1. CASE ApproveAndWait(r, u)
    <3>1. /\ status'[r] = "IN_PROGRESS" /\ current'[r] = c /\ step' = step
          /\ assigned'[r][c] = AfterApproval(r, u)
      BY <1>1, <2>1 DEF ApproveAndWait, TypeOK
    <3>2. Approvers(r, c)' = {x \in User : AfterApproval(r, u)[x] = "APPROVED"}
      BY <3>1 DEF Approvers
    <3>3. ~ (Cardinality(Approvers(r, c)') >= Minimum(r, c))
      BY <2>1, <3>2 DEF ApproveAndWait, ReachesMinimum
    <3>4. Approvers(r, c)' \in SUBSET User
      BY <3>2
    <3>5. Cardinality(Approvers(r, c)') < Minimum(r, c)
      BY <1>1, <3>3, <3>4, UserSubsets, WorkflowFacts
    <3>6. \A s \in Step : \A x \in User :
            step'[r][s] = "WAITING" => assigned'[r][s][x] # "APPROVED"
      BY <1>1, <1>5, <1>7, <3>1 DEF NothingEarly
    <3> QED
      BY <1>2, <3>1, <3>5, <3>6 DEF NothingEarly, Approvers
  <2>2. CASE ApproveAndAdvance(r, u)
    <3>1. PICK next \in Step :
            /\ IsFirst(next, LaterSteps(r, c))
            /\ step' = [step EXCEPT ![r] = [@ EXCEPT ![c] = "APPROVED", ![next] = "OPEN"]]
            /\ current' = [current EXCEPT ![r] = next]
      BY <2>2 DEF ApproveAndAdvance
    <3>2. next \in StepsOf(r) /\ next > c
      BY <3>1 DEF IsFirst, LaterSteps
    <3>3. /\ step'[r][c] = "APPROVED" /\ step'[r][next] = "OPEN"
          /\ \A s \in Step : s # c /\ s # next => step'[r][s] = step[r][s]
          /\ step[r][next] = "WAITING" /\ next # c
          /\ current'[r] = next
      BY <1>1, <3>1, <3>2, StepFacts DEF Ordered, TypeOK
    <3>4. \A x \in User : assigned'[r][next][x] # "APPROVED"
      BY <1>5, <1>7, <3>3 DEF NothingEarly
    <3>5. {x \in User : assigned'[r][next][x] = "APPROVED"} = {}
      BY <3>4
    <3>6. Cardinality({x \in User : assigned'[r][next][x] = "APPROVED"}) < Minimum(r, next)
      BY <1>1, <3>5, NoApprovers
    <3>7. \A s \in Step : \A x \in User :
            step'[r][s] = "WAITING" => assigned'[r][s][x] # "APPROVED"
      BY <1>5, <1>7, <3>3 DEF NothingEarly
    <3> QED
      BY <1>2, <3>3, <3>6, <3>7 DEF NothingEarly, Approvers
  <2>3. CASE ApproveAndComplete(r, u)
    <3>1. /\ status'[r] = "APPROVED"
          /\ step'[r][c] = "APPROVED"
          /\ \A s \in Step : s # c => step'[r][s] = step[r][s]
      BY <1>1, <2>3 DEF ApproveAndComplete, TypeOK
    <3> QED
      BY <1>5, <1>7, <3>1 DEF NothingEarly
  <2> QED
    BY <2>1, <2>2, <2>3 DEF ApproveRequest
<1> QED
  BY <1>6, <1>9, <1>10 DEF Recorded

LEMMA TerminalKeepsRecord ==
    ASSUME RInv, NEW r \in Request, NEW u \in User, NEW p \in Permission,
           NEW v \in {"REJECTED", "RETURNED"}, LockedContext(r, u, p), TerminalDecision(r, u, v)
    PROVE  Recorded(r)'
<1>1. /\ TypeOK /\ Recorded(r)
      /\ status[r] = "IN_PROGRESS"
      /\ current[r] \in StepsOf(r) /\ StepsOf(r) \subseteq Step
      /\ assigned[r][current[r]][u] = "PENDING"
  BY VoteFacts
<1> PICK c \in Step : c = current[r]
  BY <1>1
<1>2. /\ decisions'[r] = decisions[r] \cup {[step |-> c, by |-> u, verdict |-> v]}
      /\ status'[r] = v
      /\ step'[r][c] = v
      /\ \A s \in Step : s # c => step'[r][s] = step[r][s] /\ assigned'[r][s] = assigned[r][s]
      /\ assigned'[r][c] = Retire([assigned[r][c] EXCEPT ![u] = v], "SKIPPED")
  BY <1>1 DEF TerminalDecision, RecordDecision, TypeOK
<1>3. /\ assigned'[r][c][u] = v
      /\ \A x \in User : x # u =>
           (assigned'[r][c][x] = assigned[r][c][x]
              \/ (assigned[r][c][x] = "PENDING" /\ assigned'[r][c][x] = "SKIPPED"))
  <2> DEFINE a == [assigned[r][c] EXCEPT ![u] = v]
  <2>0. assigned[r][c] \in [User -> AssignmentStatus]
    BY <1>1 DEF TypeOK
  <2>1. a[u] = v /\ \A x \in User : x # u => a[x] = assigned[r][c][x]
    BY <2>0
  <2> HIDE DEF a
  <2>2. ASSUME NEW x \in User
        PROVE  assigned'[r][c][x] = IF a[x] = "PENDING" THEN "SKIPPED" ELSE a[x]
    <3>1. assigned'[r][c] = Retire(a, "SKIPPED")
      BY <1>2 DEF a
    <3> QED
      BY <3>1 DEF Retire
  <2> QED
    BY <2>1, <2>2
<1>4. RowsAgree(r)'
  BY <1>1, <1>2, <1>3, DecisionKeepsRows DEF Verdict
<1>5. RefusalsAgree(r)'
  <2>1. \A d \in decisions[r] : d.verdict \notin {"REJECTED", "RETURNED"}
    BY <1>1 DEF Recorded, RefusalsAgree
  <2>2. ASSUME NEW w \in {"REJECTED", "RETURNED"}
        PROVE  status'[r] = w <=> \E d \in decisions'[r] : d.verdict = w
    <3>1. [step |-> c, by |-> u, verdict |-> v].verdict = v
      OBVIOUS
    <3>2. CASE w = v
      BY <1>2, <3>1, <3>2
    <3>3. CASE w # v
      BY <1>2, <2>1, <3>1, <3>3
    <3> QED
      BY <3>2, <3>3
  <2> QED
    BY <2>2 DEF RefusalsAgree
<1>6. NothingEarly(r)'
  <2>1. status'[r] # "IN_PROGRESS" /\ NothingEarly(r)
    BY <1>1, <1>2 DEF Recorded
  <2>2. \A s \in Step : \A x \in User :
          step'[r][s] = "WAITING" => assigned'[r][s][x] # "APPROVED"
    BY <1>2, <2>1 DEF NothingEarly
  <2> QED
    BY <2>1, <2>2 DEF NothingEarly
<1> QED
  BY <1>4, <1>5, <1>6 DEF Recorded

LEMMA CancelKeepsRecord ==
    ASSUME RInv, NEW r \in Request, NEW u \in User, CancelRequest(r, u)
    PROVE  Recorded(r)'
<1>1. TypeOK /\ Recorded(r)
  BY DEF RInv, IInv
<1>2. /\ status[r] = "IN_PROGRESS" /\ status'[r] = "CANCELLED" /\ decisions' = decisions
      /\ \A s \in Step : step'[r][s] = IF step[r][s] \in {"WAITING", "OPEN"}
                                       THEN "CANCELLED" ELSE step[r][s]
      /\ \A s \in Step : assigned'[r][s] = Retire(assigned[r][s], "CANCELLED")
  BY <1>1 DEF CancelRequest, TypeOK
<1>3. \A s \in Step : \A x \in User :
        assigned'[r][s][x] = IF assigned[r][s][x] = "PENDING" THEN "CANCELLED"
                             ELSE assigned[r][s][x]
  <2> SUFFICES ASSUME NEW s \in Step, NEW x \in User
               PROVE  assigned'[r][s][x] = IF assigned[r][s][x] = "PENDING" THEN "CANCELLED"
                                           ELSE assigned[r][s][x]
    OBVIOUS
  <2>1. assigned'[r][s] = Retire(assigned[r][s], "CANCELLED")
    BY <1>2
  <2> QED
    BY <2>1 DEF Retire
<1>4. ASSUME NEW d \in decisions[r] PROVE assigned'[r][d.step][d.by] = d.verdict
  <2>1. d.step \in Step /\ d.by \in User /\ d.verdict \in Verdict
    BY <1>1 DEF TypeOK, Decision
  <2>2. assigned[r][d.step][d.by] = d.verdict /\ d.verdict # "PENDING"
    BY <1>1, <2>1 DEF Recorded, RowsAgree, Verdict
  <2> QED
    BY <1>3, <2>1, <2>2
<1>5. RowsAgree(r)'
  BY <1>1, <1>2, <1>3, <1>4 DEF Recorded, RowsAgree
<1>6. RefusalsAgree(r)' /\ NothingEarly(r)'
  BY <1>1, <1>2, <1>3 DEF Recorded, RefusalsAgree, NothingEarly
<1> QED
  BY <1>5, <1>6 DEF Recorded

LEMMA ReassignKeepsRecord ==
    ASSUME RInv, NEW r \in Request, NEW from \in User, NEW to \in User, NEW u \in User,
           ReassignRequest(r, from, to, u)
    PROVE  Recorded(r)'
<1>1. TypeOK /\ Recorded(r) /\ Ordered(r)
  BY DEF RInv, IInv, RowInv
<1> PICK c \in Step : c = current[r]
  BY <1>1 DEF ReassignRequest, TypeOK
<1>2. /\ UNCHANGED <<status, version, current, step, decisions>>
      /\ assigned[r][c][from] = "PENDING" /\ assigned[r][c][to] = "NONE"
      /\ assigned' = [assigned EXCEPT ![r][c] = [@ EXCEPT ![from] = "SKIPPED", ![to] = "PENDING"]]
      /\ status[r] = "IN_PROGRESS"
  BY DEF ReassignRequest
<1>3. assigned[r] \in [Step -> [User -> AssignmentStatus]]
  BY <1>1 DEF TypeOK
<1>4. assigned'[r] = [assigned[r] EXCEPT ![c] =
        [assigned[r][c] EXCEPT ![from] = "SKIPPED", ![to] = "PENDING"]]
  BY <1>1, <1>2 DEF TypeOK
<1>5. \A s \in Step : \A x \in User :
        assigned'[r][s][x] = IF s = c /\ x = to THEN "PENDING"
                             ELSE IF s = c /\ x = from THEN "SKIPPED" ELSE assigned[r][s][x]
  BY <1>3, <1>4
<1>6. ASSUME NEW d \in decisions[r] PROVE assigned'[r][d.step][d.by] = d.verdict
  <2>1. d.step \in Step /\ d.by \in User /\ d.verdict \in Verdict
    BY <1>1 DEF TypeOK, Decision
  <2>2. assigned[r][d.step][d.by] = d.verdict /\ d.verdict \notin {"PENDING", "NONE"}
    BY <1>1, <2>1 DEF Recorded, RowsAgree, Verdict
  <2> QED
    BY <1>2, <1>5, <2>1, <2>2
<1>7. \A s \in Step : \A x \in User :
        assigned'[r][s][x] = "APPROVED" <=> assigned[r][s][x] = "APPROVED"
  BY <1>2, <1>5
<1>8. RowsAgree(r)'
  BY <1>1, <1>2, <1>6, <1>7 DEF Recorded, RowsAgree
<1>9. {x \in User : assigned'[r][c][x] = "APPROVED"} = {x \in User : assigned[r][c][x] = "APPROVED"}
  BY <1>7
<1>10. NothingEarly(r)'
  <2>1. NothingEarly(r) /\ Approvers(r, c)' = Approvers(r, c) /\ Minimum(r, c)' = Minimum(r, c)
    BY <1>1, <1>2, <1>9 DEF Recorded, Approvers, Minimum
  <2>2. \A s \in Step : \A x \in User :
          step'[r][s] = "WAITING" => assigned'[r][s][x] # "APPROVED"
    BY <1>2, <1>7, <2>1 DEF NothingEarly
  <2>3. Cardinality(Approvers(r, c)') < Minimum(r, c)'
    BY <1>2, <2>1 DEF NothingEarly
  <2> QED
    BY <1>2, <2>2, <2>3 DEF NothingEarly, Approvers, Minimum
<1>11. RefusalsAgree(r)'
  BY <1>1, <1>2 DEF Recorded, RefusalsAgree
<1> QED
  BY <1>8, <1>10, <1>11 DEF Recorded

LEMMA CommandKeepsRecord ==
    ASSUME RInv, NEW r \in Request, Command(r)
    PROVE  Recorded(r)'
  BY CreateKeepsRecord, ApproveKeepsRecord, TerminalKeepsRecord, CancelKeepsRecord,
     ReassignKeepsRecord
     DEF Command, RejectRequest, ReturnRequest, Permission

LEMMA NextRInv == RInv /\ [Next]_vars => RInv'
<1> SUFFICES ASSUME RInv, [Next]_vars PROVE RInv'
  OBVIOUS
<1>1. IInv /\ IInv' /\ TypeOK /\ \A r \in Request : Recorded(r)
  BY NextIInv DEF RInv, IInv
<1>2. ASSUME NEW r \in Request, Command(r), NEW q \in Request
      PROVE  Recorded(q)'
  <2>1. CASE q = r
    BY <1>2, <2>1, CommandKeepsRecord
  <2>2. CASE q # r
    BY <1>1, <1>2, <2>2, CommandFrame, SameRowKeepsRecord
  <2> QED
    BY <2>1, <2>2
<1>3. ASSUME NEW q \in Request,
             UNCHANGED vars \/ \E u \in User : DeactivateUser(u) \/ ActivateUser(u)
      PROVE  Recorded(q)'
  <2>1. SameRow(q)
    BY <1>3 DEF SameRow, vars, DeactivateUser, ActivateUser
  <2> QED
    BY <1>1, <2>1, SameRowKeepsRecord
<1> QED
  BY <1>1, <1>2, <1>3 DEF RInv, Next

LEMMA RecordedAlways == Spec => []RInv
  BY InitRInv, NextRInv, PTL DEF Spec

\* The decision rows explain the outcome of every request.
THEOREM DecisionsExplain == Spec => []DecisionsExplainOutcome
<1>1. RInv => DecisionsExplainOutcome
  BY DEF RInv, Recorded, RowsAgree, RefusalsAgree, DecisionsExplainOutcome, Approvers
<1> QED
  BY <1>1, RecordedAlways, PTL

-----------------------------------------------------------------------------
(* Every step of the engine is a step of the outcome, or leaves it alone. *)

\* The votes V of request r against assignments a that agree with them.
LEMMA QuorateMeansApproved ==
    ASSUME NEW r \in Request, NEW s \in Step,
           NEW V \in SUBSET Decision, NEW a \in [Step -> [User -> AssignmentStatus]],
           \A d \in V : a[d.step][d.by] = d.verdict,
           \A u \in User : a[s][u] = "APPROVED" =>
             [step |-> s, by |-> u, verdict |-> "APPROVED"] \in V
    PROVE  Outcome!Quorate(r, s, V)
             <=> Cardinality({u \in User : a[s][u] = "APPROVED"}) >= Minimum(r, s)
<1>1. {u \in User : [step |-> s, by |-> u, verdict |-> "APPROVED"] \in V}
        = {u \in User : a[s][u] = "APPROVED"}
  BY VotesAreApprovals
<1>2. Outcome!Quorate(r, s, V)
        <=> Cardinality({u \in User : [step |-> s, by |-> u, verdict |-> "APPROVED"] \in V})
              >= Minimum(r, s)
  <2>1. Outcome!Cardinality({u \in User : [step |-> s, by |-> u, verdict |-> "APPROVED"] \in V})
          = Cardinality({u \in User : [step |-> s, by |-> u, verdict |-> "APPROVED"] \in V})
    BY Zenon DEF Outcome!Cardinality, Cardinality
  <2> QED
    BY <2>1, Zenon DEF Outcome!Quorate, Minimum
<1> QED
  BY <1>1, <1>2, Zenon

LEMMA OpenStepIsDue ==
    ASSUME RInv, NEW r \in Request, NEW c \in StepsOf(r),
           status[r] = "IN_PROGRESS", c = current[r]
    PROVE  Outcome!Due(r, c)
<1>1. /\ TypeOK /\ Ordered(r) /\ StepQuorum(r) /\ RowsAgree(r) /\ NothingEarly(r)
      /\ StepsOf(r) \subseteq Step
  BY WorkflowFacts DEF RInv, IInv, RowInv, Recorded
<1>2. ASSUME NEW s \in StepsOf(r)
      PROVE  Outcome!Quorate(r, s, decisions[r])
               <=> Cardinality(Approvers(r, s)) >= Minimum(r, s)
  <2>1. /\ \A d \in decisions[r] : assigned[r][d.step][d.by] = d.verdict
        /\ \A u \in User : assigned[r][s][u] = "APPROVED" =>
             [step |-> s, by |-> u, verdict |-> "APPROVED"] \in decisions[r]
    BY <1>1 DEF RowsAgree
  <2>2. decisions[r] \in SUBSET Decision /\ assigned[r] \in [Step -> [User -> AssignmentStatus]]
    BY <1>1 DEF TypeOK
  <2>3. Outcome!Quorate(r, s, decisions[r])
          <=> Cardinality({u \in User : assigned[r][s][u] = "APPROVED"}) >= Minimum(r, s)
    BY <1>1, <2>1, <2>2, QuorateMeansApproved
  <2> QED
    BY <2>3 DEF Approvers
<1>3. ~Outcome!Quorate(r, c, decisions[r])
  <2>1. Approvers(r, c) \in SUBSET User
    BY DEF Approvers
  <2>2. Cardinality(Approvers(r, c)) \in Nat /\ Minimum(r, c) \in Nat
    BY <1>1, <2>1, UserSubsets, WorkflowFacts
  <2> QED
    BY <1>1, <1>2, <2>2 DEF NothingEarly
<1>4. \A t \in StepsOf(r) : t < c => Outcome!Quorate(r, t, decisions[r])
  BY <1>1, <1>2 DEF Ordered, StepQuorum
<1>5. c \in Outcome!StepsOf(r)
  BY DEF Outcome!StepsOf, StepsOf
<1> QED
  BY <1>3, <1>4, <1>5 DEF Outcome!Due, Outcome!StepsOf, StepsOf

LEMMA DecisionIsVote ==
    ASSUME RInv, NEW r \in Request, NEW u \in User, NEW p \in Permission, NEW v \in Verdict,
           LockedContext(r, u, p), RecordDecision(r, u, v), UNCHANGED <<version, requester>>
    PROVE  Outcome!Vote(r, u, current[r], v)
<1>1. /\ RowsAgree(r) /\ TypeOK /\ status[r] = "IN_PROGRESS"
      /\ current[r] \in StepsOf(r)
      /\ assigned[r][current[r]][u] = "PENDING"
  BY VoteFacts DEF Recorded
<1>2. Outcome!Due(r, current[r])
  BY <1>1, OpenStepIsDue
<1>3. ASSUME NEW d \in decisions[r], d.step = current[r], d.by = u
      PROVE  FALSE
  <2>1. assigned[r][d.step][d.by] = d.verdict
    BY <1>1 DEF RowsAgree
  <2>2. d.verdict \in Verdict
    BY <1>1 DEF TypeOK, Decision
  <2> QED
    BY <1>1, <1>3, <2>1, <2>2 DEF Verdict
<1> QED
  BY <1>1, <1>2, <1>3 DEF Outcome!Vote, LockedContext, RecordDecision

\* The engine's approval ends the request exactly when every step has its votes.
LEMMA ApproveRefines ==
    ASSUME RInv, NEW r \in Request, NEW u \in User, ApproveRequest(r, u)
    PROVE  Outcome!Approve(r, u, current[r])
<1>0. "approve" \in Permission /\ "APPROVED" \in Verdict
  BY DEF Permission, Verdict
<1>1. Outcome!Vote(r, u, current[r], "APPROVED")
  BY <1>0, DecisionIsVote DEF ApproveRequest
<1>2. RInv'
  BY NextRInv DEF Next, Command
<1>3. /\ TypeOK /\ status[r] = "IN_PROGRESS" /\ StepsOf(r) \subseteq Step
  BY <1>0, VoteFacts DEF ApproveRequest
<1>4. /\ StepsOf(r)' = StepsOf(r) /\ \A s \in Step : Minimum(r, s)' = Minimum(r, s)
  BY DEF ApproveRequest, StepsOf, Minimum
<1>5. /\ RowsAgree(r)' /\ NothingEarly(r)' /\ Complete(r)' /\ StepQuorum(r)' /\ Ordered(r)'
  BY <1>2 DEF RInv, IInv, RowInv, Recorded
<1>6. ASSUME NEW s \in StepsOf(r)
      PROVE  Outcome!Quorate(r, s, decisions'[r])
               <=> Cardinality(Approvers(r, s)') >= Minimum(r, s)
  <2>1. /\ \A d \in decisions'[r] : assigned'[r][d.step][d.by] = d.verdict
        /\ \A x \in User : assigned'[r][s][x] = "APPROVED" =>
             [step |-> s, by |-> x, verdict |-> "APPROVED"] \in decisions'[r]
    BY <1>3, <1>5 DEF RowsAgree
  <2>2. decisions'[r] \in SUBSET Decision /\ assigned'[r] \in [Step -> [User -> AssignmentStatus]]
    BY <1>2 DEF RInv, IInv, TypeOK
  <2>3. Outcome!Quorate(r, s, decisions'[r])
          <=> Cardinality({x \in User : assigned'[r][s][x] = "APPROVED"}) >= Minimum(r, s)
    BY <1>3, <2>1, <2>2, QuorateMeansApproved
  <2> QED
    BY <2>3 DEF Approvers
<1>7. CASE ApproveAndComplete(r, u)
  <2>1. status' = [status EXCEPT ![r] = "APPROVED"] /\ status'[r] = "APPROVED"
    BY <1>3, <1>7 DEF ApproveAndComplete, TypeOK
  <2>2. \A s \in StepsOf(r) : Outcome!Quorate(r, s, decisions'[r])
    BY <1>3, <1>4, <1>5, <1>6, <2>1 DEF Complete, StepQuorum
  <2> QED
    BY <1>1, <2>1, <2>2 DEF Outcome!Approve, Outcome!StepsOf, StepsOf
<1>8. CASE ApproveAndWait(r, u) \/ ApproveAndAdvance(r, u)
  <2>1. status' = status
    BY <1>8 DEF ApproveAndWait, ApproveAndAdvance
  <2>2. current'[r] \in StepsOf(r) /\ current'[r] \in Step
    BY <1>3, <1>4, <1>5, <2>1 DEF Ordered
  <2>3. PICK n \in StepsOf(r) : n = current'[r]
    BY <2>2
  <2>4. Cardinality(Approvers(r, n)') < Minimum(r, n)
    BY <1>3, <1>4, <1>5, <2>1, <2>2, <2>3 DEF NothingEarly, Approvers, Minimum
  <2>5. Approvers(r, n)' \in SUBSET User
    BY DEF Approvers
  <2>6. Cardinality(Approvers(r, n)') \in Nat /\ Minimum(r, n) \in Nat
    BY <1>3, <2>5, UserSubsets, WorkflowFacts
  <2>7. ~Outcome!Quorate(r, n, decisions'[r])
    BY <1>6, <2>4, <2>6
  <2>8. status' = [status EXCEPT ![r] = status[r]]
    BY <1>3, <2>1 DEF TypeOK
  <2> QED
    BY <1>1, <2>7, <2>8 DEF Outcome!Approve, Outcome!StepsOf, StepsOf
<1> QED
  BY <1>7, <1>8 DEF ApproveRequest

LEMMA RefuseRefines ==
    ASSUME RInv, NEW r \in Request, NEW u \in User, RejectRequest(r, u) \/ ReturnRequest(r, u)
    PROVE  Outcome!Refuse(r, u, current[r])
<1>1. CASE RejectRequest(r, u)
  <2>1. Outcome!Vote(r, u, current[r], "REJECTED")
    BY <1>1, DecisionIsVote DEF RejectRequest, TerminalDecision, Permission, Verdict
  <2> QED
    BY <1>1, <2>1 DEF Outcome!Refuse, RejectRequest, TerminalDecision
<1>2. CASE ReturnRequest(r, u)
  <2>1. Outcome!Vote(r, u, current[r], "RETURNED")
    BY <1>2, DecisionIsVote DEF ReturnRequest, TerminalDecision, Permission, Verdict
  <2> QED
    BY <1>2, <2>1 DEF Outcome!Refuse, ReturnRequest, TerminalDecision
<1> QED
  BY <1>1, <1>2

LEMMA StepRefines == RInv /\ [Next]_vars => [Outcome!Next]_(Outcome!vars)
<1> SUFFICES ASSUME RInv, [Next]_vars PROVE [Outcome!Next]_(Outcome!vars)
  OBVIOUS
<1>1. ASSUME NEW r \in Request, NEW u \in User,
             ApproveRequest(r, u) \/ RejectRequest(r, u) \/ ReturnRequest(r, u)
      PROVE  Outcome!Next
  <2>1. current[r] \in Step
    BY <1>1, VoteFacts DEF ApproveRequest, RejectRequest, ReturnRequest, Permission
  <2> QED
    BY <1>1, <2>1, ApproveRefines, RefuseRefines DEF Outcome!Next
<1>2. ASSUME NEW r \in Request, NEW u \in User, CreateApprovalRequest(r, u) \/ CancelRequest(r, u)
      PROVE  Outcome!Next
  BY <1>2 DEF Outcome!Next, Outcome!Submit, Outcome!Cancel, CreateApprovalRequest, CancelRequest
<1>3. ASSUME \/ \E r \in Request, from, to, u \in User : ReassignRequest(r, from, to, u)
             \/ \E u \in User : DeactivateUser(u) \/ ActivateUser(u)
             \/ UNCHANGED vars
      PROVE  UNCHANGED Outcome!vars
  BY <1>3 DEF ReassignRequest, DeactivateUser, ActivateUser, vars, Outcome!vars
<1> QED
  BY <1>1, <1>2, <1>3 DEF Next, Command

\* The engine implements the outcome specification: whatever is reassigned,
\* skipped or disabled, and whoever races whom, the outcome of a request is
\* what the recorded votes say.
THEOREM EngineImplementsOutcome == Spec => OutcomeIsTheVotes
<1>1. Init => Outcome!Init
  BY DEF Init, Outcome!Init
<1> QED
  BY <1>1, RecordedAlways, StepRefines, PTL DEF Spec, OutcomeIsTheVotes, Outcome!Spec

-----------------------------------------------------------------------------
(* The verdict                                                               *)

\* What the outcome specification calls an approval or a refusal is a decision
\* of an open request.
LEMMA OutcomeGivesVerdict ==
    TypeOK /\ [Outcome!Next]_(Outcome!vars) =>
        [Verdicts!Next]_[r \in Request |-> IF status[r] = "IN_PROGRESS" THEN "OPEN" ELSE status[r]]
<1> DEFINE outcome == [r \in Request |-> IF status[r] = "IN_PROGRESS" THEN "OPEN" ELSE status[r]]
<1> SUFFICES ASSUME TypeOK, [Outcome!Next]_(Outcome!vars) PROVE Verdicts!Next \/ UNCHANGED outcome
  OBVIOUS
<1>1. ASSUME NEW r \in Request, NEW new \in RequestStatus, status' = [status EXCEPT ![r] = new]
      PROVE  outcome' = [outcome EXCEPT ![r] = IF new = "IN_PROGRESS" THEN "OPEN" ELSE new]
  BY <1>1 DEF TypeOK
<1>2. ASSUME NEW r \in Request, NEW verdict \in Verdict, status[r] = "IN_PROGRESS",
             status' = [status EXCEPT ![r] = verdict]
      PROVE  Verdicts!Next
  <2>1. outcome' = [outcome EXCEPT ![r] = verdict] /\ outcome[r] = "OPEN"
    BY <1>1, <1>2 DEF RequestStatus, Verdict
  <2> QED
    BY <2>1 DEF Verdicts!Next, Verdicts!Decide
<1>3. ASSUME NEW r \in Request, Outcome!Submit(r) PROVE Verdicts!Next
  <2>1. outcome' = [outcome EXCEPT ![r] = "OPEN"] /\ outcome[r] = "NONE"
    BY <1>1, <1>3 DEF Outcome!Submit, RequestStatus
  <2> QED
    BY <2>1 DEF Verdicts!Next, Verdicts!Ask
<1>4. ASSUME NEW r \in Request, Outcome!Cancel(r) PROVE Verdicts!Next
  <2>1. outcome' = [outcome EXCEPT ![r] = "CANCELLED"] /\ outcome[r] = "OPEN"
    BY <1>1, <1>4 DEF Outcome!Cancel, RequestStatus
  <2> QED
    BY <2>1 DEF Verdicts!Next, Verdicts!Withdraw
\* A vote that is not the last one leaves the request open.
<1>5. ASSUME NEW r \in Request, NEW u \in User, NEW s \in Step, Outcome!Approve(r, u, s)
      PROVE  Verdicts!Next \/ UNCHANGED outcome
  <2>1. /\ status[r] = "IN_PROGRESS"
        /\ status' = [status EXCEPT ![r] = "APPROVED"] \/ status' = [status EXCEPT ![r] = status[r]]
    BY <1>5 DEF Outcome!Approve, Outcome!Vote
  <2>2. "APPROVED" \in Verdict
    BY DEF Verdict
  <2>3. CASE status' = [status EXCEPT ![r] = status[r]]
    BY <2>3 DEF TypeOK
  <2> QED
    BY <1>2, <2>1, <2>2, <2>3
<1>6. ASSUME NEW r \in Request, NEW u \in User, NEW s \in Step, Outcome!Refuse(r, u, s)
      PROVE  Verdicts!Next
  <2>1. PICK verdict \in {"REJECTED", "RETURNED"} :
            status[r] = "IN_PROGRESS" /\ status' = [status EXCEPT ![r] = verdict]
    BY <1>6 DEF Outcome!Refuse, Outcome!Vote
  <2>2. verdict \in Verdict
    BY DEF Verdict
  <2> QED
    BY <1>2, <2>1, <2>2
<1>7. CASE UNCHANGED Outcome!vars
  BY <1>7 DEF Outcome!vars
<1> QED
  BY <1>3, <1>4, <1>5, <1>6, <1>7 DEF Outcome!Next

\* The engine keeps the promise that quotations, orders and estimates rest on:
\* a request is decided once or withdrawn, and never opened again
\* (approve_request, _terminal_decision, cancel_request).
THEOREM EngineKeepsItsWord == Spec => Verdicts!Spec
<1>1. Init => Verdicts!Init
  BY DEF Init, Verdicts!Init
<1>2. TypeOK /\ RInv /\ [Next]_vars =>
        [Verdicts!Next]_[r \in Request |-> IF status[r] = "IN_PROGRESS" THEN "OPEN" ELSE status[r]]
  BY StepRefines, OutcomeGivesVerdict
<1> QED
  BY <1>1, <1>2, TypeCorrect, RecordedAlways, PTL DEF Spec, Verdicts!Spec

=============================================================================
