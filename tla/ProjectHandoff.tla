--------------------------- MODULE ProjectHandoff ---------------------------
(***************************************************************************)
(* One project and its handoff from Sales to Engineering                   *)
(* (backend/apps/projects), with the questions Engineering asks on it.     *)
(*                                                                         *)
(* The commands on the project lock its row and then the handoff row and   *)
(* read both after the locks: they are atomic steps.  The answer to a      *)
(* question is not: it locks the question only, counts the open ones and   *)
(* then writes the handoff, so that it is two steps here.                  *)
(*                                                                         *)
(* Texts and record_version are left out: what they guard is a refusal.    *)
(***************************************************************************)
EXTENDS Naturals

CONSTANTS
    Engineer,     \* active employees who may own the handoff
    Nobody,       \* the null owner
    Question,     \* clarifications that may be asked
    MaxRevision   \* bound: the highest sales order revision

ASSUME NobodyAssumption == Nobody \notin Engineer
ASSUME MaxRevisionAssumption == MaxRevision \in Nat

VARIABLES
    project,    \* Project.status
    owner,      \* Project.engineering_owner
    baseline,   \* Project.current_sales_order_revision
    changed,    \* Project.commercial_change_pending
    handoff,    \* ProjectEngineeringHandoff.status
    engineer,   \* ProjectEngineeringHandoff.assigned_engineer
    question,   \* ProjectHandoffClarification.status
    answering,  \* an answer in progress: whether it found other open questions
    known       \* history: baseline Engineering last accepted or acknowledged

vars == <<project, owner, baseline, changed, handoff, engineer, question, answering, known>>

Employee == Engineer \cup {Nobody}
Revision == 0..MaxRevision
ProjectStatus ==
    {"NEW", "HANDOFF_PENDING", "ENGINEERING_REVIEW", "ENGINEERING_ACCEPTED", "ON_HOLD", "CANCELLED"}
HandoffStatus ==
    {"DRAFT", "READY_FOR_ENGINEERING", "ENGINEERING_REVIEWING", "CLARIFICATION_REQUIRED", "ACCEPTED"}

TypeOK ==
    /\ project \in ProjectStatus
    /\ owner \in Employee
    /\ baseline \in Revision
    /\ changed \in BOOLEAN
    /\ handoff \in HandoffStatus
    /\ engineer \in Employee
    /\ question \in [Question -> {"NONE", "OPEN", "ANSWERED"}]
    /\ answering \in [Question -> {"NO", "LAST", "MORE"}]
    /\ known \in Revision

\* create_project_from_sales_order, the first time.
Init ==
    /\ project = "HANDOFF_PENDING"
    /\ owner \in Employee
    /\ baseline = 0
    /\ changed = FALSE
    /\ handoff = "DRAFT"
    /\ engineer = owner
    /\ question = [q \in Question |-> "NONE"]
    /\ answering = [q \in Question |-> "NO"]
    /\ known = 0

-----------------------------------------------------------------------------
(* Sales *)

\* Mutant: the project keeps the flag that is set only on creation.
RebaseSilently ==
    /\ \E n \in Revision : n > baseline /\ baseline' = n
    /\ UNCHANGED <<changed, project, owner, handoff, engineer, question, answering, known>>

\* create_project_from_sales_order for an amendment that is released.
RebaseProject ==
    /\ \E n \in Revision : n > baseline /\ baseline' = n
    /\ changed' = TRUE
    /\ UNCHANGED <<project, owner, handoff, engineer, question, answering, known>>

SalesMayEdit == handoff \in {"DRAFT", "CLARIFICATION_REQUIRED"}

\* Mutant: the owner on the project is not updated.
PrepareHandoffOnly(e) ==
    /\ SalesMayEdit
    /\ engineer' = e
    /\ UNCHANGED <<project, owner, baseline, changed, handoff, question, answering, known>>

\* prepare_engineering_handoff, with the engineer it was given or kept.
PrepareEngineeringHandoff(e) ==
    /\ SalesMayEdit
    /\ engineer' = e
    /\ owner' = e
    /\ UNCHANGED <<project, baseline, changed, handoff, question, answering, known>>

\* submit_engineering_handoff: open questions do not stop it, nor does a
\* project on hold or cancelled.
SubmitEngineeringHandoff ==
    /\ SalesMayEdit
    /\ handoff' = "READY_FOR_ENGINEERING"
    /\ project' = "HANDOFF_PENDING"
    /\ UNCHANGED <<owner, baseline, changed, engineer, question, answering, known>>

\* Open questions but q, as committed: other answers in progress do not show.
OthersOpen(q) == \E r \in Question : r # q /\ question[r] = "OPEN"

\* respond_project_clarification up to the count of the open questions.
BeginAnswer(q) ==
    /\ question[q] = "OPEN"
    /\ answering[q] = "NO"
    /\ answering' = [answering EXCEPT ![q] = IF OthersOpen(q) THEN "MORE" ELSE "LAST"]
    /\ UNCHANGED <<project, owner, baseline, changed, handoff, engineer, question, known>>

\* Its commit: the handoff is written as it stands by then.
CommitAnswer(q) ==
    /\ answering[q] # "NO"
    /\ question' = [question EXCEPT ![q] = "ANSWERED"]
    /\ handoff' = IF answering[q] = "LAST" THEN "ENGINEERING_REVIEWING" ELSE handoff
    /\ answering' = [answering EXCEPT ![q] = "NO"]
    /\ UNCHANGED <<project, owner, baseline, changed, engineer, known>>

\* Its rollback.
AbandonAnswer(q) ==
    /\ answering[q] # "NO"
    /\ answering' = [answering EXCEPT ![q] = "NO"]
    /\ UNCHANGED <<project, owner, baseline, changed, handoff, engineer, question, known>>

-----------------------------------------------------------------------------
(* Engineering *)

AvailableTo(e) == engineer \in {Nobody, e}

\* take_engineering_handoff
TakeEngineeringHandoff(e) ==
    /\ handoff \in {"READY_FOR_ENGINEERING", "ENGINEERING_REVIEWING"}
    /\ AvailableTo(e)
    /\ engineer' = e
    /\ owner' = e
    /\ handoff' = "ENGINEERING_REVIEWING"
    /\ project' = "ENGINEERING_REVIEW"
    /\ UNCHANGED <<baseline, changed, question, answering, known>>

\* assign_engineering_handoff by a manager, in any state.
AssignEngineeringHandoff(e) ==
    /\ engineer' = e
    /\ owner' = e
    /\ UNCHANGED <<project, baseline, changed, handoff, question, answering, known>>

\* reassign_work of the owner administration: only open work of somebody else.
ReassignWork(e) ==
    /\ project \notin {"ENGINEERING_ACCEPTED", "CANCELLED"}
    /\ owner # e
    /\ owner' = e
    /\ engineer' = e
    /\ UNCHANGED <<project, baseline, changed, handoff, question, answering, known>>

\* request_project_clarification
RequestProjectClarification(q) ==
    /\ handoff \in {"READY_FOR_ENGINEERING", "ENGINEERING_REVIEWING", "CLARIFICATION_REQUIRED"}
    /\ question[q] = "NONE"
    /\ question' = [question EXCEPT ![q] = "OPEN"]
    /\ handoff' = "CLARIFICATION_REQUIRED"
    /\ UNCHANGED <<project, owner, baseline, changed, engineer, answering, known>>

\* Mutant: the status is taken to say that no question is open.
AcceptByStatus(e) ==
    /\ handoff \in {"READY_FOR_ENGINEERING", "ENGINEERING_REVIEWING"}
    /\ AvailableTo(e)
    /\ engineer' = e
    /\ owner' = e
    /\ handoff' = "ACCEPTED"
    /\ project' = "ENGINEERING_ACCEPTED"
    /\ changed' = FALSE
    /\ known' = baseline
    /\ UNCHANGED <<baseline, question, answering>>

\* accept_engineering_handoff
AcceptEngineeringHandoff(e) ==
    /\ handoff \in {"READY_FOR_ENGINEERING", "ENGINEERING_REVIEWING"}
    /\ AvailableTo(e)
    /\ \A q \in Question : question[q] # "OPEN"
    /\ engineer' = e
    /\ owner' = e
    /\ handoff' = "ACCEPTED"
    /\ project' = "ENGINEERING_ACCEPTED"
    /\ changed' = FALSE
    /\ known' = baseline
    /\ UNCHANGED <<baseline, question, answering>>

\* acknowledge_commercial_change
AcknowledgeCommercialChange ==
    /\ changed
    /\ changed' = FALSE
    /\ known' = baseline
    /\ UNCHANGED <<project, owner, baseline, handoff, engineer, question, answering>>

-----------------------------------------------------------------------------
(* Project status commands *)

HoldProject ==
    /\ project \notin {"ON_HOLD", "CANCELLED"}
    /\ project' = "ON_HOLD"
    /\ UNCHANGED <<owner, baseline, changed, handoff, engineer, question, answering, known>>

\* What resume_project makes of the handoff's status.
StatusFromHandoff ==
    CASE handoff = "ACCEPTED" -> "ENGINEERING_ACCEPTED"
      [] handoff \in {"ENGINEERING_REVIEWING", "CLARIFICATION_REQUIRED"} -> "ENGINEERING_REVIEW"
      [] handoff = "READY_FOR_ENGINEERING" -> "HANDOFF_PENDING"
      [] handoff = "DRAFT" -> "NEW"

\* Mutant: the status on the left of the assignment is a handoff status.
ResumeToHandoffStatus ==
    /\ project = "ON_HOLD"
    /\ project' = handoff
    /\ UNCHANGED <<owner, baseline, changed, handoff, engineer, question, answering, known>>

ResumeProject ==
    /\ project = "ON_HOLD"
    /\ project' = StatusFromHandoff
    /\ UNCHANGED <<owner, baseline, changed, handoff, engineer, question, answering, known>>

CancelProject ==
    /\ project # "CANCELLED"
    /\ project' = "CANCELLED"
    /\ UNCHANGED <<owner, baseline, changed, handoff, engineer, question, answering, known>>

-----------------------------------------------------------------------------

Next ==
    \/ RebaseProject
    \/ \E e \in Employee : PrepareEngineeringHandoff(e)
    \/ SubmitEngineeringHandoff
    \/ \E q \in Question :
         \/ BeginAnswer(q)
         \/ CommitAnswer(q)
         \/ AbandonAnswer(q)
         \/ RequestProjectClarification(q)
    \/ \E e \in Engineer :
         \/ TakeEngineeringHandoff(e)
         \/ AssignEngineeringHandoff(e)
         \/ ReassignWork(e)
         \/ AcceptEngineeringHandoff(e)
    \/ AcknowledgeCommercialChange
    \/ HoldProject
    \/ ResumeProject
    \/ CancelProject

Spec == Init /\ [][Next]_vars

-----------------------------------------------------------------------------
(* Properties *)

\* Engineering has accepted nothing that it still waits for Sales to explain
\* (accept_engineering_handoff checks; submit_engineering_handoff and late
\* answers move the status past open questions).
AcceptedHasNoOpenQuestion ==
    handoff = "ACCEPTED" => \A q \in Question : question[q] # "OPEN"

\* Acceptance is never taken back, not even by an answer that decided to write
\* the handoff before it (respond_project_clarification holds no lock on it).
AcceptanceIsFinal ==
    [][handoff = "ACCEPTED" => handoff' = "ACCEPTED"]_vars

\* Project and handoff name the same engineer: every command that moves the
\* one moves the other in the same transaction.
OwnersAgree == owner = engineer

\* Whoever works on the handoff keeps it until a manager or Sales assigns it to
\* someone else: no step of the handoff itself changes hands
\* (HANDOFF_ALREADY_ASSIGNED in take_engineering_handoff).
OwnershipMovesOnlyByAssignment ==
    [][handoff' # handoff /\ engineer # Nobody => engineer' = engineer]_vars

\* The project is engineering-accepted only with its handoff, and an accepted
\* handoff is forgotten neither by hold and resume nor by late commands.
AcceptedTogether ==
    /\ project = "ENGINEERING_ACCEPTED" => handoff = "ACCEPTED"
    /\ handoff = "ACCEPTED" => project \in {"ENGINEERING_ACCEPTED", "ON_HOLD", "CANCELLED"}

\* Engineering that accepted the handoff works from a baseline it knows, or is
\* warned that it changed (commercial_change_pending).
NoSilentBaselineChange ==
    handoff = "ACCEPTED" /\ ~changed => known = baseline

\* A handoff that waits for clarification waits for an answer somebody still
\* owes (respond_project_clarification).
ClarificationIsOwed ==
    handoff = "CLARIFICATION_REQUIRED" => \E q \in Question : question[q] = "OPEN"

=============================================================================
