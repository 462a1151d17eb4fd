------------------------ MODULE ProjectHandoffProofs ------------------------
(***************************************************************************)
(* Theorems about ProjectHandoff for any engineers, any number of          *)
(* questions and any number of sales order revisions.                      *)
(***************************************************************************)
EXTENDS ProjectHandoff, TLAPS

\* The strengthening: an answer in progress belongs to a question that is
\* still open for everybody else, so it cannot meet an accepted handoff.
AnswersAreOpen == \A q \in Question : answering[q] # "NO" => question[q] = "OPEN"

IInv ==
    /\ TypeOK
    /\ AnswersAreOpen
    /\ AcceptedHasNoOpenQuestion
    /\ OwnersAgree
    /\ AcceptedTogether
    /\ NoSilentBaselineChange

LEMMA InitIInv == Init => IInv
<1> SUFFICES ASSUME Init PROVE IInv
  OBVIOUS
<1>0. 0 \in Revision
  BY MaxRevisionAssumption DEF Revision
<1>1. TypeOK
  BY <1>0 DEF Init, TypeOK, ProjectStatus, HandoffStatus
<1> QED
  BY <1>1 DEF Init, IInv, AnswersAreOpen, AcceptedHasNoOpenQuestion, OwnersAgree,
              AcceptedTogether, NoSilentBaselineChange

-----------------------------------------------------------------------------
(* What the commands leave alone, by the table they write *)

\* Every command writes values of the declared types.
LEMMA NextTypeOK == TypeOK /\ [Next]_vars => TypeOK'
<1> SUFFICES ASSUME TypeOK, [Next]_vars PROVE TypeOK'
  OBVIOUS
<1> USE DEF TypeOK, Employee, ProjectStatus, HandoffStatus
<1>1. CASE RebaseProject
  BY <1>1 DEF RebaseProject
<1>2. ASSUME NEW e \in Employee, PrepareEngineeringHandoff(e) PROVE TypeOK'
  BY <1>2 DEF PrepareEngineeringHandoff
<1>3. CASE SubmitEngineeringHandoff
  BY <1>3 DEF SubmitEngineeringHandoff
<1>4. ASSUME NEW q \in Question,
             BeginAnswer(q) \/ CommitAnswer(q) \/ AbandonAnswer(q)
      PROVE  TypeOK'
  BY <1>4 DEF BeginAnswer, CommitAnswer, AbandonAnswer
<1>5. ASSUME NEW q \in Question, RequestProjectClarification(q) PROVE TypeOK'
  BY <1>5 DEF RequestProjectClarification
<1>6. ASSUME NEW e \in Engineer,
             \/ TakeEngineeringHandoff(e)
             \/ AssignEngineeringHandoff(e)
             \/ ReassignWork(e)
             \/ AcceptEngineeringHandoff(e)
      PROVE  TypeOK'
  BY <1>6 DEF TakeEngineeringHandoff, AssignEngineeringHandoff, ReassignWork,
              AcceptEngineeringHandoff
<1>7. CASE AcknowledgeCommercialChange
  BY <1>7 DEF AcknowledgeCommercialChange
<1>8. CASE HoldProject \/ ResumeProject \/ CancelProject
  BY <1>8 DEF HoldProject, ResumeProject, CancelProject, StatusFromHandoff
<1>9. CASE UNCHANGED vars
  BY <1>9 DEF vars
<1> QED
  BY <1>1, <1>2, <1>3, <1>4, <1>5, <1>6, <1>7, <1>8, <1>9 DEF Next

\* Questions, and the answers in progress, across a step.
LEMMA NextAnswers == TypeOK /\ AnswersAreOpen /\ [Next]_vars => AnswersAreOpen'
<1> SUFFICES ASSUME TypeOK, AnswersAreOpen, [Next]_vars, NEW r \in Question,
                    answering'[r] # "NO"
             PROVE  question'[r] = "OPEN"
  BY DEF AnswersAreOpen
<1>0. answering[r] # "NO" => question[r] = "OPEN"
  BY DEF AnswersAreOpen
<1>1. CASE UNCHANGED <<question, answering>>
  BY <1>0, <1>1
<1>2. ASSUME NEW q \in Question,
             BeginAnswer(q) \/ CommitAnswer(q) \/ AbandonAnswer(q)
      PROVE  question'[r] = "OPEN"
  <2>1. CASE r = q
    BY <1>0, <1>2, <2>1 DEF BeginAnswer, CommitAnswer, AbandonAnswer, TypeOK
  <2>2. CASE r # q
    <3>1. answering'[r] = answering[r] /\ question'[r] = question[r]
      BY <1>2, <2>2 DEF BeginAnswer, CommitAnswer, AbandonAnswer, TypeOK
    <3> QED
      BY <1>0, <3>1
  <2> QED
    BY <2>1, <2>2
<1>3. ASSUME NEW q \in Question, RequestProjectClarification(q)
      PROVE  question'[r] = "OPEN"
  <2>1. answering'[r] = answering[r]
    BY <1>3 DEF RequestProjectClarification
  <2> QED
    BY <1>0, <1>3, <2>1 DEF RequestProjectClarification, TypeOK
<1> QED
  BY <1>1, <1>2, <1>3
     DEF Next, vars, RebaseProject, PrepareEngineeringHandoff, SubmitEngineeringHandoff,
         TakeEngineeringHandoff, AssignEngineeringHandoff, ReassignWork,
         AcceptEngineeringHandoff, AcknowledgeCommercialChange, HoldProject, ResumeProject,
         CancelProject

\* An accepted handoff stays accepted, and no question is opened on it.
LEMMA AcceptedStays ==
    ASSUME TypeOK, AnswersAreOpen, AcceptedHasNoOpenQuestion, [Next]_vars, handoff = "ACCEPTED"
    PROVE  handoff' = "ACCEPTED" /\ question' = question
<1>1. \A q \in Question : question[q] # "OPEN" /\ answering[q] = "NO"
  BY DEF AnswersAreOpen, AcceptedHasNoOpenQuestion
<1>2. ASSUME NEW q \in Question
      PROVE  ~(BeginAnswer(q) \/ CommitAnswer(q) \/ AbandonAnswer(q)
               \/ RequestProjectClarification(q))
  BY <1>1, <1>2 DEF BeginAnswer, CommitAnswer, AbandonAnswer, RequestProjectClarification
<1>3. ~SalesMayEdit
  BY DEF SalesMayEdit
<1>4. ASSUME NEW e \in Engineer
      PROVE  ~TakeEngineeringHandoff(e) /\ ~AcceptEngineeringHandoff(e)
  BY DEF TakeEngineeringHandoff, AcceptEngineeringHandoff
<1> QED
  BY <1>2, <1>3, <1>4
     DEF Next, vars, RebaseProject, PrepareEngineeringHandoff, SubmitEngineeringHandoff,
         AssignEngineeringHandoff, ReassignWork, AcknowledgeCommercialChange, HoldProject,
         ResumeProject, CancelProject

\* A handoff becomes accepted in one way only.
LEMMA OnlyAcceptAccepts ==
    ASSUME TypeOK, [Next]_vars, handoff # "ACCEPTED", handoff' = "ACCEPTED"
    PROVE  \E e \in Engineer : AcceptEngineeringHandoff(e)
<1>1. ASSUME NEW q \in Question
      PROVE  ~(BeginAnswer(q) \/ CommitAnswer(q) \/ AbandonAnswer(q)
               \/ RequestProjectClarification(q))
  BY DEF BeginAnswer, CommitAnswer, AbandonAnswer, RequestProjectClarification
<1> QED
  BY <1>1 DEF Next, vars, RebaseProject, PrepareEngineeringHandoff, SubmitEngineeringHandoff,
      TakeEngineeringHandoff, AssignEngineeringHandoff, ReassignWork,
      AcknowledgeCommercialChange, HoldProject, ResumeProject, CancelProject

\* Both tables name the same engineer after every step.
LEMMA NextOwners == OwnersAgree /\ [Next]_vars => OwnersAgree'
  BY DEF OwnersAgree, Next, vars, RebaseProject, PrepareEngineeringHandoff,
         SubmitEngineeringHandoff, BeginAnswer, CommitAnswer, AbandonAnswer,
         RequestProjectClarification, TakeEngineeringHandoff, AssignEngineeringHandoff,
         ReassignWork, AcceptEngineeringHandoff, AcknowledgeCommercialChange, HoldProject,
         ResumeProject, CancelProject

\* Project and handoff status, and what Engineering knows, once accepted.
LEMMA NextAccepted ==
    ASSUME TypeOK, AnswersAreOpen, AcceptedHasNoOpenQuestion, AcceptedTogether,
           NoSilentBaselineChange, [Next]_vars, handoff = "ACCEPTED"
    PROVE  AcceptedTogether' /\ NoSilentBaselineChange'
<1>1. handoff' = "ACCEPTED"
  BY AcceptedStays
<1>2. ASSUME NEW q \in Question
      PROVE  ~(BeginAnswer(q) \/ CommitAnswer(q) \/ AbandonAnswer(q)
               \/ RequestProjectClarification(q))
  BY DEF AnswersAreOpen, AcceptedHasNoOpenQuestion, BeginAnswer, CommitAnswer, AbandonAnswer,
         RequestProjectClarification
<1>3. AcceptedTogether'
  BY <1>1, <1>2
     DEF AcceptedTogether, Next, vars, RebaseProject, PrepareEngineeringHandoff,
         SubmitEngineeringHandoff, SalesMayEdit, TakeEngineeringHandoff,
         AssignEngineeringHandoff, ReassignWork, AcceptEngineeringHandoff,
         AcknowledgeCommercialChange, HoldProject, ResumeProject, CancelProject,
         StatusFromHandoff
<1>4. NoSilentBaselineChange'
  BY <1>1, <1>2
     DEF NoSilentBaselineChange, Next, vars, RebaseProject, PrepareEngineeringHandoff,
         SubmitEngineeringHandoff, SalesMayEdit, TakeEngineeringHandoff,
         AssignEngineeringHandoff, ReassignWork, AcceptEngineeringHandoff,
         AcknowledgeCommercialChange, HoldProject, ResumeProject, CancelProject
<1> QED
  BY <1>3, <1>4

\* Before acceptance the project is not engineering-accepted either.
LEMMA NextUnaccepted ==
    ASSUME TypeOK, AcceptedTogether, [Next]_vars, handoff # "ACCEPTED", handoff' # "ACCEPTED"
    PROVE  project' # "ENGINEERING_ACCEPTED"
<1>1. project # "ENGINEERING_ACCEPTED"
  BY DEF AcceptedTogether
<1>2. ASSUME NEW e \in Engineer PROVE ~AcceptEngineeringHandoff(e)
  BY DEF AcceptEngineeringHandoff
<1>3. ResumeProject => project' # "ENGINEERING_ACCEPTED"
  BY DEF ResumeProject, StatusFromHandoff, TypeOK, HandoffStatus
<1> QED
  BY <1>1, <1>2, <1>3
     DEF Next, vars, RebaseProject, PrepareEngineeringHandoff, SubmitEngineeringHandoff,
         BeginAnswer, CommitAnswer, AbandonAnswer, RequestProjectClarification,
         TakeEngineeringHandoff, AssignEngineeringHandoff, ReassignWork,
         AcknowledgeCommercialChange, HoldProject, CancelProject

LEMMA NextIInv == IInv /\ [Next]_vars => IInv'
<1> SUFFICES ASSUME IInv, [Next]_vars PROVE IInv'
  OBVIOUS
<1>1. /\ TypeOK /\ AnswersAreOpen /\ AcceptedHasNoOpenQuestion
      /\ OwnersAgree /\ AcceptedTogether /\ NoSilentBaselineChange
  BY DEF IInv
<1>2. TypeOK' /\ AnswersAreOpen' /\ OwnersAgree'
  BY <1>1, NextTypeOK, NextAnswers, NextOwners
<1>3. CASE handoff = "ACCEPTED"
  <2>1. AcceptedHasNoOpenQuestion'
    BY <1>1, <1>3, AcceptedStays DEF AcceptedHasNoOpenQuestion
  <2> QED
    BY <1>1, <1>2, <1>3, <2>1, NextAccepted DEF IInv
<1>4. CASE handoff # "ACCEPTED" /\ handoff' = "ACCEPTED"
  <2>1. PICK e \in Engineer : AcceptEngineeringHandoff(e)
    BY <1>1, <1>4, OnlyAcceptAccepts
  <2>2. AcceptedHasNoOpenQuestion' /\ AcceptedTogether' /\ NoSilentBaselineChange'
    BY <2>1 DEF AcceptEngineeringHandoff, AcceptedHasNoOpenQuestion, AcceptedTogether,
                NoSilentBaselineChange
  <2> QED
    BY <1>2, <2>2 DEF IInv
<1>5. CASE handoff # "ACCEPTED" /\ handoff' # "ACCEPTED"
  <2>1. AcceptedHasNoOpenQuestion' /\ AcceptedTogether' /\ NoSilentBaselineChange'
    BY <1>1, <1>5, NextUnaccepted
       DEF AcceptedHasNoOpenQuestion, AcceptedTogether, NoSilentBaselineChange
  <2> QED
    BY <1>2, <2>1 DEF IInv
<1> QED
  BY <1>3, <1>4, <1>5

LEMMA Inductive == Spec => []IInv
  BY InitIInv, NextIInv, PTL DEF Spec

-----------------------------------------------------------------------------

\* All variables keep their types.
THEOREM TypeCorrect == Spec => []TypeOK
<1>1. IInv => TypeOK
  BY DEF IInv
<1> QED
  BY <1>1, Inductive, PTL

\* Nothing is accepted with a question open.
THEOREM AcceptedIsClarified == Spec => []AcceptedHasNoOpenQuestion
<1>1. IInv => AcceptedHasNoOpenQuestion
  BY DEF IInv
<1> QED
  BY <1>1, Inductive, PTL

\* Project and handoff always name the same engineer.
THEOREM OneOwner == Spec => []OwnersAgree
<1>1. IInv => OwnersAgree
  BY DEF IInv
<1> QED
  BY <1>1, Inductive, PTL

\* Project and handoff are accepted together.
THEOREM AcceptanceShows == Spec => []AcceptedTogether
<1>1. IInv => AcceptedTogether
  BY DEF IInv
<1> QED
  BY <1>1, Inductive, PTL

\* An engineer who accepted knows the baseline or is warned.
THEOREM BaselineChangesAreFlagged == Spec => []NoSilentBaselineChange
<1>1. IInv => NoSilentBaselineChange
  BY DEF IInv
<1> QED
  BY <1>1, Inductive, PTL

\* Acceptance is never taken back.
THEOREM AcceptanceStays == Spec => AcceptanceIsFinal
<1>1. IInv /\ [Next]_vars => [handoff = "ACCEPTED" => handoff' = "ACCEPTED"]_vars
  BY AcceptedStays DEF IInv
<1> QED
  BY <1>1, Inductive, PTL DEF Spec, AcceptanceIsFinal

\* No step of the handoff takes it from the engineer who has it.
THEOREM OwnershipIsKept == Spec => OwnershipMovesOnlyByAssignment
<1>1. ASSUME [Next]_vars, handoff' # handoff, engineer # Nobody
      PROVE  engineer' = engineer
  BY <1>1
     DEF Next, vars, RebaseProject, PrepareEngineeringHandoff, SubmitEngineeringHandoff,
         BeginAnswer, CommitAnswer, AbandonAnswer, RequestProjectClarification,
         TakeEngineeringHandoff, AvailableTo, AssignEngineeringHandoff, ReassignWork,
         AcceptEngineeringHandoff, AcknowledgeCommercialChange, HoldProject, ResumeProject,
         CancelProject
<1>2. [Next]_vars => [handoff' # handoff /\ engineer # Nobody => engineer' = engineer]_vars
  BY <1>1
<1> QED
  BY <1>2, PTL DEF Spec, OwnershipMovesOnlyByAssignment

=============================================================================
