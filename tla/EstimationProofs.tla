-------------------------- MODULE EstimationProofs --------------------------
(***************************************************************************)
(* Theorems about Estimation for any number of clarifications, requests,   *)
(* clerks and revisions.                                                   *)
(***************************************************************************)
EXTENDS Estimation, TLAPS

\* A result is only found by completing a review, and beyond the current
\* revision nothing exists and nothing was asked.
ReviewsInOrder ==
    /\ \A n \in Review :
         /\ review[n].result # "NONE" => review[n].status \in Completed
         /\ n > currentReview => review[n] = NoReview
    /\ \A q \in Clarification :
         clarification[q].status # "NONE" => clarification[q].about <= currentReview

\* Of the estimates at most the current one is neither missing nor superseded.
OnlyCurrentIsLive ==
    \A n \in Estimate :
        /\ estimate[n].status \notin {"NONE", "SUPERSEDED"} => n = currentEstimate
        /\ n > currentEstimate => estimate[n].status = "NONE"

\* A request that is undecided, or whose verdict is on its way, is the one its
\* estimate waits for, and the estimate is as it was submitted.
Awaited(a) ==
    LET row == estimate[request[a].about] IN
    row.status = "PENDING_APPROVAL" /\ row.request = a /\ row.price = request[a].price

RequestsAreAwaited ==
    \A a \in Request :
        /\ request[a].outcome = "OPEN" \/ request[a].sync = "DUE" => Awaited(a)
        /\ request[a].sync = "DUE" => request[a].outcome \in Verdict

ReviewInv == CompletedHasNoOpenQuestion /\ ReviewsInOrder

EstimateInv ==
    /\ OnlyCurrentIsLive
    /\ RequestsAreAwaited
    /\ ApprovedAsSubmitted

IInv ==
    /\ TypeOK
    /\ ReviewInv
    /\ EstimateRestsOnFeasibleReview
    /\ EstimateInv
    /\ CompleteMeansApproved
    /\ QuotedWasApproved


LEMMA OneExists == 1 \in Review /\ 1 \in Estimate
BY BoundsAssumption DEF Review, Estimate

LEMMA InitIInv == Init => IInv
<1> SUFFICES ASSUME Init PROVE IInv
  OBVIOUS
<1>1. NoReview \in ReviewRow
  BY DEF NoReview, ReviewRow
<1>2. NoEstimate \in EstimateRow
  <2>1. NoLines \in Price
    BY BoundsAssumption DEF NoLines, Price
  <2> QED
    BY <2>1, OneExists DEF NoEstimate, NewEstimate, EstimateRow
<1>3. Idle \in ClerkRow
  BY BoundsAssumption, OneExists DEF Idle, ClerkRow, NoLines, Price
<1>4. [outcome |-> "NONE", about |-> 1, price |-> NoLines, sync |-> "NONE"] \in RequestRow
  BY BoundsAssumption, OneExists DEF RequestRow, Outcome, NoLines, Price
<1>5. TypeOK
  BY <1>1, <1>2, <1>3, <1>4, OneExists
     DEF Init, TypeOK, EnquiryStatus, ClarificationRow
<1>6. ReviewInv
  BY DEF Init, ReviewInv, CompletedHasNoOpenQuestion, ReviewsInOrder, NoReview, Completed
<1>7. \A n \in Estimate : estimate[n].status = "NONE"
  BY DEF Init, NoEstimate, NewEstimate
<1>8. \A a \in Request : request[a].outcome = "NONE" /\ request[a].sync = "NONE"
  BY DEF Init
<1>9. EstimateRestsOnFeasibleReview /\ EstimateInv
  BY <1>7, <1>8 DEF EstimateInv, EstimateRestsOnFeasibleReview, OnlyCurrentIsLive,
     RequestsAreAwaited, ApprovedAsSubmitted
<1>10. CompleteMeansApproved /\ QuotedWasApproved
  BY DEF Init, CompleteMeansApproved, QuotedWasApproved, Idle
<1> QED
  BY <1>5, <1>6, <1>9, <1>10 DEF IInv

-----------------------------------------------------------------------------
(* Types *)

\* A step that replaces one row of the reviews keeps the types.
LEMMA ChangeReviewType ==
    ASSUME TypeOK, NEW n \in Review, NEW row \in ReviewRow, ChangeReview(n, row),
           clarification' \in [Clarification -> ClarificationRow]
    PROVE  TypeOK'
BY DEF TypeOK, ChangeReview, estimating, quoting

LEMMA ReviewStepType == TypeOK /\ ReviewStep => TypeOK'
<1> SUFFICES ASSUME TypeOK, ReviewStep PROVE TypeOK'
  OBVIOUS
<1>1. ASSUME NEW n \in Review,
             AssignReview(n) \/ StartReview(n) \/ CompleteReview(n) \/ MarkNotFeasible(n)
      PROVE  TypeOK'
  <2>1. review[n] \in ReviewRow
    BY DEF TypeOK
  <2>2. PICK row \in ReviewRow : ChangeReview(n, row)
    <3>1. CASE AssignReview(n)
      <4>1. [review[n] EXCEPT !.assigned = TRUE] \in ReviewRow
        BY <2>1 DEF ReviewRow
      <4> QED
        BY <3>1, <4>1 DEF AssignReview
    <3>2. CASE StartReview(n)
      <4>1. [review[n] EXCEPT !.status = "IN_REVIEW"] \in ReviewRow
        BY <2>1 DEF ReviewRow
      <4> QED
        BY <3>2, <4>1 DEF StartReview
    <3>3. CASE CompleteReview(n)
      <4>1. [review[n] EXCEPT !.status = "FEASIBLE", !.result = "FEASIBLE",
                 !.approval = IF gated THEN "OPEN" ELSE "NONE"] \in ReviewRow
        BY <2>1 DEF ReviewRow
      <4> QED
        BY <3>3, <4>1 DEF CompleteReview
    <3>4. CASE MarkNotFeasible(n)
      <4>1. [review[n] EXCEPT !.status = "NOT_FEASIBLE", !.result = "NOT_FEASIBLE"]
              \in ReviewRow
        BY <2>1 DEF ReviewRow
      <4> QED
        BY <3>4, <4>1 DEF MarkNotFeasible
    <3> QED
      BY <1>1, <3>1, <3>2, <3>3, <3>4
  <2>3. UNCHANGED clarification
    BY <1>1 DEF AssignReview, StartReview, CompleteReview, MarkNotFeasible
  <2> QED
    BY <2>2, <2>3, ChangeReviewType DEF TypeOK
<1>2. ASSUME NEW n \in Review, NEW q \in Clarification, RequestClarification(n, q)
      PROVE  TypeOK'
  <2>1. [review[n] EXCEPT !.status = "CLARIFICATION_REQUIRED"] \in ReviewRow
    BY DEF TypeOK, ReviewRow
  <2>2. clarification' \in [Clarification -> ClarificationRow]
    BY <1>2 DEF TypeOK, RequestClarification, ClarificationRow
  <2>3. ChangeReview(n, [review[n] EXCEPT !.status = "CLARIFICATION_REQUIRED"])
    BY <1>2 DEF RequestClarification
  <2> QED
    BY <2>1, <2>2, <2>3, ChangeReviewType
<1>3. ASSUME NEW n \in Review, ReassessReview(n) PROVE TypeOK'
  <2>1. n + 1 \in Review
    BY <1>3, BoundsAssumption DEF ReassessReview, Review
  <2>2. review[n] \in ReviewRow
    BY DEF TypeOK
  <2>3. [review[n] EXCEPT !.status = "SUPERSEDED"] \in ReviewRow
    BY <2>2 DEF ReviewRow
  <2>4. NewReview(review[n].assigned) \in ReviewRow
    BY <2>2 DEF ReviewRow, NewReview
  <2>5. review' = [[review EXCEPT ![n] = [review[n] EXCEPT !.status = "SUPERSEDED"]]
                     EXCEPT ![n + 1] = NewReview(review[n].assigned)]
    BY <1>3, <2>1, <2>2 DEF ReassessReview, TypeOK
  <2>6. review' \in [Review -> ReviewRow]
    BY <2>1, <2>3, <2>4, <2>5 DEF TypeOK
  <2> QED
    BY <1>3, <2>1, <2>6 DEF ReassessReview, TypeOK, estimating, quoting
<1>4. ASSUME NEW n \in Review, NEW outcome \in {"APPROVED", "REFUSED"},
             DecideReview(n, outcome)
      PROVE  TypeOK'
  <2>1. [review[n] EXCEPT !.approval = outcome] \in ReviewRow
    BY DEF TypeOK, ReviewRow
  <2> QED
    BY <1>4, <2>1, ChangeReviewType DEF DecideReview, TypeOK
<1>5. ASSUME NEW q \in Clarification, RespondToClarification(q) PROVE TypeOK'
  <2>1. clarification' \in [Clarification -> ClarificationRow]
    BY <1>5 DEF TypeOK, RespondToClarification, ClarificationRow
  <2> QED
    BY <1>5, <2>1 DEF RespondToClarification, TypeOK, estimating, quoting
<1>6. ASSUME NEW q \in Clarification, CloseClarification(q) PROVE TypeOK'
  <2>1. clarification[q].about \in Review
    BY DEF TypeOK, ClarificationRow
  <2>2. review[clarification[q].about] \in ReviewRow
    BY <2>1 DEF TypeOK
  <2>3. [review[clarification[q].about] EXCEPT !.status = "IN_REVIEW"] \in ReviewRow
    BY <2>2 DEF ReviewRow
  <2>4. PICK row \in ReviewRow : ChangeReview(clarification[q].about, row)
    BY <1>6, <2>2, <2>3 DEF CloseClarification
  <2>5. clarification' \in [Clarification -> ClarificationRow]
    BY <1>6 DEF TypeOK, CloseClarification, ClarificationRow
  <2> QED
    BY <2>1, <2>4, <2>5, ChangeReviewType
<1>7. CASE ConfigureWorkflow
  BY <1>7 DEF ConfigureWorkflow, TypeOK, estimating, quoting
<1> QED
  BY <1>1, <1>2, <1>3, <1>4, <1>5, <1>6, <1>7 DEF ReviewStep

\* A step that replaces one row of the estimates keeps the types.
LEMMA ChangeEstimateType ==
    ASSUME TypeOK, NEW n \in Estimate, NEW row \in EstimateRow, ChangeEstimate(n, row)
    PROVE  TypeOK'
BY DEF TypeOK, ChangeEstimate, reviewing, quoting

LEMMA EstimateStepType == TypeOK /\ EstimateStep => TypeOK'
<1> SUFFICES ASSUME TypeOK, EstimateStep PROVE TypeOK'
  OBVIOUS
<1>0. ASSUME NEW n \in Estimate PROVE estimate[n] \in EstimateRow
  BY DEF TypeOK
<1>1. CASE CreateEstimate
  <2>1. currentReview \in Review
    BY <1>1 DEF CreateEstimate, TypeOK
  <2>2. NewEstimate(NoLines, currentReview) \in EstimateRow
    BY <2>1, BoundsAssumption DEF NewEstimate, EstimateRow, NoLines, Price
  <2>3. estimate' \in [Estimate -> EstimateRow]
    BY <1>1, <2>2 DEF CreateEstimate, TypeOK
  <2> QED
    BY <1>1, <2>1, <2>3, OneExists
       DEF CreateEstimate, TypeOK, EnquiryStatus, reviewing, quoting
<1>2. ASSUME NEW n \in Estimate, NEW price \in Price,
             UpdateEstimate(n, price) \/ CreateCostLine(n, price) \/ ChangeCostLine(n, price)
      PROVE  TypeOK'
  <2>1. /\ [estimate[n] EXCEPT !.status = "IN_PREPARATION", !.price = price] \in EstimateRow
        /\ [estimate[n] EXCEPT !.price = price] \in EstimateRow
    BY <1>0 DEF EstimateRow
  <2>2. PICK row \in EstimateRow : ChangeEstimate(n, row)
    BY <1>2, <2>1 DEF UpdateEstimate, CreateCostLine, ChangeCostLine
  <2> QED
    BY <2>2, ChangeEstimateType
<1>3. ASSUME NEW n \in Estimate, NEW a \in Request, SubmitEstimate(n, a) PROVE TypeOK'
  <2>1. estimate' \in [Estimate -> EstimateRow]
    <3>1. [estimate[n] EXCEPT !.status = "PENDING_APPROVAL", !.request = a] \in EstimateRow
      BY <1>0 DEF EstimateRow
    <3>2. estimate' = [estimate EXCEPT ![n] =
             [estimate[n] EXCEPT !.status = "PENDING_APPROVAL", !.request = a]]
      BY <1>3 DEF SubmitEstimate
    <3> QED
      BY <3>1, <3>2 DEF TypeOK
  <2>2. [outcome |-> "OPEN", about |-> n, price |-> estimate[n].price, sync |-> "NONE"]
          \in RequestRow
    BY <1>0 DEF RequestRow, EstimateRow, Outcome
  <2>3. request' \in [Request -> RequestRow]
    BY <1>3, <2>2 DEF SubmitEstimate, TypeOK
  <2> QED
    BY <1>3, <2>1, <2>3 DEF SubmitEstimate, TypeOK, reviewing, quoting
<1>4. ASSUME NEW n \in Estimate, ReviseEstimate(n) PROVE TypeOK'
  <2>1. n + 1 \in Estimate
    BY <1>4, BoundsAssumption DEF ReviseEstimate, Estimate
  <2>2. [estimate[n] EXCEPT !.status = "SUPERSEDED"] \in EstimateRow
    BY <1>0 DEF EstimateRow
  <2>3. NewEstimate(estimate[n].price, estimate[n].basis) \in EstimateRow
    BY <1>0 DEF EstimateRow, NewEstimate
  <2>4. estimate' = [[estimate EXCEPT ![n] = [estimate[n] EXCEPT !.status = "SUPERSEDED"]]
             EXCEPT ![n + 1] = NewEstimate(estimate[n].price, estimate[n].basis)]
    BY <1>4 DEF ReviseEstimate
  <2>5. estimate' \in [Estimate -> EstimateRow]
    BY <2>1, <2>2, <2>3, <2>4 DEF TypeOK
  <2> QED
    BY <1>4, <2>1, <2>5 DEF ReviseEstimate, TypeOK, EnquiryStatus, reviewing, quoting
<1> QED
  BY <1>1, <1>2, <1>3, <1>4 DEF EstimateStep

LEMMA RequestStepType == TypeOK /\ RequestsAreAwaited /\ RequestStep => TypeOK'
<1> SUFFICES ASSUME TypeOK, RequestsAreAwaited, RequestStep PROVE TypeOK'
  OBVIOUS
<1>0. ASSUME NEW a \in Request PROVE request[a] \in RequestRow
  BY DEF TypeOK
<1>1. ASSUME NEW a \in Request, NEW verdict \in Verdict, Decide(a, verdict) PROVE TypeOK'
  <2>1. [request[a] EXCEPT !.outcome = verdict, !.sync = "DUE"] \in RequestRow
    BY <1>0 DEF RequestRow, Outcome
  <2> QED
    BY <1>1, <2>1 DEF Decide, ChangeRequest, TypeOK, reviewing, quoting
<1>2. ASSUME NEW a \in Request, Withdraw(a) PROVE TypeOK'
  <2>1. [request[a] EXCEPT !.outcome = "CANCELLED"] \in RequestRow
    BY <1>0 DEF RequestRow, Outcome
  <2> QED
    BY <1>2, <2>1 DEF Withdraw, ChangeRequest, TypeOK, reviewing, quoting
<1>3. ASSUME NEW a \in Request, SyncEstimateApproval(a) PROVE TypeOK'
  <2>1. request[a].outcome \in Verdict /\ request[a].about \in Estimate
    BY <1>0, <1>3 DEF SyncEstimateApproval, RequestsAreAwaited, RequestRow
  <2>2. StatusAfter(request[a].outcome) \in {"APPROVED", "REJECTED", "RETURNED_FOR_CHANGES"}
    BY <2>1 DEF StatusAfter, Verdict
  <2>3. [estimate[request[a].about] EXCEPT !.status = StatusAfter(request[a].outcome)]
          \in EstimateRow
    BY <2>1, <2>2 DEF TypeOK, EstimateRow
  <2>4. estimate' \in [Estimate -> EstimateRow]
    BY <1>3, <2>1, <2>3 DEF SyncEstimateApproval, TypeOK
  <2>5. request' \in [Request -> RequestRow]
    BY <1>0, <1>3 DEF SyncEstimateApproval, TypeOK, RequestRow
  <2> QED
    BY <1>3, <2>4, <2>5 DEF SyncEstimateApproval, TypeOK, EnquiryStatus, reviewing, quoting
<1> QED
  BY <1>1, <1>2, <1>3 DEF RequestStep

LEMMA QuotationStepType == TypeOK /\ QuotationStep => TypeOK'
<1> SUFFICES ASSUME TypeOK, QuotationStep PROVE TypeOK'
  OBVIOUS
<1>1. Idle \in ClerkRow
  BY BoundsAssumption, OneExists DEF Idle, ClerkRow, NoLines, Price
<1>2. ASSUME NEW c \in Clerk, NEW row \in ClerkRow, ChangeClerk(c, row) PROVE TypeOK'
  BY <1>2 DEF ChangeClerk, TypeOK, reviewing, estimating
<1>3. ASSUME NEW c \in Clerk, ReadEnquiry(c) PROVE TypeOK'
  <2>1. [Idle EXCEPT !.at = "ENQUIRY", !.complete = (enquiry = "ESTIMATION_COMPLETE")]
          \in ClerkRow
    BY <1>1 DEF ClerkRow
  <2> QED
    BY <1>2, <1>3, <2>1 DEF ReadEnquiry
<1>4. ASSUME NEW c \in Clerk, ReadEstimate(c) PROVE TypeOK'
  <2>1. currentEstimate \in Estimate
    BY <1>4 DEF ReadEstimate, TypeOK
  <2>2. estimate[currentEstimate].price \in Price
    BY <2>1 DEF TypeOK, EstimateRow
  <2>3. [clerk[c] EXCEPT !.at = "ESTIMATE", !.estimate = currentEstimate,
                         !.price = estimate[currentEstimate].price] \in ClerkRow
    BY <2>1, <2>2 DEF TypeOK, ClerkRow
  <2> QED
    BY <1>2, <1>4, <2>3 DEF ReadEstimate
<1>5. ASSUME NEW c \in Clerk, CreateQuotation(c) PROVE TypeOK'
  BY <1>1, <1>5 DEF CreateQuotation, TypeOK, EnquiryStatus, reviewing, estimating
<1>6. ASSUME NEW c \in Clerk, AbandonQuotation(c) PROVE TypeOK'
  BY <1>1, <1>2, <1>6 DEF AbandonQuotation
<1>7. ASSUME NEW status \in {"QUOTATION_SENT", "NEGOTIATION", "WON"}, AdvanceEnquiry(status)
      PROVE  TypeOK'
  BY <1>7 DEF AdvanceEnquiry, TypeOK, EnquiryStatus, Closed, reviewing, estimating
<1> QED
  BY <1>3, <1>4, <1>5, <1>6, <1>7 DEF QuotationStep

LEMMA NextTypeOK == TypeOK /\ RequestsAreAwaited /\ [Next]_vars => TypeOK'
<1> SUFFICES ASSUME TypeOK, RequestsAreAwaited, [Next]_vars PROVE TypeOK'
  OBVIOUS
<1>1. ASSUME NEW target \in {"RECEIVED", "UNDER_REVIEW"} \cup Closed,
             TransitionEnquiry(target)
      PROVE  TypeOK'
  BY <1>1 DEF TransitionEnquiry, TypeOK, EnquiryStatus, Closed, reviewing, estimating, quoting
<1>2. CASE SendToEngineering
  <2>1. NewReview(FALSE) \in ReviewRow
    BY DEF NewReview, ReviewRow
  <2> QED
    BY <1>2, <2>1, OneExists
       DEF SendToEngineering, TypeOK, EnquiryStatus, estimating, quoting
<1>3. CASE UNCHANGED vars
  BY <1>3 DEF vars, TypeOK, reviewing, estimating, quoting
<1> QED
  BY <1>1, <1>2, <1>3, ReviewStepType, EstimateStepType, RequestStepType, QuotationStepType
     DEF Next

-----------------------------------------------------------------------------
(* Reviews *)

\* Who touches a review.
LEMMA ReviewsAreTouchedBy ==
    [Next]_vars =>
      \/ ReviewStep
      \/ SendToEngineering
      \/ UNCHANGED <<review, currentReview, clarification>>
BY DEF Next, vars, reviewing, TransitionEnquiry, EstimateStep, CreateEstimate,
   UpdateEstimate, CreateCostLine, ChangeCostLine, ChangeEstimate, SubmitEstimate,
   ReviseEstimate, RequestStep, Decide, Withdraw, ChangeRequest, SyncEstimateApproval,
   QuotationStep, ReadEnquiry, ReadEstimate, CreateQuotation, AbandonQuotation,
   ChangeClerk, AdvanceEnquiry

\* The question to be closed belongs to a review that is not over.
LEMMA ClosedInTime ==
    ASSUME TypeOK, ReviewInv, NEW q \in Clarification, CloseClarification(q)
    PROVE  /\ clarification[q].about \in Review
           /\ review[clarification[q].about].status \notin Completed
<1>1. clarification[q].about \in Review
  BY DEF TypeOK, ClarificationRow
<1> QED
  BY <1>1 DEF CloseClarification, ReviewInv, CompletedHasNoOpenQuestion

\* A completed review changes its status only to be superseded; its result, and
\* an approval it got, stay.
LEMMA CompletedIsKept ==
    ASSUME TypeOK, ReviewInv, [Next]_vars, NEW n \in Review, review[n].status \in Completed
    PROVE  /\ review'[n].status \in {review[n].status, "SUPERSEDED"}
           /\ review'[n].result = review[n].result
           /\ review[n].approval = "APPROVED" => review'[n].approval = "APPROVED"
<1> DEFINE Kept ==
      /\ review'[n].status \in {review[n].status, "SUPERSEDED"}
      /\ review'[n].result = review[n].result
      /\ review[n].approval = "APPROVED" => review'[n].approval = "APPROVED"
<1> SUFFICES Kept
  OBVIOUS
<1>0. review \in [Review -> ReviewRow]
  BY DEF TypeOK
<1>1. ASSUME NEW m \in Review, NEW row, ChangeReview(m, row), m # n PROVE Kept
  BY <1>0, <1>1 DEF ChangeReview
<1>2. ASSUME NEW m \in Review, AssignReview(m) \/ StartReview(m) PROVE Kept
  <2>1. m # n
    BY <1>2 DEF AssignReview, StartReview, Completed
  <2> QED
    BY <1>1, <1>2, <2>1 DEF AssignReview, StartReview
<1>3. ASSUME NEW m \in Review, CompleteReview(m) \/ MarkNotFeasible(m) PROVE Kept
  <2>1. m # n
    BY <1>3 DEF CompleteReview, MarkNotFeasible, Completable, Completed
  <2> QED
    BY <1>1, <1>3, <2>1 DEF CompleteReview, MarkNotFeasible
<1>4. ASSUME NEW m \in Review, NEW q \in Clarification, RequestClarification(m, q)
      PROVE  Kept
  <2>1. m # n
    BY <1>4 DEF RequestClarification, Completed
  <2> QED
    BY <1>1, <1>4, <2>1 DEF RequestClarification
<1>5. ASSUME NEW m \in Review, ReassessReview(m) PROVE Kept
  <2>1. m + 1 \in Review /\ m = currentReview
    BY <1>5, BoundsAssumption DEF ReassessReview, Review
  <2>2. review[m + 1].status \notin Completed
    BY <2>1 DEF ReviewInv, ReviewsInOrder, NoReview, Completed, Review
  <2>3. n # m + 1
    BY <2>2
  <2>4. review'[n] = IF n = m THEN [review[m] EXCEPT !.status = "SUPERSEDED"] ELSE review[n]
    BY <1>0, <1>5, <2>1, <2>3 DEF ReassessReview
  <2>5. review[m] \in ReviewRow
    BY <1>0
  <2> QED
    BY <2>4, <2>5 DEF ReviewRow
<1>6. ASSUME NEW m \in Review, NEW outcome \in {"APPROVED", "REFUSED"},
             DecideReview(m, outcome)
      PROVE  Kept
  <2>1. CASE m # n
    BY <1>1, <1>6, <2>1 DEF DecideReview
  <2>2. CASE m = n
    <3>1. review'[n] = [review[n] EXCEPT !.approval = outcome]
      BY <1>0, <1>6, <2>2 DEF DecideReview, ChangeReview
    <3>2. review[n] \in ReviewRow
      BY <1>0
    <3> QED
      BY <1>6, <2>2, <3>1, <3>2 DEF ReviewRow, DecideReview
  <2> QED
    BY <2>1, <2>2
<1>7. ASSUME NEW q \in Clarification, CloseClarification(q) PROVE Kept
  <2>1. clarification[q].about \in Review /\ clarification[q].about # n
    BY <1>7, ClosedInTime
  <2>2. PICK row : ChangeReview(clarification[q].about, row)
    BY <1>7 DEF CloseClarification
  <2> QED
    BY <1>1, <2>1, <2>2
<1>8. ASSUME UNCHANGED review PROVE Kept
  BY <1>8
<1>9. CASE ReviewStep
  BY <1>2, <1>3, <1>4, <1>5, <1>6, <1>7, <1>8, <1>9
     DEF ReviewStep, RespondToClarification, ConfigureWorkflow
<1>10. CASE SendToEngineering
  <2>1. review[1].status \notin Completed
    BY <1>10, OneExists
       DEF SendToEngineering, Nothing, ReviewInv, ReviewsInOrder, NoReview, Completed
  <2>2. n # 1
    BY <2>1
  <2>3. review'[n] = review[n]
    BY <1>0, <1>10, <2>2 DEF SendToEngineering
  <2> QED
    BY <2>3
<1> QED
  BY <1>8, <1>9, <1>10, ReviewsAreTouchedBy

\* One row replaced by another that may follow it, and no new question about a
\* completed review: enough to keep the reviews in order.
LEMMA OneReviewChanges ==
    ASSUME TypeOK, ReviewInv,
           NEW n \in Review, NEW row \in ReviewRow, ChangeReview(n, row),
           n <= currentReview,
           row.result # "NONE" => row.status \in Completed,
           row.status \in Completed => Unresolved(n)' = {},
           \A q \in Clarification :
               \/ clarification'[q].about = n
               \/ clarification'[q] = clarification[q],
           clarification' \in [Clarification -> ClarificationRow]
    PROVE  ReviewInv'
<1>1. \A m \in Review : review'[m] = IF m = n THEN row ELSE review[m]
  BY DEF ChangeReview, TypeOK
<1>2. CompletedHasNoOpenQuestion'
  <2> SUFFICES ASSUME NEW m \in Review, review'[m].status \in Completed,
                      NEW q \in Clarification, clarification'[q].about = m
               PROVE  clarification'[q].status \in {"NONE", "CLOSED"}
    BY DEF CompletedHasNoOpenQuestion
  <2>1. CASE m = n
    <3>1. clarification'[q].status \notin {"OPEN", "RESPONDED"}
      BY <1>1, <2>1 DEF Unresolved
    <3>2. clarification'[q].status \in {"NONE", "OPEN", "RESPONDED", "CLOSED"}
      BY DEF ClarificationRow
    <3> QED
      BY <3>1, <3>2
  <2>2. CASE m # n
    <3>1. clarification'[q] = clarification[q]
      BY <2>2
    <3> QED
      BY <1>1, <2>2, <3>1 DEF ReviewInv, CompletedHasNoOpenQuestion
  <2> QED
    BY <2>1, <2>2
<1>3. ReviewsInOrder'
  <2>1. ~(n > currentReview)
    BY DEF Review, TypeOK, Nothing
  <2>2. currentReview' = currentReview
    BY DEF ChangeReview
  <2>3. ASSUME NEW m \in Review
        PROVE  /\ review'[m].result # "NONE" => review'[m].status \in Completed
               /\ m > currentReview => review'[m] = NoReview
    BY <1>1, <2>1 DEF ReviewInv, ReviewsInOrder
  <2>4. ASSUME NEW q \in Clarification, clarification'[q].status # "NONE"
        PROVE  clarification'[q].about <= currentReview
    BY <2>4 DEF ReviewInv, ReviewsInOrder
  <2> QED
    BY <2>2, <2>3, <2>4 DEF ReviewsInOrder
<1> QED
  BY <1>2, <1>3 DEF ReviewInv

LEMMA NextReviewInv == TypeOK /\ ReviewInv /\ [Next]_vars => ReviewInv'
<1> SUFFICES ASSUME TypeOK, ReviewInv, [Next]_vars PROVE ReviewInv'
  OBVIOUS
<1>0. ASSUME NEW n \in Review PROVE review[n] \in ReviewRow
  BY DEF TypeOK
<1>0a. ASSUME NEW n \in Review, review[n] # NoReview PROVE n <= currentReview
  BY <1>0a DEF ReviewInv, ReviewsInOrder, TypeOK, Review, Nothing
<1>1. ASSUME NEW n \in Review, AssignReview(n) \/ StartReview(n) PROVE ReviewInv'
  <2>1. PICK row \in ReviewRow :
          /\ ChangeReview(n, row)
          /\ row.status \notin Completed /\ row.result = review[n].result
    <3>1. [review[n] EXCEPT !.assigned = TRUE] \in ReviewRow
      BY <1>0 DEF ReviewRow
    <3>2. [review[n] EXCEPT !.status = "IN_REVIEW"] \in ReviewRow
      BY <1>0 DEF ReviewRow
    <3>3. review[n] \in ReviewRow
      BY <1>0
    <3> QED
      BY <1>1, <3>1, <3>2, <3>3 DEF AssignReview, StartReview, ReviewRow, Completed
  <2>2. /\ review[n].status \notin Completed /\ review[n] # NoReview
        /\ UNCHANGED clarification
    BY <1>1 DEF AssignReview, StartReview, Completed, NoReview
  <2>3. row.result = "NONE"
    BY <2>1, <2>2 DEF ReviewInv, ReviewsInOrder
  <2> QED
    BY <1>0a, <2>1, <2>2, <2>3, OneReviewChanges DEF TypeOK
<1>2. ASSUME NEW n \in Review, NEW q \in Clarification, RequestClarification(n, q)
      PROVE  ReviewInv'
  <2>1. [review[n] EXCEPT !.status = "CLARIFICATION_REQUIRED"] \in ReviewRow
    BY <1>0 DEF ReviewRow
  <2>2. clarification' \in [Clarification -> ClarificationRow]
    BY <1>2 DEF TypeOK, RequestClarification, ClarificationRow
  <2>3. \A p \in Clarification :
          clarification'[p].about = n \/ clarification'[p] = clarification[p]
    BY <1>2 DEF TypeOK, RequestClarification
  <2>4. review[n].result = "NONE" /\ review[n] # NoReview
    BY <1>2 DEF RequestClarification, Completed, NoReview, ReviewInv, ReviewsInOrder
  <2>5. PICK row \in ReviewRow :
          /\ ChangeReview(n, row)
          /\ row.status = "CLARIFICATION_REQUIRED" /\ row.result = "NONE"
    BY <1>0, <1>2, <2>1, <2>4 DEF RequestClarification, ReviewRow
  <2>6. row.status \notin Completed
    BY <2>5 DEF Completed
  <2> QED
    BY <1>0a, <2>2, <2>3, <2>4, <2>5, <2>6, OneReviewChanges
<1>3. ASSUME NEW n \in Review, CompleteReview(n) \/ MarkNotFeasible(n) PROVE ReviewInv'
  <2>1. PICK row \in ReviewRow : ChangeReview(n, row) /\ row.status \in Completed
    <3>1. CASE CompleteReview(n)
      <4>1. [review[n] EXCEPT !.status = "FEASIBLE", !.result = "FEASIBLE",
                 !.approval = IF gated THEN "OPEN" ELSE "NONE"] \in ReviewRow
        BY <1>0 DEF ReviewRow
      <4>2. [review[n] EXCEPT !.status = "FEASIBLE", !.result = "FEASIBLE",
                 !.approval = IF gated THEN "OPEN" ELSE "NONE"].status \in Completed
        BY <1>0 DEF ReviewRow, Completed
      <4> QED
        BY <3>1, <4>1, <4>2 DEF CompleteReview
    <3>2. CASE MarkNotFeasible(n)
      <4>1. [review[n] EXCEPT !.status = "NOT_FEASIBLE", !.result = "NOT_FEASIBLE"]
              \in ReviewRow
        BY <1>0 DEF ReviewRow
      <4>2. [review[n] EXCEPT !.status = "NOT_FEASIBLE",
                              !.result = "NOT_FEASIBLE"].status \in Completed
        BY <1>0 DEF ReviewRow, Completed
      <4> QED
        BY <3>2, <4>1, <4>2 DEF MarkNotFeasible
    <3> QED
      BY <1>3, <3>1, <3>2
  <2>2. review[n] # NoReview /\ Unresolved(n) = {} /\ UNCHANGED clarification
    BY <1>3 DEF CompleteReview, MarkNotFeasible, Completable, NoReview
  <2>3. Unresolved(n)' = {}
    BY <2>2 DEF Unresolved
  <2> QED
    BY <1>0a, <2>1, <2>2, <2>3, OneReviewChanges DEF TypeOK
<1>4. ASSUME NEW n \in Review, ReassessReview(n) PROVE ReviewInv'
  <2>1. n + 1 \in Review /\ n = currentReview /\ currentReview' = n + 1 /\ n \in Nat
    BY <1>4, BoundsAssumption DEF ReassessReview, Review
  <2>2. \A m \in Review :
          review'[m] = IF m = n + 1 THEN NewReview(review[n].assigned)
                       ELSE IF m = n THEN [review[n] EXCEPT !.status = "SUPERSEDED"]
                       ELSE review[m]
    BY <1>4, <2>1 DEF ReassessReview, TypeOK
  <2>3. /\ NewReview(review[n].assigned).status = "PENDING"
        /\ NewReview(review[n].assigned).result = "NONE"
    BY DEF NewReview
  <2>4. [review[n] EXCEPT !.status = "SUPERSEDED"].status = "SUPERSEDED"
    BY <1>0 DEF ReviewRow
  <2>5. review[n].status \in Completed /\ UNCHANGED clarification
    BY <1>4 DEF ReassessReview, Completed
  <2>6. CompletedHasNoOpenQuestion'
    <3> SUFFICES ASSUME NEW m \in Review, review'[m].status \in Completed,
                        NEW q \in Clarification, clarification'[q].about = m
                 PROVE  clarification'[q].status \in {"NONE", "CLOSED"}
      BY DEF CompletedHasNoOpenQuestion
    <3>1. review[m].status \in Completed
      BY <2>2, <2>3, <2>5 DEF Completed
    <3> QED
      BY <2>5, <3>1 DEF ReviewInv, CompletedHasNoOpenQuestion
  <2>7. ReviewsInOrder'
    <3>0. ASSUME NEW q \in Clarification, clarification'[q].status # "NONE"
          PROVE  clarification'[q].about <= n + 1
      <4>1. clarification[q].about <= n /\ clarification[q].about \in Nat
        BY <2>1, <2>5, <3>0 DEF ReviewInv, ReviewsInOrder, TypeOK, ClarificationRow, Review
      <4> QED
        BY <2>1, <2>5, <4>1
    <3> SUFFICES ASSUME NEW m \in Review
                 PROVE  /\ review'[m].result # "NONE" => review'[m].status \in Completed
                        /\ m > n + 1 => review'[m] = NoReview
      BY <2>1, <3>0 DEF ReviewsInOrder
    <3>1. m \in Nat
      BY DEF Review
    <3>2. review'[m].result # "NONE" => review'[m].status \in Completed
      BY <2>2, <2>3, <2>4 DEF Completed, ReviewInv, ReviewsInOrder
    <3>3. ASSUME m > n + 1 PROVE review'[m] = NoReview
      <4>1. m > n /\ m # n + 1 /\ m # n
        BY <2>1, <3>1, <3>3
      <4> QED
        BY <2>1, <2>2, <4>1 DEF ReviewInv, ReviewsInOrder
    <3> QED
      BY <3>2, <3>3
  <2> QED
    BY <2>6, <2>7 DEF ReviewInv
<1>5. ASSUME NEW n \in Review, NEW outcome \in {"APPROVED", "REFUSED"},
             DecideReview(n, outcome)
      PROVE  ReviewInv'
  <2>1. review[n] # NoReview /\ UNCHANGED clarification
    BY <1>5 DEF DecideReview, NoReview
  <2>2. [review[n] EXCEPT !.approval = outcome] \in ReviewRow
    BY <1>0 DEF ReviewRow
  <2>3. PICK row \in ReviewRow :
          /\ ChangeReview(n, row)
          /\ row.status = review[n].status /\ row.result = review[n].result
    BY <1>0, <1>5, <2>2 DEF DecideReview, ReviewRow
  <2>4. row.status \in Completed => Unresolved(n)' = {}
    BY <2>1, <2>3 DEF Unresolved, ReviewInv, CompletedHasNoOpenQuestion
  <2>5. row.result # "NONE" => row.status \in Completed
    BY <2>3 DEF ReviewInv, ReviewsInOrder
  <2> QED
    BY <1>0a, <2>1, <2>3, <2>4, <2>5, OneReviewChanges DEF TypeOK
<1>6. ASSUME NEW q \in Clarification, RespondToClarification(q) PROVE ReviewInv'
  <2>1. \A p \in Clarification :
          /\ clarification'[p].about = clarification[p].about
          /\ p # q => clarification'[p] = clarification[p]
    BY <1>6 DEF RespondToClarification, TypeOK, ClarificationRow
  <2>2. CompletedHasNoOpenQuestion'
    BY <1>6, <2>1 DEF RespondToClarification, ReviewInv, CompletedHasNoOpenQuestion
  <2> QED
    BY <1>6, <2>2 DEF RespondToClarification, ReviewInv, ReviewsInOrder
<1>7. ASSUME NEW q \in Clarification, CloseClarification(q) PROVE ReviewInv'
  <2>1. PICK n \in Review : n = clarification[q].about /\ review[n].status \notin Completed
    BY <1>7, ClosedInTime
  <2>2. [review[n] EXCEPT !.status = "IN_REVIEW"] \in ReviewRow
    BY <1>0 DEF ReviewRow
  <2>3. [review[n] EXCEPT !.status = "IN_REVIEW"].status \notin Completed
    BY <1>0 DEF ReviewRow, Completed
  <2>4. [review[n] EXCEPT !.status = "IN_REVIEW"].result = review[n].result
    BY <1>0 DEF ReviewRow
  <2>5. PICK row \in ReviewRow :
          /\ ChangeReview(n, row)
          /\ row.status \notin Completed /\ row.result = review[n].result
    BY <1>0, <1>7, <2>1, <2>2, <2>3, <2>4 DEF CloseClarification
  <2>6. clarification' \in [Clarification -> ClarificationRow]
    BY <1>7 DEF TypeOK, CloseClarification, ClarificationRow
  <2>7. \A p \in Clarification :
          clarification'[p].about = n \/ clarification'[p] = clarification[p]
    BY <1>7, <2>1 DEF TypeOK, CloseClarification, ClarificationRow
  <2>8. row.result = "NONE"
    BY <2>1, <2>5 DEF ReviewInv, ReviewsInOrder
  <2>9. n <= currentReview
    BY <1>7, <2>1 DEF CloseClarification, ReviewInv, ReviewsInOrder
  <2> QED
    BY <2>1, <2>5, <2>6, <2>7, <2>8, <2>9, OneReviewChanges
<1>8. ASSUME UNCHANGED <<review, currentReview, clarification>> PROVE ReviewInv'
  BY <1>8 DEF ReviewInv, CompletedHasNoOpenQuestion, ReviewsInOrder
<1>9. CASE ReviewStep
  BY <1>1, <1>2, <1>3, <1>4, <1>5, <1>6, <1>7, <1>8, <1>9
     DEF ReviewStep, ConfigureWorkflow
<1>10. CASE SendToEngineering
  <2>1. \A m \in Review : review'[m] = IF m = 1 THEN NewReview(FALSE) ELSE NoReview
    <3>1. \A m \in Review : m > 0
      BY DEF Review
    <3>2. \A m \in Review : review[m] = NoReview
      BY <1>10, <3>1 DEF SendToEngineering, Nothing, ReviewInv, ReviewsInOrder
    <3>3. review' = [review EXCEPT ![1] = NewReview(FALSE)]
      BY <1>10 DEF SendToEngineering
    <3> QED
      BY <3>2, <3>3 DEF TypeOK
  <2>2. CompletedHasNoOpenQuestion'
    BY <2>1 DEF NewReview, NoReview, Completed, CompletedHasNoOpenQuestion
  <2>3. ASSUME NEW m \in Review
        PROVE  /\ review'[m].result # "NONE" => review'[m].status \in Completed
               /\ m > 1 => review'[m] = NoReview
    BY <2>1 DEF NewReview, NoReview, Review
  <2>4. \A q \in Clarification : clarification'[q].status = "NONE"
    BY <1>10 DEF SendToEngineering, Nothing, ReviewInv, ReviewsInOrder, TypeOK,
       ClarificationRow, Review
  <2>5. currentReview' = 1
    BY <1>10 DEF SendToEngineering
  <2> QED
    BY <2>2, <2>3, <2>4, <2>5 DEF ReviewInv, ReviewsInOrder
<1> QED
  BY <1>8, <1>9, <1>10, ReviewsAreTouchedBy

-----------------------------------------------------------------------------
(* Estimates and their requests *)

\* Who touches an estimate or a request, or makes an enquiry complete.
LEMMA EstimatesAreTouchedBy ==
    [Next]_vars =>
      \/ EstimateStep
      \/ RequestStep
      \/ UNCHANGED estimating /\ enquiry' \in {enquiry} \cup (EnquiryStatus \ {"ESTIMATION_COMPLETE"})
<1> SUFFICES ASSUME [Next]_vars
             PROVE  \/ EstimateStep \/ RequestStep
                    \/ UNCHANGED estimating
                       /\ enquiry' \in {enquiry} \cup (EnquiryStatus \ {"ESTIMATION_COMPLETE"})
  OBVIOUS
<1>1. ASSUME NEW target \in {"RECEIVED", "UNDER_REVIEW"} \cup Closed,
             TransitionEnquiry(target)
      PROVE  UNCHANGED estimating /\ enquiry' \in EnquiryStatus \ {"ESTIMATION_COMPLETE"}
  BY <1>1 DEF TransitionEnquiry, Closed, EnquiryStatus
<1>2. CASE SendToEngineering
  BY <1>2 DEF SendToEngineering, EnquiryStatus
<1>3. CASE ReviewStep
  <2>1. ASSUME NEW n, NEW row, ChangeReview(n, row) PROVE UNCHANGED <<enquiry, estimating>>
    BY <2>1 DEF ChangeReview
  <2>2. ASSUME NEW n \in Review,
               \/ AssignReview(n) \/ StartReview(n) \/ CompleteReview(n) \/ MarkNotFeasible(n)
               \/ \E q \in Clarification : RequestClarification(n, q)
               \/ \E outcome \in {"APPROVED", "REFUSED"} : DecideReview(n, outcome)
        PROVE  UNCHANGED <<enquiry, estimating>>
    BY <2>1, <2>2 DEF AssignReview, StartReview, CompleteReview, MarkNotFeasible,
       RequestClarification, DecideReview
  <2>3. ASSUME NEW n \in Review, ReassessReview(n) PROVE UNCHANGED <<enquiry, estimating>>
    BY <2>3 DEF ReassessReview
  <2>4. ASSUME NEW q \in Clarification, RespondToClarification(q)
        PROVE  UNCHANGED <<enquiry, estimating>>
    BY <2>4 DEF RespondToClarification
  <2>5. ASSUME NEW q \in Clarification, CloseClarification(q)
        PROVE  UNCHANGED <<enquiry, estimating>>
    BY <2>1, <2>5 DEF CloseClarification
  <2>6. CASE ConfigureWorkflow
    BY <2>6 DEF ConfigureWorkflow
  <2> QED
    BY <1>3, <2>2, <2>3, <2>4, <2>5, <2>6 DEF ReviewStep
<1>4. CASE QuotationStep
  <2>1. ASSUME NEW c \in Clerk, ReadEnquiry(c) \/ ReadEstimate(c) \/ AbandonQuotation(c)
        PROVE  UNCHANGED <<enquiry, estimating>>
    BY <2>1 DEF ReadEnquiry, ReadEstimate, AbandonQuotation, ChangeClerk
  <2>2. ASSUME NEW c \in Clerk, CreateQuotation(c)
        PROVE  UNCHANGED estimating /\ enquiry' \in {enquiry, "QUOTATION_PREPARATION"}
    BY <2>2 DEF CreateQuotation
  <2>3. ASSUME NEW status \in {"QUOTATION_SENT", "NEGOTIATION", "WON"}, AdvanceEnquiry(status)
        PROVE  UNCHANGED estimating /\ enquiry' \in {"QUOTATION_SENT", "NEGOTIATION", "WON"}
    BY <2>3 DEF AdvanceEnquiry
  <2> QED
    BY <1>4, <2>1, <2>2, <2>3 DEF QuotationStep, EnquiryStatus, Closed
<1>5. CASE UNCHANGED vars
  BY <1>5 DEF vars
<1> QED
  BY <1>1, <1>2, <1>3, <1>4, <1>5 DEF Next

EstimatesKept == EstimateInv' /\ (CompleteMeansApproved => CompleteMeansApproved')

\* Editing an estimate disturbs neither a request nor an approval.
LEMMA EditsKeepEstimates ==
    ASSUME TypeOK, EstimateInv, NEW n \in Estimate, NEW row \in EstimateRow,
           ChangeEstimate(n, row), row.status \in Editable
    PROVE  EstimatesKept
<1>1. \A m \in Estimate : estimate'[m] = IF m = n THEN row ELSE estimate[m]
  BY DEF ChangeEstimate, TypeOK
<1>2. /\ row.status \notin {"NONE", "SUPERSEDED", "PENDING_APPROVAL", "APPROVED"}
      /\ estimate[n].status \notin {"NONE", "SUPERSEDED", "PENDING_APPROVAL", "APPROVED"}
  BY DEF ChangeEstimate, Editable
<1>3. UNCHANGED <<request, currentEstimate, enquiry>>
  BY DEF ChangeEstimate
<1>4. OnlyCurrentIsLive'
  BY <1>1, <1>2, <1>3 DEF EstimateInv, OnlyCurrentIsLive
<1>5. RequestsAreAwaited'
  <2>1. \A a \in Request : request[a].about \in Estimate
    BY DEF TypeOK, RequestRow
  <2> QED
    BY <1>1, <1>2, <1>3, <2>1 DEF EstimateInv, RequestsAreAwaited, Awaited
<1>6. ApprovedAsSubmitted'
  BY <1>1, <1>2, <1>3 DEF EstimateInv, ApprovedAsSubmitted
<1>7. CompleteMeansApproved => CompleteMeansApproved'
  BY <1>1, <1>2, <1>3 DEF CompleteMeansApproved, TypeOK
<1> QED
  BY <1>4, <1>5, <1>6, <1>7 DEF EstimateInv, EstimatesKept

LEMMA EstimateStepKeeps ==
    ASSUME TypeOK, EstimateInv, EstimateStep
    PROVE  EstimatesKept
<1>0. \A a \in Request : request[a].about \in Estimate
  BY DEF TypeOK, RequestRow
<1>1. CASE CreateEstimate
  <2>1. \A m \in Estimate : m > 0
    BY DEF Estimate
  <2>2. \A m \in Estimate : estimate[m].status = "NONE"
    BY <1>1, <2>1 DEF CreateEstimate, Nothing, EstimateInv, OnlyCurrentIsLive
  <2>3. \A m \in Estimate :
          estimate'[m] = IF m = 1 THEN NewEstimate(NoLines, currentReview) ELSE estimate[m]
    BY <1>1 DEF CreateEstimate, TypeOK
  <2>4. NewEstimate(NoLines, currentReview).status = "DRAFT"
    BY DEF NewEstimate
  <2>5. OnlyCurrentIsLive'
    BY <1>1, <2>2, <2>3, <2>4 DEF CreateEstimate, OnlyCurrentIsLive, Estimate
  <2>6. RequestsAreAwaited'
    BY <1>0, <1>1, <2>2 DEF CreateEstimate, EstimateInv, RequestsAreAwaited, Awaited
  <2>7. ApprovedAsSubmitted'
    BY <2>2, <2>3, <2>4 DEF ApprovedAsSubmitted
  <2>8. CompleteMeansApproved'
    BY <1>1 DEF CreateEstimate, CompleteMeansApproved
  <2> QED
    BY <2>5, <2>6, <2>7, <2>8 DEF EstimateInv, EstimatesKept
<1>2. ASSUME NEW n \in Estimate, NEW price \in Price,
             UpdateEstimate(n, price) \/ CreateCostLine(n, price) \/ ChangeCostLine(n, price)
      PROVE  EstimatesKept
  <2>1. estimate[n] \in EstimateRow
    BY DEF TypeOK
  <2>2. /\ [estimate[n] EXCEPT !.status = "IN_PREPARATION", !.price = price] \in EstimateRow
        /\ [estimate[n] EXCEPT !.status = "IN_PREPARATION", !.price = price].status
             = "IN_PREPARATION"
        /\ [estimate[n] EXCEPT !.price = price] \in EstimateRow
        /\ [estimate[n] EXCEPT !.price = price].status = estimate[n].status
    BY <2>1 DEF EstimateRow
  <2>3. PICK row \in EstimateRow : ChangeEstimate(n, row) /\ row.status \in Editable
    <3>1. CASE UpdateEstimate(n, price) \/ CreateCostLine(n, price)
      BY <2>2, <3>1 DEF UpdateEstimate, CreateCostLine, Editable
    <3>2. CASE ChangeCostLine(n, price)
      BY <2>2, <3>2 DEF ChangeCostLine, ChangeEstimate
    <3> QED
      BY <1>2, <3>1, <3>2
  <2> QED
    BY <2>3, EditsKeepEstimates
<1>3. ASSUME NEW n \in Estimate, NEW a \in Request, SubmitEstimate(n, a)
      PROVE  EstimatesKept
  <2>1. estimate[n] \in EstimateRow
    BY DEF TypeOK
  <2>2. \A m \in Estimate : m # n => estimate'[m] = estimate[m]
    BY <1>3 DEF SubmitEstimate, TypeOK
  <2>3. /\ estimate'[n].status = "PENDING_APPROVAL"
        /\ estimate'[n].request = a
        /\ estimate'[n].price = estimate[n].price
    <3>1. estimate'[n] =
            [estimate[n] EXCEPT !.status = "PENDING_APPROVAL", !.request = a]
      BY <1>3 DEF SubmitEstimate, TypeOK
    <3> QED
      BY <2>1, <3>1 DEF EstimateRow
  <2>4. \A b \in Request :
          request'[b] = IF b = a THEN [outcome |-> "OPEN", about |-> n,
                                       price |-> estimate[n].price, sync |-> "NONE"]
                        ELSE request[b]
    BY <1>3 DEF SubmitEstimate, TypeOK
  <2>5. /\ estimate[n].status \notin {"NONE", "SUPERSEDED", "PENDING_APPROVAL", "APPROVED"}
        /\ request[a].outcome = "NONE"
        /\ UNCHANGED <<currentEstimate, enquiry>>
    BY <1>3 DEF SubmitEstimate, Editable
  <2>6. OnlyCurrentIsLive'
    BY <2>2, <2>3, <2>5 DEF EstimateInv, OnlyCurrentIsLive
  <2>7. RequestsAreAwaited'
    <3> SUFFICES ASSUME NEW b \in Request
                 PROVE  /\ request'[b].outcome = "OPEN" \/ request'[b].sync = "DUE"
                             => Awaited(b)'
                        /\ request'[b].sync = "DUE" => request'[b].outcome \in Verdict
      BY DEF RequestsAreAwaited
    <3>1. CASE b = a
      BY <2>3, <2>4, <3>1 DEF Awaited
    <3>2. CASE b # a
      BY <1>0, <2>2, <2>4, <2>5, <3>2 DEF EstimateInv, RequestsAreAwaited, Awaited
    <3> QED
      BY <3>1, <3>2
  <2>8. ApprovedAsSubmitted'
    <3> SUFFICES ASSUME NEW m \in Estimate, estimate'[m].status = "APPROVED"
                 PROVE  /\ estimate'[m].request # NoRequest
                        /\ request'[estimate'[m].request].outcome = "APPROVED"
                        /\ request'[estimate'[m].request].about = m
                        /\ request'[estimate'[m].request].price = estimate'[m].price
      BY DEF ApprovedAsSubmitted
    <3>1. m # n /\ estimate'[m] = estimate[m]
      BY <2>2, <2>3
    <3>2. /\ estimate[m].request \in Request
          /\ request[estimate[m].request].outcome = "APPROVED"
          /\ request[estimate[m].request].about = m
          /\ request[estimate[m].request].price = estimate[m].price
      BY <3>1 DEF EstimateInv, ApprovedAsSubmitted, TypeOK, EstimateRow
    <3>3. estimate[m].request # a
      BY <2>5, <3>2
    <3> QED
      BY <2>4, <3>1, <3>2, <3>3, NoRequestAssumption
  <2>9. CompleteMeansApproved => CompleteMeansApproved'
    BY <2>2, <2>5 DEF CompleteMeansApproved, TypeOK
  <2> QED
    BY <2>6, <2>7, <2>8, <2>9 DEF EstimateInv, EstimatesKept
<1>4. ASSUME NEW n \in Estimate, ReviseEstimate(n) PROVE EstimatesKept
  <2>1. n + 1 \in Estimate /\ n = currentEstimate /\ currentEstimate' = n + 1 /\ n \in Nat
    BY <1>4, BoundsAssumption DEF ReviseEstimate, Estimate
  <2>2. estimate[n] \in EstimateRow
    BY DEF TypeOK
  <2>3. \A m \in Estimate :
          estimate'[m] = IF m = n + 1 THEN NewEstimate(estimate[n].price, estimate[n].basis)
                         ELSE IF m = n THEN [estimate[n] EXCEPT !.status = "SUPERSEDED"]
                         ELSE estimate[m]
    BY <1>4, <2>1 DEF ReviseEstimate, TypeOK
  <2>4. /\ NewEstimate(estimate[n].price, estimate[n].basis).status = "DRAFT"
        /\ [estimate[n] EXCEPT !.status = "SUPERSEDED"].status = "SUPERSEDED"
    BY <2>2 DEF NewEstimate, EstimateRow
  <2>5. /\ estimate[n].status # "PENDING_APPROVAL"
        /\ estimate[n + 1].status = "NONE"
        /\ UNCHANGED request
    BY <1>4, <2>1 DEF ReviseEstimate, Revisable, EstimateInv, OnlyCurrentIsLive
  <2>6. OnlyCurrentIsLive'
    <3> SUFFICES ASSUME NEW m \in Estimate
                 PROVE  /\ estimate'[m].status \notin {"NONE", "SUPERSEDED"} => m = n + 1
                        /\ m > n + 1 => estimate'[m].status = "NONE"
      BY <2>1 DEF OnlyCurrentIsLive
    <3>1. m \in Nat
      BY DEF Estimate
    <3>2. estimate'[m].status \notin {"NONE", "SUPERSEDED"} => m = n + 1
      BY <2>1, <2>3, <2>4 DEF EstimateInv, OnlyCurrentIsLive
    <3>3. ASSUME m > n + 1 PROVE estimate'[m].status = "NONE"
      <4>1. m > n /\ m # n + 1 /\ m # n
        BY <2>1, <3>1, <3>3
      <4> QED
        BY <2>1, <2>3, <4>1 DEF EstimateInv, OnlyCurrentIsLive
    <3> QED
      BY <3>2, <3>3
  <2>7. RequestsAreAwaited'
    BY <1>0, <2>3, <2>5 DEF EstimateInv, RequestsAreAwaited, Awaited
  <2>8. ApprovedAsSubmitted'
    <3>1. \A m \in Estimate : estimate'[m].status = "APPROVED" => estimate'[m] = estimate[m]
      BY <2>3, <2>4
    <3> QED
      BY <2>5, <3>1 DEF EstimateInv, ApprovedAsSubmitted
  <2>9. CompleteMeansApproved'
    <3>1. enquiry' # "ESTIMATION_COMPLETE"
      BY <1>4 DEF ReviseEstimate
    <3> QED
      BY <3>1 DEF CompleteMeansApproved
  <2> QED
    BY <2>6, <2>7, <2>8, <2>9 DEF EstimateInv, EstimatesKept
<1> QED
  BY <1>1, <1>2, <1>3, <1>4 DEF EstimateStep

LEMMA RequestStepKeeps ==
    ASSUME TypeOK, EstimateInv, RequestStep
    PROVE  EstimatesKept
<1>0. \A a \in Request : request[a] \in RequestRow
  BY DEF TypeOK
<1>1. ASSUME NEW a \in Request, request[a].outcome = "OPEN",
             NEW row \in RequestRow, ChangeRequest(a, row),
             row.about = request[a].about, row.price = request[a].price,
             row.outcome # "OPEN",
             row.sync = "DUE" => row.outcome \in Verdict
      PROVE  EstimatesKept
  <2>1. \A b \in Request : request'[b] = IF b = a THEN row ELSE request[b]
    BY <1>1 DEF ChangeRequest, TypeOK
  <2>2. UNCHANGED <<estimate, currentEstimate, enquiry>>
    BY <1>1 DEF ChangeRequest
  <2>3. RequestsAreAwaited'
    <3>1. Awaited(a)
      BY <1>1 DEF EstimateInv, RequestsAreAwaited
    <3>2. \A b \in Request : Awaited(b) => Awaited(b)'
      BY <1>1, <2>1, <2>2 DEF Awaited
    <3> QED
      BY <1>1, <2>1, <3>1, <3>2 DEF EstimateInv, RequestsAreAwaited
  <2>4. ApprovedAsSubmitted'
    <3> SUFFICES ASSUME NEW m \in Estimate, estimate[m].status = "APPROVED"
                 PROVE  request'[estimate[m].request] = request[estimate[m].request]
      BY <2>2 DEF EstimateInv, ApprovedAsSubmitted
    <3>1. /\ estimate[m].request \in Request
          /\ request[estimate[m].request].outcome = "APPROVED"
      BY DEF EstimateInv, ApprovedAsSubmitted, TypeOK, EstimateRow
    <3> QED
      BY <1>1, <2>1, <3>1
  <2> QED
    BY <2>2, <2>3, <2>4
       DEF EstimateInv, EstimatesKept, OnlyCurrentIsLive, CompleteMeansApproved
<1>2. ASSUME NEW a \in Request, NEW verdict \in Verdict, Decide(a, verdict)
      PROVE  EstimatesKept
  <2>1. [request[a] EXCEPT !.outcome = verdict, !.sync = "DUE"] \in RequestRow
    BY <1>0 DEF RequestRow, Outcome
  <2>2. PICK row \in RequestRow :
          /\ ChangeRequest(a, row)
          /\ row.about = request[a].about /\ row.price = request[a].price
          /\ row.outcome = verdict
    BY <1>0, <1>2, <2>1 DEF Decide, RequestRow
  <2> QED
    BY <1>1, <1>2, <2>2 DEF Decide, Verdict
<1>3. ASSUME NEW a \in Request, Withdraw(a) PROVE EstimatesKept
  <2>1. [request[a] EXCEPT !.outcome = "CANCELLED"] \in RequestRow
    BY <1>0 DEF RequestRow, Outcome
  <2>2. PICK row \in RequestRow :
          /\ ChangeRequest(a, row)
          /\ row.about = request[a].about /\ row.price = request[a].price
          /\ row.outcome = "CANCELLED" /\ row.sync = request[a].sync
    BY <1>0, <1>3, <2>1 DEF Withdraw, RequestRow
  <2>3. request[a].sync # "DUE"
    BY <1>3 DEF Withdraw, EstimateInv, RequestsAreAwaited, Verdict
  <2> QED
    BY <1>1, <1>3, <2>2, <2>3 DEF Withdraw
<1>4. ASSUME NEW a \in Request, SyncEstimateApproval(a) PROVE EstimatesKept
  <2>1. PICK n \in Estimate : n = request[a].about
    BY <1>0 DEF RequestRow
  <2>2. /\ estimate[n].status = "PENDING_APPROVAL" /\ estimate[n].request = a
        /\ estimate[n].price = request[a].price
        /\ request[a].outcome \in Verdict
    BY <1>4, <2>1 DEF SyncEstimateApproval, EstimateInv, RequestsAreAwaited, Awaited
  <2>3. n = currentEstimate /\ currentEstimate' = currentEstimate
    BY <1>4, <2>2 DEF SyncEstimateApproval, EstimateInv, OnlyCurrentIsLive
  <2>4. /\ \A m \in Estimate : m # n => estimate'[m] = estimate[m]
        /\ estimate'[n] = [estimate[n] EXCEPT !.status = StatusAfter(request[a].outcome)]
    BY <1>4, <2>1 DEF SyncEstimateApproval, TypeOK
  <2>5. /\ estimate'[n].status = StatusAfter(request[a].outcome)
        /\ estimate'[n].request = a /\ estimate'[n].price = request[a].price
    <3>1. estimate[n] \in EstimateRow
      BY DEF TypeOK
    <3> QED
      BY <2>2, <2>4, <3>1 DEF EstimateRow
  <2>6. /\ StatusAfter(request[a].outcome) \notin {"NONE", "SUPERSEDED", "PENDING_APPROVAL"}
        /\ StatusAfter(request[a].outcome) = "APPROVED" <=> request[a].outcome = "APPROVED"
    BY <2>2 DEF StatusAfter, Verdict
  <2>7. \A b \in Request :
          /\ request'[b].outcome = request[b].outcome
          /\ request'[b].about = request[b].about
          /\ request'[b].price = request[b].price
          /\ request'[b].sync = IF b = a THEN "DONE" ELSE request[b].sync
    BY <1>0, <1>4 DEF SyncEstimateApproval, TypeOK, RequestRow
  <2>8. OnlyCurrentIsLive'
    BY <2>2, <2>3, <2>4 DEF EstimateInv, OnlyCurrentIsLive
  <2>9. RequestsAreAwaited'
    <3> SUFFICES ASSUME NEW b \in Request,
                        request[b].outcome = "OPEN" \/ (b # a /\ request[b].sync = "DUE")
                 PROVE  Awaited(b)'
      BY <2>7 DEF EstimateInv, RequestsAreAwaited
    <3>1. b # a
      BY <2>2 DEF Verdict
    <3>2. Awaited(b) /\ request[b].about \in Estimate
      BY <1>0 DEF EstimateInv, RequestsAreAwaited, RequestRow
    <3>3. request[b].about # n
      BY <2>2, <3>1, <3>2 DEF Awaited
    <3> QED
      BY <2>4, <2>7, <3>2, <3>3 DEF Awaited
  <2>10. ApprovedAsSubmitted'
    <3> SUFFICES ASSUME NEW m \in Estimate, estimate'[m].status = "APPROVED"
                 PROVE  /\ estimate'[m].request # NoRequest
                        /\ request'[estimate'[m].request].outcome = "APPROVED"
                        /\ request'[estimate'[m].request].about = m
                        /\ request'[estimate'[m].request].price = estimate'[m].price
      BY DEF ApprovedAsSubmitted
    <3>1. CASE m = n
      BY <2>1, <2>5, <2>6, <2>7, <3>1, NoRequestAssumption
    <3>2. CASE m # n
      <4>1. /\ estimate[m].request \in Request
            /\ request[estimate[m].request].outcome = "APPROVED"
            /\ request[estimate[m].request].about = m
            /\ request[estimate[m].request].price = estimate[m].price
        BY <2>4, <3>2 DEF EstimateInv, ApprovedAsSubmitted, TypeOK, EstimateRow
      <4> QED
        BY <2>4, <2>7, <3>2, <4>1, NoRequestAssumption
    <3> QED
      BY <3>1, <3>2
  <2>11. CompleteMeansApproved => CompleteMeansApproved'
    <3>1. currentEstimate # Nothing
      BY <2>3 DEF Nothing, Estimate
    <3>2. CASE request[a].outcome = "APPROVED"
      BY <2>3, <2>5, <2>6, <3>1, <3>2 DEF CompleteMeansApproved
    <3>3. CASE request[a].outcome # "APPROVED"
      <4>1. enquiry' = enquiry
        BY <1>4, <3>3 DEF SyncEstimateApproval
      <4> QED
        BY <2>2, <2>3, <4>1 DEF CompleteMeansApproved
    <3> QED
      BY <3>2, <3>3
  <2> QED
    BY <2>8, <2>9, <2>10, <2>11 DEF EstimateInv, EstimatesKept
<1> QED
  BY <1>2, <1>3, <1>4 DEF RequestStep

LEMMA NextEstimates == TypeOK /\ EstimateInv /\ [Next]_vars => EstimatesKept
<1> SUFFICES ASSUME TypeOK, EstimateInv,
                    UNCHANGED estimating,
                    enquiry' \in {enquiry} \cup (EnquiryStatus \ {"ESTIMATION_COMPLETE"})
             PROVE  EstimatesKept
  BY EstimatesAreTouchedBy, EstimateStepKeeps, RequestStepKeeps
<1>1. UNCHANGED <<estimate, currentEstimate, request>>
  BY DEF estimating
<1>2. EstimateInv'
  BY <1>1 DEF EstimateInv, OnlyCurrentIsLive, RequestsAreAwaited, Awaited, ApprovedAsSubmitted
<1>3. CompleteMeansApproved => CompleteMeansApproved'
  BY <1>1 DEF CompleteMeansApproved
<1> QED
  BY <1>2, <1>3 DEF EstimatesKept

\* An approved request is never touched again, save that its verdict arrives.
LEMMA ApprovedRequestIsKept ==
    ASSUME TypeOK, [Next]_vars, NEW a \in Request, request[a].outcome = "APPROVED"
    PROVE  /\ request'[a].outcome = "APPROVED"
           /\ request'[a].about = request[a].about
           /\ request'[a].price = request[a].price
<1> DEFINE Kept == /\ request'[a].outcome = "APPROVED"
                   /\ request'[a].about = request[a].about
                   /\ request'[a].price = request[a].price
<1> SUFFICES Kept
  OBVIOUS
<1>1. ASSUME NEW n \in Estimate, NEW b \in Request, SubmitEstimate(n, b) PROVE Kept
  BY <1>1 DEF SubmitEstimate, TypeOK
<1>2. ASSUME NEW b \in Request, NEW verdict \in Verdict,
             Decide(b, verdict) \/ Withdraw(b)
      PROVE  Kept
  BY <1>2 DEF Decide, Withdraw, ChangeRequest, TypeOK
<1>3. ASSUME NEW b \in Request, SyncEstimateApproval(b) PROVE Kept
  <2>1. request' = [request EXCEPT ![b].sync = "DONE"] /\ request[a] \in RequestRow
    BY <1>3 DEF SyncEstimateApproval, TypeOK
  <2> QED
    BY <2>1 DEF TypeOK, RequestRow
<1>4. CASE RequestStep
  <2>1. "APPROVED" \in Verdict
    BY DEF Verdict
  <2> QED
    BY <1>2, <1>3, <1>4, <2>1 DEF RequestStep
<1>5. ASSUME UNCHANGED request PROVE Kept
  BY <1>5
<1>6. CASE EstimateStep
  BY <1>1, <1>5, <1>6 DEF EstimateStep, CreateEstimate, UpdateEstimate, CreateCostLine,
     ChangeCostLine, ChangeEstimate, ReviseEstimate
<1> QED
  BY <1>4, <1>5, <1>6, EstimatesAreTouchedBy DEF estimating

-----------------------------------------------------------------------------
(* What an estimate rests on *)

Sound(n) ==
    /\ review[n].result = "FEASIBLE"
    /\ Unresolved(n) = {}
    /\ review[n].approval = "APPROVED" \/ n \in waived

LEMMA WaivedGrows == [Next]_vars => waived \subseteq waived'
<1> SUFFICES ASSUME [Next]_vars PROVE waived \subseteq waived'
  OBVIOUS
<1>1. CASE ReviewStep
  <2>1. ASSUME NEW n, NEW row, ChangeReview(n, row) PROVE UNCHANGED waived
    BY <2>1 DEF ChangeReview
  <2> QED
    BY <1>1, <2>1 DEF ReviewStep, AssignReview, StartReview, RequestClarification,
       CompleteReview, MarkNotFeasible, ReassessReview, DecideReview,
       RespondToClarification, CloseClarification, ConfigureWorkflow
<1>2. CASE EstimateStep
  BY <1>2 DEF EstimateStep, CreateEstimate, UpdateEstimate, CreateCostLine, ChangeCostLine,
     ChangeEstimate, SubmitEstimate, ReviseEstimate
<1>3. CASE RequestStep
  BY <1>3 DEF RequestStep, Decide, Withdraw, ChangeRequest, SyncEstimateApproval
<1>4. CASE QuotationStep
  BY <1>4 DEF QuotationStep, ReadEnquiry, ReadEstimate, CreateQuotation, AbandonQuotation,
     ChangeClerk, AdvanceEnquiry
<1> QED
  BY <1>1, <1>2, <1>3, <1>4 DEF Next, vars, TransitionEnquiry, SendToEngineering

\* What an estimate was made from stays good for it.
LEMMA SoundIsKept ==
    ASSUME TypeOK, ReviewInv, ReviewInv', [Next]_vars, NEW n \in Review, Sound(n)
    PROVE  Sound(n)'
<1>1. review[n].status \in Completed
  BY DEF Sound, ReviewInv, ReviewsInOrder
<1>2. /\ review'[n].status \in {review[n].status, "SUPERSEDED"}
      /\ review'[n].result = "FEASIBLE"
      /\ review[n].approval = "APPROVED" => review'[n].approval = "APPROVED"
  BY <1>1, CompletedIsKept DEF Sound
<1>3. review'[n].status \in Completed
  BY <1>1, <1>2 DEF Completed
<1>4. Unresolved(n)' = {}
  BY <1>3 DEF Unresolved, ReviewInv, CompletedHasNoOpenQuestion
<1> QED
  BY <1>2, <1>4, WaivedGrows DEF Sound

\* A first estimate is made from a review that is good for it.
LEMMA FirstBasisIsSound ==
    ASSUME TypeOK, CreateEstimate
    PROVE  \E n \in Review : n = currentReview /\ Sound(n)'
<1>1. currentReview \in Review
  BY DEF CreateEstimate, TypeOK
<1>2. UNCHANGED <<review, clarification, currentReview>>
  BY DEF CreateEstimate, reviewing
<1>3. review[currentReview].approval = "APPROVED" \/ currentReview \in waived'
  BY DEF CreateEstimate, ReadyForEstimation, ApprovalInHand
<1>4. review[currentReview].result = "FEASIBLE" /\ Unresolved(currentReview) = {}
  BY DEF CreateEstimate, ReadyForEstimation
<1> QED
  BY <1>1, <1>2, <1>3, <1>4 DEF Sound, Unresolved

\* Every estimate has its basis from an earlier one, or is the first.
LEMMA BasisIsInherited ==
    ASSUME TypeOK, RequestsAreAwaited, [Next]_vars,
           NEW m \in Estimate, estimate'[m].status # "NONE"
    PROVE  \/ \E k \in Estimate :
                estimate[k].status # "NONE" /\ estimate'[m].basis = estimate[k].basis
           \/ CreateEstimate /\ estimate'[m].basis = currentReview
<1> DEFINE Inherited == \E k \in Estimate :
                estimate[k].status # "NONE" /\ estimate'[m].basis = estimate[k].basis
<1> SUFFICES Inherited \/ (CreateEstimate /\ estimate'[m].basis = currentReview)
  OBVIOUS
<1>0. ASSUME NEW k \in Estimate PROVE estimate[k] \in EstimateRow
  BY DEF TypeOK
<1>1. ASSUME estimate'[m] = estimate[m] PROVE Inherited
  BY <1>1
<1>2. ASSUME estimate[m].status # "NONE", estimate'[m].basis = estimate[m].basis
      PROVE  Inherited
  BY <1>2
<1>3. CASE CreateEstimate
  <2>1. estimate' = [estimate EXCEPT ![1] = NewEstimate(NoLines, currentReview)]
    BY <1>3 DEF CreateEstimate
  <2>2. CASE m = 1
    BY <1>3, <2>1, <2>2 DEF TypeOK, NewEstimate
  <2>3. CASE m # 1
    BY <1>1, <2>1, <2>3 DEF TypeOK
  <2> QED
    BY <2>2, <2>3
<1>4. ASSUME NEW n \in Estimate, NEW price \in Price,
             UpdateEstimate(n, price) \/ CreateCostLine(n, price) \/ ChangeCostLine(n, price)
      PROVE  Inherited
  <2>1. PICK row : ChangeEstimate(n, row) /\ row.basis = estimate[n].basis
    <3>1. /\ [estimate[n] EXCEPT !.status = "IN_PREPARATION", !.price = price].basis
               = estimate[n].basis
          /\ [estimate[n] EXCEPT !.price = price].basis = estimate[n].basis
      BY <1>0 DEF EstimateRow
    <3> QED
      BY <1>4, <3>1 DEF UpdateEstimate, CreateCostLine, ChangeCostLine
  <2>2. estimate[n].status # "NONE" /\ estimate' = [estimate EXCEPT ![n] = row]
    BY <2>1 DEF ChangeEstimate, Editable
  <2> QED
    BY <1>1, <1>2, <2>1, <2>2 DEF TypeOK
<1>5. ASSUME NEW n \in Estimate, NEW a \in Request, SubmitEstimate(n, a) PROVE Inherited
  <2>1. /\ estimate[n].status # "NONE"
        /\ estimate' = [estimate EXCEPT ![n].status = "PENDING_APPROVAL", ![n].request = a]
    BY <1>5 DEF SubmitEstimate, Editable
  <2>2. m # n => estimate'[m] = estimate[m]
    BY <2>1 DEF TypeOK
  <2>3. m = n => estimate'[m].basis = estimate[m].basis
    BY <1>0, <2>1 DEF TypeOK, EstimateRow
  <2> QED
    BY <1>1, <1>2, <2>1, <2>2, <2>3
<1>6. ASSUME NEW n \in Estimate, ReviseEstimate(n) PROVE Inherited
  <2>1. n + 1 \in Estimate /\ estimate[n].status # "NONE"
    BY <1>6, BoundsAssumption DEF ReviseEstimate, Revisable, Estimate
  <2>2. estimate'[m] = IF m = n + 1 THEN NewEstimate(estimate[n].price, estimate[n].basis)
                       ELSE IF m = n THEN [estimate[n] EXCEPT !.status = "SUPERSEDED"]
                       ELSE estimate[m]
    BY <1>6, <2>1 DEF ReviseEstimate, TypeOK
  <2>3. /\ NewEstimate(estimate[n].price, estimate[n].basis).basis = estimate[n].basis
        /\ [estimate[n] EXCEPT !.status = "SUPERSEDED"].basis = estimate[n].basis
    BY <1>0 DEF NewEstimate, EstimateRow
  <2> QED
    BY <1>1, <2>1, <2>2, <2>3
<1>7. ASSUME NEW a \in Request, SyncEstimateApproval(a) PROVE Inherited
  <2>1. PICK n \in Estimate : n = request[a].about
    BY DEF TypeOK, RequestRow
  <2>2. /\ estimate[n].status # "NONE"
        /\ estimate' = [estimate EXCEPT ![n].status = StatusAfter(request[a].outcome)]
    BY <1>7, <2>1 DEF SyncEstimateApproval, RequestsAreAwaited, Awaited
  <2>3. m # n => estimate'[m] = estimate[m]
    BY <2>2 DEF TypeOK
  <2>4. m = n => estimate'[m].basis = estimate[m].basis
    BY <1>0, <2>2 DEF TypeOK, EstimateRow
  <2> QED
    BY <1>1, <1>2, <2>2, <2>3, <2>4
<1>8. CASE EstimateStep
  BY <1>3, <1>4, <1>5, <1>6, <1>8 DEF EstimateStep
<1>9. CASE RequestStep
  BY <1>1, <1>7, <1>9 DEF RequestStep, Decide, Withdraw, ChangeRequest
<1>10. CASE UNCHANGED estimating
  BY <1>1, <1>10 DEF estimating
<1> QED
  BY <1>8, <1>9, <1>10, EstimatesAreTouchedBy

LEMMA NextEstimateRests ==
    IInv /\ ReviewInv' /\ [Next]_vars => EstimateRestsOnFeasibleReview'
<1> SUFFICES ASSUME IInv, ReviewInv', [Next]_vars,
                    NEW m \in Estimate, estimate'[m].status # "NONE"
             PROVE  \E n \in Review : n = estimate'[m].basis /\ Sound(n)'
  BY DEF EstimateRestsOnFeasibleReview, Sound, Unresolved
<1>1. CASE CreateEstimate /\ estimate'[m].basis = currentReview
  BY <1>1, FirstBasisIsSound DEF IInv
<1>2. ASSUME NEW k \in Estimate, estimate[k].status # "NONE",
             estimate'[m].basis = estimate[k].basis
      PROVE  \E n \in Review : n = estimate'[m].basis /\ Sound(n)'
  <2>1. PICK n \in Review : n = estimate[k].basis
    BY DEF IInv, TypeOK, EstimateRow
  <2>2. Sound(n)
    BY <1>2, <2>1 DEF IInv, EstimateRestsOnFeasibleReview, Sound
  <2>3. Sound(n)'
    BY <2>2, SoundIsKept DEF IInv
  <2> QED
    BY <1>2, <2>1, <2>3
<1> QED
  BY <1>1, <1>2, BasisIsInherited DEF IInv, EstimateInv

-----------------------------------------------------------------------------
(* What a quotation offers *)

LEMMA NextQuoted == IInv /\ [Next]_vars => QuotedWasApproved'
<1> SUFFICES ASSUME IInv, [Next]_vars,
                    NEW c \in Clerk, clerk'[c].at = "ESTIMATE"
             PROVE  \E a \in Request :
                      /\ request'[a].outcome = "APPROVED"
                      /\ request'[a].about = clerk'[c].estimate
                      /\ request'[a].price = clerk'[c].price
  BY DEF QuotedWasApproved
<1> DEFINE Backed(row) == \E a \in Request :
                      /\ request[a].outcome = "APPROVED"
                      /\ request[a].about = row.estimate
                      /\ request[a].price = row.price
<1>1. ASSUME Backed(clerk'[c])
      PROVE  \E a \in Request :
                      /\ request'[a].outcome = "APPROVED"
                      /\ request'[a].about = clerk'[c].estimate
                      /\ request'[a].price = clerk'[c].price
  BY <1>1, ApprovedRequestIsKept DEF IInv
<1>2. ASSUME clerk'[c] = clerk[c] PROVE Backed(clerk'[c])
  BY <1>2 DEF IInv, QuotedWasApproved
<1>3. ASSUME NEW d \in Clerk, ReadEstimate(d) PROVE Backed(clerk'[c])
  <2>1. CASE d # c
    <3>1. clerk'[c] = clerk[c]
      BY <1>3, <2>1 DEF ReadEstimate, ChangeClerk, IInv, TypeOK
    <3> QED
      BY <1>2, <3>1
  <2>2. CASE d = c
    <3>1. PICK n \in Estimate : n = currentEstimate
      BY <1>3 DEF ReadEstimate, IInv, TypeOK
    <3>2. clerk'[c].estimate = n /\ clerk'[c].price = estimate[n].price
      <4>1. clerk'[c] = [clerk[c] EXCEPT !.at = "ESTIMATE", !.estimate = n,
                                         !.price = estimate[n].price]
        BY <1>3, <2>2, <3>1 DEF ReadEstimate, ChangeClerk, IInv, TypeOK
      <4>2. clerk[c] \in ClerkRow
        BY DEF IInv, TypeOK
      <4> QED
        BY <4>1, <4>2 DEF ClerkRow
    <3>3. /\ estimate[n].request \in Request
          /\ request[estimate[n].request].outcome = "APPROVED"
          /\ request[estimate[n].request].about = n
          /\ request[estimate[n].request].price = estimate[n].price
      BY <1>3, <3>1
         DEF ReadEstimate, IInv, EstimateInv, ApprovedAsSubmitted, TypeOK, EstimateRow
    <3> QED
      BY <3>2, <3>3
  <2> QED
    BY <2>1, <2>2
<1>4. ASSUME NEW d \in Clerk,
             ReadEnquiry(d) \/ CreateQuotation(d) \/ AbandonQuotation(d)
      PROVE  clerk'[c] = clerk[c]
  <2>1. PICK row : row.at # "ESTIMATE" /\ clerk' = [clerk EXCEPT ![d] = row]
    BY <1>4 DEF ReadEnquiry, CreateQuotation, AbandonQuotation, ChangeClerk, Idle
  <2> QED
    BY <2>1 DEF IInv, TypeOK
<1>5. CASE QuotationStep
  BY <1>1, <1>2, <1>3, <1>4, <1>5 DEF QuotationStep, AdvanceEnquiry
<1>6. CASE ReviewStep
  <2>1. ASSUME NEW n, NEW row, ChangeReview(n, row) PROVE UNCHANGED quoting
    BY <2>1 DEF ChangeReview
  <2>2. UNCHANGED quoting
    BY <1>6, <2>1 DEF ReviewStep, AssignReview, StartReview, RequestClarification,
       CompleteReview, MarkNotFeasible, ReassessReview, DecideReview,
       RespondToClarification, CloseClarification, ConfigureWorkflow
  <2> QED
    BY <1>1, <1>2, <2>2 DEF quoting
<1>7. CASE EstimateStep \/ RequestStep
  <2>1. UNCHANGED quoting
    BY <1>7 DEF EstimateStep, CreateEstimate, UpdateEstimate, CreateCostLine,
       ChangeCostLine, ChangeEstimate, SubmitEstimate, ReviseEstimate,
       RequestStep, Decide, Withdraw, ChangeRequest, SyncEstimateApproval
  <2> QED
    BY <1>1, <1>2, <2>1 DEF quoting
<1> QED
  BY <1>1, <1>2, <1>5, <1>6, <1>7 DEF Next, vars, quoting, TransitionEnquiry, SendToEngineering

-----------------------------------------------------------------------------
(* Theorems *)

LEMMA NextIInv == IInv /\ [Next]_vars => IInv'
<1> SUFFICES ASSUME IInv, [Next]_vars PROVE IInv'
  OBVIOUS
<1>1. TypeOK'
  BY NextTypeOK DEF IInv, EstimateInv
<1>2. ReviewInv'
  BY NextReviewInv DEF IInv
<1>3. EstimateInv' /\ CompleteMeansApproved'
  BY NextEstimates DEF IInv, EstimatesKept
<1>4. EstimateRestsOnFeasibleReview'
  BY <1>2, NextEstimateRests
<1>5. QuotedWasApproved'
  BY NextQuoted
<1> QED
  BY <1>1, <1>2, <1>3, <1>4, <1>5 DEF IInv

LEMMA Inductive == Spec => []IInv
BY InitIInv, NextIInv, PTL DEF Spec

\* Every variable keeps its type, in particular when a verdict becomes a status
\* (estimation.models, engineering_reviews.models, enquiries.models).
THEOREM TypeCorrect == Spec => []TypeOK
<1>1. IInv => TypeOK
  BY DEF IInv
<1> QED
  BY <1>1, Inductive, PTL

\* No review is over or replaced while a question in it waits
\* (request_clarification, complete_review, mark_not_feasible).
THEOREM CompletedReviewsHaveNoOpenQuestion == Spec => []CompletedHasNoOpenQuestion
<1>1. IInv => CompletedHasNoOpenQuestion
  BY DEF IInv, ReviewInv
<1> QED
  BY <1>1, Inductive, PTL

\* A completed review never goes back to work and keeps its result
\* (close_clarification, request_clarification, reassess_review).
THEOREM CompletedReviewsAreFinal == Spec => CompletedIsFinal
<1>1. IInv /\ [Next]_vars =>
        [\A n \in Review : review[n].status \in Completed =>
           /\ review'[n].status \in {review[n].status, "SUPERSEDED"}
           /\ review'[n].result = review[n].result]_vars
  BY CompletedIsKept DEF IInv
<1> QED
  BY <1>1, Inductive, PTL DEF Spec, CompletedIsFinal

\* Every estimate rests on a feasible, unquestioned and, where asked for,
\* approved review, whatever was revised since (create_estimate, revise_estimate,
\* reassess_review).
THEOREM EstimatesRestOnFeasibleReviews == Spec => []EstimateRestsOnFeasibleReview
<1>1. IInv => EstimateRestsOnFeasibleReview
  BY DEF IInv
<1> QED
  BY <1>1, Inductive, PTL

\* An approved estimate is as its approvers saw it (submit_estimate,
\* update_cost_line, sync_estimate_approval).
THEOREM EstimatesAreApprovedAsSubmitted == Spec => []ApprovedAsSubmitted
<1>1. IInv => ApprovedAsSubmitted
  BY DEF IInv, EstimateInv
<1> QED
  BY <1>1, Inductive, PTL

\* An enquiry shown as ready for quotation has an approved current estimate
\* (revise_estimate, sync_estimate_approval, create_quotation).
THEOREM CompleteEnquiriesHaveAnApprovedEstimate == Spec => []CompleteMeansApproved
<1>1. IInv => CompleteMeansApproved
  BY DEF IInv
<1> QED
  BY <1>1, Inductive, PTL

\* What a standard quotation is about to offer was approved at that price,
\* although it was read without a lock (create_quotation).
THEOREM QuotationsOfferApprovedPrices == Spec => []QuotedWasApproved
<1>1. IInv => QuotedWasApproved
  BY DEF IInv
<1> QED
  BY <1>1, Inductive, PTL

\* A verdict finds the estimate it is about still waiting for it
\* (sync_estimate_approval, update_estimate, revise_estimate).
THEOREM VerdictsAreExpected == Spec => []VerdictIsExpected
<1>1. IInv => VerdictIsExpected
  <2> SUFFICES ASSUME IInv, NEW a \in Request, request[a].sync = "DUE"
               PROVE  /\ estimate[request[a].about].request = a
                      /\ estimate[request[a].about].status = "PENDING_APPROVAL"
                      /\ request[a].about = currentEstimate
    BY DEF VerdictIsExpected
  <2>1. Awaited(a) /\ request[a].about \in Estimate
    BY DEF IInv, EstimateInv, RequestsAreAwaited, TypeOK, RequestRow
  <2> QED
    BY <2>1 DEF Awaited, IInv, EstimateInv, OnlyCurrentIsLive
<1> QED
  BY <1>1, Inductive, PTL

-----------------------------------------------------------------------------
(* The requests                                                              *)
LEMMA RequestsStep ==
    TypeOK /\ [Next]_vars => [Verdicts!Next]_[a \in Request |-> request[a].outcome]
<1> DEFINE outcomes == [a \in Request |-> request[a].outcome]
<1> SUFFICES ASSUME TypeOK, [Next]_vars PROVE Verdicts!Next \/ UNCHANGED outcomes
  OBVIOUS
<1>0. request \in [Request -> RequestRow]
  BY DEF TypeOK
\* One row changes, and its outcome with it.
<1>1. ASSUME NEW a \in Request, NEW row, request' = [request EXCEPT ![a] = row]
      PROVE  outcomes' = [outcomes EXCEPT ![a] = row.outcome]
  BY <1>0, <1>1
<1>2. ASSUME NEW n \in Estimate, NEW a \in Request, SubmitEstimate(n, a) PROVE Verdicts!Next
  <2> DEFINE row == [outcome |-> "OPEN", about |-> n, price |-> estimate[n].price, sync |-> "NONE"]
  <2>1. row.outcome = "OPEN"
    OBVIOUS
  <2>2. outcomes[a] = "NONE" /\ request' = [request EXCEPT ![a] = row]
    BY <1>2 DEF SubmitEstimate
  <2> HIDE DEF row
  <2>3. outcomes' = [outcomes EXCEPT ![a] = "OPEN"]
    <3>1. PICK r : r = row /\ r.outcome = "OPEN"
      BY <2>1
    <3>2. outcomes' = [outcomes EXCEPT ![a] = r.outcome]
      BY <1>1, <2>2, <3>1
    <3> QED
      BY <3>1, <3>2
  <2> QED
    BY <2>2, <2>3 DEF Verdicts!Next, Verdicts!Ask
<1>3. ASSUME NEW a \in Request, NEW verdict \in Verdict, Decide(a, verdict) PROVE Verdicts!Next
  <2> DEFINE row == [request[a] EXCEPT !.outcome = verdict, !.sync = "DUE"]
  <2>1. row.outcome = verdict
    BY <1>0 DEF RequestRow
  <2>2. outcomes[a] = "OPEN" /\ request' = [request EXCEPT ![a] = row]
    BY <1>3 DEF Decide, ChangeRequest
  <2> HIDE DEF row
  <2>3. outcomes' = [outcomes EXCEPT ![a] = verdict]
    BY <1>1, <2>1, <2>2
  <2> QED
    BY <2>2, <2>3 DEF Verdicts!Next, Verdicts!Decide
<1>4. ASSUME NEW a \in Request, Withdraw(a) PROVE Verdicts!Next
  <2> DEFINE row == [request[a] EXCEPT !.outcome = "CANCELLED"]
  <2>1. row.outcome = "CANCELLED"
    BY <1>0 DEF RequestRow
  <2>2. outcomes[a] = "OPEN" /\ request' = [request EXCEPT ![a] = row]
    BY <1>4 DEF Withdraw, ChangeRequest
  <2> HIDE DEF row
  <2>3. outcomes' = [outcomes EXCEPT ![a] = "CANCELLED"]
    <3>1. PICK r : r = row /\ r.outcome = "CANCELLED"
      BY <2>1
    <3>2. outcomes' = [outcomes EXCEPT ![a] = r.outcome]
      BY <1>1, <2>2, <3>1
    <3> QED
      BY <3>1, <3>2
  <2> QED
    BY <2>2, <2>3 DEF Verdicts!Next, Verdicts!Withdraw
\* The callback keeps the outcome it has read.
<1>5. ASSUME NEW a \in Request, SyncEstimateApproval(a) PROVE UNCHANGED outcomes
  <2>1. request' = [request EXCEPT ![a] = [request[a] EXCEPT !.sync = "DONE"]]
    BY <1>5 DEF SyncEstimateApproval
  <2>2. [request[a] EXCEPT !.sync = "DONE"].outcome = request[a].outcome
    BY <1>0 DEF RequestRow
  <2> QED
    BY <1>1, <2>1, <2>2
<1>6. \/ UNCHANGED request
      \/ \E n \in Estimate, a \in Request : SubmitEstimate(n, a)
      \/ RequestStep
  <2>1. ASSUME EstimateStep
        PROVE  UNCHANGED request \/ \E n \in Estimate, a \in Request : SubmitEstimate(n, a)
    BY <2>1 DEF EstimateStep, CreateEstimate, UpdateEstimate, CreateCostLine, ChangeCostLine,
       ChangeEstimate, ReviseEstimate
  <2> QED
    BY <2>1, EstimatesAreTouchedBy DEF estimating
<1> QED
  BY <1>2, <1>3, <1>4, <1>5, <1>6 DEF RequestStep

\* The estimate asks for approval as ApprovalVerdict allows, and what it
\* believes of the engine is no more than that (submit_estimate,
\* sync_estimate_approval); EngineKeepsItsWord is the engine's side.
THEOREM EstimateRestsOnVerdicts == Spec => Verdicts!Spec
<1>1. Init => Verdicts!Init
  BY DEF Init, Verdicts!Init
<1> QED
  BY <1>1, RequestsStep, TypeCorrect, PTL DEF Spec, Verdicts!Spec

=============================================================================
