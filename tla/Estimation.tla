----------------------------- MODULE Estimation -----------------------------
(***************************************************************************)
(* One enquiry on its way from receipt to a quotation: its status, the     *)
(* revisions of its workshop review with their clarifications, and the     *)
(* revisions of its commercial estimate with their approval requests       *)
(* (backend/apps: enquiries, engineering_reviews, estimation, and          *)
(* create_quotation of quotations).                                        *)
(*                                                                         *)
(* Commands on reviews and estimates lock the row together with the        *)
(* enquiry, over foreign keys that are never null, so each is one step; so *)
(* is the callback after a verdict, which locks the estimate too.  The one *)
(* command that locks nothing is create_quotation: it reads the enquiry    *)
(* and the estimate before its transaction begins, and Clerk processes do  *)
(* that in separate steps.                                                 *)
(***************************************************************************)
EXTENDS Integers

CONSTANTS
    Clarification,  \* questions that may be asked in reviews
    Request,        \* approval requests that may be created for estimates
    NoRequest,      \* the approval_request of an estimate not submitted yet
    Clerk,          \* web workers creating quotations
    MaxReview,      \* bound: revisions of the review
    MaxEstimate,    \* bound: revisions of the estimate
    MaxPrice        \* price levels an edit of an estimate is told apart by

ASSUME BoundsAssumption ==
    MaxReview \in Nat \ {0} /\ MaxEstimate \in Nat \ {0} /\ MaxPrice \in Nat \ {0}

ASSUME NoRequestAssumption == NoRequest \notin Request

Review == 1..MaxReview
Estimate == 1..MaxEstimate
Nothing == 0   \* no current review or estimate

\* What an estimate says: no cost line at all, lines that add up to nothing, or
\* one of several positive prices.
NoLines == -1
Price == -1..MaxPrice

VARIABLES
    enquiry,          \* Enquiry.status
    review,           \* the EngineeringFeasibilityReview rows by revision_number
    currentReview,    \* the review with is_current
    clarification,    \* the EngineeringClarification rows
    gated,            \* whether an active workflow matches reviews
    estimate,         \* the CommercialEstimate rows by revision_number
    currentEstimate,  \* the estimate with is_current
    request,          \* the ApprovalRequest rows about estimates
    clerk,            \* what each clerk has read so far
    offer,            \* how far any quotation for the enquiry has got
    waived            \* history: reviews used when no workflow matched them

reviewing == <<review, currentReview, clarification, gated>>
estimating == <<estimate, currentEstimate, request>>
quoting == <<clerk, offer>>
vars == <<enquiry, reviewing, estimating, quoting, waived>>

Closed == {"WON", "LOST", "CANCELLED"}
EnquiryStatus ==
    {"DRAFT", "RECEIVED", "UNDER_REVIEW", "ENGINEERING_REVIEW", "ESTIMATION",
     "ESTIMATION_COMPLETE", "QUOTATION_PREPARATION", "QUOTATION_SENT",
     "NEGOTIATION"} \cup Closed

Verdict == {"APPROVED", "REJECTED", "RETURNED"}
Outcome == {"NONE", "OPEN", "CANCELLED"} \cup Verdict

\* approval: the one request there can be about a review; whether it was
\* rejected, returned or cancelled is never asked.
ReviewRow ==
    [status : {"NONE", "PENDING", "IN_REVIEW", "CLARIFICATION_REQUIRED", "FEASIBLE",
               "NOT_FEASIBLE", "SUPERSEDED"},
     result : {"NONE", "FEASIBLE", "NOT_FEASIBLE"},
     assigned : BOOLEAN,
     approval : {"NONE", "OPEN", "APPROVED", "REFUSED"}]

ClarificationRow ==
    [status : {"NONE", "OPEN", "RESPONDED", "CLOSED"}, about : Review]

\* basis: engineering_review; request: approval_request.
EstimateRow ==
    [status : {"NONE", "DRAFT", "IN_PREPARATION", "PENDING_APPROVAL", "APPROVED",
               "RETURNED_FOR_CHANGES", "REJECTED", "SUPERSEDED"},
     price : Price, basis : Review, request : Request \cup {NoRequest}]

\* price: the snapshot the request was submitted with; sync: progress of
\* sync_estimate_approval.
RequestRow ==
    [outcome : Outcome, about : Estimate, price : Price,
     sync : {"NONE", "DUE", "DONE"}]

\* complete: the enquiry was read as ESTIMATION_COMPLETE.
ClerkRow ==
    [at : {"IDLE", "ENQUIRY", "ESTIMATE"}, complete : BOOLEAN,
     estimate : Estimate, price : Price]

TypeOK ==
    /\ enquiry \in EnquiryStatus
    /\ review \in [Review -> ReviewRow]
    /\ currentReview \in Review \cup {Nothing}
    /\ clarification \in [Clarification -> ClarificationRow]
    /\ gated \in BOOLEAN
    /\ estimate \in [Estimate -> EstimateRow]
    /\ currentEstimate \in Estimate \cup {Nothing}
    /\ request \in [Request -> RequestRow]
    /\ clerk \in [Clerk -> ClerkRow]
    /\ offer \in {"NONE", "PREPARED", "SENT"}
    /\ waived \subseteq Review

NoReview == [status |-> "NONE", result |-> "NONE", assigned |-> FALSE, approval |-> "NONE"]
NewReview(assigned) ==
    [status |-> "PENDING", result |-> "NONE", assigned |-> assigned, approval |-> "NONE"]
NewEstimate(price, basis) ==
    [status |-> "DRAFT", price |-> price, basis |-> basis, request |-> NoRequest]
NoEstimate == [NewEstimate(NoLines, 1) EXCEPT !.status = "NONE"]
Idle == [at |-> "IDLE", complete |-> FALSE, estimate |-> 1, price |-> NoLines]

\* A new enquiry is a draft, typed in or converted from the website.
Init ==
    /\ enquiry = "DRAFT"
    /\ review = [n \in Review |-> NoReview]
    /\ currentReview = Nothing
    /\ clarification = [q \in Clarification |-> [status |-> "NONE", about |-> 1]]
    /\ gated \in BOOLEAN
    /\ estimate = [n \in Estimate |-> NoEstimate]
    /\ currentEstimate = Nothing
    /\ request = [a \in Request |->
         [outcome |-> "NONE", about |-> 1, price |-> NoLines, sync |-> "NONE"]]
    /\ clerk = [c \in Clerk |-> Idle]
    /\ offer = "NONE"
    /\ waived = {}

-----------------------------------------------------------------------------
(* The enquiry: the transitions staff can ask for *)

\* allowed_sources, for the targets that have an endpoint.
Sources(target) ==
    CASE target = "RECEIVED" -> {"DRAFT"}
      [] target = "UNDER_REVIEW" -> {"RECEIVED"}
      [] target = "ENGINEERING_REVIEW" -> {"RECEIVED", "UNDER_REVIEW"}
      [] target = "WON" -> {"QUOTATION_SENT", "NEGOTIATION"}
      [] target = "LOST" -> EnquiryStatus \ (Closed \cup {"DRAFT"})
      [] target = "CANCELLED" -> EnquiryStatus \ Closed

\* transition_enquiry
TransitionEnquiry(target) ==
    /\ enquiry \in Sources(target)
    /\ target # "ENGINEERING_REVIEW"
    /\ enquiry' = target
    /\ UNCHANGED <<reviewing, estimating, quoting, waived>>

\* transition_enquiry with create_review_for_enquiry: nothing leads back here,
\* so there is no review yet.
SendToEngineering ==
    /\ enquiry \in Sources("ENGINEERING_REVIEW")
    /\ currentReview = Nothing
    /\ enquiry' = "ENGINEERING_REVIEW"
    /\ review' = [review EXCEPT ![1] = NewReview(FALSE)]
    /\ currentReview' = 1
    /\ UNCHANGED <<clarification, gated, estimating, quoting, waived>>

-----------------------------------------------------------------------------
(* Workshop reviews and clarifications *)

Completed == {"FEASIBLE", "NOT_FEASIBLE", "SUPERSEDED"}

Unresolved(n) ==
    {q \in Clarification :
       clarification[q].about = n /\ clarification[q].status \in {"OPEN", "RESPONDED"}}

ChangeReview(n, row) ==
    /\ review' = [review EXCEPT ![n] = row]
    /\ UNCHANGED <<enquiry, currentReview, gated, estimating, quoting, waived>>

\* assign_review
AssignReview(n) ==
    /\ review[n].status \notin Completed \cup {"NONE"}
    /\ ~review[n].assigned
    /\ ChangeReview(n, [review[n] EXCEPT !.assigned = TRUE])
    /\ UNCHANGED clarification

\* start_review
StartReview(n) ==
    /\ review[n].status = "PENDING"
    /\ review[n].assigned
    /\ ChangeReview(n, [review[n] EXCEPT !.status = "IN_REVIEW"])
    /\ UNCHANGED clarification

\* request_clarification
RequestClarification(n, q) ==
    /\ review[n].status \in {"IN_REVIEW", "CLARIFICATION_REQUIRED"}
    /\ clarification[q].status = "NONE"
    /\ clarification' = [clarification EXCEPT ![q] = [status |-> "OPEN", about |-> n]]
    /\ ChangeReview(n, [review[n] EXCEPT !.status = "CLARIFICATION_REQUIRED"])

\* respond_to_clarification
RespondToClarification(q) ==
    /\ clarification[q].status = "OPEN"
    /\ clarification' = [clarification EXCEPT ![q].status = "RESPONDED"]
    /\ UNCHANGED <<enquiry, review, currentReview, gated, estimating, quoting, waived>>

\* close_clarification: the last one puts the review back to work, whatever
\* the review's status.
CloseClarification(q) ==
    LET n == clarification[q].about IN
    /\ clarification[q].status = "RESPONDED"
    /\ clarification' = [clarification EXCEPT ![q].status = "CLOSED"]
    /\ ChangeReview(n, IF Unresolved(n) \ {q} = {}
                       THEN [review[n] EXCEPT !.status = "IN_REVIEW"]
                       ELSE review[n])

\* What complete_review and mark_not_feasible ask for.
Completable(n) == review[n].status = "IN_REVIEW" /\ Unresolved(n) = {}

\* complete_review with _submit_configured_approval; both feasible results
\* count alike.
CompleteReview(n) ==
    /\ Completable(n)
    /\ ChangeReview(n, [review[n] EXCEPT
         !.status = "FEASIBLE", !.result = "FEASIBLE",
         !.approval = IF gated THEN "OPEN" ELSE "NONE"])
    /\ UNCHANGED clarification

\* mark_not_feasible
MarkNotFeasible(n) ==
    /\ Completable(n)
    /\ ChangeReview(n, [review[n] EXCEPT
         !.status = "NOT_FEASIBLE", !.result = "NOT_FEASIBLE"])
    /\ UNCHANGED clarification

\* reassess_review: the estimates made from the review are left alone.
ReassessReview(n) ==
    /\ n = currentReview
    /\ n < MaxReview
    /\ review[n].status \in {"FEASIBLE", "NOT_FEASIBLE"}
    /\ review' = [review EXCEPT ![n].status = "SUPERSEDED",
                                ![n + 1] = NewReview(review[n].assigned)]
    /\ currentReview' = n + 1
    /\ UNCHANGED <<enquiry, clarification, gated, estimating, quoting, waived>>

\* The engine's last word on a review; no callback follows, the request is
\* looked at when it matters.
DecideReview(n, outcome) ==
    /\ review[n].approval = "OPEN"
    /\ ChangeReview(n, [review[n] EXCEPT !.approval = outcome])
    /\ UNCHANGED clarification

\* activate_workflow_version: whether a workflow matches may change at any time.
ConfigureWorkflow ==
    /\ gated' = ~gated
    /\ UNCHANGED <<enquiry, review, currentReview, clarification, estimating, quoting, waived>>

\* Mutant: any request that was made is good enough.
ApprovalInHandEarly(n) == ~gated \/ review[n].approval \in {"OPEN", "APPROVED"}

\* approval_state
ApprovalInHand(n) == ~gated \/ review[n].approval = "APPROVED"

\* is_ready_for_estimation
ReadyForEstimation(n) ==
    /\ review[n].status = "FEASIBLE"
    /\ review[n].result = "FEASIBLE"
    /\ Unresolved(n) = {}
    /\ ApprovalInHand(n)

-----------------------------------------------------------------------------
(* Commercial estimates *)

\* create_estimate does not look at the enquiry's status.
CreateEstimate ==
    /\ currentEstimate = Nothing
    /\ currentReview # Nothing
    /\ ReadyForEstimation(currentReview)
    /\ estimate' = [estimate EXCEPT ![1] = NewEstimate(NoLines, currentReview)]
    /\ currentEstimate' = 1
    /\ enquiry' = "ESTIMATION"
    /\ waived' = IF gated THEN waived ELSE waived \cup {currentReview}
    /\ UNCHANGED <<reviewing, request, quoting>>

\* Mutant: an estimate under approval can still be corrected.
EditableUntilApproved ==
    {"DRAFT", "IN_PREPARATION", "PENDING_APPROVAL", "RETURNED_FOR_CHANGES"}

Editable == {"DRAFT", "IN_PREPARATION", "RETURNED_FOR_CHANGES"}

ChangeEstimate(n, row) ==
    /\ estimate[n].status \in Editable
    /\ estimate' = [estimate EXCEPT ![n] = row]
    /\ UNCHANGED <<enquiry, reviewing, currentEstimate, request, quoting, waived>>

\* update_estimate: without lines there is no price, whatever the method.
UpdateEstimate(n, price) ==
    /\ (price = NoLines) <=> (estimate[n].price = NoLines)
    /\ ChangeEstimate(n, [estimate[n] EXCEPT !.status = "IN_PREPARATION", !.price = price])

\* create_cost_line
CreateCostLine(n, price) ==
    /\ price # NoLines
    /\ ChangeEstimate(n, [estimate[n] EXCEPT !.status = "IN_PREPARATION", !.price = price])

\* update_cost_line, delete_cost_line: the status stays as it is.
ChangeCostLine(n, price) ==
    /\ estimate[n].price # NoLines
    /\ ChangeEstimate(n, [estimate[n] EXCEPT !.price = price])

\* submit_estimate with create_approval_request; without a workflow it fails.
SubmitEstimate(n, a) ==
    /\ estimate[n].status \in Editable
    /\ estimate[n].price > 0
    /\ request[a].outcome = "NONE"
    /\ estimate' = [estimate EXCEPT ![n].status = "PENDING_APPROVAL", ![n].request = a]
    /\ request' = [request EXCEPT ![a] =
         [outcome |-> "OPEN", about |-> n, price |-> estimate[n].price, sync |-> "NONE"]]
    /\ UNCHANGED <<enquiry, reviewing, currentEstimate, quoting, waived>>

Revisable == {"APPROVED", "REJECTED", "RETURNED_FOR_CHANGES"}

\* Mutant: the enquiry is left where it is.
ReviseQuietly(n) ==
    /\ n = currentEstimate
    /\ n < MaxEstimate
    /\ estimate[n].status \in Revisable
    /\ estimate' = [estimate EXCEPT
         ![n].status = "SUPERSEDED",
         ![n + 1] = NewEstimate(estimate[n].price, estimate[n].basis)]
    /\ currentEstimate' = n + 1
    /\ UNCHANGED <<enquiry, reviewing, request, quoting, waived>>

\* revise_estimate keeps the review of its predecessor, current or not.
ReviseEstimate(n) ==
    /\ n = currentEstimate
    /\ n < MaxEstimate
    /\ estimate[n].status \in Revisable
    /\ estimate' = [estimate EXCEPT
         ![n].status = "SUPERSEDED",
         ![n + 1] = NewEstimate(estimate[n].price, estimate[n].basis)]
    /\ currentEstimate' = n + 1
    /\ enquiry' = IF enquiry = "ESTIMATION_COMPLETE" THEN "ESTIMATION" ELSE enquiry
    /\ UNCHANGED <<reviewing, request, quoting, waived>>

ChangeRequest(a, row) ==
    /\ request' = [request EXCEPT ![a] = row]
    /\ UNCHANGED <<enquiry, reviewing, estimate, currentEstimate, quoting, waived>>

\* The approval engine decides a request once (ApprovalEngine!DecidedIsFinal).
Decide(a, verdict) ==
    /\ request[a].outcome = "OPEN"
    /\ ChangeRequest(a, [request[a] EXCEPT !.outcome = verdict, !.sync = "DUE"])

\* cancel_request of the engine: no subscriber handles its event.
Withdraw(a) ==
    /\ request[a].outcome = "OPEN"
    /\ ChangeRequest(a, [request[a] EXCEPT !.outcome = "CANCELLED"])

\* Mutant: the verdict is taken for a status.
StatusAfterVerbatim(verdict) == verdict

StatusAfter(verdict) ==
    CASE verdict = "APPROVED" -> "APPROVED"
      [] verdict = "REJECTED" -> "REJECTED"
      [] verdict = "RETURNED" -> "RETURNED_FOR_CHANGES"

\* sync_estimate_approval, under a lock; it ignores a request the estimate does
\* not name, and does not look at the enquiry's status.
SyncEstimateApproval(a) ==
    LET n == request[a].about  approved == request[a].outcome = "APPROVED" IN
    /\ request[a].sync = "DUE"
    /\ estimate[n].request = a
    /\ request' = [request EXCEPT ![a].sync = "DONE"]
    /\ estimate' = [estimate EXCEPT ![n].status = StatusAfter(request[a].outcome)]
    /\ enquiry' = IF approved /\ n = currentEstimate THEN "ESTIMATION_COMPLETE" ELSE enquiry
    /\ UNCHANGED <<reviewing, currentEstimate, quoting, waived>>

-----------------------------------------------------------------------------
(* Quotations for the enquiry *)

ChangeClerk(c, row) ==
    /\ clerk' = [clerk EXCEPT ![c] = row]
    /\ UNCHANGED <<enquiry, reviewing, estimating, offer, waived>>

\* create_quotation reads the enquiry,
ReadEnquiry(c) ==
    /\ clerk[c].at = "IDLE"
    /\ ChangeClerk(c, [Idle EXCEPT !.at = "ENQUIRY",
                                   !.complete = (enquiry = "ESTIMATION_COMPLETE")])

\* Mutant: the current estimate, whatever its status.
ReadAnyEstimate(c) ==
    /\ clerk[c].at = "ENQUIRY"
    /\ currentEstimate # Nothing
    /\ ChangeClerk(c, [clerk[c] EXCEPT !.at = "ESTIMATE", !.estimate = currentEstimate,
                                       !.price = estimate[currentEstimate].price])

\* then, on the standard path, the approved current estimate (_approved_estimate),
ReadEstimate(c) ==
    /\ clerk[c].at = "ENQUIRY"
    /\ currentEstimate # Nothing
    /\ estimate[currentEstimate].status = "APPROVED"
    /\ ChangeClerk(c, [clerk[c] EXCEPT !.at = "ESTIMATE", !.estimate = currentEstimate,
                                       !.price = estimate[currentEstimate].price])

\* and only then begins its transaction, in which it looks at nothing again; a
\* quick quotation is made without an estimate.
CreateQuotation(c) ==
    /\ clerk[c].at # "IDLE"
    /\ enquiry' = IF clerk[c].complete THEN "QUOTATION_PREPARATION" ELSE enquiry
    /\ offer' = IF offer = "NONE" THEN "PREPARED" ELSE offer
    /\ clerk' = [clerk EXCEPT ![c] = Idle]
    /\ UNCHANGED <<reviewing, estimating, waived>>

\* The command is refused or rolled back.
AbandonQuotation(c) ==
    /\ clerk[c].at # "IDLE"
    /\ ChangeClerk(c, Idle)

\* What record_communication, record_negotiation and mark_ready_for_sales_order
\* make of the enquiry, whatever its status; when they may run is the matter of
\* Quotation, and here only that a quotation exists and was sent before.
AdvanceEnquiry(status) ==
    /\ \/ status = "QUOTATION_SENT" /\ offer # "NONE"
       \/ status \in {"NEGOTIATION", "WON"} /\ offer = "SENT"
    /\ enquiry' = status
    /\ offer' = "SENT"
    /\ UNCHANGED <<reviewing, estimating, clerk, waived>>

-----------------------------------------------------------------------------

ReviewStep ==
    \/ \E n \in Review :
         \/ AssignReview(n)
         \/ StartReview(n)
         \/ \E q \in Clarification : RequestClarification(n, q)
         \/ CompleteReview(n)
         \/ MarkNotFeasible(n)
         \/ ReassessReview(n)
         \/ \E outcome \in {"APPROVED", "REFUSED"} : DecideReview(n, outcome)
    \/ \E q \in Clarification : RespondToClarification(q) \/ CloseClarification(q)
    \/ ConfigureWorkflow

EstimateStep ==
    \/ CreateEstimate
    \/ \E n \in Estimate :
         \/ \E price \in Price :
              \/ UpdateEstimate(n, price)
              \/ CreateCostLine(n, price)
              \/ ChangeCostLine(n, price)
         \/ \E a \in Request : SubmitEstimate(n, a)
         \/ ReviseEstimate(n)

RequestStep ==
    \E a \in Request :
        \/ \E verdict \in Verdict : Decide(a, verdict)
        \/ Withdraw(a)
        \/ SyncEstimateApproval(a)

QuotationStep ==
    \/ \E c \in Clerk :
         \/ ReadEnquiry(c)
         \/ ReadEstimate(c)
         \/ CreateQuotation(c)
         \/ AbandonQuotation(c)
    \/ \E status \in {"QUOTATION_SENT", "NEGOTIATION", "WON"} : AdvanceEnquiry(status)

Next ==
    \/ \E target \in {"RECEIVED", "UNDER_REVIEW"} \cup Closed : TransitionEnquiry(target)
    \/ SendToEngineering
    \/ ReviewStep
    \/ EstimateStep
    \/ RequestStep
    \/ QuotationStep

Spec == Init /\ [][Next]_vars

\* The requests as the engine keeps them: the estimate asks, the engine decides.
Verdicts == INSTANCE ApprovalVerdict
    WITH outcome <- [a \in Request |-> request[a].outcome]

-----------------------------------------------------------------------------
(* Properties *)

\* A review is never over, or replaced, while a question in it waits for an
\* answer or for its closure, in whatever order questions are asked, answered
\* and closed (request_clarification, complete_review, mark_not_feasible).
CompletedHasNoOpenQuestion ==
    \A n \in Review : review[n].status \in Completed =>
        \A q \in Clarification :
            clarification[q].about = n => clarification[q].status \in {"NONE", "CLOSED"}

\* A completed review never goes back to work and keeps its result, although
\* close_clarification reopens a review without asking for its status
\* (close_clarification, request_clarification, reassess_review).
CompletedIsFinal ==
    [][\A n \in Review : review[n].status \in Completed =>
         /\ review'[n].status \in {review[n].status, "SUPERSEDED"}
         /\ review'[n].result = review[n].result]_vars

\* Every estimate rests on a review that found the work feasible, was approved
\* if a workflow asked for it when the first estimate was made, and is not in
\* question, however often review and estimate were revised since
\* (create_estimate, revise_estimate, reassess_review).
EstimateRestsOnFeasibleReview ==
    \A n \in Estimate : estimate[n].status # "NONE" =>
        LET basis == estimate[n].basis IN
        /\ review[basis].result = "FEASIBLE"
        /\ Unresolved(basis) = {}
        /\ review[basis].approval = "APPROVED" \/ basis \in waived

\* An approved estimate says what its approvers were shown: it names a request
\* that was approved, and its price is the one of that request's snapshot
\* (submit_estimate, update_cost_line, sync_estimate_approval).
ApprovedAsSubmitted ==
    \A n \in Estimate : estimate[n].status = "APPROVED" =>
        /\ estimate[n].request # NoRequest
        /\ LET row == request[estimate[n].request] IN
             row.outcome = "APPROVED" /\ row.about = n /\ row.price = estimate[n].price

\* An enquiry that is shown as ready for quotation has an approved current
\* estimate (revise_estimate, sync_estimate_approval, create_quotation).
CompleteMeansApproved ==
    enquiry = "ESTIMATION_COMPLETE" =>
        /\ currentEstimate # Nothing
        /\ estimate[currentEstimate].status = "APPROVED"

\* Although create_quotation locks nothing and the estimate may be superseded
\* before it commits, what a standard quotation is about to offer was approved
\* at that price (create_quotation, revise_estimate, update_cost_line).
QuotedWasApproved ==
    \A c \in Clerk : clerk[c].at = "ESTIMATE" =>
        \E a \in Request :
            /\ request[a].outcome = "APPROVED"
            /\ request[a].about = clerk[c].estimate
            /\ request[a].price = clerk[c].price

\* A verdict that is on its way always finds the estimate it was asked about
\* still waiting for it, and not replaced, edited or submitted again
\* (sync_estimate_approval, update_estimate, revise_estimate).
VerdictIsExpected ==
    \A a \in Request : request[a].sync = "DUE" =>
        /\ estimate[request[a].about].request = a
        /\ estimate[request[a].about].status = "PENDING_APPROVAL"
        /\ request[a].about = currentEstimate

=============================================================================
