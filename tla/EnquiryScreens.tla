--------------------------- MODULE EnquiryScreens ---------------------------
(* Enquiries and Workshop Reviews in the browser, beside what the server     *)
(* accepts.                                                                   *)
(*                                                                            *)
(* An enquiry is seen by its status, the ones after the Workshop taken        *)
(* together as "later" and WON, LOST and CANCELLED as "closed".               *)
EXTENDS CrmScreens

OpenEnquiry == {"DRAFT", "RECEIVED", "UNDER_REVIEW", "ENGINEERING_REVIEW", "later"}

EnquiryQueries ==
    "enquiries" :> Query("enquiries", {"enquiry"}) @@
    "enquiry-workspace" :> Query("enquiry-workspace", {"enquiry", "requirement", "item",
                                                       "activity", "document", "review"}) @@
    "enquiry-quotations" :> Query("enquiry-quotations", {"quotation"}) @@
    "enquiry-customer" :> Query("customer", {"customer"}) @@
    "enquiry-options" :> Query("enquiry-options", {"employee", "currency", "unit"})

\* Creates and edits; the owner and the status have commands of their own.
EnquiryForm(command, offered, permission, refreshes) ==
    command :> Offer(IF offered = {} THEN "" ELSE "enquiry-workspace", offered,
                     {permission, "customer", "subject", "date", "owner"}, refreshes)

RequirementForm ==
    "saveRequirement" :> Offer("enquiry-workspace", OpenEnquiry,
                               {"enquiry.enquiry.edit", "title", "description"},
                               {"enquiry-workspace"})

ItemForm ==
    "saveItem" :> Offer("enquiry-workspace", OpenEnquiry,
                        {"enquiry.enquiry.edit", "description", "quantity", "unit"},
                        {"enquiry-workspace"})

\* The register with its form and its import; a new enquiry opens its own page.
EnquiriesPage ==
    Screen("enquiry", {"enquiries", "enquiry-options"},
           EnquiryForm("createEnquiry", {}, "enquiry.enquiry.create", {"enquiries"}) @@
           SpreadsheetImport("importEnquiries", "enquiry.enquiry.create", "enquiries"))

\* The one next step of the enquiry, not disabled while it is pending.
EnquiryNextAction ==
    LET Step(offered, permission) ==
            Again(Offer("enquiry-workspace", offered, {permission},
                        {"enquiry-workspace", "enquiries"}))
    IN  "receive" :> Step({"DRAFT"}, "enquiry.enquiry.edit") @@
        "startReview" :> Step({"RECEIVED"}, "enquiry.enquiry.edit") @@
        "sendToEngineering" :> Step({"RECEIVED", "UNDER_REVIEW"},
                                    "enquiry.enquiry.submit_engineering")

\* Lost or cancelled, with a reason; offered until the enquiry is closed.
EnquiryCloseDialog ==
    LET Close(permission) ==
            Offer("enquiry-workspace", OpenEnquiry, {permission, "reason"},
                  {"enquiry-workspace", "enquiries"})
    IN  "markLost" :> Close("enquiry.enquiry.mark_lost") @@
        "cancelEnquiry" :> Close("enquiry.enquiry.cancel")

\* The side panel: edit, requirement, item line, activity, reassignment.
EnquiryPanel ==
    EnquiryForm("editEnquiry", OpenEnquiry, "enquiry.enquiry.edit", {"enquiries", "enquiry-workspace"}) @@
    RequirementForm @@ ItemForm @@ ActivityForm @@
    "assignEnquiry" :> Offer("enquiry-workspace", OpenEnquiry, {"enquiry.enquiry.assign", "employee"},
                             {"enquiry-workspace", "enquiries"})

EnquiryPage ==
    Screen("enquiry", {"enquiry-workspace", "enquiry-quotations", "enquiry-customer",
                       "enquiry-options"},
           EnquiryNextAction @@ EnquiryCloseDialog @@ EnquiryPanel)

-------------------------------------------------------------------------------
\* transition_enquiry: the sources each status may be reached from.
EnquiryStatusServer ==
    LET Move(requires, from, to) ==
            Command(requires, [s \in from |-> {to}], {"enquiry"}, {"enquiry"})
    IN  "receive" :> Move({"enquiry.enquiry.edit"}, {"DRAFT"}, "RECEIVED") @@
        "startReview" :> Move({"enquiry.enquiry.edit"}, {"RECEIVED"}, "UNDER_REVIEW") @@
        "sendToEngineering" :> Move({"enquiry.enquiry.submit_engineering"},
                                    {"RECEIVED", "UNDER_REVIEW"}, "ENGINEERING_REVIEW") @@
        "markLost" :> Move({"enquiry.enquiry.mark_lost", "reason"}, OpenEnquiry \ {"DRAFT"}, "closed") @@
        "cancelEnquiry" :> Move({"enquiry.enquiry.cancel", "reason"}, OpenEnquiry, "closed")

\* A closed enquiry is not edited, but it may be reassigned; edits are audited
\* and published to nobody.  Whoever owns an enquiry must have a login, and a
\* new one an open customer: the lists offer others as well.
EnquiryServer ==
    LET Edit(inputs, changes) ==
            Command({"enquiry.enquiry.edit"} \cup inputs, [s \in OpenEnquiry |-> {s}], changes, {})
    IN  "createEnquiry" :> Anywhere({"enquiry.enquiry.create", "customer", "subject", "date", "owner",
                                     "open customer", "login"}, {"enquiry"}, {"enquiry"}) @@
        "importEnquiries" :> Anywhere({"enquiry.enquiry.create", "file"}, {"enquiry"}, {"enquiry"}) @@
        "editEnquiry" :> Edit({"subject", "date", "login"}, {"enquiry"}) @@
        "saveRequirement" :> Edit({"title", "description"}, {"requirement"}) @@
        "saveItem" :> Edit({"description", "quantity", "unit"}, {"item"}) @@
        "assignEnquiry" :> Anywhere({"enquiry.enquiry.assign", "employee", "login"}, {"enquiry"}, {"enquiry"})

\* Others take it further; estimation and the quotation move it without a
\* command of this page.
EnquiryFamily ==
    [start |-> {"DRAFT", "RECEIVED", "ENGINEERING_REVIEW"},
     drift |-> {Drift("DRAFT" :> {"RECEIVED"} @@ "RECEIVED" :> {"UNDER_REVIEW"} @@
                      "UNDER_REVIEW" :> {"ENGINEERING_REVIEW"} @@
                      "ENGINEERING_REVIEW" :> {"later", "closed"} @@ "later" :> {"closed"},
                      {"enquiry"}, {"enquiry"}),
                Drift([s \in OpenEnquiry |-> {s}], {"enquiry", "requirement", "item"}, {})}]

-------------------------------------------------------------------------------
(* A Workshop Review: "unassigned" or "assigned" (pending), "blank" or        *)
(* "assessed" (in review, without or with the conclusion), "asking me" or     *)
(* "asking other" (its newest question waits for this employee, or another),  *)
(* "answered", "decided" or "superseded".                                     *)
Active == {"blank", "assessed", "asking me", "asking other", "answered"}

EngineeringQueries ==
    "engineering-reviews" :> Query("engineering-reviews", {"review", "clarification"}) @@
    "engineering-workspace" :> Query("engineering-workspace", {"review", "clarification",
                                                               "enquiry", "document"}) @@
    "engineering-revisions" :> Query("engineering-revisions", {"review", "clarification"}) @@
    "engineering-options" :> Query("engineering-options", {"employee"})

ReviewForm(offered, asks) ==
    Offer("engineering-workspace", offered, asks, {"engineering-workspace", "engineering-reviews"})

\* Shown in place while the review is active; the page refreshes what it shows.
EngineeringAssessmentForm ==
    "saveAssessment" :> Offer("engineering-workspace", Active, {"engineering.feasibility.edit"},
                              {"engineering-workspace", "engineering-reviews",
                               "engineering-revisions"})

AssignEngineerForm ==
    "assignEngineer" :> ReviewForm({"unassigned", "assigned"} \cup Active,
                                   {"engineering.feasibility.assign", "engineer"})

ClarificationForm ==
    "requestClarification" :> ReviewForm(Active,
        {"engineering.feasibility.request_clarification", "subject", "question", "recipient"})

\* Shown to whoever may answer questions, whomever this one was asked.
ClarificationResponseForm ==
    "respond" :> Offer("engineering-workspace", {"asking me", "asking other"},
                       {"engineering.feasibility.respond_clarification", "response"},
                       {"engineering-workspace"})

\* The verdict asks for a comment; whether the assessment has its conclusion is
\* left to the server.
ReviewDecisionForm ==
    LET Decide(permission) == ReviewForm({"blank", "assessed"}, {permission, "comment"})
    IN  "completeReview" :> Decide("engineering.feasibility.complete") @@
        "markNotFeasible" :> Decide("engineering.feasibility.mark_not_feasible")

\* The queue and its five counts share the first part of their key.
EngineeringPage == Screen("engineering", {"engineering-reviews"}, <<>>)

\* The page's own commands.  Reassessing opens the new revision's page.
EngineeringReviewActions ==
    LET refresh == {"engineering-workspace", "engineering-reviews", "engineering-revisions"}
    IN  "startReviewing" :> Offer("engineering-workspace", {"assigned"},
                                  {"engineering.feasibility.start"}, refresh) @@
        "closeClarification" :> Again(Offer("engineering-workspace", {"answered"},
                                            {"engineering.feasibility.edit"}, refresh)) @@
        "reassess" :> Opening(Offer("engineering-workspace", {"decided"},
                                    {"engineering.feasibility.reassess", "reason"}, refresh),
                              "other revision")

EngineeringReviewPage ==
    Screen("engineering", {"engineering-workspace", "engineering-revisions", "engineering-options"},
           EngineeringReviewActions @@ EngineeringAssessmentForm @@ AssignEngineerForm @@
           ClarificationForm @@ ClarificationResponseForm @@ ReviewDecisionForm)

-------------------------------------------------------------------------------
\* Closing a question may put the review back in review, and publishes only
\* that the question was closed.  Engineers and recipients must have a login;
\* where a workflow matches, completing takes the permission for its request,
\* and that no other workflow does.
EngineeringServer ==
    LET review == {"engineering_feasibility_review"}
        On(permission, asks, moves) ==
            Command({permission} \cup asks, moves, {"review"}, review)
        Question(permission, asks, moves, announces) ==
            Command({permission} \cup asks, moves,
                    {"clarification", "review"}, {"engineering_clarification"} \cup announces)
    IN  "assignEngineer" :> On("engineering.feasibility.assign", {"engineer", "login"},
                               [s \in {"unassigned", "assigned"} \cup Active |->
                                   {IF s = "unassigned" THEN "assigned" ELSE s}]) @@
        "startReviewing" :> On("engineering.feasibility.start", {}, "assigned" :> {"blank"}) @@
        "saveAssessment" :> On("engineering.feasibility.edit", {}, [s \in Active |->
                                   IF s \in {"blank", "assessed"} THEN {"blank", "assessed"} ELSE {s}]) @@
        "requestClarification" :> Question("engineering.feasibility.request_clarification", {"subject", "question", "recipient", "login"},
                                           [s \in Active |-> {"asking me", "asking other"}], review) @@
        "respond" :> Question("engineering.feasibility.respond_clarification", {"response"}, "asking me" :> {"answered"}, {}) @@
        "closeClarification" :> Question("engineering.feasibility.edit", {}, "answered" :> {"blank", "assessed", "asking other"}, {}) @@
        "completeReview" :> On("engineering.feasibility.complete", {"comment", "approvals.request.submit", "one effective workflow"},
                                "assessed" :> {"decided"}) @@
        "markNotFeasible" :> On("engineering.feasibility.mark_not_feasible", {"comment"}, "assessed" :> {"decided"}) @@
        "reassess" :> On("engineering.feasibility.reassess", {"reason"}, "decided" :> {"superseded"})

EngineeringFamily ==
    [start |-> {"unassigned", "assigned", "blank", "asking me", "asking other", "answered", "decided"},
     drift |-> {Drift(EngineeringServer[c].moves, EngineeringServer[c].changes,
                      EngineeringServer[c].announces) :
                    c \in {"startReviewing", "saveAssessment", "requestClarification",
                           "completeReview", "reassess"}}
               \cup {Drift("asking other" :> {"answered"}, {"clarification"},
                           {"engineering_clarification"})}]
=============================================================================
