-------------------------- MODULE CommercialScreens --------------------------
(* Estimates, quotations, customer purchase orders, sales orders and projects *)
(* in the browser, beside what the server accepts.                            *)
EXTENDS ScreenTables

-------------------------------------------------------------------------------
(* An estimate being prepared is "empty", "unpriced" (a line, but no positive *)
(* cost or price) or "priced", and so again once it was returned; then        *)
(* "submitted", "settled" (approved or rejected) and "superseded".            *)
Lined == {"unpriced", "priced"}
Returned == {"returned empty", "returned unpriced", "returned priced"}
Preparing == {"empty"} \cup Lined \cup Returned
WithLines == Preparing \ {"empty", "returned empty"}

EstimateQueries ==
    "commercial-estimates" :> Query("commercial-estimates", {"estimate"}) @@
    "commercial-estimate-workspace" :> Query("commercial-estimate-workspace", {"estimate", "cost line"}) @@
    "commercial-estimate-revisions" :> Query("commercial-estimate-revisions", {"estimate"}) @@
    "estimate-ready-engineering" :> Query("estimate-ready-engineering", {"review"})

EstimatesPage ==
    Screen("estimate", {"commercial-estimates", "estimate-ready-engineering"},
           "createEstimate" :> Opening(Offer("", {}, {"estimation.estimate.create", "enquiry"},
                                             {"commercial-estimates"}), "other estimate"))

refreshEstimate ==
    {"commercial-estimate-workspace", "commercial-estimate-revisions", "commercial-estimates"}

\* The one form that asks for no permission.
PricingPanel ==
    "savePricing" :> Offer("commercial-estimate-workspace", Preparing, {}, refreshEstimate)

\* Removing a line asks nothing twice and is not disabled while it is pending.
\* A revision opens the page of the new one.
EstimateActions ==
    LET On(offered, asks) ==
            Offer("commercial-estimate-workspace", offered, asks, refreshEstimate)
    IN  "addLine" :> On(Preparing, {"estimation.estimate.edit", "description", "quantity"}) @@
        "changeLine" :> On(WithLines, {"estimation.estimate.edit", "description", "quantity"}) @@
        "removeLine" :> Again(On(WithLines, {"estimation.estimate.edit"})) @@
        "submitEstimate" :> On(WithLines, {"estimation.estimate.submit"}) @@
        "reviseEstimate" :>
            Opening(Offer("commercial-estimate-workspace", Returned \cup {"settled"},
                          {"estimation.estimate.revise", "reason"}, {"commercial-estimates"}),
                    "other estimate")

EstimatePage ==
    Screen("estimate", {"commercial-estimate-workspace", "commercial-estimate-revisions"},
           PricingPanel @@ EstimateActions)

\* Pricing and a new line make a returned estimate a draft again; changing and
\* removing lines do not.
EstimateServer ==
    LET On(requires, moves) ==
            Command(requires, moves, {"estimate", "cost line"}, {"commercial_estimate"})
        edit == {"estimation.estimate.edit"}
        Kept(s) == IF s \in Returned THEN Returned ELSE {"empty"} \cup Lined
        Empty(s) == s \in {"empty", "returned empty"}
    IN  "createEstimate" :> Anywhere({"estimation.estimate.create", "enquiry", "ready enquiry",
                                      "active currency"}, {"estimate"}, {"commercial_estimate"}) @@
        "savePricing" :> On(edit, [s \in Preparing |-> IF Empty(s) THEN {"empty"} ELSE Lined]) @@
        "addLine" :> On(edit \cup {"description", "quantity"}, [s \in Preparing |-> Lined]) @@
        "changeLine" :> On(edit \cup {"description", "quantity"},
                           [s \in WithLines |-> Kept(s) \cap WithLines]) @@
        "removeLine" :> Ending(On(edit, [s \in WithLines |-> Kept(s)])) @@
        "submitEstimate" :> On({"estimation.estimate.submit", "approvals.request.submit",
                                "one effective workflow"},
                               [s \in {"priced", "returned priced"} |-> {"submitted"}]) @@
        "reviseEstimate" :> On({"estimation.estimate.revise", "reason"},
                               [s \in Returned \cup {"settled"} |-> {"superseded"}])

EstimateFamily ==
    [start |-> {"empty", "priced", "returned priced", "submitted"},
     drift |-> {Drift(EstimateServer[c].moves, EstimateServer[c].changes, EstimateServer[c].announces) :
                    c \in {"savePricing", "removeLine", "submitEstimate", "reviseEstimate"}}
               \cup {Drift("submitted" :> {"settled", "returned priced"}, {"estimate"},
                           {"commercial_estimate"})}]

-------------------------------------------------------------------------------
(* A quotation: "draft" (its revision can be edited), "in approval", "ready"  *)
(* (approved, or ready to send), "sent" (or under negotiation), "accepted",   *)
(* "for order", "ordered" or "rejected".                                      *)
Quoted == {"draft", "in approval", "ready", "sent", "accepted", "for order", "ordered", "rejected"}

QuotationQueries ==
    "quotations" :> Query("quotations", {"quotation"}) @@
    "quotation" :> Query("quotation", {"quotation", "communication", "generated document"}) @@
    "quotation-comparison" :> Query("quotation-comparison", {"revision content"}) @@
    "quotation-sales-order" :> Query("quotation-sales-order", {"sales order"}) @@
    "quotation-workflows" :> Query("quotation-workflows", {"workflow"}) @@
    "quotation-templates" :> Query("quotation-templates", {"template"})

\* The approved estimate is the way in; the quick path is for those who may,
\* while the owner leaves it enabled.
QuotationsPage ==
    LET Create(asks) == Opening(Offer("", {}, {"crm.quotation.create"} \cup asks, {"quotations"}),
                                "other quotation")
    IN  Screen("quotation", {"quotations"},
               "createQuotation" :> Create({"estimate"}) @@
               "createQuickQuotation" :> Create({"crm.quotation.quick_create", "quick path",
                                                 "customer", "quick reason", "description"}))

refreshQuotation == {"quotation", "quotation-comparison", "quotations"}

\* Whoever sees a draft may type in it; the save tells the server which version
\* he started from.
QuotationBuilder ==
    "saveQuotation" :> Offer("quotation", {"draft"}, {"described lines"}, refreshQuotation)

\* One mutation for every action.  The two buttons without a dialog are not
\* disabled while it is pending, and a communication is offered at any time.
\* Finalizing asks for approval when a workflow is chosen in its dialog.
QuotationActions ==
    LET On(offered, asks) == Offer("quotation", offered, asks, refreshQuotation)
    IN  "finalize" :> On({"draft"}, {"crm.quotation.finalize"}) @@
        "finalizeWithWorkflow" :> On({"draft"}, {"crm.quotation.finalize", "workflow"}) @@
        "share" :> On(Quoted, {"crm.quotation.send", "summary"}) @@
        "logInbound" :> On(Quoted, {"crm.quotation.send", "summary"}) @@
        "negotiate" :> On({"sent"}, {"crm.quotation.negotiate", "summary"}) @@
        "confirm" :> On({"sent"}, {"crm.quotation.confirm"}) @@
        "markReady" :> Again(On({"accepted"}, {"crm.quotation.ready_for_sales_order"})) @@
        "generate" :> On(Quoted, {"crm.quotation.generate_document", "template"}) @@
        "reviseQuotation" :> Again(On(Quoted \ {"draft"}, {"crm.quotation.change"}))

\* Offered until another query has found the order there is.
CreateSalesOrder ==
    "createOrder" :> Opening(Offer("quotation", {"for order", "ordered"},
                                   {"sales.sales_order.create"}, {"sales-orders"}), "other quotation")

QuotationPage ==
    Screen("quotation", {"quotation", "quotation-comparison", "quotation-sales-order",
                         "quotation-workflows", "quotation-templates"},
           QuotationBuilder @@ QuotationActions @@ CreateSalesOrder)

\* With a workflow, finalizing takes the permission to submit a request as well,
\* and a workflow that is effective and whose conditions the quotation meets; a
\* generated document is uploaded under its user's own permission.
QuotationServer ==
    LET On(permission, asks, moves, changes) ==
            Command({permission} \cup asks, moves, {"quotation"} \cup changes, {"quotation"})
        sent == [s \in {"sent", "accepted", "for order", "ordered"} |-> {s}]
        Finalized(to) == [s \in {"draft", "in approval", "ready"} |-> {to}]
    IN  "createQuotation" :> Anywhere({"crm.quotation.create", "estimate"}, {"quotation"}, {"quotation"}) @@
        "createQuickQuotation" :> Anywhere({"crm.quotation.create", "crm.quotation.quick_create",
                                            "quick path", "customer", "quick reason", "description"},
                                           {"quotation"}, {"quotation"}) @@
        "saveQuotation" :> On("crm.quotation.change", {"described lines"}, "draft" :> {"draft"}, {"revision content"}) @@
        "finalize" :> On("crm.quotation.finalize", {}, Finalized("ready"), {}) @@
        "finalizeWithWorkflow" :> On("crm.quotation.finalize", {"workflow", "approvals.request.submit", "effective workflow"},
                                     Finalized("in approval"), {}) @@
        "share" :> On("crm.quotation.send", {"summary"}, "ready" :> {"sent"} @@ sent, {"communication"}) @@
        "logInbound" :> On("crm.quotation.send", {"summary"}, [s \in Quoted |-> {s}], {"communication"}) @@
        "negotiate" :> On("crm.quotation.negotiate", {"summary"}, "sent" :> {"sent"}, {}) @@
        "confirm" :> On("crm.quotation.confirm", {}, [s \in {"sent", "accepted"} |-> {"accepted"}], {}) @@
        "markReady" :> On("crm.quotation.ready_for_sales_order", {},
                          [s \in {"accepted", "for order"} |-> {"for order"}] @@ "ordered" :> {"ordered"}, {}) @@
        "generate" :> Anywhere({"crm.quotation.generate_document", "template", "sound template",
                                "documents.document.upload"},
                               {"generated document"}, {"document"}) @@
        "reviseQuotation" :> On("crm.quotation.change", {}, [s \in Quoted |-> {"draft"}], {"revision content"}) @@
        "createOrder" :> Command({"sales.sales_order.create"}, "for order" :> {"ordered"} @@ "ordered" :> {},
                                 {"sales order"}, {"sales_order"})

\* What the approvers decide reaches the quotation with an event of the request,
\* none of the quotation.
QuotationFamily ==
    [start |-> {"draft", "in approval", "sent", "for order"},
     drift |-> {Drift(QuotationServer[c].moves, QuotationServer[c].changes, QuotationServer[c].announces) :
                    c \in {"saveQuotation", "finalize", "finalizeWithWorkflow", "share", "confirm",
                           "markReady", "reviseQuotation", "createOrder"}}
               \cup {Drift("in approval" :> {"ready", "draft", "rejected"}, {"quotation"},
                           {"approval_request"})}]
==============================================================================
