---------------------------- MODULE OrderScreens ----------------------------
(* Customer purchase orders, sales orders and projects in the browser, beside *)
(* what the server accepts.                                                   *)
EXTENDS ScreenTables

(* A purchase order is "linked" to a quotation or "unlinked", for good.       *)
CustomerPoQueries ==
    "customer-pos" :> Query("customer-pos", {"customer po"}) @@
    "customer-po-options" :> Query("customer-po-customers", {"customer", "quotation", "currency"})

\* The comparison is offered in a dialog that shows the row it was opened with.
CustomerPOsPage ==
    Screen("customer po", {"customer-pos", "customer-po-options"},
           "recordPo" :> Offer("", {}, {"sales.customer_po.create", "customer", "number", "date"},
                               {"customer-pos"}) @@
           "comparePo" :> Offer("the row opened", {"linked"}, {"sales.customer_po.review_variance"},
                                {"customer-pos"}))

\* The form lists every quotation and currency, the server takes the customer's.
CustomerPoServer ==
    "recordPo" :> Anywhere({"sales.customer_po.create", "customer", "number", "date",
                            "the customer's quotation and currency"},
                           {"customer po"}, {"customer_purchase_order"}) @@
    "comparePo" :> Command({"sales.customer_po.review_variance"}, "linked" :> {"linked"},
                           {"customer po"}, {"customer_purchase_order"})

CustomerPoFamily ==
    [start |-> {"linked", "unlinked"},
     drift |-> {Drift([s \in {"linked", "unlinked"} |-> {s}], {"customer po"},
                      {"customer_purchase_order"})}]

-------------------------------------------------------------------------------
(* A sales order: "bare" (a draft, with no purchase order and none pending),  *)
(* "draft", "returned" (its revision was), "pending", "approved", "differing" *)
(* (approved, its purchase order differs), "released", "in project" (released *)
(* and its project made), "cancelled", or held: an approved or a released one *)
(* without project, an approved amendment or a release with one.              *)
Held == {"held approved", "held released", "held amended", "held in project"}
Ordered == {"bare", "draft", "returned", "pending", "approved", "differing", "released",
            "in project", "cancelled"} \cup Held

OrderQueries ==
    "sales-orders" :> Query("sales-orders", {"sales order"}) @@
    "sales-order" :> Query("sales-order", {"sales order"}) @@
    "sales-order-comparison" :> Query("sales-order-comparison", {"order content"}) @@
    "sales-order-pos" :> Query("sales-order-pos", {"customer po"}) @@
    "sales-order-options" :> Query("sales-order-customers", {"customer", "quotation", "currency"})

\* The dialog is open to whoever may create orders one way or the other; only
\* the direct way is then closed to those who may not.
SalesOrdersPage ==
    LET Create(asks) == Opening(Offer("", {}, asks, {"sales-orders"}), "other order")
    IN  Screen("sales order", {"sales-orders", "sales-order-options"},
               "orderQuotation" :> Create({"quotation"}) @@
               "orderDirectly" :> Create({"sales.sales_order.direct_create", "customer", "currency",
                                          "requirement", "description", "direct reason"}))

refreshOrder == {"sales-order", "sales-orders"}

\* Only a draft order with a draft revision is edited; whether its lines are
\* described is left to the server.
SalesOrderDraft ==
    "saveOrder" :> Offer("sales-order", {"bare", "draft"}, {"sales.sales_order.edit"}, refreshOrder)

\* One mutation for every action.  Whether a project exists decides before the
\* order is seen to be on hold, and a release has made the project the page
\* would offer to make.
SalesOrderActions ==
    LET On(offered, asks) == Offer("sales-order", offered, asks, refreshOrder)
    IN  "submitOrder" :> On({"bare", "draft"}, {"sales.sales_order.submit"}) @@
        "release" :> On({"approved", "differing"}, {"sales.sales_order.release"}) @@
        "resumeOrder" :> Again(On({"held approved", "held released"}, {"sales.sales_order.resume"})) @@
        "linkPo" :> On(Ordered, {"sales.customer_po.link_to_order", "purchase order"}) @@
        "amend" :> On({"released", "in project"}, {"sales.sales_order.revise", "reason"}) @@
        "holdOrder" :> On(Ordered \ (Held \cup {"cancelled"}), {"sales.sales_order.hold", "reason"}) @@
        "cancelOrder" :> On(Ordered \ {"cancelled"}, {"sales.sales_order.cancel", "reason"})

SalesOrderPage ==
    Screen("sales order", {"sales-order", "sales-order-comparison", "sales-order-pos"},
           SalesOrderDraft @@ SalesOrderActions)

\* Releasing and amending look at the revision alone; every save of the order
\* checks that one without purchase order is a draft.  Where the order wants a
\* project, releasing makes it, and takes the permission to.  A direct order is
\* in its customer's currency, whichever was chosen; submitting takes the
\* permission for the request and a workflow that is effective.
SalesOrderServer ==
    LET On(permission, asks, moves) ==
            Command({permission} \cup asks, moves, {"sales order"}, {"sales_order"})
        Content(command) == [command EXCEPT !.changes = @ \cup {"order content"}]
        released == {"released", "in project"}
        approved == {"approved", "differing"}
    IN  "orderQuotation" :> Anywhere({"sales.sales_order.create", "quotation"}, {"sales order"}, {"sales_order"}) @@
        "orderDirectly" :> Anywhere({"sales.sales_order.direct_create", "customer", "currency", "requirement",
                                     "description", "direct reason", "the customer's currency"},
                                    {"sales order"}, {"sales_order"}) @@
        "saveOrder" :> Content(On("sales.sales_order.edit", {"described lines"},
                                  [s \in {"bare", "draft", "returned"} |-> {s}])) @@
        "submitOrder" :> On("sales.sales_order.submit", {"approvals.request.submit", "effective workflow"},
                            [s \in {"draft", "returned"} |-> approved \cup {"pending", "refused"}]) @@
        "release" :> On("sales.sales_order.release", {"projects.project.create"},
                        [s \in {"approved", "held approved"} |-> released] @@
                        "held amended" :> {"in project"} @@ "cancelled" :> released \cup {"refused"}) @@
        "resumeOrder" :> On("sales.sales_order.resume", {},
                            [s \in {"held approved", "held amended"} |-> approved] @@
                            "held released" :> {"released"} @@ "held in project" :> {"in project"}) @@
        "linkPo" :> On("sales.customer_po.link_to_order", {"purchase order"},
                       [s \in Ordered |-> IF s = "bare" THEN {"draft"} ELSE
                                          IF s \in approved THEN approved ELSE {s}]) @@
        "amend" :> Content(On("sales.sales_order.revise", {"reason"},
                              [s \in released \cup {"held released", "held in project"} |-> {"draft"}] @@
                              "cancelled" :> {"draft", "refused"})) @@
        "holdOrder" :> On("sales.sales_order.hold", {"reason"},
                          [s \in approved |-> {"held approved", "held amended"}] @@
                          "released" :> {"held released"} @@ "in project" :> {"held in project"}) @@
        "cancelOrder" :> On("sales.sales_order.cancel", {"reason"},
                            [s \in Ordered \ {"bare"} |-> IF s = "cancelled" THEN {} ELSE {"cancelled"}])

\* The approvers' decision comes with an event of the request, none of the order.
SalesOrderFamily ==
    [start |-> {"bare", "returned", "approved", "released", "in project"},
     drift |-> {Drift([s \in DOMAIN SalesOrderServer[c].moves |-> SalesOrderServer[c].moves[s] \ {"refused"}],
                      SalesOrderServer[c].changes, SalesOrderServer[c].announces) :
                    c \in {"saveOrder", "submitOrder", "release", "amend", "holdOrder", "cancelOrder"}}
               \cup {Drift("pending" :> {"approved", "differing", "returned", "cancelled"},
                           {"sales order"}, {"approval_request"})}]

-------------------------------------------------------------------------------
(* A project's handoff: "unwritten" or "written" (a draft, without or with    *)
(* the scope and requirement saved), "ready", "mine" or "theirs" (taken),     *)
(* "asking", "answered" (still waiting for Sales, though two answers at once  *)
(* left no question open) or "accepted".                                      *)
ProjectQueries ==
    "projects" :> Query("projects", {"project", "handoff"}) @@
    "project" :> Query("project", {"project", "handoff", "clarification", "sales order"})

ProjectsPage == Screen("handoff", {"projects"}, <<>>)

refreshProject == {"project", "projects"}

\* Whether the scope is written is asked of the text on the screen, saved or
\* not.  Accepting is not disabled while it is pending.  Nothing opens the
\* dialog in which the Workshop would ask a question.
ProjectHandoffTab ==
    LET On(offered, asks) == Offer("project", offered, asks, refreshProject)
    IN  "saveHandoff" :> On({"unwritten", "written", "asking", "answered"}, {"projects.handoff.prepare"}) @@
        "submitHandoff" :> On({"unwritten", "written"}, {"projects.handoff.submit"}) @@
        "takeOwnership" :> On({"ready"}, {"projects.handoff.take_ownership"}) @@
        "acceptHandoff" :> Again(On({"mine", "theirs", "answered"}, {"projects.handoff.accept"})) @@
        "answerSales" :> On({"asking"}, {"projects.handoff.respond_clarification", "response"})

ProjectPage == Screen("handoff", {"project"}, ProjectHandoffTab)

HandoffServer ==
    LET On(permission, asks, moves) ==
            Command({permission} \cup asks, moves, {"handoff"}, {"project"})
    IN  "saveHandoff" :> On("projects.handoff.prepare", {},
                            [s \in {"unwritten", "written"} |-> {"unwritten", "written"}] @@
                            [s \in {"asking", "answered"} |-> {s}]) @@
        "submitHandoff" :> On("projects.handoff.submit", {}, [s \in {"written", "asking", "answered"} |-> {"ready"}]) @@
        "takeOwnership" :> On("projects.handoff.take_ownership", {}, [s \in {"ready", "mine"} |-> {"mine"}]) @@
        "acceptHandoff" :> On("projects.handoff.accept", {}, [s \in {"ready", "mine"} |-> {"accepted"}]) @@
        "answerSales" :> On("projects.handoff.respond_clarification", {"response"},
                            "asking" :> {"asking", "answered", "mine", "theirs"})

\* The Workshop may ask while the handoff is ready or taken, and again.
HandoffFamily ==
    [start |-> {"unwritten", "written", "ready", "mine", "theirs", "asking"},
     drift |-> {Drift(HandoffServer[c].moves, HandoffServer[c].changes, HandoffServer[c].announces) :
                    c \in {"saveHandoff", "submitHandoff", "answerSales"}}
               \cup {Drift("ready" :> {"theirs", "asking", "accepted"} @@ "theirs" :> {"asking", "accepted"} @@
                           "mine" :> {"asking", "theirs"} @@ "answered" :> {"asking"},
                           {"handoff"}, {"project"})}]

(* The project itself: "running", "held" or "cancelled", or so on a baseline   *)
(* nobody has acknowledged: "changed", "held changed", "cancelled changed".   *)
Acknowledged == "changed" :> "running" @@ "held changed" :> "held" @@ "cancelled changed" :> "cancelled"
ChangedOf(s) == IF s \in DOMAIN Acknowledged THEN s
                ELSE CHOOSE c \in DOMAIN Acknowledged : Acknowledged[c] = s
ProjectSituations == {"running", "held", "cancelled"} \cup DOMAIN Acknowledged
Uncancelled == {"running", "changed", "held", "held changed"}

ProjectHeader ==
    LET On(offered, asks) == Offer("project", offered, asks, refreshProject)
    IN  Screen("project", {"project"},
               "holdProject" :> On({"running", "changed"}, {"projects.project.hold", "reason"}) @@
               "resumeProject" :> Again(On({"held", "held changed"}, {"projects.project.hold"})) @@
               "cancelProject" :> On(Uncancelled, {"projects.project.cancel", "reason"}) @@
               "acknowledge" :> Again(On(DOMAIN Acknowledged,
                                         {"projects.handoff.acknowledge_commercial_change"})))

ProjectServer ==
    LET On(permission, moves) == Command({permission}, moves, {"project"}, {"project"})
        spent(situations) == [s \in situations |-> {}]
    IN  "holdProject" :> On("projects.project.hold",
                            "running" :> {"held"} @@ "changed" :> {"held changed"}) @@
        "resumeProject" :> On("projects.project.hold",
                              "held" :> {"running"} @@ "held changed" :> {"changed"}) @@
        "cancelProject" :> On("projects.project.cancel",
                              [s \in {"running", "held"} |-> {"cancelled"}] @@
                              [s \in {"changed", "held changed"} |-> {"cancelled changed"}] @@
                              spent(ProjectSituations)) @@
        "acknowledge" :> On("projects.handoff.acknowledge_commercial_change",
                            [s \in DOMAIN Acknowledged |-> {Acknowledged[s]}] @@ spent(ProjectSituations))

\* A released amendment changes the baseline whatever became of the project, and
\* its handoff goes on whatever became of it: every step of that puts it back
\* among the running ones, and acceptance acknowledges the baseline as well.
ProjectFamily ==
    LET Changing(moves) == Drift(moves, {"project"}, {"project"})
    IN  [start |-> ProjectSituations,
         drift |-> {Changing(ProjectServer[c].moves) : c \in DOMAIN ProjectServer}
                   \cup {Changing([s \in ProjectSituations |-> {ChangedOf(s)}]),
                         Changing([s \in ProjectSituations |->
                                    IF s \in DOMAIN Acknowledged THEN {"running", "changed"} ELSE {"running"}])}]
==============================================================================
