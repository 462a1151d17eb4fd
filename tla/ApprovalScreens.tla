--------------------------- MODULE ApprovalScreens ---------------------------
(* Approval requests and approval workflows in the browser, beside what the  *)
(* server accepts.                                                            *)
(*                                                                            *)
(* A request, seen by one employee, is "mine" (an assignment of the open step *)
(* waits for him), "bound" (so, and the step allows neither to reject nor to  *)
(* return), "own" (so, but he submitted it and the workflow forbids           *)
(* self-approval), "asked" (he submitted it, others decide), "theirs" or      *)
(* "decided".                                                                 *)
EXTENDS ScreenTables

ApprovalQueries ==
    "approvals" :> Query("approvals", {"approval"}) @@
    "approval" :> Query("approval", {"approval"}) @@
    "approval-documents" :> Query("approval-documents", {"document"}) @@
    "approval-reassignment" :> Query("employees", {"employee"})

\* Somebody takes over a pending assignment of the open step.
ReassignDialog ==
    "reassign" :> Offer("approval", {"mine", "bound", "own", "asked", "theirs"},
                        {"approvals.workflow.manage", "approver", "reason"},
                        {"approval", "approvals", "notifications"})

\* Decide or withdraw; the two ways back ask for a comment.
ApprovalActionDialog ==
    LET Decide(offered, asks) ==
            Offer("approval", offered, asks, {"approval", "approvals", "notifications"})
        waiting == {"mine", "bound", "own"}
    IN  "approve" :> Decide(waiting, {"approvals.request.approve"}) @@
        "reject" :> Decide(waiting, {"approvals.request.reject", "comment"}) @@
        "return" :> Decide(waiting, {"approvals.request.return", "comment"}) @@
        "cancel" :> Decide({"own", "asked"}, {"approvals.request.cancel"})

ApprovalsPage == Screen("approval", {"approvals"}, <<>>)

ApprovalDetailPage ==
    Screen("approval", {"approval", "approval-documents", "approval-reassignment"},
           ReassignDialog @@ ApprovalActionDialog)

\* What the request becomes for this employee when an approval of his, or a
\* decision of somebody else, leaves it open or closes it.
OpenTo(s) == IF s \in {"own", "asked"} THEN {"own", "asked"} ELSE {"mine", "bound", "theirs"}
Undecided == {"mine", "bound", "own", "asked", "theirs"}

\* The dialog lists every active employee with an account; the one who takes
\* over must be allowed to approve, able to log in, and not in the step already.
ApprovalServer ==
    LET On(situations, Result(_), requires) ==
            Command(requires, [s \in situations |-> Result(s)],
                    {"approval"}, {"approval_request"})
        Closed(s) == {"decided"}
        Onward(s) == OpenTo(s) \cup {"decided"}
        Same(s) == {s}
    IN  "approve" :> On({"mine", "bound"}, Onward, {"approvals.request.approve"}) @@
        "reject" :> On({"mine"}, Closed, {"approvals.request.reject", "comment"}) @@
        "return" :> On({"mine"}, Closed, {"approvals.request.return", "comment"}) @@
        "cancel" :> On(Undecided, Closed, {"approvals.request.cancel"}) @@
        "reassign" :> On(Undecided, OpenTo, {"approvals.workflow.manage", "approver", "reason",
                                             "authorized approver"})

ApprovalFamily ==
    [start |-> {"mine", "bound", "own", "asked", "theirs"},
     drift |-> {Drift([s \in Undecided |-> OpenTo(s) \cup {"decided"}],
                      {"approval"}, {"approval_request"})}]

-------------------------------------------------------------------------------
(* One of a person's notifications, "unread" or "read"; more of them arrive.  *)
BellQueries ==
    "unread-count" :> Timed(Query("notifications", {"notification"})) @@
    "inbox" :> Query("notifications", {"notification"})

\* The bell of the shell: the count is polled, the inbox is not, and neither
\* button is disabled while its command is pending.
ERPNotificationBell ==
    Screen("notification", {"unread-count", "inbox"},
           "read" :> Again(Offer("inbox", {"unread"}, {"notifications.notification.view"},
                                 {"notifications"})) @@
           "readAll" :> Again(Offer("unread-count", {"unread"},
                                    {"notifications.notification.view"}, {"notifications"})))

\* Reading twice is accepted and changes nothing more; no event is published.
NotificationServer ==
    LET Read == Command({}, "unread" :> {"read"} @@ "read" :> {}, {"notification"}, {})
    IN  "read" :> Read @@ "readAll" :> Read

NotificationFamily ==
    [start |-> {"unread", "read"},
     drift |-> {Drift([s \in {"unread", "read"} |-> {s}], {"notification"}, {})}]

-------------------------------------------------------------------------------
(* The newest version of a workflow is "new" (a draft without a step),        *)
(* "draft", "short" (a draft with a step that asks for more approvals than it *)
(* names approvers), "active", or "revised" or "short revision" (a draft      *)
(* beside an active version).                                                 *)
WorkflowQueries ==
    "approval-workflows" :> Query("approval-workflows", {"workflow"}) @@
    "workflow-companies" :> Query("workflow-companies", {"company"}) @@
    "workflow-employees" :> Query("workflow-employees", {"employee"}) @@
    "workflow-permissions" :> Query("workflow-permissions", {"permission"})

WorkflowDialog ==
    "newWorkflow" :> Offer("", {}, {"approvals.workflow.manage", "company", "code", "name"},
                           {"approval-workflows"})

Drafts == {"new", "draft", "short", "revised", "short revision"}

\* The next step of a draft version: its number follows the last one shown.
StepDialog ==
    "addStep" :> Offer("approval-workflows", Drafts,
                       {"approvals.workflow.manage", "name", "approvers"},
                       {"approval-workflows"})

ConditionDialog ==
    "addCondition" :> Offer("approval-workflows", Drafts, {"approvals.workflow.manage"},
                            {"approval-workflows"})

\* Activation waits for a step; copying a version is not disabled while pending.
ApprovalWorkflowsPage ==
    LET Manage(offered) == Offer("approval-workflows", offered, {"approvals.workflow.manage"},
                                 {"approval-workflows"})
    IN  Screen("workflow", DOMAIN WorkflowQueries,
               "activate" :> Manage(Drafts \ {"new"}) @@
               "allowSelfApproval" :> Manage(Drafts) @@
               "clone" :> Again(Manage({"active", "revised", "short revision"})) @@
               WorkflowDialog @@ StepDialog @@ ConditionDialog)

WorkflowServer ==
    LET manage == {"approvals.workflow.manage"}
        Configure(requires, moves) == Command(requires, moves, {"workflow"}, {"approval_workflow"})
    IN  "newWorkflow" :> Anywhere(manage \cup {"company", "code", "name"},
                                  {"workflow"}, {"approval_workflow"}) @@
        "addStep" :> Configure(manage \cup {"name"},
                               [s \in Drafts |-> IF s \in {"revised", "short revision"}
                                                 THEN {s, "short revision"}
                                                 ELSE {IF s = "new" THEN "draft" ELSE s, "short"}]) @@
        "addCondition" :> Configure(manage, [s \in Drafts |-> {s}]) @@
        "allowSelfApproval" :> Configure(manage, [s \in Drafts |-> {s}]) @@
        "activate" :> Configure(manage, [s \in {"draft", "revised"} |-> {"active"}]) @@
        "clone" :> Configure(manage, [s \in Drafts \cup {"active"} |->
                                         IF s \in {"active", "revised", "short revision"}
                                         THEN {"revised"} ELSE {s}])

WorkflowFamily ==
    [start |-> {"new", "draft", "short", "active", "short revision"},
     drift |-> {Drift(WorkflowServer[c].moves, {"workflow"}, {"approval_workflow"}) :
                    c \in DOMAIN WorkflowServer}]
===============================================================================
