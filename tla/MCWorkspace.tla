----------------------------- MODULE MCWorkspace -----------------------------
EXTENDS Workspace, ErpScreens

\* The tables under names of their own: TLC evaluates each of these once.
MCScreens == AllScreens
MCCommands == AllCommands
MCQueries == AllQueries
MCFamilies == AllFamilies
MCQueryRoots == InvalidatedBy

MCUnchecked == {<<"activate", "short">>, <<"activate", "short revision">>,
                <<"approve", "own">>, <<"reject", "own">>, <<"return", "own">>,
                <<"reject", "bound">>, <<"return", "bound">>} \cup
    ({"reassign"} \X Undecided) \cup
    ({"createCustomer", "addContact", "editContact"} \X Statuses) \cup
    {<<"deactivateCustomer", "ACTIVE">>} \cup {<<"blockCustomer", s>> : s \in Statuses \ {"BLOCKED"}} \cup
    ({"recordActivity"} \X (Statuses \cup OpenEnquiry \cup {"closed", "OPEN", "COMPLETED", "CANCELLED"})) \cup
    ({"createEnquiry"} \X (OpenEnquiry \cup {"closed"})) \cup ({"editEnquiry", "assignEnquiry"} \X OpenEnquiry) \cup
    {<<"markLost", "DRAFT">>, <<"respond", "asking other">>, <<"markNotFeasible", "blank">>} \cup
    ({"assignEngineer"} \X ({"unassigned", "assigned"} \cup Active)) \cup ({"requestClarification"} \X Active) \cup
    ({"completeReview"} \X {"blank", "assessed"}) \cup
    ({"createEstimate"} \X (Preparing \cup {"submitted", "settled", "superseded"})) \cup
    ({"savePricing"} \X Preparing) \cup ({"submitEstimate"} \X WithLines) \cup
    {<<"saveQuotation", "draft">>, <<"finalizeWithWorkflow", "draft">>} \cup
    ({"share"} \X {"draft", "in approval", "rejected"}) \cup ({"generate"} \X Quoted) \cup
    ({"recordPo"} \X {"linked", "unlinked"}) \cup ({"orderQuotation", "orderDirectly"} \X Ordered) \cup
    ({"saveOrder", "submitOrder"} \X {"bare", "draft"}) \cup
    ({"release"} \X {"approved", "differing"}) \cup
    ({"holdOrder"} \X {"bare", "draft", "returned", "pending"}) \cup {<<"cancelOrder", "bare">>} \cup
    {<<"submitHandoff", "unwritten">>} \cup ({"acceptHandoff"} \X {"theirs", "answered"}) \cup
    {<<"submitDocument", "active">>} \cup
    ({"capture"} \X (Undone \cup {"turned away", "converted"})) \cup
    ({"assignSubmission", "convert"} \X Undone) \cup
    ({"createRecord", "editRecord", "editEmployee"} \X {"kept"}) \cup
    ({"disableLogin", "deactivateEmployee"} \X {"own", "final owner"})
MCRepeatable == {"clone", "markReady", "reviseQuotation"}
MCReopened == {"closeClarification", "resumeOrder", "resumeProject", "acknowledge"}
MCLeftBehind ==
    {<<"editEmployee", "employee-record">>, <<"editCustomer", "customer-360">>, <<"recordActivity", "enquiry-workspace">>,
     <<"amend", "sales-order-comparison">>, <<"saveOrder", "sales-order-comparison">>} \cup
    {<<c, "engineering-revisions">> : c \in {"assignEngineer", "requestClarification", "respond",
                                              "completeReview", "markNotFeasible"}}
==============================================================================
