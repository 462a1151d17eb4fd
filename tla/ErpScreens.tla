----------------------------- MODULE ErpScreens -----------------------------
(* Every screen of the browser application, in the tables Workspace is        *)
(* checked with, and the realtime provider's table of query roots.            *)
EXTENDS ApprovalScreens, EnquiryScreens, CommercialScreens, OrderScreens,
        DocumentScreens, AdminScreens

\* The query roots the realtime provider invalidates on an event of a type.
queryRoots ==
    LET project == {"projects", "project", "engineering-work"}
        order == {"sales-orders", "sales-order", "projects", "project"}
        customerPo == {"customer-pos", "customer-po", "sales-orders", "project"}
    IN  "customer" :> {"customers", "customer"} @@
        "enquiry" :> {"enquiries", "enquiry"} @@
        "engineering_feasibility_review" :> {"engineering-reviews", "engineering-review"} @@
        "commercial_estimate" :> {"commercial-estimates", "commercial-estimate"} @@
        "external_enquiry_submission" :> {"incoming-enquiries", "incoming-enquiry"} @@
        "quotation" :> {"quotations", "quotation"} @@
        "quotation_revision" :> {"quotations", "quotation"} @@
        "customer_purchase_order" :> customerPo @@
        "customer_purchase_order_revision" :> customerPo @@
        "sales_order" :> order @@
        "sales_order_revision" :> order @@
        "project" :> project @@
        "project_engineering_handoff" :> project @@
        "project_handoff_clarification" :> project @@
        "approval_request" :> {"approvals", "approval"} @@
        "document" :> {"documents", "document"} @@
        "notification" :> {"notifications"} @@
        "feature_flag" :> {"auth", "owner-features"} @@
        "employee" :> {"auth", "owner", "owner-employees", "employees"} @@
        "role" :> {"auth", "owner", "resource"} @@
        "role_assignment" :> {"auth", "owner", "resource"} @@
        "permission_override" :> {"auth", "owner", "resource"}

\* Events of other types invalidate nothing.
InvalidatedBy ==
    [t \in {"approval_workflow", "crm_activity", "engineering_clarification", "model name"} \cup DOMAIN queryRoots |->
        IF t \in DOMAIN queryRoots THEN queryRoots[t] ELSE {}]

AllScreens ==
    "approvals" :> ApprovalsPage @@
    "approval-detail" :> ApprovalDetailPage @@
    "approval-workflows" :> ApprovalWorkflowsPage @@
    "bell" :> ERPNotificationBell @@
    "customers" :> CustomersPage @@
    "customer" :> CustomerPage @@
    "activities" :> ActivitiesPage @@
    "enquiries" :> EnquiriesPage @@
    "enquiry" :> EnquiryPage @@
    "engineering" :> EngineeringPage @@
    "engineering-review" :> EngineeringReviewPage @@
    "other revision" :> AnotherRecord("engineering") @@
    "documents" :> DocumentsPage @@
    "document" :> DocumentDetailPage @@
    "other document" :> AnotherRecord("document") @@
    "incoming-enquiries" :> IncomingEnquiriesPage @@
    "incoming-enquiry" :> WebsiteEnquiryPage @@
    "other submission" :> AnotherRecord("incoming") @@
    "register" :> ResourcePage @@
    "employee record" :> Screen("register", {"employee-record"}, <<>>) @@
    "employee form" :> EmployeeFormPage @@
    "users" :> UsersPage @@
    "disable login" :> DisableLoginDialog @@
    "employee" :> EmployeeDetailPage @@
    "employee lifecycle" :> EmployeeLifecycleDialog @@
    "owner-work" :> OwnerWorkPage @@
    "owner" :> OwnerControlPage @@
    "owner-data-quality" :> OwnerDataQualityPage @@
    "owner-features" :> OwnerFeaturesPage @@
    "notification-settings" :> NotificationSettingsPage @@
    "estimates" :> EstimatesPage @@
    "estimate" :> EstimatePage @@
    "other estimate" :> AnotherRecord("estimate") @@
    "quotations" :> QuotationsPage @@
    "quotation" :> QuotationPage @@
    "other quotation" :> AnotherRecord("quotation") @@
    "customer-pos" :> CustomerPOsPage @@
    "sales-orders" :> SalesOrdersPage @@
    "sales-order" :> SalesOrderPage @@
    "other order" :> AnotherRecord("sales order") @@
    "projects" :> ProjectsPage @@
    "project" :> ProjectPage @@
    "project header" :> ProjectHeader

AllQueries ==
    ApprovalQueries @@ WorkflowQueries @@ BellQueries @@ CrmQueries @@ EnquiryQueries @@
    EngineeringQueries @@ EstimateQueries @@ QuotationQueries @@ CustomerPoQueries @@
    OrderQueries @@ ProjectQueries @@ DocumentQueries @@ IncomingQueries @@
    RegisterQueries @@ AccountQueries @@ LifecycleQueries @@ EmployeeOptions @@
    OwnerQueries @@ FeatureQueries @@ PreferenceQueries

AllCommands ==
    ApprovalServer @@ WorkflowServer @@ NotificationServer @@ CustomerStatusServer @@
    CustomerServer @@ ActivityServer @@ EnquiryStatusServer @@ EnquiryServer @@
    EngineeringServer @@ EstimateServer @@ QuotationServer @@ CustomerPoServer @@
    SalesOrderServer @@ HandoffServer @@ ProjectServer @@ DocumentServer @@
    IncomingServer @@ RegisterServer @@ AccountServer @@ LifecycleServer @@
    OwnerWorkServer @@ FeatureServer @@ PreferenceServer

AllFamilies ==
    "approval" :> ApprovalFamily @@
    "workflow" :> WorkflowFamily @@
    "notification" :> NotificationFamily @@
    "customer" :> CustomerFamily @@
    "follow-up" :> FollowUpFamily @@
    "enquiry" :> EnquiryFamily @@
    "engineering" :> EngineeringFamily @@
    "document" :> DocumentFamily @@
    "incoming" :> IncomingFamily @@
    "register" :> RegisterFamily @@
    "login" :> LeavingFamily @@
    "employee" :> LeavingFamily @@
    "owner work" :> OwnerWorkFamily @@
    "feature" :> FeatureFamily @@
    "preference" :> PreferenceFamily @@
    "estimate" :> EstimateFamily @@
    "quotation" :> QuotationFamily @@
    "customer po" :> CustomerPoFamily @@
    "sales order" :> SalesOrderFamily @@
    "handoff" :> HandoffFamily @@
    "project" :> ProjectFamily
=============================================================================
