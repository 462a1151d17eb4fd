--------------------------- MODULE DocumentScreens ---------------------------
(* Documents and incoming enquiries in the browser, beside what the server    *)
(* accepts.                                                                   *)
EXTENDS ScreenTables, Sequences

(* A document is "active" or "archived".                                      *)
DocumentQueries ==
    "documents" :> Query("documents", {"document", "version"}) @@
    "document" :> Query("document", {"document", "version", "link"}) @@
    "document-categories" :> Query("document-categories", {"category"}) @@
    "document-workflows" :> Query("approval-workflows", {"workflow"})

\* The register and the form that uploads, then opens the new document's page.
ERPDocumentUpload ==
    "uploadDocument" :> Opening(Offer("", {}, {"documents.document.upload", "title", "category", "file"},
                                      {"documents"}), "other document")

DocumentsPage == Screen("document", {"documents", "document-categories"}, ERPDocumentUpload)

\* The document itself is attached to the request as its supporting paper.
ApprovalDialog ==
    "submitDocument" :> Opening(Offer("document", {"active"}, {"approvals.request.submit", "workflow"}, {}),
                                "other document")

VersionDialog ==
    "addVersion" :> Offer("document", {"active"}, {"documents.document.version_add", "file"},
                          {"document", "documents"})

StateDialog ==
    LET On(offered, asks) == Offer("document", offered, asks, {"document", "documents"})
    IN  "archive" :> On({"active"}, {"documents.document.archive", "reason"}) @@
        "restore" :> On({"archived"}, {"documents.document.restore"})

DocumentDetailPage ==
    Screen("document", {"document", "document-workflows"}, ApprovalDialog @@ VersionDialog @@ StateDialog)

\* Attaching a document takes the permission to upload one, and the request a
\* workflow that is effective; the event of a version or of a link is the
\* document's.
DocumentServer ==
    LET On(requires, moves, changes) == Command(requires, moves, changes, {"document"})
    IN  "uploadDocument" :> Anywhere({"documents.document.upload", "title", "category", "file"},
                                     {"document"}, {"document"}) @@
        "submitDocument" :> Anywhere({"approvals.request.submit", "workflow", "effective workflow", "documents.document.upload"},
                                     {"link"}, {"approval_request", "document"}) @@
        "addVersion" :> On({"documents.document.version_add", "file"}, "active" :> {"active"}, {"version"}) @@
        "archive" :> On({"documents.document.archive", "reason"},
                        "active" :> {"archived"} @@ "archived" :> {}, {"document"}) @@
        "restore" :> On({"documents.document.restore"},
                        "archived" :> {"active"} @@ "active" :> {}, {"document"})

DocumentFamily ==
    [start |-> {"active", "archived"},
     drift |-> {Drift(DocumentServer[c].moves, DocumentServer[c].changes, DocumentServer[c].announces) :
                    c \in {"addVersion", "archive", "restore"}}]

-------------------------------------------------------------------------------
(* An incoming enquiry: "waiting" (to be reviewed, with no owner), "owned",   *)
(* "turned away" (rejected or spam) or "converted".                           *)
Undone == {"waiting", "owned"}

IncomingQueries ==
    "incoming-enquiries" :> Query("incoming-enquiries", {"submission"}) @@
    "incoming-enquiry" :> Query("incoming-enquiry", {"submission"}) @@
    "incoming-enquiry-candidates" :> Query("incoming-enquiry-candidates", {"customer", "contact"}) @@
    "incoming-enquiry-options" :> Query("incoming-enquiry-customers", {"employee", "currency", "category"})

\* The queue, with the form for what came by telephone and the import of old
\* records.  Which channels need an address is left to the server.
IncomingEnquiriesPage ==
    LET Form(inputs) == Offer("", {}, {"crm.external_enquiry.review"} \cup inputs, {"incoming-enquiries"})
    IN  Screen("incoming", {"incoming-enquiries"},
               "capture" :> Opening(Form({"person", "subject", "message"}), "other submission") @@
               "importHistory" :> Form({"file"}))

refreshSubmission == {"incoming-enquiry", "incoming-enquiry-candidates", "incoming-enquiries"}

\* Ownership, decision and conversion.  The conversion is built only when the
\* records it links are chosen, its button is there until the decision.
WebsiteEnquiryPage ==
    LET On(offered, permission, inputs) ==
            Offer("incoming-enquiry", offered, {"crm.external_enquiry." \o permission} \cup inputs,
                  refreshSubmission)
    IN  Screen("incoming", {"incoming-enquiry", "incoming-enquiry-candidates", "incoming-enquiry-options"},
               "assignSubmission" :> On(Undone, "assign", {"employee"}) @@
               "takeSubmission" :> On({"waiting"}, "assign", {}) @@
               "rejectSubmission" :> On(Undone, "reject", {"reason"}) @@
               "markSpam" :> On(Undone, "mark_spam", {"reason"}) @@
               "restoreForReview" :> On({"turned away"}, "review", {"reason"}) @@
               "convert" :> On(Undone, "convert", {"salesperson", "customer", "contact", "category"}))

\* Everything but a converted submission may be decided again.  Its owner must
\* have a login.  Converting creates the customer, contact and enquiry, each
\* under its own permission, and says so of the submission alone; a submission
\* with files takes the permission to upload documents.
IncomingServer ==
    LET On(permission, inputs, moves) ==
            Command({"crm.external_enquiry." \o permission} \cup inputs, moves,
                    {"submission"}, {"external_enquiry_submission"})
        Undecided == Undone \cup {"turned away"}
        creating == {"crm.customer.create", "crm.contact.create", "enquiry.enquiry.create",
                     "documents.document.upload"}
    IN  "capture" :> Anywhere({"crm.external_enquiry.review", "person", "subject", "message", "address"},
                              {"submission"}, {"external_enquiry_submission"}) @@
        "importHistory" :> Anywhere({"crm.external_enquiry.review", "file"},
                                    {"submission"}, {"external_enquiry_submission"}) @@
        "assignSubmission" :> On("assign", {"employee", "login"}, [s \in Undone |-> {"owned"}]) @@
        "takeSubmission" :> On("assign", {}, [s \in Undone |-> {"owned"}]) @@
        "rejectSubmission" :> On("reject", {"reason"}, [s \in Undecided |-> {"turned away"}]) @@
        "markSpam" :> On("mark_spam", {"reason"}, [s \in Undecided |-> {"turned away"}]) @@
        "restoreForReview" :> On("review", {"reason"},
                                 [s \in Undone |-> {s}] @@ "turned away" :> Undone) @@
        "convert" :> [On("convert", {"salesperson", "customer", "contact", "category", "login"} \cup creating, [s \in Undone |-> {"converted"}])
                      EXCEPT !.changes = @ \cup {"customer", "contact"}]

\* Others decide as well, or add a customer that looks like the sender.
IncomingFamily ==
    [start |-> {"waiting", "owned", "turned away"},
     drift |-> {Drift(IncomingServer[c].moves, IncomingServer[c].changes, IncomingServer[c].announces) :
                    c \in {"assignSubmission", "rejectSubmission", "restoreForReview", "convert"}}
               \cup {Drift([s \in Undone |-> {s}], {"customer"}, {"customer"})}]
==============================================================================
