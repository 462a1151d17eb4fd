----------------------------- MODULE CrmScreens -----------------------------
(* Customers and follow-ups in the browser, beside what the server accepts.  *)
(* A customer is seen by its status, a follow-up by its own.                  *)
EXTENDS ScreenTables

Statuses == {"PROSPECT", "ACTIVE", "INACTIVE", "BLOCKED"}

CrmQueries ==
    "customers" :> Query("customers", {"customer"}) @@
    "customer-360" :> Query("customer-360", {"customer", "contact", "site", "activity",
                                             "enquiry", "document"}) @@
    "customer-quotations" :> Query("customer-quotations", {"quotation"}) @@
    "customer-sales-orders" :> Query("customer-sales-orders", {"sales order"}) @@
    "customer-projects" :> Query("customer-projects", {"project"}) @@
    "crm-options" :> Query("crm-options", {"employee", "currency", "tax", "payment term"}) @@
    "crm-activities" :> Query("crm-activities", {"activity"})

\* One form creates and edits; it is disabled while it saves.  The status is
\* not one of its fields.
CustomerForm(command, permission) ==
    command :> Offer("", {}, {permission, "company", "legal name"}, {"customers"})

ContactForm(command, permission) ==
    command :> Offer("", {}, {permission, "first name"}, {"customer-360"})

SiteForm ==
    "saveSite" :> Offer("", {}, {"crm.customer.edit", "label", "address"}, {"customer-360"})

ActivityForm ==
    "recordActivity" :> Offer("", {}, {"crm.activity.create", "customer", "subject", "date"},
                              {"crm-activities", "customer-360"})

\* A file of rows, taken whole or not at all; one dialog for every register.
SpreadsheetImport(command, permission, root) ==
    command :> Offer("", {}, {permission, "file"}, {root})

\* The status actions: one permission shows all three, the reason is a field
\* that may stay empty.
CustomerStatusDialog ==
    LET Change(offered) ==
            Offer("customer-360", offered, {"crm.customer.edit"}, {"customer-360", "customers"})
    IN  "activateCustomer" :> Change(Statuses \ {"ACTIVE"}) @@
        "deactivateCustomer" :> Change({"ACTIVE"}) @@
        "blockCustomer" :> Change(Statuses \ {"BLOCKED"})

\* The register; a new customer's own page opens once it is saved.
CustomersPage ==
    Screen("customer", {"customers", "crm-options"},
           CustomerForm("createCustomer", "crm.customer.create") @@
           SpreadsheetImport("importCustomers", "crm.customer.create", "customers"))

\* The side panel: whoever may add a contact is offered to edit one too.
CustomerPanel ==
    CustomerForm("editCustomer", "crm.customer.edit") @@
    ContactForm("addContact", "crm.contact.create") @@
    ContactForm("editContact", "crm.contact.create") @@
    SiteForm @@ ActivityForm

CustomerPage ==
    Screen("customer", {"customer-360", "customer-quotations", "customer-sales-orders",
                        "customer-projects", "crm-options"},
           CustomerPanel @@ CustomerStatusDialog)

\* The queue: neither button is disabled while its command is pending.
ActivitiesPage ==
    LET Settle(permission) ==
            Again(Offer("crm-activities", {"OPEN"}, {permission}, {"crm-activities"}))
    IN  Screen("follow-up", {"crm-activities", "crm-options"},
               "completeActivity" :> Settle("crm.activity.complete") @@
               "cancelActivity" :> Settle("crm.activity.edit") @@
               ActivityForm)

-------------------------------------------------------------------------------
\* change_customer_status: asking for the status it has changes nothing; every
\* change but to ACTIVE wants a reason.
CustomerStatusServer ==
    LET allowed == "PROSPECT" :> {"ACTIVE", "INACTIVE", "BLOCKED"} @@
                   "ACTIVE" :> {"INACTIVE", "BLOCKED"} @@
                   "INACTIVE" :> {"ACTIVE", "BLOCKED"} @@
                   "BLOCKED" :> {"ACTIVE", "INACTIVE"}
        To(target, requires) ==
            Command(requires,
                    [s \in {t \in Statuses : target \in allowed[t] \cup {t}} |-> {target} \ {s}],
                    {"customer"}, {"customer"})
    IN  "activateCustomer" :> To("ACTIVE", {"crm.customer.edit"}) @@
        "deactivateCustomer" :> To("INACTIVE", {"crm.customer.deactivate", "reason"}) @@
        "blockCustomer" :> To("BLOCKED", {"crm.customer.block", "reason"})

\* Saving a customer, a contact or a site is audited and published to nobody.
\* One that looks like another is saved with a reason only; a contact has an
\* e-mail address or a telephone number.
CustomerServer ==
    "createCustomer" :> Anywhere({"crm.customer.create", "company", "legal name", "no match or a reason"},
                                 {"customer"}, {}) @@
    "importCustomers" :> Anywhere({"crm.customer.create", "file"}, {"customer"}, {}) @@
    "editCustomer" :> Anywhere({"crm.customer.edit", "legal name"}, {"customer"}, {}) @@
    "addContact" :> Anywhere({"crm.contact.create", "first name", "email or phone"}, {"contact"}, {}) @@
    "editContact" :> Anywhere({"crm.contact.edit", "first name", "email or phone"}, {"contact"}, {}) @@
    "saveSite" :> Anywhere({"crm.customer.edit", "label", "address"}, {"site"}, {})

\* Only a follow-up is published when it is recorded; other activities are not.
\* Whoever an activity is for must have a login.
ActivityServer ==
    LET Settle(to, permission) ==
            Command({permission}, "OPEN" :> {to}, {"activity"}, {"crm_activity"})
    IN  "recordActivity" :> Anywhere({"crm.activity.create", "customer", "subject", "date", "login"},
                                     {"activity"}, {"crm_activity"}) @@
        "completeActivity" :> Settle("COMPLETED", "crm.activity.complete") @@
        "cancelActivity" :> Settle("CANCELLED", "crm.activity.edit")

CustomerFamily ==
    [start |-> {"PROSPECT", "ACTIVE"},
     drift |-> {Drift([s \in Statuses |-> Statuses \ {s}], {"customer"}, {"customer"}),
                Drift([s \in Statuses |-> {s}], {"customer", "contact", "site"}, {})}]

FollowUpFamily ==
    [start |-> {"OPEN", "COMPLETED", "CANCELLED"},
     drift |-> {Drift("OPEN" :> {"COMPLETED", "CANCELLED"}, {"activity"}, {"crm_activity"})}]
=============================================================================
