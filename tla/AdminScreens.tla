---------------------------- MODULE AdminScreens ----------------------------
(* The administrator's screens: registers, logins and employees, the owner's  *)
(* work list and feature controls, beside what the server accepts.            *)
EXTENDS ScreenTables, Sequences

(* A record of a register is "kept".  None of them publishes an event.        *)
RegisterQueries ==
    "register" :> Query("resource", {"record"}) @@
    "relation-options" :> Query("options", {"related"}) @@
    "employee-record" :> Query("employee", {"record"})

\* The form of every register, filled from the record it was opened with, or
\* from an answer.  It does not ask whether its user may save.
ResourceRecordForm(on) == Offer(on, {"kept"}, {"fields"}, {"resource"})
Managing(offer) == [offer EXCEPT !.asks = @ \cup {"manage"}]

\* Whoever may only view opens the same form.
ResourcePage ==
    Screen("register", {"register", "relation-options"},
           "createRecord" :> Managing(ResourceRecordForm("")) @@
           "editRecord" :> ResourceRecordForm("the row opened") @@
           "importRecords" :> Offer("", {}, {"manage", "file"}, {"resource"}))

\* An employee has a page, and a page for the form that leads back to it.
EmployeeFormPage ==
    Screen("register", {"employee-record", "relation-options"},
           "editEmployee" :> Opening(Managing(ResourceRecordForm("employee-record")), "employee record"))

\* Nobody hands out rights he does not hold, nor takes those the owner must
\* keep; an employee is made inactive by a command of its own, though the form
\* lists that status too.
RegisterServer ==
    LET Saved(inputs) == Anywhere({"manage"} \cup inputs, {"record"}, {})
    IN  "createRecord" :> Saved({"fields", "own rights"}) @@ "editRecord" :> Saved({"fields", "own rights"}) @@
        "importRecords" :> Saved({"file"}) @@ "editEmployee" :> Saved({"fields", "not inactive"})

RegisterFamily == [start |-> {"kept"}, drift |-> {Drift("kept" :> {"kept"}, {"record"}, {})}]

-------------------------------------------------------------------------------
(* A login or an employee is "idle" or "busy" (open work is assigned to it),  *)
(* the user's "own", the "final owner"'s, or "disabled".                      *)
Enabled == {"idle", "busy", "own", "final owner"}
EmployeeOptions == "owner-employees" :> Query("owner-employees", {"employee"})

AccountQueries ==
    "accounts" :> Query("resource", {"account"}) @@
    "account-deactivation-impact" :> Query("account-deactivation-impact", {"work"})

LifecycleQueries ==
    "employee" :> Query("employee", {"account"}) @@
    "employee-deactivation-impact" :> Query("employee-deactivation-impact", {"work"})

\* The dialog asks what becomes of the open work when its answer shows some.
DisableDialog(command, impact, permission, refreshes, back) ==
    LET On(offered, inputs) ==
            Opening(Offer(impact, offered, {permission, "reason"} \cup inputs, refreshes), back)
    IN  command :> On(Enabled \ {"busy"}, {}) @@
        (command \o " with work") :> On({"busy"}, {"open work action"})

disabledRefreshes == {"resource", "owner", "owner-work"}

UsersPage ==
    Screen("login", {"accounts"},
           "enableLogin" :> Offer("accounts", {"disabled"}, {"accounts.user.manage"}, {"resource"}))
DisableLoginDialog ==
    Screen("login", {"accounts", "account-deactivation-impact", "owner-employees"},
           DisableDialog("disableLogin", "account-deactivation-impact", "accounts.user.manage",
                         disabledRefreshes, "users"))

\* The saved employee is written into the page's own answer.
EmployeeDetailPage ==
    Screen("employee", {"employee"},
           "reactivate" :> Writing(Offer("employee", {"disabled"}, {"organization.employee.manage", "reason"},
                                         disabledRefreshes), {"employee"}))
EmployeeLifecycleDialog ==
    LET offers == DisableDialog("deactivateEmployee", "employee-deactivation-impact",
                                "organization.employee.manage", disabledRefreshes, "employee")
    IN  Screen("employee", {"employee", "employee-deactivation-impact", "owner-employees"},
               [c \in DOMAIN offers |-> Writing(offers[c], {"employee"})])

\* One's own login and the last owner's are refused; nothing is published but
\* the reassignment of the work, under the name of its table.
Disabling(command, permission) ==
    LET On(inputs, from, changes, announces) ==
            Command({permission, "reason"} \cup inputs, [s \in from |-> {"disabled"}], changes, announces)
    IN  command :> On({}, {"idle", "disabled"}, {"account"}, {}) @@
        (command \o " with work") :> On({"open work action"}, {"idle", "busy", "disabled"},
                                        {"account", "work"}, {"model name"})
Enabling(requires) ==
    Command(requires, [s \in Enabled |-> {s}] @@ "disabled" :> {"idle", "busy"}, {"account"}, {})

AccountServer ==
    "enableLogin" :> Enabling({"accounts.user.manage"}) @@ Disabling("disableLogin", "accounts.user.manage")
LifecycleServer ==
    "reactivate" :> Enabling({"organization.employee.manage", "reason"}) @@
    Disabling("deactivateEmployee", "organization.employee.manage")

\* Work is assigned and finished, owners come and go, another administrator
\* disables and enables.
LeavingFamily ==
    [start |-> Enabled \cup {"disabled"},
     drift |-> {Drift("idle" :> {"busy"} @@ "busy" :> {"idle"}, {"work"}, {"enquiry"}),
                Drift("idle" :> {"final owner"} @@ "final owner" :> {"idle"}, {}, {}),
                Drift([s \in {"idle", "busy"} |-> {"disabled"}] @@ "disabled" :> {"idle", "busy"},
                      {"account"}, {})}]

-------------------------------------------------------------------------------
(* A piece of open work: "assigned", already with the employee "chosen", or   *)
(* "closed".                                                                  *)
OwnerQueries ==
    "owner-work" :> Query("owner-work", {"assignment"}) @@
    "owner" :> Query("owner", {"assignment", "flag"}) @@
    "owner-data-quality" :> Query("owner-data-quality", {"assignment"})

OwnerWorkPage ==
    Screen("owner work", {"owner-work", "owner-employees"},
           "reassignWork" :> Offer("the rows chosen", {"assigned", "chosen"},
                                   {"system.work.reassign", "employee", "reason"},
                                   {"owner-work", "owner", "owner-data-quality"}))
OwnerControlPage == Screen("owner work", {"owner"}, <<>>)
OwnerDataQualityPage == Screen("owner work", {"owner-data-quality"}, <<>>)

OwnerWorkServer ==
    "reassignWork" :> Command({"system.work.reassign", "employee", "reason"},
                              "assigned" :> {"chosen"} @@ "chosen" :> {}, {"assignment"}, {"model name"})

OwnerWorkFamily ==
    [start |-> {"assigned", "chosen"},
     drift |-> {Drift("assigned" :> {"chosen"} @@ "chosen" :> {"assigned"}, {"assignment"}, {"model name"}),
                Drift([s \in {"assigned", "chosen"} |-> {"closed"}], {"assignment"}, {"enquiry"})}]

-------------------------------------------------------------------------------
(* A feature is "on" or "off", and so is the notification preference.         *)
FeatureQueries ==
    "owner-features" :> Query("owner-features", {"flag"}) @@
    "auth" :> Timed(Query("auth", {"flag"}))
PreferenceQueries == "notification-preferences" :> Query("notification-preferences", {"preference"})

OwnerFeaturesPage ==
    LET Change(shown) ==
            Writing(Offer("the feature selected", {shown}, {"configuration.feature_flag.manage", "reason"},
                          {"auth", "owner"}), {"owner-features"})
    IN  Screen("feature", {"owner-features", "auth"},
               "enableFeature" :> Change("off") @@ "disableFeature" :> Change("on"))

\* The version sent is that of the feature selected: another one is refused.
FeatureServer ==
    LET Change(from, to) == Command({"configuration.feature_flag.manage", "reason"}, from :> {to},
                                    {"flag"}, {"feature_flag"})
    IN  "enableFeature" :> Change("off", "on") @@ "disableFeature" :> Change("on", "off")

FeatureFamily ==
    [start |-> {"on", "off"},
     drift |-> {Drift("off" :> {"on"} @@ "on" :> {"off"}, {"flag"}, {"feature_flag"})}]

NotificationSettingsPage ==
    Screen("preference", {"notification-preferences"},
           "savePreference" :> Offer("notification-preferences", {"on", "off"},
                                     {"notifications.notification.manage_preferences"},
                                     {"notification-preferences"}))
PreferenceServer ==
    "savePreference" :> Command({"notifications.notification.manage_preferences"},
                                [s \in {"on", "off"} |-> {"on", "off"}], {"preference"}, {})
PreferenceFamily == [start |-> {"on", "off"}, drift |-> {}]
=============================================================================
