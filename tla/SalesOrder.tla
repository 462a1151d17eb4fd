----------------------------- MODULE SalesOrder -----------------------------
(***************************************************************************)
(* One sales order, its numbered revisions, its approval requests and the  *)
(* baseline of its project (backend/apps/sales).                           *)
(*                                                                         *)
(* A command locks the order row with FOR UPDATE OF self and takes the     *)
(* current revision from the join of the same statement.  PostgreSQL       *)
(* evaluates that join on the snapshot the statement starts with; only the *)
(* locked order row is read again once the lock is granted.  So a command  *)
(* is two steps here: Read (the snapshot) and its locked part, which sees  *)
(* a fresh order and the revision row of the snapshot, or no revision when *)
(* the foreign key has changed in between.  Commands that lock only the    *)
(* order, or lock the revision as well, are one step.                      *)
(*                                                                         *)
(* The verdict on an approval request reaches the order after the commit   *)
(* of the decision, in a callback that takes no lock and saves the         *)
(* revision and the order in two separate commits.                         *)
(***************************************************************************)
EXTENDS Integers, FiniteSets

CONSTANTS
    Staff,        \* web workers running commands on this order
    Request,      \* approval requests that may be created for it
    MaxRevision,  \* bound: the highest revision number
    MaxVersion,   \* bound: the highest record_version of a revision
    MayFail       \* whether the callback after a commit can be lost

ASSUME BoundsAssumption == MaxRevision \in Nat /\ MaxVersion \in Nat \ {0}
ASSUME MayFailAssumption == MayFail \in BOOLEAN

Revision == 0..MaxRevision
NoProject == -1

VARIABLES
    order,     \* the SalesOrder row
    revision,  \* the SalesOrderRevision rows by revision_number
    outcome,   \* verdict of each approval request
    about,     \* revision each request is about (entity_id)
    sync,      \* progress of sync_sales_order_approval for each request
    staff,     \* what each worker has read and not yet acted on
    baseline,  \* Project.current_sales_order_revision
    waived,    \* history: revisions submitted when no workflow matched
    released   \* history: revisions that were ever released

vars == <<order, revision, outcome, about, sync, staff, baseline, waived, released>>

OrderStatus ==
    {"DRAFT", "PENDING_APPROVAL", "APPROVED", "RELEASED", "ON_HOLD", "CANCELLED"}
RevisionStatus ==
    {"NONE", "DRAFT", "PENDING_APPROVAL", "APPROVED", "RELEASED", "RETURNED",
     "SUPERSEDED", "CANCELLED"}
Verdict == {"APPROVED", "REJECTED", "RETURNED"}

\* po: a customer purchase order is linked or po_pending is set, which the code
\* only ever asks together; project: project_required.
OrderRow ==
    [status : OrderStatus, current : Revision, po : BOOLEAN, project : BOOLEAN]

\* version: record_version, 0 while there is no row.
RevisionRow == [status : RevisionStatus, version : 0..MaxVersion]

Operation == {"submit", "release", "amend", "link", "resume"}
NoRow == [status |-> "NONE", version |-> 0]
NewRow == [status |-> "DRAFT", version |-> 1]
Idle == [op |-> "idle", on |-> 0, row |-> NoRow]

TypeOK ==
    /\ order \in OrderRow
    /\ revision \in [Revision -> RevisionRow]
    /\ outcome \in [Request -> {"NONE", "OPEN", "CANCELLED"} \cup Verdict]
    /\ about \in [Request -> Revision]
    /\ sync \in [Request -> [phase : {"NONE", "DUE", "READ", "SAVED", "DONE"},
                             row : RevisionRow]]
    /\ staff \in [Staff -> [op : Operation \cup {"idle"}, on : Revision, row : RevisionRow]]
    /\ baseline \in Revision \cup {NoProject}
    /\ waived \subseteq Revision
    /\ released \subseteq Revision

\* create_sales_order_from_quotation, create_direct_sales_order: an order
\* without purchase order and without po_pending is possible while DRAFT.
Init ==
    /\ order \in [status : {"DRAFT"}, current : {0},
                  po : BOOLEAN, project : BOOLEAN]
    /\ revision = [n \in Revision |-> IF n = 0 THEN NewRow ELSE NoRow]
    /\ outcome = [a \in Request |-> "NONE"]
    /\ about = [a \in Request |-> 0]
    /\ sync = [a \in Request |-> [phase |-> "NONE", row |-> NoRow]]
    /\ staff = [p \in Staff |-> Idle]
    /\ baseline = NoProject
    /\ waived = {}
    /\ released = {}

Editable == {"DRAFT", "RETURNED"}

\* SalesOrder.clean, which every save of the order runs.
CanBe(status) == status = "DRAFT" \/ order.po

SetOrderStatus(status) ==
    /\ CanBe(status)
    /\ order' = [order EXCEPT !.status = status]

-----------------------------------------------------------------------------
(* Commands that read the revision in the statement that locks the order *)

\* Mutant: a pending revision can be submitted again.
AcceptsResubmission(op, row) ==
    \/ op = "submit" /\ row.status \in Editable \cup {"PENDING_APPROVAL"}
    \/ op = "release" /\ row.status = "APPROVED"
    \/ op = "amend" /\ row.status = "RELEASED"
    \/ op \in {"link", "resume"}

\* What the command asks of the revision row it has read.
Accepts(op, row) ==
    \/ op = "submit" /\ row.status \in Editable
    \/ op = "release" /\ row.status = "APPROVED"
    \/ op = "amend" /\ row.status = "RELEASED"
    \/ op \in {"link", "resume"}

\* The statement takes its snapshot and waits for the lock.  The checks come
\* after the lock but on this row, so a command they refuse ends here.
Read(p, op) ==
    /\ staff[p] = Idle
    /\ Accepts(op, revision[order.current])
    /\ staff' = [staff EXCEPT ![p] =
         [op |-> op, on |-> order.current, row |-> revision[order.current]]]
    /\ UNCHANGED <<order, revision, outcome, about, sync, baseline, waived, released>>

\* Mutant: the foreign key may have moved on to another revision.
LockedAnyRevision(p, op) == staff[p].op = op

\* The lock is granted and the join still finds the revision.
Locked(p, op) ==
    /\ staff[p].op = op
    /\ staff[p].on = order.current

Done(p) == staff' = [staff EXCEPT ![p] = Idle]

\* Any failed check, error or deadlock rolls the transaction back.
Abort(p) ==
    /\ staff[p] # Idle
    /\ Done(p)
    /\ UNCHANGED <<order, revision, outcome, about, sync, baseline, waived, released>>

\* revision.save() without update_fields: every column of the row that was read.
SaveRow(p, status) ==
    revision' = [revision EXCEPT ![staff[p].on] = [staff[p].row EXCEPT !.status = status]]

\* submit_sales_order when one workflow matches.
SubmitForApproval(p) ==
    /\ \E a \in Request :
         /\ outcome[a] = "NONE"
         /\ outcome' = [outcome EXCEPT ![a] = "OPEN"]
         /\ about' = [about EXCEPT ![a] = staff[p].on]
    /\ SaveRow(p, "PENDING_APPROVAL")
    /\ SetOrderStatus("PENDING_APPROVAL")
    /\ UNCHANGED waived

\* submit_sales_order when no workflow matches.
SubmitUnchecked(p) ==
    /\ SaveRow(p, "APPROVED")
    /\ SetOrderStatus("APPROVED")
    /\ waived' = waived \cup {staff[p].on}
    /\ UNCHANGED <<outcome, about>>

\* submit_sales_order, with create_approval_request in the same transaction;
\* a draft always has lines (_replace_lines).
SubmitSalesOrder(p) ==
    /\ Locked(p, "submit")
    /\ SubmitForApproval(p) \/ SubmitUnchecked(p)
    /\ Done(p)
    /\ UNCHANGED <<sync, baseline, released>>

\* Mutant: a project that exists keeps the baseline it has.
ReleaseKeepingBaseline(p) ==
    /\ Locked(p, "release")
    /\ order.po
    /\ revision' = [revision EXCEPT ![order.current].status = "RELEASED"]
    /\ order' = [order EXCEPT !.status = "RELEASED"]
    /\ released' = released \cup {order.current}
    /\ baseline' = IF order.project /\ baseline = NoProject THEN order.current ELSE baseline
    /\ Done(p)
    /\ UNCHANGED <<outcome, about, sync, waived>>

\* release_sales_order with create_project_from_sales_order in the same
\* transaction.  The order's own status is not looked at; a purchase order
\* with differences makes it Abort.
ReleaseSalesOrder(p) ==
    /\ Locked(p, "release")
    /\ order.po
    /\ revision' = [revision EXCEPT ![order.current].status = "RELEASED"]
    /\ order' = [order EXCEPT !.status = "RELEASED"]
    /\ released' = released \cup {order.current}
    /\ baseline' = IF order.project THEN order.current ELSE baseline
    /\ Done(p)
    /\ UNCHANGED <<outcome, about, sync, waived>>

\* create_sales_order_amendment; the order's own status is not looked at.
CreateSalesOrderAmendment(p) ==
    /\ Locked(p, "amend")
    /\ order.current < MaxRevision
    /\ revision' = [revision EXCEPT ![order.current].status = "SUPERSEDED",
                                    ![order.current + 1] = NewRow]
    /\ order' = [order EXCEPT !.status = "DRAFT", !.current = @ + 1]
    /\ Done(p)
    /\ UNCHANGED <<outcome, about, sync, baseline, waived, released>>

\* link_customer_po counts the version up from the row it read; it links the
\* order even when the join finds no revision any more.
LinkCustomerPo(p) ==
    LET drafted == staff[p].on = order.current /\ staff[p].row.status \in Editable IN
    /\ staff[p].op = "link"
    /\ order' = [order EXCEPT !.po = TRUE]
    /\ \/ /\ drafted
          /\ staff[p].row.version < MaxVersion
          /\ revision' = [revision EXCEPT ![order.current].version = staff[p].row.version + 1]
       \/ /\ ~drafted
          /\ UNCHANGED revision
    /\ Done(p)
    /\ UNCHANGED <<outcome, about, sync, baseline, waived, released>>

\* resume_sales_order
ResumeSalesOrder(p) ==
    /\ Locked(p, "resume")
    /\ order.status = "ON_HOLD"
    /\ order' = [order EXCEPT !.status =
         IF staff[p].row.status = "RELEASED" THEN "RELEASED" ELSE "APPROVED"]
    /\ Done(p)
    /\ UNCHANGED <<revision, outcome, about, sync, baseline, waived, released>>

-----------------------------------------------------------------------------
(* Commands that read only what they lock *)

\* Mutant: any status but the superseded one can be edited.
UpdateAnyRevision(p) ==
    /\ staff[p] = Idle
    /\ revision[order.current].version < MaxVersion
    /\ revision' = [revision EXCEPT ![order.current].version = @ + 1]
    /\ UNCHANGED <<order, outcome, about, sync, staff, baseline, waived, released>>

\* update_sales_order_draft locks revision and order; the client submits the
\* version it has seen, any other one is refused.
UpdateSalesOrderDraft(p) ==
    /\ staff[p] = Idle
    /\ revision[order.current].status \in Editable
    /\ revision[order.current].version < MaxVersion
    /\ revision' = [revision EXCEPT ![order.current].version = @ + 1]
    /\ UNCHANGED <<order, outcome, about, sync, staff, baseline, waived, released>>

HoldSalesOrder(p) ==
    /\ staff[p] = Idle
    /\ order.status \in {"APPROVED", "RELEASED"}
    /\ SetOrderStatus("ON_HOLD")
    /\ UNCHANGED <<revision, outcome, about, sync, staff, baseline, waived, released>>

\* cancel_sales_order leaves the revision and its approval request alone.
CancelSalesOrder(p) ==
    /\ staff[p] = Idle
    /\ order.status # "CANCELLED"
    /\ SetOrderStatus("CANCELLED")
    /\ UNCHANGED <<revision, outcome, about, sync, staff, baseline, waived, released>>

\* create_project_from_sales_order as a command of its own.
CreateProject(p) ==
    /\ staff[p] = Idle
    /\ order.status = "RELEASED"
    /\ order.project
    /\ baseline' = order.current
    /\ UNCHANGED <<order, revision, outcome, about, sync, staff, waived, released>>

-----------------------------------------------------------------------------
(* The approval request and the callback after its decision *)

\* The approval engine decides a request once (ApprovalEngine!DecidedIsFinal).
Decide(a, verdict) ==
    /\ outcome[a] = "OPEN"
    /\ outcome' = [outcome EXCEPT ![a] = verdict]
    /\ sync' = [sync EXCEPT ![a].phase = "DUE"]
    /\ UNCHANGED <<order, revision, about, staff, baseline, waived, released>>

\* cancel_request of the engine: no subscriber handles its event.
Withdraw(a) ==
    /\ outcome[a] = "OPEN"
    /\ outcome' = [outcome EXCEPT ![a] = "CANCELLED"]
    /\ UNCHANGED <<order, revision, about, sync, staff, baseline, waived, released>>

\* Mutant: the engine's verdict is taken for a revision status.
RevisionAfterVerbatim(verdict) == verdict

RevisionAfter(verdict) ==
    CASE verdict = "APPROVED" -> "APPROVED"
      [] verdict = "RETURNED" -> "RETURNED"
      [] verdict = "REJECTED" -> "CANCELLED"

OrderAfter(verdict) ==
    CASE verdict = "APPROVED" -> "APPROVED"
      [] verdict = "RETURNED" -> "DRAFT"
      [] verdict = "REJECTED" -> "CANCELLED"

\* sync_sales_order_approval reads the revision, without a lock.
SyncRead(a) ==
    /\ sync[a].phase = "DUE"
    /\ sync' = [sync EXCEPT ![a] = [phase |-> "READ", row |-> revision[about[a]]]]
    /\ UNCHANGED <<order, revision, outcome, about, staff, baseline, waived, released>>

\* Mutant: returned requests are not synchronised.
SyncDroppingReturned(a) ==
    /\ sync[a].phase = "READ"
    /\ revision' = IF outcome[a] = "RETURNED" THEN revision
         ELSE [revision EXCEPT ![about[a]] = [sync[a].row EXCEPT !.status = RevisionAfter(outcome[a])]]
    /\ sync' = [sync EXCEPT ![a] = [phase |-> "SAVED", row |-> NoRow]]
    /\ UNCHANGED <<order, outcome, about, staff, baseline, waived, released>>

\* revision.save(): every column of the row it read.
SyncSaveRevision(a) ==
    /\ sync[a].phase = "READ"
    /\ revision' = [revision EXCEPT ![about[a]] =
         [sync[a].row EXCEPT !.status = RevisionAfter(outcome[a])]]
    /\ sync' = [sync EXCEPT ![a] = [phase |-> "SAVED", row |-> NoRow]]
    /\ UNCHANGED <<order, outcome, about, staff, baseline, waived, released>>

\* order.save(update_fields): the status, whatever it is by now.
SyncSaveOrder(a) ==
    /\ sync[a].phase = "SAVED"
    /\ order' = [order EXCEPT !.status = OrderAfter(outcome[a])]
    /\ sync' = [sync EXCEPT ![a].phase = "DONE"]
    /\ UNCHANGED <<revision, outcome, about, staff, baseline, waived, released>>

\* The process stops, or an error is swallowed by _dispatch_after_commit.
SyncLost(a) ==
    /\ MayFail
    /\ sync[a].phase \in {"DUE", "READ", "SAVED"}
    /\ sync' = [sync EXCEPT ![a] = [phase |-> "DONE", row |-> NoRow]]
    /\ UNCHANGED <<order, revision, outcome, about, staff, baseline, waived, released>>

-----------------------------------------------------------------------------

Sync(a) == SyncRead(a) \/ SyncSaveRevision(a) \/ SyncSaveOrder(a)

Command(p) ==
    \/ \E op \in Operation : Read(p, op)
    \/ Abort(p)
    \/ SubmitSalesOrder(p)
    \/ ReleaseSalesOrder(p)
    \/ CreateSalesOrderAmendment(p)
    \/ LinkCustomerPo(p)
    \/ ResumeSalesOrder(p)
    \/ UpdateSalesOrderDraft(p)
    \/ HoldSalesOrder(p)
    \/ CancelSalesOrder(p)
    \/ CreateProject(p)

Next ==
    \/ \E p \in Staff : Command(p)
    \/ \E a \in Request :
         \/ \E verdict \in Verdict : Decide(a, verdict)
         \/ Withdraw(a)
         \/ Sync(a)
         \/ SyncLost(a)

Spec == Init /\ [][Next]_vars

\* The callback runs in the thread that committed the decision, so it goes on
\* unless that process fails.
FairSpec == Spec /\ \A a \in Request : WF_vars(Sync(a))

\* The requests as the engine keeps them: the order asks, the engine decides.
Verdicts == INSTANCE ApprovalVerdict

-----------------------------------------------------------------------------
(* Properties *)

\* Nothing is released that nobody approved: an approver said yes to that very
\* revision or no workflow asked for one, and an order that calls itself
\* released stands on a revision that was (release_sales_order,
\* resume_sales_order, sync_sales_order_approval).
ReleasedWasApproved ==
    /\ \A n \in released :
         n \in waived \/ \E a \in Request : about[a] = n /\ outcome[a] = "APPROVED"
    /\ order.status = "RELEASED" => order.current \in released

\* Engineering's project is there as soon as a revision is released, and works
\* from the newest released one, even while an amendment is drafted
\* (create_project_from_sales_order).
BaselineIsNewestRelease ==
    /\ baseline # NoProject => baseline \in released
    /\ order.project => \A n \in released : n <= baseline

\* At most one undecided request asks about a revision (submit_sales_order).
OneUndecidedRequest ==
    \A a, b \in Request :
        outcome[a] = "OPEN" /\ outcome[b] = "OPEN" /\ about[a] = about[b] => a = b

\* A released revision is only ever superseded, and keeps its content
\* (release_sales_order, update_sales_order_draft, sync_sales_order_approval).
ReleasedIsImmutable ==
    [][\A n \in Revision : revision[n].status = "RELEASED" =>
         /\ revision'[n].status \in {"RELEASED", "SUPERSEDED"}
         /\ revision'[n].version = revision[n].version]_vars

\* The verdict on a request always gets to its revision and its order, which
\* stop being pending, as long as the process that took it goes on
\* (sync_sales_order_approval).
DecisionReachesOrder ==
    \A a \in Request :
        /\ sync[a].phase = "DUE" ~> revision[about[a]].status # "PENDING_APPROVAL"
        /\ sync[a].phase = "DUE" ~> order.status # "PENDING_APPROVAL"

=============================================================================
