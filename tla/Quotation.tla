----------------------------- MODULE Quotation -----------------------------
(***************************************************************************)
(* One quotation, its numbered revisions, their approval requests, the     *)
(* customer's confirmation and the sales order made from it                *)
(* (backend/apps/quotations).                                              *)
(*                                                                         *)
(* Every command locks the quotation row, and the revision row when it     *)
(* changes it, and reads both after the lock, so a command is one step.    *)
(* Only the callback that carries the verdict on an approval request to    *)
(* the quotation takes no lock: it updates the status of the revision and  *)
(* that of the quotation in two commits, after the commit of the decision. *)
(***************************************************************************)
EXTENDS Integers, FiniteSets

CONSTANTS
    Request,      \* approval requests that may be created for the quotation
    MaxRevision,  \* bound: the highest revision number
    MaxVersion    \* bound: the highest record_version of a revision

ASSUME BoundsAssumption ==
    MaxRevision \in Nat \ {0} /\ MaxVersion \in Nat \ {0}

Revision == 1..MaxRevision
Nobody == 0  \* no revision

VARIABLES
    quotation,  \* the Quotation row
    revision,   \* the QuotationRevision rows by revision_number
    outcome,    \* verdict of each approval request
    about,      \* revision each request is about (entity_id)
    sync,       \* progress of sync_quotation_approval for each request
    confirmed,  \* CustomerCommercialConfirmation.revision, or Nobody
    ordered,    \* the sales order's source_quotation_revision, or Nobody
    unchecked   \* history: revisions finalized without a workflow

vars == <<quotation, revision, outcome, about, sync, confirmed, ordered, unchecked>>

\* EXPIRED and CANCELLED are declared, but no code sets them.
QuotationStatus ==
    {"DRAFT", "IN_APPROVAL", "APPROVED", "READY_TO_SEND", "SENT",
     "UNDER_NEGOTIATION", "ACCEPTED", "REJECTED", "READY_FOR_SALES_ORDER"}

RevisionStatus ==
    {"NONE", "DRAFT", "IN_APPROVAL", "APPROVED", "READY_TO_SEND", "SENT",
     "SUPERSEDED", "RETURNED", "REJECTED"}

Verdict == {"APPROVED", "REJECTED", "RETURNED"}

QuotationRow == [status : QuotationStatus, current : Revision]

\* version: record_version, 0 while there is no row; frozen: frozen_at is set.
RevisionRow == [status : RevisionStatus, version : 0..MaxVersion, frozen : BOOLEAN]

NoRow == [status |-> "NONE", version |-> 0, frozen |-> FALSE]
NewRow == [status |-> "DRAFT", version |-> 1, frozen |-> FALSE]

TypeOK ==
    /\ quotation \in QuotationRow
    /\ revision \in [Revision -> RevisionRow]
    /\ outcome \in [Request -> {"NONE", "OPEN", "CANCELLED"} \cup Verdict]
    /\ about \in [Request -> Revision]
    /\ sync \in [Request -> {"NONE", "DUE", "SAVED", "DONE"}]
    /\ confirmed \in Revision \cup {Nobody}
    /\ ordered \in Revision \cup {Nobody}
    /\ unchecked \subseteq Revision

\* create_quotation
Init ==
    /\ quotation = [status |-> "DRAFT", current |-> 1]
    /\ revision = [n \in Revision |-> IF n = 1 THEN NewRow ELSE NoRow]
    /\ outcome = [a \in Request |-> "NONE"]
    /\ about = [a \in Request |-> 1]
    /\ sync = [a \in Request |-> "NONE"]
    /\ confirmed = Nobody
    /\ ordered = Nobody
    /\ unchecked = {}

Editable == {"DRAFT", "RETURNED"}

-----------------------------------------------------------------------------
(* Commands *)

\* Mutant: the status is trusted to say that a revision is not frozen.
UpdateByStatus(n) ==
    /\ n = quotation.current
    /\ revision[n].status \in Editable
    /\ revision[n].version < MaxVersion
    /\ revision' = [revision EXCEPT ![n].version = @ + 1]
    /\ UNCHANGED <<quotation, outcome, about, sync, confirmed, ordered, unchecked>>

\* The editor must have seen the version that is stored; the new one is the
\* next.  Bound: MaxVersion.
UpdateRevision(n) ==
    /\ n = quotation.current
    /\ ~revision[n].frozen
    /\ revision[n].status \in Editable
    /\ revision[n].version < MaxVersion
    /\ revision' = [revision EXCEPT ![n].version = @ + 1]
    /\ UNCHANGED <<quotation, outcome, about, sync, confirmed, ordered, unchecked>>

Finalizable(n) == n = quotation.current /\ ~revision[n].frozen

\* finalize_revision with a workflow_id: an approval request is created.
FinalizeForApproval(n, a) ==
    /\ Finalizable(n)
    /\ outcome[a] = "NONE"
    /\ revision' = [revision EXCEPT ![n].status = "IN_APPROVAL"]
    /\ quotation' = [quotation EXCEPT !.status = "IN_APPROVAL"]
    /\ outcome' = [outcome EXCEPT ![a] = "OPEN"]
    /\ about' = [about EXCEPT ![a] = n]
    /\ UNCHANGED <<sync, confirmed, ordered, unchecked>>

\* finalize_revision without: the caller decides.
FinalizeUnchecked(n) ==
    /\ Finalizable(n)
    /\ revision' = [revision EXCEPT ![n].status = "READY_TO_SEND"]
    /\ quotation' = [quotation EXCEPT !.status = "READY_TO_SEND"]
    /\ unchecked' = unchecked \cup {n}
    /\ UNCHANGED <<outcome, about, sync, confirmed, ordered>>

\* The row a new revision leaves behind.
Replaced(row) ==
    IF ~row.frozen /\ row.status \in Editable
    THEN [row EXCEPT !.status = "SUPERSEDED"] ELSE row

\* Bound: MaxRevision.
CreateRevision ==
    LET source == quotation.current IN
    /\ source < MaxRevision
    /\ revision' = [revision EXCEPT ![source] = Replaced(@), ![source + 1] = NewRow]
    /\ quotation' = [status |-> "DRAFT", current |-> source + 1]
    /\ UNCHANGED <<outcome, about, sync, confirmed, ordered, unchecked>>

\* Mutant: a revision in approval can be sent.
SendableUnapproved == {"IN_APPROVAL", "READY_TO_SEND", "APPROVED", "SENT"}

Sendable == {"READY_TO_SEND", "APPROVED", "SENT"}

\* record_communication, OUTBOUND, on any revision not frozen yet.  On a frozen
\* one, and INBOUND, it only adds a QuotationCommunication.
RecordCommunication(n) ==
    /\ revision[n].status \in Sendable
    /\ ~revision[n].frozen
    /\ revision' = [revision EXCEPT ![n].frozen = TRUE, ![n].status = "SENT"]
    /\ quotation' = [quotation EXCEPT !.status = "SENT"]
    /\ UNCHANGED <<outcome, about, sync, confirmed, ordered, unchecked>>

RecordNegotiation ==
    /\ quotation.status \in {"SENT", "UNDER_NEGOTIATION"}
    /\ quotation' = [quotation EXCEPT !.status = "UNDER_NEGOTIATION"]
    /\ UNCHANGED <<revision, outcome, about, sync, confirmed, ordered, unchecked>>

\* Mutant: a confirmation is taken as soon as the quotation is ready.
ConfirmableReady == {"READY_TO_SEND", "SENT", "UNDER_NEGOTIATION", "ACCEPTED"}

Confirmable == {"SENT", "UNDER_NEGOTIATION", "ACCEPTED"}

\* confirm_customer: one confirmation row, moved to the current revision.
ConfirmCustomer ==
    /\ quotation.status \in Confirmable
    /\ confirmed' = quotation.current
    /\ quotation' = [quotation EXCEPT !.status = "ACCEPTED"]
    /\ UNCHANGED <<revision, outcome, about, sync, ordered, unchecked>>

MarkReadyForSalesOrder ==
    /\ confirmed = quotation.current
    /\ quotation' = [quotation EXCEPT !.status = "READY_FOR_SALES_ORDER"]
    /\ UNCHANGED <<revision, outcome, about, sync, confirmed, ordered, unchecked>>

\* create_sales_order_from_quotation: a second call returns the order there is.
CreateSalesOrder ==
    /\ ordered = Nobody
    /\ quotation.status = "READY_FOR_SALES_ORDER"
    /\ confirmed = quotation.current
    /\ ordered' = quotation.current
    /\ UNCHANGED <<quotation, revision, outcome, about, sync, confirmed, unchecked>>

-----------------------------------------------------------------------------
(* The approval request and the callback after its decision *)

\* The approval engine decides a request once (ApprovalEngine!DecidedIsFinal).
Decide(a, verdict) ==
    /\ outcome[a] = "OPEN"
    /\ outcome' = [outcome EXCEPT ![a] = verdict]
    /\ sync' = [sync EXCEPT ![a] = "DUE"]
    /\ UNCHANGED <<quotation, revision, about, confirmed, ordered, unchecked>>

\* cancel_request of the engine: no subscriber handles its event.
Withdraw(a) ==
    /\ outcome[a] = "OPEN"
    /\ outcome' = [outcome EXCEPT ![a] = "CANCELLED"]
    /\ UNCHANGED <<quotation, revision, about, sync, confirmed, ordered, unchecked>>

\* Mutant: the revision's status is taken for the quotation's.
QuotationAfterVerbatim(verdict) == verdict

\* The revision's status is the verdict; a returned quotation is a draft again.
QuotationAfter(verdict) == IF verdict = "RETURNED" THEN "DRAFT" ELSE verdict

\* Mutant: a request that was returned changes no revision.
SyncDroppingReturned(a) ==
    /\ sync[a] = "DUE"
    /\ revision' = IF outcome[a] = "RETURNED" THEN revision
                   ELSE [revision EXCEPT ![about[a]].status = outcome[a]]
    /\ sync' = [sync EXCEPT ![a] = "SAVED"]
    /\ UNCHANGED <<quotation, outcome, about, confirmed, ordered, unchecked>>

\* sync_quotation_approval, first commit: the revision the request names,
\* whatever has become of it.
SyncRevision(a) ==
    /\ sync[a] = "DUE"
    /\ revision' = [revision EXCEPT ![about[a]].status = outcome[a]]
    /\ sync' = [sync EXCEPT ![a] = "SAVED"]
    /\ UNCHANGED <<quotation, outcome, about, confirmed, ordered, unchecked>>

\* Second commit: its quotation, whatever its current revision.
SyncQuotation(a) ==
    /\ sync[a] = "SAVED"
    /\ quotation' = [quotation EXCEPT !.status = QuotationAfter(outcome[a])]
    /\ sync' = [sync EXCEPT ![a] = "DONE"]
    /\ UNCHANGED <<revision, outcome, about, confirmed, ordered, unchecked>>

-----------------------------------------------------------------------------

Sync(a) == SyncRevision(a) \/ SyncQuotation(a)

Next ==
    \/ \E n \in Revision :
         \/ UpdateRevision(n)
         \/ \E a \in Request : FinalizeForApproval(n, a)
         \/ FinalizeUnchecked(n)
         \/ RecordCommunication(n)
    \/ CreateRevision
    \/ RecordNegotiation
    \/ ConfirmCustomer
    \/ MarkReadyForSalesOrder
    \/ CreateSalesOrder
    \/ \E a \in Request :
         \/ \E verdict \in Verdict : Decide(a, verdict)
         \/ Withdraw(a)
         \/ Sync(a)

Spec == Init /\ [][Next]_vars

\* The callback runs in the thread that committed the decision, so it goes on
\* unless that process fails or an error is swallowed: under Spec alone it may
\* stop anywhere for good.
FairSpec == Spec /\ \A a \in Request : WF_vars(Sync(a))

\* The requests as the engine keeps them: the quotation asks, the engine decides.
Verdicts == INSTANCE ApprovalVerdict

-----------------------------------------------------------------------------
(* Properties *)

\* What went to the customer had been cleared: every frozen revision was
\* approved by a request about it, or finalized without a workflow, even when
\* verdicts arrive late and requests overlap (record_communication).
SentWasCleared ==
    \A n \in Revision : revision[n].frozen =>
        \/ n \in unchecked
        \/ \E a \in Request : about[a] = n /\ outcome[a] = "APPROVED"

\* A quotation that calls itself ready for a sales order is confirmed on its
\* current revision, whatever revisions and verdicts have come meanwhile
\* (mark_ready_for_sales_order, create_revision, sync_quotation_approval).
ReadyIsConfirmed ==
    quotation.status = "READY_FOR_SALES_ORDER" => confirmed = quotation.current

\* No customer is recorded as agreeing to a quotation of which nothing was
\* ever sent, and no order exists without that agreement, whatever the late
\* verdicts made of the statuses (confirm_customer,
\* create_sales_order_from_quotation).
ConfirmedAfterSending ==
    /\ confirmed # Nobody =>
         \E n \in Revision : n <= quotation.current /\ revision[n].frozen
    /\ ordered # Nobody => confirmed # Nobody /\ ordered <= confirmed

\* The content the customer was shown never changes afterwards, although a
\* late verdict may make the status of a frozen revision editable again
\* (update_revision, sync_quotation_approval).
FrozenIsKept ==
    [][\A n \in Revision : revision[n].frozen =>
         revision'[n].frozen /\ revision'[n].version = revision[n].version]_vars

\* A revision leaves approval once every request about it is decided, as long
\* as the deciding process goes on (sync_quotation_approval).
DecisionReachesRevision ==
    \A a \in Request :
        sync[a] = "DUE" ~>
            \/ revision[about[a]].status # "IN_APPROVAL"
            \/ \E b \in Request :
                 about[b] = about[a] /\ outcome[b] \in {"OPEN", "CANCELLED"}

=============================================================================
