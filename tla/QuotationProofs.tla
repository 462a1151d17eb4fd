-------------------------- MODULE QuotationProofs --------------------------
(***************************************************************************)
(* Theorems about Quotation for any number of requests, revisions and      *)
(* versions.                                                               *)
(***************************************************************************)
EXTENDS Quotation, TLAPS

Cleared(n) ==
    \/ n \in unchecked
    \/ \E a \in Request : about[a] = n /\ outcome[a] = "APPROVED"

\* Each status a revision can be sent from is a proof that it was cleared, and
\* whatever is frozen was.
StatusIsEarned ==
    \A n \in Revision :
        /\ revision[n].status = "READY_TO_SEND" => n \in unchecked
        /\ revision[n].status = "APPROVED" => Cleared(n)
        /\ revision[n].status = "SENT" => revision[n].frozen
        /\ revision[n].frozen => Cleared(n)

\* Nothing exists, and nothing is asked, beyond the current revision.
CurrentIsNewest ==
    /\ \A n \in Revision : n > quotation.current => revision[n] = NoRow
    /\ \A a \in Request : outcome[a] # "NONE" => about[a] <= quotation.current

\* A callback that has work to do has a verdict to carry.
SyncHasVerdict ==
    \A a \in Request : sync[a] \in {"DUE", "SAVED"} => outcome[a] \in Verdict

Shared == \E n \in Revision : n <= quotation.current /\ revision[n].frozen

\* The statuses a confirmation needs, the confirmation and the order follow
\* each other, and all come after something was sent.
AgreementInOrder ==
    /\ quotation.status \in Confirmable => Shared
    /\ confirmed # Nobody => Shared /\ confirmed <= quotation.current
    /\ ordered # Nobody => confirmed # Nobody /\ ordered <= confirmed
    /\ quotation.status = "READY_FOR_SALES_ORDER" => confirmed = quotation.current

IInv ==
    /\ TypeOK
    /\ StatusIsEarned
    /\ CurrentIsNewest
    /\ SyncHasVerdict
    /\ AgreementInOrder

LEMMA InitIInv == Init => IInv
<1> SUFFICES ASSUME Init PROVE IInv
  OBVIOUS
<1>0. 1 \in Revision
  BY BoundsAssumption DEF Revision
<1>1. NewRow \in RevisionRow /\ NoRow \in RevisionRow
  BY BoundsAssumption DEF NewRow, NoRow, RevisionRow, RevisionStatus
<1>2. TypeOK
  BY <1>0, <1>1 DEF Init, TypeOK, QuotationRow, QuotationStatus
<1>3. StatusIsEarned
  BY DEF Init, StatusIsEarned, Cleared, NewRow, NoRow
<1>4. CurrentIsNewest
  BY DEF Init, CurrentIsNewest, Revision
<1> QED
  BY <1>2, <1>3, <1>4
     DEF IInv, Init, SyncHasVerdict, AgreementInOrder, Confirmable, Nobody

-----------------------------------------------------------------------------
(* Types *)

LEMMA NextTypeOK == TypeOK /\ SyncHasVerdict /\ [Next]_vars => TypeOK'
<1> SUFFICES ASSUME TypeOK, SyncHasVerdict, [Next]_vars PROVE TypeOK'
  OBVIOUS
<1> USE DEF TypeOK, QuotationRow, QuotationStatus, RevisionRow, RevisionStatus, Verdict
<1>1. ASSUME NEW n \in Revision, UpdateRevision(n) PROVE TypeOK'
  <2>1. revision[n].version + 1 \in 0..MaxVersion
    BY <1>1, BoundsAssumption DEF UpdateRevision
  <2>2. [revision[n] EXCEPT !.version = @ + 1] \in RevisionRow
    BY <2>1
  <2> QED
    BY <1>1, <2>2 DEF UpdateRevision
<1>2. ASSUME NEW n \in Revision, NEW a \in Request, FinalizeForApproval(n, a) PROVE TypeOK'
  BY <1>2 DEF FinalizeForApproval
<1>3. ASSUME NEW n \in Revision, FinalizeUnchecked(n) \/ RecordCommunication(n) PROVE TypeOK'
  <2>1. CASE FinalizeUnchecked(n)
    BY <2>1 DEF FinalizeUnchecked
  <2>2. CASE RecordCommunication(n)
    <3>1. [revision[n] EXCEPT !.frozen = TRUE, !.status = "SENT"] \in RevisionRow
      BY ZenonT(60)
    <3>2. revision' = [revision EXCEPT ![n] =
            [revision[n] EXCEPT !.frozen = TRUE, !.status = "SENT"]]
      BY <2>2 DEF RecordCommunication
    <3> QED
      BY <2>2, <3>1, <3>2 DEF RecordCommunication
  <2> QED
    BY <1>3, <2>1, <2>2
<1>4. CASE CreateRevision
  <2>1. quotation.current + 1 \in Revision
    BY <1>4, BoundsAssumption DEF CreateRevision, Revision
  <2>2. NewRow \in RevisionRow
    BY BoundsAssumption DEF NewRow
  <2>3. Replaced(revision[quotation.current]) \in RevisionRow
    BY DEF Replaced
  <2> QED
    BY <1>4, <2>1, <2>2, <2>3 DEF CreateRevision
<1>5. CASE RecordNegotiation \/ ConfirmCustomer \/ MarkReadyForSalesOrder \/ CreateSalesOrder
  BY <1>5 DEF RecordNegotiation, ConfirmCustomer, MarkReadyForSalesOrder, CreateSalesOrder
<1>6. ASSUME NEW a \in Request, NEW verdict \in Verdict, Decide(a, verdict) PROVE TypeOK'
  BY <1>6 DEF Decide
<1>7. ASSUME NEW a \in Request, Withdraw(a) PROVE TypeOK'
  BY <1>7 DEF Withdraw
<1>8. ASSUME NEW a \in Request, Sync(a) PROVE TypeOK'
  <2>1. outcome[a] \in Verdict
    BY <1>8 DEF Sync, SyncRevision, SyncQuotation, SyncHasVerdict
  <2>2. CASE SyncRevision(a)
    <3>1. [revision[about[a]] EXCEPT !.status = outcome[a]] \in RevisionRow
      BY <2>1
    <3> QED
      BY <2>2, <3>1 DEF SyncRevision
  <2>3. CASE SyncQuotation(a)
    <3>1. QuotationAfter(outcome[a]) \in QuotationStatus
      BY <2>1 DEF QuotationAfter
    <3> QED
      BY <2>3, <3>1 DEF SyncQuotation
  <2> QED
    BY <1>8, <2>2, <2>3 DEF Sync
<1>9. CASE UNCHANGED vars
  BY <1>9 DEF vars
<1> QED
  BY <1>1, <1>2, <1>3, <1>4, <1>5, <1>6, <1>7, <1>8, <1>9 DEF Next

-----------------------------------------------------------------------------
(* What a step does to the requests and to one revision *)

\* A verdict, once given, and the revision it is about are kept.
LEMMA RequestsAreKept ==
    ASSUME TypeOK, [Next]_vars, NEW a \in Request, outcome[a] # "NONE"
    PROVE  /\ about'[a] = about[a]
           /\ outcome[a] # "OPEN" => outcome'[a] = outcome[a]
<1> USE DEF TypeOK
<1>1. ASSUME NEW n \in Revision, NEW b \in Request, FinalizeForApproval(n, b)
      PROVE  about'[a] = about[a] /\ outcome'[a] = outcome[a]
  BY <1>1 DEF FinalizeForApproval
<1>2. ASSUME NEW b \in Request,
             Withdraw(b) \/ \E verdict \in Verdict : Decide(b, verdict)
      PROVE  about'[a] = about[a] /\ (outcome[a] # "OPEN" => outcome'[a] = outcome[a])
  BY <1>2 DEF Withdraw, Decide
<1>3. CASE UNCHANGED <<about, outcome>>
  BY <1>3
<1> QED
  BY <1>1, <1>2, <1>3
     DEF Next, vars, UpdateRevision, FinalizeUnchecked, RecordCommunication,
         CreateRevision, RecordNegotiation, ConfirmCustomer, MarkReadyForSalesOrder,
         CreateSalesOrder, Sync, SyncRevision, SyncQuotation

\* A cleared revision stays cleared.
LEMMA ClearedStays ==
    ASSUME TypeOK, [Next]_vars, NEW n \in Revision, Cleared(n)
    PROVE  Cleared(n)'
<1>1. CASE n \in unchecked
  <2>1. unchecked \subseteq unchecked'
    BY DEF Next, vars, UpdateRevision, FinalizeForApproval, FinalizeUnchecked,
           RecordCommunication, CreateRevision, RecordNegotiation, ConfirmCustomer,
           MarkReadyForSalesOrder, CreateSalesOrder, Decide, Withdraw, Sync,
           SyncRevision, SyncQuotation
  <2> QED
    BY <1>1, <2>1 DEF Cleared
<1>2. ASSUME NEW a \in Request, about[a] = n, outcome[a] = "APPROVED" PROVE Cleared(n)'
  BY <1>2, RequestsAreKept DEF Cleared
<1> QED
  BY <1>1, <1>2 DEF Cleared

\* The current revision never becomes an older one.
LEMMA CurrentGrows ==
    ASSUME TypeOK, [Next]_vars
    PROVE  /\ quotation'.current \in Nat /\ quotation.current \in Nat
           /\ quotation.current <= quotation'.current
<1> USE DEF TypeOK, QuotationRow
<1>1. quotation.current \in Nat
  BY DEF Revision
<1>2. CASE CreateRevision
  BY <1>1, <1>2 DEF CreateRevision
<1>3. CASE quotation'.current = quotation.current
  BY <1>1, <1>3
<1> QED
  BY <1>1, <1>2, <1>3
     DEF Next, vars, UpdateRevision, FinalizeForApproval, FinalizeUnchecked,
         RecordCommunication, RecordNegotiation, ConfirmCustomer,
         MarkReadyForSalesOrder, CreateSalesOrder, Decide, Withdraw, Sync,
         SyncRevision, SyncQuotation

\* How one step can change one revision row.
Moves(n) ==
    \/ revision'[n] = revision[n]
    \/ /\ n <= quotation.current
       /\ ~revision[n].frozen
       /\ revision[n].status \in Editable
       /\ revision'[n].status = revision[n].status
       /\ ~revision'[n].frozen
    \/ /\ n <= quotation.current
       /\ ~revision[n].frozen
       /\ revision'[n].status = "IN_APPROVAL" /\ ~revision'[n].frozen
    \/ /\ n <= quotation.current
       /\ ~revision[n].frozen
       /\ revision'[n].status = "READY_TO_SEND" /\ ~revision'[n].frozen
       /\ n \in unchecked'
    \/ /\ n <= quotation.current
       /\ ~revision[n].frozen
       /\ revision[n].status \in Sendable
       /\ revision'[n].status = "SENT" /\ revision'[n].frozen
    \/ /\ n <= quotation.current
       /\ ~revision[n].frozen
       /\ revision'[n].status = "SUPERSEDED" /\ ~revision'[n].frozen
    \/ /\ n <= quotation'.current
       /\ ~revision[n].frozen
       /\ revision'[n].status = "DRAFT" /\ ~revision'[n].frozen
    \/ \E a \in Request :
       /\ about[a] = n /\ n <= quotation.current
       /\ outcome[a] \in Verdict
       /\ revision'[n].status = outcome[a]
       /\ revision'[n].frozen = revision[n].frozen
       /\ revision'[n].version = revision[n].version

LEMMA StepMoves ==
    ASSUME TypeOK, CurrentIsNewest, SyncHasVerdict, [Next]_vars, NEW n \in Revision
    PROVE  Moves(n)
<1> USE DEF TypeOK, QuotationRow, RevisionRow
<1>0. quotation.current \in Nat /\ quotation.current \in Revision /\ n \in Nat
  BY DEF Revision
<1>1. ASSUME NEW m \in Revision, UpdateRevision(m) PROVE Moves(n)
  BY <1>0, <1>1 DEF UpdateRevision, Moves
<1>2. ASSUME NEW m \in Revision, NEW a \in Request, FinalizeForApproval(m, a) PROVE Moves(n)
  BY <1>0, <1>2 DEF FinalizeForApproval, Finalizable, Moves
<1>3. ASSUME NEW m \in Revision, FinalizeUnchecked(m) PROVE Moves(n)
  BY <1>0, <1>3 DEF FinalizeUnchecked, Finalizable, Moves
<1>4. ASSUME NEW m \in Revision, RecordCommunication(m) PROVE Moves(n)
  <2>1. m <= quotation.current
    <3>1. revision[m] # NoRow
      BY <1>4 DEF RecordCommunication, NoRow, Sendable
    <3>2. ~(m > quotation.current)
      BY <3>1 DEF CurrentIsNewest
    <3> QED
      BY <1>0, <3>2 DEF Revision
  <2> QED
    BY <1>0, <1>4, <2>1 DEF RecordCommunication, Moves
<1>5. CASE CreateRevision
  <2> DEFINE source == quotation.current
  <2>1. source + 1 \in Revision /\ source + 1 # source /\ source + 1 > source
    BY <1>0, <1>5, BoundsAssumption DEF CreateRevision, Revision
  <2>2. revision[source + 1] = NoRow
    BY <2>1 DEF CurrentIsNewest
  <2>3. CASE n = source + 1
    <3>1. revision'[n] = NewRow /\ quotation'.current = n
      BY <1>5, <2>1, <2>3 DEF CreateRevision
    <3>2. n <= quotation'.current
      BY <1>0, <3>1
    <3>3. ~revision[n].frozen
      BY <2>2, <2>3 DEF NoRow
    <3>4. revision'[n].status = "DRAFT" /\ ~revision'[n].frozen
      BY <3>1 DEF NewRow
    <3> QED
      BY <3>2, <3>3, <3>4 DEF Moves
  <2>4. CASE n = source
    <3>1. revision'[n] = Replaced(revision[n])
      BY <1>5, <2>1, <2>4 DEF CreateRevision
    <3>2. n <= quotation.current
      BY <1>0, <2>4
    <3> QED
      BY <3>1, <3>2 DEF Replaced, Moves
  <2>5. CASE n # source /\ n # source + 1
    BY <1>5, <2>5 DEF CreateRevision, Moves
  <2> QED
    BY <2>3, <2>4, <2>5
<1>6. ASSUME NEW a \in Request, SyncRevision(a) PROVE Moves(n)
  <2>1. outcome[a] \in Verdict
    BY <1>6 DEF SyncRevision, SyncHasVerdict
  <2>2. about[a] <= quotation.current
    BY <2>1 DEF CurrentIsNewest, Verdict
  <2> QED
    BY <1>6, <2>1, <2>2 DEF SyncRevision, Moves
<1>7. CASE UNCHANGED revision
  BY <1>7 DEF Moves
<1> QED
  BY <1>1, <1>2, <1>3, <1>4, <1>5, <1>6, <1>7
     DEF Next, vars, RecordNegotiation, ConfirmCustomer, MarkReadyForSalesOrder,
         CreateSalesOrder, Decide, Withdraw, Sync, SyncQuotation

\* What is frozen stays frozen.
LEMMA FrozenStays ==
    ASSUME TypeOK, CurrentIsNewest, SyncHasVerdict, [Next]_vars,
           NEW n \in Revision, revision[n].frozen
    PROVE  revision'[n].frozen /\ revision'[n].version = revision[n].version
<1>1. Moves(n)
  BY StepMoves
<1> QED
  BY <1>1 DEF Moves

-----------------------------------------------------------------------------
(* The conjuncts of the invariant *)

LEMMA NextStatusIsEarned == IInv /\ [Next]_vars => StatusIsEarned'
<1> SUFFICES ASSUME IInv, [Next]_vars, NEW n \in Revision
             PROVE  /\ revision'[n].status = "READY_TO_SEND" => n \in unchecked'
                    /\ revision'[n].status = "APPROVED" => Cleared(n)'
                    /\ revision'[n].status = "SENT" => revision'[n].frozen
                    /\ revision'[n].frozen => Cleared(n)'
  BY DEF StatusIsEarned
<1>1. TypeOK /\ CurrentIsNewest /\ SyncHasVerdict /\ StatusIsEarned
  BY DEF IInv
<1>2. Moves(n)
  BY <1>1, StepMoves
<1>3. /\ revision[n].status = "READY_TO_SEND" => n \in unchecked
      /\ revision[n].status = "APPROVED" => Cleared(n)
      /\ revision[n].status = "SENT" => revision[n].frozen
      /\ revision[n].frozen => Cleared(n)
  BY <1>1 DEF StatusIsEarned
<1>4. Cleared(n) => Cleared(n)'
  BY <1>1, ClearedStays
<1>5. n \in unchecked => n \in unchecked'
  BY DEF Next, vars, UpdateRevision, FinalizeForApproval, FinalizeUnchecked,
         RecordCommunication, CreateRevision, RecordNegotiation, ConfirmCustomer,
         MarkReadyForSalesOrder, CreateSalesOrder, Decide, Withdraw, Sync,
         SyncRevision, SyncQuotation
<1>6. n \in unchecked => Cleared(n)
  BY DEF Cleared
<1>7. ASSUME NEW a \in Request, about[a] = n, outcome[a] = "APPROVED" PROVE Cleared(n)
  BY <1>7 DEF Cleared
<1> QED
  BY <1>2, <1>3, <1>4, <1>5, <1>6, <1>7 DEF Moves, Editable, Sendable, Verdict

LEMMA NextCurrentIsNewest == IInv /\ [Next]_vars => CurrentIsNewest'
<1> SUFFICES ASSUME IInv, [Next]_vars PROVE CurrentIsNewest'
  OBVIOUS
<1>0. TypeOK /\ CurrentIsNewest /\ SyncHasVerdict
  BY DEF IInv
<1>1. ASSUME NEW n \in Revision, n > quotation'.current PROVE revision'[n] = NoRow
  <2>1. ~(n <= quotation'.current) /\ ~(n <= quotation.current) /\ n > quotation.current
    BY <1>0, <1>1, CurrentGrows DEF Revision
  <2>2. revision[n] = NoRow
    BY <1>0, <2>1 DEF CurrentIsNewest
  <2>3. Moves(n)
    BY <1>0, StepMoves
  <2> QED
    BY <2>1, <2>2, <2>3 DEF Moves
<1>2. ASSUME NEW a \in Request, outcome'[a] # "NONE"
      PROVE  about'[a] <= quotation'.current
  <2>1. CASE outcome[a] # "NONE"
    <3>1. about'[a] = about[a] /\ about[a] <= quotation.current
      BY <1>0, <2>1, RequestsAreKept DEF CurrentIsNewest
    <3>2. about[a] \in Nat
      BY <1>0 DEF TypeOK, Revision
    <3> QED
      BY <1>0, <3>1, <3>2, CurrentGrows
  <2>2. CASE outcome[a] = "NONE"
    <3>1. PICK n \in Revision, b \in Request : FinalizeForApproval(n, b)
      BY <1>0, <1>2, <2>2
         DEF Next, vars, UpdateRevision, FinalizeUnchecked, RecordCommunication,
             CreateRevision, RecordNegotiation, ConfirmCustomer, MarkReadyForSalesOrder,
             CreateSalesOrder, Decide, Withdraw, Sync, SyncRevision, SyncQuotation, TypeOK
    <3>2. a = b
      BY <1>0, <1>2, <2>2, <3>1 DEF FinalizeForApproval, TypeOK
    <3>3. about'[a] = quotation.current
      BY <1>0, <3>1, <3>2 DEF FinalizeForApproval, Finalizable, TypeOK
    <3> QED
      BY <1>0, <3>3, CurrentGrows
  <2> QED
    BY <2>1, <2>2
<1> QED
  BY <1>1, <1>2 DEF CurrentIsNewest

LEMMA NextSyncHasVerdict == TypeOK /\ SyncHasVerdict /\ [Next]_vars => SyncHasVerdict'
<1> SUFFICES ASSUME TypeOK, SyncHasVerdict, [Next]_vars, NEW a \in Request,
                    sync'[a] \in {"DUE", "SAVED"}
             PROVE  outcome'[a] \in Verdict
  BY DEF SyncHasVerdict
<1>1. CASE sync[a] \in {"DUE", "SAVED"}
  <2>1. outcome[a] \in Verdict
    BY <1>1 DEF SyncHasVerdict
  <2> QED
    BY <2>1, RequestsAreKept DEF Verdict
<1>2. CASE sync[a] \notin {"DUE", "SAVED"}
  <2>1. PICK b \in Request, verdict \in Verdict : Decide(b, verdict)
    BY <1>2
       DEF Next, vars, UpdateRevision, FinalizeForApproval, FinalizeUnchecked,
           RecordCommunication, CreateRevision, RecordNegotiation, ConfirmCustomer,
           MarkReadyForSalesOrder, CreateSalesOrder, Withdraw, Sync, SyncRevision,
           SyncQuotation, TypeOK
  <2> QED
    BY <1>2, <2>1 DEF Decide, TypeOK
<1> QED
  BY <1>1, <1>2

\* Once something was sent it stays so.
LEMMA SharedStays ==
    ASSUME TypeOK, CurrentIsNewest, SyncHasVerdict, [Next]_vars, Shared
    PROVE  Shared'
<1>1. PICK n \in Revision : n <= quotation.current /\ revision[n].frozen
  BY DEF Shared
<1>2. n <= quotation'.current
  BY <1>1, CurrentGrows DEF Revision
<1>3. revision'[n].frozen
  BY <1>1, FrozenStays
<1> QED
  BY <1>1, <1>2, <1>3 DEF Shared

LEMMA NextAgreementInOrder == IInv /\ [Next]_vars => AgreementInOrder'
<1> SUFFICES ASSUME IInv, [Next]_vars PROVE AgreementInOrder'
  OBVIOUS
<1>0. TypeOK /\ CurrentIsNewest /\ SyncHasVerdict /\ AgreementInOrder
  BY DEF IInv
<1>1. Shared => Shared'
  BY <1>0, SharedStays
<1>2. /\ quotation.current \in Nat
      /\ quotation.current >= 1
      /\ confirmed \in Nat /\ ordered \in Nat
  BY <1>0 DEF TypeOK, QuotationRow, Revision, Nobody
<1> USE DEF AgreementInOrder, Confirmable
<1>3. CASE UNCHANGED <<quotation, confirmed, ordered>>
  BY <1>0, <1>1, <1>3
<1>4. ASSUME NEW n \in Revision, RecordCommunication(n) PROVE AgreementInOrder'
  <2>1. revision'[n].frozen
    BY <1>0, <1>4 DEF RecordCommunication, TypeOK, RevisionRow
  <2>2. n <= quotation.current
    BY <1>0, <1>4
       DEF RecordCommunication, CurrentIsNewest, NoRow, Sendable, Revision, TypeOK,
           QuotationRow
  <2>3. quotation'.current = quotation.current /\ quotation'.status = "SENT"
    BY <1>0, <1>4 DEF RecordCommunication, TypeOK, QuotationRow
  <2>4. Shared'
    BY <2>1, <2>2, <2>3 DEF Shared
  <2> QED
    BY <1>0, <1>4, <2>3, <2>4 DEF RecordCommunication
<1>5. CASE RecordNegotiation
  BY <1>0, <1>1, <1>5 DEF RecordNegotiation, TypeOK, QuotationRow
<1>6. CASE ConfirmCustomer
  <2>1. quotation'.current = quotation.current /\ quotation'.status = "ACCEPTED"
    BY <1>0, <1>6 DEF ConfirmCustomer, TypeOK, QuotationRow
  <2>2. Shared'
    BY <1>0, <1>1, <1>6 DEF ConfirmCustomer
  <2>3. confirmed' = quotation.current /\ ordered' = ordered
    BY <1>6 DEF ConfirmCustomer
  <2>4. ordered # Nobody => ordered <= quotation.current
    BY <1>0, <1>2
  <2> QED
    BY <1>2, <2>1, <2>2, <2>3, <2>4 DEF Nobody
<1>7. CASE MarkReadyForSalesOrder
  BY <1>0, <1>1, <1>7 DEF MarkReadyForSalesOrder, TypeOK, QuotationRow
<1>8. CASE CreateSalesOrder
  BY <1>0, <1>1, <1>2, <1>8 DEF CreateSalesOrder, Nobody
<1>9. CASE /\ quotation'.status \notin Confirmable \cup {"READY_FOR_SALES_ORDER"}
           /\ UNCHANGED <<confirmed, ordered>>
  <2>1. quotation.current <= quotation'.current /\ quotation'.current \in Nat
    BY <1>0, CurrentGrows
  <2> QED
    BY <1>0, <1>1, <1>2, <1>9, <2>1
<1>10. ASSUME NEW n \in Revision,
              FinalizeUnchecked(n) \/ \E a \in Request : FinalizeForApproval(n, a)
       PROVE  AgreementInOrder'
  BY <1>0, <1>9, <1>10 DEF FinalizeUnchecked, FinalizeForApproval, TypeOK, QuotationRow
<1>11. CASE CreateRevision
  BY <1>9, <1>11 DEF CreateRevision
<1>12. ASSUME NEW a \in Request, SyncQuotation(a) PROVE AgreementInOrder'
  <2>1. outcome[a] \in Verdict
    BY <1>0, <1>12 DEF SyncQuotation, SyncHasVerdict
  <2> QED
    BY <1>0, <1>9, <1>12, <2>1
       DEF SyncQuotation, QuotationAfter, Verdict, TypeOK, QuotationRow
<1> QED
  BY <1>3, <1>4, <1>5, <1>6, <1>7, <1>8, <1>10, <1>11, <1>12
     DEF Next, vars, UpdateRevision, Decide, Withdraw, Sync, SyncRevision

-----------------------------------------------------------------------------

LEMMA Inductive == Spec => []IInv
<1>1. IInv /\ [Next]_vars => IInv'
  BY NextTypeOK, NextStatusIsEarned, NextCurrentIsNewest, NextSyncHasVerdict,
     NextAgreementInOrder DEF IInv
<1> QED
  BY <1>1, InitIInv, PTL DEF Spec

\* All variables keep their types.
THEOREM TypeCorrect == Spec => []TypeOK
<1>1. IInv => TypeOK
  BY DEF IInv
<1> QED
  BY <1>1, Inductive, PTL

\* Nothing is sent that was not cleared.
THEOREM OnlyClearedIsSent == Spec => []SentWasCleared
<1>1. IInv => SentWasCleared
  BY DEF IInv, StatusIsEarned, SentWasCleared, Cleared
<1> QED
  BY <1>1, Inductive, PTL

\* Ready for a sales order means confirmed on the current revision.
THEOREM ReadyIsAgreed == Spec => []ReadyIsConfirmed
<1>1. IInv => ReadyIsConfirmed
  BY DEF IInv, AgreementInOrder, ReadyIsConfirmed
<1> QED
  BY <1>1, Inductive, PTL

\* No confirmation without a sent revision, and no order without confirmation.
THEOREM AgreementFollowsSending == Spec => []ConfirmedAfterSending
<1>1. IInv => ConfirmedAfterSending
  BY DEF IInv, AgreementInOrder, Shared, ConfirmedAfterSending
<1> QED
  BY <1>1, Inductive, PTL

\* What was sent never changes.
THEOREM SentIsKept == Spec => FrozenIsKept
<1>1. IInv /\ [Next]_vars =>
        [\A n \in Revision : revision[n].frozen =>
           revision'[n].frozen /\ revision'[n].version = revision[n].version]_vars
  BY FrozenStays DEF IInv
<1> QED
  BY <1>1, Inductive, PTL DEF Spec, FrozenIsKept

-----------------------------------------------------------------------------
(* The requests                                                              *)
LEMMA RequestsStep == [Next]_vars => [Verdicts!Next]_outcome
<1> SUFFICES ASSUME [Next]_vars PROVE Verdicts!Next \/ UNCHANGED outcome
  OBVIOUS
<1>1. ASSUME NEW n \in Revision, NEW a \in Request, FinalizeForApproval(n, a) PROVE Verdicts!Next
  BY <1>1 DEF FinalizeForApproval, Verdicts!Next, Verdicts!Ask
<1>2. ASSUME NEW n \in Revision, UpdateRevision(n) \/ FinalizeUnchecked(n) \/ RecordCommunication(n)
      PROVE  UNCHANGED outcome
  BY <1>2 DEF UpdateRevision, FinalizeUnchecked, RecordCommunication
<1>3. ASSUME \/ CreateRevision \/ RecordNegotiation \/ ConfirmCustomer
             \/ MarkReadyForSalesOrder \/ CreateSalesOrder
      PROVE  UNCHANGED outcome
  BY <1>3 DEF CreateRevision, RecordNegotiation, ConfirmCustomer, MarkReadyForSalesOrder, CreateSalesOrder
<1>4. ASSUME NEW a \in Request, NEW verdict \in Verdict, Decide(a, verdict) PROVE Verdicts!Next
  BY <1>4 DEF Decide, Verdicts!Next, Verdicts!Decide
<1>5. ASSUME NEW a \in Request, Withdraw(a) PROVE Verdicts!Next
  BY <1>5 DEF Withdraw, Verdicts!Next, Verdicts!Withdraw
<1>6. ASSUME NEW a \in Request, Sync(a) PROVE UNCHANGED outcome
  BY <1>6 DEF Sync, SyncRevision, SyncQuotation
<1> QED
  BY <1>1, <1>2, <1>3, <1>4, <1>5, <1>6 DEF Next, vars

\* The quotation asks for approval as ApprovalVerdict allows, and what it
\* believes of the engine is no more than that (finalize_revision,
\* sync_quotation_approval); EngineKeepsItsWord is the engine's side.
THEOREM QuotationRestsOnVerdicts == Spec => Verdicts!Spec
<1>1. Init => Verdicts!Init
  BY DEF Init, Verdicts!Init
<1> QED
  BY <1>1, RequestsStep, PTL DEF Spec, Verdicts!Spec

=============================================================================
