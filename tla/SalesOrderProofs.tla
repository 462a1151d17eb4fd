-------------------------- MODULE SalesOrderProofs --------------------------
(***************************************************************************)
(* Proofs about SalesOrder, for any staff, requests and numbers of         *)
(* revisions and versions.  Types, releases and the baseline hold although *)
(* commands act on revisions read before the lock; that requests stay alone*)
(* and releases immutable needs commands that do not overlap.              *)
(***************************************************************************)
EXTENDS SalesOrder, TLAPS

LEMMA Constants == MaxRevision \in Nat /\ MaxVersion \in Nat /\ 1 <= MaxVersion /\ 0 \in Revision
BY BoundsAssumption DEF Revision

LEMMA Rows ==
    /\ NoRow \in RevisionRow /\ NewRow \in RevisionRow
    /\ Idle \in [op : Operation \cup {"idle"}, on : Revision, row : RevisionRow]
BY Constants DEF NoRow, NewRow, Idle, RevisionRow, RevisionStatus, Operation

LEMMA StatusTypes ==
    ASSUME NEW row \in RevisionRow, NEW status \in RevisionStatus
    PROVE  [row EXCEPT !.status = status] \in RevisionRow
BY DEF RevisionRow

LEMMA VersionTypes ==
    ASSUME NEW row \in RevisionRow, NEW version \in 0..MaxVersion
    PROVE  [row EXCEPT !.version = version] \in RevisionRow
BY DEF RevisionRow

LEMMA OrderTypes ==
    ASSUME NEW row \in OrderRow, NEW status \in OrderStatus
    PROVE  [row EXCEPT !.status = status] \in OrderRow
BY DEF OrderRow

LEMMA VerdictTypes ==
    ASSUME NEW verdict \in Verdict
    PROVE  RevisionAfter(verdict) \in RevisionStatus /\ OrderAfter(verdict) \in OrderStatus
BY DEF Verdict, RevisionAfter, OrderAfter, RevisionStatus, OrderStatus

-----------------------------------------------------------------------------
(* Types *)

\* A callback runs only for a request that has its verdict.
VerdictFirst == \A a \in Request : sync[a].phase # "NONE" => outcome[a] \in Verdict

\* What a worker holds was accepted for the command it is about to run.
ReadWasAccepted == \A p \in Staff : staff[p].op # "idle" => Accepts(staff[p].op, staff[p].row)

TInv == TypeOK /\ VerdictFirst /\ ReadWasAccepted

LEMMA TInit == Init => TInv
<1> SUFFICES ASSUME Init PROVE TInv
  OBVIOUS
<1>1. order \in OrderRow
  BY Constants DEF Init, OrderRow, OrderStatus
<1>2. revision \in [Revision -> RevisionRow]
  BY Rows DEF Init
<1>3. sync \in [Request -> [phase : {"NONE", "DUE", "READ", "SAVED", "DONE"}, row : RevisionRow]]
  BY Rows DEF Init
<1>4. staff \in [Staff -> [op : Operation \cup {"idle"}, on : Revision, row : RevisionRow]]
  BY Rows DEF Init
<1>5. TypeOK
  BY <1>1, <1>2, <1>3, <1>4, Constants DEF Init, TypeOK
<1>6. VerdictFirst /\ ReadWasAccepted
  BY DEF Init, VerdictFirst, ReadWasAccepted, Idle
<1> QED
  BY <1>5, <1>6 DEF TInv

\* The worker is idle again, the others are where they were.
LEMMA DoneTypes ==
    ASSUME TInv, NEW p \in Staff, Done(p)
    PROVE  /\ staff' \in [Staff -> [op : Operation \cup {"idle"}, on : Revision, row : RevisionRow]]
           /\ ReadWasAccepted'
<1>1. staff' \in [Staff -> [op : Operation \cup {"idle"}, on : Revision, row : RevisionRow]]
  BY Rows DEF TInv, TypeOK, Done
<1>2. ReadWasAccepted'
  BY DEF TInv, TypeOK, Done, ReadWasAccepted, Idle
<1> QED
  BY <1>1, <1>2

LEMMA CommandTypes ==
    ASSUME TInv, NEW p \in Staff, Command(p)
    PROVE  TInv'
<1>1. ASSUME NEW op \in Operation, Read(p, op) PROVE TInv'
  <2>1. /\ order.current \in Revision /\ revision[order.current] \in RevisionRow
        /\ Accepts(op, revision[order.current])
    BY <1>1 DEF TInv, TypeOK, OrderRow, Read
  <2>2. staff' = [staff EXCEPT ![p] = [op |-> op, on |-> order.current, row |-> revision[order.current]]]
    BY <1>1 DEF Read
  <2>3. staff' \in [Staff -> [op : Operation \cup {"idle"}, on : Revision, row : RevisionRow]]
    BY <2>1, <2>2 DEF TInv, TypeOK
  <2>4. ReadWasAccepted'
    BY <2>1, <2>2 DEF TInv, TypeOK, ReadWasAccepted
  <2> QED
    BY <1>1, <2>3, <2>4 DEF TInv, TypeOK, VerdictFirst, Read
<1>2. CASE Abort(p)
  BY <1>2, DoneTypes DEF TInv, TypeOK, VerdictFirst, Abort
<1>3. CASE SubmitSalesOrder(p)
  <2>1. /\ staff[p].row \in RevisionRow /\ staff[p].on \in Revision
        /\ order' \in OrderRow /\ revision' \in [Revision -> RevisionRow]
    <3>1. staff[p].row \in RevisionRow /\ staff[p].on \in Revision
      BY DEF TInv, TypeOK
    <3>2. PICK status \in {"PENDING_APPROVAL", "APPROVED"} :
            /\ revision' = [revision EXCEPT ![staff[p].on] = [staff[p].row EXCEPT !.status = status]]
            /\ order' = [order EXCEPT !.status = status]
      BY <1>3 DEF SubmitSalesOrder, SubmitForApproval, SubmitUnchecked, SaveRow, SetOrderStatus
    <3>3. status \in RevisionStatus /\ status \in OrderStatus
      BY <3>2 DEF RevisionStatus, OrderStatus
    <3>4. [staff[p].row EXCEPT !.status = status] \in RevisionRow
      BY <3>1, <3>3, StatusTypes
    <3>5. order' \in OrderRow
      BY <3>2, <3>3, OrderTypes DEF TInv, TypeOK
    <3>6. revision' \in [Revision -> RevisionRow]
      BY <3>1, <3>2, <3>4 DEF TInv, TypeOK
    <3> QED
      BY <3>1, <3>5, <3>6
  <2>2. /\ outcome' \in [Request -> {"NONE", "OPEN", "CANCELLED"} \cup Verdict]
        /\ about' \in [Request -> Revision]
        /\ waived' \subseteq Revision /\ VerdictFirst'
    <3>1. CASE SubmitForApproval(p)
      <4>1. PICK a \in Request :
              /\ outcome[a] = "NONE"
              /\ outcome' = [outcome EXCEPT ![a] = "OPEN"]
              /\ about' = [about EXCEPT ![a] = staff[p].on]
        BY <3>1 DEF SubmitForApproval
      <4>2. sync[a].phase = "NONE"
        BY <4>1 DEF TInv, VerdictFirst, Verdict
      <4>3. sync' = sync /\ waived' = waived
        BY <1>3, <3>1 DEF SubmitSalesOrder, SubmitForApproval
      <4>4. VerdictFirst'
        BY <4>1, <4>2, <4>3 DEF TInv, TypeOK, VerdictFirst
      <4> QED
        BY <2>1, <4>1, <4>3, <4>4 DEF TInv, TypeOK
    <3>2. CASE SubmitUnchecked(p)
      BY <1>3, <2>1, <3>2 DEF SubmitSalesOrder, SubmitUnchecked, TInv, TypeOK, VerdictFirst
    <3> QED
      BY <1>3, <3>1, <3>2 DEF SubmitSalesOrder
  <2> QED
    BY <1>3, <2>1, <2>2, DoneTypes DEF SubmitSalesOrder, TInv, TypeOK
<1>4. CASE ReleaseSalesOrder(p)
  <2>1. order.current \in Revision /\ "RELEASED" \in RevisionStatus /\ "RELEASED" \in OrderStatus
    BY DEF TInv, TypeOK, OrderRow, RevisionStatus, OrderStatus
  <2>2. revision' = [revision EXCEPT ![order.current] = [revision[order.current] EXCEPT !.status = "RELEASED"]]
    BY <1>4, <2>1 DEF ReleaseSalesOrder, TInv, TypeOK
  <2>3. [revision[order.current] EXCEPT !.status = "RELEASED"] \in RevisionRow
    BY <2>1, StatusTypes DEF TInv, TypeOK
  <2>4. revision' \in [Revision -> RevisionRow]
    BY <2>1, <2>2, <2>3 DEF TInv, TypeOK
  <2>5. order' \in OrderRow
    BY <1>4, <2>1, OrderTypes DEF ReleaseSalesOrder, TInv, TypeOK
  <2>6. baseline' \in Revision \cup {NoProject} /\ released' \subseteq Revision
    BY <1>4, <2>1 DEF ReleaseSalesOrder, TInv, TypeOK
  <2> QED
    BY <1>4, <2>4, <2>5, <2>6, DoneTypes DEF ReleaseSalesOrder, TInv, TypeOK, VerdictFirst
<1>5. CASE CreateSalesOrderAmendment(p)
  <2>1. /\ order.current \in Revision /\ order.current + 1 \in Revision
        /\ "SUPERSEDED" \in RevisionStatus /\ "DRAFT" \in OrderStatus
    BY <1>5, Constants DEF CreateSalesOrderAmendment, TInv, TypeOK, OrderRow, Revision,
                           RevisionStatus, OrderStatus
  <2>2. [revision[order.current] EXCEPT !.status = "SUPERSEDED"] \in RevisionRow
    BY <2>1, StatusTypes DEF TInv, TypeOK
  <2>3. revision' \in [Revision -> RevisionRow]
    BY <1>5, <2>1, <2>2, Rows DEF CreateSalesOrderAmendment, TInv, TypeOK
  <2>4. order' \in OrderRow
    BY <1>5, <2>1 DEF CreateSalesOrderAmendment, TInv, TypeOK, OrderRow
  <2> QED
    BY <1>5, <2>3, <2>4, DoneTypes DEF CreateSalesOrderAmendment, TInv, TypeOK, VerdictFirst
<1>6. CASE LinkCustomerPo(p)
  <2>1. order' \in OrderRow
    BY <1>6 DEF LinkCustomerPo, TInv, TypeOK, OrderRow
  <2>2. revision' \in [Revision -> RevisionRow]
    <3>1. CASE UNCHANGED revision
      BY <3>1 DEF TInv, TypeOK
    <3>2. CASE ~UNCHANGED revision
      <4>1. /\ staff[p].row.version < MaxVersion
            /\ revision' = [revision EXCEPT ![order.current].version = staff[p].row.version + 1]
        BY <1>6, <3>2 DEF LinkCustomerPo
      <4>2. order.current \in Revision /\ staff[p].row.version + 1 \in 0..MaxVersion
        BY <4>1, Constants DEF TInv, TypeOK, OrderRow, RevisionRow
      <4>3. [revision[order.current] EXCEPT !.version = staff[p].row.version + 1] \in RevisionRow
        BY <4>2, VersionTypes DEF TInv, TypeOK
      <4> QED
        BY <4>1, <4>2, <4>3 DEF TInv, TypeOK
    <3> QED
      BY <3>1, <3>2
  <2> QED
    BY <1>6, <2>1, <2>2, DoneTypes DEF LinkCustomerPo, TInv, TypeOK, VerdictFirst
<1>7. CASE ResumeSalesOrder(p)
  <2>1. order' \in OrderRow
    BY <1>7, OrderTypes DEF ResumeSalesOrder, TInv, TypeOK, OrderStatus
  <2> QED
    BY <1>7, <2>1, DoneTypes DEF ResumeSalesOrder, TInv, TypeOK, VerdictFirst
<1>8. CASE UpdateSalesOrderDraft(p)
  <2>1. order.current \in Revision /\ revision[order.current].version + 1 \in 0..MaxVersion
    BY <1>8, Constants DEF UpdateSalesOrderDraft, TInv, TypeOK, OrderRow, RevisionRow
  <2>2. [revision[order.current] EXCEPT !.version = revision[order.current].version + 1] \in RevisionRow
    BY <2>1, VersionTypes DEF TInv, TypeOK
  <2>3. revision' \in [Revision -> RevisionRow]
    BY <1>8, <2>1, <2>2 DEF UpdateSalesOrderDraft, TInv, TypeOK
  <2> QED
    BY <1>8, <2>3 DEF UpdateSalesOrderDraft, TInv, TypeOK, VerdictFirst, ReadWasAccepted
<1>9. CASE HoldSalesOrder(p) \/ CancelSalesOrder(p)
  <2>1. order' \in OrderRow
    BY <1>9, OrderTypes DEF HoldSalesOrder, CancelSalesOrder, SetOrderStatus, TInv, TypeOK, OrderStatus
  <2> QED
    BY <1>9, <2>1 DEF HoldSalesOrder, CancelSalesOrder, TInv, TypeOK, VerdictFirst, ReadWasAccepted
<1>10. CASE CreateProject(p)
  BY <1>10 DEF CreateProject, TInv, TypeOK, OrderRow, VerdictFirst, ReadWasAccepted
<1> QED
  BY <1>1, <1>2, <1>3, <1>4, <1>5, <1>6, <1>7, <1>8, <1>9, <1>10 DEF Command

RequestStep(a) ==
    (\E verdict \in Verdict : Decide(a, verdict)) \/ Withdraw(a) \/ Sync(a) \/ SyncLost(a)

LEMMA RequestTypes ==
    ASSUME TInv, NEW a \in Request, RequestStep(a)
    PROVE  TInv'
<1>1. ASSUME NEW verdict \in Verdict, Decide(a, verdict) PROVE TInv'
  BY <1>1 DEF Decide, TInv, TypeOK, VerdictFirst, ReadWasAccepted
<1>2. CASE Withdraw(a)
  BY <1>2 DEF Withdraw, TInv, TypeOK, VerdictFirst, ReadWasAccepted, Verdict
<1>3. CASE SyncRead(a)
  <2>1. revision[about[a]] \in RevisionRow
    BY DEF TInv, TypeOK
  <2> QED
    BY <1>3, <2>1 DEF SyncRead, TInv, TypeOK, VerdictFirst, ReadWasAccepted
<1>4. CASE SyncSaveRevision(a)
  <2>1. outcome[a] \in Verdict /\ sync[a].row \in RevisionRow /\ about[a] \in Revision
    BY <1>4 DEF SyncSaveRevision, TInv, TypeOK, VerdictFirst
  <2>2. [sync[a].row EXCEPT !.status = RevisionAfter(outcome[a])] \in RevisionRow
    BY <2>1, VerdictTypes, StatusTypes
  <2>3. revision' \in [Revision -> RevisionRow]
    BY <1>4, <2>1, <2>2 DEF SyncSaveRevision, TInv, TypeOK
  <2> QED
    BY <1>4, <2>1, <2>3, Rows DEF SyncSaveRevision, TInv, TypeOK, VerdictFirst, ReadWasAccepted
<1>5. CASE SyncSaveOrder(a)
  <2>1. outcome[a] \in Verdict
    BY <1>5 DEF SyncSaveOrder, TInv, VerdictFirst
  <2>2. order' \in OrderRow
    BY <1>5, <2>1, VerdictTypes, OrderTypes DEF SyncSaveOrder, TInv, TypeOK
  <2> QED
    BY <1>5, <2>1, <2>2 DEF SyncSaveOrder, TInv, TypeOK, VerdictFirst, ReadWasAccepted
<1>6. CASE SyncLost(a)
  BY <1>6, Rows DEF SyncLost, TInv, TypeOK, VerdictFirst, ReadWasAccepted
<1> QED
  BY <1>1, <1>2, <1>3, <1>4, <1>5, <1>6 DEF RequestStep, Sync

LEMMA NextSteps ==
    ASSUME [Next]_vars
    PROVE  \/ \E p \in Staff : Command(p)
           \/ \E a \in Request : RequestStep(a)
           \/ UNCHANGED vars
BY DEF Next, RequestStep

LEMMA TStep == TInv /\ [Next]_vars => TInv'
<1>1. ASSUME TInv, UNCHANGED vars PROVE TInv'
  BY <1>1 DEF vars, TInv, TypeOK, VerdictFirst, ReadWasAccepted
<1> QED
  BY <1>1, NextSteps, CommandTypes, RequestTypes

\* Every row and every note the model keeps about a sales order is well typed,
\* however stale the rows are that commands and callbacks save.
THEOREM TypeCorrect == Spec => []TypeOK
<1>1. TInv => TypeOK
  BY DEF TInv
<1> QED
  BY <1>1, TInit, TStep, PTL DEF Spec

-----------------------------------------------------------------------------
(* Releases and approvals *)

\* An approver said yes to this revision, or no workflow asked for one.
Cleared(n) == n \in waived \/ \E a \in Request : about[a] = n /\ outcome[a] = "APPROVED"

\* What a row says of revision n is true, whenever the row was read: clearance
\* and release are never taken back, though the row's status may be.
Sound(row, n) ==
    /\ row.status = "APPROVED" => Cleared(n)
    /\ row.status = "RELEASED" => n \in released

SInv ==
    /\ \A n \in Revision : Sound(revision[n], n)
    /\ \A p \in Staff : Sound(staff[p].row, staff[p].on)
    /\ \A n \in released : n <= order.current
    /\ ReleasedWasApproved
    /\ BaselineIsNewestRelease

Inv == TInv /\ SInv

LEMMA SInit == Init => SInv
BY DEF Init, SInv, Sound, Idle, NoRow, NewRow, ReleasedWasApproved, BaselineIsNewestRelease

\* A request about n that is approved stays so.
LEMMA ClearedStays ==
    ASSUME TInv, [Next]_vars, NEW n, Cleared(n)
    PROVE  Cleared(n)'
<1>1. waived \subseteq waived'
  BY NextSteps DEF Command, RequestStep, Sync, Read, Abort, SubmitSalesOrder, SubmitForApproval,
     SubmitUnchecked, ReleaseSalesOrder, CreateSalesOrderAmendment, LinkCustomerPo,
     ResumeSalesOrder, UpdateSalesOrderDraft, HoldSalesOrder, CancelSalesOrder, CreateProject,
     Decide, Withdraw, SyncRead, SyncSaveRevision, SyncSaveOrder, SyncLost, vars
<1>2. ASSUME NEW a \in Request, outcome[a] = "APPROVED"
      PROVE  about'[a] = about[a] /\ outcome'[a] = "APPROVED"
  <2>1. \/ UNCHANGED <<outcome, about>>
        \/ \E p \in Staff : SubmitForApproval(p)
        \/ \E b \in Request :
             (\E verdict \in Verdict : Decide(b, verdict)) \/ Withdraw(b)
    BY NextSteps DEF Command, RequestStep, Sync, Read, Abort, SubmitSalesOrder,
       SubmitUnchecked, ReleaseSalesOrder, CreateSalesOrderAmendment, LinkCustomerPo,
       ResumeSalesOrder, UpdateSalesOrderDraft, HoldSalesOrder, CancelSalesOrder, CreateProject,
       SyncRead, SyncSaveRevision, SyncSaveOrder, SyncLost, vars
  <2>2. CASE \E p \in Staff : SubmitForApproval(p)
    BY <1>2, <2>2 DEF SubmitForApproval, TInv, TypeOK
  <2>3. CASE \E b \in Request : (\E verdict \in Verdict : Decide(b, verdict)) \/ Withdraw(b)
    BY <1>2, <2>3 DEF Decide, Withdraw, TInv, TypeOK
  <2> QED
    BY <1>2, <2>1, <2>2, <2>3
<1> QED
  BY <1>1, <1>2 DEF Cleared

\* What was true of a row that was read stays true of it.
LEMMA SoundStays ==
    ASSUME TInv, [Next]_vars, released \subseteq released', NEW row, NEW n, Sound(row, n)
    PROVE  /\ row.status = "APPROVED" => Cleared(n)'
           /\ row.status = "RELEASED" => n \in released'
BY ClearedStays DEF Sound

\* When the order, its releases and its baseline stay, only rows are left.
LEMMA RowsSuffice ==
    ASSUME Inv, [Next]_vars, UNCHANGED <<released, baseline>>,
           order'.current \in Revision, order.current <= order'.current, order'.project = order.project,
           order'.status = "RELEASED" => order'.current \in released',
           \A n \in Revision : revision'[n] = revision[n] \/ Sound(revision[n], n)',
           \A p \in Staff : (staff'[p].row = staff[p].row /\ staff'[p].on = staff[p].on)
                            \/ Sound(staff[p].row, staff[p].on)'
    PROVE  SInv'
<1>1. released \subseteq released' /\ released \subseteq Revision /\ order.current \in Revision
  BY DEF Inv, TInv, TypeOK, OrderRow
<1>2. ASSUME NEW n \in Revision PROVE Sound(revision[n], n)'
  <2>1. CASE revision'[n] = revision[n]
    BY <1>1, <2>1, SoundStays DEF Inv, SInv, Sound
  <2> QED
    BY <2>1
<1>3. ASSUME NEW p \in Staff PROVE Sound(staff[p].row, staff[p].on)'
  <2>1. CASE staff'[p].row = staff[p].row /\ staff'[p].on = staff[p].on
    BY <1>1, <2>1, SoundStays DEF Inv, SInv, Sound
  <2> QED
    BY <2>1
<1>4. \A n \in released' : n <= order'.current
  <2>1. \A n \in Revision : n \in Int
    BY Constants DEF Revision
  <2>2. \A n \in released : n <= order.current
    BY DEF Inv, SInv
  <2>3. released' = released
    OBVIOUS
  <2> QED
    BY <1>1, <2>1, <2>2, <2>3
<1>5. ReleasedWasApproved'
  <2>1. \A n \in released : Cleared(n)
    BY DEF Inv, SInv, ReleasedWasApproved, Cleared
  <2>2. \A n \in released' : Cleared(n)'
    BY <2>1, ClearedStays DEF Inv
  <2> QED
    BY <2>2 DEF ReleasedWasApproved, Cleared
<1>6. BaselineIsNewestRelease'
  BY DEF Inv, SInv, BaselineIsNewestRelease
<1> QED
  BY <1>2, <1>3, <1>4, <1>5, <1>6 DEF SInv

\* A purchase order changes the version of a revision at most.
LEMMA LinkKeepsStatus ==
    ASSUME TInv, NEW p \in Staff, LinkCustomerPo(p), NEW n \in Revision
    PROVE  revision'[n].status = revision[n].status
<1>0. TypeOK
  BY DEF TInv
<1>1. \/ revision' = revision
      \/ \E v \in 0..MaxVersion : revision' = [revision EXCEPT ![order.current].version = v]
  <2>1. staff[p].row.version \in 0..MaxVersion
    BY <1>0 DEF TypeOK, RevisionRow
  <2>2. staff[p].row.version < MaxVersion => staff[p].row.version + 1 \in 0..MaxVersion
    BY <2>1, Constants
  <2> QED
    BY <2>2 DEF LinkCustomerPo
<1>2. revision[n] \in RevisionRow
  BY <1>0 DEF TypeOK
<1>3. ASSUME NEW v, revision' = [revision EXCEPT ![order.current].version = v]
      PROVE  revision'[n].status = revision[n].status
  <2>1. revision'[n] = IF n = order.current THEN [revision[n] EXCEPT !.version = v]
                                            ELSE revision[n]
    BY <1>0, <1>3 DEF TypeOK
  <2> QED
    BY <1>2, <2>1 DEF RevisionRow
<1> QED
  BY <1>1, <1>3

\* A command that only ends: its worker is idle again.
LEMMA DoneIsSound ==
    ASSUME Inv, [Next]_vars, NEW p \in Staff, Done(p)
    PROVE  \A q \in Staff : (staff'[q].row = staff[q].row /\ staff'[q].on = staff[q].on)
                            \/ Sound(staff[q].row, staff[q].on)'
<1>1. staff'[p].row.status = "NONE"
  BY DEF Inv, TInv, TypeOK, Done, Idle, NoRow
<1>2. Sound(staff[p].row, staff[p].on)'
  BY <1>1 DEF Sound
<1>3. \A q \in Staff : q # p => staff'[q] = staff[q]
  BY DEF Inv, TInv, TypeOK, Done
<1> QED
  BY <1>2, <1>3

LEMMA CommandIsSound ==
    ASSUME Inv, [Next]_vars, NEW p \in Staff, Command(p)
    PROVE  SInv'
<1>0. TypeOK /\ order.current \in Revision /\ order.current <= order.current
  BY DEF Inv, TInv, TypeOK, OrderRow, Revision
<1>t. TypeOK' /\ order'.current \in Revision
  BY TStep DEF Inv, TInv, TypeOK, OrderRow
<1>r. order.status = "RELEASED" => order.current \in released
  BY DEF Inv, SInv, ReleasedWasApproved
<1>1. ASSUME NEW op \in Operation, Read(p, op) PROVE SInv'
  <2>1. staff' = [staff EXCEPT ![p] = [op |-> op, on |-> order.current, row |-> revision[order.current]]]
    BY <1>1 DEF Read
  <2>2. Sound(staff[p].row, staff[p].on)'
    <3>1. staff'[p].row = revision[order.current] /\ staff'[p].on = order.current
      BY <1>0, <2>1 DEF TypeOK
    <3>2. Sound(revision[order.current], order.current) /\ released' = released
      BY <1>0, <1>1 DEF Inv, SInv, Read
    <3> QED
      BY <3>1, <3>2, ClearedStays DEF Sound, Inv
  <2>3. \A q \in Staff : q # p => staff'[q] = staff[q]
    BY <1>0, <2>1 DEF TypeOK
  <2> QED
    BY <1>0, <1>1, <1>r, <2>2, <2>3, RowsSuffice DEF Read
<1>2. CASE Abort(p)
  BY <1>0, <1>2, <1>r, DoneIsSound, RowsSuffice DEF Abort
<1>3. CASE SubmitSalesOrder(p)
  <2>1. PICK status \in {"PENDING_APPROVAL", "APPROVED"} :
          /\ revision' = [revision EXCEPT ![staff[p].on] = [staff[p].row EXCEPT !.status = status]]
          /\ order' = [order EXCEPT !.status = status]
          /\ status = "APPROVED" => waived' = waived \cup {staff[p].on}
    BY <1>3 DEF SubmitSalesOrder, SubmitForApproval, SubmitUnchecked, SaveRow, SetOrderStatus
  <2>2. staff[p].on \in Revision /\ staff[p].row \in RevisionRow
    BY <1>0 DEF TypeOK
  <2>3. ASSUME NEW n \in Revision, n = staff[p].on PROVE Sound(revision[n], n)'
    <3>1. revision'[n].status = status
      BY <1>0, <2>1, <2>2, <2>3 DEF TypeOK, RevisionRow
    <3>2. status = "APPROVED" => Cleared(n)'
      BY <2>1, <2>3 DEF Cleared
    <3> QED
      BY <3>1, <3>2 DEF Sound
  <2>4. ASSUME NEW n \in Revision, n # staff[p].on PROVE revision'[n] = revision[n]
    BY <1>0, <2>1, <2>4 DEF TypeOK
  <2>5. order'.current = order.current /\ order'.project = order.project /\ order'.status # "RELEASED"
    BY <1>0, <2>1 DEF TypeOK, OrderRow
  <2> QED
    BY <1>0, <1>3, <2>3, <2>4, <2>5, DoneIsSound, RowsSuffice DEF SubmitSalesOrder
<1>4. CASE ReleaseSalesOrder(p)
  <2>1. /\ released' = released \cup {order.current}
        /\ baseline' = IF order.project THEN order.current ELSE baseline
        /\ order'.current = order.current /\ order'.project = order.project
    BY <1>0, <1>4 DEF ReleaseSalesOrder, TypeOK, OrderRow
  <2>2. ASSUME NEW n, n = order.current PROVE Cleared(n)'
    <3>1. staff[p].op = "release" /\ staff[p].on = n
      BY <1>4, <2>2 DEF ReleaseSalesOrder, Locked
    <3>2. staff[p].row.status = "APPROVED"
      BY <3>1 DEF Inv, TInv, ReadWasAccepted, Accepts
    <3>3. Cleared(n)
      BY <3>1, <3>2 DEF Inv, SInv, Sound
    <3> QED
      BY <3>3, ClearedStays DEF Inv
  <2>3. ASSUME NEW n \in Revision PROVE Sound(revision[n], n)'
    <3>1. CASE n = order.current
      <4>1. revision'[n].status = "RELEASED"
        BY <1>0, <1>4, <3>1 DEF ReleaseSalesOrder, TypeOK, RevisionRow
      <4> QED
        BY <2>1, <3>1, <4>1 DEF Sound
    <3>2. CASE n # order.current
      <4>1. revision'[n] = revision[n]
        BY <1>0, <1>4, <3>2 DEF ReleaseSalesOrder, TypeOK
      <4> QED
        BY <2>1, <4>1, SoundStays DEF Inv, SInv, Sound
    <3> QED
      BY <3>1, <3>2
  <2>4. ASSUME NEW q \in Staff PROVE Sound(staff[q].row, staff[q].on)'
    <3>1. released \subseteq released' /\ Done(p)
      BY <1>4, <2>1 DEF ReleaseSalesOrder
    <3>2. CASE staff'[q].row = staff[q].row /\ staff'[q].on = staff[q].on
      BY <3>1, <3>2, SoundStays DEF Inv, SInv, Sound
    <3> QED
      BY <3>1, <3>2, DoneIsSound
  <2>5. (\A n \in released : n <= order.current)'
    BY <1>0, <2>1 DEF Inv, SInv
  <2>6. ReleasedWasApproved'
    <3>1. \A n \in released : Cleared(n)
      BY DEF Inv, SInv, ReleasedWasApproved, Cleared
    <3>2. \A n \in released' : Cleared(n)'
      BY <2>1, <2>2, <3>1, ClearedStays DEF Inv
    <3> QED
      BY <2>1, <3>2 DEF ReleasedWasApproved, Cleared
  <2>7. BaselineIsNewestRelease'
    BY <1>0, <2>1, <2>5 DEF Inv, SInv, BaselineIsNewestRelease
  <2> QED
    BY <2>3, <2>4, <2>5, <2>6, <2>7 DEF SInv
<1>5. CASE CreateSalesOrderAmendment(p)
  <2>1. order'.current = order.current + 1 /\ order'.project = order.project /\ order'.status = "DRAFT"
    BY <1>0, <1>5 DEF CreateSalesOrderAmendment, TypeOK, OrderRow
  <2>2. order.current <= order'.current
    BY <1>0, <2>1 DEF Revision
  <2>3. ASSUME NEW n \in Revision PROVE revision'[n] = revision[n] \/ Sound(revision[n], n)'
    <3>1. n = order.current /\ n # order.current + 1 => revision'[n].status = "SUPERSEDED"
      BY <1>0, <1>5 DEF CreateSalesOrderAmendment, TypeOK, RevisionRow
    <3>2. n = order.current + 1 => revision'[n].status = "DRAFT"
      BY <1>0, <1>5 DEF CreateSalesOrderAmendment, TypeOK, NewRow
    <3>3. n # order.current /\ n # order.current + 1 => revision'[n] = revision[n]
      BY <1>0, <1>5 DEF CreateSalesOrderAmendment, TypeOK
    <3> QED
      BY <3>1, <3>2, <3>3 DEF Sound
  <2> QED
    BY <1>t, <1>5, <2>1, <2>2, <2>3, DoneIsSound, RowsSuffice DEF CreateSalesOrderAmendment
<1>6. CASE LinkCustomerPo(p)
  <2>1. ASSUME NEW n \in Revision PROVE revision'[n] = revision[n] \/ Sound(revision[n], n)'
    <3>1. revision'[n].status = revision[n].status
      BY <1>6, LinkKeepsStatus DEF Inv
    <3>2. Sound(revision[n], n) /\ released' = released
      BY <1>6 DEF Inv, SInv, LinkCustomerPo
    <3> QED
      BY <3>1, <3>2, ClearedStays DEF Sound, Inv
  <2>2. order'.current = order.current /\ order'.project = order.project /\ order'.status = order.status
    BY <1>0, <1>6 DEF LinkCustomerPo, TypeOK, OrderRow
  <2> QED
    BY <1>0, <1>6, <1>r, <2>1, <2>2, DoneIsSound, RowsSuffice DEF LinkCustomerPo
<1>7. CASE ResumeSalesOrder(p)
  <2>1. order'.current = order.current /\ order'.project = order.project
    BY <1>0, <1>7 DEF ResumeSalesOrder, TypeOK, OrderRow
  <2>2. order'.status = "RELEASED" => staff[p].row.status = "RELEASED"
    BY <1>0, <1>7 DEF ResumeSalesOrder, TypeOK, OrderRow
  <2>3. order'.status = "RELEASED" => order'.current \in released'
    BY <1>7, <2>1, <2>2 DEF ResumeSalesOrder, Locked, Inv, SInv, Sound
  <2> QED
    BY <1>0, <1>7, <2>1, <2>3, DoneIsSound, RowsSuffice DEF ResumeSalesOrder
<1>8. CASE UpdateSalesOrderDraft(p)
  <2>1. ASSUME NEW n \in Revision PROVE revision'[n] = revision[n] \/ Sound(revision[n], n)'
    <3>1. revision'[n].status = revision[n].status
      BY <1>0, <1>8 DEF UpdateSalesOrderDraft, TypeOK, RevisionRow
    <3>2. Sound(revision[n], n) /\ released' = released
      BY <1>8 DEF Inv, SInv, UpdateSalesOrderDraft
    <3> QED
      BY <3>1, <3>2, ClearedStays DEF Sound, Inv
  <2> QED
    BY <1>0, <1>8, <1>r, <2>1, RowsSuffice DEF UpdateSalesOrderDraft
<1>9. CASE HoldSalesOrder(p) \/ CancelSalesOrder(p)
  <2>1. order'.current = order.current /\ order'.project = order.project /\ order'.status # "RELEASED"
    BY <1>0, <1>9 DEF HoldSalesOrder, CancelSalesOrder, SetOrderStatus, TypeOK, OrderRow
  <2> QED
    BY <1>0, <1>9, <2>1, RowsSuffice DEF HoldSalesOrder, CancelSalesOrder
<1>10. CASE CreateProject(p)
  <2>1. baseline' = order.current /\ order.current \in released
    BY <1>r, <1>10 DEF CreateProject
  <2>2. BaselineIsNewestRelease'
    BY <1>10, <2>1 DEF CreateProject, BaselineIsNewestRelease, Inv, SInv
  <2> QED
    BY <1>10, <2>2 DEF CreateProject, Inv, SInv, Sound, Cleared, ReleasedWasApproved
<1> QED
  BY <1>1, <1>2, <1>3, <1>4, <1>5, <1>6, <1>7, <1>8, <1>9, <1>10 DEF Command

LEMMA RequestIsSound ==
    ASSUME Inv, [Next]_vars, NEW a \in Request, RequestStep(a)
    PROVE  SInv'
<1>0. TypeOK /\ order.current \in Revision /\ order.current <= order.current
  BY DEF Inv, TInv, TypeOK, OrderRow, Revision
<1>r. order.status = "RELEASED" => order.current \in released
  BY DEF Inv, SInv, ReleasedWasApproved
<1>1. CASE UNCHANGED <<order, revision, staff, baseline, released>>
  BY <1>0, <1>1, <1>r, RowsSuffice
<1>2. CASE SyncSaveRevision(a)
  <2>1. outcome[a] \in Verdict /\ sync[a].row \in RevisionRow /\ about[a] \in Revision
    BY <1>2 DEF SyncSaveRevision, Inv, TInv, TypeOK, VerdictFirst
  <2>2. Sound(revision[about[a]], about[a])'
    <3>1. revision'[about[a]].status = RevisionAfter(outcome[a])
      BY <1>0, <1>2, <2>1 DEF SyncSaveRevision, TypeOK, RevisionRow
    <3>2. RevisionAfter(outcome[a]) # "RELEASED"
      BY <2>1 DEF RevisionAfter, Verdict
    <3>3. RevisionAfter(outcome[a]) = "APPROVED" => outcome[a] = "APPROVED"
      BY <2>1 DEF RevisionAfter, Verdict
    <3>4. outcome' = outcome /\ about' = about
      BY <1>2 DEF SyncSaveRevision
    <3> QED
      BY <3>1, <3>2, <3>3, <3>4 DEF Sound, Cleared
  <2>3. \A n \in Revision : n # about[a] => revision'[n] = revision[n]
    BY <1>0, <1>2, <2>1 DEF SyncSaveRevision, TypeOK
  <2>4. about' = about
    BY <1>2 DEF SyncSaveRevision
  <2>5. \A n \in Revision : revision'[n] = revision[n] \/ Sound(revision[n], n)'
    BY <2>2, <2>3, <2>4
  <2> QED
    BY <1>0, <1>2, <1>r, <2>5, RowsSuffice DEF SyncSaveRevision
<1>3. CASE SyncSaveOrder(a)
  <2>1. outcome[a] \in Verdict
    BY <1>3 DEF SyncSaveOrder, Inv, TInv, VerdictFirst
  <2>2. OrderAfter(outcome[a]) # "RELEASED"
    BY <2>1 DEF OrderAfter, Verdict
  <2>3. order'.current = order.current /\ order'.project = order.project /\ order'.status # "RELEASED"
    BY <1>0, <1>3, <2>2 DEF SyncSaveOrder, TypeOK, OrderRow
  <2> QED
    BY <1>0, <1>3, <2>3, RowsSuffice DEF SyncSaveOrder
<1> QED
  BY <1>1, <1>2, <1>3 DEF RequestStep, Sync, Decide, Withdraw, SyncRead, SyncLost

LEMMA Always == Spec => []Inv
<1>1. Init => Inv
  BY TInit, SInit DEF Inv
<1>2. Inv /\ [Next]_vars => Inv'
  <2> SUFFICES ASSUME Inv, [Next]_vars PROVE Inv'
    OBVIOUS
  <2>1. TInv'
    BY TStep DEF Inv
  <2>2. CASE UNCHANGED vars
    BY <2>2 DEF vars, Inv, SInv, Sound, Cleared, ReleasedWasApproved, BaselineIsNewestRelease,
                TInv, TypeOK, VerdictFirst, ReadWasAccepted
  <2> QED
    BY <2>1, <2>2, NextSteps, CommandIsSound, RequestIsSound DEF Inv
<1> QED
  BY <1>1, <1>2, PTL DEF Spec

\* Whoever's stale row is saved over it, no revision is released that was not
\* approved, and a released order stands on a released revision.
THEOREM ReleasesAreApproved == Spec => []ReleasedWasApproved
<1>1. Inv => ReleasedWasApproved
  BY DEF Inv, SInv
<1> QED
  BY <1>1, Always, PTL

\* The project always works from the newest released revision.
THEOREM BaselineFollowsReleases == Spec => []BaselineIsNewestRelease
<1>1. Inv => BaselineIsNewestRelease
  BY DEF Inv, SInv
<1> QED
  BY <1>1, Always, PTL
-----------------------------------------------------------------------------
(* Commands that do not overlap *)

OneWorker == \A p, q \in Staff : p = q

\* The request is undecided, or its verdict has not reached the revision yet.
Live(a) == outcome[a] = "OPEN" \/ sync[a].phase \in {"DUE", "READ"}

LiveIsPending == \A a \in Request : Live(a) => revision[about[a]].status = "PENDING_APPROVAL"

LiveIsAlone == \A a, b \in Request : Live(a) /\ Live(b) /\ about[a] = about[b] => a = b

NoneAhead == \A n \in Revision : n > order.current => revision[n].status = "NONE"

\* A row that was read and is not pending is still the row in the database:
\* only the callback of a live request could have saved over it.
ReadIsFresh ==
    \A p \in Staff : staff[p].op # "idle" =>
        /\ staff[p].on = order.current
        /\ staff[p].row.status # "PENDING_APPROVAL" => revision[order.current] = staff[p].row

OInv == OneWorker /\ TInv /\ LiveIsPending /\ LiveIsAlone /\ NoneAhead /\ ReadIsFresh

LEMMA OInit == OneWorker /\ Init => OInv
<1> SUFFICES ASSUME OneWorker, Init PROVE OInv
  OBVIOUS
<1>1. LiveIsPending /\ LiveIsAlone
  BY DEF Init, LiveIsPending, LiveIsAlone, Live
<1>2. NoneAhead
  BY Constants DEF Init, NoneAhead, NoRow, Revision
<1>3. ReadIsFresh
  BY DEF Init, ReadIsFresh, Idle
<1> QED
  BY <1>1, <1>2, <1>3, TInit DEF OInv

\* Steps that open no request, and leave what live requests ask about.
LEMMA LiveStays ==
    ASSUME OInv, UNCHANGED about,
           \A a \in Request : Live(a)' => Live(a),
           \A a \in Request : Live(a)' => revision'[about[a]].status = revision[about[a]].status
    PROVE  LiveIsPending' /\ LiveIsAlone'
BY DEF OInv, LiveIsPending, LiveIsAlone

\* What the commands leave alone when they write only one revision nobody is
\* deciding about.
LEMMA WriteIsSafe ==
    ASSUME OInv, UNCHANGED <<outcome, about, sync>>, NEW n \in Revision,
           revision[n].status # "PENDING_APPROVAL",
           \A m \in Revision : m # n => revision'[m].status = revision[m].status
    PROVE  LiveIsPending' /\ LiveIsAlone'
<1>1. \A a \in Request : Live(a)' => Live(a)
  BY DEF Live
<1>2. \A a \in Request : Live(a) => about[a] # n /\ about[a] \in Revision
  BY DEF OInv, LiveIsPending, TInv, TypeOK
<1> QED
  BY <1>1, <1>2, LiveStays

\* After its command a lone worker holds nothing.
LEMMA DoneIsFresh ==
    ASSUME OInv, NEW p \in Staff, Done(p) \/ (staff[p] = Idle /\ UNCHANGED staff)
    PROVE  ReadIsFresh'
<1>1. staff'[p].op = "idle"
  BY DEF OInv, TInv, TypeOK, Done, Idle
<1> QED
  BY <1>1 DEF OInv, OneWorker, ReadIsFresh

\* The row a locked command acts on.
LEMMA LockedIsFresh ==
    ASSUME OInv, NEW p \in Staff, NEW op \in {"submit", "release", "amend"}, staff[p].op = op
    PROVE  /\ staff[p].on = order.current /\ order.current \in Revision
           /\ revision[order.current] = staff[p].row
           /\ Accepts(op, revision[order.current])
           /\ revision[order.current].status \notin {"PENDING_APPROVAL"}
<1>1. Accepts(op, staff[p].row) /\ staff[p].op # "idle"
  BY DEF OInv, TInv, ReadWasAccepted
<1>2. staff[p].row.status # "PENDING_APPROVAL"
  BY <1>1 DEF Accepts, Editable
<1>3. staff[p].on = order.current /\ revision[order.current] = staff[p].row
  BY <1>1, <1>2 DEF OInv, ReadIsFresh
<1> QED
  BY <1>1, <1>2, <1>3 DEF OInv, TInv, TypeOK, OrderRow

LEMMA SubmitIsAlone ==
    ASSUME OInv, NEW p \in Staff, SubmitSalesOrder(p)
    PROVE  LiveIsPending' /\ LiveIsAlone' /\ NoneAhead' /\ ReadIsFresh'
<1>0. TypeOK
  BY DEF OInv, TInv
<1>1. /\ staff[p].on = order.current /\ order.current \in Revision
      /\ revision[order.current].status # "PENDING_APPROVAL"
  BY LockedIsFresh DEF SubmitSalesOrder, Locked
<1>2. PICK status \in {"PENDING_APPROVAL", "APPROVED"} :
        /\ revision' = [revision EXCEPT ![order.current] = [staff[p].row EXCEPT !.status = status]]
        /\ order' = [order EXCEPT !.status = status]
        /\ \/ UNCHANGED <<outcome, about>>
           \/ /\ status = "PENDING_APPROVAL"
              /\ \E a \in Request :
                   /\ outcome[a] = "NONE"
                   /\ outcome' = [outcome EXCEPT ![a] = "OPEN"]
                   /\ about' = [about EXCEPT ![a] = order.current]
  BY <1>1 DEF SubmitSalesOrder, SubmitForApproval, SubmitUnchecked, SaveRow, SetOrderStatus
<1>3. order'.current = order.current
  BY <1>0, <1>2 DEF TypeOK, OrderRow
<1>4. \A m \in Revision : m # order.current => revision'[m] = revision[m]
  BY <1>0, <1>2 DEF TypeOK
<1>5. NoneAhead'
  <2>1. order.current \in Int
    BY <1>1, Constants DEF Revision
  <2>2. ~(order.current > order.current)
    BY <2>1
  <2> QED
    BY <1>3, <1>4, <2>2 DEF OInv, NoneAhead
<1>6. ReadIsFresh' /\ sync' = sync
  BY DoneIsFresh DEF SubmitSalesOrder
<1>7. CASE UNCHANGED <<outcome, about>>
  BY <1>1, <1>4, <1>5, <1>6, <1>7, WriteIsSafe
<1>8. CASE ~UNCHANGED <<outcome, about>>
  <2>1. PICK a \in Request :
          /\ outcome[a] = "NONE"
          /\ outcome' = [outcome EXCEPT ![a] = "OPEN"]
          /\ about' = [about EXCEPT ![a] = order.current]
    BY <1>2, <1>8
  <2>2. about'[a] = order.current /\ \A b \in Request : b # a => about'[b] = about[b]
    BY <1>0, <2>1 DEF TypeOK
  <2>3. \A b \in Request : b # a => (Live(b)' <=> Live(b))
    BY <1>0, <1>6, <2>1 DEF TypeOK, Live
  <2>4. \A b \in Request : Live(b) => about[b] # order.current /\ about[b] \in Revision
    BY <1>0, <1>1 DEF TypeOK, OInv, LiveIsPending
  <2>5. revision'[order.current].status = "PENDING_APPROVAL"
    BY <1>0, <1>1, <1>2, <1>8 DEF TypeOK, RevisionRow
  <2>6. LiveIsPending'
    BY <1>4, <2>2, <2>3, <2>4, <2>5 DEF OInv, LiveIsPending
  <2>7. LiveIsAlone'
    BY <2>2, <2>3, <2>4 DEF OInv, LiveIsAlone
  <2> QED
    BY <1>5, <1>6, <2>6, <2>7
<1> QED
  BY <1>7, <1>8

\* The other commands write at most the current revision, or draft the next.
LEMMA OtherCommandsAreAlone ==
    ASSUME OInv, NEW p \in Staff, Command(p), ~SubmitSalesOrder(p)
    PROVE  LiveIsPending' /\ LiveIsAlone' /\ NoneAhead' /\ ReadIsFresh'
<1>0. /\ TypeOK /\ order.current \in Revision /\ revision[order.current] \in RevisionRow
      /\ \A n \in Revision : n \in Int
  BY Constants DEF OInv, TInv, TypeOK, OrderRow, Revision
<1>1. ASSUME UNCHANGED <<revision, outcome, about, sync>>, order'.current = order.current
      PROVE  LiveIsPending' /\ LiveIsAlone' /\ NoneAhead'
  BY <1>1 DEF OInv, LiveIsPending, LiveIsAlone, NoneAhead, Live
<1>2. ASSUME UNCHANGED <<outcome, about, sync>>, order'.current = order.current,
             \A n \in Revision : revision'[n].status = revision[n].status
      PROVE  LiveIsPending' /\ LiveIsAlone' /\ NoneAhead'
  <2>1. \A a \in Request : about[a] \in Revision
    BY <1>0 DEF TypeOK
  <2>2. \A a \in Request : Live(a)' => Live(a)
    BY <1>2 DEF Live
  <2>3. LiveIsPending' /\ LiveIsAlone'
    BY <1>2, <2>1, <2>2, LiveStays
  <2> QED
    BY <1>2, <2>3 DEF OInv, NoneAhead
<1>3. ASSUME NEW op \in Operation, Read(p, op)
      PROVE  LiveIsPending' /\ LiveIsAlone' /\ NoneAhead' /\ ReadIsFresh'
  <2>1. staff'[p] = [op |-> op, on |-> order.current, row |-> revision[order.current]]
    BY <1>0, <1>3 DEF TypeOK, Read
  <2>2. ReadIsFresh'
    BY <1>3, <2>1 DEF OInv, OneWorker, ReadIsFresh, Read
  <2> QED
    BY <1>1, <1>3, <2>2 DEF Read
<1>4. CASE Abort(p)
  BY <1>1, <1>4, DoneIsFresh DEF Abort
<1>5. CASE ReleaseSalesOrder(p)
  <2>1. revision[order.current].status # "PENDING_APPROVAL"
    BY <1>5, LockedIsFresh DEF ReleaseSalesOrder, Locked
  <2>2. \A m \in Revision : m # order.current => revision'[m] = revision[m]
    BY <1>0, <1>5 DEF ReleaseSalesOrder, TypeOK
  <2>3. order'.current = order.current
    BY <1>0, <1>5 DEF ReleaseSalesOrder, TypeOK, OrderRow
  <2>4. ReadIsFresh' /\ LiveIsPending' /\ LiveIsAlone'
    BY <1>0, <1>5, <2>1, <2>2, DoneIsFresh, WriteIsSafe DEF ReleaseSalesOrder
  <2>5. ~(order.current > order.current)
    BY <1>0
  <2>6. NoneAhead'
    BY <2>2, <2>3, <2>5 DEF OInv, NoneAhead
  <2> QED
    BY <2>4, <2>6
<1>6. CASE CreateSalesOrderAmendment(p)
  <2>1. /\ revision[order.current].status # "PENDING_APPROVAL"
        /\ order.current < MaxRevision /\ order.current + 1 \in Revision
    BY <1>0, <1>6, LockedIsFresh, Constants DEF CreateSalesOrderAmendment, Locked, Revision
  <2>2. revision[order.current + 1].status = "NONE"
    BY <1>0, <2>1 DEF OInv, NoneAhead
  <2>3. \A m \in Revision : m # order.current /\ m # order.current + 1 => revision'[m] = revision[m]
    BY <1>0, <1>6 DEF CreateSalesOrderAmendment, TypeOK
  <2>4. order'.current = order.current + 1
    BY <1>0, <1>6 DEF CreateSalesOrderAmendment, TypeOK, OrderRow
  <2>5. \A a \in Request : Live(a) =>
          /\ about[a] \in Revision
          /\ about[a] # order.current /\ about[a] # order.current + 1
    BY <1>0, <2>1, <2>2 DEF TypeOK, OInv, LiveIsPending
  <2>6. \A a \in Request : (Live(a)' <=> Live(a)) /\ about'[a] = about[a]
    BY <1>6 DEF CreateSalesOrderAmendment, Live
  <2>7. LiveIsPending'
    BY <2>3, <2>5, <2>6 DEF OInv, LiveIsPending
  <2>8. LiveIsAlone'
    BY <2>6 DEF OInv, LiveIsAlone
  <2>9. NoneAhead'
    <3>1. ASSUME NEW n \in Revision, n > order.current + 1 PROVE revision'[n].status = "NONE"
      <4>1. n > order.current /\ n # order.current /\ n # order.current + 1
        BY <1>0, <3>1
      <4> QED
        BY <2>3, <4>1 DEF OInv, NoneAhead
    <3> QED
      BY <2>4, <3>1 DEF NoneAhead
  <2> QED
    BY <1>6, <2>7, <2>8, <2>9, DoneIsFresh DEF CreateSalesOrderAmendment
<1>7. CASE LinkCustomerPo(p)
  <2>1. \A n \in Revision : revision'[n].status = revision[n].status
    BY <1>7, LinkKeepsStatus DEF OInv
  <2>2. order'.current = order.current
    BY <1>0, <1>7 DEF LinkCustomerPo, TypeOK, OrderRow
  <2> QED
    BY <1>2, <1>7, <2>1, <2>2, DoneIsFresh DEF LinkCustomerPo
<1>8. CASE ResumeSalesOrder(p)
  <2>1. order'.current = order.current
    BY <1>0, <1>8 DEF ResumeSalesOrder, TypeOK, OrderRow
  <2> QED
    BY <1>1, <1>8, <2>1, DoneIsFresh DEF ResumeSalesOrder
<1>9. CASE UpdateSalesOrderDraft(p)
  <2>1. \A n \in Revision : revision'[n].status = revision[n].status
    BY <1>0, <1>9 DEF UpdateSalesOrderDraft, TypeOK, RevisionRow
  <2> QED
    BY <1>2, <1>9, <2>1, DoneIsFresh DEF UpdateSalesOrderDraft
<1>10. CASE HoldSalesOrder(p) \/ CancelSalesOrder(p) \/ CreateProject(p)
  <2>1. order'.current = order.current
    BY <1>0, <1>10 DEF HoldSalesOrder, CancelSalesOrder, CreateProject, SetOrderStatus, TypeOK, OrderRow
  <2> QED
    BY <1>1, <1>10, <2>1, DoneIsFresh DEF HoldSalesOrder, CancelSalesOrder, CreateProject
<1> QED
  BY <1>3, <1>4, <1>5, <1>6, <1>7, <1>8, <1>9, <1>10 DEF Command

\* The callback saves over the revision its own live request is about.
LEMMA RequestIsAlone ==
    ASSUME OInv, NEW a \in Request, RequestStep(a)
    PROVE  LiveIsPending' /\ LiveIsAlone' /\ NoneAhead' /\ ReadIsFresh'
<1>0. TypeOK
  BY DEF OInv, TInv
<1>1. ASSUME UNCHANGED <<revision, about, staff>>, order'.current = order.current,
             \A b \in Request : Live(b)' => Live(b)
      PROVE  LiveIsPending' /\ LiveIsAlone' /\ NoneAhead' /\ ReadIsFresh'
  BY <1>1, LiveStays DEF OInv, NoneAhead, ReadIsFresh
<1>2. CASE SyncSaveRevision(a)
  <2>1. /\ Live(a) /\ about[a] \in Revision
        /\ revision[about[a]].status = "PENDING_APPROVAL"
    BY <1>0, <1>2 DEF SyncSaveRevision, Live, OInv, LiveIsPending, TypeOK
  <2>2. \A m \in Revision : m # about[a] => revision'[m] = revision[m]
    BY <1>0, <1>2 DEF SyncSaveRevision, TypeOK
  <2>3. \A b \in Request : Live(b)' => Live(b) /\ b # a
    <3>1. ~Live(a)'
      <4>1. sync'[a].phase = "SAVED" /\ outcome'[a] = outcome[a]
        BY <1>0, <1>2 DEF SyncSaveRevision, TypeOK
      <4>2. outcome[a] \in Verdict
        BY <1>2 DEF SyncSaveRevision, OInv, TInv, VerdictFirst
      <4> QED
        BY <4>1, <4>2 DEF Live, Verdict
    <3>2. \A b \in Request : b # a => (Live(b)' <=> Live(b))
      BY <1>0, <1>2 DEF SyncSaveRevision, TypeOK, Live
    <3> QED
      BY <3>1, <3>2
  <2>4. LiveIsPending' /\ LiveIsAlone'
    <3>1. \A b \in Request : Live(b)' => about[b] \in Revision /\ about[b] # about[a]
      BY <1>0, <2>1, <2>3 DEF OInv, LiveIsAlone, TypeOK
    <3> QED
      BY <1>2, <2>2, <2>3, <3>1, LiveStays DEF SyncSaveRevision
  <2>5. NoneAhead'
    BY <1>2, <2>1, <2>2 DEF OInv, NoneAhead, SyncSaveRevision
  <2>6. ReadIsFresh'
    <3>1. order.current \in Revision
      BY <1>0 DEF TypeOK, OrderRow
    <3> QED
      BY <1>2, <2>1, <2>2, <3>1 DEF OInv, ReadIsFresh, SyncSaveRevision
  <2> QED
    BY <2>4, <2>5, <2>6
<1>3. CASE SyncSaveOrder(a)
  <2>1. order'.current = order.current
    BY <1>0, <1>3 DEF SyncSaveOrder, TypeOK, OrderRow
  <2>2. \A b \in Request : Live(b)' => Live(b)
    BY <1>0, <1>3 DEF SyncSaveOrder, TypeOK, Live
  <2> QED
    BY <1>1, <1>3, <2>1, <2>2 DEF SyncSaveOrder
<1>4. ASSUME NEW verdict \in Verdict, Decide(a, verdict)
      PROVE  LiveIsPending' /\ LiveIsAlone' /\ NoneAhead' /\ ReadIsFresh'
  <2>1. \A b \in Request : Live(b)' => Live(b)
    BY <1>0, <1>4 DEF Decide, TypeOK, Live
  <2> QED
    BY <1>1, <1>4, <2>1 DEF Decide
<1>5. CASE Withdraw(a)
  <2>1. \A b \in Request : Live(b)' => Live(b)
    BY <1>0, <1>5 DEF Withdraw, TypeOK, Live
  <2> QED
    BY <1>1, <1>5, <2>1 DEF Withdraw
<1>6. CASE SyncRead(a)
  <2>1. \A b \in Request : Live(b)' => Live(b)
    BY <1>0, <1>6 DEF SyncRead, TypeOK, Live
  <2> QED
    BY <1>1, <1>6, <2>1 DEF SyncRead
<1>7. CASE SyncLost(a)
  <2>1. \A b \in Request : Live(b)' => Live(b)
    BY <1>0, <1>7 DEF SyncLost, TypeOK, Live
  <2> QED
    BY <1>1, <1>7, <2>1 DEF SyncLost
<1> QED
  BY <1>2, <1>3, <1>4, <1>5, <1>6, <1>7 DEF RequestStep, Sync

LEMMA OStep == OInv /\ [Next]_vars => OInv'
<1> SUFFICES ASSUME OInv, [Next]_vars PROVE OInv'
  OBVIOUS
<1>1. TInv' /\ OneWorker'
  BY TStep DEF OInv, OneWorker
<1>2. CASE UNCHANGED vars
  BY <1>1, <1>2 DEF vars, OInv, LiveIsPending, LiveIsAlone, NoneAhead, ReadIsFresh, Live
<1>3. CASE \E p \in Staff : Command(p)
  BY <1>1, <1>3, SubmitIsAlone, OtherCommandsAreAlone DEF OInv
<1>4. CASE \E a \in Request : RequestStep(a)
  BY <1>1, <1>4, RequestIsAlone DEF OInv
<1> QED
  BY <1>2, <1>3, <1>4, NextSteps

\* With commands one after the other, a revision is never submitted while
\* another request about it is undecided.
THEOREM RequestsAreAlone == OneWorker /\ Spec => []OneUndecidedRequest
<1>1. OInv => OneUndecidedRequest
  BY DEF OInv, LiveIsAlone, Live, OneUndecidedRequest
<1> QED
  BY <1>1, OInit, OStep, PTL DEF Spec

ReleasedStays(n) ==
    revision[n].status = "RELEASED" =>
        /\ revision'[n].status \in {"RELEASED", "SUPERSEDED"}
        /\ revision'[n].version = revision[n].version

LEMMA ReleasedStep ==
    ASSUME OInv, [Next]_vars, NEW n \in Revision
    PROVE  ReleasedStays(n)
<1> SUFFICES ASSUME revision[n].status = "RELEASED"
             PROVE  /\ revision'[n].status \in {"RELEASED", "SUPERSEDED"}
                    /\ revision'[n].version = revision[n].version
  BY DEF ReleasedStays
<1>0. /\ TypeOK /\ order.current \in Revision /\ revision[n] \in RevisionRow
      /\ \A m \in Revision : m \in Int
  BY Constants DEF OInv, TInv, TypeOK, OrderRow, Revision
<1>1. CASE revision' = revision
  BY <1>1
<1>2. ASSUME NEW a \in Request, SyncSaveRevision(a) PROVE revision'[n] = revision[n]
  <2>1. Live(a) /\ about[a] # n
    BY <1>2 DEF SyncSaveRevision, Live, OInv, LiveIsPending
  <2> QED
    BY <1>0, <1>2, <2>1 DEF SyncSaveRevision, TypeOK
<1>3. ASSUME NEW p \in Staff, SubmitSalesOrder(p) PROVE revision'[n] = revision[n]
  <2>1. staff[p].on = order.current /\ revision[order.current].status \in Editable
    BY <1>3, LockedIsFresh DEF SubmitSalesOrder, Locked, Accepts
  <2>2. staff[p].on # n
    BY <2>1 DEF Editable
  <2> QED
    BY <1>0, <1>3, <2>2 DEF SubmitSalesOrder, SubmitForApproval, SubmitUnchecked, SaveRow, TypeOK
<1>4. ASSUME NEW p \in Staff, ReleaseSalesOrder(p) PROVE revision'[n] = revision[n]
  <2>1. revision[order.current].status = "APPROVED"
    BY <1>4, LockedIsFresh DEF ReleaseSalesOrder, Locked, Accepts
  <2>2. order.current # n
    BY <2>1
  <2> QED
    BY <1>0, <1>4, <2>2 DEF ReleaseSalesOrder, TypeOK
<1>5. ASSUME NEW p \in Staff, CreateSalesOrderAmendment(p)
      PROVE  /\ revision'[n].status \in {"RELEASED", "SUPERSEDED"}
             /\ revision'[n].version = revision[n].version
  <2>1. order.current + 1 \in Revision
    BY <1>0, <1>5, Constants DEF CreateSalesOrderAmendment, Revision
  <2>2. n # order.current + 1
    BY <1>0, <2>1 DEF OInv, NoneAhead
  <2>3. n = order.current => revision'[n] = [revision[n] EXCEPT !.status = "SUPERSEDED"]
    BY <1>0, <1>5, <2>2 DEF CreateSalesOrderAmendment, TypeOK
  <2>4. n # order.current => revision'[n] = revision[n]
    BY <1>0, <1>5, <2>2 DEF CreateSalesOrderAmendment, TypeOK
  <2> QED
    BY <1>0, <2>3, <2>4 DEF RevisionRow
<1>6. ASSUME NEW p \in Staff, LinkCustomerPo(p) PROVE revision'[n] = revision[n]
  <2>1. CASE staff[p].on = order.current /\ staff[p].row.status \in Editable
    <3>1. staff[p].op # "idle" /\ staff[p].row.status # "PENDING_APPROVAL"
      BY <1>6, <2>1 DEF LinkCustomerPo, Editable
    <3>2. order.current # n
      BY <2>1, <3>1 DEF OInv, ReadIsFresh, Editable
    <3> QED
      BY <1>0, <1>6, <3>2 DEF LinkCustomerPo, TypeOK
  <2>2. CASE ~(staff[p].on = order.current /\ staff[p].row.status \in Editable)
    BY <1>6, <2>2 DEF LinkCustomerPo
  <2> QED
    BY <2>1, <2>2
<1>7. ASSUME NEW p \in Staff, UpdateSalesOrderDraft(p) PROVE revision'[n] = revision[n]
  <2>1. order.current # n
    BY <1>7 DEF UpdateSalesOrderDraft, Editable
  <2> QED
    BY <1>0, <1>7, <2>1 DEF UpdateSalesOrderDraft, TypeOK
<1>8. \/ revision' = revision
      \/ \E a \in Request : SyncSaveRevision(a)
      \/ \E p \in Staff : \/ SubmitSalesOrder(p) \/ ReleaseSalesOrder(p)
                          \/ CreateSalesOrderAmendment(p) \/ LinkCustomerPo(p)
                          \/ UpdateSalesOrderDraft(p)
  BY NextSteps DEF Command, RequestStep, Sync, Read, Abort, ResumeSalesOrder, HoldSalesOrder,
     CancelSalesOrder, CreateProject, Decide, Withdraw, SyncRead, SyncSaveOrder, SyncLost, vars
<1> QED
  BY <1>1, <1>2, <1>3, <1>4, <1>5, <1>6, <1>7, <1>8

\* With commands one after the other, a released revision is only ever
\* superseded and keeps its content.  With two workers the run
\* sales_order_released finds the row of another command saved over it.
THEOREM ReleasesAreImmutable == OneWorker /\ Spec => ReleasedIsImmutable
<1>1. OInv /\ [Next]_vars =>
        [\A n \in Revision : revision[n].status = "RELEASED" =>
           /\ revision'[n].status \in {"RELEASED", "SUPERSEDED"}
           /\ revision'[n].version = revision[n].version]_vars
  BY ReleasedStep DEF ReleasedStays
<1> QED
  BY <1>1, OInit, OStep, PTL DEF Spec, ReleasedIsImmutable

-----------------------------------------------------------------------------
(* The requests                                                              *)
LEMMA RequestsStep == [Next]_vars => [Verdicts!Next]_outcome
<1> SUFFICES ASSUME [Next]_vars PROVE Verdicts!Next \/ UNCHANGED outcome
  OBVIOUS
<1>1. ASSUME NEW p \in Staff, Command(p) PROVE Verdicts!Next \/ UNCHANGED outcome
  <2>1. CASE SubmitSalesOrder(p)
    BY <2>1 DEF SubmitSalesOrder, SubmitForApproval, SubmitUnchecked, Verdicts!Next, Verdicts!Ask
  <2>2. CASE ~SubmitSalesOrder(p)
    BY <1>1, <2>2 DEF Command, Read, Abort, ReleaseSalesOrder, CreateSalesOrderAmendment,
       LinkCustomerPo, ResumeSalesOrder, UpdateSalesOrderDraft, HoldSalesOrder,
       CancelSalesOrder, CreateProject
  <2> QED
    BY <2>1, <2>2
<1>2. ASSUME NEW a \in Request, RequestStep(a) PROVE Verdicts!Next \/ UNCHANGED outcome
  <2>1. ASSUME NEW verdict \in Verdict, Decide(a, verdict) PROVE Verdicts!Next
    BY <2>1 DEF Decide, Verdicts!Next, Verdicts!Decide
  <2>2. ASSUME Withdraw(a) PROVE Verdicts!Next
    BY <2>2 DEF Withdraw, Verdicts!Next, Verdicts!Withdraw
  <2>3. ASSUME Sync(a) \/ SyncLost(a) PROVE UNCHANGED outcome
    BY <2>3 DEF Sync, SyncRead, SyncSaveRevision, SyncSaveOrder, SyncLost
  <2> QED
    BY <1>2, <2>1, <2>2, <2>3 DEF RequestStep
<1> QED
  BY <1>1, <1>2, NextSteps DEF vars

\* The order asks for approval as ApprovalVerdict allows, and what it believes
\* of the engine is no more than that (submit_sales_order,
\* sync_sales_order_approval); EngineKeepsItsWord is the engine's side.
THEOREM OrderRestsOnVerdicts == Spec => Verdicts!Spec
<1>1. Init => Verdicts!Init
  BY DEF Init, Verdicts!Init
<1> QED
  BY <1>1, RequestsStep, PTL DEF Spec, Verdicts!Spec

=============================================================================
