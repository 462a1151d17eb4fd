# Verification of the CRM's commercial and engineering workflow

This directory holds TLA+ models of this repository (`backend/apps`, Django on
PostgreSQL, and `frontend/src/production`, React), the TLC configurations that
check them on small instances, and proofs, checked by TLAPS, that the main
invariants hold for any number of users, requests, revisions, questions and
forms.

The program is a set of database transactions started by web requests, and
browsers that show what those transactions left. Its difficult part is neither
a data structure nor an algorithm but the order in which transactions and
answers of different people meet: what a command had read before it got its
lock, what happens between the commit of a decision and the callback that
carries it to the record it is about, and what a page still shows when its user
presses a button.

## 1. Inventory

| Component | State | Operations | Interacts with | What makes it correct |
|---|---|---|---|---|
| approvals | workflow versions; requests, steps, assignments, decisions | submit, approve, reject, return, cancel, reassign; draft, clone, activate versions | accounts and roles (who may decide), the events every business record listens to | steps in order, quorum, separation of duties, the outcome is what the votes say |
| sales | sales orders and revisions, customer purchase orders | submit, release, amend, edit, hold, resume, cancel, link order | approvals (callback), quotations (source), projects (baseline) | released means approved; released revisions never change; the project is on the newest release |
| projects | project, engineering handoff, questions | prepare, submit, take, assign, ask, answer, accept, hold, resume, cancel | sales (baseline), owner workspace (reassignment) | one owner, acceptance only without open questions, no silent change of baseline |
| quotations | quotation, revisions, communication, confirmation | edit, finalize, revise, send, negotiate, confirm, mark ready | approvals (callback), sales | what was sent was cleared and is kept |
| estimation | estimate revisions and cost lines | create, edit, submit, revise | engineering reviews, enquiries, approvals (callback with a lock) | one current estimate, the verdict of the right request |
| engineering_reviews | reviews, clarifications | assign, start, ask, answer, close, complete, reassess | enquiries, estimation, approvals (queried) | an estimate begins on a completed review with nothing open |
| external_enquiries | submissions, attachments | intake, assign, decide, convert | the website, customers, enquiries, documents, storage | what was acknowledged is stored, files match rows, one enquiry per submission |
| enquiries, crm | enquiries, customers, contacts, follow-ups | edit, change status | all commercial records | status follows the commercial records; an edit does not overwrite what its author never saw |
| documents | documents, versions, stored files | create, add version, archive | storage | version numbers are gapless, no row without a file |
| numbering | one counter per company, kind and year | allocate | every command that creates a record | numbers are never given twice |
| rbac, accounts, organization | users, employees, roles, overrides | activate, deactivate, assign, override | approvals, owner workspace | an active owner is always left |
| core | domain events, optimistic locking, owner workspace | publish, reassign work | everything | callbacks see committed data; stale edits are refused |
| audit, notifications | audit rows; notifications | append; mark read | domain events | nothing in the commands depends on them |
| realtime | groups, presence | broadcast, subscribe, heartbeat | domain events, browsers | browsers that listen hear of every change |
| browser | query cache, open dialogs, forms | open, press, type, save | every command, realtime | offers what the server takes, sends it once, does not stay stale, keeps typed text |
| configuration, masters | settings, feature flags, reference data | edit | read by all | no protocol |

Mechanisms that occur everywhere, and where the hard behaviour comes from:

*Row locks under READ COMMITTED.* A command begins with
`select_for_update()`. Where that statement also joins another table and
locks only the first one (`of=("self",)`), PostgreSQL evaluates the join on the
snapshot the statement started with and rereads only the locked row once the
lock is granted. The command then decides on a joined row older than the row it
locked; if the foreign key itself changed, the join finds nothing. Without
`of`, and over foreign keys that are not null, both rows are locked and fresh.

*Domain events.* `publish` (`core/domain_events.py:47`) calls synchronous
subscribers inside the transaction and the others after its commit. An error
in the latter is logged and swallowed, and nothing retries (line 39). The
subscribers that change business state are those of sales, quotations and
estimation, which carry the verdict on an approval request to its record. The
realtime subscriber broadcasts the event to browsers.

*Optimistic locking.* A draft carries `record_version`; an edit must name the
version its author saw. Which version a form names is the browser's business.

*The query cache.* A page shows answers kept under query keys. They are fetched
again when a command's `onSuccess` or an event of the socket invalidates their
root, when they are old and shown again, or, for a few, on a timer.

## 2. Modules

| Module | Models | Checked by | Proved in |
|---|---|---|---|
| `ApprovalOutcome` | what an approval request promises those who ask | refined by `ApprovalEngine` | `ApprovalEngineProofs` |
| `ApprovalVerdict` | what a quotation, an order or an estimate relies on when it asks for approval | implemented by `ApprovalEngine`, used by `SalesOrder`, `Quotation`, `Estimation` | `ApprovalEngineProofs` |
| `ApprovalEngine` | `approvals/services.py` and the account changes of `accounts/views.py` | `MCApprovalEngine` | `ApprovalEngineProofs` |
| `SalesOrder` | `sales/services.py` without purchase orders; its project's baseline | `MCSalesOrder` | `SalesOrderProofs` |
| `ProjectHandoff` | `projects/services.py`, `reassign_work` for projects | `MCProjectHandoff` | `ProjectHandoffProofs` |
| `Quotation` | `quotations/services.py`, `create_sales_order_from_quotation` | `MCQuotation` | `QuotationProofs` |
| `Estimation` | `estimation/services.py`, `engineering_reviews/services.py`, the status of an enquiry (`enquiries/services.py`), `create_quotation` | `MCEstimation` | `EstimationProofs` |
| `Intake` | `external_enquiries/intake.py`, `services.py`, `views.py` | `MCIntake` | `IntakeProofs` |
| `Owners` | `rbac/safety.py`, the requests of rbac, accounts and organization that take the Owner permission away | `Owners.cfg` | |
| `Drafts` | every form over one record: `resource-page.tsx`, `quotation-page.tsx`, `sales-order-page.tsx`, `employee-form-page.tsx`, `core/concurrency.py` | `MCDrafts` | `DraftsProofs` |
| `Workspace` | the query cache, `lib/realtime.tsx`, `lib/api.ts`, a screen and its commands | `MCWorkspace` | `WorkspaceProofs` |
| `ScreenTables` | the vocabulary of the tables below | `MCWorkspace` | |
| `ApprovalScreens`, `CrmScreens`, `EnquiryScreens`, `CommercialScreens`, `OrderScreens`, `DocumentScreens`, `AdminScreens` | the pages and dialogs of `frontend/src/production`, each beside what the server accepts of it | `MCWorkspace` | |
| `ErpScreens` | `App.tsx`'s routes and `realtime.tsx`'s table of query roots | `MCWorkspace` | |

**ApprovalEngine.** One action per command. Every command locks the request
row first and reads the rest afterwards, so a command is one step. Variables
follow the rows: `status`, `current`, `requester`, `version` are columns of the
request, `step[r][s]` and `assigned[r][s][u]` the status of step instances and
assignments, `decisions[r]` the decision rows. A request copies its steps from
an activated version, so versions are the constant `Workflow`. `DeactivateUser`
and `ActivateUser` happen between any two commands and take permissions away.

**ApprovalOutcome.** The same request without steps' rows, assignments, the
current step or accounts: only votes, and an outcome. A vote is cast on the first
step that lacks its votes, once a person; the vote that completes the last step
approves, one refusal ends it. `ApprovalEngine!OutcomeIsTheVotes` is the abstract
specification under the mapping `votes <- decisions`.

**SalesOrder.** One order. Commands that join the revision while they wait for
the order's lock are two steps: `Read`, which takes the snapshot, and the
command, which has a fresh order and the old revision row (`staff[p].row`);
`Locked` says that the join still finds it. `submit_sales_order` saves every
column of that row, `release_sales_order` only some. Commands that lock the
revision too (`UpdateSalesOrderDraft`) or none (`HoldSalesOrder`) are one step.
The callback is three: `SyncRead`, `SyncSaveRevision`, `SyncSaveOrder`, because
the code reads without a lock and saves in two commits. A revision's content is
its `version`.

**ProjectHandoff.** One project. Commands lock project and handoff and are one
step; `respond_project_clarification` locks only the question, so the count of
open questions and the commit are separate (`BeginAnswer`, `CommitAnswer`).

**Quotation.** One quotation. Commands lock quotation and revision and are one
step; the callback takes no lock and updates the two rows in two commits
(`SyncRevision`, `SyncQuotation`). A workflow is optional and the caller's
choice (`FinalizeForApproval`, `FinalizeUnchecked`).

**Estimation.** One enquiry with the revisions of its workshop review, of its
estimate and the quotation made for it, composed because each of them writes the
enquiry's status and an estimate stands on its review. Commands on reviews and
estimates lock the row and the enquiry over foreign keys that are not null, so
they are one step, and so is `SyncEstimateApproval`, the only callback that locks
its record and compares the request. `create_quotation` locks nothing and reads
before its transaction begins: `ReadEnquiry`, `ReadEstimate` and
`CreateQuotation` are separate steps of a clerk. A review's approval has no
callback; whether one is needed is looked up when an estimate is created, so it
depends on the workflows active at that time (`gated`), and `waived` remembers
the reviews that were used while none matched. What an estimate says is its
price, as far as the code tells prices apart: no lines, lines worth nothing, or
one of `MaxPrice` positive prices. `AdvanceEnquiry` stands for the quotation's
commands that write the enquiry's status, and allows them more often than the
quotation does; the properties hold all the same.

**Intake.** Deliveries of the website, each served by a process of its own:
`Look`; `Validate`, the `full_clean` that every save runs first and that finds
what is committed, so that such a clash is answered with an error and not looked
up; `Insert`, which waits for transactions that hold an identifier of the row, as
a unique index does, and meets what they committed meanwhile; `StoreFile` for
each file, `Commit`, `Publish`, and `LookAgain` after a violated constraint. Rows
are visible from `Commit` on; files and the event are outside the transaction. A
process may stop at any step, and the store may fail at a file, leaving a part of
it, or at deleting one (`StoreFails`, and `CopyFails` for a conversion: a key is
noted once its file is whole, so nobody deletes the part). Repetitions are
deliveries with equal identifiers, so the scenarios are sets of messages.
Conversion (`BeginConversion`, `CopyFile`, `CommitConversion`, `FailConversion`)
holds the submission's row lock, and triage waits for it.

**Owners.** What decides who is an owner, and the requests that change it. A
request is two steps, `Check` under the lock of the row it changes and `Commit`,
because the other owners are read without a lock.

**Drafts.** Several editors with a form each on one record. A version counts the
writes; an editor's browser holds some version as its answer, the form was filled
from one (`text`), keeps one (`base`), and may hold words not saved. The six
kinds of form of the application are five choices: what a changed answer does
to the text (`refills`), whether the answer of another version or revision makes
React build the form anew by its key (`mounts`), whether every edit marks the form
as dirty (`marks`), which version a save sends, and whether the form closes. `authors`
says who wrote each version, `revised` which versions began another revision. A form
may be closed at any time (`Leave`): its user leaves, or the page, or all of the
workspace, gives way to the error of a refetch. `Dropping` is a set of pairs of a form
and a loss: the answer shows another revision, or else the text was marked as an edit or
was not. An editor has one save under way at a time, which the pending button sees to
as long as the form is not built anew.

**Workspace and the screens.** One browser with one screen open and one query
followed: a page's queries do not affect one another, so what holds of any one
holds of all. The server's record is a log of changes, and an answer is the
prefix it was read after; an answer may be read anywhere between its request and
its arrival. A `Screen` is the queries a page reads and its offers: the query
whose answer decides whether a button is offered, the situations in which it is,
the permissions and inputs it is disabled without, and the roots it invalidates.
A `Command` is what the server requires, the situations it accepts, what it
changes and the events it publishes. A situation is as much of a record's state
as some page or command tells apart. Each `*Screens` module writes both sides of
one part of the application, page beside service; they are read from different
files, and `Workspace` says in named assumptions how they must agree:
`UncheckedAssumption` (`Unchecked` lists exactly the situations in which a page offers
what the server may refuse), `AgainAssumption` (a button
that can be pressed twice has a command that is spent once made), `LeftAssumption` (a
command refreshes what it changed of every screen it may lead to) and
`WritesAssumption`. TLC evaluates them on the tables of the whole application before
the run; what they are worth under every order of answers, events and other people's
changes is what the invariants check on two changes and the theorems prove for any
number of them.

The server refuses for many reasons. In the tables are: the record's situation; every
permission, those of the commands a command calls among them (a release creates the
project, finalizing with a workflow submits a request, a conversion uploads documents);
inputs the server cannot do without, also where one field makes another one necessary;
and records chosen from a list that holds some the server does not accept. Where a page
asks for less than the server, the pair is in `Unchecked`. Not in the tables are: a
version that is not current (that is `Drafts`); the scope of a permission and records of
another company; the format, range and uniqueness of what is typed; the company's set-up
(number sequences, the currency master) and whether the account belongs to an active
employee; and a chosen record that changes after the list it was chosen from was
loaded.

**ApprovalVerdict.** The seam between the engine and its clients: a request is
asked for, then decided once or withdrawn. In `SalesOrder`, `Quotation` and
`Estimation` the engine is the two actions `Decide` and `Withdraw`, guarded by nothing
but that the request is open. Each of the four modules maps its requests to this
specification (`Verdicts`), the engine by way of `ApprovalOutcome`.

Operators marked `Mutant` in the modules are plausible mistakes in the code.
They are not part of any behaviour; each breaks one of the properties when it
takes the place of the definition it is a variant of.

## 3. Runs

| Run | Instance | Shows |
|---|---|---|
| `approval` | four users with different permissions; a one-approver workflow with self approval and a two-step one with a quorum of two | order and separation of duties; the engine implements `ApprovalOutcome`; with fairness, a decision unless too few able approvers are left |
| `sales_order` | two workers, two requests, an amendment, callbacks late or lost | what still holds when revisions are read stale: what is released was approved, the project is on the newest release |
| `sales_order_one_worker` | one worker, edits up to version 3 | with commands that do not overlap, released revisions are safe although callbacks race them; a verdict reaches the order |
| `sales_order_released` | two workers | **violated**: a released revision goes back to pending |
| `handoff` | two engineers, three questions, two amendments | acceptance, ownership, baseline |
| `handoff_owed` | two questions | **violated**: a handoff waits for clarification nobody owes |
| `quotation` | two requests, two revisions, two versions | clearance, frozen content, confirmation; a verdict reaches the revision |
| `estimation` | two reviews, two estimates, two requests, one question, one clerk | estimates rest on feasible approved reviews, are approved as submitted, and are current where the enquiry says so; quotations offer approved prices |
| `intake` | three deliveries in five scenarios (repeated, edited, from a second site, with two equal files, with two files), two conversions, processes that stop | nothing acknowledged is lost, files match rows, one enquiry at most, everybody answered |
| `owners` | two owners | **violated**: no owner is left |
| `drafts` | two editors and a colleague, three versions, each of the six kinds of form | only the named forms overwrite, and an open form drops text only in the named losses |
| `workspace` | all screens, queries and commands, two changes of the record | a button's command is refused only when overtaken or where page and server disagree, takes effect once, its result shows, and stale answers have a known cause, but for the named cases |

*Bounds.* Two workers and two requests are what it takes for one command or
verdict to meet another; the failures found need no more. Revisions go up to
one amendment (sales, quotation) or two (project), enough for an old revision to
get a late verdict; versions as far as an edit must be lost to be seen. In
`sales_order` edits are bounded away (`MaxVersion = 1`) because its properties do
not speak of content. `MaxRevision`, `MaxVersion` and `MaxChanges` appear only in
guards and are marked as bounds. In `estimation` the second review and the
second estimate are what a late verdict, a reassessment or an unlocked quotation
can meet; one positive price and lines worth nothing are enough to tell an edited
estimate from the submitted one. In `intake` the third delivery is the one that
finds what two racing ones left. In `drafts` three versions are a save, a
colleague's change, which may begin another revision, and a second save; the editors are
interchangeable. In `workspace` two changes (`MaxChanges = 2`)
are a command and somebody else's, in either order, or a command sent twice; the
situations a record may begin in are chosen so that every one a page offers something
in is reached by the first change. One thing takes a third: a second press that does
its work again after somebody else has put the record back (`Reopened`); that is left
to `AgainAssumption` and its theorem, `EffectOnce`. Approval requests, and workers, are interchangeable, and the runs without a liveness
property use that symmetry.

*Exceptions.* `Workspace` and `Drafts` have constants that name the cases in which
the code does what a property forbids: `Unchecked`, `Repeatable`, `Reopened`,
`LeftBehind`, `Overwriting`, `Dropping`. They are listed in `MCWorkspace.tla` and
`MCDrafts`, each is a disagreement of section 4, and the runs show that there
are no others. `Unchecked`, `Overwriting` and `Dropping` are assumed to be exactly what
the tables say and cannot hide anything else. The assumptions of `Workspace` hold of its tables with these constants
and fail of a table that has another such case.

*Deadlock* is checked except for `Quotation`, where an agreed and ordered quotation
stays as it is, and for `Intake`, which ends when deliveries and conversions do.

*Fairness.* `ApprovalEngine!Fairness` asks only that somebody who can approve
eventually does; nobody has to reject, cancel or reassign. In `SalesOrder` and
`Quotation` the callback is weakly fair, since it runs on the thread that
committed the decision; nothing is assumed of people. In `SalesOrder` `MayFail`
says whether that thread can die or raise: with it the verdict may never arrive,
and the liveness property is not claimed. In `Intake` a web process goes on with
the request it serves, unless it stops, which it may at any step. Nothing is fair
in `Workspace` and `Drafts`: their properties are about what a step may do.

## 4. What disagrees with the documentation

Shown by runs that TLC finds violated:

* **A released sales order revision goes back to pending** (`ReleasedIsImmutable`).
  Two submissions of one draft, a double click say: the second waits for the
  lock with the draft it has read. If approval and release are committed before
  it gets the lock it saves the released revision as pending. The same stale save
  takes back edits and `record_version`. The documents promise that released
  revisions are immutable (`docs/phase-3/01:21`). With one worker at a time
  the property holds.
* **A handoff that waits for nothing** (`ClarificationIsOwed`). Two answers at once
  each see the other question open; neither resets the status. Asking and
  answering once more, or submitting again, repairs it.
* **A company without an owner** (`AnOwnerRemains`). `OwnerContinuityMixin` guards
  updates; a new Deny override is created past it. And two requests about two
  owners each count the other one, who is not locked.

Traced in the models, with the property that states it where there is one:

* *Sent during its approval* (`SentWasCleared` is what still holds).
  `finalize_revision` does not look at the revision's status and the workflow is
  the caller's choice, so a revision in approval is finalized again without one and
  sent while its request is open. `docs/phase-2/14-realtime-quotation-staff-guide.md:35`
  asks to complete the approval first.
* *An order for something never sent* (`ConfirmedAfterSending` is what still holds).
  Sending an older revision marks the whole quotation as sent; confirmation and
  order take the current one, a draft (`docs/phase-2/13-realtime-quotation-architecture.md:70`).
* *A closed enquiry is opened again.* Won, Lost and Cancelled have no way out in the
  documents (`docs/phase-0/04-workflow-state-diagrams.md:36-38`) and in
  `transition_enquiry`, but creating or approving an estimate, sending a quotation,
  negotiating and confirming set the status whatever it is.
* A standard quotation may be created from an estimate that was superseded after
  `create_quotation` read it, where `docs/phase-2/16:44` admits only the current one
  (what it offers was approved, which is `QuotedWasApproved`). An estimate keeps the
  review it was first made from when that review is reassessed, and revising it does
  not look at the new one. Two requests on one quotation revision let the rejection
  of one overwrite the approval of the other. A request that is cancelled leaves its
  order pending with no command to free it. A late verdict sets an order on hold or
  cancelled back to approved or draft. `submit_engineering_handoff` and
  `take_engineering_handoff` do not ask whether the project is on hold.

*Incoming enquiries.* When the process stops between the commit and `publish`
(`external_enquiries/views.py:57-74`) nobody is told of the submission, and a repeated
delivery is answered 200 without publishing (`AnnouncedUnlessCrashed` names the case).
Two equal files in one delivery violate `unique_external_attachment_checksum` each
time it is repeated. The same external identifier from another credential of the
company ends in an error, not in the conflict answer. A store that fails half-way
leaves a partial file, since its key is noted afterwards. A conversion publishes only
the submission's event, so lists of customers and enquiries are not told of what it made.

*Forms* (`Overwriting` in `MCDrafts.cfg`, `Dropping` in `MCDrafts.tla`). The employee form sends the
version of the answer at hand with text filled from an older one, and so overwrites
what its user never saw. Customers, contacts, sites, follow-ups, enquiries,
requirements, items, assessments and pricing are saved without a version. The drafts of
sales orders and handoffs are filled again by every changed answer, unsaved words and
all. The pricing panel is built anew whenever the estimate changes
(`estimate-page.tsx:258`), the quotation builder when a colleague begins another revision
(`quotation-page.tsx:160`), marked as dirty or not. Removing a line does not mark the
builder as dirty (line 98), so the next changed answer brings the line back. An open form
also goes when a page, or the signed-in user's record (`auth-boundary.tsx:26`), is
refetched without success. The quotation builder compares its saved text with the older answer still in the
cache: it shows the old text until the refetch, and reports its own save as a
colleague's change when its user has typed on; what is typed while a save is under way
is dropped by its answer.

*Pages* (`Unchecked` in `MCWorkspace.tla`: commands offered where the server may refuse
them).

- Approvals: approving one's own request; rejecting and returning where the step
  does not allow it; activating a version with too few approvers; reassigning to
  somebody who may not approve.
- Customers and enquiries: deactivating and blocking a customer with another permission
  and without the reason the server wants; a possible duplicate without a reason; a contact
  without e-mail or phone; owners of enquiries, activities and submissions who have no login or
  are not active; an enquiry of a customer that is closed for business; closing a draft
  enquiry as lost; capturing an enquiry without the address its channel needs; converting
  a submission with files without asking for the permission to upload documents.
- Engineering: engineers and recipients of questions without a login; completing a review
  without what its result needs; answering somebody else's question; accepting a handoff
  assigned to somebody else, or left waiting though every question is answered.
- Commercial: an estimate for an enquiry that is not ready for one; saving and
  submitting estimates without asking for the permission; finalizing with a workflow without
  `approvals.request.submit`, or with one that is not effective or whose conditions do not
  hold; sharing a quotation that is not finalized; a purchase order for a quotation of another
  customer or currency; a direct order in another currency; holding an order in draft or
  pending; releasing an order without `projects.project.create`.
- Administration: granting rights one does not hold; making an employee inactive in the
  form; disabling one's own login or the final owner's.

On the other hand a returned order, a held order
with a project, and the creation of a project are accepted by the server and offered
nowhere.

*Double clicks* (`Repeatable`). Cloning a workflow version, marking a quotation ready and
beginning a new quotation revision are not disabled while they are pending. Nor are
closing a clarification, resuming an order or a project and acknowledging a changed
baseline (`Reopened`): the second request has no effect, unless a colleague has
asked, held or amended again in between, and then it undoes that unseen.

*Stale answers* (`LeftBehind`, and what `StaleForAReason` allows). Reconnecting does not
fetch anything again, where `docs/global-foundation/03-multi-user-guide.md:29` says it
does. An invalidation during a first load is swallowed. `setQueryData` of an older
answer replaces a newer one. No event names the roots `customer-360`,
`enquiry-workspace`, `engineering-workspace`, `engineering-revisions`,
`commercial-estimate-workspace`, `sales-order-comparison`, `quotation-comparison`,
`approval-workflows` and `employee`; the callbacks that carry a verdict to its quotation
or order publish nothing about them; closing a clarification and reassigning work
publish types no root answers to. Ten entries of `queryRoots` are for types nobody
publishes.

## 5. Proofs

All theorems have the form `Spec => []P`, `Spec => [][A]_vars` or
`Spec => Abstract!Spec` and hold for every value of the constants that satisfies the
named assumptions. Each proof goes by one inductive invariant: initial states satisfy
it, every action preserves it, it implies `P`.

* `ApprovalEngineProofs`: type correctness, `InOrder`, `Quorum`,
  `SeparationOfDuties`, `QuorumReachable`, `NothingPendingOnceDecided` and
  `DecidedIsFinal`, for any users, versions and requests. Users must be finite,
  for the counting in the quorum; sequence numbers must be positive, as the
  database constraint says. The strengthening ties the rows of a request that is
  not in progress to its status, and fixes assignments of steps not opened yet.
  The same module proves `DecisionsExplainOutcome` and that every step of the engine is
  a step of `ApprovalOutcome` or leaves outcome and votes alone
  (`EngineImplementsOutcome`). The addition to the invariant is that the recorded
  decisions are exactly the decided assignments, one for each person and step, so that
  counting one is counting the other; hence the step that is current for the engine is
  the one that is due for the votes. `EngineKeepsItsWord` goes on from there: a step of
  the outcome is a step of `ApprovalVerdict` once steps and voters are forgotten.
  `OrderRestsOnVerdicts`, `QuotationRestsOnVerdicts` and `EstimateRestsOnVerdicts`, in the
  proof modules of the clients, are the other side: they ask for nothing else, so what is
  proved of them with `Decide` and `Withdraw` holds of them beside the engine, whose
  assignments, steps and accounts they do not see.
* `SalesOrderProofs`: for any overlap of commands, type correctness, `ReleasedWasApproved`
  and `BaselineIsNewestRelease`. `Sound` is why a stale row does no harm there: what a row
  says of its revision, approved or released, was true when it was read, and clearance and
  release are facts that are never taken back, though the status may be. `OneUndecidedRequest`
  and `ReleasedIsImmutable` are false with overlapping commands and proved under `OneWorker`:
  a request is `Live` until its verdict is saved; live requests are about different pending
  revisions, so the callback only saves over pending ones, and a row that was read and is not
  pending is still the row in the database (`ReadIsFresh`).
* `ProjectHandoffProofs`: type correctness and the six properties of `ProjectHandoff`.
  The one addition is `AnswersAreOpen`: while an answer is in progress
  its question is still open for everybody else. That is why the unlocked write
  of the handoff cannot meet an accepted one: acceptance asks that no question is
  open.
* `QuotationProofs`: type correctness, `SentWasCleared`, `ReadyIsConfirmed`,
  `ConfirmedAfterSending` and `FrozenIsKept`. `StatusIsEarned` makes each status
  from which a revision can be sent a witness of its clearance, and
  `CurrentIsNewest` keeps late verdicts on rows that exist; `Moves` lists how one
  step changes one revision, so that the other lemmas need not look at actions.
* `EstimationProofs`: type correctness and seven properties of `Estimation`. Reviews and
  estimates are separate arguments. `ReviewsInOrder` says
  that a result comes only with completion, so `CompletedIsKept`, the lemma behind
  `CompletedIsFinal`, also keeps good what an estimate was made from
  (`SoundIsKept`). `OnlyCurrentIsLive` and `RequestsAreAwaited` say that an undecided
  request is the one the current estimate waits for, unchanged: that is what the
  callback's lock and comparison rely on, and why a decided one finds what was
  submitted.
* `DraftsProofs`: type correctness, `NoSilentOverwrite` and `UnsavedTextKept`, for any
  editors, forms and versions. `ExceptionsAssumption` fixes the exceptions by the forms'
  choices: `Overwriting` is the forms that do not send the version their text was filled
  from, `Dropping` the pairs of a form and what it `Loses` by its way of refilling, its key
  and its marks. The invariant (`Sound`, `FormInv`) says that `text` and `base` are one
  version, in the form and in the save that is under way, and that words a form does not
  know of came by an edit that it does not mark. `RefillFacts` is the lemma behind
  `TypedTextStays`: a changed answer takes typed words only as a loss of that form.
* `IntakeProofs`: type correctness and every safety property of `Intake`, for any
  deliveries and conversions; the assumption `ApartAssumption` says that no file is named
  after a delivery and a conversion both. `RowsAreServed` ties a row to the one process
  that commits it, which makes "created" true when it is said. `DeliveryFiles` and
  `AttemptFiles` say that who is storing has the first `k` of its files, so that the commit
  after the last number finds all of them, and that nobody touches the files of others.
  `CopyingIsAlone` is the row lock of a conversion: nobody decides or converts meanwhile.

* `WorkspaceProofs`: the five properties of `Workspace`, for any tables of screens,
  commands, queries and families that satisfy the assumptions named above, and a record
  that changes any number of times. Each property has its own part of the invariant.
  `Fed` is for `StaleForAReason`: an answer on display misses excused changes only (not
  shown by the query, not told of, on their way, lost or swallowed), and so does the
  answer that is being fetched once it comes, and the one that a closed page left in the
  cache unmarked. The last is what makes it inductive: a page that opens shows such an
  answer without asking, and fetches a marked one. `PressIsOffered` and
  `ResponsesAreTrue` are for `RefusedOnlyWhenOvertaken`: the situation the user looked at
  is one in which the page offers the command, so a refusal at the same point of the log
  is one of the tables' `Disagreements`. `RefusalsAreDisagreements` says so of any tables,
  with no assumption that they agree: presses, answers, events and other people's changes,
  in whatever order, add no refusal to those the tables have by themselves, except to who
  was overtaken. `RefusedAlways` is its corollary where `Unchecked` lists the
  disagreements. `CommandIsSpent` is for `TakesEffectOnce`: once
  the command is made the record stays in situations in which it has no effect,
  whatever others do, or, of a `Reopened` command, until they do something.
  `OwnChangeShows` is proved of each step from the same invariant: the screen a command
  leads to is one of its `Destinations`, so `LeftAssumption` speaks of it.
  A table that goes wrong (a button no longer disabled, a forgotten refresh, a looser
  offer) falsifies an assumption and stops the run before it starts.

Only model-checked are the liveness properties: `DecidedUnlessStuck` of `approval`,
`DecisionReachesOrder` of `sales_order_one_worker`, `DecisionReachesRevision` of
`quotation` and `EveryDeliveryAnswered` of `intake`. They depend on fairness, which is
beyond the prover. Every other property of a passing run has its theorem. That the
tables satisfy the assumptions of `Workspace` is evaluated by TLC, since they are
finite data.

## 6. Not modelled, and why

Texts, amounts, dates, company scoping and the HTTP layer: no property is about
them. Prices and taxes are pure functions of one row's lines. A deadlock of two
transactions (commands lock the revision before the quotation, `create_revision` the
quotation first) is a command that is rolled back and repeated. Numbering is one
locked counter. Audit has no protocol. Presence is advisory. How `variance_snapshot` of
a purchase order is computed on a stale revision, the rows of workflow versions, and
version numbers of documents have no model of their own yet, only their pages and
commands. In the browser: signing in, the shell, dashboards and pages without a command
(`my-work`, `activity`, health and tools), failed fetches and their retries, and
`website-enquiries-page.tsx`, which no route leads to.

## 7. Plan

Next, in this order:

1. *Customer purchase orders*: variance review on a stale revision.
2. *Workflow versions*: editing a draft while it is activated (`approvals/models.py:212`).
3. *Documents*: version numbers under the document's lock, archiving while a version is added.
4. *Composition* of quotation, sales order and project through one life of a deal.
5. *Proofs*: what single requests keep in `Owners`, where the run finds what
   overlapping ones break; the converse refinement of `SalesOrder` with one worker, that
   an order whose commands do not overlap is one row per revision that only moves forward.
