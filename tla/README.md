# Nexa BOS: TLA+ models and proofs

Nexa BOS is the back office of a bank-products sales organisation: a FastAPI
service over PostgreSQL (`apps/api/nexa_bos_api`) and a web client (`apps/web`).
Every request is one database transaction at READ COMMITTED; two tasks in each API
process (`transfers/scheduler.py`, `case_operations/scheduler.py`) do the periodic
work. All durable state is rows, so the hard questions are about rows: which row a
handler locks, what it read before the lock, which constraint catches what the lock
does not, and whether pieces of state that several handlers keep in step stay so.

## Inventory

Paths below are relative to `apps/api/nexa_bos_api`.

| Component | State | Operations | Hard behaviour | What makes it correct | Module |
|---|---|---|---|---|---|
| Case lifecycle: `applications/service.py`, `tat.py`, `review.py` | `applications` row; occupancies, delays, owner and case-number histories, events | edit, review, reassign, number, stage, correct, outcome, migrate, delay | OWNER and GM handlers decide on a copy they never locked; the same facts in a column, a history and an event chain | one open occupancy, for the current stage; submitted once; terminal is final; histories match columns | `CaseLifecycle` |
| Booking, bank submission, earnings: `case_operations/service.py`, `csv_service.py` | routing columns of the case, `case_earnings` | book, Sales Manager decision, bank submission, CSV stage import | three actors in turn, each reading part of the state; an import beside the routes | the review chain and the routing agree; an earning is posted once and only when earned | `CaseLifecycle` |
| Intake: `applications/service.py`, `customers/`, `applications/workflow_service.py` | customers, identifiers, cases, codes, workflow versions | create a case, register, identify, merge, activate a customer or a version | nothing is locked: checks first, unique indexes later | one live case per customer, bank and product; identifiers and codes unique; a merge leaves nothing behind | `Intake` |
| Clawback: `case_operations/service.py` | `case_clawback_requests`, `case_earning_reversals` | request, approve, reject | the two handlers lock different rows | never reversed beyond the earning | `Clawback`, `ClawbackLedger` |
| Overdue dispatch: `case_operations/overdue.py` | dispatch rows, notifications | a cycle per process and five minutes | every process dispatches; one duplicate fails a whole cycle | each reminder of the day once, eventually | `OverdueReminders` |
| Transfers: `transfers/` | `employee_transfers`, events, the employee's assignment | draft, submit, review, approve, apply, supersede, cancel; executor | several executors, stale employee, failure recorded after a rollback | applied once, on what was reviewed, by independent people | `EmployeeTransfers` |
| Exits: `offboarding/` | exit case, checklist | submit, notice, clearance, ready, complete, cancel, reopen | completion against asset allocation | nobody leaves with an asset; checklist complete | `Exits` |
| Assets: `assets/` | asset, allocations, lifecycle events, categories | register, allocate, return, move, repair, dispose, correct; timeline | asset locked, employee not; the timeline is read off events of two releases | one custody; the timeline is complete and true; a used category keeps its fields | `AssetCustody`, `AssetTimeline`, `AssetCategories` |
| Leave: `leave/` | requests, balances, events | submit, approve twice, override, cancel with consent | two requests at once, each locks itself | approved for its present dates; no overlap or overdraft without a reason | `Leave` |
| Contracts: `contracts/` | contracts, attachments | draft, attach, submit, activate, supersede, cancel | two activations; evidence replaced under review | one contract in force, as an OWNER read it | `Contracts` |
| Approval Centre: `approvals/` | none of its own | offer, decide | an unlocked look, then a service with rules of its own | what is decided is what was shown | `Approvals` |
| Attendance: `attendance/` | records, corrections, provenance, month events, holidays, working week | enter, import, correct, record leave, close, reopen; roster | month lock of an office that the employee changes; a calendar that changes after the fact | closed months stand; histories without gaps; the roster adds up | `Attendance`, `Workdays` |
| Notifications: `notifications/`, reminders of `attendance/service.py` | rules, notifications, deliveries, reminders, dismissals | source events, urgent sends, listing, dismissing | two transactions in a listing, unordered with dismissals | reminders and Notification Center agree | `Notifications` |
| Targets and KPI: `targets/` | targets, period locks, scorecards | set, lock, reopen, edit, activate; proration, score | check of the lock before the write; arithmetic over windows | one active card, scores in 0..100; prorated targets add up | `Targets` |
| Finance: `finance/` | rules, plans, slabs, periods, components, payouts | create, activate, generate, review, finalise, reopen, adjust, claw back | order of periods, carried amounts, overlapping rules | no period changes under a later one; no cent is lost; no month is ambiguous | `Payouts`, `Commission` |
| Reporting: `reporting/` | none of its own | metrics, cohorts, windows, scopes, rankings | derived from histories that go on | credit stays where it was earned; figures add up | `Reporting` |
| Identity: `identity/` | users, sessions, tokens, identifiers, organisation masters | login, MFA, links, edit user, import, rehire, delete master | login against deactivation; checks before unique indexes; cycles of two edges | sessions only where allowed; identifiers never reused; forest of managers; deleted means unused | `Sessions`, `Identities`, `Hierarchy`, `Organisation` |
| Employee documents: `employee_profiles/` | document versions, files | upload, replace, clone, inactivate, purge | files written before and unlinked after the commit | no version loses its file | `EmployeeDocuments` |
| Catalogue, web, exports, migrations | see "Not modelled" | | | | |

How they interact: `case_operations` writes the case's row and calls the TAT and
case-number helpers of `applications`; its earnings feed clawback and, at month end,
`finance`. `transfers` and `offboarding` call `identity.users_service.update_user`
inside their own transaction, which also writes the assignment and employment
histories. `assets` and `leave` read the employee that those change; the roster of
`attendance` reads leave, holidays and the employee's office. `approvals` forwards a
decision to the owning handler. `reporting` and `finance` attribute what a case did by
the same dated histories. The hazards, each at its line and with the properties that
cover it, are in `PROJECT.json`.

## Modules

In each module a definition whose comment begins "Mutant:" is not part of the model: it
is a plausible bug of the definition after it, used to see that the property can fail.
Each module has a `...TypeOK` that gives the shape of its state.

The modules named `MC...` put small instances side by side. Components that share no
row are not composed: a variable `focus`, chosen initially and never changed, says
whose behaviour it is, the others stand still in one initial state, and one run answers
for all of them. Components that do meet on rows are composed for real: `Exits` extends
`AssetCustody`, `Clawback` is checked against `ClawbackLedger`, `EmployeeTransfers`
holds both the OWNER's requests and the executors, `Intake` customers, cases and
workflow versions.

| Module | Side by side |
|---|---|
| `MCCases` | `CaseLifecycle` with overlapping requests, `Intake`, `Workdays` |
| `MCProgress` | `Clawback`, `EmployeeTransfers` with executors, `OverdueReminders`, each with its fairness |
| `MCStaff` | `EmployeeTransfers` that replace one another, `Hierarchy`, `Identities`, `Approvals` |
| `MCPeople` | `Exits` with `AssetCustody`, `Leave`, `Attendance`, `AssetTimeline`, `AssetCategories` |
| `MCFigures` | `Payouts`, `Reporting`, `Targets`, `Commission`, and `Sessions` |
| `MCMasters` | `Organisation`, `Contracts`, `Notifications` (reminders, rules), `EmployeeDocuments`, and `CaseLifecycle` with requests that do not overlap |
| `MCCaseLifecycle`, `MCEmployeeTransfers`, `MCExits`, `MCAttendance`, `MCPayouts` | the constants of one component, for the runs above and for those that show a disagreement |

The theorems are in the modules named `...Proofs`, several components to each, every
component in a section of its own:

| Module | Proves about |
|---|---|
| `CasesProofs` | `CaseLifecycle`, `Intake` |
| `FinanceProofs` | `Clawback`, `Payouts`, `Commission`, `Targets` |
| `EmployeeTransfersProofs` | `EmployeeTransfers` |
| `ExitsProofs` | `Exits` with `AssetCustody` |
| `StaffProofs` | `Hierarchy`, `Sessions`, `Identities`, `Organisation`, `Approvals` |
| `RecordsProofs` | `Contracts`, `EmployeeDocuments`, `Notifications`, `Reporting` |
| `PeopleProofs` | `Leave`, `Attendance`, `Workdays`, `AssetCategories`, `AssetTimeline` |
| `Sums` | sums over finite sets, for those that need them |

### CaseLifecycle

`app` is the row, cut down to the columns that some handler decides on. `review` is
what `review_state` computes from the events. `openOcc`, `delay` and `numbers` are
the rows with an open end date; `historyOwner` is the open owner-history row;
`submissions` counts submission events; `earnings` are the posted earnings.

A request of staff runs `require_review_mutation`, which re-reads the row FOR UPDATE
before the handler decides, or a handler that does so itself; it is one action. For
OWNER and GM that function returns first, so their request is `Begin(m)`, which takes
the copy `tx[m]`, and later `Finish(m)`, which runs the same handler on that copy.
The handlers therefore take the rows they read as a parameter: `Now` for staff,
`tx[m]` for a manager. `Store` is the UPDATE that SQLAlchemy emits: only columns that
the handler changed relative to its copy. Every handler changes `updated_at`, so the
UPDATE, and with it the row lock, always comes, by autoflush, before the queries for
the dependent rows; these are read at that moment and not from the copy. The two
look-ups that are made earlier (the active delay and the current case number) are
part of the copy, together with the row; reading them a little later than the row,
as the code does, only narrows the window. `Refuse` is every early return and every
lost connection.

`SerialNext` is the system whose requests do not overlap; `Next` is the real one.
`MCMasters` runs the first, with two possible owners and one Coordinator too many,
`MCCases` the second: what overlap breaks is stated of `SerialSpec` only, and where a
document promises it, as a violation under `Spec`.

Abstracted: amounts (only whether a booked amount is present), dates, the contents of
events, visibility (the `Team` of a Team Leader and the owner test), the effective
lane routing (any Sales Manager and Coordinator), whether a rule for the earning
exists (a missing rule refuses the request, which is the step not taken). One case
only: handlers never write another case, except the CSV import of several rows.

### Clawback

The locks are what the model is about. `create_clawback` locks the earning, checks
the balance, inserts: `StartCreate`, then `Insert` or `Conflict`. `decide_clawback`
locks the request, checks the balance, updates the request and inserts the reversal:
`StartDecision`, `UpdateRequest`, `CommitApproval` or `CommitRejection`. The partial
unique index makes an insert wait for an uncommitted decision on the pending request
and fail if it stays pending; the reversal's foreign key needs a KEY SHARE lock on the
earning and waits for a submission that holds it. The order of the two statements in
the flush is not fixed by any relationship, so both orders occur; one of them gives
a deadlock, which the server breaks (`BreakDeadlock`). The re-check of the balance at
the end of the approval (`CLAWBACK_EARNING_CHANGED`) is part of the guard of
`StartDecision`: in the same transaction nothing can change it, as the theorem
`PendingStaysCovered` explains.

### EmployeeTransfers

`transfers` are the rows, `applications` counts apply events, `place` is the
employee's whole assignment as one value. Actions on a transfer hold its row lock
(`RowFree`), and edit, approve, apply and the executor also the advisory lock
(`AdvisoryFree`), so all but approve and apply are one step. Those two load the
employee with the transfer and lock the employee's row later without re-reading it:
`Begin` records what they saw, `Finish` decides on it. The executor is a task per API
process: `Scan` without locks, `Take` one schedule at a time in a transaction of its
own, `RecordError` after the rollback, `Stop` on any other exception, `Restart` with
the process. `EditEmployee` and `SetAccountStatus` are the rest of the system.

Left out: the optimistic `lock_version`, which a request that passes the row lock
matches anyway; the failure when the approver is no longer available, which needs the
OWNER deactivated and `set_account_status` refuses that; the text fields.

### AssetCustody and Exits

`asset` is the row with its open allocation, `employment` and `account` the two
columns of the employee, `exits` the exit rows with their checklist. Every handler of
an asset locks the asset's row and every handler of an exit the exit's, before reading
anything that it decides on, so most are one action. What is left is between the two,
and happens at the employee:

- An issue or transfer reads the employee without a lock and inserts the allocation
  later; the foreign key takes a KEY SHARE lock on the employee, which waits only for
  a FOR UPDATE. `BeginIssue` and `BeginTransfer` are the reads, `Insert` the flush,
  `Commit` the end; `request[a]` is the transaction between them.
- Completion loads the employee with the exit, later locks the row FOR UPDATE, which
  waits for inserted allocations (`KeyShared`), counts the assets and writes:
  `BeginComplete`, `LockEmployee`, `Complete`. The locking SELECT does not refresh the
  loaded employee, so the UPDATE leaves out a column that had its final value when
  loaded; `completing` keeps those two values. The advisory lock taken first admits
  one completion at a time.
- Creation checks the employee and inserts later (`BeginCreate`, `InsertExit`); the
  partial unique index on open exits decides between rivals.
- `EditEmployee` writes employment and account to any values: the sum of
  `update_user`, `set_account_status` and `rehire_user`, of which the last two and the
  first, when it changes no manager, take no advisory lock.

A checklist item remembers in `by` who decided it, as the events do. An exit's type is
represented by the employment it ends in, and `Active` stands for the three eligible
employments. Left out, because they only refuse a request: offices, dates, conditions,
the operational scope, and that the item "manager" belongs to the reporting manager.
The `lock_version` of a request that passes the row lock is that of the row.

An allocation that has checked the employee and not yet inserted is not seen by the
count. So an asset may reach somebody whose exit has just completed, and the property
is about the moment of completion, which is what the document promises.

### Payouts

`period`, `components` and `payout` are the tables, with the components of a period
summed up by what they do to a payout: what its recipients earned, and what was
corrected since. `Prepared` is generation's pre-validation, with `Allocate` for
`largest_remainder_allocate`; `Refreshed` is `_refresh_payout`, the only place that
writes a payout, called for each recipient of a generation and for the recipient of
each adjustment or clawback. It looks up the carried balance only for a new row.

Three kinds of transactions meet. Generation, finalisation and reopening lock a
permission row first (`sequence`): `BeginGenerate` and `CommitGenerate`;
`BeginTransition`, `LockPeriod` for the period's row and the checks under it,
`CommitTransition`. Review and corrections lock the period's row only: `Review` is one
action, `BeginChange` and `CommitChange` two. Activation of a rule locks the rule and
the row that maps the bank to the product, then queries for overlaps
(`CheckActivation`) and commits; a second one waits, which is why `activation` holds
at most one. Deactivation locks the rule alone and may come between anything.

Abstracted: the rules of one bank, product, variant and milestone, and in each month
at most one application that reached it. The months a rule covers stand for its dates.
With a rate of its own each recipient gets the amount of the pool. Incentive
plans, slabs and the choice of the rule are in `Commission`, how a recipient is found
in the owner and reporting histories in `Reporting`. Left out: visibility.

### Intake

`customer`, `paper` (identifiers with their holders), `file` (the cases), `lastCode` and
`version` are the rows. Nothing in these handlers takes a row lock, so every request
is two steps: `Begin...` is the reads and the checks, and `job[d]` what they saw;
`Commit...` is the flush and the commit, which only the unique indexes can refuse:
`PaperFree`, `CodeFree`, `ActiveUnique` and the single active version. A creation with
a new customer registers him in the same transaction. A merge relinks the cases it read,
and the index decides whether the result has two live cases. `CloseFile` stands for the
lifecycle of a case, which ends it.

### OverdueReminders

One day's reminders, one per occupancy and recipient. A cycle scans, then looks each
reminder up and inserts it (`LookUp`, `Insert`), and commits everything at the end. An
insert waits for an uncommitted one of the same key (`WaitsFor`) and fails the whole
cycle when that one commits (`Duplicate`); cycles that wait for one another are broken
by the server. A cycle that fails is logged, and the task sleeps and starts anew;
`Stop` is a process that goes away for good.

### Leave

A handler locks the row of its request with everything it decides on, so it is one
action. Submission alone also reads the *other* requests of the employee and the balance,
none of which it locks: `ValidateLeave` checks and `CommitLeave` writes, and
`submission[r].raced` remembers whether anything committed in between. The approvals do
not look at the dates or the balance again.

### Attendance and Workdays

`Attendance` is about locks. A writer takes the transaction's advisory lock of the
employee's office and month and asks whether the month is open; the office it uses was
read before. Saving, importing, correcting and recording leave are three to four steps
each (`Begin...`, `Check.../Lock.../Refresh...`, `Commit...`), with moves of the employee
and changes of the month in between. A correction locks the office of the *provenance* of
its record. One date stands for the month.

`Workdays` is about arithmetic and rules, with each request one step: the saved working
week, company and office holidays, the employee's office, leave granted, withdrawn and
recorded, entries and corrections, in any order. `Due`, `OnLeave`, `PresentDays`,
`AbsentDays` and `Missing` are the sums of `roster`, computed anew from all of it;
`Enterable` is what `save_attendance` accepts, `Importable` what `validate_rows` accepts
and `Suggested` what the day's roster proposes.

### AssetTimeline and AssetCategories

`AssetTimeline` records what each handler stores in its audit event (`Store`, with the
snapshot of the later release or only the named values of the earlier one) and next to it
`past[t]`, the rows as they were. `Lifecycle` is the reading of `assets/lifecycle.py`,
event by event (`See`, `Reconcile`, `Splits`, `Closed`, `Opened`). `AssetCategories`
models the count of a category's assets against assets being entered. A request reads the
category without a lock and validates the asset's values by its fields (`BeginFiling`,
`under`), flushes them later without another look (`WriteFiling`, `since`), and from then
on its foreign key shares the category's key, for which the editor's lock of the row waits
(`CategoryShared`). `raced` remembers an edit that committed between the two.
`ReviseAsset` is an edit of an asset that validates its values anew.

### Approvals

`decide` of the Approval Centre looks the row up without a lock, offers what `actions`
offers, and calls the service, which locks and decides anew: `Choose` and `Carry`. One
row stands for a leave request, a contract, a transfer or an exit; `Offered` is the
Centre's rules, `Accepts` the services' own rules on who may do what and when, `Stages`
the steps of each. `MoveOn` and `DecideThere` are the row moving by other routes,
`ChangeBoss` the employee getting another manager. What a service refuses for other
reasons is `Refuse`; those reasons are in the services' own modules.

### Hierarchy, Identities, Organisation

`Hierarchy`: `Prepare` is `prepare_reporting_manager_change` with its advisory lock, the
new read of the users and the check against `Below`, the recursive query as a least fixed
point; `CommitEdge` writes. Accounts and user types change beside it.

`Identities`: each request checks (`CheckEmail`, `CheckRehire`, `CreatePerson`, ...) and
later commits against the unique indexes and the reservation tables. A bulk import is one
request for several people.

`Organisation`: `form[w]` is a transaction that has validated masters and not yet written
its reference. It holds the unit FOR SHARE and ACCESS SHARE on what it read;
`DeleteUnusedMaster` needs all referring tables for itself (`Quiet`) and the usage
query, which includes histories, audit rows and snapshots (`mentions`), to find nothing.
A department or team with members is deactivated only when none of them has an active
account; accounts are not kept here, so members never stand in the way.

### Sessions

`status`, `locked` and `failures` are of the user's row, `sessions` and `pending` the
tokens of sessions, challenges and links. Login, the answer to a challenge and the use
of a link lock the user's row before they read it (`LockRow`); changes of the user's type
and logouts do not touch the row, and end sessions by themselves. Presenting a session is
a look-up and, later, a touch (`Present`, `Serve`). The auxiliary `wrong` counts the wrong
answers in a row, which the row's counter must not fall behind.

### Contracts

A handler locks its contract; `BeginActivation` locks the candidate, `LockPrevious` is the
SELECT FOR UPDATE for the contract in force, which reads again what it waited for, and
`CommitActivation` writes both rows under the partial unique index. `reading[c]` is the
page in front of an OWNER and `consent[c]` the one he acted on: the program only compares
the `lock_version` sent with it.

### Notifications

Two halves that share tables. Reminders: a listing first commits the automatic reminder
of a near holiday and then, in a second transaction, reads reminders and recipients
and inserts what is missing ON CONFLICT DO NOTHING (`BeginList`, `CommitList`), while
HR sends urgent ones and people dismiss theirs; `Persist` is `persist_notification`.
Rules: a source event is delivered to whom the rule targets, and read or acknowledged.
`entitled` remembers who was eligible when a reminder was listed to him.

### Targets

`StartGoal`, `StartEdit` read and check the month's lock, `CommitGoal` writes. Scorecards
lock the card's row and, to switch the active one, an advisory lock. The arithmetic is
translated with its rounding: `ProrateRemaining` and `EffectiveTarget` (the target over
the part of a window it applies to, in working days), `RunRate`, `Achievement`,
`Contribution`, `Score`.

### Reporting

Facts about a case (`fact`), its owners with the place each had when he became it
(`ownedBy`), and their managers over time (`chiefSpans`) change by what the rest of the
system does; employees move (`Relocate`) and get, change and lose managers (`Report`).
The operators below `Next` are the reports: attribution at an instant, windows and their
cutoffs, milestones, pending and open cases, cohorts, rankings, and the recipients that
`finance` finds. `clock` is the instant; a case counts 1.

A report is a view (`Views`): of the company, an employee, an office by the owner history's
snapshot, a manager with all who were below him at the instant through any number of levels
(`Superiors`), and a Team Leader. `Visible` is `owner_visible`; for a Team Leader it looks
at his team of today, whatever the instant, and `Loaded` first keeps only the cases whose
present owner is in it (`scope.py:81`, `service.py:270-281`). An office stands for an
office with its department and team, and everybody has one: the fallbacks of
`scope.py:87-95` for an owner without an office are left out.

### EmployeeDocuments

A change locks the active version, writes the new file, clones the row and commits; a purge
selects all versions FOR UPDATE, waits for those that its snapshot saw, and deletes what
is left of them.
Files are unlinked after the commit (`Unlink`), and a request may fail or its process
may go away at any point (`FailEdit`, `Finish`), leaving files on disk that nobody owns but never
the reverse.

### Commission

`term[i]` is a commission rule, an incentive plan or a card rule with its version and
dates. `BeginDraft` reads the highest version, `CommitDraft` inserts under the unique
index. `BeginTerm` locks the term and the row its rivals share and asks for overlaps,
`CommitTerm` activates. `RulesOf`, `PlansOf`, `Matching` and `Computable` are
generation's look-ups. `Payouts` computes what follows from an amount.

## Runs

A run answers for several components at once, see the table of `MC` modules. The
passing runs do not check for deadlock: components really stop, a case with its
terminal outcome, a table of requests that is used up, a bound that is reached.

| Run | Module | Shows |
|---|---|---|
| `cases` | `MCCases` | The lifecycle with stale copies keeps `LiveOccupancy`, `ReviewMatchesRouting`, `EarningBacked`, `RoutingForward`. `IntakeSound`. `RosterAddsUp`. 913 867 states |
| `progress` | `MCProgress` | `EveryRequestEnds`, `ImplementsLedger` of `Clawback`; `AppliedAsApproved`, `DueIsSettled` of `EmployeeTransfers`; `OverdueReminded`. 31 487 states |
| `staff` | `MCStaff` | `SupersededBySuccessor`, `ReviewedContentKept` of three rival transfers; `ReportsAcyclic`; `EmailsKept`; `DecidedAsSeen`. 1 569 010 states |
| `people` | `MCPeople` | `ClearedForGood`, `CompletedWithoutCustody`; `ApprovedAndConsented`, `SubmittedWithinBalance`; `RecordsExplained`, `ClosedMonthStands`; `TimelineExact`; `DefinitionsKept`. 1 454 832 states |
| `figures` | `MCFigures` | `CarriedExactly`, `CentsKept`, `ClosedStands` of `Payouts`; `FiguresAddUp`, `CreditStands`; `TargetsSound`; `TermsUnambiguous`; `SessionsAllowed`, `BudgetKept`. 523 891 states |
| `masters` | `MCMasters` | `DeletedUnreferenced`, `UnitsCoherent`; `ContractInForce`; `RemindersAgree`; `DocumentsSound`; the lifecycle without overlap keeps `RowsInStep`, `ClosedForSerial`. 1 651 706 states |
| `case_reopened` | `MCCaseLifecycle` | violation of `TerminalNotReopened` under `Spec` |
| `case_clocks` | `MCCaseLifecycle` | violation of `TerminalClocksStopped` under `SerialSpec` |
| `case_approval` | `MCCaseLifecycle` | violation of `NoProcessingBeforeApproval` under `SerialSpec`, without a manager |
| `transfer_overwrite` | `MCEmployeeTransfers` | violation of `NoSilentOverwrite` |
| `exit_overlap` | `MCExits` | violation of `EndedTogether` |
| `attendance` | `MCAttendance` | violation of `LatenessRecalculated` |

**Refinement.** `ClawbackLedger` is what clawback promises: one request at a time, for
no more than is left, each decided once, and what is approved is taken out. `Clawback`
instantiates it with `left <- Remaining`; `ImplementsLedger` is checked by `progress`
and proved as `RefinesLedger`.

**Bounds, and why they are enough.**

- Case lifecycle: a violation needs one stale copy and one committed request, so one
  manager session and one user per role let every pair of handlers meet. A second
  workflow version is there for migration, an inactive stage for corrections; the row
  identities leave one more than can be referred to at once. The instance without overlap has
  two possible owners and a second Coordinator, so that reassignment is real.
- Intake: two customers (one to merge into the other), two cases, two requests at
  once, two workflow versions: each index is met by two requests.
- Workdays: two days, so that a leave can span both, a half day on one, no week
  saved or one of which the second day is off, two offices of which one has its holiday.
- Clawback: two sessions meet in each lock conflict, the third adds a request; an
  earning of 2 admits two partial reversals and refuses a third.
- Transfers: two executors and the OWNER meet on one schedule; the employee is also an
  HR user, so that self-review could happen; two days let a schedule wait. Replacing
  needs the schedule and two rivals, and the second day too: a transfer due at once is
  applied when it is approved.
- Overdue: two processes and two reminders are what a deadlock and a duplicate need.
- Hierarchy: four people make cycles of any shape up to four, two writers compete.
  Identities: two persons, three emails, so that one is left behind and one taken.
  Sessions: the lockout limit of the code, 5; three tokens, two requests at once.
  Approvals: a manager, an HR user and an OWNER, each with what the others lack.
- Exits: the second employee is there to transfer an asset from and to, the employee
  with HR permissions for self-clearance, the second OWNER so that one may prepare and
  the other approve; one item beside the approval suffices, as items do not touch one
  another.
- Leave: two requests, of half of the first day or of both days; balances of none and
  of two days. Attendance: one employee, two offices, two requests, one
  file. Timeline: one asset and up to five events (`MaxTrail`), in which a holder, an
  office and a repair can each change and change back; categories: two of everything.
- Payouts: the third month lets a recipient be left out of the second and still carry
  from the first; an odd pool shared equally leaves a cent and a tie; a correction
  larger than the pool makes a balance negative, and later months positive again. Commission: three
  terms, two of which may be the same, and payloads chosen to touch, overlap and meet
  in a slab's edge.
- Reporting: one case, as a figure is a set of cases each judged by itself; two owners, a
  manager and a Team Leader, who reports to the manager and owns cases himself, so that there
  are two levels of managers; two offices. Four instants let a case be created, an
  event follow, a window end, and somebody be reassigned or moved after it. Managers are
  employees created by hand, who have a dated "no manager"; the other owner may have been imported. Targets: two months of three days,
  two scorecards with two metrics, 100 per cent as 10 units.
- Organisation: two departments, one unit, one team, one employee, two transactions.
  Contracts: the one in force and two candidates. Notifications: two people, two
  reminders. Documents: four versions, two files beside the original, two requests.

Symmetry is used for values that a component treats alike; runs with a liveness
property use none. Components share such values (`x1`, `y1`, ...) so that one set of
permutations serves all of them.

**Fairness.** `ClawbackFairSpec`: strong fairness of each session's `Step` says that the
server runs an open transaction on and grants a contended lock in the order of its
queue; weak fairness of `BreakDeadlock` is its deadlock detection. No fairness is
assumed of users or of `Abort`. `EmployeeTransfers!FairSpec`: a request of the OWNER
ends (the service answers or times out), and the executors in `Reliable` keep
running: strongly fair, because they wait in the queue of the advisory lock.
`OverdueReminders!FairSpec`: open cycles run on, an insert that is again and again
possible is made, and the processes in `Reliable` keep polling. Processes outside
`Reliable` may stop for good, and `DueIsSettled` and `OverdueReminded` hold although
they do. Nothing else has fairness: nothing obliges a user to act.

## Disagreements found

Each with a run that ends in the violation:

- A GM or OWNER handler whose copy is older than the closing of the case changes the
  terminal case (`applications/review.py:293`, against `applications/service.py:458`
  "Terminal applications cannot be changed or reopened" and
  `tests/api/test_applications.py:528`).
- A case corrected onto Fund Released and then moved to the same stage is Completed
  with an open occupancy and a running TAT (`applications/tat.py:192`, against
  `tests/api/test_tat_delay.py:140`).
- The stage CSV import processes a case before the Sales Manager's approval
  (`case_operations/csv_service.py:211`, against the message at
  `applications/review.py:331`).
- The OWNER's approval or application of a transfer overwrites an edit committed after
  it loaded the employee (`transfers/service.py:434`, against
  `docs/phase2-employee-transfers.md:43`).
- An exit completes and the employee stays employed: HR had resigned him beforehand,
  a rehire commits between completion's load and its lock, and the update names no
  column that completion believes to be final already (`offboarding/service.py:529`,
  against `docs/phase2-exit-offboarding.md:33` and `tests/api/test_exits.py:148`).
- Two corrections of one attendance record that overlap: the second refreshes the times
  but not the lateness, and its UPDATE leaves out a lateness equal to the one it had
  read first, so the record keeps the lateness of the other's times
  (`attendance/service.py:1069`, against `docs/attendance.md:43` "Late/early/incomplete
  are recalculated").

Others are stated in the modules and not part of a run; naming the definition in the
`.cfg` of the run that has its module shows the counterexample:

- `Intake!DeactivationBlocked`: a case created while its customer is being deactivated
  (`docs/architecture.md:60`, `customers/service.py:690`).
- `Targets!LockedMonthStands`: an edit that checked the month before it was locked is
  written (`docs/targets-kpi.md:35`, `targets/service.py:123`).
- `Identities!CodeImmutable`: two rehires of one person that overlap assign one code
  after the other (`docs/account-onboarding.md:22`, `identity/users_service.py:1260`).
- `Reporting!TeamCreditStands`: somebody who had no manager in a past window counts for
  the first one he gets afterwards (`docs/reporting.md:43`, `reporting/scope.py:46`).
- `Reporting!LeadCreditStands`: a Team Leader's figures of a past window lose a case that
  is later reassigned out of his team, or whose owner leaves it
  (`docs/reporting.md:35`, `reporting/scope.py:81`, `reporting/service.py:270-281`). This is
  why `CreditStands` speaks of his view only for steps that leave his team and its
  cases as they are.
- `AssetCategories!EnteredByLayout`: an asset validated against the fields its category had
  before an edit, and flushed after it, stands under the new ones
  (`assets/service.py:340` "Field definitions cannot change after Assets use the category",
  `assets/service.py:677-693`, `885-900`). `DefinitionsKept` excepts exactly these assets.
- `EmployeeDocuments!PurgedFilesUnused`: a metadata update that commits while the purge
  waits for its row keeps the file that the purge removes (`docs/architecture.md:78`).

And seen while modelling, with no definition of their own:

- Two leave requests submitted at the same time may both pass the overlap and balance
  checks (`leave/service.py:394`, `docs/leave-management.md:16`);
  `SubmittedWithinBalance` excepts exactly such races.
- An urgent holiday reminder sent while the automatic one is not yet committed can stay
  unread after a dismissal of the first (`docs/notifications.md:25`); in the
  model `BeginList` delivers and commits the automatic one in a single step.
- The personal attendance page shows Weekly Off where no working week is saved
  (`attendance/service.py:1467`, against `docs/attendance.md:21`).
- The day's roster considers company holidays only: on an office's holiday on a day off
  of the week it suggests Weekly Off, which `save_attendance` refuses.
- An import row with a leave whose type was deactivated validates and is refused when
  the file is confirmed.

## Proofs

Each component has one inductive invariant, a lemma for the initial states, one lemma or
step per action, and theorems that read the properties off `Spec => []Inv`; an action
property is proved step by step under the invariant. The assumptions are the named
`ASSUME`s of the modules and nothing else; TLC evaluates each in a run. TLC has checked
what is proved on the instances above first; the proofs remove the bounds.

### Cases

`CaseLifecycle`. The properties of the overlapping system hold although its
handlers act on stale copies, and the reason is `SnapshotsBehind`: a booking is never
undone and a terminal case never becomes live, so a check that passed on a copy can
only have become "more true" for what matters. `LiveOccupancy` needs it because a
manager's outcome that reaches a row already terminal must not be mistaken for a live
case; `EarningBacked` because the manager's stage move posts an earning for a booking
it read; `ReviewMatchesRouting` because `Store` writes back only columns that the
handler changed, and no manager's handler changes a routing column. The invariant is
therefore `TypeOK`, the three properties with the typing of the row (`RowInv`) and
`SnapshotsBehind`. `RoutingForward` follows from it step by step: a manager's step
leaves the routing columns alone, a staff step moves them forward (`NextForward`) and leaves the
owner of a booked case alone (`NextOwnerLocked`).

`RowsInStep` and `ClosedForSerial` are of `SerialSpec`, where a request acts on the row
as it is committed, so that what it stores is what it computed (`StoreNow`). That a
submitted case has exactly one current number, and another none, is carried as
`OneNumber`: a step knows which number it adds or replaces, not how many there are.

`Intake`. That no code is given twice is not enough to know that the next one is free:
the invariant says that the codes are `1..lastCode` without a gap (`CodesDense`), that
what a request computed is at most one ahead (`JobOK`), and that the versions up to the
active one exist and no others (`VersionsUpTo`). A code that fits the number of cases
exists by counting (`RoomForOne`).

### Finance

`Clawback`. The invariant adds to `WithinEarning` and `PendingCovered` that at
most one request is pending (`OnePending`), that a deciding session holds a pending
request that no other session decides (`DecisionsLocked`), and that the amount a
submission is about to insert fits what remains of the earning (`InsertCovered`): the
earning's lock keeps every reversal away until it is inserted. `RefinesLedger` maps
every commit to a step of `ClawbackLedger` and everything else to a stutter.

`Payouts`. The invariant adds what each lock holds until its transaction ends
(`SequenceHolds`, `ChangeHolds`, `ActivationHolds`) and that a period not generated
has no payouts. `CarriedExactly` is inductive because a payout is only ever written in
the last period (`CarriedStep`), and because at that moment all earlier periods are
final, so that the query for finalized payouts sees every earlier one
(`PreviousIsEarlier`). `MaxMonth` gives the latest of them from the well-foundedness of
the naturals. `ClosedStands` follows step by step.

`CentsKept` is about sums, for any number of recipients and any amounts. A second
invariant (`CentsHold`) says that each payout is what its components come to plus what
it carried. Of the largest remainder (`SharesComeToPool`): the cents left over are the
sum of the remainders divided by 100, hence fewer than the recipients; remainder and
sort order rank the recipients strictly, so exactly that many have fewer than that many
ahead of them (`FirstOfOrder`). Of the carried balances (`RecipientConserved`): over the
months they telescope (`SumOverBalance`), which is what was paid against what was earned.

`Commission`. The invariant says of active rules and plans that rivals are apart in their
dates (`ActiveApart`) and that an activation past its check still is
(`ActivationsApart`), since whoever could become a rival waits for the row they share.
That a production lies in one slab at most follows from their validation (`OneSlab`).

`Targets`. A request that has read a card holds its row, so the card still is what it
read (`CardsHeld`), and therefore an active card keeps the weights it was activated with
(`ActiveSound`). The score is a sum of contributions, each between 0 and its weight
(`ContributionBetween`, `ScoreBetween`). Rounding enters through three facts about a
quotient: what it is (`QuantizeIs`), how far it is from the fraction (`QuantizeBounds`)
and that it grows with it (`QuantizeMonotone`). Working days only grow with the window
(`WorkingGrows`, `WorkingInside`), hence the prorated target does (`UntilGrows`); and a
rate rounded to the nearest loses half a unit on each day left (`RunRateSuffices`).

### Transfers and exits

`EmployeeTransfers`. The invariant adds that a transfer beyond its draft has the
fields its status requires, that the OWNER's open request still holds a transfer in
the status it was begun in, that the reviewers of a transfer are neither its requester
nor its employee, and that an approved successor has closed what it replaces: without
it nothing forbids a second approval for the same schedule. `AppliedAsApprovedHolds`
puts `AppliedOnce` and `IndependentlyApproved` together.

`Exits`. The invariant adds to the types what a row of each status must hold:
who decided an item is its assignee and not the employee (`ItemsStand`), every item is
done once the exit is ready (`ReadyCleared`), and an exit that exists has its employee
and type (`Filled`). Between `LockEmployee` and `Complete` no allocation to
the employee can be inserted (`CompletionHolds`): the lock waited for those that were,
and holds back the others, which is why the count of committed allocations is enough.
`ClearedForGoodHolds` is the checklist, the approval and the custody together.

### Staff

`Hierarchy`. `ReportsAcyclic` is not inductive: a validated edge may be committed
after another one has. The invariant adds that one writer at most has a validated edge
(`OneWriter`, the advisory lock), and that this edge still closes no cycle (`EdgesValid`),
which only another edge could change. `Relink` is the graph part: giving `u` a
manager who is not below `u` leaves everybody else's manager chain free of cycles.

`Sessions`. `SessionsInv` adds to the types and `SessionsAllowed` that whoever
has read the user to log him in holds his row, and that what he read still stands
(`ReadStands`): so no deactivation or lockout can come between the read and the
session. `BudgetKept` holds because the wrong answers counted are the failures on the row.

`Identities`. The unique index on emails knows present ones only; what keeps a former
one is the reservation (`Reserved`), also for a change that waits to commit, whose old
email must still be reserved for the same person when it becomes a former one.

`Organisation`. What an open transaction validated holds until it commits, by the locks it
keeps (`FormOK`), and a row that is absent belongs nowhere (`Rooted`): otherwise a
deleted unit could be referred to again. `UnitsCoherent` needs the stronger `UnitsActive`.

`Approvals`. `DecidedAsSeen` follows from little: a decision that is not outdated names the
row's present status. Its other half, that the Centre offers nothing which the service
refuses, is a comparison of the two tables of rules, kind by kind (`OfferedAccepted`).

### Records

`Contracts`. `ContractInForce` needs to know what an OWNER's page is worth (`PagesTrue`):
while the version stands, so do the terms and the evidence, as every change of them
counts the version up. The partial unique index does not appear in the argument for one
contract in force beyond `ActivationsHold`: an activation that found one holds its row,
one that found none is stopped by the index.

`EmployeeDocuments`. The invariant says that a clone's row stays active (`ClonesHold`)
and that the file a request wrote is nobody else's (`NewFilesOwn`), so that it may be
removed when the request fails.

`Reporting`. The histories are chains: each row ends where the next begins, and the last
is open (`Chain`), so one row holds at any instant (`OneRowAt`). What begins now says of
every earlier instant what the shorter history said (`SucceedKeeps`); therefore the
credit of a past window stands with the office noted in it, and so does whom finance
pays for it. Who is above somebody is the least set closed under managers, so it depends on
nothing but the managers of those in it: where these are written down (`Followed`) they
stand, and so do the superiors (`SuperiorsStand`); it also makes a team's figures
contain those of whoever reported to its manager (`RollsUp`). A Team Leader's view stands
while what it is cut down by does (`Settled`). An outcome has a
date exactly when the case has it (`Dated`), and one date lies in one of two adjoining
windows: from that, and from sums over disjoint parts, the figures add up
(`MilestonesAddUp`, `CohortsApart`).

`Notifications`. What is being listed has been posted (`ShownPosted`); with that every
dispatch only moves deliveries forward (`PersistEffect`), which is `DeliveriesOnlyAdvance`
as well.

### People

`Leave`. `Endorsed` carries through the open statuses what `ApprovedAndConsented` says of
approved ones. `SubmittedWithinBalance` is proved from `SubmissionsHold`: until a
request commits, what it validated holds, unless it was raced. The available
days are a sum over the requests; leaving active requests never makes it smaller.

`Attendance`. `ClerkOK` says what a request may rely on after its checks: the months it
holds are open (`Holds`) and the record it is about to correct or the leave it is about
to record has not changed in between, because whoever would change it needs the month of
the same office. This is where the provenance of the record matters, not the
employee's present office.

`Workdays`. `RosterAddsUp` holds in every state of the right shape: each figure is a sum
over days, and the days fall into the parts it names (`SumOverParts`).

`AssetCategories`. A row not yet committed already shows the fields its category has
(`CategoryInv`), since its share of the category's row keeps an editor waiting; a request
before its flush was validated by these fields unless an edit has marked it.

`AssetTimeline`. The reading is a fold over the events of any length. The partial results
of a fold exist and are determined (`KnowsExists`, `KnowsUnique`, from the
well-foundedness of the naturals), so an event more is one step more (`SeenAppend`). The
invariant `ReadingTrue` relates what is known after the last event to the rows: it leads
to the present row (`Follows`), no period ends later than now (`InTime`), every instant
is in one period, which is true of it (`CoveredAt`), and every allocation is told
(`AllocationsTold`). A handler names every column it changes (`Names`), so that an event
of either release brings the reading to the new row (`RecordedBrings`); the period under
way then goes on or ends there (`NextSeen`).

### Sums

The provers have no induction over finite sets. Where it is needed a set of
counterexamples is formed instead, of which well-foundedness of strict inclusion gives
a smallest (`SmallestSubset`); so a sum does not depend on the order in which
`MapThenSumSet` and the folds take their elements (`SumAnyhow`), and what follows from
that (`SumOverAdd`, `SumOverLinear`, `SumOverParts`, `SumOverCounts`, ...) is enough here.

### Only model-checked

Every invariant and action property of the passing runs is proved. What remains with TLC
is liveness under fairness, which the provers do not reach, nor ENABLED:

- `EveryRequestEnds` of `Clawback` and `DueIsSettled` of `EmployeeTransfers`;
- `OverdueReminded`, which is all that is stated of `OverdueReminders`.

## Not modelled

- Workflow administration below the version: edits of stages and transitions of a
  version no case uses, lane routing administration. They write single rows under
  a check that is stated as a hazard.
- Case reporting, asset export and reports, CSV export: queries that write nothing.
- Asset codes and the shapes of identifiers, the code counters of other masters.
- OWNER setup and bootstrap commands: single actors, run once.
- Leave types, attendance schedules, impact rules and scores, profile fields,
  the catalogue: rows with one writer's rules and no state that another component
  relates to.
- Dashboards and reminders of the Approval Centre (`approvals/service.py:347-468`):
  they derive counts and write nothing that is decided on.
- Configuration, logging, rate limits, migrations, the web client.
