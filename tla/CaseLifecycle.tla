--------------------------- MODULE CaseLifecycle ---------------------------
(***************************************************************************)
(* One case (an Application row) from intake to its terminal outcome, with  *)
(* the rows that hang off it: the TAT stage occupancies, the active delay,   *)
(* the owner history, the bank case numbers, the internal review chain and   *)
(* the earning posted to the Case Owner.                                     *)
(*                                                                           *)
(* Source: applications/service.py, applications/tat.py,                     *)
(* applications/review.py, case_operations/service.py,                       *)
(* case_operations/csv_service.py and the routes that call them.             *)
(*                                                                           *)
(* Concurrency.  Every request is one PostgreSQL transaction at READ         *)
(* COMMITTED.  A request of STAFF locks the Application row and re-reads it   *)
(* (refresh with_for_update) before it decides anything, so it is one atomic *)
(* action.  require_review_mutation returns before the lock for GM and       *)
(* OWNER, so a MANAGER request decides on the copy it loaded when it began    *)
(* and writes later: Begin and a handler step.  Its UPDATE names only the     *)
(* columns that differ from that copy (Col), and takes the row lock before    *)
(* the handler queries the dependent rows.                                    *)
(***************************************************************************)
EXTENDS Naturals, FiniteSets

CONSTANTS
  Staff,            \* users who are neither GM nor OWNER
  Managers,         \* concurrent sessions of GM or OWNER
  Role,             \* Role[u] for u \in Staff: "SE", "TL", "SM" or "COD"
  Team,             \* Team[u]: the case owners a Team Leader covers
  Owners,           \* users whose type may own a case
  Workflows,        \* workflow versions of the case's bank and product
  Stages,           \* the stages of all of them
  WorkflowOf,       \* WorkflowOf[s]
  KeyOf,            \* KeyOf[s]: the system key that selects side effects
  ActiveStages,     \* stages with status Active
  Successful,       \* stages with is_successful
  Transitions,      \* configured <<from, to>> pairs
  Products,         \* product codes the run starts cases for
  AmountRequired,   \* products with booked_amount_required
  ManualOutcomes,   \* outcomes a user may set
  Reviews,          \* review states a case may start in
  Rows,             \* row identities of delays and of case numbers
  None

ASSUME ModelAssumption ==
  /\ Staff \cap Managers = {}
  /\ None \notin Staff \cup Managers
  /\ Owners \subseteq Staff \cup Managers
  /\ WorkflowOf \in [Stages -> Workflows]
  /\ ActiveStages \subseteq Stages
  /\ ManualOutcomes \cap {"Open", "Completed"} = {}
  /\ Reviews \subseteq {"legacy", "forwarded", "pending_review"}

VARIABLES
  app,          \* the applications row
  review,       \* the last internal-review event: its status and assigned TL
  openOcc,      \* stages of the occupancy rows whose exited_at is null
  delay,        \* delay rows whose ended_at is null
  historyOwner, \* owner of the owner-history row whose effective_to is null
  numbers,      \* case-number rows whose effective_to is null
  submissions,  \* SUBMISSION events written
  earnings,     \* case_earnings rows
  tx            \* tx[m]: what a manager's open request has read

vars == <<app, review, openOcc, delay, historyOwner, numbers, submissions,
          earnings, tx>>

-----------------------------------------------------------------------------
Users == Staff \cup Managers

Outcomes == {"Open", "Completed"} \cup ManualOutcomes

Routings == {"none", "booked", "returned", "sm_approved", "submitted", "closed"}

ReviewStates == {"legacy", "forwarded", "pending_review", "returned",
                 "resubmitted", "booked", "sm_approved"}

\* The applications columns that some handler decides on.
Application ==
  [workflow: Workflows, stage: Stages, outcome: Outcomes, product: Products,
   owner: Users, bookedBy: Users \cup {None}, manager: Users \cup {None},
   coordinator: Users \cup {None}, routing: Routings, submitted: BOOLEAN,
   bookedAmount: BOOLEAN, tatStopped: BOOLEAN]

Earning == [type: {"card_points", "pf_commission"}, owner: Users]

\* What a request holds in memory: the row and the two lookups that a handler
\* makes before its first write.
Snapshot == [app: Application, delay: SUBSET Rows, numbers: SUBSET Rows]

Now == [app |-> app, delay |-> delay, numbers |-> numbers]

RowTypes ==
  /\ app \in Application
  /\ review \in [status: ReviewStates, tl: Users \cup {None}]
  /\ openOcc \subseteq Stages
  /\ delay \subseteq Rows
  /\ historyOwner \in Users
  /\ numbers \subseteq Rows
  /\ submissions \in Nat
  /\ earnings \subseteq Earning

\* The committed rows and the open requests have the columns' types.
TypeOK ==
  /\ RowTypes
  /\ tx \in [Managers -> Snapshot \cup {None}]

-----------------------------------------------------------------------------
(* Reads and writes of the row.                                            *)

Live(a) == a.outcome = "Open"

\* A column after the UPDATE of a handler that read old and computed new: a
\* column the handler did not change keeps what is committed.
Col(old, new, db) == IF new = old THEN db ELSE new

\* Mutant: the UPDATE names every column.
StoreWholeRow(old, new) == app' = new

Store(old, new) ==
  app' = [workflow     |-> Col(old.workflow, new.workflow, app.workflow),
          stage        |-> Col(old.stage, new.stage, app.stage),
          outcome      |-> Col(old.outcome, new.outcome, app.outcome),
          product      |-> app.product,
          owner        |-> Col(old.owner, new.owner, app.owner),
          bookedBy     |-> Col(old.bookedBy, new.bookedBy, app.bookedBy),
          manager      |-> Col(old.manager, new.manager, app.manager),
          coordinator  |-> Col(old.coordinator, new.coordinator, app.coordinator),
          routing      |-> Col(old.routing, new.routing, app.routing),
          submitted    |-> Col(old.submitted, new.submitted, app.submitted),
          bookedAmount |-> Col(old.bookedAmount, new.bookedAmount, app.bookedAmount),
          tatStopped   |-> Col(old.tatStopped, new.tatStopped, app.tatStopped)]

\* Row identities no committed row and no open request refers to.
FreshRows ==
  Rows \ (delay \cup numbers
          \cup UNION {tx[m].delay \cup tx[m].numbers : m \in {k \in Managers : tx[k] # None}})

TransitionAllowed(a, target) ==
  a.stage = target \/ <<a.stage, target>> \in Transitions

StagesByKey(workflow, key) ==
  {st \in ActiveStages : WorkflowOf[st] = workflow /\ KeyOf[st] = key}

-----------------------------------------------------------------------------
(* TAT bookkeeping (tat.py).                                               *)

\* Mutant: the occupancy of the stage the case leaves stays open.
MoveOccupancyNoClose(from, to, terminal) ==
  /\ openOcc' = IF from = to THEN openOcc ELSE IF terminal THEN {} ELSE openOcc \cup {to}
  /\ delay'   = IF from = to THEN delay ELSE {}

\* on_successful_stage_movement: nothing at all when the stage is the same.
MoveOccupancy(from, to, terminal) ==
  /\ openOcc' = IF from = to THEN openOcc ELSE IF terminal THEN {} ELSE {to}
  /\ delay'   = IF from = to THEN delay ELSE {}

\* on_stage_corrected: the active delay stays.
CorrectOccupancy(from, to) ==
  /\ openOcc' = IF from = to THEN openOcc ELSE {to}
  /\ UNCHANGED delay

\* on_terminal_outcome; stop_tat is in the handler's new row.
CloseOccupancy ==
  /\ openOcc' = {}
  /\ delay' = {}

-----------------------------------------------------------------------------
(* Who may run a mutation of the application (api/v1/applications.py and    *)
(* require_review_mutation).  GM and OWNER pass unconditionally, unlocked.  *)

InScope(u, editing) ==
  /\ Role[u] \in {"SE", "TL", "SM"} => app.owner = u
  /\ Role[u] = "TL" => editing
  /\ \/ review.status = "legacy"
     \/ Role[u] \in {"SE", "TL"} /\ editing /\ review.status = "returned"
     \/ Role[u] \notin {"SE", "TL"} /\ review.status = "forwarded"
     \/ /\ Role[u] = "COD"
        /\ app.coordinator = u
        /\ review.status = "sm_approved"
        /\ app.routing \in {"sm_approved", "submitted"}

-----------------------------------------------------------------------------
(* Earnings (post_case_earning).                                           *)

EarningType(product) == IF product = "CC" THEN "card_points" ELSE "pf_commission"

\* Mutant: a missing rule is skipped instead of refusing the request.
PostEarningIfRule(a) ==
  \/ UNCHANGED earnings
  \/ earnings' = earnings \cup
       {[type |-> EarningType(a.product), owner |-> a.owner]}

\* An existing earning of the type is returned as it is.
PostEarning(a) ==
  IF \E e \in earnings : e.type = EarningType(a.product)
  THEN UNCHANGED earnings
  ELSE /\ a.product # "CC" => a.bookedAmount
       /\ earnings' = earnings \cup
            {[type |-> EarningType(a.product), owner |-> a.owner]}

-----------------------------------------------------------------------------
(* Submission and case numbers (_first_or_correct_case_number).            *)

\* The open history row the handler read is closed and a new one opened; the
\* lookup raises when it finds two.
ReplaceNumber(s) ==
  /\ Cardinality(s.numbers) <= 1
  /\ \E id \in FreshRows : numbers' = (numbers \ s.numbers) \cup {id}

\* The Submitted stages a first number may move the row a to.
SubmitTargets(a) ==
  {st \in StagesByKey(a.workflow, "SUBMITTED") : TransitionAllowed(a, st)}

\* a is the row as the handler changed it so far, s what it read.
RecordCaseNumber(s, a) ==
  /\ ReplaceNumber(s)
  /\ IF s.app.submitted
     THEN /\ Store(s.app, a)
          /\ UNCHANGED <<openOcc, delay, submissions>>
     ELSE \E target \in SubmitTargets(a) :
            /\ Store(s.app, [a EXCEPT !.submitted = TRUE, !.stage = target,
                              !.tatStopped = @ \/ (~Live(a) /\ a.stage # target)])
            /\ submissions' = submissions + 1
            /\ MoveOccupancy(a.stage, target, ~Live(a))

\* save_case_number with its own commit: only a manager may touch a terminal
\* case, and correcting a number needs a reason (which the caller supplies).
SaveCaseNumber(u, s) ==
  /\ u \notin Managers => Live(s.app)
  /\ RecordCaseNumber(s, s.app)
  /\ UNCHANGED <<review, historyOwner, earnings>>

-----------------------------------------------------------------------------
(* The handlers.  Each takes the acting user u and the rows s it read.      *)

\* update_application: the fields that matter here are the booked amount
\* (kept, cleared or set) and a first case number.
UpdateApplication(u, s) ==
  /\ Live(s.app)
  /\ s.app.bookedBy = None
  /\ ~s.app.submitted
  /\ u \in Staff /\ Role[u] \in {"SE", "TL"} => review.status = "legacy"
  /\ \E amount \in BOOLEAN, number \in BOOLEAN :
       LET a == [s.app EXCEPT !.bookedAmount = amount] IN
       IF number
       THEN RecordCaseNumber(s, a)
       ELSE Store(s.app, a) /\ UNCHANGED <<openOcc, delay, numbers, submissions>>
  /\ UNCHANGED <<review, historyOwner, earnings>>

\* correct_submitted: an amount may be set, never cleared.
CorrectSubmitted(u, s) ==
  /\ u \notin Managers => Live(s.app) /\ s.app.bookedBy = None
  /\ s.app.submitted \/ s.app.bookedBy # None
  /\ Store(s.app, [s.app EXCEPT !.bookedAmount = TRUE])
  /\ UNCHANGED <<review, openOcc, delay, historyOwner, numbers, submissions, earnings>>

\* reassign_case_owner, and _open_owner_history after the UPDATE is flushed.
ReassignCaseOwner(u, s) ==
  /\ Live(s.app)
  /\ s.app.bookedBy # None => u \in Managers
  /\ \E owner \in Owners :
       /\ Store(s.app, [s.app EXCEPT !.owner = owner])
       /\ historyOwner' = owner
  /\ UNCHANGED <<review, openOcc, delay, numbers, submissions, earnings>>

\* update_stage with the side effects of the target's system key; given says
\* that the request carries a booked amount.
UpdateStage(u, s, given) ==
  \E target \in ActiveStages :
    LET a       == s.app
        allowed == TransitionAllowed(a, target)
        amount  == a.bookedAmount \/ (KeyOf[target] = "BOOKED" /\ given)
        funded  == KeyOf[target] = "FUND_RELEASED"
        moved   == [a EXCEPT !.stage = target,
                             !.bookedAmount = amount,
                             !.outcome = IF funded THEN "Completed" ELSE @,
                             !.tatStopped = @ \/ (funded /\ a.stage # target)]
    IN /\ Live(a)
       /\ WorkflowOf[target] = a.workflow
       /\ a.bookedBy # None /\ u \notin Managers => a.coordinator = u
       /\ ~allowed => u \in Managers /\ a.bookedBy # None
       /\ KeyOf[target] = "BOOKED" /\ a.product \in AmountRequired => amount
       /\ Store(a, moved)
       /\ MoveOccupancy(a.stage, target, funded)
       /\ IF target \in Successful /\ a.product = "PF" /\ a.bookedBy # None
          THEN PostEarning(moved)
          ELSE UNCHANGED earnings
       /\ UNCHANGED <<review, historyOwner, numbers, submissions>>

\* correct_stage: any stage of the workflow, no side effects of its key.
CorrectStage(u, s) ==
  /\ s.app.bookedBy # None => u \in Managers
  /\ Live(s.app)
  /\ \E target \in Stages :
       /\ WorkflowOf[target] = s.app.workflow
       /\ Store(s.app, [s.app EXCEPT !.stage = target])
       /\ CorrectOccupancy(s.app.stage, target)
  /\ UNCHANGED <<review, historyOwner, numbers, submissions, earnings>>

\* Mutant: an outcome may replace an outcome.
SetOutcomeAgain(u, s) ==
  /\ \E outcome \in ManualOutcomes :
       Store(s.app, [s.app EXCEPT !.outcome = outcome, !.tatStopped = TRUE])
  /\ CloseOccupancy
  /\ UNCHANGED <<review, historyOwner, numbers, submissions, earnings>>

SetOutcome(u, s) ==
  /\ Live(s.app)
  /\ \E outcome \in ManualOutcomes :
       Store(s.app, [s.app EXCEPT !.outcome = outcome, !.tatStopped = TRUE])
  /\ CloseOccupancy
  /\ UNCHANGED <<review, historyOwner, numbers, submissions, earnings>>

\* Mutant: the stage moves and the workflow column does not.
MigrateStageOnly(u, s) ==
  /\ Live(s.app)
  /\ \E target \in ActiveStages :
       /\ Store(s.app, [s.app EXCEPT !.stage = target])
       /\ MoveOccupancy(s.app.stage, target, FALSE)
  /\ UNCHANGED <<review, historyOwner, numbers, submissions, earnings>>

\* migrate_application: to an active stage of a workflow of the same bank and
\* product.
MigrateApplication(u, s) ==
  /\ Live(s.app)
  /\ \E target \in ActiveStages :
       /\ Store(s.app, [s.app EXCEPT !.workflow = WorkflowOf[target], !.stage = target])
       /\ MoveOccupancy(s.app.stage, target, FALSE)
  /\ UNCHANGED <<review, historyOwner, numbers, submissions, earnings>>

\* mark_delay: the partial unique index refuses a second active delay that the
\* handler's own lookup could not see.
MarkDelay(u, s) ==
  /\ Live(s.app)
  /\ s.delay = {}
  /\ delay = {}
  /\ \E id \in FreshRows : delay' = {id}
  /\ UNCHANGED <<app, review, openOcc, historyOwner, numbers, submissions, earnings>>

\* correct_delay ends the row it loaded, which may have been ended since.
CorrectDelay(u, s) ==
  /\ \E id \in s.delay : delay' = delay \ {id}
  /\ UNCHANGED <<app, review, openOcc, historyOwner, numbers, submissions, earnings>>

-----------------------------------------------------------------------------
(* Internal review, booking, Sales Manager decision and bank submission:    *)
(* these handlers lock the row for every user.                              *)

\* transition_review, "return": the assigned Team Leader.
ReturnForCorrection(u) ==
  /\ Live(app) /\ ~app.submitted
  /\ Role[u] = "TL" /\ review.tl = u /\ app.owner \in Team[u]
  /\ review.status \in {"pending_review", "resubmitted"}
  /\ review' = [review EXCEPT !.status = "returned"]
  /\ UNCHANGED <<app, openOcc, delay, historyOwner, numbers, submissions, earnings, tx>>

\* transition_review, "resubmit": the owner, while the assigned TL still covers it.
Resubmit(u) ==
  /\ Live(app) /\ ~app.submitted
  /\ Role[u] \in {"SE", "TL"} /\ app.owner = u
  /\ review.status = "returned"
  /\ review.tl # None /\ u \in Team[review.tl]
  /\ review' = [review EXCEPT !.status = "resubmitted"]
  /\ UNCHANGED <<app, openOcc, delay, historyOwner, numbers, submissions, earnings, tx>>

\* book_case: the lane routing in force supplies the manager and coordinator.
BookCase(u) ==
  /\ Live(app)
  /\ app.bookedBy # None => app.routing = "returned" /\ review.status = "resubmitted"
  /\ Role[u] = "TL" /\ review.tl = u /\ app.owner \in Team[u]
  /\ review.status \in {"pending_review", "resubmitted"}
  /\ \E m, c \in Staff :
       /\ Role[m] = "SM" /\ Role[c] = "COD"
       /\ Store(app, [app EXCEPT !.bookedBy = u, !.manager = m,
                                 !.coordinator = c, !.routing = "booked"])
  /\ review' = [status |-> "booked", tl |-> u]
  /\ UNCHANGED <<openOcc, delay, historyOwner, numbers, submissions, earnings, tx>>

\* Mutant: the decision may be taken again.
DecisionAnyTime(u) ==
  /\ Role[u] = "SM" /\ app.manager = u
  /\ \E decision \in {"sm_approved", "returned"} :
       /\ Store(app, [app EXCEPT !.routing = decision])
       /\ review' = [status |-> decision, tl |-> app.bookedBy]
  /\ UNCHANGED <<openOcc, delay, historyOwner, numbers, submissions, earnings, tx>>

\* sales_manager_decision: approve or return.  It has no terminal check.
SalesManagerDecision(u) ==
  /\ Role[u] = "SM" /\ app.manager = u
  /\ review.status = "booked" /\ app.routing = "booked"
  /\ \E decision \in {"sm_approved", "returned"} :
       /\ Store(app, [app EXCEPT !.routing = decision])
       /\ review' = [status |-> decision, tl |-> app.bookedBy]
  /\ UNCHANGED <<openOcc, delay, historyOwner, numbers, submissions, earnings, tx>>

\* submit_bank_file, up to save_case_number with reason None: a case that
\* already carries a submission, or that is terminal, is refused.
ReadyForBank(u) ==
  /\ Role[u] = "COD" /\ app.coordinator = u
  /\ app.routing = "sm_approved"
  /\ Live(app) /\ ~app.submitted

\* The rest of submit_bank_file.  A credit card closes here: the stage moves to
\* Submitted, then the outcome, the occupancy and the earning are written.
SubmitBankFile(u) ==
  /\ ReadyForBank(u)
  /\ IF app.product # "CC"
     THEN /\ RecordCaseNumber(Now, [app EXCEPT !.routing = "submitted"])
          /\ UNCHANGED earnings
     ELSE /\ ReplaceNumber(Now)
          /\ \E target \in SubmitTargets(app) :
               Store(app, [app EXCEPT !.submitted = TRUE, !.stage = target,
                                      !.routing = "closed", !.outcome = "Completed",
                                      !.tatStopped = TRUE])
          /\ submissions' = submissions + 1
          /\ CloseOccupancy
          /\ PostEarning(app)
  /\ UNCHANGED <<review, historyOwner, tx>>

\* import_stage_csv, one row of the file: the routed coordinator, the row
\* locked, no look at the review.
ImportStageRow(u) ==
  /\ Role[u] = "COD" /\ app.coordinator = u
  /\ UpdateStage(u, Now, FALSE)
  /\ UNCHANGED tx

-----------------------------------------------------------------------------
\* The case-number route hands a routed, unsubmitted case to submit_bank_file.
CaseNumberRoute(u, s) ==
  /\ s.app.coordinator = None \/ s.app.submitted
  /\ SaveCaseNumber(u, s)

\* The mutations behind _require_application_mutation_scope that are not edits.
Processing(u, s) ==
  \/ CaseNumberRoute(u, s)
  \/ CorrectSubmitted(u, s)
  \/ ReassignCaseOwner(u, s)
  \/ \E given \in BOOLEAN : UpdateStage(u, s, given)
  \/ CorrectStage(u, s)
  \/ SetOutcome(u, s)
  \/ MigrateApplication(u, s)
  \/ MarkDelay(u, s)
  \/ CorrectDelay(u, s)

StaffMutation(u) ==
  /\ \/ InScope(u, TRUE) /\ UpdateApplication(u, Now)
     \/ InScope(u, FALSE) /\ Processing(u, Now)
  /\ UNCHANGED tx

StaffStep(u) ==
  \/ StaffMutation(u)
  \/ ReturnForCorrection(u)
  \/ Resubmit(u)
  \/ BookCase(u)
  \/ SalesManagerDecision(u)
  \/ SubmitBankFile(u)
  \/ ImportStageRow(u)

\* A manager's request loads the row without a lock ...
Begin(m) ==
  /\ tx[m] = None
  /\ tx' = [tx EXCEPT ![m] = Now]
  /\ UNCHANGED <<app, review, openOcc, delay, historyOwner, numbers, submissions, earnings>>

\* ... and later decides and writes on that copy ...
Finish(m) ==
  /\ tx[m] # None
  /\ UpdateApplication(m, tx[m]) \/ Processing(m, tx[m])
  /\ tx' = [tx EXCEPT ![m] = None]

\* ... or is refused and rolls back.
Refuse(m) ==
  /\ tx[m] # None
  /\ tx' = [tx EXCEPT ![m] = None]
  /\ UNCHANGED <<app, review, openOcc, delay, historyOwner, numbers, submissions, earnings>>

-----------------------------------------------------------------------------
\* create_application: owner history, review and the entry occupancy are
\* written with the row.  A case whose creator is no SE, TL or ADMIN_OFFICER, or
\* that is older than the review, has none ("legacy"); "forwarded" is left only
\* on older cases.  An owner no Team Leader covers has no assigned TL.
Init ==
  /\ \E owner \in Owners, product \in Products, status \in Reviews,
        entry \in {st \in ActiveStages : KeyOf[st] = "APPLICATION_CREATED"},
        tl \in {u \in Staff : Role[u] = "TL"} \cup {None} :
       /\ tl # None => owner \in Team[tl]
       /\ status = "legacy" => tl = None
       /\ status = "forwarded" => tl # None
       /\ app = [workflow |-> WorkflowOf[entry], stage |-> entry,
                 outcome |-> "Open", product |-> product, owner |-> owner,
                 bookedBy |-> None, manager |-> None, coordinator |-> None,
                 routing |-> "none", submitted |-> FALSE,
                 bookedAmount |-> FALSE, tatStopped |-> FALSE]
       /\ review = [status |-> status, tl |-> tl]
       /\ openOcc = {entry}
       /\ historyOwner = owner
  /\ delay = {} /\ numbers = {} /\ submissions = 0 /\ earnings = {}
  /\ tx = [m \in Managers |-> None]

\* Managers' requests do not overlap anything else.
SerialNext ==
  \/ \E u \in Staff : StaffStep(u)
  \/ \E m \in Managers :
       (UpdateApplication(m, Now) \/ Processing(m, Now)) /\ UNCHANGED tx

Next ==
  \/ \E u \in Staff : StaffStep(u)
  \/ \E m \in Managers : Begin(m) \/ Finish(m) \/ Refuse(m)

SerialSpec == Init /\ [][SerialNext]_vars
Spec == Init /\ [][Next]_vars

-----------------------------------------------------------------------------
(* Properties of every interleaving (Spec).                                *)

\* A live case has exactly one open stage occupancy, and it is for the stage
\* the row names: the TAT clock of the stage is the clock of the case, although
\* managers move the stage on stale copies (tat.py).
LiveOccupancy == Live(app) => openOcc = {app.stage}

\* The review chain (events) and the routing columns (row) tell one story: a
\* case waits for the Sales Manager, is approved or is with the bank in both or
\* in neither, so no handler that reads only one of them is misled
\* (case_operations/service.py, review.py).
ReviewMatchesRouting ==
  /\ app.routing = "none" <=> app.bookedBy = None
  /\ app.routing = "none" => review.status \notin {"booked", "sm_approved"}
  /\ app.routing = "booked" <=> review.status = "booked"
  /\ app.routing = "returned" => review.status \in {"returned", "resubmitted"}
  /\ app.routing \in {"sm_approved", "submitted", "closed"} <=>
       review.status = "sm_approved"

\* A case earns at most once, and what its product earns; card points exactly by
\* the bank submission that closes the case, and nothing for a case nobody
\* booked (post_case_earning and its callers).
EarningBacked ==
  /\ app.product = "CC" => (earnings # {} <=> app.routing = "closed")
  /\ earnings # {} => app.bookedBy # None
  /\ \A e \in earnings : e.type = EarningType(app.product)
  /\ \A e, f \in earnings : e = f

\* What a manager's open request has read is old but never ahead of the row:
\* bookings are not undone and terminal cases do not become live, so a stale
\* request cannot earn for a case that is not booked.
Behind(a) ==
  /\ a.product = app.product
  /\ a.bookedBy # None => app.bookedBy # None
  /\ ~Live(a) => ~Live(app)

SnapshotsBehind ==
  \A m \in Managers : tx[m] # None => Behind(tx[m].app)

-----------------------------------------------------------------------------
(* Properties of requests that do not overlap (SerialSpec).                *)

\* The owner column and the owner history agree (reassign_case_owner).
OwnerMatchesHistory == historyOwner = app.owner

\* The stage belongs to the workflow version the case is on
\* (update_stage, migrate_application).
StageInWorkflow == WorkflowOf[app.stage] = app.workflow

\* A case is submitted once, under one current case number
\* (_first_or_correct_case_number).
SubmittedOnce ==
  /\ submissions = (IF app.submitted THEN 1 ELSE 0)
  /\ Cardinality(numbers) = submissions

\* Whatever the order of reassignments, migrations, corrections and submissions,
\* the case stays in step with its dependent rows: the owner with his history,
\* the stage with the workflow version, the submission with one current case
\* number (applications/service.py).
RowsInStep == OwnerMatchesHistory /\ StageInWorkflow /\ SubmittedOnce

\* A stopped TAT clock is final: the case is terminal and no occupancy or delay
\* runs (stop_tat and its callers).
StoppedClockIsFinal == app.tatStopped => ~Live(app) /\ openOcc = {} /\ delay = {}

\* A terminal case keeps its outcome and is not reopened (_reject_terminal).
TerminalNotReopened ==
  [][~Live(app) => app'.outcome = app.outcome /\ openOcc' \subseteq openOcc]_vars

\* Requests that do not overlap keep a terminal case as it is (_reject_terminal,
\* "Terminal applications cannot be changed or reopened").
ClosedForSerial == TerminalNotReopened

\* Once booked, the owner changes only in the request of a GM or OWNER, and the
\* routing goes forward: a case the Sales Manager approved never waits for him
\* again (reassign_case_owner, book_case, sales_manager_decision,
\* submit_bank_file).
RoutingForward ==
  [][/\ app.routing \in {"sm_approved", "submitted", "closed"} =>
          app'.routing \in {app.routing, "submitted", "closed"}
     /\ app.routing \in {"submitted", "closed"} => app'.routing = app.routing
     /\ app.bookedBy # None /\ app'.owner # app.owner =>
          \E m \in Managers : tx[m] # None /\ tx'[m] = None]_vars

-----------------------------------------------------------------------------
(* What the code says of itself and does not keep.                         *)

\* A terminal case has stopped its TAT and completed every stage
\* (tests/api/test_tat_delay.py).
TerminalClocksStopped ==
  ~Live(app) => app.tatStopped /\ openOcc = {} /\ delay = {}

\* While the Sales Manager has not decided, staff do not process the booked
\* case ("Book and obtain SM approval before Coordinator processing.").
NoProcessingBeforeApproval ==
  [][app.routing = "booked" /\ review.status = "booked" => app'.stage = app.stage]_vars
=============================================================================
