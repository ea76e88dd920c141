------------------------- MODULE EmployeeTransfers -------------------------
(***************************************************************************)
(* Scheduled assignment changes of one employee: draft, independent review,  *)
(* OWNER approval, and application on the effective date by the approver or  *)
(* by the executor each API process runs (transfers/service.py,              *)
(* transfers/scheduler.py), beside direct edits of the employee's record.    *)
(*                                                                           *)
(* Concurrency.  Every action on a transfer holds its row lock, and edit,    *)
(* approve, apply and the executor hold one advisory lock besides, so they   *)
(* are atomic but for one thing: approve and apply load the employee with    *)
(* the transfer and lock the employee's row only later, without re-reading   *)
(* it (a locking SELECT leaves a loaded object as it is).  tx is that window. *)
(* The optimistic lock_version of a request that passes equals the row's, so *)
(* it adds nothing to the row lock and is left out.                          *)
(***************************************************************************)
EXTENDS Naturals

CONSTANTS
  Transfers,    \* transfer identities
  Employee,     \* the user who is transferred
  Owner,        \* the only user of type OWNER
  HR,           \* users who prepare, review, return, reject and cancel
  Managers,     \* users who may recommend a transfer of Employee
  Places,       \* assignments: office, department, unit, team, manager ...
  LastDay,      \* bound: the calendar runs from day 1 to LastDay
  Executors,    \* API processes, one executor task in each
  Reliable,     \* executors that meet no unexpected exception
  None

ASSUME TransferAssumption ==
  /\ Owner \notin HR \cup Managers \cup {Employee}
  /\ Managers \cap (HR \cup {Employee}) = {}
  /\ None \notin Transfers \cup Places \cup HR \cup Managers \cup {Owner, Employee}
  /\ LastDay \in Nat \ {0}
  /\ Reliable \subseteq Executors

VARIABLES
  transfers,   \* the employee_transfers rows
  applications,\* applications[t]: "apply" events of a transfer
  place,       \* the employee's assignment
  active,      \* whether the employee's account is active
  today,
  tx,          \* the OWNER's open approve or apply request
  executor     \* executor[x]: where it is and the due transfers it has read

vars == <<transfers, applications, place, active, today, tx, executor>>

Users == HR \cup Managers \cup {Owner, Employee}

Statuses == {"none", "Draft", "Submitted", "Reviewed", "Approved", "Returned",
             "Rejected", "Cancelled", "Superseded", "Applied"}

Final == {"Rejected", "Cancelled", "Superseded", "Applied"}

Transfer ==
  [status: Statuses, requester: Users \cup {None}, reviewer: Users \cup {None},
   approver: Users \cup {None}, supersedes: Transfers \cup {None},
   from: Places \cup {None}, to: Places \cup {None}, effective: 0..LastDay,
   error: BOOLEAN]

\* approve says which of the two requests it is, seen and valid what it loaded of
\* the employee.
Request == [transfer: Transfers, approve: BOOLEAN, seen: Places, valid: BOOLEAN]

Tasks == [at: {"idle", "scanned", "recording", "stopped"}, due: SUBSET Transfers,
          failed: Transfers \cup {None}]

TypeOK ==
  /\ transfers \in [Transfers -> Transfer]
  /\ applications \in [Transfers -> Nat]
  /\ place \in Places
  /\ active \in BOOLEAN
  /\ today \in 1..LastDay
  /\ tx \in Request \cup {None}
  /\ executor \in [Executors -> Tasks]

-----------------------------------------------------------------------------
(* Locks.                                                                  *)

AdvisoryFree == tx = None

RowFree(t) == tx # None => tx.transfer # t

Status(t, statuses) == transfers[t].status \in statuses

Set(t, row) == transfers' = [transfers EXCEPT ![t] = row]

Move(t, status) == transfers' = [transfers EXCEPT ![t].status = status]

Independent(u, t) == u \notin {Employee, transfers[t].requester}

\* _backdate: a past date is the OWNER's.
MayDate(u, day) == day < today => u = Owner

Due(t) == transfers[t].effective <= today

\* What _apply checks besides the snapshot (_validate).
Valid == active

-----------------------------------------------------------------------------
(* create_transfer, edit_transfer.                                         *)

\* The draft, or for a manager's recommendation the submitted transfer.
Create(u, t) ==
  /\ u \in HR \cup {Owner} \cup Managers
  /\ Status(t, {"none"})
  /\ Valid
  /\ \E to \in Places, day \in 1..LastDay,
        previous \in {p \in Transfers : Status(p, {"Approved"})} \cup {None} :
       /\ to # place
       /\ MayDate(u, day)
       /\ Set(t, [status |-> IF u \in Managers THEN "Submitted" ELSE "Draft",
                  requester |-> u, reviewer |-> None, approver |-> None,
                  supersedes |-> previous, from |-> place, to |-> to,
                  effective |-> day, error |-> FALSE])
  /\ UNCHANGED <<applications, place, active, today, tx, executor>>

\* Mutant: a reviewed transfer can still be edited.
EditReviewed(u, t) ==
  /\ u \in HR \cup {Owner}
  /\ AdvisoryFree
  /\ Status(t, {"Draft", "Returned", "Submitted", "Reviewed"})
  /\ Valid
  /\ \E to \in Places, day \in 1..LastDay :
       /\ to # place
       /\ MayDate(u, day)
       /\ transfers' = [transfers EXCEPT ![t].from = place, ![t].to = to,
                                         ![t].effective = day]
  /\ UNCHANGED <<applications, place, active, today, tx, executor>>

Edit(u, t) ==
  /\ u \in HR \cup {Owner}
  /\ AdvisoryFree
  /\ Status(t, {"Draft", "Returned"})
  /\ Valid
  /\ \E to \in Places, day \in 1..LastDay :
       /\ to # place
       /\ MayDate(u, day)
       /\ Set(t, [transfers[t] EXCEPT !.status = "Draft", !.from = place,
                                      !.to = to, !.effective = day])
  /\ UNCHANGED <<applications, place, active, today, tx, executor>>

-----------------------------------------------------------------------------
(* action_transfer.                                                        *)

Submit(u, t) ==
  /\ u \in HR \cup {Owner}
  /\ RowFree(t)
  /\ Status(t, {"Draft", "Returned"})
  /\ Move(t, "Submitted")
  /\ UNCHANGED <<applications, place, active, today, tx, executor>>

\* Mutant: anyone who may review may review his own request.
ReviewOwn(u, t) ==
  /\ u \in HR \cup {Owner}
  /\ RowFree(t)
  /\ Status(t, {"Submitted"})
  /\ Set(t, [transfers[t] EXCEPT !.status = "Reviewed", !.reviewer = u])
  /\ UNCHANGED <<applications, place, active, today, tx, executor>>

Review(u, t) ==
  /\ u \in HR \cup {Owner}
  /\ RowFree(t)
  /\ Status(t, {"Submitted"})
  /\ Independent(u, t)
  /\ Set(t, [transfers[t] EXCEPT !.status = "Reviewed", !.reviewer = u])
  /\ UNCHANGED <<applications, place, active, today, tx, executor>>

ReturnOrReject(u, t) ==
  /\ u \in HR \cup {Owner}
  /\ RowFree(t)
  /\ Status(t, {"Submitted", "Reviewed"})
  /\ Independent(u, t)
  /\ \E status \in {"Returned", "Rejected"} : Move(t, status)
  /\ UNCHANGED <<applications, place, active, today, tx, executor>>

Cancel(u, t) ==
  /\ u \in HR \cup {Owner}
  /\ RowFree(t)
  /\ Status(t, {"Draft", "Returned", "Submitted", "Reviewed", "Approved"})
  /\ Status(t, {"Approved"}) => u = Owner
  /\ Move(t, "Cancelled")
  /\ UNCHANGED <<applications, place, active, today, tx, executor>>

\* approve or apply: the locks taken, the employee loaded.
Begin(t, approve) ==
  /\ AdvisoryFree
  /\ IF approve
     THEN Status(t, {"Reviewed"}) /\ Independent(Owner, t)
     ELSE Status(t, {"Approved"})
  /\ tx' = [transfer |-> t, approve |-> approve, seen |-> place, valid |-> Valid]
  /\ UNCHANGED <<transfers, applications, place, active, today, executor>>

\* Mutant: the previous schedule is not checked again.
ApprovedUnchecked(t) ==
  LET previous == transfers[t].supersedes
      approved == [transfers EXCEPT ![t].status = "Approved", ![t].approver = Owner]
  IN {IF previous = None THEN approved
      ELSE [approved EXCEPT ![previous].status = "Superseded"]}

\* The rows after "approve": a schedule it replaces must still be scheduled.
Approved(t) ==
  LET previous == transfers[t].supersedes
      approved == [transfers EXCEPT ![t].status = "Approved", ![t].approver = Owner]
  IN IF previous = None THEN {approved}
     ELSE IF ~Status(previous, {"Approved"}) THEN {}
     ELSE {[approved EXCEPT ![previous].status = "Superseded"]}

\* _apply on the rows given: the employee as loaded must be active and assigned as
\* reviewed, and what is written is the whole proposed assignment.
Apply(rows, t, seen, valid) ==
  /\ Due(t)
  /\ seen = rows[t].from
  /\ valid
  /\ place' = rows[t].to
  /\ transfers' = [rows EXCEPT ![t].status = "Applied", ![t].error = FALSE]
  /\ applications' = [applications EXCEPT ![t] = @ + 1]

\* The rest of the request in one commit: a due approval applies at once.
Finish ==
  /\ tx # None
  /\ LET t == tx.transfer IN
     IF ~tx.approve THEN Apply(transfers, t, tx.seen, tx.valid)
     ELSE \E rows \in Approved(t) :
            IF Due(t) THEN Apply(rows, t, tx.seen, tx.valid)
            ELSE transfers' = rows /\ UNCHANGED <<applications, place>>
  /\ tx' = None
  /\ UNCHANGED <<active, today, executor>>

\* The request is refused or lost: rolled back.
Rollback ==
  /\ tx # None
  /\ tx' = None
  /\ UNCHANGED <<transfers, applications, place, active, today, executor>>

-----------------------------------------------------------------------------
(* apply_due_transfers and the executor task around it.                    *)

\* The due schedules, read without a lock.
Scan(x) ==
  /\ executor[x].at = "idle"
  /\ executor' = [executor EXCEPT ![x].at = "scanned", ![x].due =
       {t \in Transfers : Status(t, {"Approved"}) /\ Due(t) /\ ~transfers[t].error}]
  /\ UNCHANGED <<transfers, applications, place, active, today, tx>>

Sleep(x) ==
  /\ executor[x].at = "scanned" /\ executor[x].due = {}
  /\ executor' = [executor EXCEPT ![x].at = "idle"]
  /\ UNCHANGED <<transfers, applications, place, active, today, tx>>

\* Mutant: the row is not checked again under its lock.
TakeUnchecked(x, t) ==
  /\ executor[x].at = "scanned" /\ t \in executor[x].due
  /\ AdvisoryFree
  /\ \/ /\ Apply(transfers, t, place, Valid)
        /\ executor' = [executor EXCEPT ![x].due = @ \ {t}]
     \/ /\ ~Valid \/ transfers[t].from # place
        /\ executor' = [executor EXCEPT ![x].at = "recording", ![x].failed = t,
                                        ![x].due = @ \ {t}]
        /\ UNCHANGED <<transfers, applications, place>>
  /\ UNCHANGED <<active, today, tx>>

\* One schedule in a transaction of its own: skipped when no longer scheduled or
\* already blocked, applied, or rolled back on an AppError.
Take(x, t) ==
  /\ executor[x].at = "scanned" /\ t \in executor[x].due
  /\ AdvisoryFree
  /\ \/ /\ ~Status(t, {"Approved"}) \/ transfers[t].error
        /\ executor' = [executor EXCEPT ![x].due = @ \ {t}]
        /\ UNCHANGED <<transfers, applications, place>>
     \/ /\ Status(t, {"Approved"}) /\ ~transfers[t].error
        /\ Apply(transfers, t, place, Valid)
        /\ executor' = [executor EXCEPT ![x].due = @ \ {t}]
     \/ /\ Status(t, {"Approved"}) /\ ~transfers[t].error
        /\ ~Valid \/ transfers[t].from # place
        /\ executor' = [executor EXCEPT ![x].at = "recording", ![x].failed = t,
                                        ![x].due = @ \ {t}]
        /\ UNCHANGED <<transfers, applications, place>>
  /\ UNCHANGED <<active, today, tx>>

\* Mutant: the failure is not recorded.
RecordNothing(x) ==
  /\ executor[x].at = "recording"
  /\ AdvisoryFree
  /\ executor' = [executor EXCEPT ![x].at = "scanned", ![x].failed = None]
  /\ UNCHANGED <<transfers, applications, place, active, today, tx>>

\* The locks were released by the rollback: the failure is recorded only on a
\* schedule that is still pending.
RecordError(x) ==
  /\ executor[x].at = "recording"
  /\ AdvisoryFree
  /\ LET t == executor[x].failed IN
     IF Status(t, {"Approved"})
     THEN transfers' = [transfers EXCEPT ![t].error = TRUE]
     ELSE UNCHANGED transfers
  /\ executor' = [executor EXCEPT ![x].at = "scanned", ![x].failed = None]
  /\ UNCHANGED <<applications, place, active, today, tx>>

\* Any other exception ends the task for as long as the process runs.
Stop(x) ==
  /\ x \notin Reliable
  /\ executor[x].at # "stopped"
  /\ executor' = [executor EXCEPT ![x] = [at |-> "stopped", due |-> {}, failed |-> None]]
  /\ UNCHANGED <<transfers, applications, place, active, today, tx>>

\* The API process is started again.
Restart(x) ==
  /\ executor[x].at = "stopped"
  /\ executor' = [executor EXCEPT ![x].at = "idle"]
  /\ UNCHANGED <<transfers, applications, place, active, today, tx>>

-----------------------------------------------------------------------------
(* The employee's record beside the transfers, and the calendar.           *)

\* update_user: without a change of manager it takes no advisory lock.
EditEmployee ==
  /\ \E p \in Places \ {place} : place' = p
  /\ UNCHANGED <<transfers, applications, active, today, tx, executor>>

\* set_account_status.
SetAccountStatus ==
  /\ active' = ~active
  /\ UNCHANGED <<transfers, applications, place, today, tx, executor>>

NextDay ==
  /\ today < LastDay
  /\ today' = today + 1
  /\ UNCHANGED <<transfers, applications, place, active, tx, executor>>

-----------------------------------------------------------------------------
Init ==
  /\ transfers = [t \in Transfers |->
       [status |-> "none", requester |-> None, reviewer |-> None, approver |-> None,
        supersedes |-> None, from |-> None, to |-> None, effective |-> 0, error |-> FALSE]]
  /\ applications = [t \in Transfers |-> 0]
  /\ place \in Places
  /\ active = TRUE
  /\ today = 1
  /\ tx = None
  /\ executor = [x \in Executors |-> [at |-> "idle", due |-> {}, failed |-> None]]

UserStep(u, t) ==
  \/ Create(u, t)
  \/ Edit(u, t)
  \/ Submit(u, t)
  \/ Review(u, t)
  \/ ReturnOrReject(u, t)
  \/ Cancel(u, t)

ExecutorStep(x) ==
  \/ Scan(x)
  \/ Sleep(x)
  \/ \E t \in Transfers : Take(x, t)
  \/ RecordError(x)

Next ==
  \/ \E u \in Users, t \in Transfers : UserStep(u, t)
  \/ \E t \in Transfers, approve \in BOOLEAN : Begin(t, approve)
  \/ Finish
  \/ Rollback
  \/ \E x \in Executors : ExecutorStep(x) \/ Stop(x) \/ Restart(x)
  \/ EditEmployee
  \/ SetAccountStatus
  \/ NextDay

Spec == Init /\ [][Next]_vars

\* A request of the OWNER ends; an executor runs, and gets the advisory lock in
\* the order of its queue.
FairSpec ==
  /\ Spec
  /\ WF_vars(Finish \/ Rollback)
  /\ \A x \in Reliable : SF_vars(ExecutorStep(x))

-----------------------------------------------------------------------------
\* However many executors and OWNER requests meet on a schedule, a transfer is
\* applied at most once, and what is Applied was applied.
AppliedOnce ==
  \A t \in Transfers :
    applications[t] = IF transfers[t].status = "Applied" THEN 1 ELSE 0

\* What reached approval was reviewed and approved by others than the employee
\* and the requester, whatever happened to it since (action_transfer).
IndependentlyApproved ==
  \A t \in Transfers : Status(t, {"Approved", "Superseded", "Applied"}) =>
    /\ {transfers[t].reviewer, transfers[t].approver}
         \cap {Employee, transfers[t].requester, None} = {}
    /\ transfers[t].approver = Owner

\* A transfer takes effect as it was approved: once, by whoever takes it, and approved
\* by others than those it serves (action_transfer, _apply).
AppliedAsApproved == AppliedOnce /\ IndependentlyApproved

\* A superseded schedule never took effect, and exactly one transfer was approved
\* in its place: it is not dropped without a successor, nor replaced twice, by
\* drafts that were all made to replace it (action_transfer).
Successor(t, p) == transfers[t].supersedes = p /\ transfers[t].approver # None

SupersededBySuccessor ==
  \A p \in Transfers : transfers[p].status = "Superseded" =>
    /\ applications[p] = 0
    /\ \E t \in Transfers : Successor(t, p)
    /\ \A t, q \in Transfers : Successor(t, p) /\ Successor(q, p) => t = q

\* From its review on, the content of a transfer is what was reviewed, and an
\* outcome is never taken back (edit_transfer, action_transfer).
ReviewedContentKept ==
  [][\A t \in Transfers :
       /\ Status(t, {"Reviewed", "Approved"} \cup Final) =>
            <<transfers'[t].from, transfers'[t].to, transfers'[t].effective>> =
            <<transfers[t].from, transfers[t].to, transfers[t].effective>>
       /\ Status(t, Final) => transfers'[t].status = transfers[t].status]_vars

\* The executor applies only onto the assignment that was reviewed, however long
\* ago it read that the schedule is due (apply_due_transfers).
ExecutorKeepsIntervening ==
  [][tx' = tx => \A t \in Transfers :
       transfers'[t].status = "Applied" /\ transfers[t].status # "Applied" =>
         place = transfers[t].from]_vars

\* While some executor keeps running, every due schedule is applied, blocked
\* with its error or taken back by the OWNER (scheduler.py).
DueIsSettled ==
  \A t \in Transfers :
    (Status(t, {"Approved"}) /\ Due(t) /\ ~transfers[t].error) ~>
    (~Status(t, {"Approved"}) \/ transfers[t].error)

-----------------------------------------------------------------------------
\* "no silent overwrite of intervening organization changes is allowed"
\* (docs/phase2-employee-transfers.md): also the OWNER's approval or application
\* lands only on the assignment that was reviewed.
NoSilentOverwrite ==
  [][\A t \in Transfers :
       transfers'[t].status = "Applied" /\ transfers[t].status # "Applied" =>
         place = transfers[t].from]_vars
=============================================================================
