-------------------------------- MODULE Exits --------------------------------
(***************************************************************************)
(* Offboarding (offboarding/service.py) beside the custody of assets: an     *)
(* exit is drafted, submitted, processed through notice and clearance,       *)
(* declared ready and completed by an OWNER, which ends the employment.      *)
(*                                                                           *)
(* Concurrency.  Every handler locks the exit's row and reads the exit, its  *)
(* checklist and the employee; so each is atomic but three.  Creation checks *)
(* the employee before it inserts.  Completion locks the employee's row      *)
(* later and does not read it again (a locking SELECT leaves a loaded object *)
(* as it is): completing is that request.  One advisory lock admits one      *)
(* completion at a time.  The lock_version of a request that passes is that  *)
(* of the row, so it adds nothing to the row lock and is left out.           *)
(***************************************************************************)
EXTENDS AssetCustody

CONSTANTS
  Exits,        \* exit identities
  Owners,       \* users of type OWNER
  HR,           \* users with the operational exit permissions, OWNERs aside
  Items,        \* keys of the checklist
  Approval      \* the final approval, one of them

VARIABLES
  exits,        \* the employee_exits rows with their checklist
  completing    \* the open completion request

exitVars == <<exits, completing>>
vars == <<asset, request, employment, account, exits, completing>>

ASSUME ExitAssumption ==
  /\ Owners \cap (Employees \cup HR) = {}
  /\ None \notin Exits \cup Owners \cup HR
  /\ Approval \in Items

Users == Owners \cup HR \cup Employees
Operators == Owners \cup HR

Open == {"Draft", "Submitted", "Notice Period", "Clearance in Progress", "Ready to Close"}

\* "New" is an exit whose creation has checked the employee and not inserted it.
Status == {"none", "New", "Completed", "Cancelled"} \cup Open

Decisions == {"Pending", "Cleared", "Not applicable"}
Done == {"Cleared", "Not applicable"}

\* by: who decided it, by the events since its assignment or the last reopening.
Item == [assignee: Users \cup {None}, status: Decisions, by: Users \cup {None}]

\* The type of an exit is the employment it ends in.
Exit == [status: Status, employee: Employees \cup {None}, requester: Users \cup {None},
         type: Departures \cup {None}, settled: BOOLEAN, items: [Items -> Item]]

\* What completion loaded of the employee, and whether it has locked the row.
Completion == [exit: Exits, employment: EmploymentStatus, account: AccountStatus,
               locked: BOOLEAN]

TypeOK ==
  /\ CustodyTypeOK
  /\ exits \in [Exits -> Exit]
  /\ completing \in Completion \cup {None}

Pending == [assignee |-> None, status |-> "Pending", by |-> None]

NoExit == [status |-> "none", employee |-> None, requester |-> None, type |-> None,
           settled |-> FALSE, items |-> [i \in Items |-> Pending]]

-----------------------------------------------------------------------------
ExitFree(x) == completing # None => completing.exit # x

In(x, statuses) == exits[x].status \in statuses

\* uq_exit_open_employee.
NoOpenExit(e) == \A x \in Exits : exits[x].employee = e => ~In(x, Open)

\* The row of the employee a completion has locked.
Locked == IF completing # None /\ completing.locked
          THEN {exits[completing.exit].employee} ELSE {}

OwnRequest(p, x) == p = exits[x].employee /\ p = exits[x].requester

Cleared(x) ==
  \A i \in Items : exits[x].items[i].status \in Done /\ exits[x].items[i].assignee # None

Set(x, exit) == exits' = [exits EXCEPT ![x] = exit]

Move(x, status) == exits' = [exits EXCEPT ![x].status = status]

-----------------------------------------------------------------------------
\* create up to its insert: an employee may ask for a resignation only.
BeginCreate(p, x, e, type) ==
  /\ p \in Operators \/ (p = e /\ type = "Resigned")
  /\ In(x, {"none"})
  /\ account[e] = "active"
  /\ Set(x, [NoExit EXCEPT !.status = "New", !.employee = e, !.requester = p, !.type = type])
  /\ UNCHANGED <<custodyVars, employeeVars, completing>>

\* The insert waits for a completion that is about to close the open exit.
InsertExit(x) ==
  /\ In(x, {"New"})
  /\ NoOpenExit(exits[x].employee)
  /\ Move(x, "Draft")
  /\ UNCHANGED <<custodyVars, employeeVars, completing>>

\* Refused by the index, or lost.
DropExit(x) ==
  /\ In(x, {"New"})
  /\ Set(x, NoExit)
  /\ UNCHANGED <<custodyVars, employeeVars, completing>>

Edit(p, x, type) ==
  /\ ExitFree(x)
  /\ In(x, {"Draft"})
  /\ p \in Operators \/ (OwnRequest(p, x) /\ type = "Resigned")
  /\ exits' = [exits EXCEPT ![x].type = type]
  /\ UNCHANGED <<custodyVars, employeeVars, completing>>

\* settlement.
Settle(p, x) ==
  /\ ExitFree(x)
  /\ p \in Operators
  /\ ~In(x, {"none", "New", "Completed", "Cancelled", "Ready to Close"})
  /\ \E s \in BOOLEAN : exits' = [exits EXCEPT ![x].settled = s]
  /\ UNCHANGED <<custodyVars, employeeVars, completing>>

-----------------------------------------------------------------------------
(* clear_item.                                                             *)

\* An independent assignee; for the final approval an independent OWNER.
Assign(p, x, i, q) ==
  /\ ExitFree(x)
  /\ In(x, {"Clearance in Progress"})
  /\ p \in Operators
  /\ q \in Users \ {exits[x].employee}
  /\ i = Approval => q \in Owners \ {exits[x].requester}
  /\ exits' = [exits EXCEPT ![x].items[i] = [Pending EXCEPT !.assignee = q]]
  /\ UNCHANGED <<custodyVars, employeeVars, completing>>

Decide(p, x, i, s) ==
  /\ ExitFree(x)
  /\ In(x, {"Clearance in Progress"})
  /\ p = exits[x].items[i].assignee /\ p # exits[x].employee
  /\ i = Approval => p \in Owners \ {exits[x].requester} /\ s # "Not applicable"
  /\ exits' = [exits EXCEPT ![x].items[i] =
       [@ EXCEPT !.status = s, !.by = IF s \in Done THEN p ELSE None]]
  /\ UNCHANGED <<custodyVars, employeeVars, completing>>

-----------------------------------------------------------------------------
(* action.                                                                 *)

Submit(p, x) ==
  /\ ExitFree(x)
  /\ In(x, {"Draft"})
  /\ p \in Operators \/ OwnRequest(p, x)
  /\ Move(x, "Submitted")
  /\ UNCHANGED <<custodyVars, employeeVars, completing>>

\* An employee's own request until it is processed; others are independent.
Cancel(p, x) ==
  /\ ExitFree(x)
  /\ In(x, Open)
  /\ \/ OwnRequest(p, x) /\ In(x, {"Draft", "Submitted"})
     \/ p \in Operators /\ p # exits[x].employee
  /\ Move(x, "Cancelled")
  /\ UNCHANGED <<custodyVars, employeeVars, completing>>

\* Neither the employee nor who prepared the exit.
Reviewer(p, x) == p \in Operators \ {exits[x].employee, exits[x].requester}

Review(p, x) ==
  /\ ExitFree(x)
  /\ In(x, {"Submitted"})
  /\ Reviewer(p, x)
  /\ \E status \in {"Notice Period", "Draft", "Cancelled"} : Move(x, status)
  /\ UNCHANGED <<custodyVars, employeeVars, completing>>

Clearance(p, x) ==
  /\ ExitFree(x)
  /\ In(x, {"Notice Period"})
  /\ p \in Operators \ {exits[x].employee}
  /\ Move(x, "Clearance in Progress")
  /\ UNCHANGED <<custodyVars, employeeVars, completing>>

Ready(p, x) ==
  /\ ExitFree(x)
  /\ In(x, {"Clearance in Progress"})
  /\ Reviewer(p, x)
  /\ Cleared(x)
  /\ Move(x, "Ready to Close")
  /\ UNCHANGED <<custodyVars, employeeVars, completing>>

\* "complete" up to the load of the employee.
BeginComplete(p, x) ==
  /\ completing = None
  /\ In(x, {"Ready to Close"})
  /\ Reviewer(p, x) /\ p \in Owners
  /\ Cleared(x)
  /\ LET e == exits[x].employee IN
     completing' = [exit |-> x, employment |-> employment[e], account |-> account[e],
                    locked |-> FALSE]
  /\ UNCHANGED <<custodyVars, employeeVars, exits>>

\* Mutant: the lock does not wait for allocations not yet committed.
LockAtOnce ==
  /\ completing # None /\ ~completing.locked
  /\ completing' = [completing EXCEPT !.locked = TRUE]
  /\ UNCHANGED <<custodyVars, employeeVars, exits>>

\* SELECT ... FOR UPDATE of the employee.
LockEmployee ==
  /\ completing # None /\ ~completing.locked
  /\ ~KeyShared(exits[completing.exit].employee)
  /\ completing' = [completing EXCEPT !.locked = TRUE]
  /\ UNCHANGED <<custodyVars, employeeVars, exits>>

\* The count of outstanding assets and the commit.  The UPDATE holds what differs
\* from the employee as loaded.
Complete ==
  /\ completing # None /\ completing.locked
  /\ LET e == exits[completing.exit].employee
         ending == exits[completing.exit].type
     IN /\ \A a \in Assets : asset[a].custodian # e
        /\ employment' = [employment EXCEPT ![e] =
             IF completing.employment = ending THEN @ ELSE ending]
        /\ account' = [account EXCEPT ![e] =
             IF completing.account = "deactivated" THEN @ ELSE "deactivated"]
  /\ Move(completing.exit, "Completed")
  /\ completing' = None
  /\ UNCHANGED custodyVars

\* Outstanding assets, a date still to come, or a lost request: rolled back.
Abandon ==
  /\ completing # None
  /\ completing' = None
  /\ UNCHANGED <<custodyVars, employeeVars, exits>>

\* Mutant: the checklist keeps its decisions.
ReopenCleared(p, x) ==
  /\ In(x, {"Completed"})
  /\ p \in Owners
  /\ NoOpenExit(exits[x].employee)
  /\ Set(x, [exits[x] EXCEPT !.status = "Clearance in Progress",
       !.items = [i \in Items |-> [exits[x].items[i] EXCEPT !.by = None]]])
  /\ UNCHANGED <<custodyVars, employeeVars, completing>>

\* "reopen": every item is pending again with its assignee; the employee stays out.
Reopen(p, x) ==
  /\ In(x, {"Completed"})
  /\ p \in Owners
  /\ NoOpenExit(exits[x].employee)
  /\ Set(x, [exits[x] EXCEPT !.status = "Clearance in Progress",
       !.items = [i \in Items |-> [Pending EXCEPT !.assignee = exits[x].items[i].assignee]]])
  /\ UNCHANGED <<custodyVars, employeeVars, completing>>

-----------------------------------------------------------------------------
Init ==
  /\ CustodyInit
  /\ exits = [x \in Exits |-> NoExit]
  /\ completing = None

Handler(p, x) ==
  \/ \E e \in Employees, type \in Departures : BeginCreate(p, x, e, type)
  \/ \E type \in Departures : Edit(p, x, type)
  \/ Settle(p, x)
  \/ \E i \in Items, q \in Users : Assign(p, x, i, q)
  \/ \E i \in Items, s \in Decisions : Decide(p, x, i, s)
  \/ Submit(p, x)
  \/ Cancel(p, x)
  \/ Review(p, x)
  \/ Clearance(p, x)
  \/ Ready(p, x)
  \/ BeginComplete(p, x)
  \/ Reopen(p, x)

Next ==
  \/ \E p \in Users, x \in Exits : Handler(p, x)
  \/ \E x \in Exits : InsertExit(x) \/ DropExit(x)
  \/ LockEmployee
  \/ Complete
  \/ Abandon
  \/ CustodyNext(Locked) /\ UNCHANGED exitVars

Spec == Init /\ [][Next]_vars

-----------------------------------------------------------------------------
\* "Completion requires ... no currently outstanding asset allocations"
\* (docs/phase2-exit-offboarding.md): at the moment of completion the employee holds
\* nothing, and no allocation to him is about to be committed.
CompletedWithoutCustody ==
  [][\A x \in Exits : exits'[x].status = "Completed" /\ ~In(x, {"Completed"}) =>
       /\ \A a \in Assets : asset'[a].custodian # exits[x].employee
       /\ ~KeyShared(exits[x].employee)]_vars

\* From "ready" on, every item stands as its own assignee decided it since it was
\* last assigned and the exit last reopened, and never the employee himself.
ClearanceStands ==
  \A x \in Exits : In(x, {"Ready to Close", "Completed"}) =>
    \A i \in Items : LET item == exits[x].items[i] IN
      /\ item.status \in Done
      /\ item.by # None
      /\ item.by = item.assignee
      /\ item.by # exits[x].employee

\* "Final approval requires an independent OWNER and cannot be marked not
\* applicable" (docs/phase2-exit-offboarding.md).
ApprovedIndependently ==
  \A x \in Exits : In(x, {"Ready to Close", "Completed"}) =>
    LET item == exits[x].items[Approval] IN
      /\ item.status = "Cleared"
      /\ item.by \in Owners \ {exits[x].requester}

\* What a ready or completed exit rests on: every item decided by its assignee and
\* the final one by an independent OWNER, since it was last reopened (action,
\* clear_item).
ClearedForGood == ClearanceStands /\ ApprovedIndependently

\* "employment status/history, account deactivation ... are committed together"
\* (docs/phase2-exit-offboarding.md): when an exit completes, the employee has left
\* and cannot sign in.
EndedTogether ==
  [][\A x \in Exits : exits'[x].status = "Completed" /\ ~In(x, {"Completed"}) =>
       /\ employment'[exits[x].employee] = exits[x].type
       /\ account'[exits[x].employee] = "deactivated"]_vars
=============================================================================
