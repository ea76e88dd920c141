----------------------------- MODULE ExitsProofs -----------------------------
(* Theorems about Exits, for any number of exits, assets and users.          *)
EXTENDS Exits, TLAPS

-----------------------------------------------------------------------------
(* The inductive invariant.                                                *)

\* What a decided item says of who decided it.
ItemStands(exit, i) ==
  LET item == exit.items[i] IN
    item.status \in Done =>
      /\ item.by # None
      /\ item.by = item.assignee
      /\ item.by # exit.employee
      /\ i = Approval => item.status = "Cleared" /\ item.by \in Owners \ {exit.requester}

ItemsStand(exit) == \A i \in Items : ItemStands(exit, i)

\* An exit that is ready or completed is cleared.
ReadyCleared(exit) ==
  exit.status \in {"Ready to Close", "Completed"} =>
    \A i \in Items : exit.items[i].status \in Done

Filled(exit) ==
  exit.status # "none" => exit.employee \in Employees /\ exit.type \in Departures

RowOK(exit) == exit \in Exit /\ ItemsStand(exit) /\ ReadyCleared(exit) /\ Filled(exit)

RowsOK == exits \in [Exits -> Exit] /\ \A x \in Exits : RowOK(exits[x])

\* The row a completion holds stays as it was, and once it holds the employee's row
\* no allocation refers to it.
CompletionHolds ==
  completing # None =>
    /\ In(completing.exit, {"Ready to Close"})
    /\ completing.locked => ~KeyShared(exits[completing.exit].employee)

Inv ==
  /\ TypeOK
  /\ RowsOK
  /\ CustodyRecorded
  /\ CompletionHolds

-----------------------------------------------------------------------------
(* Steps on the exits.                                                     *)

\* A step that replaces one row nobody completes, and completes no exit.
RowStep(x) ==
  \E row : /\ RowOK(row)
           /\ row.status # "Completed"
           /\ exits' = [exits EXCEPT ![x] = row]
           /\ ExitFree(x)

LEMMA RowStepInv ==
  ASSUME Inv, NEW x \in Exits, RowStep(x), UNCHANGED <<custodyVars, employeeVars, completing>>
  PROVE  Inv'
<1>1. PICK row : /\ RowOK(row)
                 /\ exits' = [exits EXCEPT ![x] = row]
                 /\ ExitFree(x)
  BY DEF RowStep
<1>2. exits \in [Exits -> Exit] /\ row \in Exit BY <1>1 DEF Inv, RowsOK, RowOK
<1>3. /\ exits' \in [Exits -> Exit]
      /\ exits'[x] = row
      /\ \A z \in Exits : z # x => exits'[z] = exits[z]
  BY <1>1, <1>2
<1>4. RowsOK' BY <1>1, <1>3 DEF Inv, RowsOK
<1>5. TypeOK' BY <1>3 DEF Inv, TypeOK, CustodyTypeOK, custodyVars, employeeVars
<1>6. CustodyRecorded' BY DEF Inv, CustodyRecorded, custodyVars
<1>7. CompletionHolds'
  <2>1. completing # None => completing.exit \in Exits /\ completing.exit # x
    BY <1>1 DEF Inv, TypeOK, Completion, ExitFree
  <2> QED BY <1>3, <2>1 DEF Inv, CompletionHolds, In, KeyShared, custodyVars
<1> QED BY <1>4, <1>5, <1>6, <1>7 DEF Inv

\* Moving a row on keeps its items, so what they say still stands.
LEMMA MoveStep ==
  ASSUME Inv, NEW x \in Exits, NEW status \in Status \ {"Ready to Close", "Completed"},
         Move(x, status), ExitFree(x), ~In(x, {"none"})
  PROVE  RowStep(x)
<1> DEFINE row == [exits[x] EXCEPT !.status = status]
<1>1. exits[x] \in Exit /\ ItemsStand(exits[x]) /\ Filled(exits[x])
  BY DEF Inv, RowsOK, RowOK
<1>2. row \in Exit /\ row.status = status BY <1>1 DEF Exit
<1>3. /\ row.items = exits[x].items /\ row.employee = exits[x].employee
      /\ row.requester = exits[x].requester /\ row.type = exits[x].type
  BY <1>1 DEF Exit
<1>4. ItemsStand(row) BY <1>1, <1>3 DEF ItemsStand, ItemStands
<1>5. RowOK(row) BY <1>1, <1>2, <1>3, <1>4 DEF RowOK, ReadyCleared, Filled, In
<1>6. exits' = [exits EXCEPT ![x] = row] BY DEF Move
<1> QED BY <1>2, <1>5, <1>6 DEF RowStep

\* A row in a state no completion starts from is not being completed.
LEMMA NotCompleting ==
  ASSUME Inv, NEW x \in Exits, ~In(x, {"Ready to Close"})
  PROVE  ExitFree(x)
BY DEF Inv, CompletionHolds, ExitFree, In

\* What changes one item, and leaves it as ItemStands asks, is such a step.
LEMMA ItemStep ==
  ASSUME Inv, NEW x \in Exits, NEW i \in Items, NEW item \in Item,
         In(x, {"Clearance in Progress"}), ExitFree(x),
         exits' = [exits EXCEPT ![x].items[i] = item],
         item.status \in Done =>
           /\ item.by # None
           /\ item.by = item.assignee
           /\ item.by # exits[x].employee
           /\ i = Approval =>
                item.status = "Cleared" /\ item.by \in Owners \ {exits[x].requester}
  PROVE  RowStep(x)
<1> DEFINE items == [exits[x].items EXCEPT ![i] = item]
           row == [exits[x] EXCEPT !.items = items]
<1>1. /\ exits \in [Exits -> Exit] /\ exits[x] \in Exit /\ ItemsStand(exits[x])
      /\ Filled(exits[x])
  BY DEF Inv, RowsOK, RowOK
<1>2. exits[x].items \in [Items -> Item] BY <1>1 DEF Exit
<1>3. /\ items \in [Items -> Item] /\ items[i] = item
      /\ \A j \in Items : j # i => items[j] = exits[x].items[j]
  BY <1>2
<1> HIDE DEF items
<1>4. /\ row \in Exit /\ row.items = items /\ row.status = exits[x].status
      /\ row.employee = exits[x].employee /\ row.requester = exits[x].requester
      /\ row.type = exits[x].type
  BY <1>1, <1>3 DEF Exit
<1>5. exits' = [exits EXCEPT ![x] = row] BY <1>1, <1>2 DEF items, Exit
<1> HIDE DEF row
<1>6. ItemsStand(row)
  <2>1. ItemStands(row, i) BY <1>3, <1>4 DEF ItemStands
  <2>2. ASSUME NEW j \in Items, j # i PROVE ItemStands(row, j)
    BY <1>1, <1>3, <1>4, <2>2 DEF ItemsStand, ItemStands
  <2> QED BY <2>1, <2>2 DEF ItemsStand
<1>7. row.status = "Clearance in Progress" BY <1>4 DEF In
<1>8. RowOK(row) BY <1>1, <1>4, <1>6, <1>7 DEF RowOK, ReadyCleared, Filled, In
<1> QED BY <1>5, <1>7, <1>8 DEF RowStep

LEMMA NewRow ==
  ASSUME Inv, NEW x \in Exits, NEW row \in Exit, Set(x, row), ExitFree(x),
         row.status \notin {"Ready to Close", "Completed"},
         \A i \in Items : row.items[i].status = "Pending", Filled(row)
  PROVE  RowStep(x)
<1>1. RowOK(row) BY DEF RowOK, ItemsStand, ItemStands, ReadyCleared, Done
<1> QED BY <1>1 DEF RowStep, Set

\* Every handler but the completion.
LEMMA HandlerStep ==
  ASSUME Inv, NEW p \in Users, NEW x \in Exits, Handler(p, x), ~BeginComplete(p, x)
  PROVE  RowStep(x) /\ UNCHANGED <<custodyVars, employeeVars, completing>>
<1> USE CustodyAssumption, ExitAssumption
<1>1. exits \in [Exits -> Exit] /\ exits[x] \in Exit /\ RowOK(exits[x])
  BY DEF Inv, RowsOK, RowOK
<1>2. exits[x].items \in [Items -> Item] BY <1>1 DEF Exit
<1>3. NoExit \in Exit /\ Pending \in Item
  BY DEF NoExit, Pending, Exit, Item, Decisions, Status
<1>4. ASSUME NEW e \in Employees, NEW type \in Departures, BeginCreate(p, x, e, type)
      PROVE RowStep(x) /\ UNCHANGED <<custodyVars, employeeVars, completing>>
  <2> DEFINE row == [NoExit EXCEPT !.status = "New", !.employee = e,
                                   !.requester = p, !.type = type]
  <2>1. /\ row \in Exit /\ row.status = "New" /\ row.items = NoExit.items
        /\ row.employee = e /\ row.type = type
    BY <1>3 DEF Exit, Status, Users, NoExit
  <2>2. \A i \in Items : row.items[i].status = "Pending" BY <2>1 DEF NoExit, Pending
  <2>3. Set(x, row) /\ In(x, {"none"}) BY <1>4 DEF BeginCreate
  <2>4. ExitFree(x) BY <2>3, NotCompleting DEF In
  <2> HIDE DEF row
  <2>5. Filled(row) BY <2>1 DEF Filled
  <2> QED BY <1>4, <2>1, <2>2, <2>3, <2>4, <2>5, NewRow DEF BeginCreate
<1>5. ASSUME NEW type \in Departures, Edit(p, x, type)
      PROVE RowStep(x) /\ UNCHANGED <<custodyVars, employeeVars, completing>>
  <2> DEFINE row == [exits[x] EXCEPT !.type = type]
  <2>1. /\ row \in Exit /\ row.status = "Draft" /\ row.items = exits[x].items
        /\ row.employee = exits[x].employee /\ row.requester = exits[x].requester
        /\ row.type = type
    BY <1>1, <1>5 DEF Exit, Edit, In
  <2>2. exits' = [exits EXCEPT ![x] = row] BY <1>5 DEF Edit
  <2> HIDE DEF row
  <2>3. RowOK(row)
    BY <1>1, <1>5, <2>1 DEF RowOK, ItemsStand, ItemStands, ReadyCleared, Filled, Edit, In
  <2> QED BY <1>5, <2>1, <2>2, <2>3 DEF Edit, RowStep
<1>6. ASSUME Settle(p, x)
      PROVE RowStep(x) /\ UNCHANGED <<custodyVars, employeeVars, completing>>
  <2>1. PICK s \in BOOLEAN : exits' = [exits EXCEPT ![x].settled = s]
    BY <1>6 DEF Settle
  <2> DEFINE row == [exits[x] EXCEPT !.settled = s]
  <2>2. /\ row \in Exit /\ row.status = exits[x].status /\ row.items = exits[x].items
        /\ row.employee = exits[x].employee /\ row.requester = exits[x].requester
        /\ row.type = exits[x].type
    BY <1>1 DEF Exit
  <2>3. exits' = [exits EXCEPT ![x] = row] BY <2>1
  <2> HIDE DEF row
  <2>4. RowOK(row) BY <1>1, <2>2 DEF RowOK, ItemsStand, ItemStands, ReadyCleared, Filled
  <2>5. row.status # "Completed" BY <1>6, <2>2 DEF Settle, In
  <2> QED BY <1>6, <2>3, <2>4, <2>5 DEF Settle, RowStep
<1>7. ASSUME NEW i \in Items, NEW q \in Users, Assign(p, x, i, q)
      PROVE RowStep(x) /\ UNCHANGED <<custodyVars, employeeVars, completing>>
  <2> DEFINE item == [Pending EXCEPT !.assignee = q]
  <2>1. item \in Item /\ item.status \notin Done
    BY <1>3 DEF Item, Pending, Done, Decisions
  <2>2. exits' = [exits EXCEPT ![x].items[i] = item] BY <1>7 DEF Assign
  <2> HIDE DEF item
  <2> QED BY <1>7, <2>1, <2>2, ItemStep DEF Assign
<1>8. ASSUME NEW i \in Items, NEW s \in Decisions, Decide(p, x, i, s)
      PROVE RowStep(x) /\ UNCHANGED <<custodyVars, employeeVars, completing>>
  <2> DEFINE by == IF s \in Done THEN p ELSE None
             item == [exits[x].items[i] EXCEPT !.status = s, !.by = by]
  <2>1. /\ item \in Item /\ item.status = s /\ item.by = by
        /\ item.assignee = exits[x].items[i].assignee
    BY <1>2 DEF Item
  <2>2. exits' = [exits EXCEPT ![x].items[i] = item] BY <1>1, <1>2, <1>8 DEF Decide, Exit
  <2>3. s \in Done =>
          /\ by = p /\ p # None /\ p = exits[x].items[i].assignee /\ p # exits[x].employee
          /\ i = Approval => s = "Cleared" /\ p \in Owners \ {exits[x].requester}
    BY <1>8 DEF Decide, Users, Done
  <2> HIDE DEF item, by
  <2>4. In(x, {"Clearance in Progress"}) /\ ExitFree(x) BY <1>8 DEF Decide
  <2>5. RowStep(x) BY <2>1, <2>2, <2>3, <2>4, ItemStep
  <2> QED BY <1>8, <2>5 DEF Decide
<1>9. ASSUME Submit(p, x) \/ Cancel(p, x) \/ Review(p, x) \/ Clearance(p, x)
      PROVE RowStep(x) /\ UNCHANGED <<custodyVars, employeeVars, completing>>
  <2>1. PICK status \in {"Submitted", "Cancelled", "Notice Period", "Draft",
                         "Clearance in Progress"} :
          Move(x, status) /\ ExitFree(x) /\ ~In(x, {"none"})
    BY <1>9 DEF Submit, Cancel, Review, Clearance, In, Open
  <2>2. status \in Status \ {"Ready to Close", "Completed"} BY DEF Status, Open
  <2>3. RowStep(x) BY <2>1, <2>2, MoveStep
  <2> QED BY <1>9, <2>3 DEF Submit, Cancel, Review, Clearance
<1>10. ASSUME Ready(p, x)
      PROVE RowStep(x) /\ UNCHANGED <<custodyVars, employeeVars, completing>>
  <2> DEFINE row == [exits[x] EXCEPT !.status = "Ready to Close"]
  <2>1. /\ row \in Exit /\ row.status = "Ready to Close" /\ row.items = exits[x].items
        /\ row.employee = exits[x].employee /\ row.requester = exits[x].requester
        /\ row.type = exits[x].type
    BY <1>1 DEF Exit, Status, Open
  <2>2. exits' = [exits EXCEPT ![x] = row] /\ ExitFree(x) BY <1>10 DEF Ready, Move
  <2> HIDE DEF row
  <2>3. RowOK(row)
    BY <1>1, <1>10, <2>1 DEF RowOK, ItemsStand, ItemStands, ReadyCleared, Filled, Ready, Cleared, In
  <2> QED BY <1>10, <2>1, <2>2, <2>3 DEF RowStep, Ready
<1>11. ASSUME Reopen(p, x)
      PROVE RowStep(x) /\ UNCHANGED <<custodyVars, employeeVars, completing>>
  <2> DEFINE items == [i \in Items |-> [Pending EXCEPT !.assignee = exits[x].items[i].assignee]]
             row == [exits[x] EXCEPT !.status = "Clearance in Progress", !.items = items]
  <2>1. items \in [Items -> Item] /\ \A i \in Items : items[i].status = "Pending"
    BY <1>2, <1>3 DEF Item, Pending
  <2>2. Set(x, row) BY <1>11 DEF Reopen
  <2> HIDE DEF items
  <2>3. /\ row \in Exit /\ row.status = "Clearance in Progress" /\ row.items = items
        /\ row.employee = exits[x].employee /\ row.type = exits[x].type
    BY <1>1, <2>1 DEF Exit, Status, Open
  <2>5. Filled(row) BY <1>1, <1>11, <2>3 DEF RowOK, Filled, Reopen, In
  <2> HIDE DEF row
  <2>4. ExitFree(x) BY <1>11, NotCompleting DEF Reopen, In
  <2> QED BY <1>11, <2>1, <2>2, <2>3, <2>4, <2>5, NewRow DEF Reopen
<1> QED BY <1>4, <1>5, <1>6, <1>7, <1>8, <1>9, <1>10, <1>11 DEF Handler

LEMMA InsertOrDropStep ==
  ASSUME Inv, NEW x \in Exits, InsertExit(x) \/ DropExit(x)
  PROVE  RowStep(x) /\ UNCHANGED <<custodyVars, employeeVars, completing>>
<1>1. In(x, {"New"}) BY DEF InsertExit, DropExit
<1>2. ExitFree(x) BY <1>1, NotCompleting DEF In
<1>3. CASE InsertExit(x)
  <2>1. "Draft" \in Status \ {"Ready to Close", "Completed"} BY DEF Status, Open
  <2>2. Move(x, "Draft") /\ ~In(x, {"none"}) BY <1>1, <1>3 DEF InsertExit, In
  <2>3. RowStep(x) BY <1>2, <2>1, <2>2, MoveStep
  <2> QED BY <1>3, <2>3 DEF InsertExit
<1>4. CASE DropExit(x)
  <2>1. NoExit \in Exit BY DEF NoExit, Pending, Exit, Item, Decisions, Status
  <2>2. /\ NoExit.status = "none" /\ Filled(NoExit)
        /\ \A i \in Items : NoExit.items[i].status = "Pending"
    BY DEF NoExit, Pending, Filled
  <2>3. RowStep(x) BY <1>2, <1>4, <2>1, <2>2, NewRow DEF DropExit
  <2> QED BY <1>4, <2>3 DEF DropExit
<1> QED BY <1>3, <1>4

-----------------------------------------------------------------------------
(* The completion and the steps beside offboarding.                        *)

LEMMA CompletionInv ==
  ASSUME Inv,
         (\E p \in Users, x \in Exits : BeginComplete(p, x))
           \/ LockEmployee \/ Complete \/ Abandon
  PROVE  Inv'
<1> USE CustodyAssumption, ExitAssumption
<1>1. /\ asset' = asset /\ request' = request
      /\ CustodyRecorded'
  BY DEF Inv, CustodyRecorded, BeginComplete, LockEmployee, Complete, Abandon, custodyVars
<1>2. ASSUME NEW p \in Users, NEW x \in Exits, BeginComplete(p, x)
      PROVE Inv'
  <2>1. RowOK(exits[x]) /\ In(x, {"Ready to Close"})
    BY <1>2 DEF Inv, RowsOK, BeginComplete
  <2>2. exits[x].employee \in Employees BY <2>1 DEF RowOK, Filled, In
  <2>3. completing' = [exit |-> x, employment |-> employment[exits[x].employee],
                       account |-> account[exits[x].employee], locked |-> FALSE]
    BY <1>2 DEF BeginComplete
  <2>4. completing' \in Completion
    BY <2>2, <2>3 DEF Inv, TypeOK, CustodyTypeOK, Completion
  <2>5. UNCHANGED <<employment, account, exits>> BY <1>2 DEF BeginComplete, employeeVars
  <2> QED BY <1>1, <2>1, <2>3, <2>4, <2>5
          DEF Inv, TypeOK, CustodyTypeOK, RowsOK, CompletionHolds, In
<1>3. ASSUME LockEmployee PROVE Inv'
  <2>1. /\ completing # None /\ completing \in Completion
        /\ ~KeyShared(exits[completing.exit].employee)
        /\ completing' = [completing EXCEPT !.locked = TRUE]
        /\ UNCHANGED <<employment, account, exits>>
    BY <1>3 DEF Inv, TypeOK, LockEmployee, employeeVars
  <2>2. completing' \in Completion /\ completing'.exit = completing.exit
    BY <2>1 DEF Completion
  <2>3. CompletionHolds'
    BY <1>1, <2>1, <2>2 DEF Inv, CompletionHolds, In, KeyShared
  <2> QED BY <1>1, <2>1, <2>2, <2>3 DEF Inv, TypeOK, CustodyTypeOK, RowsOK
<1>4. ASSUME Complete PROVE Inv'
  <2> DEFINE x == completing.exit
             row == [exits[x] EXCEPT !.status = "Completed"]
  <2>1. x \in Exits /\ In(x, {"Ready to Close"}) /\ RowOK(exits[x])
    BY <1>4 DEF Inv, TypeOK, Completion, CompletionHolds, RowsOK, Complete
  <2>2. exits[x].employee \in Employees /\ exits[x].type \in Departures
    BY <2>1 DEF RowOK, Filled, In, Exit
  <2>3. /\ row \in Exit /\ row.status = "Completed" /\ row.items = exits[x].items
        /\ row.employee = exits[x].employee /\ row.requester = exits[x].requester
        /\ row.type = exits[x].type
    BY <2>1 DEF RowOK, Exit, Status
  <2>4. exits' = [exits EXCEPT ![x] = row] /\ completing' = None
    BY <1>4 DEF Complete, Move
  <2> HIDE DEF row
  <2>5. RowOK(row)
    BY <2>1, <2>3 DEF RowOK, ItemsStand, ItemStands, ReadyCleared, Filled, In
  <2>6. exits \in [Exits -> Exit] /\ \A z \in Exits : RowOK(exits[z])
    BY DEF Inv, RowsOK
  <2>7. RowsOK' BY <2>1, <2>3, <2>4, <2>5, <2>6 DEF RowsOK
  <2>8. employment' \in [Employees -> EmploymentStatus]
        /\ account' \in [Employees -> AccountStatus]
    BY <1>4, <2>2 DEF Inv, TypeOK, CustodyTypeOK, Complete, EmploymentStatus, AccountStatus
  <2>9. TypeOK' BY <1>1, <2>4, <2>7, <2>8 DEF Inv, TypeOK, CustodyTypeOK, RowsOK
  <2>10. CompletionHolds' BY <2>4 DEF CompletionHolds
  <2> QED BY <1>1, <2>7, <2>9, <2>10 DEF Inv
<1>5. ASSUME Abandon PROVE Inv'
  <2>1. completing' = None /\ UNCHANGED <<employment, account, exits>>
    BY <1>5 DEF Abandon, employeeVars
  <2> QED BY <1>1, <2>1 DEF Inv, TypeOK, CustodyTypeOK, RowsOK, CompletionHolds
<1> QED BY <1>2, <1>3, <1>4, <1>5

LEMMA CustodyInv ==
  ASSUME Inv, CustodyNext(Locked), UNCHANGED exitVars
  PROVE  Inv'
<1> USE CustodyAssumption, ExitAssumption
<1>1. RowsOK' /\ exits' = exits /\ completing' = completing
  BY DEF Inv, RowsOK, exitVars
<1>2. /\ asset \in [Assets -> Asset] /\ request \in [Assets -> Request \cup {None}]
      /\ employment \in [Employees -> EmploymentStatus]
      /\ account \in [Employees -> AccountStatus]
      /\ CustodyRecorded
  BY DEF Inv, TypeOK, CustodyTypeOK
\* What follows for the completion once no allocation to the locked employee is new.
<1>3. ASSUME CustodyTypeOK', CustodyRecorded',
             \A e \in Locked : KeyShared(e)' => KeyShared(e)
      PROVE  Inv'
  <2>1. TypeOK' BY <1>1, <1>3 DEF Inv, TypeOK
  <2>2. CompletionHolds'
    BY <1>1, <1>3 DEF Inv, CompletionHolds, In, Locked, KeyShared
  <2> QED BY <1>1, <1>3, <2>1, <2>2 DEF Inv
<1>4. ASSUME NEW a \in Assets, NEW e \in Employees, BeginIssue(a, e) \/ BeginTransfer(a, e)
      PROVE  Inv'
  <2>1. /\ request' = [request EXCEPT ![a] = [to |-> e, inserted |-> FALSE]]
        /\ UNCHANGED <<asset, employment, account>>
    BY <1>4 DEF BeginIssue, BeginTransfer
  <2>2. request' \in [Assets -> Request \cup {None}] BY <1>2, <2>1 DEF Request
  <2>3. \A f \in Locked : KeyShared(f)' => KeyShared(f) BY <1>2, <2>1 DEF KeyShared
  <2> QED BY <1>2, <1>3, <2>1, <2>2, <2>3 DEF CustodyTypeOK, CustodyRecorded
<1>5. ASSUME NEW a \in Assets, Insert(a, Locked)
      PROVE  Inv'
  <2>1. /\ request[a] \in Request /\ request[a].to \notin Locked
        /\ request' = [request EXCEPT ![a].inserted = TRUE]
        /\ UNCHANGED <<asset, employment, account>>
    BY <1>2, <1>5 DEF Insert
  <2>2. request'[a] \in Request /\ request'[a].to = request[a].to
    BY <1>2, <2>1 DEF Request
  <2>3. request' \in [Assets -> Request \cup {None}] BY <1>2, <2>1, <2>2
  <2>4. \A f \in Locked : KeyShared(f)' => KeyShared(f)
    BY <1>2, <2>1, <2>2 DEF KeyShared
  <2> QED BY <1>2, <1>3, <2>1, <2>3, <2>4 DEF CustodyTypeOK, CustodyRecorded
<1>6. ASSUME NEW a \in Assets, Commit(a)
      PROVE  Inv'
  <2>1. /\ request[a] \in Request /\ request' = [request EXCEPT ![a] = None]
        /\ asset' = [asset EXCEPT ![a] =
             [status |-> "Allocated", custodian |-> request[a].to]]
        /\ UNCHANGED <<employment, account>>
    BY <1>2, <1>6 DEF Commit
  <2>2. request' \in [Assets -> Request \cup {None}] BY <1>2, <2>1
  <2>3. request[a].to \in Employees BY <2>1 DEF Request
  <2>4. asset' \in [Assets -> Asset] /\ CustodyRecorded'
    BY <1>2, <2>1, <2>3 DEF Asset, AssetStatus, CustodyRecorded
  <2>5. \A f \in Locked : KeyShared(f)' => KeyShared(f) BY <1>2, <2>1 DEF KeyShared
  <2> QED BY <1>2, <1>3, <2>1, <2>2, <2>4, <2>5 DEF CustodyTypeOK
<1>7. ASSUME NEW a \in Assets, Fail(a)
      PROVE  Inv'
  <2>1. /\ request' = [request EXCEPT ![a] = None]
        /\ UNCHANGED <<asset, employment, account>>
    BY <1>7 DEF Fail
  <2>2. request' \in [Assets -> Request \cup {None}] BY <1>2, <2>1
  <2>3. \A f \in Locked : KeyShared(f)' => KeyShared(f) BY <1>2, <2>1 DEF KeyShared
  <2> QED BY <1>2, <1>3, <2>1, <2>2, <2>3 DEF CustodyTypeOK, CustodyRecorded
<1>8. ASSUME NEW a \in Assets, Return(a)
      PROVE  Inv'
  <2>1. PICK s \in {"In Stock", "Damaged"} :
          asset' = [asset EXCEPT ![a] = [status |-> s, custodian |-> None]]
    BY <1>8 DEF Return
  <2>2. UNCHANGED <<request, employment, account>> BY <1>8 DEF Return
  <2>3. asset' \in [Assets -> Asset] /\ CustodyRecorded'
    BY <1>2, <2>1 DEF Asset, AssetStatus, CustodyRecorded
  <2> QED BY <1>2, <1>3, <2>2, <2>3 DEF CustodyTypeOK, KeyShared
<1>9. ASSUME NEW a \in Assets, NEW s \in AssetStatus, SetStatus(a, s)
      PROVE  Inv'
  <2>1. /\ asset' = [asset EXCEPT ![a].status = s]
        /\ s \in {"Retired", "In Stock"} => asset[a].custodian = None
        /\ s = "Allocated" => asset[a].custodian # None
        /\ UNCHANGED <<request, employment, account>>
    BY <1>9 DEF SetStatus
  <2>2. asset'[a] \in Asset /\ asset'[a].status = s
        /\ asset'[a].custodian = asset[a].custodian
    <3>1. asset \in [Assets -> [status: AssetStatus, custodian: Employees \cup {None}]]
      BY <1>2 DEF Asset
    <3>2. asset'[a] = [asset[a] EXCEPT !.status = s] BY <2>1, <3>1
    <3> QED BY <3>1, <3>2 DEF Asset
  <2>3. asset' \in [Assets -> Asset] BY <1>2, <2>1, <2>2
  <2>4. CustodyRecorded' BY <1>2, <2>1, <2>2 DEF CustodyRecorded
  <2> QED BY <1>2, <1>3, <2>1, <2>3, <2>4 DEF CustodyTypeOK, KeyShared
<1>10. ASSUME NEW e \in Employees, EditEmployee(e, Locked)
      PROVE  Inv'
  <2>1. PICK s \in EmploymentStatus, c \in AccountStatus :
          /\ employment' = [employment EXCEPT ![e] = s]
          /\ account' = [account EXCEPT ![e] = c]
    BY <1>10 DEF EditEmployee
  <2>2. asset' = asset /\ request' = request BY <1>10 DEF EditEmployee, custodyVars
  <2> QED BY <1>2, <1>3, <2>1, <2>2 DEF CustodyTypeOK, CustodyRecorded, KeyShared
<1> QED BY <1>4, <1>5, <1>6, <1>7, <1>8, <1>9, <1>10 DEF CustodyNext

-----------------------------------------------------------------------------
LEMMA InitInv == Init => Inv
<1> USE CustodyAssumption, ExitAssumption
<1> SUFFICES ASSUME Init PROVE Inv OBVIOUS
<1>1. exits = [x \in Exits |-> NoExit] /\ completing = None BY DEF Init
<1>2. NoExit \in Exit BY DEF NoExit, Pending, Exit, Item, Decisions, Status
<1>3. RowOK(NoExit)
  BY <1>2 DEF RowOK, ItemsStand, ItemStands, ReadyCleared, Filled, NoExit, Pending, Done
<1>4. RowsOK BY <1>1, <1>2, <1>3 DEF RowsOK
<1>5. TypeOK
  BY <1>1, <1>2 DEF Init, CustodyInit, TypeOK, CustodyTypeOK, Asset, AssetStatus,
                    EmploymentStatus, AccountStatus
<1>6. CustodyRecorded BY DEF Init, CustodyInit, CustodyRecorded
<1>7. CompletionHolds BY <1>1 DEF CompletionHolds
<1> QED BY <1>4, <1>5, <1>6, <1>7 DEF Inv

LEMMA NextInv == Inv /\ [Next]_vars => Inv'
<1> SUFFICES ASSUME Inv, [Next]_vars PROVE Inv' OBVIOUS
<1>1. ASSUME NEW p \in Users, NEW x \in Exits, Handler(p, x), ~BeginComplete(p, x)
      PROVE Inv'
  BY <1>1, HandlerStep, RowStepInv
<1>2. ASSUME NEW x \in Exits, InsertExit(x) \/ DropExit(x)
      PROVE Inv'
  BY <1>2, InsertOrDropStep, RowStepInv
<1>3. ASSUME UNCHANGED vars PROVE Inv'
  BY <1>3 DEF vars, Inv, TypeOK, CustodyTypeOK, RowsOK, CustodyRecorded, CompletionHolds,
              In, KeyShared
<1> QED BY <1>1, <1>2, <1>3, CompletionInv, CustodyInv DEF Next

LEMMA Invariance == Spec => []Inv
BY InitInv, NextInv, PTL DEF Spec

\* The rows of exits, assets and employees keep their types, and so does what an open
\* completion has read.
THEOREM TypeCorrect == Spec => []TypeOK
BY Invariance, PTL DEF Inv

\* The status of an asset never contradicts its open allocation, whether it was issued,
\* transferred, returned or corrected (assets/service.py).
THEOREM CustodyRecordedHolds == Spec => []CustodyRecorded
BY Invariance, PTL DEF Inv

\* A ready or completed exit was cleared item by item by the assignees, none of them
\* the employee (clear_item; mark_ready and complete in action, offboarding/service.py).
THEOREM ClearanceStandsHolds == Spec => []ClearanceStands
<1>1. Inv => ClearanceStands
  BY DEF Inv, RowsOK, RowOK, ItemsStand, ItemStands, ReadyCleared, ClearanceStands, In
<1> QED BY <1>1, Invariance, PTL

\* The final approval of such an exit is that of an OWNER who did not prepare it
\* (clear_item).
THEOREM ApprovedIndependentlyHolds == Spec => []ApprovedIndependently
<1>1. Inv => ApprovedIndependently
  BY ExitAssumption DEF Inv, RowsOK, RowOK, ItemsStand, ItemStands, ReadyCleared,
                        ApprovedIndependently, In
<1> QED BY <1>1, Invariance, PTL

\* Both at once (action, clear_item).
THEOREM ClearedForGoodHolds == Spec => []ClearedForGood
BY ClearanceStandsHolds, ApprovedIndependentlyHolds, PTL DEF ClearedForGood

\* An exit completes only while its employee holds no asset and none is about to be
\* committed to him (the count of custody under the employee's row lock in action).
THEOREM CompletedWithoutCustodyHolds == Spec => CompletedWithoutCustody
<1> DEFINE Step ==
      \A x \in Exits : exits'[x].status = "Completed" /\ ~In(x, {"Completed"}) =>
        /\ \A a \in Assets : asset'[a].custodian # exits[x].employee
        /\ ~KeyShared(exits[x].employee)
<1>1. ASSUME Inv, Next PROVE Step
  <2>1. ASSUME NEW x \in Exits, RowStep(x) PROVE Step
    BY <1>1, <2>1 DEF RowStep, Inv, RowsOK, In
  <2>2. ASSUME exits' = exits PROVE Step
    BY <2>2 DEF In
  <2>3. ASSUME Complete PROVE Step
    <3>1. /\ completing # None /\ completing.locked
          /\ \A a \in Assets : asset'[a].custodian # exits[completing.exit].employee
          /\ Move(completing.exit, "Completed")
      BY <2>3 DEF Complete, custodyVars
    <3>2. ~KeyShared(exits[completing.exit].employee)
      BY <1>1, <3>1 DEF Inv, CompletionHolds
    <3>3. \A x \in Exits : x # completing.exit => exits'[x] = exits[x]
      BY <1>1, <3>1 DEF Move, Inv, RowsOK
    <3> QED BY <3>1, <3>2, <3>3 DEF In
  <2>4. ASSUME NEW p \in Users, NEW x \in Exits, Handler(p, x) PROVE Step
    BY <1>1, <2>1, <2>2, <2>4, HandlerStep DEF BeginComplete
  <2>5. ASSUME NEW x \in Exits, InsertExit(x) \/ DropExit(x) PROVE Step
    BY <1>1, <2>1, <2>5, InsertOrDropStep
  <2>6. ASSUME LockEmployee \/ Abandon \/ UNCHANGED exitVars PROVE Step
    BY <2>2, <2>6 DEF LockEmployee, Abandon, exitVars
  <2> QED BY <1>1, <2>3, <2>4, <2>5, <2>6 DEF Next
<1>2. Inv /\ [Next]_vars => [Step]_vars BY <1>1
<1> QED BY <1>2, Invariance, PTL DEF Spec, CompletedWithoutCustody
=============================================================================
