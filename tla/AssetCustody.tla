----------------------------- MODULE AssetCustody -----------------------------
(***************************************************************************)
(* Company assets in the custody of employees: issue, transfer to another    *)
(* employee, return, changes of status (assets/service.py), beside whatever  *)
(* changes the employees' records.                                           *)
(*                                                                           *)
(* Concurrency.  Every handler locks the asset's row before it reads it, so  *)
(* what it reads of the asset stays true.  Issue and transfer also read the  *)
(* new custodian, and lock nothing: the allocation they insert later takes a *)
(* KEY SHARE lock on the custodian's row through its foreign key, which      *)
(* waits only for a FOR UPDATE lock and checks no more than that the row     *)
(* exists.  request is that window.  Offices, dates and conditions are left  *)
(* out: they refuse a request.                                               *)
(***************************************************************************)

CONSTANTS
  Assets,
  Employees,    \* users who may hold assets and be offboarded
  Departures,   \* statuses of employment that end it
  None

VARIABLES
  asset,        \* asset[a].status, and in .custodian its open allocation
  request,      \* request[a]: the issue or transfer that holds the row lock of a
  employment,   \* employment[e]: the employee's employment_status
  account       \* account[e]: the employee's account_status

custodyVars == <<asset, request>>
employeeVars == <<employment, account>>

ASSUME CustodyAssumption ==
  /\ None \notin Employees
  /\ Departures \subseteq {"Resigned", "Terminated", "Inactive"}

AssetStatus ==
  {"In Stock", "Allocated", "Under Repair", "Damaged", "Lost", "Retired"}

\* Active stands for the three statuses of employment that make one eligible.
EmploymentStatus == {"Active"} \cup Departures
AccountStatus == {"active", "deactivated"}

Asset == [status: AssetStatus, custodian: Employees \cup {None}]

\* An issue or transfer to an employee it found eligible; inserted once the
\* allocation waits to be committed.
Request == [to: Employees, inserted: BOOLEAN]

CustodyTypeOK ==
  /\ asset \in [Assets -> Asset]
  /\ request \in [Assets -> Request \cup {None}]
  /\ employment \in [Employees -> EmploymentStatus]
  /\ account \in [Employees -> AccountStatus]

CustodyInit ==
  /\ asset = [a \in Assets |-> [status |-> "In Stock", custodian |-> None]]
  /\ request = [a \in Assets |-> None]
  /\ employment = [e \in Employees |-> "Active"]
  /\ account = [e \in Employees |-> "active"]

-----------------------------------------------------------------------------
RowFree(a) == request[a] = None

\* The employee's row is referenced by an allocation not yet committed.
KeyShared(e) ==
  \E a \in Assets : request[a] # None /\ request[a].to = e /\ request[a].inserted

\* _require_eligible_employee.
Eligible(e) == employment[e] = "Active"

\* allocate_asset up to its last read.
BeginIssue(a, e) ==
  /\ RowFree(a)
  /\ asset[a].status = "In Stock" /\ asset[a].custodian = None
  /\ Eligible(e)
  /\ request' = [request EXCEPT ![a] = [to |-> e, inserted |-> FALSE]]
  /\ UNCHANGED <<asset, employment, account>>

\* transfer_employee up to its last read.
BeginTransfer(a, e) ==
  /\ RowFree(a)
  /\ asset[a].status = "Allocated" /\ asset[a].custodian \notin {None, e}
  /\ Eligible(e)
  /\ request' = [request EXCEPT ![a] = [to |-> e, inserted |-> FALSE]]
  /\ UNCHANGED <<asset, employment, account>>

\* The flush.  locked: the employees whose row a transaction holds FOR UPDATE.
Insert(a, locked) ==
  /\ request[a] # None /\ ~request[a].inserted
  /\ request[a].to \notin locked
  /\ request' = [request EXCEPT ![a].inserted = TRUE]
  /\ UNCHANGED <<asset, employment, account>>

\* The commit: a transfer closes the previous allocation with it.
Commit(a) ==
  /\ request[a] # None /\ request[a].inserted
  /\ asset' = [asset EXCEPT ![a] = [status |-> "Allocated", custodian |-> request[a].to]]
  /\ request' = [request EXCEPT ![a] = None]
  /\ UNCHANGED <<employment, account>>

\* The request is refused later or lost: rolled back.
Fail(a) ==
  /\ request[a] # None
  /\ request' = [request EXCEPT ![a] = None]
  /\ UNCHANGED <<asset, employment, account>>

\* return_asset, also out of repair.
Return(a) ==
  /\ RowFree(a)
  /\ asset[a].status \in {"Allocated", "Under Repair"} /\ asset[a].custodian # None
  /\ \E s \in {"In Stock", "Damaged"} :
       asset' = [asset EXCEPT ![a] = [status |-> s, custodian |-> None]]
  /\ UNCHANGED <<request, employment, account>>

\* set_asset_status: any status but those the custody contradicts.
SetStatus(a, s) ==
  /\ RowFree(a)
  /\ s \in {"Retired", "In Stock"} => asset[a].custodian = None
  /\ s = "Allocated" => asset[a].custodian # None
  /\ asset' = [asset EXCEPT ![a].status = s]
  /\ UNCHANGED <<request, employment, account>>

\* update_user, rehire_user and set_account_status write the employee's row, alone
\* or one after the other, at any values: leaving deactivates the account, and an
\* account may be activated whatever the employment.
EditEmployee(e, locked) ==
  /\ e \notin locked
  /\ \E s \in EmploymentStatus, c \in AccountStatus :
       /\ employment' = [employment EXCEPT ![e] = s]
       /\ account' = [account EXCEPT ![e] = c]
  /\ UNCHANGED custodyVars

CustodyNext(locked) ==
  \/ \E a \in Assets, e \in Employees : BeginIssue(a, e) \/ BeginTransfer(a, e)
  \/ \E a \in Assets :
       \/ Insert(a, locked)
       \/ Commit(a)
       \/ Fail(a)
       \/ Return(a)
       \/ \E s \in AssetStatus : SetStatus(a, s)
  \/ \E e \in Employees : EditEmployee(e, locked)

-----------------------------------------------------------------------------
\* The status never contradicts the custody: what is Allocated has a custodian and
\* what is in stock or retired has none, whatever was reported lost, repaired,
\* returned and corrected before (assets/service.py).
CustodyRecorded ==
  \A a \in Assets :
    /\ asset[a].status = "Allocated" => asset[a].custodian # None
    /\ asset[a].status \in {"In Stock", "Retired"} => asset[a].custodian = None
=============================================================================
