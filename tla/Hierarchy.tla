------------------------------ MODULE Hierarchy ------------------------------
(***************************************************************************)
(* Who reports to whom (identity/users_service.py): every change of a        *)
(* reporting manager, by creation, edit, transfer or rehire, is validated    *)
(* and committed under one advisory lock of the company; accounts and user   *)
(* types change without it.                                                  *)
(*                                                                           *)
(* Concurrency.  edge[w] is the change a request has validated and not yet   *)
(* committed; whoever has one holds the lock (prepare_reporting_manager_     *)
(* change), and reads the users anew after getting it.                       *)
(***************************************************************************)
CONSTANTS
  People,
  Head,      \* the user of type OWNER
  Writers,    \* concurrent requests
  Nobody

ASSUME HierarchyAssumption == Head \in People /\ Nobody \notin People

VARIABLES
  standing,    \* account[u]: "absent" before u is created
  eligible,   \* eligible[u]: can_be_reporting_manager of u's user type
  manager,    \* manager[u]: reporting_manager_id
  edge

hierarchyVars == <<standing, eligible, manager, edge>>

Standings == {"absent", "pending", "active", "deactivated"}

\* The user and the manager it is to get.
Edge == [user: People, to: People \cup {Nobody}]
NoEdge == [user |-> Nobody, to |-> Nobody]

HierarchyTypeOK ==
  /\ standing \in [People -> Standings]
  /\ eligible \in [People -> BOOLEAN]
  /\ manager \in [People -> People \cup {Nobody}]
  /\ edge \in [Writers -> Edge \cup {NoEdge}]

HierarchyInit ==
  /\ standing = [u \in People |-> IF u = Head THEN "active" ELSE "absent"]
  /\ eligible = [u \in People |-> u = Head]
  /\ manager = [u \in People |-> Nobody]
  /\ edge = [w \in Writers |-> NoEdge]

-----------------------------------------------------------------------------
Exists(u) == standing[u] # "absent"

\* descendant_ids: the least set that contains the reports of u and their reports.
ReportsClosed(S, u) == \A v \in People : manager[v] \in S \cup {u} => v \in S
Below(u) == {v \in People : \A S \in SUBSET People : ReportsClosed(S, u) => v \in S}

LockFree == \A w \in Writers : edge[w] = NoEdge

ManagerOK(u, m) ==
  m # Nobody =>
    /\ u # Head
    /\ m # u
    /\ standing[m] = "active" /\ eligible[m]
    /\ m \notin Below(u)

\* Mutant: the lock is not taken.
PrepareUnlocked(w, u, m) ==
  /\ edge[w] = NoEdge
  /\ Exists(u) \/ m # Nobody
  /\ ManagerOK(u, m)
  /\ edge' = [edge EXCEPT ![w] = [user |-> u, to |-> m]]
  /\ UNCHANGED <<standing, eligible, manager>>

\* prepare_reporting_manager_change: of a user, or of one about to be created.
Prepare(w, u, m) ==
  /\ LockFree
  /\ Exists(u) \/ m # Nobody
  /\ ManagerOK(u, m)
  /\ edge' = [edge EXCEPT ![w] = [user |-> u, to |-> m]]
  /\ UNCHANGED <<standing, eligible, manager>>

\* create_user under a manager, update_user and rehire_user with a manager given.
CommitEdge(w) ==
  /\ edge[w] # NoEdge
  /\ manager' = [manager EXCEPT ![edge[w].user] = edge[w].to]
  /\ IF Exists(edge[w].user) THEN UNCHANGED <<standing, eligible>>
     ELSE /\ standing' = [standing EXCEPT ![edge[w].user] = "pending"]
          /\ \E e \in BOOLEAN : eligible' = [eligible EXCEPT ![edge[w].user] = e]
  /\ edge' = [edge EXCEPT ![w] = NoEdge]

\* The request is refused later on, or lost.
DropEdge(w) ==
  /\ edge[w] # NoEdge
  /\ edge' = [edge EXCEPT ![w] = NoEdge]
  /\ UNCHANGED <<standing, eligible, manager>>

\* A user created without a manager, by hand, from a file or for onboarding.
CreateUser(u) ==
  /\ ~Exists(u) /\ \A w \in Writers : edge[w].user # u
  /\ standing' = [standing EXCEPT ![u] = "pending"]
  /\ \E e \in BOOLEAN : eligible' = [eligible EXCEPT ![u] = e]
  /\ UNCHANGED <<manager, edge>>

\* set_account_status, and the activation or exit of an employee.
SetAccount(u) ==
  /\ Exists(u)
  /\ \E status \in {"active", "deactivated"} :
       /\ u = Head => status = "active"
       /\ standing' = [standing EXCEPT ![u] = status]
  /\ UNCHANGED <<eligible, manager, edge>>

\* assign_user_type.
AssignType(u) ==
  /\ Exists(u) /\ u # Head
  /\ \E e \in BOOLEAN : eligible' = [eligible EXCEPT ![u] = e]
  /\ UNCHANGED <<standing, manager, edge>>

HierarchyNext ==
  \/ \E w \in Writers, u \in People, m \in People \cup {Nobody} : Prepare(w, u, m)
  \/ \E w \in Writers : CommitEdge(w) \/ DropEdge(w)
  \/ \E u \in People : CreateUser(u) \/ SetAccount(u) \/ AssignType(u)

HierarchySpec == HierarchyInit /\ [][HierarchyNext]_hierarchyVars

-----------------------------------------------------------------------------
\* However many requests change managers at the same time, the reports form a
\* forest: in every group of users somebody reports to none of them
\* (prepare_reporting_manager_change; the tree of hierarchy_service.py and the
\* visibility of managers rely on it).
ReportsAcyclic ==
  \A S \in SUBSET People : S # {} => \E u \in S : manager[u] \notin S
=============================================================================
