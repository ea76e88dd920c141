------------------------------- MODULE MCStaff --------------------------------
(***************************************************************************)
(* Small instances of the components about the staff of the company, side by *)
(* side: transfers, who reports to whom, emails and codes, and decisions in  *)
(* the Approval Centre.  A behaviour is one component's alone and focus,     *)
(* which never changes, says whose.                                          *)
(***************************************************************************)
EXTENDS EmployeeTransfers, Hierarchy, Identities, Approvals, TLC

VARIABLE focus

CONSTANTS x1, x2, x3, y1, y2, mgr, hr, own

McGrant ==
  [p \in {mgr, hr, own} |->
     CASE p = mgr -> {"manage", "cancel", "return"}
       [] p = hr  -> {"hr", "cancel", "review", "return"}
       [] OTHER   -> {}]

\* The components share the values that stand for what is interchangeable in each.
StaffSymmetry == Permutations({x1, x2, x3}) \cup Permutations({y1, y2})

\* The components that are not in focus stay in one initial state.
StaffInit ==
  /\ focus \in {"transfers", "hierarchy", "identities", "approvals"}
  /\ Init /\ place = (CHOOSE p \in Places : TRUE)
  /\ HierarchyInit /\ IdentitiesInit /\ ApprovalInit
  /\ focus # "approvals" => kind = "Leave" /\ requester = Subject /\ boss = Empty

StaffNext ==
  \/ focus = "transfers" /\ Next
     /\ UNCHANGED <<focus, hierarchyVars, identitiesVars, approvalVars>>
  \/ focus = "hierarchy" /\ HierarchyNext
     /\ UNCHANGED <<focus, vars, identitiesVars, approvalVars>>
  \/ focus = "identities" /\ IdentitiesNext
     /\ UNCHANGED <<focus, vars, hierarchyVars, approvalVars>>
  \/ focus = "approvals" /\ ApprovalNext
     /\ UNCHANGED <<focus, vars, hierarchyVars, identitiesVars>>

StaffSpec ==
  StaffInit
  /\ [][StaffNext]_<<focus, vars, hierarchyVars, identitiesVars, approvalVars>>
=============================================================================
