------------------------------ MODULE MCMasters -------------------------------
(***************************************************************************)
(* Small instances of the components that hold masters and documents, side   *)
(* by side: the organisation, the contracts of an employee, the holiday      *)
(* reminders, the notification rules, and the documents of an employee; and  *)
(* beside them a case under requests that do not overlap.  A behaviour is    *)
(* one component's alone and focus, which never changes, says whose.         *)
(***************************************************************************)
EXTENDS MCCaseLifecycle, Organisation, Contracts, Notifications, EmployeeDocuments, TLC

VARIABLE focus

CONSTANTS x1, x2, y1, y2

\* The components share the values that stand for what is interchangeable in each.
MastersSymmetry == Permutations({x1, x2}) \cup Permutations({y1, y2})

\* The components that are not in focus stay in one initial state; departments
\* are interchangeable, so the first may be the one there is.
MastersInit ==
  /\ focus \in {"organisation", "contracts", "reminders", "rules", "documents", "case"}
  /\ OrganisationInit /\ master[x1] = "active"
  /\ focus # "organisation" => \A t \in Squads : squadDept[t] = Vacant
  /\ ContractsInit
  /\ focus # "contracts" =>
       contract[FirstContract] = "Active" /\ author[FirstContract] \notin Signers
  /\ NotificationsInit /\ DocumentsInit
  /\ Init /\ (focus # "case" =>
                app.workflow = w1 /\ app.product = "CC" /\ app.owner = se /\ review.status = "legacy")

MastersNext ==
  \/ focus = "organisation" /\ OrganisationNext
     /\ UNCHANGED <<focus, contractsVars, notificationsVars, documentVars, vars>>
  \/ focus = "contracts" /\ ContractsNext
     /\ UNCHANGED <<focus, organisationVars, notificationsVars, documentVars, vars>>
  \/ focus = "reminders" /\ ReminderNext
     /\ UNCHANGED <<focus, organisationVars, contractsVars, documentVars, vars>>
  \/ focus = "rules" /\ RuleNext
     /\ UNCHANGED <<focus, organisationVars, contractsVars, documentVars, vars>>
  \/ focus = "documents" /\ DocumentsNext
     /\ UNCHANGED <<focus, organisationVars, contractsVars, notificationsVars, vars>>
  \/ focus = "case" /\ SerialNext
     /\ UNCHANGED <<focus, organisationVars, contractsVars, notificationsVars, documentVars>>

MastersSpec ==
  MastersInit
    /\ [][MastersNext]_<<focus, organisationVars, contractsVars, notificationsVars,
                        documentVars, vars>>
=============================================================================
