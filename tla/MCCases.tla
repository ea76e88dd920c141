------------------------------- MODULE MCCases --------------------------------
(***************************************************************************)
(* A case under the stale copies of a GM's requests; side by side with it    *)
(* the intake of customers and cases, and the days of an employee in the     *)
(* roster.  focus, which never changes, says which of the three a behaviour  *)
(* is.                                                                       *)
(***************************************************************************)
EXTENDS MCCaseLifecycle, Intake, Workdays, TLC

VARIABLE focus

McLeaveSpans == {[days |-> {1, 2}, half |-> FALSE], [days |-> {1}, half |-> TRUE]}

CasesSymmetry == Permutations(Counters)

\* The components that are not in focus stay in one initial state.
CasesInit ==
  /\ \/ focus = "overlap" /\ Init
     \/ focus \in {"intake", "workdays"} /\ Init /\ app.workflow = w1 /\ app.product = "CC"
          /\ review.status = "legacy"
  /\ IntakeInit
  /\ WorkdayInit
  /\ focus # "workdays" => week = {} /\ site = CHOOSE o \in Sites : TRUE

CasesNext ==
  \/ focus = "overlap" /\ Next /\ UNCHANGED <<focus, intakeVars, workdayVars>>
  \/ focus = "intake" /\ IntakeNext /\ UNCHANGED <<focus, vars, workdayVars>>
  \/ focus = "workdays" /\ WorkdayNext /\ UNCHANGED <<focus, vars, intakeVars>>

CasesSpec == CasesInit /\ [][CasesNext]_<<focus, vars, intakeVars, workdayVars>>
=============================================================================
