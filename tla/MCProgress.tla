------------------------------ MODULE MCProgress ------------------------------
(***************************************************************************)
(* Small instances of the components that must make progress, side by side:  *)
(* they share no row, so a behaviour is one component's alone and focus,     *)
(* which never changes, says whose.                                          *)
(*                                                                           *)
(*  - Clawback: three sessions and three requests on an earning of 2: two    *)
(*    requests of one half each can be approved, and a third finds nothing;  *)
(*  - EmployeeTransfers: one transfer and two executors, one of which may    *)
(*    stop;                                                                  *)
(*  - OverdueReminders: the same two processes and the reminders of a day.   *)
(***************************************************************************)
EXTENDS Clawback, EmployeeTransfers

CONSTANT Reminders

VARIABLES focus, stage, sent, cycle

Overdue == INSTANCE OverdueReminders WITH Processes <- Executors, Nothing <- None

overdueVars == <<stage, sent, cycle>>
progressVars == <<focus, clawbackVars, vars, overdueVars>>

\* The steps of each component while it is the one in focus.
ClawbackOnly(A) == focus = "clawback" /\ A /\ UNCHANGED <<focus, vars, overdueVars>>
TransferOnly(A) == focus = "transfer" /\ A /\ UNCHANGED <<focus, clawbackVars, overdueVars>>
OverdueOnly(A) == focus = "overdue" /\ A /\ UNCHANGED <<focus, clawbackVars, vars>>

ProgressInit ==
  /\ focus \in {"clawback", "transfer", "overdue"}
  /\ ClawbackInit
  /\ Init /\ (focus # "transfer" => place = CHOOSE p \in Places : TRUE)
  /\ Overdue!Init

ProgressNext ==
  \/ ClawbackOnly(ClawbackNext)
  \/ TransferOnly(Next)
  \/ OverdueOnly(Overdue!Next)

\* The fairness of ClawbackFairSpec, FairSpec and Overdue!FairSpec.
ProgressSpec ==
  /\ ProgressInit /\ [][ProgressNext]_progressVars
  /\ \A s \in Sessions : SF_progressVars(ClawbackOnly(Step(s)))
  /\ WF_progressVars(ClawbackOnly(BreakDeadlock))
  /\ WF_progressVars(TransferOnly(Finish \/ Rollback))
  /\ \A x \in Reliable : SF_progressVars(TransferOnly(ExecutorStep(x)))
  /\ \A x \in Executors :
       /\ WF_progressVars(OverdueOnly(Overdue!TransactionStep(x)))
       /\ \A r \in Reminders :
            SF_progressVars(OverdueOnly(cycle[x].next = r /\ Overdue!Insert(x)))
  /\ \A x \in Reliable : WF_progressVars(OverdueOnly(Overdue!StartCycle(x)))

\* (OverdueReminders.)
OverdueReminded == Overdue!OverdueReminded
=============================================================================
