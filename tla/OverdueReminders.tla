--------------------------- MODULE OverdueReminders ---------------------------
(***************************************************************************)
(* The daily reminders of overdue case stages (case_operations/overdue.py    *)
(* and scheduler.py): every API process runs a cycle every five minutes,     *)
(* which sends what no dispatch row of the day records yet, in one           *)
(* transaction.                                                              *)
(*                                                                           *)
(* Concurrency.  The look-up locks nothing.  The insert of a notification    *)
(* that another process is inserting waits for it: when that one commits,    *)
(* the notification is found but the plain insert of the dispatch row fails, *)
(* and the whole cycle with it.  Cycles that wait for each other are broken  *)
(* by the database.  A cycle that fails is logged and tried again.           *)
(***************************************************************************)
CONSTANTS
  Processes,   \* API processes
  Reliable,    \* those that are not stopped for good
  Reminders,   \* [occupancy, recipient] pairs of one day
  Nothing

VARIABLES
  stage,       \* stage[r]: "running", "overdue" or "left" the stage of reminder r
  sent,        \* reminders with a committed dispatch row and notification
  cycle        \* cycle[p]: the polling task of process p

vars == <<stage, sent, cycle>>

\* Cycle.  todo: overdue when the cycle scanned, not yet looked at; next: found unsent,
\* about to be inserted; wrote: inserted, not committed.
Cycle == [at: {"asleep", "running", "stopped"}, todo: SUBSET Reminders,
          next: Reminders \cup {Nothing}, wrote: SUBSET Reminders]

Without(at) == [at |-> at, todo |-> {}, next |-> Nothing, wrote |-> {}]

TypeOK ==
  /\ stage \in [Reminders -> {"running", "overdue", "left"}]
  /\ sent \subseteq Reminders
  /\ cycle \in [Processes -> Cycle]

Init ==
  /\ stage = [r \in Reminders |-> "running"]
  /\ sent = {}
  /\ cycle = [p \in Processes |-> Without("asleep")]

-----------------------------------------------------------------------------
Running(p) == cycle[p].at = "running"
Wants(p) == Running(p) /\ cycle[p].next # Nothing

\* Whose uncommitted row the insert of p waits for.
WaitsFor(p, q) ==
  /\ p # q /\ Wants(p) /\ Running(q)
  /\ cycle[p].next \in cycle[q].wrote

\* The scan of the stages that are past their timeframe.
StartCycle(p) ==
  /\ cycle[p].at = "asleep"
  /\ cycle' = [cycle EXCEPT ![p].at = "running",
                            ![p].todo = {r \in Reminders : stage[r] = "overdue"}]
  /\ UNCHANGED <<stage, sent>>

\* The look-up of the dispatch row of the day.
LookUp(p, r) ==
  /\ Running(p) /\ ~Wants(p) /\ r \in cycle[p].todo
  /\ cycle' = [cycle EXCEPT ![p].todo = @ \ {r},
                            ![p].next = IF r \in sent THEN Nothing ELSE r]
  /\ UNCHANGED <<stage, sent>>

\* _persist_notification and the dispatch row.
Insert(p) ==
  /\ Wants(p) /\ \A q \in Processes : ~WaitsFor(p, q)
  /\ cycle[p].next \notin sent
  /\ cycle' = [cycle EXCEPT ![p].wrote = @ \cup {cycle[p].next}, ![p].next = Nothing]
  /\ UNCHANGED <<stage, sent>>

\* Mutant: an exception ends the task of the process.
DuplicateEndsTask(p) ==
  /\ Wants(p) /\ cycle[p].next \in sent
  /\ cycle' = [cycle EXCEPT ![p] = Without("stopped")]
  /\ UNCHANGED <<stage, sent>>

\* The dispatch row is there already: the cycle rolls back and is logged.
Duplicate(p) ==
  /\ Wants(p) /\ cycle[p].next \in sent
  /\ cycle' = [cycle EXCEPT ![p] = Without("asleep")]
  /\ UNCHANGED <<stage, sent>>

CommitCycle(p) ==
  /\ Running(p) /\ ~Wants(p) /\ cycle[p].todo = {}
  /\ sent' = sent \cup cycle[p].wrote
  /\ cycle' = [cycle EXCEPT ![p] = Without("asleep")]
  /\ UNCHANGED stage

\* The database ends one of two inserts that wait for each other.
BreakDeadlock(p) ==
  /\ \E q \in Processes : WaitsFor(p, q) /\ WaitsFor(q, p)
  /\ cycle' = [cycle EXCEPT ![p] = Without("asleep")]
  /\ UNCHANGED <<stage, sent>>

\* The process is stopped: its transaction rolls back.
Stop(p) ==
  /\ p \notin Reliable /\ cycle[p].at # "stopped"
  /\ cycle' = [cycle EXCEPT ![p] = Without("stopped")]
  /\ UNCHANGED <<stage, sent>>

\* The stage runs past its timeframe; the case moves on or ends.
Expire(r) ==
  /\ stage[r] = "running"
  /\ stage' = [stage EXCEPT ![r] = "overdue"]
  /\ UNCHANGED <<sent, cycle>>

MoveOn(r) ==
  /\ stage[r] # "left"
  /\ stage' = [stage EXCEPT ![r] = "left"]
  /\ UNCHANGED <<sent, cycle>>

\* A transaction runs on, or its process is stopped.
TransactionStep(p) ==
  \/ \E r \in Reminders : LookUp(p, r)
  \/ Insert(p)
  \/ Duplicate(p)
  \/ CommitCycle(p)
  \/ BreakDeadlock(p)
  \/ Stop(p)

Next ==
  \/ \E p \in Processes : StartCycle(p) \/ TransactionStep(p)
  \/ \E r \in Reminders : Expire(r) \/ MoveOn(r)

Spec == Init /\ [][Next]_vars

\* No transaction stays open, a row that is waited for is given in the order of
\* the queue, and a process that is not stopped keeps polling.
FairSpec ==
  /\ Spec
  /\ \A p \in Processes :
       /\ WF_vars(TransactionStep(p))
       /\ \A r \in Reminders : SF_vars(cycle[p].next = r /\ Insert(p))
  /\ \A p \in Reliable : WF_vars(StartCycle(p))

-----------------------------------------------------------------------------
\* Every stage that is overdue is reminded of, or the case has moved on, although
\* a reminder sent by another process fails the whole cycle and processes stop
\* (dispatch_overdue_notifications, scheduler.run).
OverdueReminded ==
  \A r \in Reminders : stage[r] = "overdue" ~> r \in sent \/ stage[r] = "left"
=============================================================================
