------------------------------ MODULE Approvals ------------------------------
(***************************************************************************)
(* The Approval Centre (approvals/service.py): decisions on a leave request, *)
(* a contract, a transfer or an exit, offered by one set of rules and carried  *)
(* out by the service of the module, which has its own.                      *)
(*                                                                           *)
(* decide looks the row up without a lock, offers what actions offers, takes *)
(* row and employee out of the session and calls the service, which locks    *)
(* the row and decides anew: two steps, Choose and Carry, with the row and   *)
(* the employee's manager moving in between.  The services are modelled in   *)
(* Leave, Contracts, EmployeeTransfers and Exits; here one row stands for    *)
(* any of them, with the rules on who may decide what and when.  What else a *)
(* service may refuse for (balance, evidence, clearance, dates) is Refuse.   *)
(***************************************************************************)
EXTENDS Integers

CONSTANTS
  RowKinds,         \* modules of the row: any of Leave, Contracts, Transfers, Exit
  Subject,       \* the employee the row is about
  Deciders,      \* users who may see and decide; all in scope
  Proprietors,   \* deciders of type OWNER: they hold every permission
  Grant,         \* Grant[p]: permissions of the other deciders
  Requesters,    \* who may have requested it
  Empty

VARIABLES
  kind,          \* module of the row
  requester,     \* who requested (a contract: created) it
  row,           \* status and cancellation consent
  boss,          \* the employee's reporting_manager_id
  choice         \* choice[p]: the decision p has under way

approvalVars == <<kind, requester, row, boss, choice>>

Rights == {"manage", "hr", "cancel", "review", "approve", "return"}

Decision == {"approve", "reject", "return", "override"}

\* Statuses the rows of a module go through on their way to an end.
Stages(k) ==
  CASE k = "Leave"     -> {"Draft", "Submitted", "ManagerApproved", "HRApproved",
                           "Returned", "CancellationPending", "Rejected", "Cancelled"}
    [] k = "Contracts" -> {"Draft", "PendingApproval", "Active", "Cancelled"}
    [] k = "Transfers" -> {"Draft", "Submitted", "Reviewed", "Approved", "Returned",
                           "Rejected", "Cancelled"}
    [] OTHER           -> {"Draft", "Submitted", "NoticePeriod", "ClearanceInProgress",
                           "ReadyToClose", "Completed", "Cancelled"}

\* current: the row still has the lock_version the client named, which every write of
\* it counts up.
Choice == [action: Decision, status: UNION {Stages(k) : k \in RowKinds}, current: BOOLEAN]

ASSUME ApprovalAssumption ==
  /\ RowKinds \subseteq {"Leave", "Contracts", "Transfers", "Exit"}
  /\ Proprietors \subseteq Deciders
  /\ Grant \in [Deciders -> SUBSET Rights]
  /\ Requesters \subseteq Deciders \cup {Subject}
  /\ Empty \notin Deciders \cup {Subject} \cup Choice

ApprovalTypeOK ==
  /\ kind \in RowKinds
  /\ requester \in Requesters
  /\ row \in [status: Stages(kind), consent: BOOLEAN]
  /\ boss \in Deciders \cup {Empty}
  /\ choice \in [Deciders -> Choice \cup {Empty}]

ApprovalInit ==
  /\ kind \in RowKinds
  /\ requester \in Requesters
  /\ row = [status |-> "Draft", consent |-> FALSE]
  /\ boss \in Deciders \cup {Empty}
  /\ choice = [p \in Deciders |-> Empty]

-----------------------------------------------------------------------------
Proprietor(p) == p \in Proprietors
May(p, right) == Proprietor(p) \/ right \in Grant[p]
Hr(p) == May(p, "hr")

\* actions, by module: what the Approval Centre offers p.
LeaveOffers(p) ==
  LET manages == boss = p /\ May(p, "manage")
      pending == row.status \in {"Submitted", "ManagerApproved"}
  IN  IF row.status = "CancellationPending"
      THEN {a \in {"approve"} :
              /\ May(p, "cancel")
              /\ \/ Proprietor(p)
                 \/ Hr(p) /\ (boss = Empty \/ row.consent)
                 \/ manages /\ ~Hr(p) /\ ~row.consent}
           \cup {a \in {"reject"} : May(p, "cancel") /\ Hr(p)}
      ELSE {a \in {"approve"} : \/ row.status = "Submitted" /\ manages
                                \/ row.status = "ManagerApproved" /\ Hr(p)}
           \cup {a \in {"reject", "return"} : pending /\ May(p, "return")
                                              /\ (manages \/ Hr(p))}
           \cup {a \in {"override"} : Proprietor(p)
                   /\ (pending \/ row.status \in {"Draft", "Returned"})}

ContractOffers(p) ==
  {a \in {"approve", "reject", "return"} :
     /\ row.status = "PendingApproval"
     /\ IF a = "approve" THEN Proprietor(p) ELSE May(p, "return")}

TransferOffers(p) ==
  {a \in {"approve"} : \/ row.status = "Submitted" /\ May(p, "review")
                       \/ row.status = "Reviewed" /\ Proprietor(p)}
  \cup {a \in {"reject", "return"} : row.status \in {"Submitted", "Reviewed"}
                                     /\ May(p, "return")}

ExitOffers(p) ==
  {a \in {"approve"} : \/ row.status = "Submitted" /\ May(p, "review")
                       \/ row.status = "ReadyToClose" /\ Proprietor(p)}
  \cup {a \in {"reject", "return"} : row.status = "Submitted" /\ May(p, "return")}

\* visible: a leave request to HR, the OWNER and the manager.
Visible(p) == kind = "Leave" => Hr(p) \/ (boss = p /\ May(p, "manage"))

Offered(p) ==
  IF ~Visible(p) \/ p \in {Subject, requester} THEN {}
  ELSE CASE kind = "Leave" -> LeaveOffers(p)
         [] kind = "Contracts" -> ContractOffers(p)
         [] kind = "Transfers" -> TransferOffers(p)
         [] OTHER -> ExitOffers(p)

-----------------------------------------------------------------------------
(* The services: which call decide makes for a decision on a row it saw in    *)
(* status seen, and whether it is accepted.                                   *)

\* Mutant: the manager's step trusts what the Approval Centre has checked.
LeaveAcceptsChecked(p, a, seen) ==
  /\ p # Subject
  /\ IF seen = "CancellationPending"
     THEN row.status = seen
     ELSE \/ a \in {"reject", "return"} /\ row.status \in {"Submitted", "ManagerApproved"}
          \/ /\ a = "override" /\ Proprietor(p)
             /\ row.status \in {"Draft", "Submitted", "ManagerApproved", "Returned"}
          \/ /\ a = "approve"
             /\ row.status = IF seen = "Submitted" THEN seen ELSE "ManagerApproved"

LeaveAccepts(p, a, seen) ==
  /\ p # Subject
  /\ Hr(p) \/ boss = p
  /\ IF seen = "CancellationPending"
     THEN /\ row.status = seen
          /\ IF a = "approve" /\ boss = p /\ ~Hr(p) THEN ~row.consent
             ELSE Hr(p) /\ (a = "approve" /\ ~Proprietor(p) /\ boss # Empty => row.consent)
     ELSE \/ a \in {"reject", "return"} /\ row.status \in {"Submitted", "ManagerApproved"}
          \/ /\ a = "override" /\ Proprietor(p)
             /\ row.status \in {"Draft", "Submitted", "ManagerApproved", "Returned"}
          \/ a = "approve" /\ seen = "Submitted" /\ row.status = seen /\ boss = p
          \/ a = "approve" /\ seen # "Submitted" /\ row.status = "ManagerApproved"

ContractAccepts(p, a) ==
  /\ row.status = "PendingApproval" /\ p \notin {Subject, requester}
  /\ a # "override" /\ (a = "approve" => Proprietor(p))

TransferAccepts(p, a, seen) ==
  /\ p \notin {Subject, requester}
  /\ \/ a \in {"reject", "return"} /\ row.status \in {"Submitted", "Reviewed"} /\ May(p, "return")
     \/ a = "approve" /\ seen = "Submitted" /\ row.status = seen /\ May(p, "review")
     \/ a = "approve" /\ seen # "Submitted" /\ row.status = "Reviewed" /\ Proprietor(p)

ExitAccepts(p, a, seen) ==
  /\ p \notin {Subject, requester}
  /\ \/ a \in {"reject", "return"} /\ row.status = "Submitted" /\ May(p, "return")
     \/ a = "approve" /\ seen = "Submitted" /\ row.status = seen /\ May(p, "review")
     \/ a = "approve" /\ seen # "Submitted" /\ row.status = "ReadyToClose" /\ Proprietor(p)

Accepts(p, a, seen) ==
  CASE kind = "Leave" -> LeaveAccepts(p, a, seen)
    [] kind = "Contracts" -> ContractAccepts(p, a)
    [] kind = "Transfers" -> TransferAccepts(p, a, seen)
    [] OTHER -> ExitAccepts(p, a, seen)

\* The status the services give the row for decision a of p.
Decided(p, a) ==
  IF kind = "Leave" /\ row.status = "CancellationPending"
  THEN IF a = "reject" THEN "HRApproved" ELSE IF Hr(p) THEN "Cancelled" ELSE row.status
  ELSE CASE a = "reject"   -> IF kind \in {"Leave", "Transfers"} THEN "Rejected" ELSE "Cancelled"
         [] a = "return"   -> IF kind \in {"Leave", "Transfers"} THEN "Returned" ELSE "Draft"
         [] a = "override" -> "HRApproved"
         [] a = "approve" /\ kind = "Leave" ->
              IF row.status = "ManagerApproved" THEN "HRApproved" ELSE "ManagerApproved"
         [] a = "approve" /\ kind = "Contracts" -> "Active"
         [] a = "approve" /\ kind = "Transfers" ->
              IF row.status = "Submitted" THEN "Reviewed" ELSE "Approved"
         [] OTHER -> IF row.status = "Submitted" THEN "NoticePeriod" ELSE "Completed"

\* The row after decision a of p: consent is kept while a cancellation waits for HR.
AfterDecision(p, a) ==
  [status |-> Decided(p, a),
   consent |-> row.status = "CancellationPending" /\ Decided(p, a) = row.status]

\* A write of the row outdates what was chosen on it; its own ends the choice of p.
Outdate == [q \in Deciders |-> IF choice[q] = Empty THEN Empty
                                ELSE [choice[q] EXCEPT !.current = FALSE]]

-----------------------------------------------------------------------------
\* decide, up to the call of the service.
Choose(p, a) ==
  /\ choice[p] = Empty
  /\ a \in Offered(p)
  /\ choice' = [choice EXCEPT ![p] = [action |-> a, status |-> row.status,
                                      current |-> TRUE]]
  /\ UNCHANGED <<kind, requester, row, boss>>

\* The service locks the row, loads the employee again and decides.
Carry(p) ==
  /\ choice[p] # Empty
  /\ choice[p].current
  /\ Accepts(p, choice[p].action, choice[p].status)
  /\ row' = AfterDecision(p, choice[p].action)
  /\ choice' = [Outdate EXCEPT ![p] = Empty]
  /\ UNCHANGED <<kind, requester, boss>>

\* A conflict, a missing prerequisite or a lost request.
Refuse(p) ==
  /\ choice[p] # Empty
  /\ choice' = [choice EXCEPT ![p] = Empty]
  /\ UNCHANGED <<kind, requester, row, boss>>

\* The modules' own pages: what their services do that is no decision, an edit or a
\* new attachment included.
Successors ==
  CASE row.status \in {"Draft", "Returned"} ->
         {IF kind = "Contracts" THEN "PendingApproval" ELSE "Submitted", "Cancelled"}
    [] row.status = "HRApproved"          -> {"CancellationPending"}
    [] row.status = "NoticePeriod"        -> {"ClearanceInProgress", "Cancelled"}
    [] row.status = "ClearanceInProgress" -> {"ReadyToClose", "Cancelled"}
    [] row.status = "Completed"           -> {"ClearanceInProgress"}
    [] row.status \in {"Cancelled", "Rejected", "Active", "CancellationPending"} -> {}
    [] OTHER                                -> {row.status, "Cancelled"}

MoveOn ==
  /\ \E status \in Successors : row' = [status |-> status, consent |-> FALSE]
  /\ choice' = Outdate
  /\ UNCHANGED <<kind, requester, boss>>

\* A decision on the module's page, whose route asks for HR's permission itself.
DecideThere(p, a) ==
  /\ Accepts(p, a, row.status)
  /\ a = "approve" /\ row.status = "ManagerApproved" => Hr(p)
  /\ row' = AfterDecision(p, a)
  /\ choice' = Outdate
  /\ UNCHANGED <<kind, requester, boss>>

\* An edit or a transfer of the employee.
ChangeBoss(m) ==
  /\ boss' = m
  /\ UNCHANGED <<kind, requester, row, choice>>

ApprovalNext ==
  \/ \E p \in Deciders :
       \/ \E a \in Decision : Choose(p, a) \/ DecideThere(p, a)
       \/ Carry(p)
       \/ Refuse(p)
  \/ MoveOn
  \/ \E m \in Deciders \cup {Empty} : ChangeBoss(m)

ApprovalSpec == ApprovalInit /\ [][ApprovalNext]_approvalVars

-----------------------------------------------------------------------------
(* Properties *)

\* What somebody decides in the Approval Centre is what he saw: the row moves from the
\* status he was shown to the one his decision announces there, by somebody who is neither
\* the employee nor the requester and, for the manager's step of a leave, is the manager
\* at that moment, whatever moved between the first look and the service's lock (decide).
\* And nothing is offered that the service would refuse to that person in that state
\* (actions against transition, decide, decide_cancellation and their like).
DecidedRightly ==
  \A p \in Deciders :
    /\ \A a \in Offered(p) : Accepts(p, a, row.status)
    /\ choice[p] # Empty /\ choice'[p] = Empty /\ row' # row =>
         /\ row.status = choice[p].status
         /\ row'.status = Decided(p, choice[p].action)
         /\ p \notin {Subject, requester}
         /\ kind = "Leave" /\ ~Hr(p) => boss = p

DecidedAsSeen == [][DecidedRightly]_approvalVars
=============================================================================
