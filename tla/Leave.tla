-------------------------------- MODULE Leave --------------------------------
(***************************************************************************)
(* Leave requests of one employee for one leave type (leave/service.py):     *)
(* drafting, submission, approval by the manager and by HR, decisions,       *)
(* cancellation with consent, and the balance they draw on.                  *)
(*                                                                           *)
(* Concurrency.  Every handler locks the row of its request before it reads  *)
(* it, so a handler on one request is one step.  A submission also reads the *)
(* other requests and the balance, and locks neither: it is two steps,       *)
(* ValidateLeave and CommitLeave, with the other requests moving in between. *)
(* submission[r] is that window.  Days are counted in halves.                *)
(***************************************************************************)
EXTENDS Integers, FiniteSets, FiniteSetsExt

CONSTANTS
  Leaves,         \* identities of requests
  Employee,       \* the employee on leave
  Colleagues,     \* the other users
  LeaveManagers,  \* colleagues who may be the employee's manager
  LeaveHR,        \* users with LEAVE_APPROVE_HR
  LeaveOwners,    \* users of type OWNER
  LeaveEditors,   \* users with LEAVE_EDIT and LEAVE_CREATE_FOR_EMPLOYEE
  Spans,          \* the [days, half] an employee may ask for
  WorkingDays,    \* days that are neither off nor holidays
  AttachmentRequired,  \* of the leave type
  Grants,         \* values of entitlement plus adjustments, in halves of a day
  Null

VARIABLES
  leave,          \* leave[r]: the row of request r, and the actors of its events
  submission,     \* submission[r]: Null, or the validated submission of r
  manager,        \* the employee's reporting_manager_id
  granted         \* entitlement of the leave type plus adjustments

leaveVars == <<leave, submission, manager, granted>>

LeaveUsers == Colleagues \cup {Employee}

ASSUME LeaveAssumption ==
  /\ Null \notin LeaveUsers /\ Employee \notin Colleagues
  /\ LeaveHR \cup LeaveOwners \cup LeaveEditors \subseteq LeaveUsers
  /\ LeaveManagers \subseteq Colleagues
  /\ AttachmentRequired \in BOOLEAN
  /\ Grants \subseteq Int
  /\ IsFiniteSet(Leaves) /\ Spans # {}
  /\ \A s \in Spans : s.days # {} /\ IsFiniteSet(s.days) /\ (s.half => Cardinality(s.days) = 1)

ActiveBalance ==
  {"Submitted", "ManagerApproved", "HRApproved", "CancellationPending", "Completed"}
ApprovedLeave == {"HRApproved", "CancellationPending", "Completed"}
OpenLeave == {"Draft", "Submitted", "ManagerApproved", "Returned"}

LeaveStatus ==
  {"Absent", "Rejected", "Cancelled"} \cup OpenLeave \cup ActiveBalance

\* Columns, and the actors of the events since the last submission or
\* cancellation: endorsed (manager-approve), granted (hr-approve or
\* owner-override), consented (cancellation-manager-approve), of which the row
\* keeps consent.  reviewed is the span the approvers saw.
Leave == [status: LeaveStatus, span: Spans, exception: BOOLEAN, attached: BOOLEAN,
          consent: BOOLEAN, endorsed: LeaveUsers \cup {Null},
          granted: LeaveUsers \cup {Null}, consented: LeaveUsers \cup {Null},
          reviewed: Spans \cup {Null}]

\* exception: the OWNER's reason that lets an invalid one through; raced: another
\* request or a change of the balance was committed after the validation.
Submission == [exception: BOOLEAN, raced: BOOLEAN]

LeaveTypeOK ==
  /\ leave \in [Leaves -> Leave]
  /\ submission \in [Leaves -> Submission \cup {Null}]
  /\ manager \in LeaveManagers \cup {Null}
  /\ granted \in Grants

BlankLeave == [status |-> "Absent", span |-> CHOOSE s \in Spans : TRUE, exception |-> FALSE,
               attached |-> FALSE, consent |-> FALSE, endorsed |-> Null,
               granted |-> Null, consented |-> Null, reviewed |-> Null]

LeaveInit ==
  /\ leave = [r \in Leaves |-> BlankLeave]
  /\ submission = [r \in Leaves |-> Null]
  /\ manager \in LeaveManagers \cup {Null}
  /\ granted \in Grants

-----------------------------------------------------------------------------
Units(span) ==
  IF span.half THEN 1 ELSE 2 * Cardinality(span.days \cap WorkingDays)

\* The range of dates, whatever half of a day is taken.
SameDays(s, t) == s.days \cap t.days # {}

\* Mutant: a leave whose cancellation is pending does not count.
OverlapIgnoringPending(r) ==
  \E q \in Leaves \ {r} :
    /\ leave[q].status \in ActiveBalance \ {"CancellationPending"}
    /\ SameDays(leave[q].span, leave[r].span)

Overlap(r) ==
  \E q \in Leaves \ {r} :
    /\ leave[q].status \in ActiveBalance
    /\ SameDays(leave[q].span, leave[r].span)

\* used and pending of _balance.
Booked == {q \in Leaves : leave[q].status \in ActiveBalance}
UnitsOf(rows, these) == MapThenSumSet(LAMBDA q : Units(rows[q].span), these)
Available == granted - UnitsOf(leave, Booked)

Submitting(r) == submission[r] # Null

\* _can_view_request.
SeesLeave(p) == p \in LeaveHR \cup LeaveOwners \cup {Employee, manager}

\* What a commit is to the submissions validated before it.
Overtake(r) ==
  [q \in Leaves |-> IF q # r /\ submission[q] # Null
                      THEN [submission[q] EXCEPT !.raced = TRUE]
                      ELSE IF q = r THEN Null ELSE submission[q]]

\* A row whose approvals no longer count.
Ended(row, status) ==
  [row EXCEPT !.status = status, !.endorsed = Null, !.granted = Null,
              !.consented = Null, !.reviewed = Null]

\* A handler on r that changes only its row.
WriteLeave(r, row) ==
  /\ leave' = [leave EXCEPT ![r] = row]
  /\ UNCHANGED <<submission, manager, granted>>

-----------------------------------------------------------------------------
\* create_request: by the employee or for him; with submit, validation and commit
\* follow in the same transaction.  The exception reason is stored whether it is
\* needed or not.
CreateLeave(r, p, span, exception) ==
  /\ leave[r].status = "Absent"
  /\ p \in {Employee} \cup LeaveEditors
  /\ Units(span) > 0
  /\ WriteLeave(r, [BlankLeave EXCEPT !.status = "Draft", !.span = span, !.exception = exception])

\* update_request.
UpdateLeave(r, p, span) ==
  /\ ~Submitting(r) /\ SeesLeave(p)
  /\ leave[r].status \in {"Draft", "Returned"}
  /\ p \in {Employee} \cup LeaveEditors
  /\ Units(span) > 0
  /\ WriteLeave(r, [leave[r] EXCEPT !.status = "Draft", !.span = span])

\* upload_attachment.
UploadAttachment(r, p) ==
  /\ ~Submitting(r) /\ SeesLeave(p)
  /\ leave[r].status \in {"Draft", "Returned"}
  /\ p \in {Employee} \cup LeaveEditors
  /\ WriteLeave(r, [leave[r] EXCEPT !.attached = TRUE])

\* _validate_submission, from transition "submit" or at the end of create_request.
ValidateLeave(r, p, exception) ==
  /\ ~Submitting(r) /\ SeesLeave(p)
  /\ leave[r].status \in {"Draft", "Returned"}
  /\ p \in {Employee} \cup LeaveEditors
  /\ AttachmentRequired => leave[r].attached
  /\ LET invalid == Overlap(r) \/ Available < Units(leave[r].span)
     IN  /\ invalid => p \in LeaveOwners /\ exception
         /\ submission' = [submission EXCEPT ![r] = [exception |-> invalid, raced |-> FALSE]]
  /\ UNCHANGED <<leave, manager, granted>>

\* The commit of a submission.
CommitLeave(r) ==
  /\ Submitting(r)
  /\ leave' = [leave EXCEPT ![r].status = "Submitted",
                                ![r].exception = @ \/ submission[r].exception,
                                ![r].endorsed = Null, ![r].granted = Null,
                                ![r].reviewed = leave[r].span]
  /\ submission' = Overtake(r)
  /\ UNCHANGED <<manager, granted>>

\* The request is refused later or lost.
FailLeave(r) ==
  /\ Submitting(r)
  /\ submission' = [submission EXCEPT ![r] = Null]
  /\ UNCHANGED <<leave, manager, granted>>

\* transition "manager-approve".
ManagerApprove(r, p) ==
  /\ ~Submitting(r)
  /\ p = manager /\ p # Employee
  /\ leave[r].status = "Submitted"
  /\ WriteLeave(r, [leave[r] EXCEPT !.status = "ManagerApproved", !.endorsed = p])

\* transition "hr-approve".
HRApprove(r, p) ==
  /\ ~Submitting(r) /\ SeesLeave(p)
  /\ p \in LeaveHR \ {Employee}
  /\ leave[r].status = "ManagerApproved"
  /\ WriteLeave(r, [leave[r] EXCEPT !.status = "HRApproved", !.granted = p])

\* transition "owner-override": no check of dates or balance.
OwnerOverride(r, p) ==
  /\ ~Submitting(r)
  /\ p \in LeaveOwners
  /\ leave[r].status \in OpenLeave
  /\ leave' = [leave EXCEPT ![r].status = "HRApproved", ![r].exception = TRUE,
                                ![r].granted = p, ![r].reviewed = leave[r].span]
  /\ submission' = Overtake(r)
  /\ UNCHANGED <<manager, granted>>

\* decide.
DecideLeave(r, p, status) ==
  /\ ~Submitting(r) /\ SeesLeave(p)
  /\ p \in (LeaveHR \cup LeaveOwners \cup {manager}) \ {Employee}
  /\ leave[r].status \in {"Submitted", "ManagerApproved"}
  /\ status \in {"Returned", "Rejected"}
  /\ WriteLeave(r, Ended(leave[r], status))

\* Mutant: the consent to an earlier attempt is kept.
CancelKeepingConsent(r, p) ==
  /\ ~Submitting(r) /\ SeesLeave(p)
  /\ p \in {Employee} \cup LeaveEditors \cup LeaveOwners
  /\ \/ /\ leave[r].status \in OpenLeave
        /\ WriteLeave(r, Ended(leave[r], "Cancelled"))
     \/ /\ leave[r].status \in ApprovedLeave
        /\ WriteLeave(r, [leave[r] EXCEPT !.status = "CancellationPending", !.consented = Null])

\* cancel_request: an approved leave needs a decision, and a consent anew.
CancelLeave(r, p) ==
  /\ ~Submitting(r) /\ SeesLeave(p)
  /\ p \in {Employee} \cup LeaveEditors \cup LeaveOwners
  /\ \/ /\ leave[r].status \in OpenLeave
        /\ WriteLeave(r, Ended(leave[r], "Cancelled"))
     \/ /\ leave[r].status \in ApprovedLeave
        /\ WriteLeave(r, [leave[r] EXCEPT !.status = "CancellationPending",
                                       !.consent = FALSE, !.consented = Null])

\* decide_cancellation by a manager who is nothing more.
Consent(r, p) ==
  /\ ~Submitting(r)
  /\ p = manager /\ p \notin LeaveHR \cup LeaveOwners \cup {Employee}
  /\ leave[r].status = "CancellationPending" /\ ~leave[r].consent
  /\ WriteLeave(r, [leave[r] EXCEPT !.consent = TRUE, !.consented = p])

\* decide_cancellation by HR or an OWNER.
ApproveCancellation(r, p) ==
  /\ ~Submitting(r)
  /\ p \in (LeaveHR \cup LeaveOwners) \ {Employee}
  /\ leave[r].status = "CancellationPending"
  /\ p \in LeaveOwners \/ manager = Null \/ leave[r].consent
  /\ WriteLeave(r, Ended(leave[r], "Cancelled"))

RejectCancellation(r, p) ==
  /\ ~Submitting(r)
  /\ p \in (LeaveHR \cup LeaveOwners) \ {Employee}
  /\ leave[r].status = "CancellationPending"
  /\ WriteLeave(r, [leave[r] EXCEPT !.status = "HRApproved", !.consent = FALSE])

\* No request is locked when the balance changes.
Regrant(g) ==
  /\ g # granted
  /\ granted' = g
  /\ submission' = [q \in Leaves |-> IF submission[q] = Null THEN Null
                                       ELSE [submission[q] EXCEPT !.raced = TRUE]]
  /\ UNCHANGED <<leave, manager>>

\* configure_leave_type: another entitlement or accrual.
Configure(g) == Regrant(g)

\* add_balance_adjustment, also one that takes back what is already booked.
Adjust(g) == Regrant(g)

\* The users service gives the employee another manager.
ChangeManager(p) ==
  /\ p # manager
  /\ manager' = p
  /\ UNCHANGED <<leave, submission, granted>>

LeaveNext ==
  \/ \E r \in Leaves, p \in LeaveUsers :
       \/ \E s \in Spans : UpdateLeave(r, p, s) \/ \E b \in BOOLEAN : CreateLeave(r, p, s, b)
       \/ UploadAttachment(r, p)
       \/ \E b \in BOOLEAN : ValidateLeave(r, p, b)
       \/ ManagerApprove(r, p)
       \/ HRApprove(r, p)
       \/ OwnerOverride(r, p)
       \/ \E s \in LeaveStatus : DecideLeave(r, p, s)
       \/ CancelLeave(r, p)
       \/ Consent(r, p)
       \/ ApproveCancellation(r, p)
       \/ RejectCancellation(r, p)
  \/ \E r \in Leaves : CommitLeave(r) \/ FailLeave(r)
  \/ \E g \in Grants : Configure(g) \/ Adjust(g)
  \/ \E p \in LeaveManagers \cup {Null} : ChangeManager(p)

LeaveSpec == LeaveInit /\ [][LeaveNext]_leaveVars

-----------------------------------------------------------------------------
(* Properties *)

\* A leave that stands was approved for its present dates, since it was last
\* submitted, by the manager and by HR, neither of them the employee, or by an
\* OWNER's override, whatever returns, edits and rejected cancellations came
\* between; and the consent that lets HR cancel it was given by somebody else than
\* the employee since the present attempt to cancel began (transition,
\* update_request, cancel_request, decide_cancellation).
ApprovedAndConsented ==
  \A r \in Leaves :
    /\ leave[r].status \in ApprovedLeave =>
         /\ leave[r].reviewed = leave[r].span
         /\ \/ leave[r].granted \in LeaveOwners
            \/ /\ leave[r].granted \in LeaveHR \ {Employee}
               /\ leave[r].endorsed \in Colleagues
    /\ leave[r].status = "CancellationPending" /\ leave[r].consent =>
         leave[r].consented \in Colleagues

\* A request that becomes active and overlaps another, or draws more than there
\* is, carries an exception reason, unless another request or the balance was
\* committed between its validation and its own commit (_validate_submission).
ActivationAllowed ==
  \A r \in Leaves :
    /\ leave[r].status \notin ActiveBalance
    /\ leave'[r].status \in ActiveBalance
    /\ Overlap(r)' \/ Available' < 0
    => \/ leave'[r].exception
       \/ Submitting(r) /\ submission[r].raced

SubmittedWithinBalance == [][ActivationAllowed]_leaveVars
=============================================================================
