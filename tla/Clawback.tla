------------------------------ MODULE Clawback ------------------------------
(***************************************************************************)
(* create_clawback and decide_clawback (case_operations/service.py) on one   *)
(* earning, as PostgreSQL transactions of several sessions.  The two         *)
(* handlers lock different rows: the Coordinator's submission locks the      *)
(* earning, the decision locks the request.  What keeps their readings of    *)
(* the balance fresh are two constraints: the partial unique index admits    *)
(* one pending request per earning, and the reversal's foreign key locks the *)
(* earning when a decision writes it.                                        *)
(***************************************************************************)
EXTENDS Naturals

CONSTANTS
  Requests, Amount, FullOnly,   \* see ClawbackLedger
  Sessions,                     \* concurrent requests of users to the API
  NoRequest

ASSUME ClawbackAssumption ==
  /\ Amount \in Nat
  /\ FullOnly \in BOOLEAN
  /\ NoRequest \notin Requests

VARIABLES
  requests,   \* committed clawback requests
  reversed,   \* SUM(amount) of the committed reversals
  session          \* session[s]: the open transaction of a session

clawbackVars == <<requests, reversed, session>>

ClawbackRequest == [status: {"none", "pending", "approved", "rejected"}, amount: 0..Amount]

\* "inserting" holds FOR UPDATE on the earning; "approve" and "reject" hold FOR
\* UPDATE on the request; "approved" and "rejected" have updated it, uncommitted.
Transaction ==
  [at: {"idle", "inserting", "approve", "reject", "approved", "rejected"},
   request: Requests \cup {NoRequest}, amount: 0..Amount]

Idle == [at |-> "idle", request |-> NoRequest, amount |-> 0]

ClawbackTypeOK ==
  /\ requests \in [Requests -> ClawbackRequest]
  /\ reversed \in Nat
  /\ session \in [Sessions -> Transaction]

-----------------------------------------------------------------------------
Pending == {r \in Requests : requests[r].status = "pending"}

Remaining == Amount - reversed

\* Requests a session has locked, and those whose new status is in doubt.
Deciding(s) == session[s].at \in {"approve", "reject", "approved", "rejected"}
InDoubt(s)  == session[s].at \in {"approved", "rejected"}

EarningLocked == \E s \in Sessions : session[s].at = "inserting"

End(s) == session' = [session EXCEPT ![s] = Idle]

-----------------------------------------------------------------------------
(* create_clawback.                                                        *)

\* The earning locked, the amount checked against the committed reversals.
\* Requests bounds how many submissions are made.
StartCreate(s) ==
  /\ session[s] = Idle
  /\ ~EarningLocked
  /\ \E r \in Requests : requests[r].status = "none"
  /\ \E amount \in 1..Amount :
       /\ FullOnly => amount = Amount
       /\ amount <= Remaining
       /\ session' = [session EXCEPT ![s] = [at |-> "inserting", request |-> NoRequest, amount |-> amount]]
  /\ UNCHANGED <<requests, reversed>>

\* INSERT and COMMIT.  The unique index makes the insert wait for a pending
\* request whose update is not committed.
Insert(s) ==
  /\ session[s].at = "inserting"
  /\ Pending = {}
  /\ \E r \in Requests :
       /\ requests[r].status = "none"
       /\ requests' = [requests EXCEPT ![r] = [status |-> "pending", amount |-> session[s].amount]]
  /\ End(s)
  /\ UNCHANGED reversed

\* Mutant: the failed insert leaves its transaction open.
ConflictUnhandled(s) ==
  /\ session[s].at = "inserting"
  /\ Pending # {}
  /\ UNCHANGED clawbackVars

\* IntegrityError: CLAWBACK_ALREADY_PENDING.
Conflict(s) ==
  /\ session[s].at = "inserting"
  /\ Pending # {}
  /\ \A t \in Sessions : ~InDoubt(t)
  /\ End(s)
  /\ UNCHANGED <<requests, reversed>>

-----------------------------------------------------------------------------
(* decide_clawback.                                                        *)

\* The request locked, its status and, to approve, the balance checked.
StartDecision(s) ==
  /\ session[s] = Idle
  /\ \E r \in Pending, decision \in {"approve", "reject"} :
       /\ \A t \in Sessions : Deciding(t) => session[t].request # r
       /\ decision = "approve" => requests[r].amount <= Remaining
       /\ session' = [session EXCEPT ![s] = [at |-> decision, request |-> r, amount |-> 0]]
  /\ UNCHANGED <<requests, reversed>>

\* The flush at commit may update the request first ...
UpdateRequest(s) ==
  /\ \/ session[s].at = "approve" /\ session' = [session EXCEPT ![s].at = "approved"]
     \/ session[s].at = "reject" /\ session' = [session EXCEPT ![s].at = "rejected"]
  /\ UNCHANGED <<requests, reversed>>

\* Mutant: the reversal is committed and the decided request stays pending.
CommitReversalOnly(s) ==
  /\ session[s].at \in {"approve", "approved"}
  /\ ~EarningLocked
  /\ reversed' = reversed + requests[session[s].request].amount
  /\ End(s)
  /\ UNCHANGED requests

\* ... or, as no relationship orders the two mappers, insert the reversal first.
\* Its foreign key takes a KEY SHARE lock on the earning and so waits for a
\* submission that holds it.
CommitApproval(s) ==
  /\ session[s].at \in {"approve", "approved"}
  /\ ~EarningLocked
  /\ requests' = [requests EXCEPT ![session[s].request].status = "approved"]
  /\ reversed' = reversed + requests[session[s].request].amount
  /\ End(s)

CommitRejection(s) ==
  /\ session[s].at \in {"reject", "rejected"}
  /\ requests' = [requests EXCEPT ![session[s].request].status = "rejected"]
  /\ End(s)
  /\ UNCHANGED reversed

-----------------------------------------------------------------------------
\* A connection or the process is lost: the server rolls the transaction back.
Abort(s) ==
  /\ session[s] # Idle
  /\ End(s)
  /\ UNCHANGED <<requests, reversed>>

\* A submission that holds the earning waits for the decision on the pending
\* request, which waits for the earning: the server aborts one of the two.
Deadlocked == EarningLocked /\ \E s \in Sessions : session[s].at = "approved"

BreakDeadlock ==
  /\ Deadlocked
  /\ \E s \in Sessions : session[s].at \in {"inserting", "approved"} /\ End(s)
  /\ UNCHANGED <<requests, reversed>>

-----------------------------------------------------------------------------
ClawbackInit ==
  /\ requests = [r \in Requests |-> [status |-> "none", amount |-> 0]]
  /\ reversed = 0
  /\ session = [s \in Sessions |-> Idle]

Step(s) ==
  \/ Insert(s)
  \/ Conflict(s)
  \/ UpdateRequest(s)
  \/ CommitApproval(s)
  \/ CommitRejection(s)

ClawbackNext ==
  \/ \E s \in Sessions : StartCreate(s) \/ StartDecision(s) \/ Step(s) \/ Abort(s)
  \/ BreakDeadlock

ClawbackSpec == ClawbackInit /\ [][ClawbackNext]_clawbackVars

\* The server runs an open transaction on, grants a contended lock in the order
\* of its queue, and detects deadlocks.
ClawbackFairSpec ==
  /\ ClawbackSpec
  /\ \A s \in Sessions : SF_clawbackVars(Step(s))
  /\ WF_clawbackVars(BreakDeadlock)

-----------------------------------------------------------------------------
\* An earning is never reversed beyond its amount, although a decision writes on
\* a balance it read before and holds no lock on the earning (decide_clawback).
WithinEarning == reversed <= Amount

\* What a pending request asks for stays covered by the earning, from its
\* submission on a balance read under another lock to its decision: the
\* Sales Manager is never left with a request he can only reject
\* (create_clawback, decide_clawback).
PendingCovered == \A r \in Pending : requests[r].amount <= Remaining

\* Every open transaction ends: a submission and a decision that wait for each
\* other are not stuck for good (create_clawback, decide_clawback).
EveryRequestEnds == \A s \in Sessions : session[s] # Idle ~> session[s] = Idle

\* Seen through its committed rows and what they leave of the earning, the pair of handlers is the ledger: one
\* pending request at a time, decided once, approvals within the balance.
Ledger == INSTANCE ClawbackLedger WITH left <- Remaining
ImplementsLedger == Ledger!Spec
=============================================================================
