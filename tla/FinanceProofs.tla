--------------------------- MODULE FinanceProofs ----------------------------
(***************************************************************************)
(* Safety of the finance modules for every value of their constants:       *)
(* Clawback, Payouts, Commission and Targets.                             *)
(***************************************************************************)
EXTENDS Clawback, Payouts, Commission, Targets, Sums

-----------------------------------------------------------------------------
(***************************************************************************)
(* Clawback, for any number of sessions and requests.                      *)
(***************************************************************************)

\* The partial unique index: two pending requests are the same request.
OnePending == \A r, q \in Pending : r = q

\* A session that decides holds the lock on a pending request, and no other
\* session decides the same one.
DecisionsLocked ==
  /\ \A s \in Sessions : Deciding(s) => session[s].request \in Pending
  /\ \A s, t \in Sessions :
       Deciding(s) /\ Deciding(t) /\ session[s].request = session[t].request => s = t

\* The amount a submission is about to insert is still covered.
InsertCovered ==
  \A s \in Sessions : session[s].at = "inserting" =>
    /\ session[s].amount \in 1..Remaining
    /\ FullOnly => session[s].amount = Amount

\* Card points are asked for whole.
PendingWhole == FullOnly => \A r \in Pending : requests[r].amount = Amount

CardPointsWhole == FullOnly => reversed \in {0, Amount}

ClawbackInv ==
  /\ ClawbackTypeOK
  /\ WithinEarning
  /\ OnePending
  /\ DecisionsLocked
  /\ InsertCovered
  /\ PendingCovered
  /\ PendingWhole
  /\ CardPointsWhole

-----------------------------------------------------------------------------
\* A transaction that ends holds nothing: what the invariant says of the others
\* is kept.
LEMMA EndKeeps ==
  ASSUME ClawbackInv, NEW s \in Sessions, End(s), UNCHANGED <<requests, reversed>>
  PROVE  ClawbackInv'
<1> USE ClawbackAssumption
<1>1. session' \in [Sessions -> Transaction] BY DEF ClawbackInv, ClawbackTypeOK, End, Idle, Transaction
<1>2. \A t \in Sessions : t # s => session'[t] = session[t] BY DEF ClawbackInv, ClawbackTypeOK, End
<1>3. session'[s] = Idle BY DEF ClawbackInv, ClawbackTypeOK, End
<1>4. DecisionsLocked'
  BY <1>2, <1>3 DEF ClawbackInv, DecisionsLocked, Deciding, Pending, Idle
<1>5. InsertCovered'
  BY <1>2, <1>3 DEF ClawbackInv, InsertCovered, Remaining, Idle
<1> QED
  BY <1>1, <1>4, <1>5 DEF ClawbackInv, ClawbackTypeOK, WithinEarning, OnePending, PendingCovered,
     PendingWhole, CardPointsWhole, Pending, Remaining

LEMMA ClawbackInitInv == ClawbackInit => ClawbackInv
  BY ClawbackAssumption
  DEF ClawbackInit, ClawbackInv, ClawbackTypeOK, WithinEarning, OnePending, DecisionsLocked, InsertCovered,
      PendingCovered, PendingWhole, CardPointsWhole, Pending, Remaining, Deciding,
      ClawbackRequest, Transaction, Idle

LEMMA StartCreateInv == ASSUME ClawbackInv, NEW s \in Sessions, StartCreate(s) PROVE ClawbackInv'
<1> USE ClawbackAssumption
<1>1. PICK amount \in 1..Amount :
        /\ FullOnly => amount = Amount
        /\ amount <= Remaining
        /\ session' = [session EXCEPT ![s] = [at |-> "inserting", request |-> NoRequest, amount |-> amount]]
  BY DEF StartCreate
<1>2. UNCHANGED <<requests, reversed>> BY DEF StartCreate
<1>3. \A t \in Sessions : t # s => session'[t] = session[t] BY <1>1 DEF ClawbackInv, ClawbackTypeOK
<1>4. session'[s] = [at |-> "inserting", request |-> NoRequest, amount |-> amount]
  BY <1>1 DEF ClawbackInv, ClawbackTypeOK
<1>5. session' \in [Sessions -> Transaction]
  BY <1>1 DEF ClawbackInv, ClawbackTypeOK, Transaction
<1>6. DecisionsLocked'
  BY <1>2, <1>3, <1>4 DEF ClawbackInv, DecisionsLocked, Deciding, Pending
<1>7. InsertCovered'
  BY <1>1, <1>2, <1>3, <1>4 DEF ClawbackInv, InsertCovered, Remaining
<1> QED
  BY <1>2, <1>5, <1>6, <1>7 DEF ClawbackInv, ClawbackTypeOK, WithinEarning, OnePending, PendingCovered,
     PendingWhole, CardPointsWhole, Pending, Remaining

LEMMA InsertInv == ASSUME ClawbackInv, NEW s \in Sessions, Insert(s) PROVE ClawbackInv'
<1> USE ClawbackAssumption
<1>1. PICK r \in Requests :
        /\ requests[r].status = "none"
        /\ requests' = [requests EXCEPT ![r] = [status |-> "pending", amount |-> session[s].amount]]
  BY DEF Insert
<1>2. session[s].at = "inserting" /\ Pending = {} /\ End(s) /\ reversed' = reversed
  BY DEF Insert
<1>3. session[s].amount \in 0..Amount BY DEF ClawbackInv, ClawbackTypeOK, Transaction
<1>4. requests' \in [Requests -> ClawbackRequest] BY <1>1, <1>3 DEF ClawbackInv, ClawbackTypeOK, ClawbackRequest
<1>5. Pending' = {r} /\ requests'[r].amount = session[s].amount
  BY <1>1, <1>2 DEF ClawbackInv, ClawbackTypeOK, Pending
<1>6. session' \in [Sessions -> Transaction]
  BY <1>2 DEF ClawbackInv, ClawbackTypeOK, End, Idle, Transaction
<1>7. \A t \in Sessions : t # s => session'[t] = session[t] BY <1>2 DEF ClawbackInv, ClawbackTypeOK, End
<1>8. session'[s] = Idle BY <1>2 DEF ClawbackInv, ClawbackTypeOK, End
<1>9. DecisionsLocked'
  BY <1>2, <1>7, <1>8 DEF ClawbackInv, DecisionsLocked, Deciding, Idle
<1>10. InsertCovered' BY <1>2, <1>7, <1>8 DEF ClawbackInv, InsertCovered, Remaining, Idle
<1>11. PendingCovered' /\ PendingWhole'
  BY <1>2, <1>5 DEF ClawbackInv, InsertCovered, PendingCovered, PendingWhole, Remaining
<1> QED
  BY <1>2, <1>4, <1>5, <1>6, <1>9, <1>10, <1>11
  DEF ClawbackInv, ClawbackTypeOK, WithinEarning, OnePending, CardPointsWhole

LEMMA StartDecisionInv == ASSUME ClawbackInv, NEW s \in Sessions, StartDecision(s) PROVE ClawbackInv'
<1> USE ClawbackAssumption
<1>1. PICK r \in Pending, decision \in {"approve", "reject"} :
        /\ \A t \in Sessions : Deciding(t) => session[t].request # r
        /\ session' = [session EXCEPT ![s] = [at |-> decision, request |-> r, amount |-> 0]]
  BY DEF StartDecision
<1>2. UNCHANGED <<requests, reversed>> BY DEF StartDecision
<1>3. \A t \in Sessions : t # s => session'[t] = session[t] BY <1>1 DEF ClawbackInv, ClawbackTypeOK
<1>4. session'[s] = [at |-> decision, request |-> r, amount |-> 0]
  BY <1>1 DEF ClawbackInv, ClawbackTypeOK
<1>5. session' \in [Sessions -> Transaction]
  BY <1>1 DEF ClawbackInv, ClawbackTypeOK, Transaction, Pending
<1>6. DecisionsLocked'
  BY <1>1, <1>2, <1>3, <1>4 DEF ClawbackInv, DecisionsLocked, Deciding, Pending
<1>7. InsertCovered' BY <1>2, <1>3, <1>4 DEF ClawbackInv, InsertCovered, Remaining
<1> QED
  BY <1>2, <1>5, <1>6, <1>7 DEF ClawbackInv, ClawbackTypeOK, WithinEarning, OnePending, PendingCovered,
     PendingWhole, CardPointsWhole, Pending, Remaining

LEMMA UpdateRequestInv == ASSUME ClawbackInv, NEW s \in Sessions, UpdateRequest(s) PROVE ClawbackInv'
<1>1. UNCHANGED <<requests, reversed>> BY DEF UpdateRequest
<1>2. \A t \in Sessions : t # s => session'[t] = session[t] BY DEF ClawbackInv, ClawbackTypeOK, UpdateRequest
<1>3. /\ session'[s].at \in {"approved", "rejected"}
      /\ session'[s].request = session[s].request
      /\ Deciding(s)
  BY DEF ClawbackInv, ClawbackTypeOK, Transaction, UpdateRequest, Deciding
<1>4. session' \in [Sessions -> Transaction]
  BY DEF ClawbackInv, ClawbackTypeOK, Transaction, UpdateRequest
<1>5. DecisionsLocked'
  BY <1>1, <1>2, <1>3 DEF ClawbackInv, DecisionsLocked, Deciding, Pending
<1>6. InsertCovered' BY <1>1, <1>2, <1>3 DEF ClawbackInv, InsertCovered, Remaining
<1> QED
  BY <1>1, <1>4, <1>5, <1>6 DEF ClawbackInv, ClawbackTypeOK, WithinEarning, OnePending, PendingCovered,
     PendingWhole, CardPointsWhole, Pending, Remaining

\* What both commits share: the one pending request is gone, so no other
\* session can be deciding.
LEMMA DecidedInv ==
  ASSUME ClawbackInv, NEW s \in Sessions, Deciding(s), End(s),
         NEW status \in {"approved", "rejected"},
         requests' = [requests EXCEPT ![session[s].request].status = status]
  PROVE  /\ requests' \in [Requests -> ClawbackRequest]
         /\ session' \in [Sessions -> Transaction]
         /\ Pending' = {}
         /\ DecisionsLocked'
         /\ \A t \in Sessions : t # s => session'[t] = session[t]
         /\ session'[s] = Idle
<1> USE ClawbackAssumption
<1>1. session[s].request \in Pending BY DEF ClawbackInv, DecisionsLocked
<1>2. requests' \in [Requests -> ClawbackRequest]
  BY <1>1 DEF ClawbackInv, ClawbackTypeOK, ClawbackRequest, Pending
<1>3. Pending' = {}
  BY <1>1 DEF ClawbackInv, ClawbackTypeOK, OnePending, Pending, ClawbackRequest
<1>4. session' \in [Sessions -> Transaction] BY DEF ClawbackInv, ClawbackTypeOK, End, Idle, Transaction
<1>5. (\A t \in Sessions : t # s => session'[t] = session[t]) /\ session'[s] = Idle
  BY DEF ClawbackInv, ClawbackTypeOK, End
<1>6. \A t \in Sessions : ~Deciding(t)'
  <2>1. ASSUME NEW t \in Sessions, t # s PROVE ~Deciding(t)
    BY <1>1, <2>1 DEF ClawbackInv, OnePending, DecisionsLocked
  <2> QED BY <1>5, <2>1 DEF Deciding, Idle
<1> QED BY <1>2, <1>3, <1>4, <1>5, <1>6 DEF DecisionsLocked

LEMMA CommitRejectionInv == ASSUME ClawbackInv, NEW s \in Sessions, CommitRejection(s) PROVE ClawbackInv'
<1> USE ClawbackAssumption
<1>1. Deciding(s) /\ End(s) /\ reversed' = reversed BY DEF CommitRejection, Deciding
<1>2. requests' = [requests EXCEPT ![session[s].request].status = "rejected"]
  BY DEF CommitRejection
<1>3. /\ requests' \in [Requests -> ClawbackRequest]
      /\ session' \in [Sessions -> Transaction]
      /\ Pending' = {}
      /\ DecisionsLocked'
      /\ \A t \in Sessions : t # s => session'[t] = session[t]
      /\ session'[s] = Idle
  BY <1>1, <1>2, DecidedInv
<1>4. InsertCovered' BY <1>1, <1>3 DEF ClawbackInv, InsertCovered, Remaining, Idle
<1> QED
  BY <1>1, <1>3, <1>4 DEF ClawbackInv, ClawbackTypeOK, WithinEarning, OnePending, PendingCovered,
     PendingWhole, CardPointsWhole

LEMMA CommitApprovalInv == ASSUME ClawbackInv, NEW s \in Sessions, CommitApproval(s) PROVE ClawbackInv'
<1> USE ClawbackAssumption
<1>1. Deciding(s) /\ End(s) /\ ~EarningLocked BY DEF CommitApproval, Deciding
<1>2. requests' = [requests EXCEPT ![session[s].request].status = "approved"]
  BY DEF CommitApproval
<1>3. /\ requests' \in [Requests -> ClawbackRequest]
      /\ session' \in [Sessions -> Transaction]
      /\ Pending' = {}
      /\ DecisionsLocked'
      /\ \A t \in Sessions : t # s => session'[t] = session[t]
      /\ session'[s] = Idle
  BY <1>1, <1>2, DecidedInv
<1>4. InsertCovered' BY <1>1, <1>3 DEF InsertCovered, EarningLocked, Idle
<1> DEFINE amount == requests[session[s].request].amount
<1>5. reversed' = reversed + amount BY DEF CommitApproval
<1>6. /\ amount \in 0..Amount
      /\ amount <= Remaining
      /\ FullOnly => amount = Amount
  BY <1>1 DEF ClawbackInv, ClawbackTypeOK, ClawbackRequest, DecisionsLocked, PendingCovered, PendingWhole, Pending
<1>7. /\ reversed' \in Nat
      /\ reversed' <= Amount
      /\ FullOnly => reversed' \in {0, Amount}
  BY <1>5, <1>6 DEF ClawbackInv, ClawbackTypeOK, WithinEarning, Remaining
<1> QED
  BY <1>3, <1>4, <1>7 DEF ClawbackInv, ClawbackTypeOK, WithinEarning, OnePending, PendingCovered,
     PendingWhole, CardPointsWhole

LEMMA ClawbackNextInv == ClawbackInv /\ [ClawbackNext]_clawbackVars => ClawbackInv'
<1> SUFFICES ASSUME ClawbackInv, [ClawbackNext]_clawbackVars PROVE ClawbackInv'
  OBVIOUS
<1>1. ASSUME NEW s \in Sessions, StartCreate(s) PROVE ClawbackInv' BY <1>1, StartCreateInv
<1>2. ASSUME NEW s \in Sessions, StartDecision(s) PROVE ClawbackInv' BY <1>2, StartDecisionInv
<1>3. ASSUME NEW s \in Sessions, Insert(s) PROVE ClawbackInv' BY <1>3, InsertInv
<1>4. ASSUME NEW s \in Sessions, Conflict(s) PROVE ClawbackInv' BY <1>4, EndKeeps DEF Conflict
<1>5. ASSUME NEW s \in Sessions, UpdateRequest(s) PROVE ClawbackInv' BY <1>5, UpdateRequestInv
<1>6. ASSUME NEW s \in Sessions, CommitApproval(s) PROVE ClawbackInv' BY <1>6, CommitApprovalInv
<1>7. ASSUME NEW s \in Sessions, CommitRejection(s) PROVE ClawbackInv' BY <1>7, CommitRejectionInv
<1>8. ASSUME NEW s \in Sessions, Abort(s) PROVE ClawbackInv' BY <1>8, EndKeeps DEF Abort
<1>9. CASE BreakDeadlock BY <1>9, EndKeeps DEF BreakDeadlock
<1>10. CASE UNCHANGED clawbackVars
  BY <1>10 DEF clawbackVars, ClawbackInv, ClawbackTypeOK, WithinEarning, OnePending, DecisionsLocked, Deciding,
     InsertCovered, PendingCovered, PendingWhole, CardPointsWhole, Pending, Remaining
<1> QED
  BY <1>1, <1>2, <1>3, <1>4, <1>5, <1>6, <1>7, <1>8, <1>9, <1>10 DEF ClawbackNext, Step

-----------------------------------------------------------------------------
\* Every reachable state satisfies the inductive invariant.
THEOREM ClawbackInvariance == ClawbackSpec => []ClawbackInv
<1>1. ClawbackInit => ClawbackInv BY ClawbackInitInv
<1>2. ClawbackInv /\ [ClawbackNext]_clawbackVars => ClawbackInv' BY ClawbackNextInv
<1> QED BY <1>1, <1>2, PTL DEF ClawbackSpec

\* The committed rows and the open transactions are well typed.
THEOREM ClawbackTypeCorrect == ClawbackSpec => []ClawbackTypeOK
<1>1. ClawbackInv => ClawbackTypeOK BY DEF ClawbackInv
<1> QED BY <1>1, ClawbackInvariance, PTL

\* An earning is never reversed beyond its amount, however many users submit
\* and decide clawbacks of it at the same time.
THEOREM NeverOverReversed == ClawbackSpec => []WithinEarning
<1>1. ClawbackInv => WithinEarning BY DEF ClawbackInv
<1> QED BY <1>1, ClawbackInvariance, PTL

\* A pending clawback can always be approved in full.
THEOREM PendingStaysCovered == ClawbackSpec => []PendingCovered
<1>1. ClawbackInv => PendingCovered BY DEF ClawbackInv
<1> QED BY <1>1, ClawbackInvariance, PTL

\* Card points are reversed whole or not at all.
THEOREM CardPointsReversedWhole == ClawbackSpec => []CardPointsWhole
<1>1. ClawbackInv => CardPointsWhole BY DEF ClawbackInv
<1> QED BY <1>1, ClawbackInvariance, PTL

-----------------------------------------------------------------------------
(* Refinement: the committed rows behave as the ledger.                    *)

LEMMA LedgerStep == ClawbackInv /\ [ClawbackNext]_clawbackVars => [Ledger!Next]_(Ledger!ledger)
<1> SUFFICES ASSUME ClawbackInv, ClawbackNext PROVE Ledger!Next \/ UNCHANGED <<requests, reversed>>
  BY DEF Ledger!ledger, clawbackVars, Remaining
<1> USE ClawbackAssumption
<1>1. ASSUME NEW s \in Sessions, Insert(s) PROVE Ledger!Next
  <2>1. PICK r \in Requests :
          /\ requests[r].status = "none"
          /\ requests' = [requests EXCEPT ![r] = [status |-> "pending", amount |-> session[s].amount]]
    BY <1>1 DEF Insert
  <2>2. session[s].at = "inserting" /\ Pending = {} /\ reversed' = reversed
    BY <1>1 DEF Insert
  <2>3. session[s].amount \in 1..Remaining /\ (FullOnly => session[s].amount = Amount)
    BY <2>2 DEF ClawbackInv, ClawbackTypeOK, Transaction, InsertCovered, Remaining, WithinEarning
  <2>4. Ledger!Submit(r)
    BY <2>1, <2>2, <2>3 DEF Ledger!Submit, Ledger!Pending, Pending, Remaining
  <2> QED BY <2>4 DEF Ledger!Next
<1>2. ASSUME NEW s \in Sessions, CommitApproval(s) PROVE Ledger!Next
  <2>1. session[s].request \in Pending
    BY <1>2 DEF ClawbackInv, DecisionsLocked, Deciding, CommitApproval
  <2>2. Ledger!Approve(session[s].request)
    BY <1>2, <2>1 DEF CommitApproval, Ledger!Approve, Pending, Remaining, ClawbackInv,
       ClawbackTypeOK, ClawbackRequest
  <2> QED BY <2>1, <2>2 DEF Ledger!Next, Pending
<1>3. ASSUME NEW s \in Sessions, CommitRejection(s) PROVE Ledger!Next
  <2>1. session[s].request \in Pending
    BY <1>3 DEF ClawbackInv, DecisionsLocked, Deciding, CommitRejection
  <2>2. Ledger!Reject(session[s].request)
    BY <1>3, <2>1 DEF CommitRejection, Ledger!Reject, Pending, Remaining
  <2> QED BY <2>1, <2>2 DEF Ledger!Next, Pending
<1> QED
  BY <1>1, <1>2, <1>3 DEF ClawbackNext, Step, StartCreate, StartDecision, Conflict,
     UpdateRequest, Abort, BreakDeadlock

\* The two handlers implement the ledger, for every number of concurrent users.
THEOREM RefinesLedger == ClawbackSpec => ImplementsLedger
<1>1. ClawbackInit => Ledger!Init BY ClawbackAssumption DEF ClawbackInit, Ledger!Init, Remaining
<1>2. ClawbackInv /\ [ClawbackNext]_clawbackVars => [Ledger!Next]_(Ledger!ledger) BY LedgerStep
<1> QED BY <1>1, <1>2, ClawbackInvariance, PTL DEF ClawbackSpec, ImplementsLedger, Ledger!Spec

-----------------------------------------------------------------------------
(***************************************************************************)
(* Payouts, for any number of months, recipients and rules.                *)
(***************************************************************************)

\* What the locks give: nothing exists of a period not generated; a generation
\* under way is still in order, a transition with its row still allowed, the period
\* of a correction still open.
NotGenerated ==
  \A m \in Months : period[m] = "none" => \A r \in Recipients : payout[m][r] = None

SequenceHolds ==
  sequence # None =>
    IF sequence.op = "generate"
    THEN period[sequence.month] = "none" /\ GenerationInOrder(sequence.month)
    ELSE sequence.locked =>
           /\ period[sequence.month] = Expected(sequence.op)
           /\ change[sequence.month] = None
           /\ sequence.op = "reopen" => ~HasLater(sequence.month)

ChangeHolds ==
  \A m \in Months : change[m] # None => period[m] \in {"draft", "review"}

ActivationHolds ==
  \A c \in activation :
    /\ activation = {c}
    /\ \A d \in Rules : rule[d] = "active" => ~Overlap(c, d)

\* The inductive invariant.
PayoutsInv ==
  /\ TypeOK
  /\ InOrder /\ NotGenerated
  /\ SequenceHolds /\ ChangeHolds
  /\ CarriedExactly
  /\ ActivationHolds /\ RulesDisjoint

-----------------------------------------------------------------------------
(* Lemmas about months and amounts.                                          *)

LEMMA MaxMonth ==
  ASSUME NEW S \in SUBSET Months, S # {}
  PROVE  Max(S) \in S /\ \A k \in S : k <= Max(S)
<1> DEFINE T == {LastMonth - k : k \in S}
<1>1. LastMonth \in Nat BY PayoutAssumption
<1>2. T \subseteq Nat /\ T # {}
  <2>1. \A k \in S : LastMonth - k \in Nat BY <1>1 DEF Months
  <2>2. T # {} BY Zenon
  <2> QED BY <2>1, <2>2
<1>3. PICK t \in T : \A u \in T : ~(<<u, t>> \in OpToRel(<, Nat))
  <2> HIDE DEF T
  <2> QED BY <1>2, NatLessThanWellFounded, WFMin
<1>4. PICK k \in S : t = LastMonth - k BY <1>3
<1>5. \A j \in S : k >= j
  <2>1. TAKE j \in S
  <2>2. LastMonth - j \in T /\ LastMonth - j \in Nat /\ t \in Nat BY <1>2, <1>3
  <2>3. ~(LastMonth - j < t) BY <1>3, <2>2 DEF OpToRel
  <2> QED BY <1>1, <1>4, <2>3 DEF Months
<1>6. Max(S) \in S /\ \A j \in S : Max(S) >= j BY <1>4, <1>5 DEF Max
<1> QED BY <1>1, <1>6 DEF Months

\* Before a period that is in order, every payout is of a finalized period.
LEMMA PreviousIsEarlier ==
  ASSUME NEW m \in Months, NEW r \in Recipients, NotGenerated,
         \A k \in Months : k < m => period[k] \in {"none", "finalized"}
  PROVE  Previous(m, r) = Earlier(m, r) /\ CarryInto(m, r) = Balance(m, r)
<1>1. Previous(m, r) = Earlier(m, r) BY DEF Previous, Earlier, NotGenerated
<1> QED BY <1>1 DEF CarryInto, Balance

LEMMA CarryType ==
  ASSUME TypeOK, NEW m \in Months, NEW r \in Recipients
  PROVE  CarryInto(m, r) \in Int
<1>1. CASE Previous(m, r) = {} BY <1>1 DEF CarryInto
<1>2. CASE Previous(m, r) # {}
  <2>1. Previous(m, r) \in SUBSET Months BY DEF Previous
  <2>2. Max(Previous(m, r)) \in Previous(m, r) BY <1>2, <2>1, MaxMonth
  <2> DEFINE k == Max(Previous(m, r))
  <2>3. k \in Months /\ payout[k][r] # None BY <2>2 DEF Previous
  <2>4. payout[k][r] \in Payout BY <2>3 DEF TypeOK
  <2> QED BY <1>2, <2>4 DEF CarryInto, Payout
<1> QED BY <1>1, <1>2

LEMMA RefreshedType ==
  ASSUME TypeOK, NEW m \in Months, NEW r \in Recipients, NEW c \in Components
  PROVE  Refreshed(m, r, c) \in Payout
<1> DEFINE carried == IF payout[m][r] = None THEN CarryInto(m, r)
                                             ELSE payout[m][r].carried
           gross == carried + Earned(c, r) + c.corrected[r]
<1>1. payout[m][r] # None => payout[m][r] \in Payout BY DEF TypeOK
<1>2. carried \in Int BY <1>1, CarryType DEF Payout
<1>3. Earned(c, r) \in Int /\ c.corrected[r] \in Int BY DEF Components, Earned
<1> HIDE DEF carried
<1>4. gross \in Int BY <1>2, <1>3
<1> HIDE DEF gross
<1>5. /\ (IF gross > 0 THEN gross ELSE 0) \in Nat
      /\ (IF gross < 0 THEN gross ELSE 0) \in Int
  BY <1>4
<1>6. Refreshed(m, r, c) =
        [carried |-> carried, gross |-> gross,
         payable |-> IF gross > 0 THEN gross ELSE 0,
         carry |-> IF gross < 0 THEN gross ELSE 0]
  BY DEF Refreshed, gross, carried
<1> QED BY <1>2, <1>4, <1>5, <1>6 DEF Payout

LEMMA PreparedType ==
  ASSUME NEW c \in Rules, NEW pool \in Pools
  PROVE  Prepared(pool, c) \in Components
<1>1. pool \in Nat BY PayoutAssumption
<1>2. \A r \in DOMAIN Percent[c] : Allocate(pool, c, r) \in Nat
  <2>1. TAKE r \in DOMAIN Percent[c]
  <2>2. Percent[c][r] \in 1..100 BY PayoutAssumption
  <2>3. pool * Percent[c][r] \in Nat BY <1>1, <2>2
  <2>4. Floor(pool, c, r) \in Nat BY <2>3 DEF Floor
  <2> QED BY <2>4 DEF Allocate
<1> DEFINE amount(r) == IF r \notin DOMAIN Percent[c] THEN None
                        ELSE IF c \in Independent THEN pool ELSE Allocate(pool, c, r)
<1>3. [r \in Recipients |-> amount(r)] \in [Recipients -> Nat \cup {None}]
  BY <1>1, <1>2
<1>4. [r \in Recipients |-> 0] \in [Recipients -> Int] OBVIOUS
<1> QED BY <1>1, <1>3, <1>4 DEF Prepared, Components

-----------------------------------------------------------------------------
(* Each part of the system preserves the inductive invariant.                *)

LEMMA PayoutsInitInv == Init => PayoutsInv
<1> SUFFICES ASSUME Init PROVE PayoutsInv
  OBVIOUS
<1>1. [r \in Recipients |-> 0] \in [Recipients -> Int] OBVIOUS
<1>2. [r \in Recipients |-> None] \in [Recipients -> Nat \cup {None}] OBVIOUS
<1>3. NoComponents \in Components BY <1>1, <1>2 DEF NoComponents, Components
<1>4. TypeOK BY <1>3 DEF Init, TypeOK, PeriodStatus, RuleStatus
<1>5. InOrder /\ NotGenerated /\ CarriedExactly
  BY DEF Init, InOrder, NotGenerated, CarriedExactly
<1>6. SequenceHolds /\ ChangeHolds /\ ActivationHolds /\ RulesDisjoint
  BY DEF Init, SequenceHolds, ChangeHolds, ActivationHolds, RulesDisjoint
<1> QED BY <1>4, <1>5, <1>6 DEF PayoutsInv

\* The parts of the invariant that speak of periods and payouts alone.
LEMMA LedgerUnchanged ==
  ASSUME PayoutsInv, UNCHANGED ledgerVars
  PROVE  /\ InOrder' /\ NotGenerated' /\ CarriedExactly'
         /\ \A m \in Months : /\ HasLater(m)' <=> HasLater(m)
                             /\ GenerationInOrder(m)' <=> GenerationInOrder(m)
<1>1. InOrder' /\ NotGenerated'
  BY DEF PayoutsInv, InOrder, NotGenerated, HasLater, ledgerVars
<1>2. CarriedExactly'
  BY DEF PayoutsInv, CarriedExactly, Balance, Earlier, ledgerVars
<1>3. \A m \in Months : /\ HasLater(m)' <=> HasLater(m)
                       /\ GenerationInOrder(m)' <=> GenerationInOrder(m)
  BY DEF HasLater, GenerationInOrder, ledgerVars
<1> QED BY <1>1, <1>2, <1>3

\* Rules.
LEMMA RuleStepInv ==
  ASSUME PayoutsInv, NEW c \in Rules, NextRule(c)
  PROVE  PayoutsInv'
<1> USE DEF ledgerVars
<1>1. UNCHANGED <<period, components, payout, sequence, change>>
  BY DEF NextRule, CheckActivation, CommitActivation, FailActivation, Deactivate
<1>2. TypeOK'
  BY <1>1 DEF PayoutsInv, TypeOK, RuleStatus, NextRule, CheckActivation, CommitActivation,
     FailActivation, Deactivate
<1>3. SequenceHolds' /\ ChangeHolds'
  BY <1>1, LedgerUnchanged
     DEF PayoutsInv, SequenceHolds, ChangeHolds, HasLater, GenerationInOrder
<1>4. ActivationHolds' /\ RulesDisjoint'
  <2> USE DEF PayoutsInv, TypeOK, ActivationHolds, RulesDisjoint, Overlap
  <2>1. CASE CheckActivation(c) BY <2>1 DEF CheckActivation
  <2>2. CASE CommitActivation(c) BY <2>2 DEF CommitActivation
  <2>3. CASE FailActivation(c) BY <2>3 DEF FailActivation
  <2>4. CASE Deactivate(c) BY <2>4 DEF Deactivate
  <2> QED BY <2>1, <2>2, <2>3, <2>4 DEF NextRule
<1> QED BY <1>1, <1>2, <1>3, <1>4, LedgerUnchanged DEF PayoutsInv

\* The steps that write neither periods nor payouts nor rules.
LEMMA LockStepInv ==
  ASSUME PayoutsInv, NEW m \in Months,
         \/ BeginGenerate(m) \/ FailChange(m) \/ LockPeriod \/ FailSequence
         \/ \E op \in {"finalize", "reopen"} : BeginTransition(m, op)
         \/ \E r \in Recipients, amount \in Corrections : BeginChange(m, r, amount)
  PROVE  PayoutsInv'
<1>1. UNCHANGED <<period, components, payout, rule, activation>>
  BY DEF BeginGenerate, FailChange, LockPeriod, FailSequence, BeginTransition,
     BeginChange, ledgerVars, ruleVars
<1>2. TypeOK' /\ SequenceHolds' /\ ChangeHolds'
  <2> USE <1>1 DEF ledgerVars, ruleVars
  <2> USE DEF PayoutsInv, TypeOK, SequenceHolds, ChangeHolds
  <2>1. CASE BeginGenerate(m)
    <3>1. NoComponents \in Components BY DEF NoComponents, Components
    <3>2. PICK p \in Components :
            sequence' = [op |-> "generate", month |-> m, prepared |-> p]
      BY <2>1, <3>1, PreparedType DEF BeginGenerate
    <3>3. sequence' \in Generation BY <3>2 DEF Generation
    <3>4. period[m] = "none" /\ GenerationInOrder(m)' /\ change' = change
      BY <2>1, LedgerUnchanged DEF BeginGenerate
    <3> QED BY <3>2, <3>3, <3>4
  <2>2. CASE FailChange(m)
    <3>1. change' = [change EXCEPT ![m] = None] /\ sequence' = sequence
      BY <2>2 DEF FailChange
    <3>2. TypeOK' /\ ChangeHolds' BY <3>1
    <3>3. SequenceHolds' BY <3>1 DEF HasLater, GenerationInOrder
    <3> QED BY <3>2, <3>3
  <2>3. CASE LockPeriod
    <3>1. sequence \in Transition BY <2>3 DEF LockPeriod, Generation
    <3>2. sequence' = [sequence EXCEPT !.locked = TRUE] /\ change' = change
      BY <2>3 DEF LockPeriod
    <3>3. sequence' \in Transition /\ sequence'.month = sequence.month
          /\ sequence'.op = sequence.op /\ sequence.month \in Months
      BY <3>1, <3>2 DEF Transition
    <3>4. /\ period[sequence.month] = Expected(sequence.op)
          /\ change[sequence.month] = None
          /\ sequence.op = "reopen" => ~HasLater(sequence.month)
          /\ sequence.op # "generate"
      BY <2>3 DEF LockPeriod, RowFree
    <3>5. TypeOK' /\ ChangeHolds' BY <3>2, <3>3
    <3>6. SequenceHolds' BY <3>2, <3>3, <3>4 DEF HasLater, GenerationInOrder
    <3> QED BY <3>5, <3>6
  <2>4. CASE FailSequence BY <2>4 DEF FailSequence
  <2>5. ASSUME NEW op \in {"finalize", "reopen"}, BeginTransition(m, op)
        PROVE  TypeOK' /\ SequenceHolds' /\ ChangeHolds'
    BY <2>5 DEF BeginTransition, Transition
  <2>6. ASSUME NEW r \in Recipients, NEW amount \in Corrections, BeginChange(m, r, amount)
        PROVE  TypeOK' /\ SequenceHolds' /\ ChangeHolds'
    <3>1. /\ change' = [change EXCEPT ![m] = [recipient |-> r, amount |-> amount]]
          /\ sequence' = sequence /\ RowFree(m) /\ period[m] \in {"draft", "review"}
      BY <2>6 DEF BeginChange
    <3>2. amount \in Int BY PayoutAssumption
    <3>3. TypeOK' /\ ChangeHolds' BY <3>1, <3>2 DEF Correction
    <3>4. sequence # None /\ sequence.op # "generate" /\ sequence.locked
            => sequence.month # m
      BY <3>1 DEF RowFree
    <3>5. sequence # None => sequence.month \in Months BY DEF Generation, Transition
    <3>6. SequenceHolds' BY <3>1, <3>4, <3>5 DEF HasLater, GenerationInOrder
    <3> QED BY <3>3, <3>6
  <2> QED BY <2>1, <2>2, <2>3, <2>4, <2>5, <2>6
<1>3. ActivationHolds' /\ RulesDisjoint'
  BY <1>1 DEF PayoutsInv, ActivationHolds, RulesDisjoint
<1> QED BY <1>1, <1>2, <1>3, LedgerUnchanged DEF PayoutsInv, ledgerVars

\* A change of one period's status that keeps the order.
LEMMA StatusStepInv ==
  ASSUME PayoutsInv, NEW m \in Months, NEW s \in PeriodStatus \ {"none"},
         period[m] # "none", s # "finalized" => ~HasLater(m),
         period' = [period EXCEPT ![m] = s],
         UNCHANGED <<components, payout>>
  PROVE  /\ period' \in [Months -> PeriodStatus]
         /\ InOrder' /\ NotGenerated' /\ CarriedExactly'
         /\ \A k \in Months : HasLater(k)' <=> HasLater(k)
<1>1. period' \in [Months -> PeriodStatus] BY DEF PayoutsInv, TypeOK
<1>2. \A k \in Months : period'[k] = "none" <=> period[k] = "none"
  BY DEF PayoutsInv, TypeOK
<1>3. \A k \in Months : HasLater(k)' <=> HasLater(k) BY <1>2 DEF HasLater
<1>4. InOrder' BY <1>3 DEF PayoutsInv, TypeOK, InOrder
<1>5. NotGenerated' BY <1>2 DEF PayoutsInv, NotGenerated
<1>6. CarriedExactly' BY DEF PayoutsInv, CarriedExactly, Balance, Earlier
<1> QED BY <1>1, <1>3, <1>4, <1>5, <1>6

\* Review: no generation is under way, for its period is not the last.
LEMMA ReviewInv ==
  ASSUME PayoutsInv, NEW m \in Months, Review(m)
  PROVE  PayoutsInv'
<1>1. /\ period[m] = "draft" /\ RowFree(m)
      /\ period' = [period EXCEPT ![m] = "review"]
      /\ UNCHANGED <<components, payout, sequence, change, rule, activation>>
  BY DEF Review, ruleVars
<1>2. ~HasLater(m) BY <1>1 DEF PayoutsInv, InOrder
<1>3. /\ period' \in [Months -> PeriodStatus]
      /\ InOrder' /\ NotGenerated' /\ CarriedExactly'
      /\ \A k \in Months : HasLater(k)' <=> HasLater(k)
  <2>1. "review" \in PeriodStatus \ {"none"} BY DEF PeriodStatus
  <2> QED BY <1>1, <1>2, <2>1, StatusStepInv
<1>4. TypeOK' BY <1>1, <1>3 DEF PayoutsInv, TypeOK
<1>5. SequenceHolds'
  <2> SUFFICES ASSUME sequence # None
               PROVE  IF sequence.op = "generate"
                      THEN period'[sequence.month] = "none" /\ GenerationInOrder(sequence.month)'
                      ELSE sequence.locked =>
                             /\ period'[sequence.month] = Expected(sequence.op)
                             /\ change[sequence.month] = None
                             /\ sequence.op = "reopen" => ~HasLater(sequence.month)'
    BY <1>1 DEF SequenceHolds
  <2>1. sequence.month \in Months BY DEF PayoutsInv, TypeOK, Generation, Transition
  <2>2. CASE sequence.op = "generate"
    <3>1. period[sequence.month] = "none" /\ GenerationInOrder(sequence.month)
      BY <2>2 DEF PayoutsInv, SequenceHolds
    <3>2. m # sequence.month BY <1>1, <3>1
    <3>3. ~(m < sequence.month) BY <1>1, <3>1 DEF GenerationInOrder
    <3> QED BY <1>1, <1>3, <2>1, <2>2, <3>1, <3>2, <3>3 DEF GenerationInOrder, PayoutsInv, TypeOK
  <2>3. CASE sequence.op # "generate"
    <3>1. sequence.locked => sequence.month # m BY <1>1, <2>3 DEF RowFree
    <3> QED BY <1>1, <1>3, <2>1, <2>3, <3>1 DEF PayoutsInv, TypeOK, SequenceHolds
  <2> QED BY <2>2, <2>3
<1>6. ChangeHolds' BY <1>1 DEF PayoutsInv, TypeOK, ChangeHolds
<1>7. ActivationHolds' /\ RulesDisjoint'
  BY <1>1 DEF PayoutsInv, ActivationHolds, RulesDisjoint
<1> QED BY <1>3, <1>4, <1>5, <1>6, <1>7 DEF PayoutsInv

\* Finalisation and reopening, by what they hold locked.
LEMMA CommitTransitionInv ==
  ASSUME PayoutsInv, CommitTransition
  PROVE  PayoutsInv'
<1> DEFINE m == sequence.month
           s == IF sequence.op = "finalize" THEN "finalized" ELSE "review"
<1>1. sequence \in Transition /\ sequence # None /\ sequence.locked
  BY DEF CommitTransition, PayoutsInv, TypeOK, Generation
<1>2. /\ m \in Months /\ sequence.op \in {"finalize", "reopen"}
      /\ sequence.op # "generate"
  BY <1>1 DEF Transition
<1>3. /\ period[m] = Expected(sequence.op) /\ change[m] = None
      /\ sequence.op = "reopen" => ~HasLater(m)
  BY <1>1, <1>2 DEF PayoutsInv, SequenceHolds
<1>4. /\ period' = [period EXCEPT ![m] = s] /\ sequence' = None
      /\ UNCHANGED <<components, payout, change, rule, activation>>
  BY DEF CommitTransition, ruleVars
<1>5. /\ period' \in [Months -> PeriodStatus]
      /\ InOrder' /\ NotGenerated' /\ CarriedExactly'
  <2>1. s \in PeriodStatus \ {"none"} /\ period[m] # "none"
    BY <1>3 DEF PeriodStatus, Expected
  <2>2. s # "finalized" => ~HasLater(m) BY <1>2, <1>3
  <2> HIDE DEF m, s
  <2> QED BY <1>2, <1>4, <2>1, <2>2, StatusStepInv
<1>6. TypeOK' BY <1>4, <1>5 DEF PayoutsInv, TypeOK
<1>7. SequenceHolds' BY <1>4 DEF SequenceHolds
<1>8. ChangeHolds' BY <1>3, <1>4 DEF PayoutsInv, TypeOK, ChangeHolds
<1>9. ActivationHolds' /\ RulesDisjoint'
  BY <1>4 DEF PayoutsInv, ActivationHolds, RulesDisjoint
<1> QED BY <1>5, <1>6, <1>7, <1>8, <1>9 DEF PayoutsInv

\* New payouts in the last period, carried from what is final, leave every carried
\* amount exact.
LEMMA CarriedStep ==
  ASSUME PayoutsInv, NEW m \in Months,
         \A k \in Months, r \in Recipients : m < k => payout[k][r] = None,
         NEW row \in [Recipients -> Payout \cup {None}],
         payout' = [payout EXCEPT ![m] = row],
         \A r \in Recipients :
           row[r] # None => row[r].carried = IF payout[m][r] = None THEN Balance(m, r)
                                              ELSE payout[m][r].carried
  PROVE  CarriedExactly'
<1>1. payout \in [Months -> [Recipients -> Payout \cup {None}]] BY DEF PayoutsInv, TypeOK
<1>2. \A k \in Months : k # m => payout'[k] = payout[k]
  BY <1>1
<1>3. payout'[m] = row BY <1>1
<1>4. \A k \in Months, r \in Recipients : k <= m => Balance(k, r)' = Balance(k, r)
  <2>1. TAKE k \in Months, r \in Recipients
  <2>2. HAVE k <= m
  <2>3. Earlier(k, r)' = Earlier(k, r) BY <1>2, <2>2 DEF Earlier, Months
  <2>4. CASE Earlier(k, r) = {} BY <2>3, <2>4 DEF Balance
  <2>5. CASE Earlier(k, r) # {}
    <3>1. Max(Earlier(k, r)) \in Earlier(k, r) BY <2>5, MaxMonth DEF Earlier
    <3>2. Max(Earlier(k, r)) \in Months /\ Max(Earlier(k, r)) # m
      BY <2>2, <3>1 DEF Earlier, Months
    <3> QED BY <1>2, <2>3, <3>2 DEF Balance
  <2> QED BY <2>4, <2>5
<1> SUFFICES ASSUME NEW k \in Months, NEW r \in Recipients, payout'[k][r] # None
             PROVE  payout'[k][r].carried = Balance(k, r)'
  BY DEF CarriedExactly
<1>5. CASE k = m
  <2>1. row[r].carried = Balance(m, r) BY <1>3, <1>5 DEF PayoutsInv, CarriedExactly
  <2> QED BY <1>3, <1>4, <1>5, <2>1 DEF Months
<1>6. CASE k # m
  <2>1. payout[k][r] # None /\ k <= m BY <1>2, <1>6 DEF Months
  <2> QED BY <1>2, <1>4, <1>6, <2>1 DEF PayoutsInv, CarriedExactly
<1> QED BY <1>5, <1>6

LEMMA CommitGenerateInv ==
  ASSUME PayoutsInv, CommitGenerate
  PROVE  PayoutsInv'
<1> DEFINE m == sequence.month
           p == sequence.prepared
           row == [r \in Recipients |->
                     IF p.earned[r] = None THEN payout[m][r] ELSE Refreshed(m, r, p)]
<1>1. sequence \in Generation /\ sequence # None /\ sequence.op = "generate"
  BY DEF CommitGenerate, PayoutsInv, TypeOK, Transition
<1>2. m \in Months /\ p \in Components BY <1>1 DEF Generation
<1>3. period[m] = "none" /\ GenerationInOrder(m)
  BY <1>1 DEF PayoutsInv, SequenceHolds
<1>4. /\ period' = [period EXCEPT ![m] = "draft"]
      /\ components' = [components EXCEPT ![m] = p]
      /\ payout' = [payout EXCEPT ![m] = row]
      /\ sequence' = None
      /\ UNCHANGED <<change, rule, activation>>
  BY DEF CommitGenerate, ruleVars
<1>5. row \in [Recipients -> Payout \cup {None}]
  BY <1>2, RefreshedType DEF PayoutsInv, TypeOK
<1>6. TypeOK' BY <1>2, <1>4, <1>5 DEF PayoutsInv, TypeOK, PeriodStatus
<1>7. InOrder' /\ NotGenerated'
  <2>1. \A k \in Months : m < k => period[k] = "none"
    BY <1>3 DEF GenerationInOrder, HasLater, Months
  <2>2. \A k \in Months : k < m => period[k] \in {"none", "finalized"}
    BY <1>3 DEF GenerationInOrder
  <2>3. \A k \in Months : k # m => period'[k] = period[k]
    BY <1>4 DEF PayoutsInv, TypeOK
  <2>4. InOrder'
    <3> SUFFICES ASSUME NEW k \in Months, NEW j \in Months, j > k, period'[j] # "none"
                 PROVE  period'[k] \in {"none", "finalized"}
      BY DEF InOrder, HasLater
    <3>1. ~(m < j) BY <2>1, <2>3 DEF Months
    <3>2. k < m BY <1>2, <3>1 DEF Months
    <3> QED BY <2>2, <2>3, <3>2 DEF Months
  <2>5. NotGenerated'
    BY <1>2, <1>4, <2>3 DEF PayoutsInv, TypeOK, NotGenerated
  <2> QED BY <2>4, <2>5
<1>8. CarriedExactly'
  <2>1. \A k \in Months, r \in Recipients : m < k => payout[k][r] = None
    BY <1>3 DEF GenerationInOrder, HasLater, Months, PayoutsInv, NotGenerated
  <2>2. \A r \in Recipients : payout[m][r] = None
    BY <1>2, <1>3 DEF PayoutsInv, NotGenerated
  <2>3. \A r \in Recipients : row[r] # None => row[r].carried = Balance(m, r)
    <3>1. TAKE r \in Recipients
    <3>2. HAVE row[r] # None
    <3>3. row[r] = Refreshed(m, r, p) BY <2>2, <3>2
    <3>4. Refreshed(m, r, p).carried = CarryInto(m, r) BY <2>2 DEF Refreshed
    <3>5. CarryInto(m, r) = Balance(m, r)
      BY <1>2, <1>3, PreviousIsEarlier DEF PayoutsInv, GenerationInOrder
    <3> QED BY <3>3, <3>4, <3>5
  <2> HIDE DEF row, m, p
  <2> QED BY <1>2, <1>4, <1>5, <2>1, <2>2, <2>3, CarriedStep
<1>9. SequenceHolds' /\ ChangeHolds'
  BY <1>2, <1>3, <1>4 DEF PayoutsInv, TypeOK, SequenceHolds, ChangeHolds
<1>10. ActivationHolds' /\ RulesDisjoint'
  BY <1>4 DEF PayoutsInv, ActivationHolds, RulesDisjoint
<1> QED BY <1>6, <1>7, <1>8, <1>9, <1>10 DEF PayoutsInv

LEMMA CommitChangeInv ==
  ASSUME PayoutsInv, NEW m \in Months, CommitChange(m)
  PROVE  PayoutsInv'
<1> DEFINE r == change[m].recipient
           c == [components[m] EXCEPT !.corrected[r] = @ + change[m].amount]
           row == [payout[m] EXCEPT ![r] = Refreshed(m, r, c)]
<1>1. change[m] \in Correction /\ period[m] \in {"draft", "review"}
  BY DEF CommitChange, PayoutsInv, TypeOK, ChangeHolds
<1>2. r \in Recipients /\ change[m].amount \in Int BY <1>1 DEF Correction
<1>3. c \in Components
  <2>1. components[m] \in Components BY DEF PayoutsInv, TypeOK
  <2> QED BY <1>2, <2>1 DEF Components
<1>4. /\ components' = [components EXCEPT ![m] = c]
      /\ payout' = [payout EXCEPT ![m] = row]
      /\ change' = [change EXCEPT ![m] = None]
      /\ UNCHANGED <<period, sequence, rule, activation>>
  BY DEF CommitChange, ruleVars
<1>5. row \in [Recipients -> Payout \cup {None}]
  BY <1>2, <1>3, RefreshedType DEF PayoutsInv, TypeOK
<1>6. TypeOK' BY <1>3, <1>4, <1>5 DEF PayoutsInv, TypeOK
<1>7. ~HasLater(m) BY <1>1 DEF PayoutsInv, InOrder
<1>8. InOrder' BY <1>4 DEF PayoutsInv, InOrder, HasLater
<1>9. NotGenerated' BY <1>1, <1>4 DEF PayoutsInv, TypeOK, NotGenerated
<1>10. CarriedExactly'
  <2>1. \A k \in Months, q \in Recipients : m < k => payout[k][q] = None
    BY <1>7 DEF HasLater, Months, PayoutsInv, NotGenerated
  <2>2. \A k \in Months : k < m => period[k] \in {"none", "finalized"}
    BY <1>1 DEF PayoutsInv, InOrder, HasLater, Months
  <2>3. CarryInto(m, r) = Balance(m, r)
    <3> HIDE DEF r
    <3> QED BY <1>2, <2>2, PreviousIsEarlier DEF PayoutsInv
  <2>4. \A q \in Recipients :
          row[q] # None => row[q].carried = IF payout[m][q] = None THEN Balance(m, q)
                                             ELSE payout[m][q].carried
    <3>1. TAKE q \in Recipients
    <3>2. HAVE row[q] # None
    <3>3. payout[m] \in [Recipients -> Payout \cup {None}] BY DEF PayoutsInv, TypeOK
    <3>4. CASE q = r
      <4>1. row[q] = Refreshed(m, r, c) BY <1>2, <3>3, <3>4
      <4>2. Refreshed(m, r, c).carried =
              IF payout[m][r] = None THEN CarryInto(m, r) ELSE payout[m][r].carried
        BY DEF Refreshed
      <4> QED BY <2>3, <3>4, <4>1, <4>2
    <3>5. CASE q # r
      <4>1. row[q] = payout[m][q] BY <3>3, <3>5
      <4> QED BY <3>2, <4>1
    <3> QED BY <3>4, <3>5
  <2> HIDE DEF row
  <2> QED BY <1>4, <1>5, <2>1, <2>4, CarriedStep
<1>11. SequenceHolds'
  BY <1>4 DEF PayoutsInv, TypeOK, SequenceHolds, GenerationInOrder, HasLater
<1>12. ChangeHolds' BY <1>4 DEF PayoutsInv, TypeOK, ChangeHolds
<1>13. ActivationHolds' /\ RulesDisjoint'
  BY <1>4 DEF PayoutsInv, ActivationHolds, RulesDisjoint
<1> QED BY <1>6, <1>8, <1>9, <1>10, <1>11, <1>12, <1>13 DEF PayoutsInv

LEMMA PayoutsNextInv == PayoutsInv /\ [Next]_vars => PayoutsInv'
<1> SUFFICES ASSUME PayoutsInv, [Next]_vars PROVE PayoutsInv'
  OBVIOUS
<1>1. CASE UNCHANGED vars
  <2>1. UNCHANGED ledgerVars /\ UNCHANGED <<sequence, change, rule, activation>>
    BY <1>1 DEF vars, ledgerVars
  <2>2. TypeOK' BY <2>1 DEF PayoutsInv, TypeOK, ledgerVars
  <2>3. SequenceHolds' /\ ChangeHolds'
    BY <2>1 DEF PayoutsInv, SequenceHolds, ChangeHolds, HasLater, GenerationInOrder, ledgerVars
  <2>4. ActivationHolds' /\ RulesDisjoint'
    BY <2>1 DEF PayoutsInv, ActivationHolds, RulesDisjoint
  <2> QED BY <2>1, <2>2, <2>3, <2>4, LedgerUnchanged DEF PayoutsInv
<1>2. ASSUME NEW c \in Rules, NextRule(c) PROVE PayoutsInv'
  BY <1>2, RuleStepInv
<1>3. ASSUME NEW m \in Months, NextPeriod(m) PROVE PayoutsInv'
  BY <1>3, LockStepInv, ReviewInv, CommitChangeInv DEF NextPeriod
<1>4. CASE NextSequence
  <2>1. CASE CommitGenerate BY <2>1, CommitGenerateInv
  <2>2. CASE CommitTransition BY <2>2, CommitTransitionInv
  <2>3. CASE LockPeriod \/ FailSequence
    <3>1. sequence.month \in Months
      BY <2>3 DEF LockPeriod, FailSequence, PayoutsInv, TypeOK, Generation, Transition
    <3> QED BY <2>3, <3>1, LockStepInv
  <2> QED BY <1>4, <2>1, <2>2, <2>3 DEF NextSequence
<1> QED BY <1>1, <1>2, <1>3, <1>4 DEF Next

LEMMA PayoutsInvariance == Spec => []PayoutsInv
<1> QED BY PayoutsInitInv, PayoutsNextInv, PTL DEF Spec

-----------------------------------------------------------------------------
(* Theorems.                                                                 *)

\* The rows of finance/models.py keep their types: what is payable is never
\* negative.
THEOREM PayoutsTypeCorrect == Spec => []TypeOK
<1>1. PayoutsInv => TypeOK BY DEF PayoutsInv
<1> QED BY PayoutsInvariance, <1>1, PTL

\* Whatever generations, reviews, finalisations and reopenings overlap, every period
\* before the last is final (_lock_payout_sequence, _assert_generation_order).
THEOREM PeriodsInOrder == Spec => []InOrder
<1>1. PayoutsInv => InOrder BY DEF PayoutsInv
<1> QED BY PayoutsInvariance, <1>1, PTL

\* The balance a payout was given (previous_carry in _refresh_payout) is the one the
\* recipient's latest earlier payout leaves, for good.
THEOREM CarriedForGood == Spec => []CarriedExactly
<1>1. PayoutsInv => CarriedExactly BY DEF PayoutsInv
<1> QED BY PayoutsInvariance, <1>1, PTL

\* No event has two active rules of its variant (set_rule_status): generation never
\* meets COMMISSION_RULE_AMBIGUOUS among them.
THEOREM ActiveRulesDisjoint == Spec => []RulesDisjoint
<1>1. PayoutsInv => RulesDisjoint BY DEF PayoutsInv
<1> QED BY PayoutsInvariance, <1>1, PTL

\* A step of the inductive invariant writes no component or payout of a finalized
\* period, and nothing of a period with a later one.
LEMMA StepClosed ==
  ASSUME PayoutsInv, [Next]_vars, NEW m \in Months
  PROVE  /\ period[m] = "finalized" => UNCHANGED <<components[m], payout[m]>>
         /\ HasLater(m) => UNCHANGED <<period[m], components[m], payout[m]>>
<1> DEFINE Closed ==
      /\ period[m] = "finalized" => UNCHANGED <<components[m], payout[m]>>
      /\ HasLater(m) => UNCHANGED <<period[m], components[m], payout[m]>>
<1>1. /\ period \in [Months -> PeriodStatus]
      /\ HasLater(m) => period[m] \in {"none", "finalized"}
  BY DEF PayoutsInv, TypeOK, InOrder
<1>2. CASE UNCHANGED ledgerVars BY <1>2 DEF ledgerVars
<1>3. ASSUME NEW k \in Months, Review(k) PROVE Closed
  <2>1. /\ period[k] = "draft" /\ period' = [period EXCEPT ![k] = "review"]
        /\ UNCHANGED <<components, payout>>
    BY <1>3 DEF Review
  <2> QED BY <1>1, <2>1
<1>4. ASSUME NEW k \in Months, CommitChange(k) PROVE Closed
  <2>1. period[k] \in {"draft", "review"} BY <1>4 DEF CommitChange, PayoutsInv, ChangeHolds
  <2>2. /\ UNCHANGED period
        /\ k # m => components'[m] = components[m] /\ payout'[m] = payout[m]
    BY <1>4 DEF CommitChange, PayoutsInv, TypeOK
  <2> QED BY <1>1, <2>1, <2>2
<1>5. CASE CommitGenerate
  <2> DEFINE k == sequence.month
  <2>1. k \in Months /\ period[k] = "none" /\ ~HasLater(k)
    BY <1>5 DEF CommitGenerate, PayoutsInv, TypeOK, Transition, Generation, SequenceHolds,
       GenerationInOrder
  <2>2. k # m => /\ period'[m] = period[m] /\ components'[m] = components[m]
                 /\ payout'[m] = payout[m]
    BY <1>5 DEF CommitGenerate, PayoutsInv, TypeOK
  <2> QED BY <2>1, <2>2
<1>6. CASE CommitTransition
  <2> DEFINE k == sequence.month
  <2>1. sequence \in Transition /\ sequence # None
    BY <1>6 DEF CommitTransition, PayoutsInv, TypeOK, Generation
  <2>2. /\ period[k] = Expected(sequence.op)
        /\ sequence.op = "reopen" => ~HasLater(k)
    BY <1>6, <2>1 DEF CommitTransition, PayoutsInv, SequenceHolds, Transition
  <2>3. sequence.op = "finalize" => period[k] = "review" BY <2>2 DEF Expected
  <2>4. sequence.op \in {"finalize", "reopen"} BY <2>1 DEF Transition
  <2>5. /\ UNCHANGED <<components, payout>>
        /\ k # m => period'[m] = period[m]
    BY <1>1, <1>6 DEF CommitTransition
  <2> QED BY <1>1, <2>2, <2>3, <2>4, <2>5
<1>7. CASE UNCHANGED vars BY <1>7 DEF vars
<1>8. ASSUME NEW c \in Rules, NextRule(c) PROVE Closed
  BY <1>2, <1>8
     DEF NextRule, CheckActivation, CommitActivation, FailActivation, Deactivate
<1>9. ASSUME NEW k \in Months, NextPeriod(k) PROVE Closed
  BY <1>2, <1>3, <1>4, <1>9 DEF NextPeriod, BeginGenerate, BeginTransition, BeginChange,
     FailChange
<1>10. CASE NextSequence
  BY <1>2, <1>5, <1>6, <1>10 DEF NextSequence, LockPeriod, FailSequence
<1> QED BY <1>7, <1>8, <1>9, <1>10 DEF Next

\* A period that a later one has carried on from never changes, and a finalized one
\* takes no adjustment or clawback, also one that was under way when it was finalized
\* (_require_editable under the row lock, _assert_no_downstream_period).
THEOREM ClosedPeriodsStand == Spec => ClosedStands
<1>1. PayoutsInv /\ [Next]_vars =>
        [\A m \in Months :
           /\ period[m] = "finalized" => UNCHANGED <<components[m], payout[m]>>
           /\ HasLater(m) => UNCHANGED <<period[m], components[m], payout[m]>>]_vars
  BY StepClosed
<1> QED BY PayoutsInvariance, <1>1, PTL DEF Spec, ClosedStands

-----------------------------------------------------------------------------
(* Cents: what the amounts of a split and of a payout come to.               *)

\* The sums of the model are those of Sums.
LEMMA TotalsAreSums ==
  ASSUME NEW f, NEW S
  PROVE  SumFunctionOnSet(f, S) = SumOver(f, S)
<1> QED BY DEF SumFunctionOnSet, FoldFunctionOnSet, SumOver, MapThenSumSet

\* The largest remainder: as many cents are left over as recipients can take one of,
\* and the shares come to the pool.
LEMMA SharesComeToPool ==
  ASSUME NEW c \in Rules \ Independent, NEW pool \in Nat
  PROVE  LET D == DOMAIN Percent[c]
         IN  /\ SumOver([r \in D |-> Allocate(pool, c, r)], D) = pool
             /\ \A r \in D : Floor(pool, c, r) \in Nat /\ Allocate(pool, c, r) \in Nat
             /\ \A r, q \in D : r \in Ahead(pool, c, q)
                                  => Cardinality(Ahead(pool, c, r)) <= Cardinality(Ahead(pool, c, q))
<1> DEFINE D == DOMAIN Percent[c]
           floor == [r \in D |-> Floor(pool, c, r)]
           rest == [r \in D |-> Remainder(pool, c, r)]
           A == [r \in D |-> Ahead(pool, c, r)]
           left == Residual(pool, c)
           extra == [r \in D |-> IF Cardinality(A[r]) < left THEN 1 ELSE 0]
           share == [r \in D |-> Allocate(pool, c, r)]
<1>1. /\ D \in SUBSET Recipients /\ Percent[c] \in [D -> 1..100]
      /\ IsFiniteSet(D) /\ SumOver(Percent[c], D) = 100
  <2>1. D \in SUBSET Recipients /\ Percent[c] \in [D -> 1..100] /\ IsFiniteSet(Recipients)
    BY PayoutAssumption
  <2>2. SumFunction(Percent[c]) = 100 BY SplitAssumption
  <2>3. SumFunctionOnSet(Percent[c], D) = 100 BY <2>2 DEF SumFunction
  <2> HIDE DEF D
  <2> QED BY <2>1, <2>3, FS_Subset, TotalsAreSums
<1>2. \A r \in D : /\ floor[r] \in Nat /\ floor[r] \in Int
                   /\ rest[r] \in 0..99 /\ rest[r] \in Int /\ Percent[c][r] \in Int
                   /\ pool * Percent[c][r] = 100 * floor[r] + rest[r]
  <2>1. TAKE r \in D
  <2>2. Percent[c][r] \in Nat BY <1>1
  <2>3. PICK n \in Nat : n = pool * Percent[c][r] BY <2>2
  <2>4. n \div 100 \in Nat BY <2>3
  <2>5. n % 100 \in 0..99 BY <2>3
  <2>6. n % 100 = n - 100 * (n \div 100) BY SMT
  <2>7. floor[r] = n \div 100 /\ rest[r] = n % 100 BY <2>3 DEF Floor, Remainder
  <2> HIDE DEF floor, rest
  <2> QED BY <2>2, <2>3, <2>4, <2>5, <2>6, <2>7
<1>3. left = pool - SumOver(floor, D)
  BY TotalsAreSums DEF Residual, SumFunction
<1>4. pool * SumOver(Percent[c], D) = 100 * SumOver(floor, D) + SumOver(rest, D)
  <2> HIDE DEF floor, rest, D
  <2>1. pool \in Int /\ 100 \in Int OBVIOUS
  <2>2. \A r \in D : Percent[c][r] \in Int /\ floor[r] \in Int /\ rest[r] \in Int
    BY <1>2
  <2>3. \A r \in D : pool * Percent[c][r] = 100 * floor[r] + rest[r] BY <1>2
  <2>4. PICK f : f = Percent[c] OBVIOUS
  <2>5. \A r \in D : f[r] \in Int /\ floor[r] \in Int /\ rest[r] \in Int BY <2>2, <2>4
  <2>6. \A r \in D : pool * f[r] = 100 * floor[r] + rest[r] BY <2>3, <2>4
  <2>7. pool * SumOver(f, D) = 100 * SumOver(floor, D) + SumOver(rest, D)
    BY <1>1, <2>1, <2>5, <2>6, SumOverLinear
  <2> QED BY <2>4, <2>7
<1>5. SumOver(rest, D) \in Nat /\ SumOver(rest, D) <= 99 * Cardinality(D)
  <2>1. IsFiniteSet(D) /\ 99 \in Nat /\ \A r \in D : rest[r] \in 0..99 BY <1>1, <1>2
  <2> HIDE DEF rest, D
  <2> QED BY <2>1, SumOverBound
<1>6. SumOver(floor, D) \in Int /\ Cardinality(D) \in Nat
  <2> HIDE DEF floor, D
  <2> QED BY <1>1, <1>2, SumOverType, FS_CardinalityType
<1>7. left \in 0..Cardinality(D)
  <2> HIDE DEF left, floor, rest, D
  <2>1. pool * 100 = 100 * SumOver(floor, D) + SumOver(rest, D) BY <1>1, <1>4
  <2>2. 100 * left = SumOver(rest, D) BY <1>3, <1>6, <2>1, <1>5
  <2> QED BY <1>3, <1>5, <1>6, <2>2
<1>8. /\ A \in [D -> SUBSET D]
      /\ \A r \in D : r \notin A[r] /\ \A q \in A[r] : A[q] \subseteq A[r]
      /\ \A r, q \in D : r # q => r \in A[q] \/ q \in A[r]
  <2>1. \A r \in D : rest[r] \in Int /\ SortOrder[r] \in Int
    <3>1. \A r \in D : r \in Recipients BY <1>1
    <3>2. \A r \in Recipients : SortOrder[r] \in Int BY PayoutAssumption
    <3> HIDE DEF rest, D
    <3> QED BY <1>2, <3>1, <3>2
  <2>2. \A r, q \in D : r # q => SortOrder[r] # SortOrder[q]
    BY <1>1, PayoutAssumption, SplitAssumption DEF IsInjective
  <2>3. \A r, q \in D : q \in A[r] <=> (\/ rest[q] > rest[r]
                                        \/ rest[q] = rest[r] /\ SortOrder[q] < SortOrder[r])
    BY DEF Ahead
  <2>4. A \in [D -> SUBSET D] BY DEF Ahead
  <2> HIDE DEF A, rest, D
  <2>5. \A r \in D : r \notin A[r] BY <2>1, <2>3
  <2>6. ASSUME NEW r \in D, NEW q \in A[r], NEW p \in A[q] PROVE p \in A[r]
    <3>1. q \in D /\ p \in D BY <2>4, <2>6
    <3> QED BY <2>1, <2>3, <2>6, <3>1
  <2>7. \A r, q \in D : r # q => r \in A[q] \/ q \in A[r]
    BY <2>1, <2>2, <2>3
  <2> QED BY <2>4, <2>5, <2>6, <2>7
<1>9. Cardinality({r \in D : Cardinality(A[r]) < left}) = left
  <2> HIDE DEF A, D, left
  <2> QED BY <1>1, <1>7, <1>8, FirstOfOrder
<1>10. SumOver(extra, D) = left
  <2> DEFINE E == {r \in D : Cardinality(A[r]) < left}
  <2>1. E \in SUBSET D /\ \A r \in D : extra[r] = IF r \in E THEN 1 ELSE 0
    OBVIOUS
  <2> HIDE DEF extra, E
  <2>2. SumOver(extra, D) = Cardinality(E) BY <1>1, <2>1, SumOverCounts
  <2> QED BY <1>9, <2>2 DEF E
<1>11. \A r \in D : extra[r] \in {0, 1} /\ share[r] = floor[r] + extra[r]
  BY DEF Allocate
<1>12. SumOver(share, D) = SumOver(floor, D) + SumOver(extra, D) /\ SumOver(share, D) \in Int
  <2>1. \A r \in D : share[r] \in Int /\ floor[r] \in Int /\ extra[r] \in Int
    <3> HIDE DEF floor, rest, extra, share
    <3> QED BY <1>2, <1>11
  <2>2. \A r \in D : 1 * share[r] = 1 * floor[r] + extra[r]
    <3> HIDE DEF floor, extra, share
    <3> QED BY <1>11, <2>1
  <2> HIDE DEF floor, extra, share, D
  <2>3. 1 * SumOver(share, D) = 1 * SumOver(floor, D) + SumOver(extra, D)
    BY <1>1, <2>1, <2>2, SumOverLinear
  <2>4. SumOver(share, D) \in Int /\ SumOver(extra, D) \in Int BY <1>1, <2>1, SumOverType
  <2> QED BY <1>6, <2>3, <2>4
<1>13. SumOver(share, D) = pool
  <2> HIDE DEF floor, extra, share, D, left
  <2> QED BY <1>3, <1>6, <1>7, <1>10, <1>12
<1>14. \A r \in D : Floor(pool, c, r) \in Nat /\ Allocate(pool, c, r) \in Nat
  <2>1. \A r \in D : Floor(pool, c, r) \in Nat BY <1>2
  <2> QED BY <2>1 DEF Allocate
<1>15. \A r, q \in D : r \in Ahead(pool, c, q)
                         => Cardinality(Ahead(pool, c, r)) <= Cardinality(Ahead(pool, c, q))
  <2>1. TAKE r, q \in D
  <2>2. HAVE r \in Ahead(pool, c, q)
  <2>3. A[r] \in SUBSET A[q] /\ A[q] \in SUBSET D BY <1>8, <2>2
  <2>4. IsFiniteSet(A[q]) BY <1>1, <2>3, FS_Subset
  <2>5. Cardinality(A[r]) <= Cardinality(A[q]) BY <2>3, <2>4, FS_Subset
  <2> QED BY <2>5
<1> QED BY <1>13, <1>14, <1>15

\* What generation prepares and keeps of a split, and what a payout row keeps of the
\* components.
SplitKept(c) ==
  c.rule \in Rules \ Independent =>
    \A r \in DOMAIN Percent[c.rule] : c.earned[r] = Allocate(c.pool, c.rule, r)

RowKept(row, c, r) ==
  IF row = None THEN Earned(c, r) + c.corrected[r] = 0
  ELSE row.payable + row.carry = row.carried + Earned(c, r) + c.corrected[r]

CentsHold ==
  /\ \A m \in Months : SplitKept(components[m])
  /\ \A m \in Months, r \in Recipients : RowKept(payout[m][r], components[m], r)
  /\ (sequence # None /\ sequence.op = "generate") =>
       /\ SplitKept(sequence.prepared)
       /\ \A r \in Recipients : sequence.prepared.corrected[r] = 0

\* Splits kept are exact.
LEMMA KeptSplitsExact ==
  ASSUME TypeOK, \A m \in Months : SplitKept(components[m])
  PROVE  SplitExact
<1> SUFFICES ASSUME NEW m \in Months, components[m].rule \in Rules \ Independent
             PROVE  LET c == components[m].rule
                        pool == components[m].pool
                        extra(r) == components[m].earned[r] - Floor(pool, c, r)
                    IN  /\ SumFunctionOnSet(components[m].earned, DOMAIN Percent[c]) = pool
                        /\ \A r, q \in DOMAIN Percent[c] :
                             /\ extra(r) \in {0, 1}
                             /\ r \in Ahead(pool, c, q) => extra(q) <= extra(r)
  BY DEF SplitExact
<1> DEFINE c == components[m].rule
           pool == components[m].pool
           earned == components[m].earned
           D == DOMAIN Percent[c]
           share == [r \in D |-> Allocate(pool, c, r)]
<1>1. c \in Rules \ Independent /\ pool \in Nat
  BY DEF TypeOK, Components
<1>2. /\ SumOver(share, D) = pool
      /\ \A r \in D : Floor(pool, c, r) \in Nat /\ Allocate(pool, c, r) \in Nat
      /\ \A r, q \in D : r \in Ahead(pool, c, q)
                           => Cardinality(Ahead(pool, c, r)) <= Cardinality(Ahead(pool, c, q))
  <2> HIDE DEF c, pool
  <2> QED BY <1>1, SharesComeToPool
<1>3. \A r \in D : earned[r] = Allocate(pool, c, r) BY DEF SplitKept
<1>4. IsFiniteSet(D) /\ D \subseteq Recipients
  <2>1. D \subseteq Recipients /\ IsFiniteSet(Recipients) BY <1>1, PayoutAssumption
  <2> HIDE DEF D
  <2> QED BY <2>1, FS_Subset
<1>5. SumFunctionOnSet(earned, D) = pool
  <2>1. share \in [D -> Int] /\ \A r \in D : earned[r] = share[r] BY <1>2, <1>3
  <2> HIDE DEF share, earned, D, pool
  <2>2. SumOver(earned, D) = SumOver(share, D) BY <1>4, <2>1, SumOverAgrees
  <2> QED BY <1>2, <2>2, TotalsAreSums
<1>6. ASSUME NEW r \in D, NEW q \in D
      PROVE  /\ earned[r] - Floor(pool, c, r) \in {0, 1}
             /\ r \in Ahead(pool, c, q)
                  => earned[q] - Floor(pool, c, q) <= earned[r] - Floor(pool, c, r)
  <2> DEFINE gets(x) == IF Cardinality(Ahead(pool, c, x)) < Residual(pool, c) THEN 1 ELSE 0
  <2>1. \A x \in D : earned[x] = Floor(pool, c, x) + gets(x) BY <1>3 DEF Allocate
  <2>2. \A x \in D : earned[x] - Floor(pool, c, x) = gets(x)
    <3>1. \A x \in D : gets(x) \in Int /\ Floor(pool, c, x) \in Int BY <1>2
    <3> HIDE DEF gets, earned, D, pool, c
    <3> QED BY <2>1, <3>1
  <2>3. \A x \in D : Cardinality(Ahead(pool, c, x)) \in Nat
    <3>1. TAKE x \in D
    <3>2. Ahead(pool, c, x) \in SUBSET D BY DEF Ahead
    <3> HIDE DEF D
    <3> QED BY <1>4, <3>2, FS_Subset, FS_CardinalityType
  <2>4. Residual(pool, c) \in Int
    <3> DEFINE floor == [x \in D |-> Floor(pool, c, x)]
    <3>1. \A x \in D : floor[x] \in Int BY <1>2
    <3>2. Residual(pool, c) = pool - SumOver(floor, D)
      BY TotalsAreSums DEF Residual, SumFunction
    <3> HIDE DEF floor, D
    <3>3. SumOver(floor, D) \in Int BY <1>4, <3>1, SumOverType
    <3> QED BY <1>1, <3>2, <3>3
  <2>5. r \in Ahead(pool, c, q) => gets(q) <= gets(r)
    BY <1>2, <1>6, <2>3, <2>4
  <2>6. gets(r) \in {0, 1} OBVIOUS
  <2> HIDE DEF gets, earned
  <2> QED BY <1>6, <2>2, <2>5, <2>6
<1> HIDE DEF earned
<1> QED BY <1>5, <1>6 DEF earned

\* What the components come to in a month is what is paid and what the balance grows
\* by.
LEMMA MonthBalances ==
  ASSUME TypeOK, CarriedExactly, NEW r \in Recipients, NEW n \in Months,
         RowKept(payout[n][r], components[n], r)
  PROVE  /\ Balance(n, r) \in Int /\ Balance(n + 1, r) \in Int
         /\ payout[n][r] # None => payout[n][r].payable \in Int
         /\ Earned(components[n], r) + components[n].corrected[r] =
              (IF payout[n][r] = None THEN 0 ELSE payout[n][r].payable)
                + Balance(n + 1, r) - Balance(n, r)
<1>1. \A m \in Months : payout[m][r] # None => payout[m][r] \in Payout
  BY DEF TypeOK
<1>2. ASSUME NEW m \in 1..(LastMonth + 1) PROVE Balance(m, r) \in Int
  <2>1. CASE Earlier(m, r) = {} BY <2>1 DEF Balance
  <2>2. CASE Earlier(m, r) # {}
    <3>1. Max(Earlier(m, r)) \in Earlier(m, r) BY <2>2, MaxMonth DEF Earlier
    <3>2. payout[Max(Earlier(m, r))][r] \in Payout BY <1>1, <3>1 DEF Earlier
    <3> QED BY <2>2, <3>2 DEF Balance, Payout
  <2> QED BY <2>1, <2>2
<1>3. n \in Int /\ n + 1 \in Int /\ n \in 1..(LastMonth + 1) /\ n + 1 \in 1..(LastMonth + 1)
  BY PayoutAssumption DEF Months
<1>4. Balance(n, r) \in Int /\ Balance(n + 1, r) \in Int BY <1>2, <1>3
<1>5. Earlier(n + 1, r) = IF payout[n][r] = None THEN Earlier(n, r) ELSE Earlier(n, r) \cup {n}
  BY DEF Earlier, Months
<1>6. CASE payout[n][r] = None
  <2>1. Balance(n + 1, r) = Balance(n, r) BY <1>5, <1>6 DEF Balance
  <2>2. Earned(components[n], r) + components[n].corrected[r] = 0 BY <1>6 DEF RowKept
  <2> QED BY <1>4, <1>6, <2>1, <2>2
<1>7. CASE payout[n][r] # None
  <2> DEFINE S == Earlier(n + 1, r)
             row == payout[n][r]
  <2>1. S \in SUBSET Months /\ n \in S /\ \A k \in S : k <= n
    BY <1>5, <1>7 DEF Earlier, Months
  <2>2. Max(S) = n
    <3>1. Max(S) \in S /\ n <= Max(S) BY <2>1, MaxMonth
    <3>2. PICK x : x = Max(S) OBVIOUS
    <3>3. x \in S /\ n <= x BY <3>1, <3>2
    <3>4. x \in Int /\ x <= n
      <4> HIDE DEF S
      <4> QED BY <2>1, <3>3, PayoutAssumption DEF Months
    <3>5. x = n BY <1>3, <3>3, <3>4
    <3> QED BY <3>2, <3>5
  <2>3. Balance(n + 1, r) = row.carry BY <2>1, <2>2 DEF Balance
  <2>4. row.carried = Balance(n, r) BY <1>7 DEF CarriedExactly
  <2>5. row.payable \in Int /\ row.carry \in Int /\ row.carried \in Int
    BY <1>1, <1>7 DEF Payout
  <2>6. components[n] \in Components BY DEF TypeOK
  <2>7. Earned(components[n], r) \in Int /\ components[n].corrected[r] \in Int
    BY <2>6 DEF Components, Earned
  <2>8. row.payable + row.carry = row.carried + Earned(components[n], r) + components[n].corrected[r]
    BY <1>7 DEF RowKept
  <2>9. ASSUME NEW a \in Int, NEW b \in Int, NEW p \in Int, NEW q \in Int, NEW o \in Int,
               p + q = o + a + b
        PROVE  a + b = p + q - o
    BY <2>9
  <2> HIDE DEF row
  <2>10. Earned(components[n], r) + components[n].corrected[r] = row.payable + row.carry - row.carried
    BY <2>5, <2>7, <2>8, <2>9
  <2> QED BY <1>4, <1>7, <2>3, <2>4, <2>5, <2>10 DEF row
<1> QED BY <1>6, <1>7

\* So all that the components come to is what is paid and what is still carried.
LEMMA RecipientConserved ==
  ASSUME TypeOK, CarriedExactly, NEW r \in Recipients,
         \A m \in Months : RowKept(payout[m][r], components[m], r)
  PROVE  Total([m \in Months |-> Earned(components[m], r) + components[m].corrected[r]])
           = Total([m \in Months |-> IF payout[m][r] = None THEN 0 ELSE payout[m][r].payable])
               + Balance(LastMonth + 1, r)
<1> DEFINE earns == [m \in Months |-> Earned(components[m], r) + components[m].corrected[r]]
           pays == [m \in Months |-> IF payout[m][r] = None THEN 0 ELSE payout[m][r].payable]
           b == [m \in 1..(LastMonth + 1) |-> Balance(m, r)]
<1>1. LastMonth \in Nat /\ Months = 1..LastMonth BY PayoutAssumption DEF Months
<1>2. b[1] = 0
  <2>1. Earlier(1, r) = {} BY DEF Earlier, Months
  <2> QED BY <1>1, <2>1 DEF Balance
<1>3. \A m \in 1..(LastMonth + 1) : b[m] = Balance(m, r) OBVIOUS
<1>4. \A m \in 1..LastMonth :
        /\ earns[m] \in Int /\ pays[m] \in Int /\ b[m] \in Int /\ b[m + 1] \in Int
        /\ earns[m] = pays[m] + b[m + 1] - b[m]
  <2>1. TAKE m \in 1..LastMonth
  <2>2. m \in 1..(LastMonth + 1) /\ m + 1 \in 1..(LastMonth + 1) /\ m \in Months BY <1>1
  <2>3. /\ Balance(m, r) \in Int /\ Balance(m + 1, r) \in Int
        /\ payout[m][r] # None => payout[m][r].payable \in Int
        /\ Earned(components[m], r) + components[m].corrected[r] =
             (IF payout[m][r] = None THEN 0 ELSE payout[m][r].payable)
               + Balance(m + 1, r) - Balance(m, r)
    BY <2>2, MonthBalances
  <2>4. earns[m] = Earned(components[m], r) + components[m].corrected[r]
        /\ pays[m] = IF payout[m][r] = None THEN 0 ELSE payout[m][r].payable
    BY <2>2
  <2>5. b[m] = Balance(m, r) /\ b[m + 1] = Balance(m + 1, r) BY <1>3, <2>2
  <2> HIDE DEF b, earns, pays
  <2>6. pays[m] \in Int BY <2>3, <2>4
  <2>7. earns[m] = pays[m] + b[m + 1] - b[m] BY <2>3, <2>4, <2>5
  <2> QED BY <2>3, <2>5, <2>6, <2>7
<1>5. \A m \in 1..(LastMonth + 1) : b[m] \in Int
  <2>1. TAKE m \in 1..(LastMonth + 1)
  <2>2. CASE m = 1 BY <1>2, <2>2
  <2>3. CASE m # 1
    <3>1. m - 1 \in 1..LastMonth /\ (m - 1) + 1 = m BY <1>1, <2>3
    <3> HIDE DEF b
    <3> QED BY <1>4, <3>1
  <2> QED BY <2>2, <2>3
<1> HIDE DEF earns, pays, b
<1>6. SumOver(earns, 1..LastMonth) = SumOver(pays, 1..LastMonth) + b[LastMonth + 1]
  <2>1. \A m \in 1..LastMonth :
          earns[m] \in Int /\ pays[m] \in Int /\ earns[m] = pays[m] + b[m + 1] - b[m]
    BY <1>4
  <2>2. PICK N \in Nat : N = LastMonth BY <1>1
  <2>3. /\ b[1] = 0 /\ \A m \in 1..(N + 1) : b[m] \in Int
        /\ \A m \in 1..N : earns[m] \in Int /\ pays[m] \in Int /\ earns[m] = pays[m] + b[m + 1] - b[m]
    BY <1>2, <1>5, <2>1, <2>2
  <2>4. Running(N, earns, pays, b) BY <2>3 DEF Running
  <2>5. SumOver(earns, 1..N) = SumOver(pays, 1..N) + b[N + 1] BY <2>4, SumOverBalance
  <2> QED BY <2>2, <2>5
<1>7. Total(earns) = Total(pays) + b[LastMonth + 1]
  BY <1>1, <1>6, TotalsAreSums DEF Total
<1>8. b[LastMonth + 1] = Balance(LastMonth + 1, r) BY <1>1, <1>3
<1> QED BY <1>7, <1>8 DEF earns, pays

\* The rows of a step are refreshed from the components it writes.
LEMMA RefreshedKeeps ==
  ASSUME TypeOK, NEW m \in Months, NEW r \in Recipients, NEW c \in Components
  PROVE  RowKept(Refreshed(m, r, c), c, r)
<1> DEFINE row == Refreshed(m, r, c)
           gross == row.carried + Earned(c, r) + c.corrected[r]
<1>1. row \in Payout BY RefreshedType
<1>2. row # None BY <1>1, PayoutAssumption
<1>3. row.carried \in Int /\ Earned(c, r) \in Int /\ c.corrected[r] \in Int
  BY <1>1 DEF Payout, Components, Earned
<1>4. row.payable = (IF gross > 0 THEN gross ELSE 0) /\ row.carry = (IF gross < 0 THEN gross ELSE 0)
  BY DEF Refreshed
<1>5. gross \in Int
  <2> HIDE DEF row
  <2> QED BY <1>3
<1>6. row.payable + row.carry = gross
  <2> HIDE DEF gross, row
  <2> QED BY <1>4, <1>5
<1> HIDE DEF row
<1>7. RowKept(row, c, r) BY <1>2, <1>6 DEF RowKept
<1> QED BY <1>7 DEF row

LEMMA CentsInit == Init => CentsHold
<1> SUFFICES ASSUME Init PROVE CentsHold
  OBVIOUS
<1>1. \A m \in Months : components[m] = NoComponents /\ sequence = None BY DEF Init
<1>2. SplitKept(NoComponents) BY PayoutAssumption DEF SplitKept, NoComponents
<1>3. \A r \in Recipients : RowKept(None, NoComponents, r)
  BY DEF RowKept, NoComponents, Earned
<1> QED BY <1>1, <1>2, <1>3 DEF CentsHold, Init

\* A generation prepares exact splits and no corrections.
LEMMA PreparedKeeps ==
  /\ \A c \in Rules, pool \in Pools :
       /\ SplitKept(Prepared(pool, c))
       /\ \A r \in Recipients : Prepared(pool, c).corrected[r] = 0
  /\ SplitKept(NoComponents)
  /\ \A r \in Recipients : NoComponents.corrected[r] = 0
<1>1. ASSUME NEW c \in Rules, NEW pool \in Pools
      PROVE  SplitKept(Prepared(pool, c)) /\ \A r \in Recipients : Prepared(pool, c).corrected[r] = 0
  <2>1. DOMAIN Percent[c] \subseteq Recipients BY PayoutAssumption
  <2> QED BY <2>1 DEF Prepared, SplitKept
<1>2. SplitKept(NoComponents) BY PayoutAssumption DEF SplitKept, NoComponents
<1> QED BY <1>1, <1>2 DEF NoComponents

LEMMA CentsNext == PayoutsInv /\ CentsHold /\ [Next]_vars => CentsHold'
<1> SUFFICES ASSUME PayoutsInv, CentsHold, [Next]_vars PROVE CentsHold'
  OBVIOUS
<1> DEFINE Quiet == UNCHANGED <<components, payout>> /\ (sequence' = sequence \/ sequence' = None)
<1>1. CASE Quiet BY <1>1 DEF CentsHold
<1>2. ASSUME NEW m \in Months, BeginGenerate(m) PROVE CentsHold'
  <2>1. PICK p : /\ sequence' = [op |-> "generate", month |-> m, prepared |-> p]
                 /\ SplitKept(p) /\ \A r \in Recipients : p.corrected[r] = 0
    BY <1>2, PreparedKeeps DEF BeginGenerate
  <2>2. UNCHANGED <<components, payout>> BY <1>2 DEF BeginGenerate, ledgerVars
  <2>3. sequence'.prepared = p BY <2>1
  <2> QED BY <2>1, <2>2, <2>3 DEF CentsHold
<1>3. ASSUME NEW m \in Months, NEW op \in {"finalize", "reopen"}, BeginTransition(m, op)
      PROVE  CentsHold'
  <2>1. sequence'.op # "generate" /\ UNCHANGED <<components, payout>>
    BY <1>3 DEF BeginTransition, ledgerVars
  <2> QED BY <2>1 DEF CentsHold
<1>4. CASE LockPeriod
  <2>1. sequence \in Transition BY <1>4 DEF LockPeriod, PayoutsInv, TypeOK, Generation
  <2>2. sequence'.op = sequence.op BY <1>4, <2>1 DEF LockPeriod, Transition
  <2>3. sequence'.op # "generate" /\ UNCHANGED <<components, payout>>
    BY <1>4, <2>2 DEF LockPeriod, ledgerVars
  <2> QED BY <2>3 DEF CentsHold
<1>5. CASE CommitGenerate
  <2> DEFINE m == sequence.month
             p == sequence.prepared
             row == [r \in Recipients |->
                       IF p.earned[r] = None THEN payout[m][r] ELSE Refreshed(m, r, p)]
  <2>1. sequence \in Generation /\ sequence # None /\ sequence.op = "generate"
    BY <1>5 DEF CommitGenerate, PayoutsInv, TypeOK, Transition
  <2>2. m \in Months /\ p \in Components BY <2>1 DEF Generation
  <2>3. period[m] = "none" BY <2>1 DEF PayoutsInv, SequenceHolds
  <2>4. /\ components' = [components EXCEPT ![m] = p]
        /\ payout' = [payout EXCEPT ![m] = row]
        /\ sequence' = None
    BY <1>5 DEF CommitGenerate
  <2>5. SplitKept(p) /\ \A r \in Recipients : p.corrected[r] = 0
    BY <2>1 DEF CentsHold
  <2>6. \A r \in Recipients : RowKept(row[r], p, r)
    <3>1. TAKE r \in Recipients
    <3>2. CASE p.earned[r] = None
      <4>1. row[r] = None BY <2>2, <2>3, <3>2 DEF PayoutsInv, NotGenerated
      <4>2. Earned(p, r) + p.corrected[r] = 0 BY <2>5, <3>2 DEF Earned
      <4> QED BY <4>1, <4>2 DEF RowKept
    <3>3. CASE p.earned[r] # None
      <4>1. row[r] = Refreshed(m, r, p) BY <3>3
      <4>2. RowKept(Refreshed(m, r, p), p, r)
        <5> HIDE DEF m, p
        <5> QED BY <2>2, RefreshedKeeps DEF PayoutsInv
      <4> QED BY <4>1, <4>2
    <3> QED BY <3>2, <3>3
  <2>7. \A k \in Months : /\ components'[k] = IF k = m THEN p ELSE components[k]
                          /\ payout'[k] = IF k = m THEN row ELSE payout[k]
    BY <2>4 DEF PayoutsInv, TypeOK
  <2> HIDE DEF row, p, m
  <2> QED BY <2>4, <2>5, <2>6, <2>7 DEF CentsHold
<1>6. ASSUME NEW m \in Months, CommitChange(m) PROVE CentsHold'
  <2> DEFINE r == change[m].recipient
             c == [components[m] EXCEPT !.corrected[r] = @ + change[m].amount]
             row == [payout[m] EXCEPT ![r] = Refreshed(m, r, c)]
  <2>1. change[m] \in Correction /\ components[m] \in Components
    BY <1>6 DEF CommitChange, PayoutsInv, TypeOK
  <2>2. r \in Recipients /\ change[m].amount \in Int BY <2>1 DEF Correction
  <2>3. c \in Components BY <2>1, <2>2 DEF Components
  <2>4. /\ components' = [components EXCEPT ![m] = c]
        /\ payout' = [payout EXCEPT ![m] = row]
        /\ sequence' = sequence
    BY <1>6 DEF CommitChange
  <2>5. /\ c.rule = components[m].rule /\ c.pool = components[m].pool
        /\ c.earned = components[m].earned
        /\ \A q \in Recipients : q # r => c.corrected[q] = components[m].corrected[q]
    BY <2>1, <2>2 DEF Components
  <2>6. SplitKept(c) BY <2>5 DEF CentsHold, SplitKept
  <2>7. \A q \in Recipients : RowKept(row[q], c, q)
    <3>1. TAKE q \in Recipients
    <3>2. payout[m] \in [Recipients -> Payout \cup {None}] BY DEF PayoutsInv, TypeOK
    <3>3. CASE q = r
      <4>1. row[q] = Refreshed(m, r, c) BY <2>2, <3>2, <3>3
      <4>2. RowKept(Refreshed(m, r, c), c, r)
        <5> HIDE DEF r, c
        <5> QED BY <2>2, <2>3, RefreshedKeeps DEF PayoutsInv
      <4> QED BY <3>3, <4>1, <4>2
    <3>4. CASE q # r
      <4>1. row[q] = payout[m][q] BY <3>2, <3>4
      <4>2. Earned(c, q) = Earned(components[m], q) /\ c.corrected[q] = components[m].corrected[q]
        BY <2>5, <3>4 DEF Earned
      <4>3. RowKept(payout[m][q], components[m], q) BY DEF CentsHold
      <4> HIDE DEF row, c
      <4> QED BY <4>1, <4>2, <4>3 DEF RowKept
    <3> QED BY <3>3, <3>4
  <2>8. \A k \in Months : /\ components'[k] = IF k = m THEN c ELSE components[k]
                          /\ payout'[k] = IF k = m THEN row ELSE payout[k]
    BY <2>4 DEF PayoutsInv, TypeOK
  <2> HIDE DEF row, c, r
  <2> QED BY <2>4, <2>6, <2>7, <2>8 DEF CentsHold
<1>7. CASE UNCHANGED vars BY <1>1, <1>7 DEF vars
<1>8. ASSUME NEW c \in Rules, NextRule(c) PROVE CentsHold'
  BY <1>1, <1>8 DEF NextRule, CheckActivation, CommitActivation, FailActivation, Deactivate, ledgerVars
<1>9. ASSUME NEW m \in Months, NextPeriod(m) PROVE CentsHold'
  <2>1. CASE Review(m) BY <1>1, <2>1 DEF Review
  <2>2. ASSUME NEW r \in Recipients, NEW amount \in Corrections, BeginChange(m, r, amount)
        PROVE  CentsHold'
    BY <1>1, <2>2 DEF BeginChange, ledgerVars
  <2>3. CASE FailChange(m) BY <1>1, <2>3 DEF FailChange, ledgerVars
  <2> QED BY <1>2, <1>3, <1>6, <1>9, <2>1, <2>2, <2>3 DEF NextPeriod
<1>10. CASE NextSequence
  <2>1. CASE CommitTransition BY <1>1, <2>1 DEF CommitTransition
  <2>2. CASE FailSequence BY <1>1, <2>2 DEF FailSequence, ledgerVars
  <2> QED BY <1>4, <1>5, <1>10, <2>1, <2>2 DEF NextSequence
<1> QED BY <1>7, <1>8, <1>9, <1>10 DEF Next

\* No cent is lost between pools and shares (largest_remainder_allocate), nor between
\* components and payouts (_refresh_payout), whatever is adjusted, clawed back,
\* reviewed and reopened in the meantime.
THEOREM CentsKeptHolds == Spec => []CentsKept
<1>1. Spec => [](PayoutsInv /\ CentsHold)
  <2>1. Init => PayoutsInv /\ CentsHold BY PayoutsInitInv, CentsInit
  <2>2. (PayoutsInv /\ CentsHold) /\ [Next]_vars => (PayoutsInv /\ CentsHold)' BY PayoutsNextInv, CentsNext
  <2> QED BY <2>1, <2>2, PTL DEF Spec
<1>2. PayoutsInv /\ CentsHold => CentsKept
  <2> SUFFICES ASSUME PayoutsInv, CentsHold PROVE CentsKept
    OBVIOUS
  <2>1. SplitExact BY KeptSplitsExact DEF PayoutsInv, CentsHold
  <2>2. Conserved
    BY RecipientConserved DEF Conserved, PayoutsInv, CentsHold
  <2> QED BY <2>1, <2>2 DEF CentsKept
<1> QED BY <1>1, <1>2, PTL

-----------------------------------------------------------------------------
(***************************************************************************)
(* Commission, for any number of rules and plans, terms and days.          *)
(***************************************************************************)

\* Of active rules and plans no two that are rivals have a day in common; card rules
\* may.
ActiveApart ==
  \A i, j \in Saved :
    /\ i # j /\ term[i].status = "active" /\ term[j].status = "active"
    /\ Rivals(term[i].terms, term[j].terms) /\ term[i].terms.kind # "card"
    => ~DatesMeet(term[i].terms, term[j].terms)

\* What an activation asked for still holds when it commits, because whoever could
\* become a rival waits for the same row.
ActivationsApart ==
  /\ activating \subseteq Saved
  /\ \A i, j \in activating : i # j => ~SameAnchor(term[i].terms, term[j].terms)
  /\ \A i \in activating : \A j \in Saved \ {i} :
       /\ term[j].status = "active" /\ Rivals(term[i].terms, term[j].terms)
       /\ term[i].terms.kind # "card"
       => ~DatesMeet(term[i].terms, term[j].terms)

VersionsDiffer ==
  \A i, j \in Saved :
    i # j => Series(term[i].terms) # Series(term[j].terms) \/ term[i].version # term[j].version

CommissionInv ==
  /\ term \in [Terms -> Row \cup {NoTerm}] /\ drafting \in [Terms -> Draft \cup {NoTerm}]
  /\ \A i \in Terms : drafting[i] # NoTerm => term[i] = NoTerm /\ Valid(drafting[i].terms)
  /\ \A i \in Saved : Valid(term[i].terms)
  /\ VersionsDiffer /\ ActiveApart /\ ActivationsApart

-----------------------------------------------------------------------------
\* What two terms of a series have in common.
LEMMA SeriesTells ==
  ASSUME NEW a \in Payloads, NEW b \in Payloads
  PROVE  /\ Series(a) = Series(b) => a.kind = b.kind
         /\ a.kind = b.kind /\ a.kind = "rule" =>
              (Series(a) = Series(b) <=> a.variant = b.variant /\ a.milestone = b.milestone)
         /\ a.kind = b.kind /\ a.kind = "card" => (Series(a) = Series(b) <=> a.variant = b.variant)
<1>1. \A p \in Payloads : p.kind \in {"plan", "rule", "card"} BY PayloadAssumption
<1>2. \A p \in Payloads : Series(p)[1] = p.kind BY <1>1 DEF Series
<1> QED BY <1>1, <1>2 DEF Series

LEMMA RivalsTell ==
  ASSUME NEW a \in Payloads, NEW b \in Payloads
  PROVE  /\ Rivals(a, b) <=> Rivals(b, a)
         /\ DatesMeet(a, b) <=> DatesMeet(b, a)
         /\ Rivals(a, b) /\ a.kind # "card" => SameAnchor(a, b)
  BY SeriesTells DEF Rivals, DatesMeet, SameAnchor

LEMMA SavedType ==
  ASSUME CommissionInv
  PROVE  /\ \A i \in Saved : /\ i \in Terms /\ term[i] \in Row /\ term[i].terms \in Payloads
                             /\ term[i].version \in Nat
         /\ IsFiniteSet(Saved)
<1>1. \A i \in Saved : i \in Terms /\ term[i] \in Row
  BY DEF CommissionInv, Saved
<1>2. IsFiniteSet(Saved) BY CommissionAssumption, FS_Subset DEF Saved
<1> QED BY <1>1, <1>2 DEF Row

LEMMA CommissionInitInv == CommissionInit => CommissionInv
  BY CommissionAssumption DEF CommissionInit, CommissionInv, Saved, VersionsDiffer, ActiveApart, ActivationsApart

\* The version a creation takes is a number.
LEMMA BeginDraftInv ==
  ASSUME CommissionInv, NEW i \in Terms, NEW payload \in Payloads, BeginDraft(i, payload)
  PROVE  CommissionInv'
<1> DEFINE K == {k \in Saved : Series(term[k].terms) = Series(payload)}
           V == {term[j].version : j \in K}
<1>1. V \subseteq Nat /\ IsFiniteSet(V)
  <2>1. K \subseteq Saved /\ IsFiniteSet(K) BY SavedType, FS_Subset
  <2> DEFINE f == [j \in K |-> term[j].version]
  <2>2. f \in Surjection(K, V) BY DEF Surjection
  <2>3. V \subseteq Nat BY <2>1, SavedType
  <2> HIDE DEF f, K, V
  <2> QED BY <2>1, <2>2, <2>3, FS_Surjection
<1> HIDE DEF V
<1>2. Max({0} \cup V) \in Nat
  <2>1. IsFiniteSet({0} \cup V) BY <1>1, FS_Singleton, FS_Union
  <2>2. {0} \cup V \in SUBSET Int /\ {0} \cup V # {} /\ {0} \cup V \subseteq Nat BY <1>1
  <2>3. \E x \in {0} \cup V : \A y \in {0} \cup V : y <= x BY <2>1, <2>2, GreatestExists
  <2>4. \E x \in {0} \cup V : \A y \in {0} \cup V : x >= y BY <2>2, <2>3
  <2> QED BY <2>2, <2>4 DEF Max
<1>3. PICK n \in Nat : n = 1 + Max({0} \cup V) BY <1>2
<1>4. /\ term[i] = NoTerm /\ Valid(payload) /\ UNCHANGED <<term, activating>>
      /\ drafting' = [drafting EXCEPT ![i] = [terms |-> payload, version |-> n]]
  BY <1>3 DEF BeginDraft, V, K
<1>5. [terms |-> payload, version |-> n] \in Draft BY DEF Draft
<1>6. Saved' = Saved BY <1>4 DEF Saved
<1>7. VersionsDiffer' /\ ActiveApart' /\ ActivationsApart'
  BY <1>4, <1>6 DEF CommissionInv, VersionsDiffer, ActiveApart, ActivationsApart
<1> QED BY <1>4, <1>5, <1>6, <1>7 DEF CommissionInv

\* A row that is inserted is a draft, and its version is its own.
LEMMA CommitDraftInv ==
  ASSUME CommissionInv, NEW i \in Terms, CommitDraft(i)
  PROVE  CommissionInv'
<1>1. PICK d \in Draft : /\ d = drafting[i] /\ Valid(d.terms) /\ ~Taken(d) /\ i \notin Saved
                         /\ d.terms \in Payloads /\ d.version \in Nat
  BY DEF CommitDraft, CommissionInv, Draft, Saved
<1>2. PICK r \in Row : /\ r = [terms |-> d.terms, version |-> d.version, status |-> "draft"]
                       /\ r.terms = d.terms /\ r.version = d.version /\ r.status = "draft"
  <2>1. \A p \in Payloads, n \in Nat : [terms |-> p, version |-> n, status |-> "draft"] \in Row
    BY DEF Row
  <2> QED BY <1>1, <2>1
<1>3. /\ term' = [term EXCEPT ![i] = r] /\ drafting' = [drafting EXCEPT ![i] = NoTerm]
      /\ activating' = activating
  BY <1>1, <1>2 DEF CommitDraft
<1>4. /\ term' \in [Terms -> Row \cup {NoTerm}] /\ drafting' \in [Terms -> Draft \cup {NoTerm}]
      /\ term'[i] = r /\ \A j \in Terms \ {i} : term'[j] = term[j]
      /\ Saved' = Saved \cup {i}
  BY <1>3, CommissionAssumption DEF CommissionInv, Saved
<1>5. \A j \in Saved : j # i /\ term'[j] = term[j] BY <1>1, <1>4 DEF Saved
<1>6. \A j \in Terms : drafting'[j] # NoTerm => term'[j] = NoTerm /\ Valid(drafting'[j].terms)
  BY <1>3, <1>4 DEF CommissionInv
<1>7. \A j \in Saved' : Valid(term'[j].terms) BY <1>1, <1>2, <1>4, <1>5 DEF CommissionInv
<1>8. VersionsDiffer'
  <2>1. \A j \in Saved : Series(term[j].terms) # Series(d.terms) \/ term[j].version # d.version
    BY <1>1 DEF Taken
  <2> QED BY <1>2, <1>4, <1>5, <2>1 DEF CommissionInv, VersionsDiffer
<1>9. ActiveApart' BY <1>2, <1>4, <1>5 DEF CommissionInv, ActiveApart
<1>10. ActivationsApart' BY <1>2, <1>3, <1>4, <1>5 DEF CommissionInv, ActivationsApart
<1> QED BY <1>4, <1>6, <1>7, <1>8, <1>9, <1>10 DEF CommissionInv

LEMMA DropDraftInv ==
  ASSUME CommissionInv, NEW i \in Terms, DropDraft(i)
  PROVE  CommissionInv'
<1>1. Saved' = Saved BY DEF DropDraft, Saved
<1>2. drafting' \in [Terms -> Draft \cup {NoTerm}]
      /\ \A j \in Terms : drafting'[j] # NoTerm => drafting'[j] = drafting[j]
  BY DEF DropDraft, CommissionInv
<1>3. VersionsDiffer' /\ ActiveApart' /\ ActivationsApart'
  BY <1>1 DEF DropDraft, CommissionInv, VersionsDiffer, ActiveApart, ActivationsApart
<1> QED BY <1>1, <1>2, <1>3 DEF DropDraft, CommissionInv

LEMMA BeginTermInv ==
  ASSUME CommissionInv, NEW i \in Terms, BeginTerm(i)
  PROVE  CommissionInv'
<1>1. /\ i \in Saved /\ activating' = activating \cup {i} /\ UNCHANGED <<term, drafting>>
      /\ \A j \in activating : ~SameAnchor(term[i].terms, term[j].terms)
      /\ \A j \in Saved \ {i} :
           ~ (term[j].status = "active" /\ Rivals(term[i].terms, term[j].terms)
                /\ DatesMeet(term[i].terms, term[j].terms))
  BY DEF BeginTerm
<1>2. Saved' = Saved BY <1>1 DEF Saved
<1>3. \A j \in activating : ~SameAnchor(term[j].terms, term[i].terms)
  BY <1>1 DEF SameAnchor
<1>4. ActivationsApart'
  BY <1>1, <1>2, <1>3 DEF CommissionInv, ActivationsApart
<1>5. VersionsDiffer' /\ ActiveApart'
  BY <1>1, <1>2 DEF CommissionInv, VersionsDiffer, ActiveApart
<1> QED BY <1>1, <1>2, <1>4, <1>5 DEF CommissionInv

\* The status of one row changes, that of no other; it becomes active only when its
\* activation ends.
LEMMA StatusInv ==
  ASSUME CommissionInv, NEW i \in Terms, CommitTerm(i) \/ DeactivateTerm(i)
  PROVE  CommissionInv'
<1>1. /\ i \in Saved /\ drafting' = drafting
      /\ activating' = activating \ {i}
      /\ \/ term' = [term EXCEPT ![i].status = "active"] /\ i \in activating
         \/ term' = [term EXCEPT ![i].status = "inactive"]
  BY DEF CommitTerm, DeactivateTerm, CommissionInv, ActivationsApart
<1>2. PICK r \in Row : /\ term' = [term EXCEPT ![i] = r]
                       /\ r.terms = term[i].terms /\ r.version = term[i].version
                       /\ r.status = "active" => i \in activating
  <2>1. term[i] \in Row BY <1>1, SavedType
  <2>2. \A s \in {"active", "inactive"} :
          /\ [term[i] EXCEPT !.status = s] \in Row /\ [term[i] EXCEPT !.status = s].terms = term[i].terms
          /\ [term[i] EXCEPT !.status = s].version = term[i].version
          /\ [term[i] EXCEPT !.status = s].status = s
    BY <2>1 DEF Row
  <2> QED BY <1>1, <2>2
<1>3. /\ term' \in [Terms -> Row \cup {NoTerm}] /\ term'[i] = r
      /\ \A j \in Terms \ {i} : term'[j] = term[j] /\ Saved' = Saved
  BY <1>1, <1>2, CommissionAssumption DEF CommissionInv, Saved
<1>4. Saved' = Saved
  BY <1>1, <1>2, <1>3, CommissionAssumption DEF CommissionInv, Saved
<1>5. /\ \A j \in Saved : term'[j].terms = term[j].terms /\ term'[j].version = term[j].version
      /\ \A j \in Saved \ {i} : term'[j] = term[j]
      /\ \A j \in Saved : term'[j].terms \in Payloads
  BY <1>2, <1>3, SavedType
<1>6. VersionsDiffer' /\ \A j \in Saved' : Valid(term'[j].terms)
  BY <1>4, <1>5 DEF CommissionInv, VersionsDiffer
<1>7. ActiveApart'
  <2> SUFFICES ASSUME NEW j \in Saved, NEW k \in Saved, j # k,
                      term'[j].status = "active", term'[k].status = "active",
                      Rivals(term[j].terms, term[k].terms), term[j].terms.kind # "card"
               PROVE  ~DatesMeet(term[j].terms, term[k].terms)
    BY <1>4, <1>5 DEF ActiveApart
  <2>1. CASE j # i /\ k # i BY <1>5, <2>1 DEF CommissionInv, ActiveApart
  <2>2. CASE j = i BY <1>2, <1>3, <1>5, <2>2 DEF CommissionInv, ActivationsApart
  <2>3. CASE k = i
    <3>1. term[j].terms \in Payloads /\ term[k].terms \in Payloads BY SavedType
    <3>2. Rivals(term[k].terms, term[j].terms) /\ term[k].terms.kind # "card"
      BY <3>1, RivalsTell DEF SameAnchor
    <3>3. ~DatesMeet(term[k].terms, term[j].terms)
      BY <1>2, <1>3, <1>5, <2>3, <3>2 DEF CommissionInv, ActivationsApart
    <3> QED BY <3>1, <3>3, RivalsTell
  <2> QED BY <2>1, <2>2, <2>3
<1>8. ActivationsApart'
  <2>1. ASSUME NEW j \in activating', NEW k \in Saved \ {j},
               term'[k].status = "active", Rivals(term[j].terms, term[k].terms), term[j].terms.kind # "card"
        PROVE  ~DatesMeet(term[j].terms, term[k].terms)
    <3>1. j \in activating /\ j # i /\ j \in Saved BY <1>1, <2>1 DEF CommissionInv, ActivationsApart
    <3>2. CASE k # i BY <1>5, <2>1, <3>1, <3>2 DEF CommissionInv, ActivationsApart
    <3>3. CASE k = i
      <4>1. i \in activating BY <1>2, <1>3, <2>1, <3>3
      <4>2. SameAnchor(term[j].terms, term[i].terms)
        BY <2>1, <3>1, <3>3, SavedType, RivalsTell
      <4> QED BY <3>1, <4>1, <4>2 DEF CommissionInv, ActivationsApart
    <3> QED BY <3>2, <3>3
  <2>2. activating' \subseteq Saved' BY <1>1, <1>4 DEF CommissionInv, ActivationsApart
  <2>3. \A j, k \in activating' : j # k => ~SameAnchor(term'[j].terms, term'[k].terms)
    BY <1>1, <1>5 DEF CommissionInv, ActivationsApart
  <2>4. \A j \in activating' : \A k \in Saved' \ {j} :
          term'[j].terms = term[j].terms /\ term'[k].terms = term[k].terms
    BY <1>4, <1>5, <2>2
  <2> QED BY <1>4, <2>1, <2>2, <2>3, <2>4 DEF ActivationsApart
<1>9. \A j \in Terms : drafting'[j] # NoTerm => term'[j] = NoTerm /\ Valid(drafting'[j].terms)
  BY <1>1, <1>3 DEF CommissionInv, Saved
<1> QED BY <1>1, <1>3, <1>6, <1>7, <1>8, <1>9 DEF CommissionInv

LEMMA DropTermInv ==
  ASSUME CommissionInv, NEW i \in Terms, DropTerm(i)
  PROVE  CommissionInv'
<1>1. Saved' = Saved BY DEF DropTerm, Saved
<1>2. VersionsDiffer' /\ ActiveApart' /\ ActivationsApart'
  BY <1>1 DEF DropTerm, CommissionInv, VersionsDiffer, ActiveApart, ActivationsApart
<1> QED BY <1>1, <1>2 DEF DropTerm, CommissionInv

LEMMA CommissionNextInv ==
  ASSUME CommissionInv, [CommissionNext]_commissionVars
  PROVE  CommissionInv'
<1>1. CASE UNCHANGED commissionVars
  <2>1. UNCHANGED <<term, drafting, activating>> BY <1>1 DEF commissionVars
  <2> QED BY <2>1 DEF CommissionInv, Saved, VersionsDiffer, ActiveApart, ActivationsApart
<1> QED
  BY <1>1, BeginDraftInv, CommitDraftInv, DropDraftInv, BeginTermInv, StatusInv, DropTermInv
     DEF CommissionNext

-----------------------------------------------------------------------------
\* An amount matches at most one slab of a valid list.
LEMMA OneSlab ==
  ASSUME NEW slabs, SlabsValid(slabs), SlabsTyped(slabs), NEW amount \in Int
  PROVE  Cardinality(Matching(slabs, amount)) <= 1
<1>1. ASSUME NEW s \in Matching(slabs, amount), NEW u \in Matching(slabs, amount), s # u PROVE FALSE
  <2>1. s \in slabs /\ u \in slabs BY DEF Matching
  <2>2. ~Meets(s, u) BY <1>1, <2>1 DEF SlabsValid
  <2>3. s.low \in Nat /\ u.low \in Nat /\ s.high \in Nat \cup {NoTerm} /\ u.high \in Nat \cup {NoTerm}
    BY <2>1 DEF SlabsTyped
  <2>4. /\ s.low <= amount /\ (s.high # NoTerm => amount <= s.high)
        /\ u.low <= amount /\ (u.high # NoTerm => amount <= u.high)
    BY DEF Matching
  <2> QED BY <2>2, <2>3, <2>4 DEF Meets
<1> QED BY <1>1, AtMostOne

\* The production of a month is a number.
LEMMA ProductionType ==
  ASSUME NEW start, NEW recipient
  PROVE  Production(start, recipient) \in Int
<1> DEFINE E == {event \in Events : StartOf(event.day) = start /\ recipient \in PaidBy(event)}
<1>1. E \subseteq Events /\ IsFiniteSet(E) BY CommissionAssumption, FS_Subset
<1>2. Production(start, recipient) = MapThenSumSet(LAMBDA event : event.eligible, E)
  BY DEF Production
<1> HIDE DEF E
<1> DEFINE iter[s \in SUBSET E] ==
        IF s = {} THEN 0
        ELSE LET x == CHOOSE x \in s : TRUE
             IN  x.eligible + iter[s \ {x}]
           f == [event \in E |-> event.eligible]
           P(h) == h = [s \in SUBSET E |-> IF s = {} THEN 0 ELSE Chosen(s).eligible + h[s \ {Chosen(s)}]]
<1>3. Production(start, recipient) = iter[E]
  BY <1>2 DEF MapThenSumSet, MapThenFoldSet
<1>4. iter = CHOOSE h : P(h)
  BY DEF Chosen
<1>5. f \in [E -> Int] BY <1>1, CommissionAssumption
<1>6. \A h : Adds(h, f, E) <=> P(h)
  <2>1. \A s \in SUBSET E : s # {} => f[Chosen(s)] = Chosen(s).eligible BY DEF Chosen
  <2> HIDE DEF f
  <2> QED BY <2>1 DEF Adds
<1> HIDE DEF iter, f, P
<1>7. Adds(iter, f, E)
  <2>1. \E h : P(h) BY <1>1, <1>5, <1>6, SumAnyhow
  <2> QED BY <1>4, <1>6, <2>1
<1>8. iter \in [SUBSET E -> Int] BY <1>1, <1>5, <1>7, SumAnyhow DEF AddsAnyhow
<1> QED BY <1>3, <1>8

\* Whatever overlaps, the versions of a series differ, active rules of a series and
\* active plans have no day in common, and what an activation asked for holds until it
\* commits, because its rivals wait for the same row (set_rule_status,
\* set_incentive_plan_status, the unique indexes on versions).
THEOREM CommissionInvariance == CommissionSpec => []CommissionInv
<1>1. CommissionInv /\ [CommissionNext]_commissionVars => CommissionInv'
  BY CommissionNextInv
<1> QED BY <1>1, CommissionInitInv, PTL DEF CommissionSpec

LEMMA OneRule ==
  ASSUME CommissionInv, NEW event \in Events
  PROVE  \A i, j \in RulesOf(event) : i = j
<1> SUFFICES ASSUME NEW i \in RulesOf(event), NEW j \in RulesOf(event), i # j PROVE FALSE
  OBVIOUS
<1> DEFINE applicable == {k \in TermsInForce("rule") :
                            /\ term[k].terms.milestone = event.milestone
                            /\ term[k].terms.variant \in {event.variant, General}
                            /\ SpanHas(k, event.day)}
<1>1. /\ i \in applicable /\ j \in applicable
      /\ term[i].terms.variant = term[j].terms.variant
  BY DEF RulesOf
<1>2. /\ i \in Saved /\ j \in Saved /\ term[i].status = "active" /\ term[j].status = "active"
      /\ term[i].terms.kind = "rule" /\ term[j].terms.kind = "rule"
      /\ term[i].terms.milestone = term[j].terms.milestone
      /\ SpanHas(i, event.day) /\ SpanHas(j, event.day)
  BY <1>1 DEF TermsInForce
<1>3. term[i].terms \in Payloads /\ term[j].terms \in Payloads BY <1>2, SavedType
<1>4. Rivals(term[i].terms, term[j].terms)
  BY <1>1, <1>2, <1>3, SeriesTells DEF Rivals
<1>5. DatesMeet(term[i].terms, term[j].terms)
  BY <1>2, <1>3, PayloadAssumption, CommissionAssumption DEF SpanHas, DatesMeet
<1> QED BY <1>2, <1>4, <1>5 DEF CommissionInv, ActiveApart

LEMMA OnePlan ==
  ASSUME CommissionInv, NEW start \in MonthStarts
  PROVE  \A i, j \in PlansOf(start) : i = j
<1> SUFFICES ASSUME NEW i \in PlansOf(start), NEW j \in PlansOf(start), i # j PROVE FALSE
  OBVIOUS
<1>1. /\ i \in Saved /\ j \in Saved /\ term[i].status = "active" /\ term[j].status = "active"
      /\ term[i].terms.kind = "plan" /\ term[j].terms.kind = "plan"
      /\ SpanHas(i, start) /\ SpanHas(j, start)
  BY DEF PlansOf, TermsInForce
<1>2. term[i].terms \in Payloads /\ term[j].terms \in Payloads BY <1>1, SavedType
<1>3. DatesMeet(term[i].terms, term[j].terms)
  BY <1>1, <1>2, PayloadAssumption, CommissionAssumption DEF SpanHas, DatesMeet
<1> QED BY <1>1, <1>3 DEF CommissionInv, ActiveApart, Rivals

LEMMA OneCard ==
  ASSUME CommissionInv, NEW event \in Events
  PROVE  \A i, j \in NewestOf(CardsOf(event)) : i = j
<1> SUFFICES ASSUME NEW i \in NewestOf(CardsOf(event)), NEW j \in NewestOf(CardsOf(event)), i # j PROVE FALSE
  OBVIOUS
<1>1. /\ i \in Saved /\ j \in Saved
      /\ term[i].terms.kind = "card" /\ term[j].terms.kind = "card"
      /\ term[i].terms.variant = term[j].terms.variant
      /\ term[i].version <= term[j].version /\ term[j].version <= term[i].version
  BY DEF NewestOf, CardsOf, TermsInForce
<1>2. /\ term[i].terms \in Payloads /\ term[j].terms \in Payloads
      /\ term[i].version = term[j].version
  BY <1>1, SavedType
<1> QED BY <1>1, <1>2, SeriesTells DEF CommissionInv, VersionsDiffer

\* TermsUnambiguous holds for any number of rules, plans and requests: a generation
\* finds one rule for an event, which can be computed, one plan for a month and one
\* slab for a production.
THEOREM TermsUnambiguousHolds == CommissionSpec => []TermsUnambiguous
<1>1. CommissionInv => TermsUnambiguous
  <2> SUFFICES ASSUME CommissionInv PROVE TermsUnambiguous
    OBVIOUS
  <2>1. ASSUME NEW event \in Events
        PROVE  /\ Cardinality(RulesOf(event)) <= 1
               /\ Cardinality(NewestOf(CardsOf(event))) <= 1
    BY OneRule, OneCard, AtMostOne
  <2>2. ASSUME NEW event \in Events, NEW i \in RulesOf(event), NEW calculation \in term[i].terms.calculations
        PROVE  Computable(calculation, event.eligible)
    <3>1. i \in Saved /\ term[i].terms.kind = "rule" BY DEF RulesOf, TermsInForce
    <3>2. term[i].terms \in Payloads /\ Valid(term[i].terms) BY <3>1, SavedType DEF CommissionInv
    <3>3. MethodValid(calculation) BY <3>1, <3>2 DEF Valid, RuleValid
    <3>4. SlabsTyped(calculation.slabs) BY <3>1, <3>2, PayloadAssumption
    <3>5. event.eligible \in Int BY CommissionAssumption
    <3> QED BY <3>3, <3>4, <3>5, OneSlab DEF Computable, MethodValid
  <2>3. ASSUME NEW start \in MonthStarts PROVE Cardinality(PlansOf(start)) <= 1
    BY OnePlan, AtMostOne
  <2>4. ASSUME NEW start \in MonthStarts, NEW i \in PlansOf(start), NEW r \in Earners
        PROVE  Cardinality(Matching(term[i].terms.slabs, Production(start, r))) <= 1
    <3>1. i \in Saved /\ term[i].terms.kind = "plan" BY DEF PlansOf, TermsInForce
    <3>2. term[i].terms \in Payloads /\ Valid(term[i].terms) BY <3>1, SavedType DEF CommissionInv
    <3>3. SlabsValid(term[i].terms.slabs) BY <3>1, <3>2 DEF Valid, PlanValid
    <3>4. SlabsTyped(term[i].terms.slabs) BY <3>1, <3>2, PayloadAssumption
    <3> QED BY <3>3, <3>4, ProductionType, OneSlab
  <2>5. \A i, j \in Saved :
          i # j => Series(term[i].terms) # Series(term[j].terms) \/ term[i].version # term[j].version
    BY DEF CommissionInv, VersionsDiffer
  <2> QED BY <2>1, <2>2, <2>3, <2>4, <2>5 DEF TermsUnambiguous
<1> QED BY <1>1, CommissionInvariance, PTL

-----------------------------------------------------------------------------
(* Targets: rounding, working days, the prorated target and the score.       *)

\* What a quotient is.
LEMMA DivisionBounds ==
  ASSUME NEW a \in Int, NEW b \in Nat \ {0}
  PROVE  a \div b \in Int /\ b * (a \div b) <= a /\ a < b * (a \div b) + b
<1>1. a \div b \in Int OBVIOUS
<1>2. a % b \in 0..(b - 1) OBVIOUS
<1>3. a % b = a - b * (a \div b) BY SMT
<1>4. b * (a \div b) \in Int BY <1>1
<1> QED BY <1>1, <1>2, <1>3, <1>4

\* What quantize rounds to: no more than half a unit off.
LEMMA QuantizeIs ==
  ASSUME NEW a \in Int, NEW b \in Nat \ {0}
  PROVE  /\ Quantize(a, b) \in Int
         /\ b * Quantize(a, b) \in Int
         /\ 2 * (b * Quantize(a, b)) <= 2 * a + b
         /\ 2 * a + b < 2 * (b * Quantize(a, b)) + 2 * b
<1>1. PICK n \in Int : n = 2 * a + b OBVIOUS
<1>2. PICK c \in Nat \ {0} : c = 2 * b OBVIOUS
<1>3. PICK q \in Int : q = n \div c BY DivisionBounds
<1>4. c * q <= n /\ n < c * q + c BY <1>3, DivisionBounds
<1>5. Quantize(a, b) = q BY <1>1, <1>2, <1>3 DEF Quantize
<1>6. c * q = 2 * (b * q) /\ b * q \in Int BY <1>2
<1> QED BY <1>1, <1>2, <1>4, <1>5, <1>6

\* Rounding keeps the order with whole numbers and among each other.
LEMMA QuantizeBounds ==
  ASSUME NEW a \in Int, NEW b \in Nat \ {0}, NEW w \in Int
  PROVE  /\ a <= b * w => Quantize(a, b) <= w
         /\ b * w <= a => w <= Quantize(a, b)
<1> DEFINE q == Quantize(a, b)
<1>1. /\ q \in Int /\ b * q \in Int /\ b * w \in Int
      /\ 2 * (b * q) <= 2 * a + b /\ 2 * a + b < 2 * (b * q) + 2 * b
  BY QuantizeIs
<1> HIDE DEF q
<1>2. q >= w + 1 => b * q >= b * w + b
  <2>1. HAVE q >= w + 1
  <2>2. PICK k \in Nat : q = (w + 1) + k
    <3>1. q - (w + 1) \in Nat /\ q = (w + 1) + (q - (w + 1)) BY <1>1, <2>1
    <3> QED BY <3>1
  <2>3. b * q = b * w + b + b * k /\ b * k \in Nat BY <2>2
  <2> QED BY <1>1, <2>3
<1>3. q <= w - 1 => b * q + b <= b * w
  <2>1. HAVE q <= w - 1
  <2>2. PICK k \in Nat : w = (q + 1) + k
    <3>1. w - (q + 1) \in Nat /\ w = (q + 1) + (w - (q + 1)) BY <1>1, <2>1
    <3> QED BY <3>1
  <2>3. b * w = b * q + b + b * k /\ b * k \in Nat BY <1>1, <2>2
  <2> QED BY <1>1, <2>3
<1>4. a <= b * w => q <= w BY <1>1, <1>2
<1>5. b * w <= a => w <= q BY <1>1, <1>3
<1> QED BY <1>4, <1>5 DEF q

LEMMA QuantizeMonotone ==
  ASSUME NEW a \in Int, NEW c \in Int, NEW b \in Nat \ {0}, a <= c
  PROVE  Quantize(a, b) <= Quantize(c, b)
<1>1. PICK q \in Int : q = Quantize(a, b) BY QuantizeIs
<1>2. PICK r \in Int : r = Quantize(c, b) BY QuantizeIs
<1>3. b * q \in Int /\ b * r \in Int OBVIOUS
<1>4. 2 * (b * q) <= 2 * a + b /\ 2 * c + b < 2 * (b * r) + 2 * b
  BY <1>1, <1>2, QuantizeIs
<1>5. b * q < b * r + b BY <1>3, <1>4
<1>6. q >= r + 1 => b * q >= b * r + b
  <2>1. HAVE q >= r + 1
  <2>2. PICK k \in Nat : q = (r + 1) + k
    <3>1. q - (r + 1) \in Nat /\ q = (r + 1) + (q - (r + 1)) BY <2>1
    <3> QED BY <3>1
  <2>3. b * q = b * r + b + b * k /\ b * k \in Nat BY <2>2
  <2> QED BY <1>3, <2>3
<1> QED BY <1>1, <1>2, <1>3, <1>5, <1>6

\* The working days of a longer span are more.
LEMMA WorkingGrows ==
  ASSUME NEW i \in Int, NEW j \in Int, NEW k \in Int, j <= k
  PROVE  Working(i, j) \in Nat /\ Working(i, k) \in Nat /\ Working(i, j) <= Working(i, k)
<1> DEFINE D(n) == {d \in i..n : ((d - 1) % MonthDays) + 1 \in Workdays}
<1>1. D(j) \subseteq D(k) OBVIOUS
<1>2. IsFiniteSet(i..k) /\ D(k) \in SUBSET (i..k) BY FS_Interval
<1>3. Working(i, j) = Cardinality(D(j)) /\ Working(i, k) = Cardinality(D(k)) BY DEF Working
<1> HIDE DEF D
<1>4. IsFiniteSet(D(k)) BY <1>2, FS_Subset
<1>5. IsFiniteSet(D(j)) /\ Cardinality(D(j)) <= Cardinality(D(k)) BY <1>1, <1>4, FS_Subset
<1> QED BY <1>3, <1>4, <1>5, FS_CardinalityType

\* A span inside another has fewer.
LEMMA WorkingInside ==
  ASSUME NEW i \in Int, NEW j \in Int, NEW from \in Int, NEW to \in Int, from <= i, j <= to
  PROVE  Working(i, j) <= Working(from, to)
<1> DEFINE D(m, n) == {d \in m..n : ((d - 1) % MonthDays) + 1 \in Workdays}
<1>1. D(i, j) \subseteq D(from, to) OBVIOUS
<1>2. IsFiniteSet(from..to) /\ D(from, to) \in SUBSET (from..to) BY FS_Interval
<1>3. Working(i, j) = Cardinality(D(i, j)) /\ Working(from, to) = Cardinality(D(from, to)) BY DEF Working
<1> HIDE DEF D
<1>4. IsFiniteSet(D(from, to)) BY <1>2, FS_Subset
<1> QED BY <1>1, <1>3, <1>4, FS_Subset

\* A prorated value lies between nothing and the whole and grows with what has elapsed.
LEMMA ProrateBetween ==
  ASSUME NEW v \in Nat, NEW n \in Nat, NEW all \in Nat, n <= all
  PROVE  /\ Prorate(v, n, all) \in 0..v
         /\ Prorate(v, all, all) = v
         /\ \A k \in n..all : Prorate(v, n, all) <= Prorate(v, k, all)
<1>1. CASE all = 0
  BY <1>1 DEF Prorate
<1>2. CASE all # 0
  <2>1. \A k \in Nat : Prorate(v, k, all) = Quantize(v * k, all) /\ v * k \in Int
    BY <1>2 DEF Prorate
  <2>2. \A k \in Nat : \A l \in Nat : k <= l => v * k <= v * l
    <3>1. TAKE k \in Nat
    <3>2. TAKE l \in Nat
    <3>3. HAVE k <= l
    <3>4. PICK e \in Nat : l = k + e
      <4>1. l - k \in Nat /\ l = k + (l - k) BY <3>3
      <4> QED BY <4>1
    <3>5. v * l = v * k + v * e /\ v * e \in Nat /\ v * k \in Nat BY <3>4
    <3> QED BY <3>5
  <2>3. v * all = all * v /\ all * 0 = 0 /\ v * 0 = 0 /\ all * v \in Int OBVIOUS
  <2>4. v * n <= all * v /\ 0 <= v * n
    BY <2>2, <2>3
  <2>5. Prorate(v, n, all) \in 0..v
    <3>1. v \in Int /\ 0 \in Int /\ all \in Nat \ {0} /\ v * n \in Int BY <1>2, <2>1
    <3>2. Quantize(v * n, all) \in Int BY <3>1, QuantizeIs
    <3>3. Quantize(v * n, all) <= v BY <2>4, <3>1, QuantizeBounds
    <3>4. 0 <= Quantize(v * n, all) BY <2>3, <2>4, <3>1, QuantizeBounds
    <3> QED BY <2>1, <3>2, <3>3, <3>4
  <2>6. Prorate(v, all, all) = v
    <3>1. v \in Int /\ all \in Nat \ {0} /\ v * all \in Int BY <1>2, <2>1
    <3>2. v * all <= all * v /\ all * v <= v * all BY <2>3
    <3>3. Quantize(v * all, all) \in Int BY <3>1, QuantizeIs
    <3>4. Quantize(v * all, all) <= v BY <3>1, <3>2, QuantizeBounds
    <3>5. v <= Quantize(v * all, all) BY <3>1, <3>2, QuantizeBounds
    <3> QED BY <2>1, <3>3, <3>4, <3>5
  <2>7. \A k \in n..all : Prorate(v, n, all) <= Prorate(v, k, all)
    <3>1. TAKE k \in n..all
    <3>2. k \in Nat /\ n <= k OBVIOUS
    <3>3. v * n <= v * k /\ v * n \in Int /\ v * k \in Int /\ all \in Nat \ {0}
      BY <1>2, <2>1, <2>2, <3>2
    <3>4. Quantize(v * n, all) <= Quantize(v * k, all) BY <3>3, QuantizeMonotone
    <3> QED BY <2>1, <3>2, <3>4
  <2> QED BY <2>5, <2>6, <2>7
<1> QED BY <1>1, <1>2

LEMMA GoalNumbers ==
  ASSUME NEW row \in Goal
  PROVE  row.month \in Int /\ row.value \in Nat
<1>1. LastTargetMonth \in Nat /\ GoalValues \subseteq Nat BY TargetsAssumption
<1>2. row.month \in (1..LastTargetMonth) \cup {0} /\ row.value \in GoalValues \cup {0}
  BY DEF Goal, TargetMonths
<1>3. row.month \in Int BY <1>1, <1>2
<1>4. GoalValues \cup {0} \subseteq Nat BY <1>1
<1> QED BY <1>2, <1>3, <1>4

\* What is effective of a typed target.
LEMMA EffectiveType ==
  ASSUME NEW row \in Goal, NEW from \in Int, NEW to \in Int, day \in Int
  PROVE  Effective(row, from, to) \in Nat
<1>1. row.month \in Int /\ row.value \in Nat BY GoalNumbers
<1>2. MonthDays \in Nat BY TargetsAssumption
<1>3. FirstDay(row.month) \in Int /\ LastDayOf(row.month) \in Int
  BY <1>1, <1>2 DEF FirstDay, LastDayOf
<1>4. ASSUME NEW i \in Int, NEW j \in Int, FirstDay(row.month) <= i,
             j <= LastDayOf(row.month)
      PROVE  Prorate(row.value, Working(i, j), Working(FirstDay(row.month), LastDayOf(row.month))) \in Nat
  <2>1. PICK n \in Nat : n = Working(i, j)
    <3>1. j <= j OBVIOUS
    <3> QED BY <3>1, WorkingGrows
  <2>2. PICK all \in Nat : all = Working(FirstDay(row.month), LastDayOf(row.month))
    <3>1. LastDayOf(row.month) <= LastDayOf(row.month) BY <1>3
    <3> QED BY <1>3, <3>1, WorkingGrows
  <2>3. n <= all
    BY <1>3, <1>4, <2>1, <2>2, WorkingInside
  <2>4. Prorate(row.value, n, all) \in 0..row.value BY <1>1, <2>3, ProrateBetween
  <2> QED BY <1>1, <2>1, <2>2, <2>4
<1> DEFINE begins == IF from > FirstDay(row.month) THEN from ELSE FirstDay(row.month)
           ends == IF to < LastDayOf(row.month) THEN to ELSE LastDayOf(row.month)
           all == Working(FirstDay(row.month), LastDayOf(row.month))
<1>5. begins \in Int /\ ends \in Int /\ ends <= LastDayOf(row.month) /\ FirstDay(row.month) <= begins
  BY <1>3
<1>6. Effective(row, from, to) =
         IF begins > ends THEN 0
         ELSE IF row.prorate /\ row.month = MonthAt(day)
         THEN Prorate(row.value, Working(begins, ends), all)
         ELSE IF row.month > MonthAt(day) THEN 0 ELSE row.value
  BY DEF Effective
<1> HIDE DEF begins, ends, all
<1>7. Prorate(row.value, Working(begins, ends), all) \in Nat BY <1>4, <1>5 DEF all
<1> QED BY <1>1, <1>6, <1>7

-----------------------------------------------------------------------------
\* The applicable targets come to a number.
LEMMA EffectiveTargetType ==
  ASSUME TargetsTypeOK, NEW from \in Int, NEW to \in Int
  PROVE  EffectiveTarget(from, to) \in Int
<1> DEFINE E == Applicable(from, to)
<1>1. E \subseteq Goals /\ IsFiniteSet(E)
  <2>1. E \subseteq Goals BY DEF Applicable
  <2> QED BY <2>1, TargetsAssumption, FS_Subset
<1>2. day \in Int /\ \A g \in Goals : goal[g] \in Goal
  <2>1. LastTargetMonth * MonthDays \in Int BY TargetsAssumption
  <2> QED BY <2>1 DEF TargetsTypeOK
<1>3. EffectiveTarget(from, to) = MapThenSumSet(LAMBDA g : Effective(goal[g], from, to), E)
  BY DEF EffectiveTarget
<1> HIDE DEF E
<1> DEFINE iter[s \in SUBSET E] ==
        IF s = {} THEN 0
        ELSE LET x == CHOOSE x \in s : TRUE
             IN  Effective(goal[x], from, to) + iter[s \ {x}]
           f == [g \in E |-> Effective(goal[g], from, to)]
           P(h) == h = [s \in SUBSET E |->
                IF s = {} THEN 0 ELSE Effective(goal[Chosen(s)], from, to) + h[s \ {Chosen(s)}]]
<1>4. EffectiveTarget(from, to) = iter[E]
  BY <1>3 DEF MapThenSumSet, MapThenFoldSet
<1>5. iter = CHOOSE h : P(h)
  BY DEF Chosen
<1>6. f \in [E -> Int]
  <2>1. \A g \in E : Effective(goal[g], from, to) \in Int BY <1>1, <1>2, EffectiveType
  <2> QED BY <2>1
<1>7. \A h : Adds(h, f, E) <=> P(h)
  <2>1. \A s \in SUBSET E : s # {} => f[Chosen(s)] = Effective(goal[Chosen(s)], from, to) BY DEF Chosen
  <2> HIDE DEF f
  <2> QED BY <2>1 DEF Adds
<1> HIDE DEF iter, f, P
<1>8. Adds(iter, f, E)
  <2>1. \E h : P(h) BY <1>1, <1>6, <1>7, SumAnyhow
  <2> QED BY <1>5, <1>7, <2>1
<1>9. iter \in [SUBSET E -> Int] BY <1>1, <1>6, <1>8, SumAnyhow DEF AddsAnyhow
<1> QED BY <1>4, <1>9

\* What somebody achieves of a metric is a number.
LEMMA AchievedType ==
  ASSUME TargetsTypeOK, NEW m \in Measures, NEW actual \in [Measures -> Actuals]
  PROVE  AchievedIn(m, actual) \in Int
<1>1. MonthAt(day) \in Int /\ FirstDay(MonthAt(day)) \in Int /\ day \in Int
  <2>1. LastTargetMonth * MonthDays \in Int /\ MonthDays \in Nat \ {0} BY TargetsAssumption
  <2>2. day \in Int BY <2>1 DEF TargetsTypeOK
  <2>3. (day - 1) \div MonthDays \in Int BY <2>1, <2>2, DivisionBounds
  <2>4. MonthAt(day) \in Int BY <2>3 DEF MonthAt
  <2>5. FirstDay(MonthAt(day)) \in Int BY <2>1, <2>4 DEF FirstDay
  <2> QED BY <2>2, <2>4, <2>5
<1>2. PICK b \in Int : b = BaselineOf(m)
  <2>1. EffectiveTarget(FirstDay(MonthAt(day)), day) \in Int BY <1>1, EffectiveTargetType
  <2>2. Baseline \in Int BY TargetsAssumption
  <2> QED BY <2>1, <2>2 DEF BaselineOf
<1>3. actual[m] \in Nat /\ Hundred \in Nat BY TargetsAssumption
<1>4. b \in Int /\ b >= 0 => Hundred * b \in Int BY <1>3
<1>5. Hundred * b \in Int /\ Hundred * actual[m] \in Int BY <1>3
<1>6. actual[m] # 0 => Quantize(Hundred * b, actual[m]) \in Int BY <1>3, <1>5, QuantizeIs
<1>7. b > 0 => Quantize(Hundred * actual[m], b) \in Int
  <2>1. HAVE b > 0
  <2>2. b \in Nat \ {0} BY <2>1
  <2> QED BY <1>5, <2>2, QuantizeIs
<1>8. Achievement(m, actual[m], b) \in Int
  <2>1. CASE b < 0 BY <2>1 DEF Achievement
  <2>2. CASE b >= 0
    BY <1>3, <1>6, <1>7, <2>2 DEF Achievement
  <2> QED BY <2>1, <2>2
<1> QED BY <1>2, <1>8 DEF AchievedIn

\* A metric contributes at most its weight, and all of it when it is met.
LEMMA ContributionBetween ==
  ASSUME NEW a \in Int, NEW w \in Nat
  PROVE  /\ Contribution(a, w) \in 0..w
         /\ a >= Hundred => Contribution(a, w) = w
<1>1. Hundred \in Nat \ {0} /\ Hundred \in Int BY TargetsAssumption
<1>2. CASE a < 0 BY <1>1, <1>2 DEF Contribution
<1>3. CASE a >= 0
  <2>1. PICK n \in Nat : n = IF a > Hundred THEN Hundred ELSE a BY <1>1, <1>3
  <2>2. n <= Hundred /\ (a >= Hundred => n = Hundred) BY <1>1, <2>1
  <2>3. Contribution(a, w) = Quantize(n * w, Hundred) BY <1>3, <2>1 DEF Contribution
  <2>4. n * w \in Int /\ 0 <= n * w /\ n * w <= Hundred * w
    <3>1. PICK e \in Nat : Hundred = n + e
      <4>1. Hundred - n \in Nat /\ Hundred = n + (Hundred - n) BY <1>1, <2>2
      <4> QED BY <4>1
    <3>2. Hundred * w = n * w + e * w /\ e * w \in Nat /\ n * w \in Nat BY <3>1
    <3> QED BY <3>2
  <2>5. Quantize(n * w, Hundred) \in Int BY <1>1, <2>4, QuantizeIs
  <2>6. Quantize(n * w, Hundred) <= w BY <1>1, <2>4, QuantizeBounds
  <2>7. 0 <= Quantize(n * w, Hundred)
    <3>1. Hundred * 0 = 0 BY <1>1
    <3>2. 0 \in Int /\ Hundred * 0 <= n * w BY <2>4, <3>1
    <3> QED BY <1>1, <2>4, <3>2, QuantizeBounds
  <2>8. n = Hundred => w <= Quantize(n * w, Hundred) BY <1>1, <2>4, QuantizeBounds
  <2> QED BY <2>2, <2>3, <2>5, <2>6, <2>7, <2>8
<1> QED BY <1>2, <1>3

\* The score of weights that come to Hundred.
LEMMA ScoreBetween ==
  ASSUME TargetsTypeOK, NEW k \in Cards, NEW actual \in [Measures -> Actuals],
         Weighted(card[k].metrics)
  PROVE  /\ Score(k, actual) \in 0..Hundred
         /\ (\A m \in Measures : card[k].metrics[m] > 0 => AchievedIn(m, actual) >= Hundred)
              => Score(k, actual) = Hundred
<1> DEFINE c(m) == Contribution(AchievedIn(m, actual), card[k].metrics[m])
<1>1. card[k].metrics \in [Measures -> Nat]
  <2>1. card[k].metrics \in Drafts \cup {NoMetrics} BY DEF TargetsTypeOK, Card
  <2> QED BY <2>1, TargetsAssumption DEF NoMetrics
<1>2. IsFiniteSet(Measures) BY TargetsAssumption
<1>3. Score(k, actual) = MapThenSumSet(LAMBDA m : c(m), Measures)
  BY DEF Score
<1>4. \A m \in Measures : /\ c(m) \in 0..card[k].metrics[m]
                          /\ AchievedIn(m, actual) >= Hundred => c(m) = card[k].metrics[m]
  <2>1. TAKE m \in Measures
  <2>2. AchievedIn(m, actual) \in Int /\ card[k].metrics[m] \in Nat BY <1>1, AchievedType
  <2> QED BY <2>2, ContributionBetween
<1> HIDE DEF c
<1> DEFINE iter[s \in SUBSET Measures] ==
        IF s = {} THEN 0
        ELSE LET x == CHOOSE x \in s : TRUE
             IN  c(x) + iter[s \ {x}]
           f == [m \in Measures |-> c(m)]
           P(h) == h = [s \in SUBSET Measures |->
                IF s = {} THEN 0 ELSE c(Chosen(s)) + h[s \ {Chosen(s)}]]
<1>5. Score(k, actual) = iter[Measures]
  BY <1>3 DEF MapThenSumSet, MapThenFoldSet
<1>6. iter = CHOOSE h : P(h)
  BY DEF Chosen
<1>7. f \in [Measures -> Int] BY <1>1, <1>4
<1>8. \A h : Adds(h, f, Measures) <=> P(h)
  <2>1. \A s \in SUBSET Measures : s # {} => f[Chosen(s)] = c(Chosen(s)) BY DEF Chosen
  <2> HIDE DEF f
  <2> QED BY <2>1 DEF Adds
<1>9. \A m \in Measures : f[m] = c(m) OBVIOUS
<1> HIDE DEF iter, f, P
<1>10. Adds(iter, f, Measures)
  <2>1. \E h : P(h) BY <1>2, <1>7, <1>8, SumAnyhow
  <2> QED BY <1>6, <1>8, <2>1
<1>11. Score(k, actual) = SumOver(f, Measures) BY <1>2, <1>5, <1>7, <1>10, SumOverIs
<1> DEFINE w == card[k].metrics
           gap == [m \in Measures |-> w[m] - f[m]]
<1>12. SumOver(w, Measures) = Hundred
  BY DEF Weighted, SumOver
<1>13. \A m \in Measures : f[m] \in Nat /\ w[m] \in Nat /\ gap[m] \in Nat
  BY <1>1, <1>4, <1>9
<1>14. \A m \in Measures : 1 * w[m] = 1 * f[m] + gap[m]
  <2>1. TAKE m \in Measures
  <2>2. f[m] \in Int /\ w[m] \in Int /\ gap[m] = w[m] - f[m] BY <1>13
  <2> HIDE DEF gap, w
  <2> QED BY <2>2
<1> HIDE DEF w, gap
<1>15. 1 * SumOver(w, Measures) = 1 * SumOver(f, Measures) + SumOver(gap, Measures)
  <2>1. \A m \in Measures : w[m] \in Int /\ f[m] \in Int /\ gap[m] \in Int BY <1>13
  <2>2. 1 \in Int OBVIOUS
  <2> QED BY <1>2, <1>14, <2>1, <2>2, SumOverLinear
<1>16. SumOver(f, Measures) \in Nat /\ SumOver(gap, Measures) \in Nat
  BY <1>2, <1>13, SumOverMonotone
<1>17. Hundred \in Nat BY TargetsAssumption
<1>18. SumOver(f, Measures) \in 0..Hundred
  BY <1>12, <1>15, <1>16, <1>17
<1>19. (\A m \in Measures : w[m] > 0 => AchievedIn(m, actual) >= Hundred) => SumOver(f, Measures) = Hundred
  <2>1. HAVE \A m \in Measures : w[m] > 0 => AchievedIn(m, actual) >= Hundred
  <2>2. \A m \in Measures : w[m] = f[m]
    <3>1. TAKE m \in Measures
    <3>2. w[m] > 0 \/ w[m] = 0 BY <1>13
    <3>3. CASE w[m] > 0 BY <1>4, <1>9, <2>1, <3>3 DEF w
    <3>4. CASE w[m] = 0
      <4>1. f[m] \in 0..w[m] BY <1>4, <1>9 DEF w
      <4> QED BY <3>4, <4>1
    <3> QED BY <3>2, <3>3, <3>4
  <2>3. SumOver(w, Measures) = SumOver(f, Measures) BY <1>2, <1>7, <2>2, SumOverAgrees
  <2> QED BY <1>12, <2>3
<1> QED BY <1>11, <1>18, <1>19 DEF w

-----------------------------------------------------------------------------
(* A target over its month.                                                  *)

LEMMA DaysOfMonth ==
  ASSUME NEW m \in Int
  PROVE  /\ FirstDay(m) \in Int /\ LastDayOf(m) \in Int
         /\ FirstDay(m) <= LastDayOf(m)
         /\ \A d \in Int : MonthAt(d) \in Int
<1>1. MonthDays \in Nat \ {0} BY TargetsAssumption
<1>2. m * MonthDays \in Int /\ (m - 1) * MonthDays = m * MonthDays - MonthDays BY <1>1
<1>3. \A d \in Int : (d - 1) \div MonthDays \in Int BY <1>1, DivisionBounds
<1> QED BY <1>1, <1>2, <1>3 DEF FirstDay, LastDayOf, MonthAt

\* From the first day of the month on.
LEMMA UntilIs ==
  ASSUME NEW row \in Goal, NEW d \in Int
  PROVE  LET m == row.month
             last == IF d < LastDayOf(m) THEN d ELSE LastDayOf(m)
         IN  Effective(row, FirstDay(m), d) =
               IF FirstDay(m) > last THEN 0
               ELSE IF row.prorate /\ m = MonthAt(day)
               THEN Prorate(row.value, Working(FirstDay(m), last), Working(FirstDay(m), LastDayOf(m)))
               ELSE IF m > MonthAt(day) THEN 0 ELSE row.value
<1>1. row.month \in Int /\ row.value \in Nat BY GoalNumbers
<1>2. FirstDay(row.month) \in Int /\ LastDayOf(row.month) \in Int BY <1>1, DaysOfMonth
<1> DEFINE first == IF FirstDay(row.month) > FirstDay(row.month) THEN FirstDay(row.month) ELSE FirstDay(row.month)
<1>3. first = FirstDay(row.month) OBVIOUS
<1>4. Effective(row, FirstDay(row.month), d) =
        LET last == IF d < LastDayOf(row.month) THEN d ELSE LastDayOf(row.month)
        IN  IF first > last THEN 0
            ELSE IF row.prorate /\ row.month = MonthAt(day)
            THEN Prorate(row.value, Working(first, last), Working(FirstDay(row.month), LastDayOf(row.month)))
            ELSE IF row.month > MonthAt(day) THEN 0 ELSE row.value
  BY DEF Effective
<1> HIDE DEF first
<1> QED BY <1>3, <1>4

LEMMA UntilGrows ==
  ASSUME NEW row \in Goal, day \in Int
  PROVE  LET m == row.month
             Until(d) == Effective(row, FirstDay(m), d)
         IN  /\ Until(day) \in 0..row.value
             /\ \A d \in FirstDay(m)..LastDayOf(m) - 1 : Until(d) <= Until(d + 1)
             /\ m <= MonthAt(day) => Until(LastDayOf(m)) = row.value
<1> DEFINE m == row.month
           v == row.value
           F == FirstDay(m)
           L == LastDayOf(m)
           all == Working(F, L)
           Until(d) == Effective(row, F, d)
           Last(d) == IF d < L THEN d ELSE L
<1>1. m \in Int /\ v \in Nat BY GoalNumbers
<1>2. F \in Int /\ L \in Int /\ F <= L /\ MonthAt(day) \in Int BY <1>1, DaysOfMonth
<1>3. \A d \in Int : Last(d) \in Int /\ Last(d) <= L BY <1>2
<1>4. \A d \in Int : Until(d) =
        IF F > Last(d) THEN 0
        ELSE IF row.prorate /\ m = MonthAt(day) THEN Prorate(v, Working(F, Last(d)), all)
        ELSE IF m > MonthAt(day) THEN 0 ELSE v
  BY UntilIs
<1>5. all \in Nat /\ \A n \in Nat : n <= all =>
        /\ Prorate(v, n, all) \in 0..v /\ Prorate(v, all, all) = v
        /\ \A k \in n..all : Prorate(v, n, all) <= Prorate(v, k, all)
  <2>1. all \in Nat BY <1>2, WorkingGrows
  <2> HIDE DEF all, v
  <2> QED BY <1>1, <2>1, ProrateBetween
<1>6. \A d \in Int : Working(F, Last(d)) \in Nat /\ Working(F, Last(d)) <= all
  <2>1. TAKE d \in Int
  <2>2. Last(d) \in Int /\ Last(d) <= L BY <1>3
  <2> HIDE DEF Last
  <2> QED BY <1>2, <2>2, WorkingGrows
<1>7. Until(day) \in 0..v
  <2> HIDE DEF Until, Last, F, L, m, v, all
  <2>1. Prorate(v, Working(F, Last(day)), all) \in 0..v BY <1>5, <1>6
  <2> QED BY <1>1, <1>4, <2>1
<1>8. \A d \in F..L - 1 : Until(d) <= Until(d + 1)
  <2>1. TAKE d \in F..L - 1
  <2>2. d \in Int /\ d + 1 \in Int /\ Last(d) = d /\ Last(d + 1) = d + 1 /\ F <= d BY <1>2
  <2> HIDE DEF Until, Last, F, L, m, v, all
  <2>3. Working(F, d) \in Nat /\ Working(F, d + 1) \in Nat /\ Working(F, d) <= Working(F, d + 1)
    <3>1. d <= d + 1 BY <2>2
    <3> QED BY <1>2, <2>2, <3>1, WorkingGrows
  <2>4. Working(F, d + 1) <= all /\ Working(F, d) <= all BY <1>6, <2>2
  <2>5. Working(F, d + 1) \in Working(F, d)..all BY <1>5, <2>3, <2>4
  <2>6. Prorate(v, Working(F, d), all) <= Prorate(v, Working(F, d + 1), all)
    BY <1>5, <2>3, <2>4, <2>5
  <2>7. Until(d) = IF F > d THEN 0
          ELSE IF row.prorate /\ m = MonthAt(day) THEN Prorate(v, Working(F, d), all)
          ELSE IF m > MonthAt(day) THEN 0 ELSE v
    BY <1>4, <2>2
  <2>8. Until(d + 1) = IF F > d + 1 THEN 0
          ELSE IF row.prorate /\ m = MonthAt(day) THEN Prorate(v, Working(F, d + 1), all)
          ELSE IF m > MonthAt(day) THEN 0 ELSE v
    BY <1>4, <2>2
  <2>9. ~(F > d) /\ ~(F > d + 1) BY <1>2, <2>2
  <2>10. v <= v /\ 0 <= 0 BY <1>1
  <2> QED BY <2>6, <2>7, <2>8, <2>9, <2>10
<1>9. m <= MonthAt(day) => Until(L) = v
  <2>1. HAVE m <= MonthAt(day)
  <2>2. Last(L) = L /\ ~(F > L) /\ ~(m > MonthAt(day)) BY <1>1, <1>2, <2>1
  <2> HIDE DEF Until, Last, F, L, m, v
  <2>3. Prorate(v, all, all) = v
    <3> HIDE DEF all
    <3>1. all <= all BY <1>5
    <3> QED BY <1>5, <3>1
  <2>4. all = Working(F, L) BY DEF all
  <2> HIDE DEF all
  <2>5. L \in Int BY <1>2
  <2> QED BY <1>4, <2>2, <2>3, <2>4, <2>5
<1> QED BY <1>7, <1>8, <1>9

\* Whoever meets the run rate meets the target, up to half a unit a day.
LEMMA RunRateSuffices ==
  ASSUME NEW e \in Int, NEW a \in Int, day \in Int
  PROVE  LET rate == RunRate(e, a)
             left == Working(day, LastDayOf(MonthAt(day)))
         IN  rate > 0 => 2 * (a + rate * left) >= 2 * e - left
<1>1. MonthAt(day) \in Int /\ LastDayOf(MonthAt(day)) \in Int
  <2>1. MonthAt(day) \in Int
    <3>1. 0 \in Int OBVIOUS
    <3> QED BY <3>1, DaysOfMonth
  <2> QED BY <2>1, DaysOfMonth
<1>2. PICK left \in Nat : left = Working(day, LastDayOf(MonthAt(day)))
  <2>1. LastDayOf(MonthAt(day)) <= LastDayOf(MonthAt(day)) BY <1>1
  <2> QED BY <1>1, <2>1, WorkingGrows
<1>3. RunRate(e, a) = IF left = 0 THEN -1 ELSE IF a >= e THEN 0 ELSE Quantize(e - a, left)
  BY <1>2 DEF RunRate
<1>4. ASSUME RunRate(e, a) > 0 PROVE 2 * (a + RunRate(e, a) * left) >= 2 * e - left
  <2>1. left # 0 /\ RunRate(e, a) = Quantize(e - a, left) BY <1>3, <1>4
  <2>2. left \in Nat \ {0} /\ e - a \in Int BY <2>1
  <2>3. PICK q \in Int : q = Quantize(e - a, left) BY <2>2, QuantizeIs
  <2>4. left * q \in Int /\ 2 * (e - a) + left < 2 * (left * q) + 2 * left
    BY <2>2, <2>3, QuantizeIs
  <2>5. q * left = left * q OBVIOUS
  <2>6. 2 * (a + left * q) >= 2 * e - left BY <2>4
  <2> QED BY <2>1, <2>3, <2>5, <2>6
<1> QED BY <1>2, <1>4

-----------------------------------------------------------------------------
(* Scorecards under overlapping requests.                                    *)

OnCard(r) == plan[r].op \in {"rewrite", "switch"}

\* A request that read a card holds its row: it still is what it read, and nobody
\* else has it.
CardsHeld ==
  \A r \in Planners : OnCard(r) =>
    /\ plan[r].old = card[plan[r].card] /\ plan[r].old.status # "absent"
    /\ \A q \in Planners \ {r} : OnCard(q) => plan[q].card # plan[r].card

ActiveSound ==
  \A k \in Cards : card[k].status = "active" =>
    /\ Weighted(card[k].metrics)
    /\ \A j \in Cards \ {k} : card[j].status # "active"

TargetsInv == TargetsTypeOK /\ CardsHeld /\ ActiveSound

LEMMA TargetsInitInv == TargetsInit => TargetsInv
<1> SUFFICES ASSUME TargetsInit PROVE TargetsInv
  OBVIOUS
<1> USE DEF TargetsInit
<1>1. 1 \in 1..LastTargetMonth * MonthDays
  <2>1. LastTargetMonth \in Nat \ {0} /\ MonthDays \in Nat \ {0} BY TargetsAssumption
  <2>2. PICK n \in Nat : LastTargetMonth = n + 1
    <3>1. LastTargetMonth - 1 \in Nat /\ LastTargetMonth = (LastTargetMonth - 1) + 1 BY <2>1
    <3> QED BY <3>1
  <2>3. LastTargetMonth * MonthDays = n * MonthDays + MonthDays /\ n * MonthDays \in Nat
    BY <2>1, <2>2
  <2> QED BY <2>1, <2>3
<1>2. NoGoal \in Goal BY DEF NoGoal, Goal
<1>3. TargetsTypeOK
  BY <1>1, <1>2 DEF TargetsTypeOK, Card
<1>4. CardsHeld BY DEF CardsHeld, OnCard, NoPlan
<1>5. ActiveSound BY DEF ActiveSound
<1> QED BY <1>3, <1>4, <1>5 DEF TargetsInv

\* What leaves the cards alone and begins no plan for one.
LEMMA CardsUntouched ==
  ASSUME TargetsInv, UNCHANGED card, plan' \in [Planners -> Plan \cup {NoPlan}],
         \A r \in Planners : OnCard(r)' => plan'[r] = plan[r]
  PROVE  CardsHeld' /\ ActiveSound'
<1>1. ActiveSound' BY DEF TargetsInv, ActiveSound
<1>2. \A r \in Planners : OnCard(r)' => OnCard(r) BY DEF OnCard
<1>3. CardsHeld' BY <1>2, Zenon DEF TargetsInv, CardsHeld
<1> QED BY <1>1, <1>3

LEMMA GoalStepInv ==
  ASSUME TargetsInv, NEW r \in Planners,
         \/ \E g \in Goals, new \in Goal : StartGoal(r, g, new) \/ StartEdit(r, g, new)
         \/ CommitGoal(r)
         \/ Withdraw(r)
  PROVE  TargetsInv'
<1> USE DEF TargetsInv
<1>1. CASE \E g \in Goals, new \in Goal : StartGoal(r, g, new) \/ StartEdit(r, g, new)
  <2>1. PICK g \in Goals, new \in Goal : StartGoal(r, g, new) \/ StartEdit(r, g, new) BY <1>1
  <2>2. UNCHANGED <<day, goal, lockedMonths, card>> BY <2>1 DEF StartGoal, StartEdit
  <2>3. PICK p : /\ plan' = [plan EXCEPT ![r] = p] /\ p.op \in {"create", "edit"}
                 /\ p \in [op: {"create", "edit"}, goal: Goals, old: Goal, new: Goal]
    <3>1. NoGoal \in Goal BY DEF NoGoal, Goal
    <3>2. goal[g] \in Goal BY DEF TargetsTypeOK
    <3>3. PICK op \in {"create", "edit"}, old \in Goal :
            plan' = [plan EXCEPT ![r] = [op |-> op, goal |-> g, old |-> old, new |-> new]]
      BY <2>1, <3>1, <3>2 DEF StartGoal, StartEdit, Decide
    <3> DEFINE q == [op |-> op, goal |-> g, old |-> old, new |-> new]
    <3>4. q.op \in {"create", "edit"} /\ q \in [op: {"create", "edit"}, goal: Goals, old: Goal, new: Goal]
      OBVIOUS
    <3>5. plan' = [plan EXCEPT ![r] = q] BY <3>3
    <3> HIDE DEF q
    <3> QED BY <3>4, <3>5
  <2>4. plan' \in [Planners -> Plan \cup {NoPlan}] BY <2>3 DEF TargetsTypeOK, Plan
  <2>5. TargetsTypeOK' BY <2>2, <2>4 DEF TargetsTypeOK
  <2>6. \A q \in Planners : OnCard(q)' => plan'[q] = plan[q]
    BY <2>3 DEF OnCard, TargetsTypeOK
  <2> QED BY <2>2, <2>4, <2>5, <2>6, CardsUntouched
<1>2. CASE CommitGoal(r) \/ Withdraw(r)
  <2>1. plan' = [plan EXCEPT ![r] = NoPlan] /\ UNCHANGED <<day, lockedMonths, card>>
    BY <1>2 DEF CommitGoal, Withdraw, Settle
  <2>2. plan' \in [Planners -> Plan \cup {NoPlan}] BY <2>1 DEF TargetsTypeOK
  <2>3. goal' \in [Goals -> Goal]
    <3>1. CASE Withdraw(r) BY <3>1 DEF Withdraw, TargetsTypeOK
    <3>2. CASE CommitGoal(r)
      <4>1. plan[r] \in [op: {"create", "edit"}, goal: Goals, old: Goal, new: Goal]
        BY <3>2 DEF CommitGoal, TargetsTypeOK, Plan, NoPlan
      <4>2. PICK next : goal' = [goal EXCEPT ![plan[r].goal] = next]
              /\ \E v, b, a : /\ next = [month |-> plan[r].new.month, value |-> v, prorate |-> b, active |-> a]
                             /\ v \in {plan[r].new.value, goal[plan[r].goal].value}
                             /\ b \in {plan[r].new.prorate, goal[plan[r].goal].prorate}
                             /\ a \in {plan[r].new.active, goal[plan[r].goal].active}
        BY <3>2 DEF CommitGoal
      <4>3. plan[r].new \in Goal /\ goal[plan[r].goal] \in Goal BY <4>1 DEF TargetsTypeOK
      <4>4. next \in Goal BY <4>2, <4>3 DEF Goal
      <4> QED BY <4>1, <4>2, <4>4 DEF TargetsTypeOK
    <3> QED BY <1>2, <3>1, <3>2
  <2>4. TargetsTypeOK' BY <2>1, <2>2, <2>3 DEF TargetsTypeOK
  <2>5. \A q \in Planners : OnCard(q)' => plan'[q] = plan[q]
    BY <2>1 DEF OnCard, NoPlan, TargetsTypeOK
  <2> QED BY <2>1, <2>2, <2>4, <2>5, CardsUntouched
<1> QED BY <1>1, <1>2

LEMMA CalendarInv ==
  ASSUME TargetsInv, NextDay \/ \E m \in TargetMonths : LockMonth(m) \/ ReopenMonth(m)
  PROVE  TargetsInv'
<1> USE DEF TargetsInv
<1>1. UNCHANGED <<goal, card, plan>> BY DEF NextDay, LockMonth, ReopenMonth
<1>2. TargetsTypeOK'
  <2>1. LastTargetMonth * MonthDays \in Nat BY TargetsAssumption
  <2>2. day' \in 1..LastTargetMonth * MonthDays
    <3>1. day \in 1..LastTargetMonth * MonthDays BY DEF TargetsTypeOK
    <3> QED BY <2>1, <3>1 DEF NextDay, LockMonth, ReopenMonth
  <2>3. lockedMonths' \subseteq TargetMonths
    BY DEF NextDay, LockMonth, ReopenMonth, TargetsTypeOK
  <2> QED BY <1>1, <2>2, <2>3 DEF TargetsTypeOK
<1>3. CardsHeld' /\ ActiveSound'
  <2>1. plan' \in [Planners -> Plan \cup {NoPlan}] BY <1>1 DEF TargetsTypeOK
  <2>2. \A r \in Planners : OnCard(r)' => plan'[r] = plan[r] BY <1>1
  <2> QED BY <1>1, <2>1, <2>2, CardsUntouched
<1> QED BY <1>2, <1>3

LEMMA CreateInv ==
  ASSUME TargetsInv, NEW k \in Cards, NEW metrics \in Drafts, CreateScorecard(k, metrics)
  PROVE  TargetsInv'
<1> USE DEF TargetsInv
<1>1. /\ card[k].status = "absent" /\ UNCHANGED <<day, goal, lockedMonths, plan>>
      /\ card' = [card EXCEPT ![k] = [status |-> "draft", metrics |-> metrics]]
  BY DEF CreateScorecard
<1>2. TargetsTypeOK' BY <1>1 DEF TargetsTypeOK, Card
<1>3. \A j \in Cards : IF j = k THEN card'[j].status = "draft" ELSE card'[j] = card[j]
  BY <1>1 DEF TargetsTypeOK
<1>4. ActiveSound' BY <1>3 DEF ActiveSound
<1>5. CardsHeld'
  <2>1. \A r \in Planners : OnCard(r) => plan[r].card # k /\ plan[r].card \in Cards
    BY <1>1 DEF CardsHeld, OnCard, TargetsTypeOK, Plan, NoPlan
  <2> QED BY <1>1, <1>3, <2>1 DEF CardsHeld, OnCard
<1> QED BY <1>2, <1>4, <1>5

LEMMA LoadInv ==
  ASSUME TargetsInv, NEW r \in Planners, NEW k \in Cards, NEW op \in {"rewrite", "switch"},
         LoadScorecard(r, k, op)
  PROVE  TargetsInv'
<1> USE DEF TargetsInv
<1>1. /\ card[k].status # "absent" /\ ~CardHeld(k) /\ UNCHANGED <<day, goal, lockedMonths, card>>
      /\ plan[r] = NoPlan /\ plan' = [plan EXCEPT ![r] = [op |-> op, card |-> k, old |-> card[k]]]
  BY DEF LoadScorecard, Decide
<1>2. TargetsTypeOK' BY <1>1 DEF TargetsTypeOK, Plan
<1>3. \A q \in Planners : plan'[q] = IF q = r THEN [op |-> op, card |-> k, old |-> card[k]] ELSE plan[q]
  BY <1>1 DEF TargetsTypeOK
<1>4. \A q \in Planners : OnCard(q) => plan[q].card # k BY <1>1 DEF CardHeld, OnCard
<1>5. CardsHeld' BY <1>1, <1>3, <1>4 DEF CardsHeld, OnCard
<1>6. ActiveSound' BY <1>1 DEF ActiveSound
<1> QED BY <1>2, <1>5, <1>6

\* A request that holds its card writes it and lets it go.
LEMMA CardStepInv ==
  ASSUME TargetsInv, NEW r \in Planners, OnCard(r),
         UNCHANGED <<day, goal, lockedMonths>>, Settle(r),
         card' \in [Cards -> Card],
         \A j \in Cards : card'[j] # card[j] => j = plan[r].card \/ ~CardHeld(j),
         ActiveSound'
  PROVE  TargetsInv'
<1> USE DEF TargetsInv
<1>1. plan' = [plan EXCEPT ![r] = NoPlan] BY DEF Settle
<1>2. TargetsTypeOK' BY <1>1 DEF TargetsTypeOK
<1>3. \A q \in Planners : OnCard(q)' => q # r /\ plan'[q] = plan[q] /\ OnCard(q)
  BY <1>1 DEF TargetsTypeOK, OnCard, NoPlan
<1>4. \A q \in Planners : OnCard(q)' => card'[plan[q].card] = card[plan[q].card]
  <2>1. TAKE q \in Planners
  <2>2. HAVE OnCard(q)'
  <2>3. OnCard(q) /\ plan[q].card # plan[r].card BY <1>3, <2>2 DEF CardsHeld
  <2>4. plan[q].card \in Cards BY <2>3 DEF OnCard, TargetsTypeOK, Plan, NoPlan
  <2>5. CardHeld(plan[q].card) BY <2>3 DEF CardHeld, OnCard
  <2> QED BY <2>3, <2>4, <2>5
<1>5. CardsHeld' BY <1>3, <1>4 DEF CardsHeld
<1> QED BY <1>2, <1>5

LEMMA UpdateInv ==
  ASSUME TargetsInv, NEW r \in Planners, NEW metrics \in Drafts, UpdateScorecard(r, metrics)
  PROVE  TargetsInv'
<1> USE DEF TargetsInv
<1> DEFINE k == plan[r].card
<1>1. OnCard(r) /\ k \in Cards /\ plan[r].old = card[k]
  BY DEF UpdateScorecard, OnCard, CardsHeld, TargetsTypeOK, Plan, NoPlan
<1> HIDE DEF k
<1>2. card' = [card EXCEPT ![k].metrics = metrics] /\ (card[k].status = "active" => Weighted(metrics))
  BY <1>1 DEF UpdateScorecard, k
<1>3. card' \in [Cards -> Card] BY <1>1, <1>2 DEF TargetsTypeOK, Card
<1>4. \A j \in Cards : IF j = k THEN card'[j].status = card[j].status /\ card'[j].metrics = metrics
                       ELSE card'[j] = card[j]
  BY <1>2 DEF TargetsTypeOK, Card
<1>5. ActiveSound' BY <1>1, <1>2, <1>4 DEF ActiveSound
<1>6. \A j \in Cards : card'[j] # card[j] => j = plan[r].card BY <1>4 DEF k
<1>7. Settle(r) /\ UNCHANGED <<day, goal, lockedMonths>> BY DEF UpdateScorecard
<1> QED BY <1>1, <1>3, <1>5, <1>6, <1>7, CardStepInv

LEMMA SwitchInv ==
  ASSUME TargetsInv, NEW r \in Planners, ActivateScorecard(r) \/ DeactivateScorecard(r)
  PROVE  TargetsInv'
<1> USE DEF TargetsInv
<1> DEFINE k == plan[r].card
<1>1. OnCard(r) /\ k \in Cards /\ plan[r].old = card[k]
  BY DEF ActivateScorecard, DeactivateScorecard, OnCard, CardsHeld, TargetsTypeOK, Plan, NoPlan
<1> HIDE DEF k
<1>2. Settle(r) /\ UNCHANGED <<day, goal, lockedMonths>>
  BY DEF ActivateScorecard, DeactivateScorecard
<1>3. card \in [Cards -> Card] BY DEF TargetsTypeOK
<1>4. CASE ActivateScorecard(r)
  <2> DEFINE others == {j \in Cards \ {k} : card[j].status = "active"}
  <2>1. /\ Weighted(card[k].metrics) /\ \A j \in others : ~CardHeld(j)
        /\ card' = [j \in Cards |->
             IF j = k THEN [card[j] EXCEPT !.status = "active"]
             ELSE IF j \in others THEN [card[j] EXCEPT !.status = "inactive"] ELSE card[j]]
    BY <1>1, <1>4 DEF ActivateScorecard, k
  <2>2. \A j \in Cards :
          IF j = k THEN card'[j].status = "active" /\ card'[j].metrics = card[j].metrics
          ELSE card'[j].status # "active"
    BY <1>3, <2>1 DEF Card
  <2>3. \A j \in Cards : card'[j] # card[j] => j = k \/ j \in others BY <2>1
  <2>4. card' \in [Cards -> Card] BY <1>3, <2>1 DEF Card
  <2>5. ActiveSound' BY <1>1, <2>1, <2>2 DEF ActiveSound
  <2>6. \A j \in Cards : card'[j] # card[j] => j = plan[r].card \/ ~CardHeld(j)
    BY <2>1, <2>3 DEF k
  <2> QED BY <1>1, <1>2, <2>4, <2>5, <2>6, CardStepInv
<1>5. CASE DeactivateScorecard(r)
  <2>1. card' = [card EXCEPT ![k].status = "inactive"] BY <1>5 DEF DeactivateScorecard, k
  <2>2. \A j \in Cards : IF j = k THEN card'[j].status # "active" ELSE card'[j] = card[j]
    BY <1>3, <2>1 DEF Card
  <2>3. card' \in [Cards -> Card] BY <1>3, <2>1 DEF Card
  <2>4. ActiveSound' BY <2>2 DEF ActiveSound
  <2>5. \A j \in Cards : card'[j] # card[j] => j = plan[r].card BY <2>2 DEF k
  <2> QED BY <1>1, <1>2, <2>3, <2>4, <2>5, CardStepInv
<1> QED BY <1>4, <1>5

LEMMA TargetsNextInv == TargetsInv /\ [TargetsNext]_targetsVars => TargetsInv'
<1>1. SUFFICES ASSUME TargetsInv, [TargetsNext]_targetsVars PROVE TargetsInv'
  OBVIOUS
<1>2. CASE UNCHANGED targetsVars
  BY <1>1, <1>2
     DEF targetsVars, TargetsInv, TargetsTypeOK, CardsHeld, OnCard, ActiveSound
<1> QED
  BY <1>1, <1>2, GoalStepInv, CalendarInv, CreateInv, LoadInv, UpdateInv, SwitchInv
     DEF TargetsNext

\* However edits and switches overlap, a request that read a scorecard still has it as it
\* read it, and the one that is active has its weights (_load_scorecard FOR UPDATE).
THEOREM TargetsInvariance == TargetsSpec => []TargetsInv
<1>1. TargetsInit => TargetsInv BY TargetsInitInv
<1>2. TargetsInv /\ [TargetsNext]_targetsVars => TargetsInv' BY TargetsNextInv
<1> QED BY <1>1, <1>2, PTL DEF TargetsSpec

LEMMA SoundFollows == TargetsInv => TargetsSound
<1> SUFFICES ASSUME TargetsInv PROVE TargetsSound
  OBVIOUS
<1> USE DEF TargetsInv
<1>1. ScorecardSound
  <2>1. SUFFICES ASSUME NEW k \in Cards, card[k].status = "active"
        PROVE  /\ \A j \in Cards \ {k} : card[j].status # "active"
               /\ \A actual \in [Measures -> Actuals] :
                    /\ Score(k, actual) \in 0..Hundred
                    /\ (\A m \in Measures : card[k].metrics[m] > 0 => AchievedIn(m, actual) >= Hundred)
                         => Score(k, actual) = Hundred
    BY DEF ScorecardSound
  <2>2. Weighted(card[k].metrics) /\ \A j \in Cards \ {k} : card[j].status # "active"
    BY <2>1 DEF ActiveSound
  <2> QED BY <2>2, ScoreBetween
<1>2. day \in Int
  <2>1. LastTargetMonth * MonthDays \in Int BY TargetsAssumption
  <2> QED BY <2>1 DEF TargetsTypeOK
<1>3. ProratedToWhole
  <2>1. ASSUME NEW g \in Goals
        PROVE  LET m == goal[g].month
                   Until(d) == Effective(goal[g], FirstDay(m), d)
               IN /\ Until(day) \in 0..goal[g].value
                  /\ \A d \in FirstDay(m)..LastDayOf(m) - 1 : Until(d) <= Until(d + 1)
                  /\ m <= MonthAt(day) => Until(LastDayOf(m)) = goal[g].value
    <3>1. goal[g] \in Goal BY DEF TargetsTypeOK
    <3> QED BY <1>2, <3>1, UntilGrows
  <2>2. ASSUME NEW actual \in Actuals
        PROVE  LET rate == RunRate(EffectiveTarget(FirstDay(MonthAt(day)), day), actual)
                   left == Working(day, LastDayOf(MonthAt(day)))
               IN rate > 0 =>
                    2 * (actual + rate * left) >= 2 * EffectiveTarget(FirstDay(MonthAt(day)), day) - left
    <3>1. actual \in Int BY TargetsAssumption
    <3>2. FirstDay(MonthAt(day)) \in Int
      <4>1. MonthAt(day) \in Int
        <5>1. 0 \in Int OBVIOUS
        <5> QED BY <1>2, <5>1, DaysOfMonth
      <4> QED BY <4>1, DaysOfMonth
    <3>3. EffectiveTarget(FirstDay(MonthAt(day)), day) \in Int BY <1>2, <3>2, EffectiveTargetType
    <3> QED BY <1>2, <3>1, <3>3, RunRateSuffices
  <2> QED BY <2>1, <2>2 DEF ProratedToWhole
<1> QED BY <1>1, <1>3 DEF TargetsSound

\* With any number of employees' targets, cards and overlapping requests: one scorecard
\* at most is active, its score lies between 0 and 100 and is 100 for whoever meets every
\* metric; a prorated target grows to its whole; the run rate suffices.
THEOREM TargetsSoundHolds == TargetsSpec => []TargetsSound
BY TargetsInvariance, SoundFollows, PTL
=============================================================================
