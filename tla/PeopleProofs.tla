---------------------------- MODULE PeopleProofs ----------------------------
(***************************************************************************)
(* Safety of the daily records of people and of assets, for every value of *)
(* the constants: Leave, Attendance, Workdays, AssetCategories and         *)
(* AssetTimeline.                                                          *)
(***************************************************************************)
EXTENDS Leave, Attendance, Workdays, AssetCategories, AssetTimeline, Sums, SequenceTheorems

-----------------------------------------------------------------------------
(***************************************************************************)
(* Leave, for any number of requests, policies and years.                  *)
(***************************************************************************)

\* A leave that stands, or may be granted next, is the one its approvers saw, and
\* its manager's approval came from a colleague.
Endorsed ==
  \A r \in Leaves :
    /\ leave[r].status \in {"Submitted", "ManagerApproved"} => leave[r].reviewed = leave[r].span
    /\ leave[r].status = "ManagerApproved" => leave[r].endorsed \in Colleagues

LeaveInv == LeaveTypeOK /\ Endorsed /\ ApprovedAndConsented

RowOK(row) ==
  /\ row \in Leave
  /\ row.status \in {"Submitted", "ManagerApproved"} => row.reviewed = row.span
  /\ row.status = "ManagerApproved" => row.endorsed \in Colleagues
  /\ row.status \in ApprovedLeave =>
       /\ row.reviewed = row.span
       /\ \/ row.granted \in LeaveOwners
          \/ row.granted \in LeaveHR \ {Employee} /\ row.endorsed \in Colleagues
  /\ row.status = "CancellationPending" /\ row.consent => row.consented \in Colleagues

\* What the invariant says of one request.
LEMMA RowHolds ==
  ASSUME LeaveInv, NEW r \in Leaves
  PROVE  RowOK(leave[r])
  BY DEF LeaveInv, LeaveTypeOK, Endorsed, ApprovedAndConsented, RowOK

LEMMA WriteRowInv ==
  ASSUME LeaveInv, NEW r \in Leaves, NEW row, RowOK(row),
         leave' = [leave EXCEPT ![r] = row],
         submission' \in [Leaves -> Submission \cup {Null}], UNCHANGED <<manager, granted>>
  PROVE  LeaveInv'
<1>1. leave \in [Leaves -> Leave] /\ row \in Leave
  BY DEF LeaveInv, LeaveTypeOK, RowOK
<1>2. \A q \in Leaves : RowOK(leave'[q])
  BY <1>1, RowHolds
<1>3. LeaveTypeOK'
  BY <1>1 DEF LeaveInv, LeaveTypeOK
<1>4. Endorsed' /\ ApprovedAndConsented'
  BY <1>2 DEF Endorsed, ApprovedAndConsented, RowOK
<1> QED BY <1>3, <1>4 DEF LeaveInv

LEMMA WriteLeaveInv ==
  ASSUME LeaveInv, NEW r \in Leaves, NEW row, RowOK(row), WriteLeave(r, row)
  PROVE  LeaveInv'
  BY WriteRowInv DEF WriteLeave, LeaveInv, LeaveTypeOK

LEMMA EndedOK ==
  ASSUME NEW row, RowOK(row), NEW status \in {"Returned", "Rejected", "Cancelled"}
  PROVE  RowOK(Ended(row, status))
<1>1. Ended(row, status) \in Leave
  BY DEF RowOK, Ended, Leave, LeaveStatus, OpenLeave, ActiveBalance
<1>2. Ended(row, status).status = status
  BY DEF RowOK, Ended, Leave
<1> QED BY <1>1, <1>2 DEF RowOK, ApprovedLeave

LEMMA OvertakeType ==
  ASSUME LeaveTypeOK, NEW r \in Leaves
  PROVE  Overtake(r) \in [Leaves -> Submission \cup {Null}]
<1>1. \A q \in Leaves : submission[q] # Null => [submission[q] EXCEPT !.raced = TRUE] \in Submission
  BY DEF LeaveTypeOK, Submission
<1> QED BY <1>1 DEF Overtake, LeaveTypeOK

LEMMA LeaveInitInv == LeaveInit => LeaveInv
<1> SUFFICES ASSUME LeaveInit PROVE LeaveInv
  OBVIOUS
<1>1. BlankLeave \in Leave /\ BlankLeave.status = "Absent"
  BY LeaveAssumption DEF BlankLeave, Leave, LeaveStatus
<1>2. \A r \in Leaves : leave[r] = BlankLeave
  BY DEF LeaveInit
<1>3. LeaveTypeOK
  BY <1>1 DEF LeaveInit, LeaveTypeOK
<1>4. Endorsed /\ ApprovedAndConsented
  BY <1>1, <1>2 DEF Endorsed, ApprovedAndConsented, ApprovedLeave
<1> QED BY <1>3, <1>4 DEF LeaveInv

LEMMA LeaveNextInv == LeaveInv /\ [LeaveNext]_leaveVars => LeaveInv'
<1> SUFFICES ASSUME LeaveInv, [LeaveNext]_leaveVars PROVE LeaveInv'
  OBVIOUS
<1>0. LeaveTypeOK /\ \A r \in Leaves : RowOK(leave[r])
  BY RowHolds DEF LeaveInv
<1>a. \A r \in Leaves : leave[r] \in Leave
  BY <1>0 DEF LeaveTypeOK
<1>1. ASSUME NEW r \in Leaves, NEW p \in LeaveUsers, NEW s \in Spans, UpdateLeave(r, p, s)
      PROVE  LeaveInv'
  <2> DEFINE row == [leave[r] EXCEPT !.status = "Draft", !.span = s]
  <2>1. RowOK(row)
    BY <1>a DEF RowOK, Leave, LeaveStatus, OpenLeave, ApprovedLeave
  <2> QED BY <1>1, <2>1, WriteLeaveInv DEF UpdateLeave
<1>2. ASSUME NEW r \in Leaves, NEW p \in LeaveUsers, NEW s \in Spans, NEW b \in BOOLEAN,
             CreateLeave(r, p, s, b)
      PROVE  LeaveInv'
  <2> DEFINE row == [BlankLeave EXCEPT !.status = "Draft", !.span = s, !.exception = b]
  <2>1. RowOK(row)
    BY LeaveAssumption DEF RowOK, BlankLeave, Leave, LeaveStatus, OpenLeave, ApprovedLeave
  <2> QED BY <1>2, <2>1, WriteLeaveInv DEF CreateLeave
<1>3. ASSUME NEW r \in Leaves, NEW p \in LeaveUsers, UploadAttachment(r, p)
      PROVE  LeaveInv'
  <2> DEFINE row == [leave[r] EXCEPT !.attached = TRUE]
  <2>1. RowOK(row)
    BY <1>0, <1>a DEF RowOK, Leave
  <2> QED BY <1>3, <2>1, WriteLeaveInv DEF UploadAttachment
<1>4. ASSUME NEW r \in Leaves, NEW p \in LeaveUsers, NEW b \in BOOLEAN, ValidateLeave(r, p, b)
      PROVE  LeaveInv'
  <2> DEFINE invalid == Overlap(r) \/ Available < Units(leave[r].span)
  <2>1. /\ submission' = [submission EXCEPT ![r] = [exception |-> invalid, raced |-> FALSE]]
        /\ UNCHANGED <<leave, manager, granted>>
    BY <1>4 DEF ValidateLeave
  <2>2. invalid \in BOOLEAN
    OBVIOUS
  <2> HIDE DEF invalid
  <2>3. submission' \in [Leaves -> Submission \cup {Null}]
    BY <1>0, <2>1, <2>2 DEF LeaveTypeOK, Submission
  <2> QED BY <2>1, <2>3 DEF LeaveInv, LeaveTypeOK, Endorsed, ApprovedAndConsented
<1>5. ASSUME NEW r \in Leaves, NEW p \in LeaveUsers, ManagerApprove(r, p)
      PROVE  LeaveInv'
  <2> DEFINE row == [leave[r] EXCEPT !.status = "ManagerApproved", !.endorsed = p]
  <2>1. p \in Colleagues
    BY <1>0, <1>5, LeaveAssumption DEF ManagerApprove, LeaveTypeOK, LeaveUsers
  <2>2. RowOK(row)
    <3>1. RowOK(leave[r]) /\ leave[r].status = "Submitted" BY <1>0, <1>5 DEF ManagerApprove
    <3> QED BY <1>a, <2>1, <3>1 DEF RowOK, Leave, LeaveStatus, ActiveBalance, ApprovedLeave
  <2>3. WriteLeave(r, row) BY <1>5 DEF ManagerApprove
  <2> HIDE DEF row
  <2> QED BY <1>0, <2>2, <2>3, WriteLeaveInv
<1>6. ASSUME NEW r \in Leaves, NEW p \in LeaveUsers, HRApprove(r, p)
      PROVE  LeaveInv'
  <2> DEFINE row == [leave[r] EXCEPT !.status = "HRApproved", !.granted = p]
  <2>1. RowOK(row)
    BY <1>0, <1>6, <1>a DEF HRApprove, RowOK, Leave, LeaveStatus, ActiveBalance, ApprovedLeave
  <2>2. WriteLeave(r, row) BY <1>6 DEF HRApprove
  <2> HIDE DEF row
  <2> QED BY <1>0, <2>1, <2>2, WriteLeaveInv
<1>7. ASSUME NEW r \in Leaves, NEW p \in LeaveUsers, OwnerOverride(r, p)
      PROVE  LeaveInv'
  <2> DEFINE row == [leave[r] EXCEPT !.status = "HRApproved", !.exception = TRUE,
                                     !.granted = p, !.reviewed = leave[r].span]
  <2>1. RowOK(row)
    BY <1>7, <1>a DEF OwnerOverride, RowOK, Leave, LeaveStatus, ActiveBalance, ApprovedLeave
  <2>2. leave' = [leave EXCEPT ![r] = row]
    BY <1>7, <1>0 DEF OwnerOverride, LeaveTypeOK, Leave
  <2> HIDE DEF row
  <2> QED BY <1>0, <1>7, <2>1, <2>2, WriteRowInv, OvertakeType DEF OwnerOverride
<1>8. ASSUME NEW r \in Leaves, NEW p \in LeaveUsers, NEW s \in LeaveStatus, DecideLeave(r, p, s)
      PROVE  LeaveInv'
  <2>1. RowOK(Ended(leave[r], s))
    BY <1>0, <1>8, EndedOK DEF DecideLeave
  <2> QED BY <1>8, <2>1, WriteLeaveInv DEF DecideLeave
<1>9. ASSUME NEW r \in Leaves, NEW p \in LeaveUsers, CancelLeave(r, p)
      PROVE  LeaveInv'
  <2> DEFINE row == [leave[r] EXCEPT !.status = "CancellationPending",
                                     !.consent = FALSE, !.consented = Null]
  <2>1. RowOK(Ended(leave[r], "Cancelled"))
    BY <1>0, EndedOK
  <2>2. ASSUME leave[r].status \in ApprovedLeave PROVE RowOK(row)
    <3>1. RowOK(leave[r]) BY <1>0
    <3> QED BY <1>a, <2>2, <3>1 DEF RowOK, Leave, LeaveStatus, ActiveBalance, ApprovedLeave
  <2>3. \/ WriteLeave(r, Ended(leave[r], "Cancelled"))
        \/ leave[r].status \in ApprovedLeave /\ WriteLeave(r, row)
    BY <1>9 DEF CancelLeave
  <2> HIDE DEF row
  <2> QED BY <1>0, <2>1, <2>2, <2>3, WriteLeaveInv
<1>10. ASSUME NEW r \in Leaves, NEW p \in LeaveUsers, Consent(r, p)
       PROVE  LeaveInv'
  <2> DEFINE row == [leave[r] EXCEPT !.consent = TRUE, !.consented = p]
  <2>1. p \in Colleagues
    BY <1>0, <1>10, LeaveAssumption DEF Consent, LeaveTypeOK, LeaveUsers
  <2>2. RowOK(row)
    BY <1>0, <1>a, <2>1 DEF RowOK, Leave
  <2>3. WriteLeave(r, row) BY <1>10 DEF Consent
  <2> HIDE DEF row
  <2> QED BY <1>0, <2>2, <2>3, WriteLeaveInv
<1>11. ASSUME NEW r \in Leaves, NEW p \in LeaveUsers, ApproveCancellation(r, p)
       PROVE  LeaveInv'
  <2>1. RowOK(Ended(leave[r], "Cancelled"))
    BY <1>0, EndedOK
  <2> QED BY <1>11, <2>1, WriteLeaveInv DEF ApproveCancellation
<1>12. ASSUME NEW r \in Leaves, NEW p \in LeaveUsers, RejectCancellation(r, p)
       PROVE  LeaveInv'
  <2> DEFINE row == [leave[r] EXCEPT !.status = "HRApproved", !.consent = FALSE]
  <2>1. RowOK(row)
    <3>1. RowOK(leave[r]) /\ leave[r].status = "CancellationPending" BY <1>0, <1>12 DEF RejectCancellation
    <3> QED BY <1>a, <3>1 DEF RowOK, Leave, LeaveStatus, ActiveBalance, ApprovedLeave
  <2>2. WriteLeave(r, row) BY <1>12 DEF RejectCancellation
  <2> HIDE DEF row
  <2> QED BY <1>0, <2>1, <2>2, WriteLeaveInv
<1>13. ASSUME NEW r \in Leaves, CommitLeave(r) PROVE LeaveInv'
  <2> DEFINE b == leave[r].exception \/ submission[r].exception
             row == [leave[r] EXCEPT !.status = "Submitted", !.exception = b,
                       !.endorsed = Null, !.granted = Null, !.reviewed = leave[r].span]
  <2>1. b \in BOOLEAN
    OBVIOUS
  <2>2. leave' = [leave EXCEPT ![r] = row]
    BY <1>13, <1>0 DEF CommitLeave, LeaveTypeOK, Leave
  <2> HIDE DEF b
  <2>3. RowOK(row)
    BY <1>a, <2>1 DEF RowOK, Leave, LeaveStatus, OpenLeave, ActiveBalance, ApprovedLeave
  <2> HIDE DEF row
  <2> QED BY <1>0, <1>13, <2>2, <2>3, WriteRowInv, OvertakeType DEF CommitLeave
<1>14. ASSUME NEW submitted, submitted \in [Leaves -> Submission \cup {Null}], submission' = submitted,
             leave' = leave, manager' \in LeaveManagers \cup {Null}, granted' \in Grants
       PROVE  LeaveInv'
  BY <1>14 DEF LeaveInv, LeaveTypeOK, Endorsed, ApprovedAndConsented
<1>15. ASSUME NEW r \in Leaves, FailLeave(r) PROVE LeaveInv'
  BY <1>0, <1>14, <1>15 DEF FailLeave, LeaveTypeOK
<1>16. ASSUME NEW g \in Grants, Regrant(g) PROVE LeaveInv'
  <2>1. \A q \in Leaves : submission[q] # Null => [submission[q] EXCEPT !.raced = TRUE] \in Submission
    BY <1>0 DEF LeaveTypeOK, Submission
  <2> QED BY <1>0, <1>14, <1>16, <2>1 DEF Regrant, LeaveTypeOK
<1>17. ASSUME NEW p \in LeaveManagers \cup {Null}, ChangeManager(p) PROVE LeaveInv'
  BY <1>0, <1>14, <1>17 DEF ChangeManager, LeaveTypeOK
<1>18. CASE UNCHANGED leaveVars
  BY <1>0, <1>14, <1>18 DEF leaveVars, LeaveTypeOK
<1> QED BY <1>1, <1>2, <1>3, <1>4, <1>5, <1>6, <1>7, <1>8, <1>9, <1>10, <1>11, <1>12, <1>13,
           <1>15, <1>16, <1>17, <1>18 DEF LeaveNext, Configure, Adjust

-----------------------------------------------------------------------------
(* The balance.                                                              *)

\* A span counts a number of units.
LEMMA UnitsType == ASSUME NEW s \in Spans PROVE Units(s) \in Nat
<1>1. IsFiniteSet(s.days \cap WorkingDays) BY LeaveAssumption, FS_Intersection
<1>2. Cardinality(s.days \cap WorkingDays) \in Nat BY <1>1, FS_CardinalityType
<1> QED BY <1>2 DEF Units

\* What _balance adds up, for the rows in l.
UnitsIn(l) == [q \in Leaves |-> Units(l[q].span)]

\* What _balance adds up row by row is the sum of the units.
LEMMA BookedTotal ==
  ASSUME NEW l \in [Leaves -> Leave], NEW B \in SUBSET Leaves
  PROVE  UnitsOf(l, B) = SumOver(UnitsIn(l), B)
<1> DEFINE iter[s \in SUBSET B] ==
        IF s = {} THEN 0
        ELSE LET x == CHOOSE x \in s : TRUE
             IN  Units(l[x].span) + iter[s \ {x}]
           f == [q \in B |-> Units(l[q].span)]
           P(h) == h = [s \in SUBSET B |->
                IF s = {} THEN 0 ELSE Units(l[Chosen(s)].span) + h[s \ {Chosen(s)}]]
<1>1. UnitsOf(l, B) = iter[B]
  BY DEF UnitsOf, MapThenSumSet, MapThenFoldSet
<1>2. iter = CHOOSE h : P(h)
  BY DEF Chosen
<1>3. f \in [B -> Int] /\ IsFiniteSet(B)
  <2>1. \A q \in B : Units(l[q].span) \in Nat BY UnitsType DEF Leave
  <2> QED BY <2>1, LeaveAssumption, FS_Subset
<1>4. \A h : Adds(h, f, B) <=> P(h)
  <2>1. \A s \in SUBSET B : s # {} => f[Chosen(s)] = Units(l[Chosen(s)].span) BY DEF Chosen
  <2> HIDE DEF f
  <2> QED BY <2>1 DEF Adds
<1> HIDE DEF iter, f, P
<1>5. Adds(iter, f, B)
  <2>1. \E h : P(h) BY <1>3, <1>4, SumAnyhow
  <2> QED BY <1>2, <1>4, <2>1
<1>6. SumOver(f, B) = SumOver(UnitsIn(l), B)
  <2>1. \A q \in B : UnitsIn(l)[q] = f[q] BY DEF UnitsIn, f
  <2> QED BY <1>3, <2>1, SumOverAgrees
<1> QED BY <1>1, <1>3, <1>5, <1>6, SumOverIs

BookedIn(l) == {q \in Leaves : l[q].status \in ActiveBalance}
AvailableIn(l, g) == g - SumOver(UnitsIn(l), BookedIn(l))

\* The balance before and after a step, as numbers.
LEMMA AvailableIs ==
  ASSUME LeaveTypeOK, LeaveTypeOK'
  PROVE  /\ Available = AvailableIn(leave, granted) /\ Available \in Int
         /\ Available' = AvailableIn(leave', granted') /\ Available' \in Int
<1>1. \A l \in [Leaves -> Leave] : SumOver(UnitsIn(l), BookedIn(l)) \in Int
  <2> TAKE l \in [Leaves -> Leave]
  <2>1. \A q \in Leaves : UnitsIn(l)[q] \in Int BY UnitsType DEF UnitsIn, Leave
  <2>2. IsFiniteSet(BookedIn(l)) /\ BookedIn(l) \subseteq Leaves
    BY LeaveAssumption, FS_Subset DEF BookedIn
  <2> QED BY <2>1, <2>2, SumOverType
<1>2. Booked = BookedIn(leave) /\ Booked' = BookedIn(leave')
  BY DEF Booked, BookedIn
<1>3. Available = AvailableIn(leave, granted)
  BY <1>2, BookedTotal DEF Available, AvailableIn, LeaveTypeOK, Booked
<1>4. Available' = AvailableIn(leave', granted')
  BY <1>2, BookedTotal DEF Available, AvailableIn, LeaveTypeOK, Booked
<1> QED BY <1>1, <1>3, <1>4, LeaveAssumption DEF AvailableIn, LeaveTypeOK

\* Where no request becomes active and no active one gets other dates, there is no
\* less to draw on.
LEMMA BalanceSteady ==
  ASSUME NEW l \in [Leaves -> Leave], NEW m \in [Leaves -> Leave], NEW g \in Int,
         \A q \in BookedIn(m) : q \in BookedIn(l) /\ m[q].span = l[q].span
  PROVE  AvailableIn(l, g) <= AvailableIn(m, g)
<1>1. /\ BookedIn(l) \subseteq Leaves /\ BookedIn(m) \in SUBSET BookedIn(l)
      /\ IsFiniteSet(BookedIn(l)) /\ IsFiniteSet(BookedIn(m))
  BY LeaveAssumption, FS_Subset DEF BookedIn
<1>2. \A q \in Leaves : UnitsIn(l)[q] \in Nat /\ UnitsIn(m)[q] \in Nat
  BY UnitsType DEF UnitsIn, Leave
<1>3. SumOver(UnitsIn(m), BookedIn(m)) = SumOver(UnitsIn(l), BookedIn(m))
  <2> DEFINE f == [q \in BookedIn(m) |-> UnitsIn(l)[q]]
  <2>1. \A q \in BookedIn(m) : UnitsIn(l)[q] = f[q] /\ UnitsIn(m)[q] = f[q]
    BY <1>1 DEF UnitsIn
  <2>2. f \in [BookedIn(m) -> Int] BY <1>1, <1>2
  <2> HIDE DEF f
  <2> QED BY <1>1, <2>1, <2>2, SumOverAgrees
<1>4. SumOver(UnitsIn(l), BookedIn(m)) <= SumOver(UnitsIn(l), BookedIn(l))
  BY <1>1, <1>2, SumOverMonotone
<1>5. SumOver(UnitsIn(l), BookedIn(m)) \in Int /\ SumOver(UnitsIn(l), BookedIn(l)) \in Int
  BY <1>1, <1>2, SumOverType
<1> QED BY <1>3, <1>4, <1>5 DEF AvailableIn

\* What was validated still holds, unless something was committed since.
SubmissionsHold ==
  \A r \in Leaves : Submitting(r) =>
    /\ leave[r].status \in {"Draft", "Returned"}
    /\ \/ submission[r].raced \/ submission[r].exception
       \/ ~Overlap(r) /\ Units(leave[r].span) <= Available

BalanceInv == LeaveInv /\ SubmissionsHold

\* No request becomes active, nor the submitted ones other.
Steady ==
  /\ granted' = granted
  /\ \A q \in Leaves :
       /\ leave'[q].status \in ActiveBalance =>
            leave[q].status \in ActiveBalance /\ leave'[q].span = leave[q].span
       /\ submission'[q] # Null => submission'[q] = submission[q] /\ leave'[q] = leave[q]

\* A step by which no request becomes active keeps what submissions validated.
LEMMA SteadyHolds ==
  ASSUME BalanceInv, LeaveTypeOK', Steady
  PROVE  SubmissionsHold' /\ ActivationAllowed
<1>1. LeaveTypeOK /\ granted \in Int
  BY LeaveAssumption DEF BalanceInv, LeaveInv, LeaveTypeOK
<1>2. Available \in Int /\ Available' \in Int /\ Available <= Available'
  <2>1. AvailableIn(leave, granted) <= AvailableIn(leave', granted)
    BY <1>1, BalanceSteady DEF LeaveTypeOK, Steady, BookedIn
  <2> QED BY <1>1, <2>1, AvailableIs DEF Steady
<1>3. SubmissionsHold'
  <2> SUFFICES ASSUME NEW r \in Leaves, Submitting(r)'
               PROVE  /\ leave'[r].status \in {"Draft", "Returned"}
                      /\ \/ submission'[r].raced \/ submission'[r].exception
                         \/ ~Overlap(r)' /\ Units(leave'[r].span) <= Available'
    BY DEF SubmissionsHold
  <2>1. submission'[r] # Null /\ submission'[r] = submission[r] /\ leave'[r] = leave[r] /\ Submitting(r)
    BY DEF Steady, Submitting
  <2>2. /\ leave[r].status \in {"Draft", "Returned"}
        /\ \/ submission[r].raced \/ submission[r].exception
           \/ ~Overlap(r) /\ Units(leave[r].span) <= Available
    BY <2>1 DEF BalanceInv, SubmissionsHold
  <2>3. Overlap(r)' => Overlap(r)
    BY <2>1 DEF Overlap, Steady
  <2>4. Units(leave[r].span) \in Int
    BY <1>1, UnitsType DEF LeaveTypeOK, Leave
  <2> QED BY <1>2, <2>1, <2>2, <2>3, <2>4
<1>4. ActivationAllowed
  BY DEF ActivationAllowed, Steady
<1> QED BY <1>3, <1>4

\* What was validated before a commit that could matter is marked.
LEMMA RacedHolds ==
  ASSUME BalanceInv,
         \A q \in Leaves : submission'[q] # Null =>
           submission[q] # Null /\ submission'[q].raced /\ leave'[q] = leave[q]
  PROVE  SubmissionsHold'
  BY DEF BalanceInv, SubmissionsHold, Submitting

\* A commit marks the other submissions and no own one.
LEMMA OvertakeRaces ==
  ASSUME LeaveTypeOK, NEW r \in Leaves, NEW q \in Leaves, Overtake(r)[q] # Null
  PROVE  q # r /\ submission[q] # Null /\ Overtake(r)[q].raced
<1>1. q # r /\ submission[q] # Null BY DEF Overtake
<1>2. Overtake(r)[q] = [submission[q] EXCEPT !.raced = TRUE] BY <1>1 DEF Overtake
<1>3. submission[q] \in Submission BY <1>1 DEF LeaveTypeOK
<1> QED BY <1>1, <1>2, <1>3 DEF Submission

LEMMA CommitLeaveWithin ==
  ASSUME BalanceInv, LeaveTypeOK', NEW r \in Leaves, CommitLeave(r)
  PROVE  SubmissionsHold' /\ ActivationAllowed
<1>0. LeaveTypeOK /\ granted \in Int
  BY LeaveAssumption DEF BalanceInv, LeaveInv, LeaveTypeOK
<1>1. /\ Submitting(r) /\ submission' = Overtake(r) /\ granted' = granted
      /\ leave'[r].exception = (leave[r].exception \/ submission[r].exception)
      /\ leave'[r].status = "Submitted" /\ leave'[r].span = leave[r].span
      /\ \A q \in Leaves : q # r => leave'[q] = leave[q]
  BY <1>0 DEF CommitLeave, LeaveTypeOK, Leave
<1>2. SubmissionsHold'
  BY <1>0, <1>1, OvertakeRaces, RacedHolds
<1>3. leave[r].status \notin ActiveBalance
  BY <1>1 DEF BalanceInv, SubmissionsHold, ActiveBalance
<1>4. ASSUME ~Overlap(r), Units(leave[r].span) <= Available
      PROVE  ~Overlap(r)' /\ ~(Available' < 0)
  <2>1. ~Overlap(r)'
    BY <1>1, <1>4 DEF Overlap
  <2>2. BookedIn(leave') = BookedIn(leave) \cup {r} /\ r \notin BookedIn(leave)
    BY <1>1, <1>3 DEF BookedIn, ActiveBalance
  <2>3. IsFiniteSet(BookedIn(leave')) /\ BookedIn(leave') \subseteq Leaves
    BY LeaveAssumption, FS_Subset DEF BookedIn
  <2>4. \A q \in Leaves : UnitsIn(leave')[q] \in Int /\ UnitsIn(leave')[q] = UnitsIn(leave)[q]
                          /\ UnitsIn(leave)[q] \in Int
    <3>1. \A q \in Leaves : leave'[q].span = leave[q].span /\ leave[q].span \in Spans
      BY <1>0, <1>1 DEF LeaveTypeOK, Leave
    <3> QED BY <3>1, UnitsType DEF UnitsIn
  <2>5. UnitsIn(leave')[r] = Units(leave[r].span)
    BY <1>1 DEF UnitsIn
  <2>6. SumOver(UnitsIn(leave'), BookedIn(leave'))
          = Units(leave[r].span) + SumOver(UnitsIn(leave'), BookedIn(leave))
    <3>1. BookedIn(leave') \ {r} = BookedIn(leave) /\ r \in BookedIn(leave') BY <2>2
    <3> QED BY <2>3, <2>4, <2>5, <3>1, SumOverAdd
  <2>7. SumOver(UnitsIn(leave'), BookedIn(leave)) = SumOver(UnitsIn(leave), BookedIn(leave))
    <3> DEFINE f == [q \in BookedIn(leave) |-> UnitsIn(leave)[q]]
    <3>1. BookedIn(leave) \subseteq Leaves /\ IsFiniteSet(BookedIn(leave))
      BY LeaveAssumption, FS_Subset DEF BookedIn
    <3>2. f \in [BookedIn(leave) -> Int] /\ \A q \in BookedIn(leave) : UnitsIn(leave')[q] = f[q] /\ UnitsIn(leave)[q] = f[q]
      BY <2>4, <3>1
    <3> HIDE DEF f
    <3> QED BY <3>1, <3>2, SumOverAgrees
  <2>8. SumOver(UnitsIn(leave), BookedIn(leave)) \in Int /\ Units(leave[r].span) \in Int
    <3>1. BookedIn(leave) \subseteq Leaves /\ IsFiniteSet(BookedIn(leave))
      BY LeaveAssumption, FS_Subset DEF BookedIn
    <3> QED BY <2>4, <2>5, <3>1, SumOverType
  <2>9. Available = granted - SumOver(UnitsIn(leave), BookedIn(leave))
        /\ Available' = granted - (Units(leave[r].span) + SumOver(UnitsIn(leave), BookedIn(leave)))
    BY <1>0, <1>1, <2>6, <2>7, AvailableIs DEF AvailableIn
  <2>10. ~(Available' < 0)
    BY <1>0, <1>4, <2>8, <2>9
  <2> QED BY <2>1, <2>10
<1>5. ActivationAllowed
  <2> SUFFICES ASSUME NEW q \in Leaves, leave[q].status \notin ActiveBalance,
                      leave'[q].status \in ActiveBalance, Overlap(q)' \/ Available' < 0
               PROVE  leave'[q].exception \/ (Submitting(q) /\ submission[q].raced)
    BY DEF ActivationAllowed
  <2>1. q = r BY <1>1
  <2>2. submission[r].raced \/ submission[r].exception
    BY <1>1, <1>4, <2>1 DEF BalanceInv, SubmissionsHold
  <2> QED BY <1>1, <2>1, <2>2
<1> QED BY <1>2, <1>5

LEMMA OwnerOverrideWithin ==
  ASSUME BalanceInv, LeaveTypeOK', NEW r \in Leaves, NEW p \in LeaveUsers, OwnerOverride(r, p)
  PROVE  SubmissionsHold' /\ ActivationAllowed
<1>0. LeaveTypeOK BY DEF BalanceInv, LeaveInv
<1>1. /\ submission' = Overtake(r) /\ leave'[r].exception
      /\ \A q \in Leaves : q # r => leave'[q] = leave[q]
  BY <1>0 DEF OwnerOverride, LeaveTypeOK, Leave
<1>2. SubmissionsHold'
  BY <1>0, <1>1, OvertakeRaces, RacedHolds
<1>3. ActivationAllowed
  BY <1>1 DEF ActivationAllowed
<1> QED BY <1>2, <1>3

LEMMA ValidateLeaveWithin ==
  ASSUME BalanceInv, NEW r \in Leaves, NEW p \in LeaveUsers, NEW b \in BOOLEAN,
         ValidateLeave(r, p, b)
  PROVE  SubmissionsHold' /\ ActivationAllowed
<1> DEFINE invalid == Overlap(r) \/ Available < Units(leave[r].span)
<1>0. LeaveTypeOK /\ granted \in Int /\ SubmissionsHold
  BY LeaveAssumption DEF BalanceInv, LeaveInv, LeaveTypeOK
<1>1. /\ submission' = [submission EXCEPT ![r] = [exception |-> invalid, raced |-> FALSE]]
      /\ leave' = leave /\ granted' = granted
      /\ leave[r].status \in {"Draft", "Returned"}
  BY DEF ValidateLeave
<1>2. LeaveTypeOK'
  BY <1>0, <1>1 DEF ValidateLeave, LeaveTypeOK, Submission
<1>3. Available \in Int /\ Available' = Available /\ Units(leave[r].span) \in Int
  BY <1>0, <1>1, <1>2, AvailableIs, UnitsType DEF LeaveTypeOK, Leave
<1>4. \A q \in Leaves : Overlap(q)' <=> Overlap(q)
  BY <1>1 DEF Overlap
<1>5. invalid \/ (~Overlap(r) /\ Units(leave[r].span) <= Available)
  BY <1>3
<1> HIDE DEF invalid
<1>6. /\ submission'[r].exception = invalid
      /\ \A q \in Leaves : q # r => submission'[q] = submission[q]
  BY <1>0, <1>1 DEF LeaveTypeOK
<1>7. SubmissionsHold'
  BY <1>0, <1>1, <1>3, <1>4, <1>5, <1>6 DEF SubmissionsHold, Submitting
<1>8. ActivationAllowed
  BY <1>1 DEF ActivationAllowed
<1> QED BY <1>7, <1>8

LEMMA WriteLeaveSteady ==
  ASSUME BalanceInv, NEW r \in Leaves, NEW row, WriteLeave(r, row),
         ~Submitting(r) \/ leave[r].status = "Absent",
         row.status \in ActiveBalance => leave[r].status \in ActiveBalance /\ row.span = leave[r].span
  PROVE  Steady
<1>1. LeaveTypeOK /\ SubmissionsHold BY DEF BalanceInv, LeaveInv
<1>2. ~Submitting(r) BY <1>1 DEF SubmissionsHold
<1>3. /\ leave'[r] = row /\ \A q \in Leaves : q # r => leave'[q] = leave[q]
      /\ UNCHANGED <<submission, granted>>
  BY <1>1 DEF WriteLeave, LeaveTypeOK
<1> QED BY <1>2, <1>3 DEF Steady, Submitting

\* A request that ends draws nothing.
LEMMA EndedInactive ==
  ASSUME NEW row \in Leave, NEW status \in {"Returned", "Rejected", "Cancelled"}
  PROVE  Ended(row, status).status \notin ActiveBalance
  BY DEF Ended, Leave, ActiveBalance

LEMMA LeaveBalanceInv ==
  BalanceInv /\ [LeaveNext]_leaveVars => BalanceInv' /\ [ActivationAllowed]_leaveVars
<1> SUFFICES ASSUME BalanceInv, [LeaveNext]_leaveVars
             PROVE  SubmissionsHold' /\ ActivationAllowed
  BY LeaveNextInv DEF BalanceInv
<1>0. LeaveTypeOK /\ LeaveTypeOK' /\ SubmissionsHold /\ \A r \in Leaves : leave[r] \in Leave
  BY LeaveNextInv DEF BalanceInv, LeaveInv, LeaveTypeOK
<1>1. SUFFICES ASSUME ~(\E r \in Leaves : CommitLeave(r)),
                      ~(\E r \in Leaves, p \in LeaveUsers : OwnerOverride(r, p)),
                      ~(\E r \in Leaves, p \in LeaveUsers, b \in BOOLEAN : ValidateLeave(r, p, b)),
                      ~(\E g \in Grants : Regrant(g))
               PROVE  Steady
  <2>1. ASSUME NEW g \in Grants, Regrant(g) PROVE SubmissionsHold' /\ ActivationAllowed
    <3>1. \A q \in Leaves : submission[q] # Null => [submission[q] EXCEPT !.raced = TRUE].raced
      BY <1>0 DEF LeaveTypeOK, Submission
    <3>2. SubmissionsHold' BY <2>1, <3>1, RacedHolds DEF Regrant
    <3>3. ActivationAllowed BY <2>1 DEF Regrant, ActivationAllowed
    <3> QED BY <3>2, <3>3
  <2> QED BY <1>0, <2>1, CommitLeaveWithin, OwnerOverrideWithin, ValidateLeaveWithin, SteadyHolds
<1>2. ASSUME NEW r \in Leaves, NEW p \in LeaveUsers, NEW s \in Spans, UpdateLeave(r, p, s)
      PROVE  Steady
  <2> DEFINE row == [leave[r] EXCEPT !.status = "Draft", !.span = s]
  <2>1. row.status \notin ActiveBalance BY <1>0 DEF Leave, ActiveBalance
  <2> QED BY <1>2, <2>1, WriteLeaveSteady DEF UpdateLeave
<1>3. ASSUME NEW r \in Leaves, NEW p \in LeaveUsers, NEW s \in Spans, NEW b \in BOOLEAN,
             CreateLeave(r, p, s, b)
      PROVE  Steady
  <2> DEFINE row == [BlankLeave EXCEPT !.status = "Draft", !.span = s, !.exception = b]
  <2>1. row.status \notin ActiveBalance BY DEF BlankLeave, ActiveBalance
  <2> QED BY <1>3, <2>1, WriteLeaveSteady DEF CreateLeave
<1>4. ASSUME NEW r \in Leaves, NEW p \in LeaveUsers, UploadAttachment(r, p)
      PROVE  Steady
  <2> DEFINE row == [leave[r] EXCEPT !.attached = TRUE]
  <2>1. row.status = leave[r].status BY <1>0 DEF Leave
  <2> QED BY <1>4, <2>1, WriteLeaveSteady DEF UploadAttachment, ActiveBalance
<1>5. ASSUME NEW r \in Leaves, NEW p \in LeaveUsers, ManagerApprove(r, p)
      PROVE  Steady
  <2> DEFINE row == [leave[r] EXCEPT !.status = "ManagerApproved", !.endorsed = p]
  <2>1. row.span = leave[r].span BY <1>0 DEF Leave
  <2> QED BY <1>5, <2>1, WriteLeaveSteady DEF ManagerApprove, ActiveBalance
<1>6. ASSUME NEW r \in Leaves, NEW p \in LeaveUsers, HRApprove(r, p)
      PROVE  Steady
  <2> DEFINE row == [leave[r] EXCEPT !.status = "HRApproved", !.granted = p]
  <2>1. row.span = leave[r].span BY <1>0 DEF Leave
  <2> QED BY <1>6, <2>1, WriteLeaveSteady DEF HRApprove, ActiveBalance
<1>7. ASSUME NEW r \in Leaves, NEW p \in LeaveUsers, NEW s \in LeaveStatus, DecideLeave(r, p, s)
      PROVE  Steady
  BY <1>0, <1>7, WriteLeaveSteady, EndedInactive DEF DecideLeave
<1>8. ASSUME NEW r \in Leaves, NEW p \in LeaveUsers, CancelLeave(r, p)
      PROVE  Steady
  <2> DEFINE row == [leave[r] EXCEPT !.status = "CancellationPending",
                                     !.consent = FALSE, !.consented = Null]
  <2>1. row.span = leave[r].span BY <1>0 DEF Leave
  <2>2. ApprovedLeave \subseteq ActiveBalance BY DEF ApprovedLeave, ActiveBalance
  <2> QED BY <1>0, <1>8, <2>1, <2>2, WriteLeaveSteady, EndedInactive DEF CancelLeave
<1>9. ASSUME NEW r \in Leaves, NEW p \in LeaveUsers, Consent(r, p)
      PROVE  Steady
  <2> DEFINE row == [leave[r] EXCEPT !.consent = TRUE, !.consented = p]
  <2>1. row.span = leave[r].span BY <1>0 DEF Leave
  <2> QED BY <1>9, <2>1, WriteLeaveSteady DEF Consent, ActiveBalance
<1>10. ASSUME NEW r \in Leaves, NEW p \in LeaveUsers, ApproveCancellation(r, p)
       PROVE  Steady
  BY <1>0, <1>10, WriteLeaveSteady, EndedInactive DEF ApproveCancellation
<1>11. ASSUME NEW r \in Leaves, NEW p \in LeaveUsers, RejectCancellation(r, p)
       PROVE  Steady
  <2> DEFINE row == [leave[r] EXCEPT !.status = "HRApproved", !.consent = FALSE]
  <2>1. row.span = leave[r].span BY <1>0 DEF Leave
  <2> QED BY <1>11, <2>1, WriteLeaveSteady DEF RejectCancellation, ActiveBalance
<1>12. ASSUME NEW r \in Leaves, FailLeave(r) PROVE Steady
  BY <1>0, <1>12 DEF FailLeave, Steady, LeaveTypeOK
<1>13. ASSUME NEW p \in LeaveManagers \cup {Null}, ChangeManager(p) PROVE Steady
  BY <1>13 DEF ChangeManager, Steady
<1>14. CASE UNCHANGED leaveVars
  BY <1>14 DEF leaveVars, Steady
<1> QED BY <1>1, <1>2, <1>3, <1>4, <1>5, <1>6, <1>7, <1>8, <1>9, <1>10, <1>11, <1>12, <1>13, <1>14
        DEF LeaveNext, Configure, Adjust

\* The two parts of the invariant: whoever approved, approved the dates as they
\* are and was a colleague; and a submission's validation still holds when it commits,
\* or it carries a reason, or it is marked as overtaken (_validate_submission).
THEOREM LeaveInvariance == LeaveSpec => []BalanceInv
<1>1. LeaveInit => BalanceInv
  <2>1. LeaveInit => SubmissionsHold BY DEF LeaveInit, SubmissionsHold, Submitting
  <2> QED BY <2>1, LeaveInitInv DEF BalanceInv
<1> QED BY <1>1, LeaveBalanceInv, PTL DEF LeaveSpec

\* ApprovedAndConsented holds for any number of requests and approvers: a leave that
\* stands was approved for its present dates by the manager and HR or by an OWNER, and
\* a cancellation's consent is a colleague's.
THEOREM ApprovedAndConsentedHolds == LeaveSpec => []ApprovedAndConsented
<1>1. BalanceInv => ApprovedAndConsented BY DEF BalanceInv, LeaveInv
<1> QED BY <1>1, LeaveInvariance, PTL

\* SubmittedWithinBalance holds for any number of requests and any balance: a request
\* that becomes active against the balance or over another has a reason or was
\* overtaken. The balance is a sum over the requests, see Sums.
THEOREM SubmittedWithinBalanceHolds == LeaveSpec => SubmittedWithinBalance
  BY LeaveInvariance, LeaveBalanceInv, PTL DEF LeaveSpec, SubmittedWithinBalance

-----------------------------------------------------------------------------
(***************************************************************************)
(* Attendance, for any number of employees, offices and requests.          *)
(***************************************************************************)

\* c keeps the month of o, and found it open.
Holds(c, o) == o \in Offices /\ holder[o] = c /\ ~closed[o]

\* What a request has checked still holds when it commits, because of the months
\* it keeps.
ClerkOK(c) ==
  LET k == clerk[c] IN k # Nil =>
    /\ k.todo \subseteq k.of
    /\ k.op # "save" => \A e \in k.of : k.seen[e] \in Offices
    /\ \A e \in k.of \ k.todo : Holds(c, k.seen[e])
    /\ k.op = "save" /\ k.value # "leave" => \A e \in k.of \ k.todo : evidence[e] # k.seen[e]
    /\ k.op = "correct" => \A e \in k.of :
         /\ k.of = {e} /\ entry[e] \in Entry
         /\ k.todo = {} /\ entry[e].origin # Nil =>
              Holds(c, entry[e].origin) /\ k.old = entry[e].value
    /\ k.op = "leave" => \A e \in k.of \ k.todo :
         entry[e] \in Entry /\ entry[e].origin = k.seen[e] => entry[e].value = "leave" \/ entry[e].corrected

AttendanceInv == AttendanceTypeOK /\ RecordsExplained /\ \A c \in Clerks : ClerkOK(c)

\* A new record is one without a gap.
LEMMA NewEntryType ==
  ASSUME NEW v \in Values, NEW o \in Offices \cup {Nil}
  PROVE  /\ NewEntry(v, o) \in Entry /\ NewEntry(v, o).origin = o /\ NewEntry(v, o).value = v
         /\ ~NewEntry(v, o).gap
  BY DEF NewEntry, Entry, Late

LEMMA AttendanceInitInv == AttendanceInit => AttendanceInv
<1> SUFFICES ASSUME AttendanceInit PROVE AttendanceInv
  OBVIOUS
<1>1. NewEntry("onTime", Nil) \in Entry /\ NewEntry("onTime", Nil).origin = Nil
  BY AttendanceAssumption, NewEntryType DEF NewEntry
<1>2. AttendanceTypeOK BY <1>1 DEF AttendanceInit, AttendanceTypeOK
<1>3. RecordsExplained BY <1>1 DEF AttendanceInit, RecordsExplained
<1>4. \A c \in Clerks : ClerkOK(c) BY DEF AttendanceInit, ClerkOK
<1> QED BY <1>2, <1>3, <1>4 DEF AttendanceInv

-----------------------------------------------------------------------------
\* The other requests keep their months.
Kept(c) ==
  /\ UNCHANGED closed /\ clerk' = [clerk EXCEPT ![c] = clerk'[c]]
  /\ \A o \in Offices : holder[o] \in Clerks \ {c} => holder'[o] = holder[o]

LEMMA OthersKeep ==
  ASSUME AttendanceInv, NEW c \in Clerks, Kept(c), UNCHANGED <<entry, evidence>>, NEW d \in Clerks, d # c
  PROVE  ClerkOK(d)'
<1>1. clerk'[d] = clerk[d] BY DEF Kept, AttendanceInv, AttendanceTypeOK
<1>2. \A o : Holds(d, o) => Holds(d, o)' BY DEF Kept, Holds
<1> QED BY <1>1, <1>2 DEF ClerkOK, AttendanceInv

\* A step of c that writes nothing.
LEMMA NoWrite ==
  ASSUME AttendanceInv, NEW c \in Clerks, Kept(c), UNCHANGED <<office, entry, evidence, batch>>,
         clerk'[c] \in Task \cup {Nil}, holder' \in [Offices -> Clerks \cup {Nil}], ClerkOK(c)'
  PROVE  AttendanceInv' /\ EnteredInOpenMonth
<1>1. AttendanceTypeOK' BY DEF AttendanceInv, AttendanceTypeOK, Kept
<1>2. RecordsExplained' BY DEF AttendanceInv, RecordsExplained
<1>3. \A d \in Clerks : ClerkOK(d)' BY OthersKeep
<1>4. EnteredInOpenMonth BY DEF EnteredInOpenMonth
<1> QED BY <1>1, <1>2, <1>3, <1>4 DEF AttendanceInv

LEMMA BeginInv ==
  ASSUME AttendanceInv, NEW c \in Clerks, NEW op \in {"save", "import", "correct", "leave"},
         NEW of \in SUBSET Staff, NEW seen \in [Staff -> Offices \cup {Nil}], NEW value \in Values,
         NEW late \in BOOLEAN, NEW file \in Files \cup {Nil}, Begin(c, op, of, seen, value, late, file),
         op # "save" => \A e \in of : seen[e] \in Offices,
         op = "correct" => \A e \in of : of = {e} /\ entry[e] \in Entry
  PROVE  AttendanceInv' /\ EnteredInOpenMonth
<1> DEFINE k == [op |-> op, of |-> of, todo |-> of, seen |-> seen, value |-> value,
                 late |-> late, old |-> Nil, file |-> file]
<1>1. /\ clerk' = [clerk EXCEPT ![c] = k] /\ k \in Task
      /\ UNCHANGED <<office, closed, entry, evidence, batch, holder>>
  BY DEF Begin, Task
<1>2. clerk'[c] = k BY <1>1 DEF AttendanceInv, AttendanceTypeOK
<1>3. Kept(c) BY <1>1, <1>2 DEF Kept
<1>4. ClerkOK(c)'
  BY <1>1, <1>2 DEF ClerkOK
<1> QED BY <1>1, <1>2, <1>3, <1>4, NoWrite DEF AttendanceInv, AttendanceTypeOK

LEMMA TakeOpenKeeps ==
  ASSUME AttendanceInv, NEW c \in Clerks, NEW os \in SUBSET Offices, TakeOpen(c, os), UNCHANGED closed
  PROVE  /\ holder' \in [Offices -> Clerks \cup {Nil}]
         /\ \A o \in Offices : holder[o] \in Clerks \ {c} => holder'[o] = holder[o]
         /\ \A o \in os : Holds(c, o)'
         /\ \A o : Holds(c, o) => Holds(c, o)'
  BY AttendanceAssumption DEF TakeOpen, Lockable, Holds, AttendanceInv, AttendanceTypeOK

LEMMA LoadEmployeeInv ==
  ASSUME AttendanceInv, NEW c \in Clerks, NEW e \in Staff, LoadEmployee(c, e)
  PROVE  AttendanceInv' /\ EnteredInOpenMonth
<1>1. clerk[c] \in Task /\ clerk \in [Clerks -> Task \cup {Nil}]
  BY DEF LoadEmployee, Doing, AttendanceInv, AttendanceTypeOK
<1> DEFINE k == [clerk[c] EXCEPT !.seen = [clerk[c].seen EXCEPT ![e] = office[e]]]
<1>2. /\ clerk' = [clerk EXCEPT ![c] = k] /\ k \in Task
      /\ UNCHANGED <<office, closed, entry, evidence, batch, holder>>
  BY <1>1 DEF LoadEmployee, Task, AttendanceInv, AttendanceTypeOK
<1>3. clerk'[c] = k BY <1>1, <1>2
<1>4. ClerkOK(c)'
  <2>1. /\ k.todo = clerk[c].todo /\ k.of = clerk[c].of /\ k.op = "save" /\ k.value = clerk[c].value
        /\ clerk[c].op = "save" /\ e \in k.todo /\ \A d \in Staff : d # e => k.seen[d] = clerk[c].seen[d]
        /\ k.of \subseteq Staff
    BY <1>1 DEF LoadEmployee, Doing, Task
  <2>2. ClerkOK(c) /\ clerk[c] # Nil BY DEF AttendanceInv, LoadEmployee, Doing
  <2> HIDE DEF k
  <2> QED BY <1>2, <1>3, <2>1, <2>2 DEF ClerkOK, Holds
<1>5. Kept(c) BY <1>2, <1>3 DEF Kept
<1> QED BY <1>2, <1>3, <1>4, <1>5, NoWrite DEF AttendanceInv, AttendanceTypeOK

\* c checks e: its month is locked, e need not be looked at again.
LEMMA CheckInv ==
  ASSUME AttendanceInv, NEW c \in Clerks, NEW e \in Staff, clerk[c] # Nil, e \in clerk[c].todo,
         NEW os \in SUBSET Offices, TakeOpen(c, os), clerk[c].seen[e] \in os,
         NEW k \in Task, clerk' = [clerk EXCEPT ![c] = k],
         k.op = clerk[c].op, k.value = clerk[c].value, k.seen = clerk[c].seen,
         k.todo = clerk[c].todo \ {e}, k.of \in {clerk[c].of, clerk[c].of \ {e}},
         UNCHANGED <<office, closed, entry, evidence, batch>>,
         k.op = "save" /\ k.value # "leave" /\ e \in k.of => evidence[e] # k.seen[e],
         k.op = "correct" =>
           /\ k.of = {e}
           /\ entry[e].origin # Nil => entry[e].origin \in os /\ k.old = entry[e].value,
         k.op = "leave" /\ entry[e] \in Entry => entry[e].value = "leave"
  PROVE  AttendanceInv' /\ EnteredInOpenMonth
<1>1. /\ clerk'[c] = k /\ ClerkOK(c) /\ clerk[c] \in Task
  BY DEF AttendanceInv, AttendanceTypeOK
<1>2. /\ holder' \in [Offices -> Clerks \cup {Nil}]
      /\ \A o \in Offices : holder[o] \in Clerks \ {c} => holder'[o] = holder[o]
      /\ \A o \in os : Holds(c, o)' /\ \A p : Holds(c, p) => Holds(c, p)'
  BY TakeOpenKeeps
<1>3. \A o : Holds(c, o) => Holds(c, o)' BY TakeOpenKeeps
<1>4. ClerkOK(c)'
  <2>1. k.todo \subseteq k.of /\ (k.op # "save" => \A d \in k.of : k.seen[d] \in Offices)
    BY <1>1 DEF ClerkOK
  <2>2. \A d \in k.of \ k.todo : Holds(c, k.seen[d])' BY <1>1, <1>2, <1>3 DEF ClerkOK
  <2>3. k.op = "save" /\ k.value # "leave" => \A d \in k.of \ k.todo : evidence'[d] # k.seen[d]
    BY <1>1 DEF ClerkOK
  <2>4. k.op = "correct" => \A d \in k.of :
         /\ k.of = {d} /\ entry'[d] \in Entry
         /\ k.todo = {} /\ entry'[d].origin # Nil =>
              Holds(c, entry[d].origin)' /\ k.old = entry'[d].value
    BY <1>1, <1>2 DEF ClerkOK
  <2>5. k.op = "leave" => \A d \in k.of \ k.todo :
         entry'[d] \in Entry /\ entry'[d].origin = k.seen[d] => entry'[d].value = "leave" \/ entry'[d].corrected
    BY <1>1 DEF ClerkOK
  <2> QED BY <1>1, <2>1, <2>2, <2>3, <2>4, <2>5 DEF ClerkOK, Holds
<1>5. Kept(c) BY <1>1, <1>2 DEF Kept
<1> QED BY <1>1, <1>2, <1>4, <1>5, NoWrite

LEMMA ReleaseKeeps ==
  ASSUME AttendanceInv, NEW c \in Clerks, Release(c), UNCHANGED closed
  PROVE  /\ Kept(c) /\ holder' \in [Offices -> Clerks \cup {Nil}]
         /\ clerk' \in [Clerks -> Task \cup {Nil}] /\ clerk'[c] = Nil
         /\ \A d \in Clerks : d # c => clerk'[d] = clerk[d]
         /\ \A d \in Clerks, o \in Offices : d # c /\ Holds(d, o) => Holds(d, o)'
  BY AttendanceAssumption DEF Release, Kept, Holds, AttendanceInv, AttendanceTypeOK

\* The record of e is new, or corrected, by one who keeps the month it is filed in.
Written(c, e) ==
  /\ entry'[e] \in Entry
  /\ entry'[e].origin # Nil => Holds(c, entry'[e].origin)
  /\ \/ entry[e] = Nil
     \/ entry[e] \in Entry /\ entry'[e].origin = entry[e].origin /\ entry'[e].corrected

LEMMA WriteInv ==
  ASSUME AttendanceInv, NEW c \in Clerks, Release(c), UNCHANGED <<office, closed, evidence>>,
         batch' \in [Files -> {"none", "staged", "confirmed"}],
         entry' = [e \in Staff |-> entry'[e]], \A e \in Staff : entry'[e] = entry[e] \/ Written(c, e),
         RecordsExplained'
  PROVE  AttendanceInv' /\ EnteredInOpenMonth
<1>1. AttendanceTypeOK
  BY DEF AttendanceInv
<1>2. AttendanceTypeOK'
  BY <1>1, ReleaseKeeps DEF AttendanceTypeOK, Written
<1>3. EnteredInOpenMonth
  BY DEF EnteredInOpenMonth, Written, Holds
<1>4. ASSUME NEW d \in Clerks PROVE ClerkOK(d)'
  <2>1. CASE d = c BY <2>1, ReleaseKeeps DEF ClerkOK
  <2>2. CASE d # c /\ clerk[d] # Nil
    <3>0. PICK k : k = clerk[d] OBVIOUS
    <3>1. clerk'[d] = k /\ k \in Task /\ k.of \subseteq Staff /\ \A o \in Offices : Holds(d, o) => Holds(d, o)'
      BY <1>1, <2>2, <3>0, ReleaseKeeps DEF AttendanceTypeOK, Task
    <3>2. /\ k.todo \subseteq k.of
          /\ k.op # "save" => \A e \in k.of : k.seen[e] \in Offices
          /\ \A e \in k.of \ k.todo : Holds(d, k.seen[e])
          /\ k.op = "save" /\ k.value # "leave" => \A e \in k.of \ k.todo : evidence[e] # k.seen[e]
          /\ k.op = "correct" => \A e \in k.of :
               /\ k.of = {e} /\ entry[e] \in Entry
               /\ k.todo = {} /\ entry[e].origin # Nil =>
                    Holds(d, entry[e].origin) /\ k.old = entry[e].value
          /\ k.op = "leave" => \A e \in k.of \ k.todo :
               entry[e] \in Entry /\ entry[e].origin = k.seen[e] => entry[e].value = "leave" \/ entry[e].corrected
      BY <2>2, <3>0 DEF AttendanceInv, ClerkOK
    <3>3. \A o : ~(Holds(d, o) /\ Holds(c, o))
      BY <2>2 DEF Holds
    <3>4. \A e \in k.of \ k.todo : Holds(d, k.seen[e])'
      BY <3>1, <3>2 DEF Holds
    <3>5. k.op = "correct" => \A e \in k.of :
               /\ entry'[e] \in Entry
               /\ k.todo = {} /\ entry'[e].origin # Nil =>
                    Holds(d, entry[e].origin)' /\ k.old = entry'[e].value
      <4> SUFFICES ASSUME k.op = "correct", NEW e \in k.of
                   PROVE  /\ entry'[e] \in Entry
                          /\ k.todo = {} /\ entry'[e].origin # Nil =>
                               Holds(d, entry[e].origin)' /\ k.old = entry'[e].value
        OBVIOUS
      <4>1. entry[e] \in Entry /\ entry[e] # Nil /\ e \in Staff BY <3>1, <3>2, AttendanceAssumption
      <4>2. CASE entry'[e] = entry[e] BY <3>1, <3>2, <4>1, <4>2 DEF Holds
      <4>3. CASE Written(c, e)
        <5>1. entry'[e] \in Entry /\ entry'[e].origin = entry[e].origin
              /\ (entry[e].origin # Nil => Holds(c, entry[e].origin))
          BY <4>1, <4>3 DEF Written
        <5> QED BY <3>2, <3>3, <5>1
      <4> QED BY <4>1, <4>2, <4>3
    <3>6. k.op = "leave" => \A e \in k.of \ k.todo :
               entry'[e] \in Entry /\ entry'[e].origin = k.seen[e] => entry'[e].value = "leave" \/ entry'[e].corrected
      <4> SUFFICES ASSUME k.op = "leave", NEW e \in k.of \ k.todo, entry'[e] \in Entry, entry'[e].origin = k.seen[e]
                   PROVE  entry'[e].value = "leave" \/ entry'[e].corrected
        OBVIOUS
      <4>1. CASE entry'[e] = entry[e] BY <3>2, <4>1
      <4>2. CASE Written(c, e)
        <5>1. Holds(d, k.seen[e]) /\ k.seen[e] # Nil BY <3>2, AttendanceAssumption DEF Holds
        <5> QED BY <3>3, <4>2, <5>1 DEF Written
      <4> QED BY <3>1, <4>1, <4>2
    <3> QED BY <3>1, <3>2, <3>4, <3>5, <3>6 DEF ClerkOK
  <2>3. CASE d # c /\ clerk[d] = Nil BY <2>3, ReleaseKeeps DEF ClerkOK
  <2> QED BY <2>1, <2>2, <2>3
<1> QED BY <1>2, <1>3, <1>4 DEF AttendanceInv

LEMMA CommitSaveInv ==
  ASSUME AttendanceInv, NEW c \in Clerks, CommitSave(c)
  PROVE  AttendanceInv' /\ EnteredInOpenMonth
<1> DEFINE k == clerk[c]
<1>1. /\ k \in Task /\ k.op = "save" /\ k.todo = {} /\ k.value \in Values /\ ClerkOK(c) /\ k # Nil
      /\ \A e \in k.of : entry[e] = Nil
      /\ entry' = Recorded(c) /\ Release(c) /\ UNCHANGED <<office, closed, evidence, batch>>
  BY DEF CommitSave, Doing, AttendanceInv, AttendanceTypeOK, Task
<1>2. \A e \in k.of : Holds(c, k.seen[e]) /\ (k.value # "leave" => evidence[e] # k.seen[e])
  BY <1>1 DEF ClerkOK
<1> HIDE DEF k
<1>3. \A e \in Staff : entry'[e] = IF e \in k.of THEN NewEntry(k.value, k.seen[e]) ELSE entry[e]
  BY <1>1 DEF Recorded, k
<1>4. k.of \subseteq Staff /\ \A e \in k.of : k.seen[e] \in Offices /\ entry'[e] \in Entry
        /\ entry'[e].origin = k.seen[e] /\ entry'[e].value = k.value /\ ~entry'[e].gap
  <2>1. k.of \subseteq Staff BY <1>1 DEF Task
  <2>2. \A e \in k.of : k.seen[e] \in Offices BY <1>2 DEF Holds
  <2>3. \A e \in k.of : entry'[e] = NewEntry(k.value, k.seen[e]) BY <1>3, <2>1
  <2>4. \A o \in Offices : /\ NewEntry(k.value, o) \in Entry /\ NewEntry(k.value, o).origin = o
                            /\ NewEntry(k.value, o).value = k.value /\ ~NewEntry(k.value, o).gap
    BY <1>1, NewEntryType
  <2> QED BY <2>1, <2>2, <2>3, <2>4
<1>5. \A e \in Staff : entry'[e] = entry[e] \/ Written(c, e)
  BY <1>1, <1>2, <1>3, <1>4 DEF Written
<1>6. RecordsExplained'
  BY <1>1, <1>2, <1>3, <1>4 DEF RecordsExplained, AttendanceInv
<1>7. entry' = [e \in Staff |-> entry'[e]] /\ batch' \in [Files -> {"none", "staged", "confirmed"}]
  BY <1>1 DEF Recorded, AttendanceInv, AttendanceTypeOK
<1> QED BY <1>1, <1>5, <1>6, <1>7, WriteInv

LEMMA CommitImportInv ==
  ASSUME AttendanceInv, NEW c \in Clerks, CommitImport(c)
  PROVE  AttendanceInv' /\ EnteredInOpenMonth
<1> DEFINE k == clerk[c]
<1>1. /\ k \in Task /\ k.op = "import" /\ k.todo = {} /\ k.value \in Values /\ ClerkOK(c) /\ k # Nil
      /\ \A e \in k.of : Acceptable(e, "onTime")
      /\ entry' = Recorded(c) /\ Release(c) /\ UNCHANGED <<office, closed, evidence>>
      /\ batch' = [batch EXCEPT ![k.file] = "confirmed"]
  BY DEF CommitImport, Doing, AttendanceInv, AttendanceTypeOK, Task
<1>2. \A e \in k.of : Holds(c, k.seen[e])
  BY <1>1 DEF ClerkOK
<1> HIDE DEF k
<1>3. \A e \in Staff : entry'[e] = IF e \in k.of THEN NewEntry(k.value, k.seen[e]) ELSE entry[e]
  BY <1>1 DEF Recorded, k
<1>4. k.of \subseteq Staff /\ \A e \in k.of : k.seen[e] \in Offices /\ entry'[e] \in Entry
        /\ entry'[e].origin = k.seen[e] /\ entry'[e].value = k.value /\ ~entry'[e].gap
  <2>1. k.of \subseteq Staff BY <1>1 DEF Task
  <2>2. \A e \in k.of : k.seen[e] \in Offices BY <1>2 DEF Holds
  <2>3. \A e \in k.of : entry'[e] = NewEntry(k.value, k.seen[e]) BY <1>3, <2>1
  <2>4. \A o \in Offices : /\ NewEntry(k.value, o) \in Entry /\ NewEntry(k.value, o).origin = o
                            /\ NewEntry(k.value, o).value = k.value /\ ~NewEntry(k.value, o).gap
    BY <1>1, NewEntryType
  <2> QED BY <2>1, <2>2, <2>3, <2>4
<1>5. \A e \in Staff : entry'[e] = entry[e] \/ Written(c, e)
  BY <1>1, <1>2, <1>3, <1>4 DEF Written, Acceptable
<1>6. RecordsExplained'
  BY <1>1, <1>2, <1>3, <1>4 DEF RecordsExplained, AttendanceInv, Acceptable
<1>7. entry' = [e \in Staff |-> entry'[e]] /\ batch' \in [Files -> {"none", "staged", "confirmed"}]
  BY <1>1 DEF Recorded, AttendanceInv, AttendanceTypeOK
<1> QED BY <1>1, <1>5, <1>6, <1>7, WriteInv

LEMMA CommitCorrectionInv ==
  ASSUME AttendanceInv, NEW c \in Clerks, NEW e \in Staff, CommitCorrection(c, e)
  PROVE  AttendanceInv' /\ EnteredInOpenMonth
<1> DEFINE k == clerk[c]
           late == Late(k.value)
           corrected == [entry[e] EXCEPT !.value = k.value,
                           !.late = IF late = k.late THEN @ ELSE late, !.corrected = TRUE,
                           !.gap = @ \/ entry[e].value # k.old]
<1>1. /\ k \in Task /\ k.op = "correct" /\ k.todo = {} /\ k.of = {e} /\ k.value \in Values
      /\ k.late \in BOOLEAN /\ late \in BOOLEAN /\ ClerkOK(c) /\ k # Nil
      /\ Release(c) /\ UNCHANGED <<office, closed, evidence, batch>>
  BY DEF CommitCorrection, Doing, AttendanceInv, AttendanceTypeOK, Task, Late
<1>2. entry[e] \in Entry /\ (entry[e].origin # Nil => Holds(c, entry[e].origin) /\ k.old = entry[e].value)
  BY <1>1 DEF ClerkOK
<1>3. entry' = [entry EXCEPT ![e] = corrected] /\ entry \in [Staff -> Entry \cup {Nil}]
  BY <1>2 DEF CommitCorrection, Entry, AttendanceInv, AttendanceTypeOK
<1> HIDE DEF k, late
<1>4. /\ corrected \in Entry /\ corrected.origin = entry[e].origin /\ corrected.corrected
      /\ (k.old = entry[e].value => corrected.gap = entry[e].gap)
  BY <1>1, <1>2 DEF Entry
<1> HIDE DEF corrected
<1>5. entry'[e] = corrected /\ \A d \in Staff : d # e => entry'[d] = entry[d]
  BY <1>3
<1>6. \A d \in Staff : entry'[d] = entry[d] \/ Written(c, d)
  BY <1>2, <1>4, <1>5 DEF Written
<1>7. RecordsExplained'
  BY <1>1, <1>2, <1>4, <1>5, AttendanceAssumption DEF RecordsExplained, AttendanceInv
<1>8. entry' = [d \in Staff |-> entry'[d]] /\ batch' \in [Files -> {"none", "staged", "confirmed"}]
  BY <1>1, <1>3 DEF AttendanceInv, AttendanceTypeOK
<1> QED BY <1>1, <1>6, <1>7, <1>8, WriteInv

LEMMA CommitLeaveRecordInv ==
  ASSUME AttendanceInv, NEW c \in Clerks, NEW e \in Staff, CommitLeaveRecord(c, e)
  PROVE  AttendanceInv' /\ EnteredInOpenMonth
<1> DEFINE o == clerk[c].seen[e]
<1>1. /\ clerk[c] # Nil /\ clerk[c].op = "leave" /\ clerk[c].todo = {} /\ clerk[c].of = {e}
      /\ evidence' = [evidence EXCEPT ![e] = o] /\ Release(c)
      /\ UNCHANGED <<office, closed, entry, batch>>
  BY DEF CommitLeaveRecord, Doing
<1>2. /\ Holds(c, o)
      /\ entry[e] \in Entry /\ entry[e].origin = o => entry[e].value = "leave" \/ entry[e].corrected
  BY <1>1 DEF AttendanceInv, ClerkOK
<1> HIDE DEF o
<1>3. evidence'[e] = o /\ (\A d \in Staff : d # e => evidence'[d] = evidence[d]) /\ o \in Offices
  BY <1>1, <1>2 DEF AttendanceInv, AttendanceTypeOK, Holds
<1>4. AttendanceTypeOK'
  BY <1>1, <1>3, ReleaseKeeps DEF AttendanceInv, AttendanceTypeOK
<1>5. RecordsExplained'
  BY <1>1, <1>2, <1>3 DEF RecordsExplained, AttendanceInv, AttendanceTypeOK
<1>6. ASSUME NEW d \in Clerks PROVE ClerkOK(d)'
  <2>1. CASE d = c BY <1>1, <2>1, ReleaseKeeps DEF ClerkOK
  <2>2. CASE d # c /\ clerk[d] # Nil
    <3>1. clerk'[d] = clerk[d] /\ clerk[d].of \subseteq Staff /\ \A p \in Offices : Holds(d, p) => Holds(d, p)'
      BY <1>1, <2>2, ReleaseKeeps DEF AttendanceInv, AttendanceTypeOK, Task
    <3>2. ClerkOK(d) BY DEF AttendanceInv
    <3>3. ~Holds(d, o) BY <1>2, <2>2 DEF Holds
    <3>4. \A p : Holds(d, p) => Holds(d, p)' BY <3>1 DEF Holds
    <3>5. \A f \in clerk[d].of \ clerk[d].todo : evidence'[f] = evidence[f] \/ evidence'[f] # clerk[d].seen[f]
      BY <1>3, <2>2, <3>1, <3>2, <3>3 DEF ClerkOK
    <3> QED BY <1>1, <2>2, <3>1, <3>2, <3>4, <3>5 DEF ClerkOK
  <2>3. CASE d # c /\ clerk[d] = Nil BY <1>1, <2>3, ReleaseKeeps DEF ClerkOK
  <2> QED BY <2>1, <2>2, <2>3
<1>7. EnteredInOpenMonth
  BY <1>1, <1>2, <1>3 DEF EnteredInOpenMonth, Holds
<1> QED BY <1>4, <1>5, <1>6, <1>7 DEF AttendanceInv

LEMMA StartInv ==
  ASSUME AttendanceInv, NEW c \in Clerks
  PROVE  /\ \A es \in SUBSET Staff \ {{}}, v \in Values :
              BeginSave(c, es, v) => AttendanceInv' /\ EnteredInOpenMonth
         /\ \A f \in Files : BeginImport(c, f) => AttendanceInv' /\ EnteredInOpenMonth
         /\ \A e \in Staff, v \in Values :
              BeginCorrection(c, e, v) => AttendanceInv' /\ EnteredInOpenMonth
         /\ \A e \in Staff : BeginLeave(c, e) => AttendanceInv' /\ EnteredInOpenMonth
<1>1. /\ office \in [Staff -> Offices \cup {Nil}] /\ Nowhere \in [Staff -> Offices \cup {Nil}]
      /\ \A e \in Staff : [Nowhere EXCEPT ![e] = office[e]] \in [Staff -> Offices \cup {Nil}]
  BY DEF AttendanceInv, AttendanceTypeOK, Nowhere
<1>2. ASSUME NEW es \in SUBSET Staff \ {{}}, NEW v \in Values, BeginSave(c, es, v)
      PROVE  AttendanceInv' /\ EnteredInOpenMonth
  BY <1>1, <1>2, BeginInv DEF BeginSave
<1>3. ASSUME NEW f \in Files, BeginImport(c, f) PROVE AttendanceInv' /\ EnteredInOpenMonth
  <2>1. Rows[f] \in SUBSET Staff /\ "onTime" \in Values /\ \A e \in Rows[f] : office[e] \in Offices
    BY AttendanceAssumption DEF AttendanceInv, AttendanceTypeOK
  <2>2. Begin(c, "import", Rows[f], office, "onTime", FALSE, f) BY <1>3 DEF BeginImport
  <2> QED BY <1>1, <2>1, <2>2, BeginInv
<1>4. ASSUME NEW e \in Staff, NEW v \in Values, BeginCorrection(c, e, v)
      PROVE  AttendanceInv' /\ EnteredInOpenMonth
  <2>1. entry[e] \in Entry /\ entry[e].late \in BOOLEAN
    BY <1>4 DEF BeginCorrection, AttendanceInv, AttendanceTypeOK, Entry
  <2>2. Begin(c, "correct", {e}, [Nowhere EXCEPT ![e] = office[e]], v, entry[e].late, Nil)
    BY <1>4 DEF BeginCorrection
  <2>3. /\ {e} \in SUBSET Staff /\ \A d \in {e} : {e} = {d} /\ entry[d] \in Entry
        /\ \A d \in {e} : [Nowhere EXCEPT ![e] = office[e]][d] \in Offices
    BY <2>1 DEF Nowhere, AttendanceInv, AttendanceTypeOK
  <2>4. PICK seen \in [Staff -> Offices \cup {Nil}] : seen = [Nowhere EXCEPT ![e] = office[e]]
    BY <1>1
  <2>5. PICK late \in BOOLEAN : late = entry[e].late
    BY <2>1
  <2>6. PICK of \in SUBSET Staff : of = {e}
    BY <2>3
  <2>7. Begin(c, "correct", of, seen, v, late, Nil)
    BY <2>2, <2>4, <2>5, <2>6
  <2>8. \A d \in of : seen[d] \in Offices /\ of = {d} /\ entry[d] \in Entry
    BY <2>3, <2>4, <2>6
  <2> QED BY <2>7, <2>8, BeginInv
<1>5. ASSUME NEW e \in Staff, BeginLeave(c, e) PROVE AttendanceInv' /\ EnteredInOpenMonth
  <2>1. /\ {e} \in SUBSET Staff /\ "onTime" \in Values
        /\ \A d \in {e} : [Nowhere EXCEPT ![e] = office[e]][d] \in Offices
    BY AttendanceAssumption DEF Nowhere, AttendanceInv, AttendanceTypeOK
  <2>2. Begin(c, "leave", {e}, [Nowhere EXCEPT ![e] = office[e]], "onTime", FALSE, Nil)
    BY <1>5 DEF BeginLeave
  <2> QED BY <1>1, <2>1, <2>2, BeginInv
<1> QED BY <1>2, <1>3, <1>4, <1>5

\* What a request has seen of an employee is his office.
LEMMA SeenOffice ==
  ASSUME AttendanceInv, NEW c \in Clerks, NEW e \in Staff, clerk[c] # Nil
  PROVE  /\ clerk[c] \in Task /\ clerk[c].seen[e] \in Offices \cup {Nil} /\ clerk[c].of \subseteq Staff
         /\ clerk[c].todo \subseteq clerk[c].of
         /\ clerk[c].op # "save" => \A d \in clerk[c].of : clerk[c].seen[d] \in Offices
         /\ clerk[c].op = "correct" => \A d \in clerk[c].of : clerk[c].of = {d} /\ entry[d] \in Entry
  BY DEF AttendanceInv, AttendanceTypeOK, ClerkOK, Task

LEMMA CheckEntryInv ==
  ASSUME AttendanceInv, NEW c \in Clerks, NEW e \in Staff, CheckEntry(c, e)
  PROVE  AttendanceInv' /\ EnteredInOpenMonth
<1>1. /\ clerk[c] # Nil /\ clerk[c].op = "save" /\ e \in clerk[c].todo /\ clerk[c].seen[e] # Nil
      /\ TakeOpen(c, {clerk[c].seen[e]}) /\ UNCHANGED <<office, closed, entry, evidence, batch>>
  BY DEF CheckEntry, Doing
<1>2. clerk[c] \in Task /\ {clerk[c].seen[e]} \in SUBSET Offices /\ clerk \in [Clerks -> Task \cup {Nil}]
  BY <1>1, SeenOffice DEF AttendanceInv, AttendanceTypeOK
<1>3. CASE Acceptable(e, clerk[c].value) /\ clerk' = [clerk EXCEPT ![c].todo = @ \ {e}]
  <2> DEFINE k == [clerk[c] EXCEPT !.todo = @ \ {e}]
  <2>1. /\ k \in Task /\ k.op = "save" /\ k.value = clerk[c].value /\ k.seen = clerk[c].seen
        /\ k.todo = clerk[c].todo \ {e} /\ k.of = clerk[c].of
    BY <1>1, <1>2 DEF Task
  <2>2. clerk' = [clerk EXCEPT ![c] = k] BY <1>3
  <2>3. k.value # "leave" => evidence[e] # k.seen[e]
    BY <1>1, <1>3, <2>1 DEF Acceptable
  <2> HIDE DEF k
  <2> QED BY <1>1, <1>2, <2>1, <2>2, <2>3, CheckInv
<1>4. CASE clerk' = [clerk EXCEPT ![c].todo = @ \ {e}, ![c].of = @ \ {e}]
  <2> DEFINE k == [clerk[c] EXCEPT !.todo = @ \ {e}, !.of = @ \ {e}]
  <2>1. /\ k \in Task /\ k.op = "save" /\ k.value = clerk[c].value /\ k.seen = clerk[c].seen
        /\ k.todo = clerk[c].todo \ {e} /\ k.of = clerk[c].of \ {e}
    BY <1>1, <1>2 DEF Task
  <2>2. clerk' = [clerk EXCEPT ![c] = k] BY <1>2, <1>4
  <2> HIDE DEF k
  <2> QED BY <1>1, <1>2, <2>1, <2>2, CheckInv
<1> QED BY <1>3, <1>4 DEF CheckEntry

LEMMA LockImportInv ==
  ASSUME AttendanceInv, NEW c \in Clerks, NEW e \in Staff, LockImport(c, e)
  PROVE  AttendanceInv' /\ EnteredInOpenMonth
<1> DEFINE k == [clerk[c] EXCEPT !.todo = @ \ {e}]
<1>1. /\ clerk[c] # Nil /\ clerk[c].op = "import" /\ e \in clerk[c].todo
      /\ TakeOpen(c, {clerk[c].seen[e]}) /\ UNCHANGED <<office, closed, entry, evidence, batch>>
      /\ clerk' = [clerk EXCEPT ![c] = k]
  BY DEF LockImport, Doing
<1>2. clerk[c] \in Task /\ clerk[c].seen[e] \in Offices
  BY <1>1, SeenOffice
<1>3. /\ k \in Task /\ k.op = "import" /\ k.value = clerk[c].value /\ k.seen = clerk[c].seen
      /\ k.todo = clerk[c].todo \ {e} /\ k.of = clerk[c].of
  BY <1>1, <1>2 DEF Task
<1> HIDE DEF k
<1> QED BY <1>1, <1>2, <1>3, CheckInv

LEMMA RefreshRecordInv ==
  ASSUME AttendanceInv, NEW c \in Clerks, NEW e \in Staff, RefreshRecord(c, e)
  PROVE  AttendanceInv' /\ EnteredInOpenMonth
<1> DEFINE k == [clerk[c] EXCEPT !.todo = {}, !.old = entry[e].value]
           os == {clerk[c].seen[e], entry[e].origin} \ {Nil}
<1>1. /\ clerk[c] # Nil /\ clerk[c].op = "correct" /\ clerk[c].todo = {e}
      /\ TakeOpen(c, os) /\ UNCHANGED <<office, closed, entry, evidence, batch>>
      /\ clerk' = [clerk EXCEPT ![c].todo = {}, ![c].old = entry[e].value]
  BY DEF RefreshRecord, Doing
<1>2. /\ clerk[c] \in Task /\ clerk[c].seen[e] \in Offices /\ entry[e] \in Entry /\ clerk[c].of = {e}
  BY <1>1, SeenOffice
<1>3. entry[e].value \in Values /\ entry[e].origin \in Offices \cup {Nil}
  BY <1>2 DEF Entry
<1>4. os \in SUBSET Offices /\ clerk[c].seen[e] \in os /\ (entry[e].origin # Nil => entry[e].origin \in os)
  BY <1>2, <1>3, AttendanceAssumption
<1>5. /\ k \in Task /\ k.op = "correct" /\ k.value = clerk[c].value /\ k.seen = clerk[c].seen
      /\ k.todo = clerk[c].todo \ {e} /\ k.of = clerk[c].of /\ k.old = entry[e].value
  BY <1>1, <1>2, <1>3 DEF Task
<1>6. clerk' = [clerk EXCEPT ![c] = k]
  BY <1>1, <1>2 DEF AttendanceInv, AttendanceTypeOK
<1>7. k.op = "correct" =>
         /\ k.of = {e}
         /\ entry[e].origin # Nil => entry[e].origin \in os /\ k.old = entry[e].value
  BY <1>2, <1>4, <1>5
<1>8. k.op # "save" /\ k.op # "leave" /\ TakeOpen(c, os) /\ UNCHANGED <<office, closed, entry, evidence, batch>>
  BY <1>1, <1>5
<1>9. clerk[c] # Nil /\ e \in clerk[c].todo
  BY <1>1
<1> HIDE DEF k, os
<1>10. PICK n \in Task : n = k
  BY <1>5
<1>11. PICK ms \in SUBSET Offices : ms = os
  BY <1>4
<1>12. /\ TakeOpen(c, ms) /\ clerk[c].seen[e] \in ms /\ clerk' = [clerk EXCEPT ![c] = n]
       /\ n.op = clerk[c].op /\ n.value = clerk[c].value /\ n.seen = clerk[c].seen
       /\ n.todo = clerk[c].todo \ {e} /\ n.of = clerk[c].of
       /\ n.op # "save" /\ n.op # "leave"
  BY <1>1, <1>4, <1>5, <1>6, <1>8, <1>10, <1>11
<1>13. n.op = "correct" => n.of = {e} /\ (entry[e].origin # Nil => entry[e].origin \in ms /\ n.old = entry[e].value)
  BY <1>7, <1>10, <1>11
<1> QED BY <1>8, <1>9, <1>12, <1>13, CheckInv

LEMMA LockLeaveInv ==
  ASSUME AttendanceInv, NEW c \in Clerks, NEW e \in Staff, LockLeave(c, e)
  PROVE  AttendanceInv' /\ EnteredInOpenMonth
<1> DEFINE k == [clerk[c] EXCEPT !.todo = {}]
<1>1. /\ clerk[c] # Nil /\ clerk[c].op = "leave" /\ clerk[c].todo = {e}
      /\ TakeOpen(c, {clerk[c].seen[e]}) /\ UNCHANGED <<office, closed, entry, evidence, batch>>
      /\ clerk' = [clerk EXCEPT ![c] = k] /\ (entry[e] # Nil => entry[e].value = "leave")
  BY DEF LockLeave, Doing
<1>2. clerk[c] \in Task /\ clerk[c].seen[e] \in Offices
  BY <1>1, SeenOffice
<1>3. /\ k \in Task /\ k.op = "leave" /\ k.value = clerk[c].value /\ k.seen = clerk[c].seen
      /\ k.todo = clerk[c].todo \ {e} /\ k.of = clerk[c].of
  BY <1>1, <1>2 DEF Task
<1> HIDE DEF k
<1>4. entry[e] \in Entry => entry[e].value = "leave"
  BY <1>1, AttendanceAssumption
<1> QED BY <1>1, <1>2, <1>3, <1>4, CheckInv

LEMMA GiveUpInv ==
  ASSUME AttendanceInv, NEW c \in Clerks, GiveUp(c)
  PROVE  AttendanceInv' /\ EnteredInOpenMonth
<1>1. Release(c) /\ UNCHANGED <<office, closed, entry, evidence, batch>>
  BY DEF GiveUp
<1>2. /\ Kept(c) /\ holder' \in [Offices -> Clerks \cup {Nil}] /\ clerk'[c] = Nil
  BY <1>1, ReleaseKeeps
<1>3. ClerkOK(c)' BY <1>2 DEF ClerkOK
<1> QED BY <1>1, <1>2, <1>3, NoWrite

\* A month that changes is nobody's; an employee who moves leaves records and locks.
LEMMA SurroundingsInv ==
  ASSUME AttendanceInv, UNCHANGED <<entry, evidence, holder, clerk>>, AttendanceTypeOK',
         \A o \in Offices : holder[o] # Nil => closed'[o] = closed[o]
  PROVE  AttendanceInv' /\ EnteredInOpenMonth
<1>1. ASSUME NEW c \in Clerks, NEW o, Holds(c, o) PROVE Holds(c, o)'
  BY <1>1, AttendanceAssumption DEF Holds
<1>2. \A c \in Clerks : ClerkOK(c)' BY <1>1 DEF AttendanceInv, ClerkOK
<1>3. RecordsExplained' BY DEF AttendanceInv, RecordsExplained
<1>4. EnteredInOpenMonth BY DEF EnteredInOpenMonth
<1> QED BY <1>2, <1>3, <1>4 DEF AttendanceInv

LEMMA AttendanceNextInv ==
  ASSUME AttendanceInv, [AttendanceNext]_attendanceVars
  PROVE  AttendanceInv' /\ EnteredInOpenMonth
<1>1. ASSUME NEW c \in Clerks, ClerkStep(c) PROVE AttendanceInv' /\ EnteredInOpenMonth
  BY <1>1, StartInv, CommitSaveInv, CommitImportInv, LoadEmployeeInv, CheckEntryInv, LockImportInv,
     RefreshRecordInv, CommitCorrectionInv, LockLeaveInv, CommitLeaveRecordInv, GiveUpInv
     DEF ClerkStep
<1>2. ASSUME NEW f \in Files, StageImport(f) PROVE AttendanceInv' /\ EnteredInOpenMonth
  BY <1>2, SurroundingsInv DEF StageImport, AttendanceInv, AttendanceTypeOK
<1>3. ASSUME NEW o \in Offices, ChangeMonth(o) PROVE AttendanceInv' /\ EnteredInOpenMonth
  BY <1>3, SurroundingsInv DEF ChangeMonth, AttendanceInv, AttendanceTypeOK
<1>4. ASSUME NEW e \in Staff, NEW o \in Offices, MoveEmployee(e, o)
      PROVE  AttendanceInv' /\ EnteredInOpenMonth
  BY <1>4, SurroundingsInv DEF MoveEmployee, AttendanceInv, AttendanceTypeOK
<1>5. CASE UNCHANGED attendanceVars
  <2>1. AttendanceTypeOK' BY <1>5 DEF attendanceVars, AttendanceInv, AttendanceTypeOK
  <2> QED BY <1>5, <2>1, SurroundingsInv DEF attendanceVars
<1> QED BY <1>1, <1>2, <1>3, <1>4, <1>5 DEF AttendanceNext

\* In every reachable state the types hold, the records are explained, and every request
\* that passed a check still holds the months that make it true when it commits.
THEOREM AttendanceInvariance == AttendanceSpec => []AttendanceInv
<1>1. AttendanceInv /\ [AttendanceNext]_attendanceVars => AttendanceInv'
  BY AttendanceNextInv
<1> QED BY <1>1, AttendanceInitInv, PTL DEF AttendanceSpec

\* However entries, imports, corrections, recorded leave, moves and month changes overlap,
\* a record with provenance has a history without a gap, and an uncorrected presence
\* stands beside a recorded leave only when they were filed under different offices.
THEOREM RecordsExplainedHolds == AttendanceSpec => []RecordsExplained
<1>1. AttendanceInv => RecordsExplained BY DEF AttendanceInv
<1> QED BY <1>1, AttendanceInvariance, PTL

\* A closed month stands: nothing is entered, corrected or recorded as leave under an
\* office whose month is closed.
THEOREM ClosedMonthStandsHolds == AttendanceSpec => ClosedMonthStands
<1>1. AttendanceInv /\ [AttendanceNext]_attendanceVars => EnteredInOpenMonth
  BY AttendanceNextInv
<1> QED BY <1>1, AttendanceInvariance, PTL DEF AttendanceSpec, ClosedMonthStands

-----------------------------------------------------------------------------
(***************************************************************************)
(* Workdays, for any number of days, offices and spans of leave.           *)
(***************************************************************************)

\* Whatever is declared, recorded, granted or moved, the records stay what they are
\* (the columns of attendance/models.py and hr_operations/models.py).
THEOREM WorkdayInvariance == WorkdaySpec => []WorkdayTypeOK
<1>1. WorkdayInit => WorkdayTypeOK
  BY WorkdayAssumption DEF WorkdayInit, WorkdayTypeOK, Workdates
<1>2. WorkdayTypeOK /\ [WorkdayNext]_workdayVars => WorkdayTypeOK'
  <2> SUFFICES ASSUME WorkdayTypeOK, [WorkdayNext]_workdayVars PROVE WorkdayTypeOK'
    OBVIOUS
  <2> USE DEF WorkdayTypeOK
  <2>1. CASE SetWorkingDays BY <2>1 DEF SetWorkingDays
  <2>2. ASSUME NEW d \in Workdates, CreateHoliday(d) PROVE WorkdayTypeOK'
    BY <2>2 DEF CreateHoliday
  <2>3. ASSUME NEW d \in Workdates, NEW o \in Sites, DeclareSiteHoliday(o, d) PROVE WorkdayTypeOK'
    BY <2>3 DEF DeclareSiteHoliday
  <2>4. ASSUME NEW d \in Workdates, NEW m \in Mark, EnterMark(d, m) \/ CorrectMark(d, m)
        PROVE  WorkdayTypeOK'
    BY <2>4 DEF EnterMark, CorrectMark
  <2>5. ASSUME NEW s \in LeaveSpans, GrantLeave(s) \/ RecordLeave(s) PROVE WorkdayTypeOK'
    <3>1. \A r \in BOOLEAN : [days |-> s.days, half |-> s.half, recorded |-> r] \in Absence
      BY DEF Absence
    <3>2. CASE GrantLeave(s) BY <2>5, <3>1, <3>2 DEF GrantLeave
    <3>3. CASE RecordLeave(s)
      <4>1. s.half = FALSE BY <3>3, WorkdayAssumption DEF RecordLeave
      <4>2. [days |-> s.days, half |-> FALSE, recorded |-> TRUE] \in Absence BY <3>1, <4>1
      <4> QED BY <3>3, <4>2 DEF RecordLeave
    <3> QED BY <2>5, <3>2, <3>3
  <2>6. ASSUME NEW a \in absences, WithdrawLeave(a) PROVE WorkdayTypeOK'
    BY <2>6 DEF WithdrawLeave
  <2>7. ASSUME NEW o \in Sites, MoveSite(o) PROVE WorkdayTypeOK'
    BY <2>7 DEF MoveSite
  <2>8. CASE DayPasses BY <2>8, WorkdayAssumption DEF DayPasses, Workdates
  <2>9. CASE UNCHANGED workdayVars BY <2>9 DEF workdayVars
  <2> QED BY <2>1, <2>2, <2>3, <2>4, <2>5, <2>6, <2>7, <2>8, <2>9 DEF WorkdayNext
<1> QED BY <1>1, <1>2, PTL DEF WorkdaySpec

-----------------------------------------------------------------------------
\* The figures of the roster as sums of functions.
Halves == [d \in Workdates |-> Expected(d)]
Away == [d \in Workdates |-> LeaveWeight(d)]

LEMMA RosterDays ==
  ASSUME NEW ds \in SUBSET Workdates
  PROVE  /\ IsFiniteSet(ds)
         /\ \A d \in ds : /\ Halves[d] \in Int /\ Halves[d] = Expected(d)
                          /\ Away[d] \in Int /\ Away[d] = LeaveWeight(d)
<1>1. IsFiniteSet(Workdates) BY WorkdayAssumption, FS_Interval DEF Workdates
<1>2. IsFiniteSet(ds) BY <1>1, FS_Subset
<1>3. \A d \in ds : Halves[d] \in Int /\ Away[d] \in Int
  BY DEF Halves, Away, Expected, LeaveWeight
<1> QED BY <1>2, <1>3 DEF Halves, Away

LEMMA DueIs ==
  ASSUME NEW ds \in SUBSET Workdates
  PROVE  Due(ds) = SumOver(Halves, ds)
<1> DEFINE B == ds
           iter[s \in SUBSET B] ==
        IF s = {} THEN 0
        ELSE LET x == CHOOSE x \in s : TRUE
             IN  Expected(x) + iter[s \ {x}]
           f == [d \in B |-> Expected(d)]
           P(h) == h = [s \in SUBSET B |->
                IF s = {} THEN 0 ELSE Expected(Chosen(s)) + h[s \ {Chosen(s)}]]
<1>1. Due(ds) = iter[B]
  BY DEF Due, MapThenSumSet, MapThenFoldSet
<1>2. iter = CHOOSE h : P(h)
  BY DEF Chosen
<1>3. f \in [B -> Int] /\ IsFiniteSet(B)
  <2>1. B \in SUBSET ds OBVIOUS
  <2> HIDE DEF B
  <2>2. IsFiniteSet(B) BY <2>1, RosterDays, FS_Subset
  <2>3. \A d \in B : Expected(d) \in Int BY <2>1, RosterDays
  <2> QED BY <2>2, <2>3
<1>4. \A h : Adds(h, f, B) <=> P(h)
  <2>1. \A s \in SUBSET B : s # {} => f[Chosen(s)] = Expected(Chosen(s)) BY DEF Chosen
  <2> HIDE DEF f
  <2> QED BY <2>1 DEF Adds
<1>5. \A d \in B : Halves[d] = f[d] BY DEF Halves
<1> HIDE DEF iter, f, P, B
<1>6. Adds(iter, f, B)
  <2>1. \E h : P(h) BY <1>3, <1>4, SumAnyhow
  <2> QED BY <1>2, <1>4, <2>1
<1>7. SumOver(f, B) = SumOver(Halves, B) BY <1>3, <1>5, SumOverAgrees
<1>8. Due(ds) = SumOver(Halves, B) BY <1>1, <1>3, <1>6, <1>7, SumOverIs
<1> QED BY <1>8 DEF B

LEMMA OnLeaveIs ==
  ASSUME NEW ds \in SUBSET Workdates
  PROVE  OnLeave(ds) = SumOver(Away, {d \in ds : ~KnownOff(d)})
<1> DEFINE B == {d \in ds : ~KnownOff(d)}
           iter[s \in SUBSET B] ==
        IF s = {} THEN 0
        ELSE LET x == CHOOSE x \in s : TRUE
             IN  LeaveWeight(x) + iter[s \ {x}]
           f == [d \in B |-> LeaveWeight(d)]
           P(h) == h = [s \in SUBSET B |->
                IF s = {} THEN 0 ELSE LeaveWeight(Chosen(s)) + h[s \ {Chosen(s)}]]
<1>1. OnLeave(ds) = iter[B]
  BY DEF OnLeave, MapThenSumSet, MapThenFoldSet
<1>2. iter = CHOOSE h : P(h)
  BY DEF Chosen
<1>3. f \in [B -> Int] /\ IsFiniteSet(B)
  <2>1. B \in SUBSET ds OBVIOUS
  <2> HIDE DEF B
  <2>2. IsFiniteSet(B) BY <2>1, RosterDays, FS_Subset
  <2>3. \A d \in B : LeaveWeight(d) \in Int BY <2>1, RosterDays
  <2> QED BY <2>2, <2>3
<1>4. \A h : Adds(h, f, B) <=> P(h)
  <2>1. \A s \in SUBSET B : s # {} => f[Chosen(s)] = LeaveWeight(Chosen(s)) BY DEF Chosen
  <2> HIDE DEF f
  <2> QED BY <2>1 DEF Adds
<1>5. \A d \in B : Away[d] = f[d] BY DEF Away
<1> HIDE DEF iter, f, P, B
<1>6. Adds(iter, f, B)
  <2>1. \E h : P(h) BY <1>3, <1>4, SumAnyhow
  <2> QED BY <1>2, <1>4, <2>1
<1>7. SumOver(f, B) = SumOver(Away, B) BY <1>3, <1>5, SumOverAgrees
<1>8. OnLeave(ds) = SumOver(Away, B) BY <1>1, <1>3, <1>6, <1>7, SumOverIs
<1> QED BY <1>8 DEF B


\* Days that are neither off nor recorded as Leave are worked or on leave.
LEMMA WorkedOrAway ==
  ASSUME NEW worked, worked = {d \in Workdates : ~KnownOff(d) /\ ~Marked(d, {"Leave"})}
  PROVE  /\ Due(worked) + OnLeave(worked) = 2 * Cardinality(worked)
         /\ Due(Workdates \ worked) = 0
<1> DEFINE two == [d \in worked |-> 1]
<1>1. worked \in SUBSET Workdates /\ {d \in worked : ~KnownOff(d)} = worked OBVIOUS
<1>2. /\ IsFiniteSet(worked)
      /\ \A d \in worked : /\ Halves[d] \in Int /\ Halves[d] = Expected(d)
                           /\ Away[d] \in Int /\ Away[d] = LeaveWeight(d)
  BY <1>1, RosterDays
<1>3. Due(worked) = SumOver(Halves, worked) /\ OnLeave(worked) = SumOver(Away, worked)
  BY <1>1, DueIs, OnLeaveIs
<1>4. \A d \in worked : Expected(d) + LeaveWeight(d) = 2
  BY DEF Expected, LeaveWeight
<1>5. \A d \in worked : 2 * two[d] = 1 * Halves[d] + Away[d] /\ two[d] \in Int
  <2>1. TAKE d \in worked
  <2>2. Halves[d] + Away[d] = 2 /\ Halves[d] \in Int BY <1>2, <1>4
  <2> QED BY <2>2
<1>6. SumOver(two, worked) = Cardinality(worked)
  <2>1. worked \in SUBSET worked /\ \A d \in worked : two[d] = IF d \in worked THEN 1 ELSE 0
    OBVIOUS
  <2> HIDE DEF two
  <2> QED BY <1>2, <2>1, SumOverCounts
<1>7. 2 * SumOver(two, worked) = 1 * SumOver(Halves, worked) + SumOver(Away, worked)
  <2> HIDE DEF two
  <2>1. 2 \in Int /\ 1 \in Int OBVIOUS
  <2>2. \A d \in worked : two[d] \in Int /\ Halves[d] \in Int /\ Away[d] \in Int
    BY <1>2, <1>5
  <2>3. \A d \in worked : 2 * two[d] = 1 * Halves[d] + Away[d] BY <1>5
  <2> QED BY <1>2, <2>1, <2>2, <2>3, SumOverLinear
<1>8. SumOver(Halves, worked) \in Int /\ SumOver(Away, worked) \in Int
  BY <1>2, SumOverType
<1>9. Due(worked) + OnLeave(worked) = 2 * Cardinality(worked)
  <2> HIDE DEF two
  <2> QED BY <1>3, <1>6, <1>7, <1>8
<1>10. Due(Workdates \ worked) = 0
  <2> DEFINE off == Workdates \ worked
  <2>1. off \in SUBSET Workdates /\ \A d \in off : Expected(d) = 0 BY DEF Expected
  <2> HIDE DEF off
  <2>2. IsFiniteSet(off) /\ \A d \in off : Halves[d] = IF d \in {} THEN 1 ELSE 0
    BY <2>1, RosterDays
  <2>3. SumOver(Halves, off) = Cardinality({}) BY <2>2, SumOverCounts
  <2>4. Due(off) = 0 BY <2>1, <2>3, DueIs, FS_EmptySet
  <2> QED BY <2>4 DEF off
<1> QED BY <1>9, <1>10

\* What nothing is expected of does not count, and parts that are apart add up.
LEMMA DueParts ==
  ASSUME NEW ds \in SUBSET Workdates, NEW a \in SUBSET ds, NEW b \in SUBSET ds, NEW c \in SUBSET ds,
         a \cap b = {}, a \cap c = {}, b \cap c = {},
         \A d \in ds \ (a \cup b \cup c) : Expected(d) = 0
  PROVE  Due(ds) = Due(a) + Due(b) + Due(c)
<1>1. /\ IsFiniteSet(ds) /\ a \in SUBSET Workdates /\ b \in SUBSET Workdates /\ c \in SUBSET Workdates
      /\ \A d \in ds : Halves[d] \in Int /\ Halves[d] = Expected(d)
  BY RosterDays
<1>2. SumOver(Halves, ds) = SumOver(Halves, a) + SumOver(Halves, b) + SumOver(Halves, c)
  BY <1>1, SumOverParts
<1> QED BY <1>1, <1>2, DueIs

\* The roster adds up (roster in attendance/management_service.py), and what a file may
\* contain, or the roster suggests, may be entered (validate_rows, suggested_status).
THEOREM RosterAddsUpHolds == WorkdaySpec => []RosterAddsUp
<1>1. WorkdayTypeOK => RosterAddsUp
  <2> SUFFICES ASSUME WorkdayTypeOK PROVE RosterAddsUp
    OBVIOUS
  <2> DEFINE worked == {d \in Workdates : ~KnownOff(d) /\ ~Marked(d, {"Leave"})}
             elapsed == 1..clockDay
             missed == {d \in elapsed : Missing(d) /\ mark[d] = Unmarked}
  <2>1. Due(worked) + OnLeave(worked) = 2 * Cardinality(worked) /\ Due(Workdates \ worked) = 0
    BY WorkedOrAway
  <2>2. ASSUME week # {}
        PROVE  Due(elapsed) = Due(elapsed \cap PresentDays) + Due(elapsed \cap AbsentDays) + Due(missed)
    <3>1. elapsed \in SUBSET Workdates /\ \A d \in elapsed : d <= clockDay
      BY WorkdayAssumption DEF WorkdayTypeOK, Workdates
    <3>2. \A d \in elapsed : mark[d] # Unmarked => mark[d].status \in MarkStatus
      BY <3>1 DEF WorkdayTypeOK, Mark
    <3> DEFINE a == elapsed \cap PresentDays
               b == elapsed \cap AbsentDays
    <3>3. a \cap b = {} /\ a \cap missed = {} /\ b \cap missed = {}
      BY DEF PresentDays, AbsentDays, Marked
    <3>4. \A d \in elapsed \ (a \cup b \cup missed) : Expected(d) = 0
      <4> SUFFICES ASSUME NEW d \in elapsed, d \notin a, d \notin b, d \notin missed
                   PROVE  Expected(d) = 0
        OBVIOUS
      <4>1. CASE mark[d] = Unmarked
        <5>1. ~(Expected(d) > 0) BY <2>2, <3>1, <4>1 DEF Missing
        <5>2. Expected(d) \in 0..2 BY DEF Expected
        <5> QED BY <5>1, <5>2
      <4>2. CASE mark[d] # Unmarked
        <5>1. mark[d].status \in {"Leave", "OfficialHoliday", "WeeklyOff"}
          BY <3>1, <3>2, <4>2 DEF PresentDays, AbsentDays, Marked, MarkStatus
        <5>2. KnownOff(d) \/ Marked(d, {"Leave"}) BY <4>2, <5>1 DEF KnownOff, Marked
        <5> QED BY <5>2 DEF Expected
      <4> QED BY <4>1, <4>2
    <3>5. a \in SUBSET elapsed /\ b \in SUBSET elapsed /\ missed \in SUBSET elapsed OBVIOUS
    <3> HIDE DEF a, b, missed, elapsed
    <3>6. Due(elapsed) = Due(a) + Due(b) + Due(missed)
      BY <3>1, <3>3, <3>4, <3>5, DueParts
    <3> QED BY <3>6 DEF a, b
  <2>3. ASSUME NEW d \in Workdates, NEW m \in Mark, NEW active \in BOOLEAN, Importable(d, m)
        PROVE  Enterable(d, m, TRUE, active) \/ (m.status = "Leave" /\ ~active)
    BY <2>3 DEF Importable, Enterable, Fits, WeekOff
  <2>4. ASSUME NEW d \in Workdates
        PROVE  \/ Suggested(d) = "none" \/ Fits(d, Suggested(d))
               \/ FullLeave(d) \/ d \in siteHolidays[site]
    BY DEF Suggested, Fits, WeekOff, Holiday
  <2> QED BY <2>1, <2>2, <2>3, <2>4 DEF RosterAddsUp
<1> QED BY <1>1, WorkdayInvariance, PTL

-----------------------------------------------------------------------------
(***************************************************************************)
(* AssetCategories, for any number of categories and assets.               *)
(***************************************************************************)

Reference == [category: Categories, under: Layouts, since: Layouts \cup {NoEntry}, raced: BOOLEAN]

\* What holds of an entry under the fields l of its category.
Fitting(r, l) ==
  /\ r.since # NoEntry => r.since = l
  /\ r.under = l \/ r.raced

\* A row that refers to its category and is not committed yet was written under the
\* fields the category has, too: its share of the category's row keeps them.  And
\* where no edit came between, they are the fields it was validated against.
CategoryInv ==
  /\ layout \in [Categories -> Layouts] /\ offered \subseteq Categories
  /\ filed \in [Pieces -> Reference \cup {NoEntry}]
  /\ filing \in [Pieces -> Reference \cup {NoEntry}]
  /\ \A t \in Pieces : filed[t] # NoEntry =>
       filed[t].since # NoEntry /\ Fitting(filed[t], layout[filed[t].category])
  /\ \A t \in Pieces : filing[t] # NoEntry => Fitting(filing[t], layout[filing[t].category])

\* A request moves on.
LEMMA FilingMoves ==
  ASSUME CategoryInv, NEW t \in Pieces, NEW r \in Reference \cup {NoEntry},
         r # NoEntry => Fitting(r, layout[r.category]),
         filing' = [filing EXCEPT ![t] = r], UNCHANGED <<layout, offered, filed>>
  PROVE  CategoryInv'
<1>1. filing' \in [Pieces -> Reference \cup {NoEntry}] BY DEF CategoryInv
<1>2. \A k \in Pieces : filing'[k] = IF k = t THEN r ELSE filing[k] BY DEF CategoryInv
<1>3. \A k \in Pieces : filing'[k] # NoEntry => Fitting(filing'[k], layout[filing'[k].category])
  BY <1>2 DEF CategoryInv
<1> QED BY <1>1, <1>3 DEF CategoryInv

\* An asset has another entry.
LEMMA FiledMoves ==
  ASSUME CategoryInv, NEW t \in Pieces, NEW r \in Reference,
         r.since # NoEntry, Fitting(r, layout[r.category]),
         filed' = [filed EXCEPT ![t] = r], UNCHANGED <<layout, offered>>,
         filing' = filing \/ filing' = [filing EXCEPT ![t] = NoEntry]
  PROVE  CategoryInv'
<1>1. filed' \in [Pieces -> Reference \cup {NoEntry}] BY DEF CategoryInv
<1>2. \A k \in Pieces : filed'[k] = IF k = t THEN r ELSE filed[k] BY DEF CategoryInv
<1>3. \A k \in Pieces : filed'[k] # NoEntry =>
        filed'[k].since # NoEntry /\ Fitting(filed'[k], layout[filed'[k].category])
  BY <1>2 DEF CategoryInv
<1>4. filing' \in [Pieces -> Reference \cup {NoEntry}] BY DEF CategoryInv
<1>5. \A k \in Pieces : filing'[k] \in {filing[k], NoEntry} BY DEF CategoryInv
<1>6. \A k \in Pieces : filing'[k] # NoEntry => Fitting(filing'[k], layout[filing'[k].category])
  BY <1>5 DEF CategoryInv
<1> QED BY <1>1, <1>3, <1>4, <1>6 DEF CategoryInv

\* The fields of a category nobody refers to change: the requests that have read it
\* are raced, the others are of other categories.
LEMMA RedefineInv ==
  ASSUME CategoryInv, NEW c \in Categories, NEW l \in Layouts, EditLayout(c, l)
  PROVE  CategoryInv'
<1>1. /\ layout' = [layout EXCEPT ![c] = l] /\ UNCHANGED <<offered, filed>>
      /\ \A t \in Pieces : filing'[t] =
           IF filing[t] # NoEntry /\ filing[t].category = c /\ filing[t].since = NoEntry
           THEN [filing[t] EXCEPT !.raced = TRUE] ELSE filing[t]
      /\ filing' = [t \in Pieces |-> filing'[t]]
  BY DEF EditLayout, Redefine
<1>2. \A d \in Categories : layout'[d] = IF d = c THEN l ELSE layout[d] BY <1>1 DEF CategoryInv
<1>3. \A t \in Pieces : filed[t] # NoEntry => filed[t].category \in Categories \ {c}
  BY DEF EditLayout, Used, CategoryInv, Reference
<1>4. \A t \in Pieces : filed'[t] # NoEntry =>
        filed'[t].since # NoEntry /\ Fitting(filed'[t], layout'[filed'[t].category])
  BY <1>1, <1>2, <1>3 DEF CategoryInv
<1>5. ASSUME NEW t \in Pieces
      PROVE  /\ filing'[t] \in Reference \cup {NoEntry}
             /\ filing'[t] # NoEntry => Fitting(filing'[t], layout'[filing'[t].category])
  <2>1. CASE filing[t] = NoEntry BY <1>1, <2>1
  <2>2. CASE filing[t] # NoEntry /\ filing[t].category # c
    <3>1. filing[t] \in Reference /\ filing[t].category \in Categories
      BY <2>2 DEF CategoryInv, Reference
    <3>2. filing'[t] = filing[t] /\ layout'[filing[t].category] = layout[filing[t].category]
      BY <1>1, <1>2, <2>2, <3>1
    <3> QED BY <2>2, <3>1, <3>2 DEF CategoryInv
  <2>3. CASE filing[t] # NoEntry /\ filing[t].category = c
    <3>1. filing[t].since = NoEntry BY <2>3 DEF EditLayout, CategoryShared
    <3>2. filing[t] \in Reference BY <2>3 DEF CategoryInv
    <3>3. filing'[t] = [filing[t] EXCEPT !.raced = TRUE] BY <1>1, <2>3, <3>1
    <3>4. filing'[t] \in Reference /\ filing'[t].since = NoEntry /\ filing'[t].raced
      BY <3>1, <3>2, <3>3 DEF Reference
    <3> QED BY <3>4 DEF Fitting
  <2> QED BY <2>1, <2>2, <2>3
<1>6. layout' \in [Categories -> Layouts] /\ offered' \subseteq Categories
  BY <1>1 DEF CategoryInv
<1>7. filing' \in [Pieces -> Reference \cup {NoEntry}] BY <1>1, <1>5
<1>8. filed' \in [Pieces -> Reference \cup {NoEntry}] BY <1>1 DEF CategoryInv
<1> QED BY <1>4, <1>5, <1>6, <1>7, <1>8 DEF CategoryInv

\* Every step keeps the fields of the categories that are referred to.
LEMMA CategoryNextInv ==
  ASSUME CategoryInv, [CategoryNext]_categoryVars
  PROVE  CategoryInv'
<1>1. ASSUME NEW t \in Pieces, NEW c \in Categories, BeginFiling(t, c)
      PROVE  CategoryInv'
  <2> DEFINE r == [category |-> c, under |-> layout[c], since |-> NoEntry, raced |-> FALSE]
  <2>1. r \in Reference /\ Fitting(r, layout[r.category]) BY DEF Reference, Fitting, CategoryInv
  <2>2. filing' = [filing EXCEPT ![t] = r] /\ UNCHANGED <<layout, offered, filed>>
    BY <1>1 DEF BeginFiling
  <2> HIDE DEF r
  <2> QED BY <2>1, <2>2, FilingMoves
<1>2. ASSUME NEW t \in Pieces, WriteFiling(t) PROVE CategoryInv'
  <2> DEFINE r == [filing[t] EXCEPT !.since = layout[filing[t].category]]
  <2>1. /\ filing[t] \in Reference /\ filing[t].category \in Categories
        /\ Fitting(filing[t], layout[filing[t].category])
    BY <1>2 DEF WriteFiling, CategoryInv, Reference
  <2>2. layout[filing[t].category] \in Layouts BY <2>1 DEF CategoryInv
  <2>3. r \in Reference /\ Fitting(r, layout[r.category]) BY <2>1, <2>2 DEF Reference, Fitting
  <2>4. filing' = [filing EXCEPT ![t] = r] /\ UNCHANGED <<layout, offered, filed>>
    BY <1>2 DEF WriteFiling
  <2> HIDE DEF r
  <2> QED BY <2>3, <2>4, FilingMoves
<1>3. ASSUME NEW t \in Pieces, CommitFiling(t) PROVE CategoryInv'
  <2>1. filing[t] \in Reference /\ filing[t].since # NoEntry
        /\ Fitting(filing[t], layout[filing[t].category])
    BY <1>3 DEF CommitFiling, CategoryInv
  <2> QED BY <1>3, <2>1, FiledMoves DEF CommitFiling
<1>4. ASSUME NEW t \in Pieces, DropFiling(t) PROVE CategoryInv'
  BY <1>4, FilingMoves DEF DropFiling
<1>5. ASSUME NEW t \in Pieces, ReviseAsset(t) PROVE CategoryInv'
  <2> DEFINE r == [filed[t] EXCEPT !.under = layout[filed[t].category], !.raced = FALSE]
  <2>1. /\ filed[t] \in Reference /\ filed[t].category \in Categories /\ filed[t].since # NoEntry
        /\ Fitting(filed[t], layout[filed[t].category])
    BY <1>5 DEF ReviseAsset, CategoryInv, Reference
  <2>2. layout[filed[t].category] \in Layouts BY <2>1 DEF CategoryInv
  <2>3. r \in Reference /\ r.since # NoEntry /\ Fitting(r, layout[r.category])
    BY <2>1, <2>2 DEF Reference, Fitting
  <2>4. filed' = [filed EXCEPT ![t] = r] /\ UNCHANGED <<layout, offered, filing>>
    BY <1>5 DEF ReviseAsset
  <2> HIDE DEF r
  <2> QED BY <2>3, <2>4, FiledMoves
<1>6. ASSUME NEW c \in Categories, NEW l \in Layouts, EditLayout(c, l) PROVE CategoryInv'
  BY <1>6, RedefineInv
<1>7. ASSUME NEW c \in Categories, NEW active \in BOOLEAN, SetCategoryStatus(c, active) PROVE CategoryInv'
  BY <1>7 DEF SetCategoryStatus, CategoryInv
<1>8. CASE UNCHANGED categoryVars
  BY <1>8 DEF categoryVars, CategoryInv
<1> QED BY <1>1, <1>2, <1>3, <1>4, <1>5, <1>6, <1>7, <1>8 DEF CategoryNext

\* An asset that is being entered keeps its category by a share of the row, so what
\* it will refer to is what the category has (the foreign key against
\* update_category); a request that validated before an edit and has not written
\* is known for it.
THEOREM CategoryInvariance == CategorySpec => []CategoryInv
<1>1. CategoryInit => CategoryInv BY DEF CategoryInit, CategoryInv
<1> QED BY <1>1, CategoryNextInv, PTL DEF CategorySpec

\* DefinitionsKept holds for any number of categories and assets: the field
\* definitions of a category stay those they were when a row came to refer to it,
\* and are those an asset was validated against unless an edit came between its
\* validation and its flush.
THEOREM DefinitionsKeptHolds == CategorySpec => []DefinitionsKept
<1>1. CategoryInv => DefinitionsKept BY DEF CategoryInv, DefinitionsKept, Fitting
<1> QED BY <1>1, CategoryInvariance, PTL

-----------------------------------------------------------------------------
(***************************************************************************)
(* AssetTimeline, for any number of assets, holders and offices and        *)
(* histories of any length.                                                *)
(***************************************************************************)

(* The fold of build_lifecycle over one more event.                          *)

\* h[1..k] is what is known after the first k of n events of s.
Knows(h, s, n) ==
  h = [u \in SUBSET (1..n) |-> IF u = {} THEN Unseen ELSE See(h[u \ {Max(u)}], s[Max(u)])]

LEMMA LastIs ==
  ASSUME NEW n \in Nat, NEW u \in SUBSET (1..n)
  PROVE  /\ u # {} => Max(u) \in u
         /\ n \in u => Max(u) = n
<1>1. u # {} => \E x \in u : \A y \in u : x >= y
  <2>1. IsFiniteSet(u)
    <3>1. IsFiniteSet(1..n) BY FS_Interval
    <3> QED BY <3>1, FS_Subset
  <2>2. u \in SUBSET Int OBVIOUS
  <2>3. HAVE u # {}
  <2>4. PICK x \in u : \A y \in u : y <= x BY <2>1, <2>2, <2>3, GreatestExists
  <2>5. \A y \in u : x >= y BY <2>2, <2>4
  <2> QED BY <2>5
<1>2. u # {} => Max(u) \in u /\ \A y \in u : Max(u) >= y BY <1>1 DEF Max
<1>3. n \in u => Max(u) = n
  <2>1. HAVE n \in u
  <2>2. Max(u) \in 1..n /\ Max(u) >= n BY <1>2, <2>1
  <2> QED BY <2>2
<1> QED BY <1>2, <1>3

LEMMA KnowsExists ==
  ASSUME NEW s, NEW n \in Nat
  PROVE  \E h : Knows(h, s, n)
<1> DEFINE Bad == {m \in Nat : ~\E h : Knows(h, s, m)}
<1>1. SUFFICES ASSUME Bad # {} PROVE FALSE
  OBVIOUS
<1>2. PICK m \in Bad : \A k \in Bad : ~(k < m)
  <2>1. Bad \subseteq Nat OBVIOUS
  <2> HIDE DEF Bad
  <2>2. PICK m \in Bad : \A k \in Bad : ~(<<k, m>> \in OpToRel(<, Nat))
    BY <1>1, <2>1, NatLessThanWellFounded, WFMin
  <2> QED BY <2>1, <2>2 DEF OpToRel
<1>3. CASE m = 0
  <2>1. 1..0 = {} OBVIOUS
  <2> DEFINE h == [u \in SUBSET {} |-> Unseen]
  <2>2. Knows(h, s, 0) BY <2>1 DEF Knows
  <2> QED BY <1>2, <1>3, <2>2
<1>4. CASE m # 0
  <2>1. m \in Nat /\ m - 1 \in Nat /\ m - 1 < m BY <1>4
  <2>2. PICK h : Knows(h, s, m - 1) BY <1>2, <2>1
  <2> DEFINE g == [u \in SUBSET (1..m) |-> IF m \in u THEN See(h[u \ {m}], s[m]) ELSE h[u]]
  <2>3. ASSUME NEW u \in SUBSET (1..m)
        PROVE  g[u] = IF u = {} THEN Unseen ELSE See(g[u \ {Max(u)}], s[Max(u)])
    <3>1. CASE m \in u
      <4>1. Max(u) = m BY <2>1, <3>1, LastIs
      <4>2. g[u] = See(h[u \ {m}], s[m]) /\ g[u \ {m}] = h[u \ {m}] BY <3>1
      <4> QED BY <3>1, <4>1, <4>2
    <3>2. CASE m \notin u
      <4>1. u \in SUBSET (1..(m - 1)) BY <2>1, <3>2
      <4>2. h[u] = IF u = {} THEN Unseen ELSE See(h[u \ {Max(u)}], s[Max(u)])
        BY <2>2, <4>1 DEF Knows
      <4>3. g[u] = h[u] /\ g[u \ {Max(u)}] = h[u \ {Max(u)}] BY <3>2
      <4> QED BY <4>2, <4>3
    <3> QED BY <3>1, <3>2
  <2>4. g = [u \in SUBSET (1..m) |-> g[u]] OBVIOUS
  <2> HIDE DEF g
  <2>5. Knows(g, s, m) BY <2>3, <2>4, Zenon DEF Knows
  <2> QED BY <1>2, <2>5
<1> QED BY <1>3, <1>4

LEMMA KnowsStep ==
  ASSUME NEW s, NEW n \in Nat, NEW h, Knows(h, s, n), NEW k \in 1..n
  PROVE  h[1..k] = See(h[1..(k - 1)], s[k])
<1>1. 1..k \in SUBSET (1..n) /\ 1..k # {} /\ k \in 1..k /\ (1..k) \ {k} = 1..(k - 1) OBVIOUS
<1>2. 1..k \in SUBSET (1..k) /\ k \in Nat OBVIOUS
<1>3. Max(1..k) = k BY <1>1, <1>2, LastIs
<1>4. h[1..k] = See(h[(1..k) \ {Max(1..k)}], s[Max(1..k)]) BY <1>1 DEF Knows
<1> QED BY <1>1, <1>3, <1>4

\* What is known after some events depends on them alone.
LEMMA KnowsUnique ==
  ASSUME NEW s, NEW q, NEW n \in Nat, NEW m \in Nat, NEW h, NEW g,
         Knows(h, s, n), Knows(g, q, m), n <= m, \A i \in 1..n : s[i] = q[i]
  PROVE  h[1..n] = g[1..n]
<1> DEFINE Bad == {k \in 0..n : h[1..k] # g[1..k]}
<1>1. SUFFICES ASSUME Bad # {} PROVE FALSE
  <2>1. n \in 0..n OBVIOUS
  <2> QED BY <2>1
<1>2. PICK k \in Bad : \A l \in Bad : ~(l < k)
  <2>1. Bad \subseteq Nat OBVIOUS
  <2> HIDE DEF Bad
  <2>2. PICK k \in Bad : \A l \in Bad : ~(<<l, k>> \in OpToRel(<, Nat))
    BY <1>1, <2>1, NatLessThanWellFounded, WFMin
  <2> QED BY <2>1, <2>2 DEF OpToRel
<1>3. CASE k = 0
  <2>1. 1..0 = {} OBVIOUS
  <2>2. {} \in SUBSET (1..n) /\ {} \in SUBSET (1..m) OBVIOUS
  <2>3. h[{}] = Unseen BY <2>2 DEF Knows
  <2>4. g[{}] = Unseen BY <2>2 DEF Knows
  <2> QED BY <1>2, <1>3, <2>1, <2>3, <2>4
<1>4. CASE k # 0
  <2>1. k \in 1..n /\ k \in 1..m /\ k - 1 \in 0..n /\ k - 1 < k BY <1>4
  <2>2. h[1..(k - 1)] = g[1..(k - 1)] BY <1>2, <2>1
  <2>3. h[1..k] = See(h[1..(k - 1)], s[k]) BY <2>1, KnowsStep
  <2>4. g[1..k] = See(g[1..(k - 1)], q[k]) BY <2>1, KnowsStep
  <2>5. s[k] = q[k] BY <2>1
  <2> QED BY <1>2, <2>2, <2>3, <2>4, <2>5
<1> QED BY <1>3, <1>4

SeenIn(s) == FoldLeft(See, Unseen, s)

LEMMA SeenKnows ==
  ASSUME NEW S, NEW s \in Seq(S)
  PROVE  \E h : Knows(h, s, Len(s)) /\ SeenIn(s) = h[1..Len(s)]
<1> DEFINE iter[u \in SUBSET DOMAIN s] ==
        IF u = {} THEN Unseen
        ELSE LET x == Max(u)
             IN  See(iter[u \ {x}], s[x])
<1>1. SeenIn(s) = iter[DOMAIN s]
  BY DEF SeenIn, FoldLeft, MapThenFoldSet
<1>2. iter = CHOOSE h : h = [u \in SUBSET DOMAIN s |-> IF u = {} THEN Unseen ELSE See(h[u \ {Max(u)}], s[Max(u)])]
  OBVIOUS
<1>3. DOMAIN s = 1..Len(s) /\ Len(s) \in Nat BY LenProperties
<1>4. iter = CHOOSE h : Knows(h, s, Len(s))
  BY <1>2, <1>3 DEF Knows
<1> HIDE DEF iter
<1>5. Knows(iter, s, Len(s)) BY <1>3, <1>4, KnowsExists
<1> QED BY <1>1, <1>3, <1>5

\* One more event is seen after the others.
LEMMA SeenAppend ==
  ASSUME NEW S, NEW s \in Seq(S), NEW e
  PROVE  SeenIn(Append(s, e)) = See(SeenIn(s), e)
<1> DEFINE q == Append(s, e)
           n == Len(s)
<1>1. /\ q \in Seq(S \cup {e}) /\ Len(q) = n + 1 /\ n \in Nat
      /\ q[n + 1] = e /\ \A i \in 1..n : q[i] = s[i]
  <2>1. s \in Seq(S \cup {e}) BY SeqDef
  <2> QED BY <2>1, AppendProperties, LenProperties
<1>2. PICK h : Knows(h, s, n) /\ SeenIn(s) = h[1..n] BY SeenKnows
<1>3. PICK g : Knows(g, q, n + 1) /\ SeenIn(q) = g[1..(n + 1)]
  <2> HIDE DEF q
  <2> QED BY <1>1, SeenKnows
<1> HIDE DEF q, n
<1>4. h[1..n] = g[1..n]
  <2>1. n + 1 \in Nat /\ n <= n + 1 /\ \A i \in 1..n : s[i] = q[i] BY <1>1
  <2> QED BY <1>1, <1>2, <1>3, <2>1, KnowsUnique
<1>5. g[1..(n + 1)] = See(g[1..n], e)
  <2>1. n + 1 \in Nat /\ n + 1 \in 1..(n + 1) /\ (n + 1) - 1 = n BY <1>1
  <2>2. g[1..(n + 1)] = See(g[1..((n + 1) - 1)], q[n + 1]) BY <1>3, <2>1, KnowsStep
  <2> QED BY <1>1, <2>1, <2>2
<1> QED BY <1>2, <1>3, <1>4, <1>5 DEF q

LEMMA SeenNothing == SeenIn(<< >>) = Unseen
<1>1. << >> \in Seq({}) /\ Len(<< >>) = 0 BY EmptySeq
<1>2. PICK h : Knows(h, << >>, 0) /\ SeenIn(<< >>) = h[1..0] BY <1>1, SeenKnows
<1>3. 1..0 = {} OBVIOUS
<1> QED BY <1>2, <1>3 DEF Knows

-----------------------------------------------------------------------------
(* The reading follows the rows.                                             *)

Seen(t) == SeenIn(trail[t])

\* A period tells what the row says.
Tells(p, row) ==
  /\ p.kind = row.status /\ p.office = row.office /\ p.condition = row.condition
  /\ row.status = "Allocated" => p.employee = row.holder

CoveringAt(seen, k) == {p \in seen.periods : p.from <= k /\ k < p.to}
Ongoing(seen, k) == seen.current # Unset /\ seen.current.from <= k

\* What is known leads to the present row.
Follows(seen, row) ==
  /\ seen.state = row.status /\ seen.office = row.office
  /\ seen.condition = row.condition /\ seen.employee = row.holder
  /\ ~seen.gap
  /\ row.status \in Kinds <=> seen.current # Unset
  /\ seen.current # Unset => Tells(seen.current, row)

\* Periods end by now, the current one began by now.
InTime(seen) ==
  /\ seen.at \in Nat
  /\ \A p \in seen.periods : p \in Periods /\ p.from \in Nat /\ p.to \in Nat /\ p.from < p.to /\ p.to <= seen.at
  /\ seen.current # Unset =>
       seen.current \in Periods /\ seen.current.from \in Nat /\ seen.current.from <= seen.at

\* One period tells of the row at instant k, none where there is nothing to tell.
CoveredAt(seen, k, row) ==
  IF row.status \notin Kinds THEN CoveringAt(seen, k) = {} /\ ~Ongoing(seen, k)
  ELSE \/ /\ \E p \in CoveringAt(seen, k) : CoveringAt(seen, k) = {p} /\ Tells(p, row)
          /\ ~Ongoing(seen, k)
       \/ CoveringAt(seen, k) = {} /\ Ongoing(seen, k) /\ Tells(seen.current, row)

StandsFor(p, n, allocation) == p.kind = "Allocated" /\ Matches(p, n, allocation)

AllocationsTold(seen, row) ==
  \A n \in 1..Len(row.allocations) :
    \/ seen.current # Unset /\ StandsFor(seen.current, n, row.allocations[n])
    \/ \E p \in seen.periods : StandsFor(p, n, row.allocations[n])

\* The reading of the events of t.
ReadingTrue(t) ==
  /\ Len(past[t]) = Len(trail[t]) /\ Seen(t).at = Len(trail[t])
  /\ item[t] = Unset => trail[t] = << >> /\ past[t] = << >>
  /\ item[t] # Unset =>
       /\ Follows(Seen(t), item[t]) /\ InTime(Seen(t))
       /\ \A k \in 1..Len(past[t]) : CoveredAt(Seen(t), k, past[t][k])
       /\ AllocationsTold(Seen(t), item[t])

TrailsAre ==
  /\ trail = [t \in Things |-> trail[t]]
  /\ \A t \in Things : \E S : trail[t] \in Seq(S)

TimelineInv == TimelineTypeOK /\ TrailsAre /\ \A t \in Things : ReadingTrue(t)

\* One more event whose start is known and that agrees with the events before it.
LEMMA SeeIs ==
  ASSUME NEW seen, NEW e, e.old \in {Unset, seen.state}, StartKnown(seen, e), ~seen.gap
  PROVE  LET a == See(seen, e) IN
         /\ a.at = seen.at + 1 /\ a.state = ReadStatus(seen, e)
         /\ a.office = Read(e, "office", seen.office)
         /\ a.employee = Read(e, "custodian", seen.employee)
         /\ a.condition = Read(e, "condition", seen.condition)
         /\ ~a.gap
         /\ IF Splits(seen, e)
            THEN /\ a.periods = Closed(seen, seen.at + 1)
                 /\ a.current = IF ReadStatus(seen, e) \in Kinds THEN Opened(seen, e, seen.at + 1) ELSE Unset
            ELSE a.periods = seen.periods /\ a.current = seen.current
<1>1. Reconcile(seen, e) = seen BY DEF Reconcile
<1>2. See(seen, e) =
        [at |-> seen.at + 1, state |-> ReadStatus(seen, e),
         office |-> Read(e, "office", seen.office),
         employee |-> Read(e, "custodian", seen.employee),
         condition |-> Read(e, "condition", seen.condition),
         current |-> IF ~Splits(seen, e) THEN seen.current
                     ELSE IF ReadStatus(seen, e) \in Kinds THEN Opened(seen, e, seen.at + 1) ELSE Unset,
         periods |-> IF Splits(seen, e) THEN Closed(seen, seen.at + 1) ELSE seen.periods,
         gap |-> \/ seen.gap
                 \/ Splits(seen, e) /\ ReadStatus(seen, e) \in Kinds /\ ~StartKnown(seen, e)]
  BY <1>1 DEF See
<1>3. ~See(seen, e).gap BY <1>2
<1> QED BY <1>2, <1>3

\* What an event of the handlers brings about in the reading.
Brings(seen, e, next) ==
  /\ next \in Row /\ e.old \in {Unset, seen.state} /\ StartKnown(seen, e)
  /\ ReadStatus(seen, e) = next.status
  /\ Read(e, "office", seen.office) = next.office
  /\ Read(e, "condition", seen.condition) = next.condition
  /\ Read(e, "custodian", seen.employee) = next.holder
  /\ e.snap # Unset => e.snap.allocation \in Nat
  /\ "date" \in DOMAIN e.named => e.named.date \in Nat

LEMMA OpenedIs ==
  ASSUME NEW seen, NEW e, NEW next, Brings(seen, e, next), next.status \in Kinds, seen.at \in Nat
  PROVE  LET p == Opened(seen, e, seen.at + 1) IN
         p \in Periods /\ p # Unset /\ p.from = seen.at + 1 /\ Tells(p, next)
<1> DEFINE p == Opened(seen, e, seen.at + 1)
<1>1. next.status \in Kinds /\ next.office \in Places /\ next.condition \in Conditions
      /\ next.holder \in Holders \cup {Unset}
  BY DEF Brings, Row
<1>2. p.kind = next.status /\ p.from = seen.at + 1 /\ p.employee = next.holder
      /\ p.office = next.office /\ p.condition = next.condition
  BY DEF Brings, Opened
<1>3. p \in Periods
  <2>1. seen.at + 1 \in Nat OBVIOUS
  <2>2. \E n \in Nat, d \in Nat \cup {Unset} :
          p = [kind |-> next.status, from |-> seen.at + 1, to |-> Unset, employee |-> next.holder,
               office |-> next.office, condition |-> next.condition, allocation |-> n, date |-> d]
    <3>1. (IF e.snap = Unset THEN 0 ELSE e.snap.allocation) \in Nat BY DEF Brings
    <3>2. (IF "date" \in DOMAIN e.named THEN e.named.date ELSE Unset) \in Nat \cup {Unset} BY DEF Brings
    <3> QED BY <3>1, <3>2 DEF Brings, Opened
  <2> QED BY <1>1, <2>1, <2>2 DEF Periods
<1>4. p # Unset BY <1>3, TimelineAssumption
<1> QED BY <1>2, <1>3, <1>4 DEF Tells

\* The first event opens the first period.
LEMMA FirstSeen ==
  ASSUME NEW e, NEW next, Brings(Unseen, e, next)
  PROVE  LET a == See(Unseen, e) IN
         /\ a.at = 1 /\ Follows(a, next) /\ InTime(a)
         /\ CoveredAt(a, 1, next)
<1> DEFINE a == See(Unseen, e)
<1>1. Unseen.at = 0 /\ Unseen.state = Unset /\ Unseen.current = Unset /\ ~Unseen.gap /\ Unseen.periods = {}
  BY DEF Unseen
<1>2. next.status # Unset /\ next.status \in Statuses
  BY TimelineAssumption DEF Brings, Row
<1>3. Splits(Unseen, e) BY <1>1, <1>2 DEF Splits, Brings
<1>4. e.old \in {Unset, Unseen.state} /\ StartKnown(Unseen, e) BY DEF Brings
<1> DEFINE p == Opened(Unseen, e, Unseen.at + 1)
<1>5. /\ a.at = 1 /\ a.state = next.status /\ a.office = next.office /\ a.employee = next.holder
      /\ a.condition = next.condition /\ ~a.gap /\ a.periods = {}
      /\ a.current = IF next.status \in Kinds THEN p ELSE Unset
  <2>1. Closed(Unseen, Unseen.at + 1) = {} BY <1>1 DEF Closed
  <2> QED BY <1>1, <1>3, <1>4, <2>1, SeeIs DEF Brings
<1>6. next.status \in Kinds => p \in Periods /\ p # Unset /\ p.from = 1 /\ Tells(p, next)
  <2>1. Unseen.at \in Nat /\ Unseen.at + 1 = 1 BY <1>1
  <2> QED BY <2>1, OpenedIs
<1> HIDE DEF a, p
<1>7. Follows(a, next) BY <1>5, <1>6 DEF Follows
<1>8. InTime(a) BY <1>5, <1>6 DEF InTime
<1>9. CoveredAt(a, 1, next)
  <2>1. CoveringAt(a, 1) = {} BY <1>5 DEF CoveringAt
  <2>2. next.status \in Kinds => Ongoing(a, 1) /\ Tells(a.current, next)
    BY <1>5, <1>6 DEF Ongoing
  <2>3. next.status \notin Kinds => ~Ongoing(a, 1) BY <1>5 DEF Ongoing
  <2> QED BY <2>1, <2>2, <2>3 DEF CoveredAt
<1> QED BY <1>5, <1>7, <1>8, <1>9 DEF a

\* Ending the current period after the last event changes nothing before.
LEMMA ClosingIs ==
  ASSUME NEW seen, NEW row, Follows(seen, row), InTime(seen), seen.current # Unset
  PROVE  LET q == [seen.current EXCEPT !.to = seen.at + 1] IN
         /\ Closed(seen, seen.at + 1) = seen.periods \cup {q}
         /\ q \in Periods /\ q.from = seen.current.from /\ q.to = seen.at + 1
         /\ \A r : Tells(seen.current, r) => Tells(q, r)
         /\ \A n, l : StandsFor(seen.current, n, l) => StandsFor(q, n, l)
<1> DEFINE c == seen.current
           now == seen.at + 1
           q == [c EXCEPT !.to = now]
<1>1. c \in Periods /\ now \in Nat BY DEF InTime
<1>2. Closed(seen, now) = seen.periods \cup {q} BY DEF Closed
<1>3. q \in Periods /\ q.from = c.from /\ q.to = now /\ q.kind = c.kind /\ q.office = c.office
      /\ q.condition = c.condition /\ q.employee = c.employee /\ q.allocation = c.allocation /\ q.date = c.date
  <2> HIDE DEF c, now
  <2> QED BY <1>1 DEF Periods
<1>4. \A r : Tells(c, r) => Tells(q, r)
  <2> HIDE DEF c, q
  <2> QED BY <1>3 DEF Tells
<1>5. \A n, l : StandsFor(c, n, l) => StandsFor(q, n, l)
  <2> HIDE DEF c, q
  <2> QED BY <1>3 DEF StandsFor, Matches
<1> QED BY <1>2, <1>3, <1>4, <1>5

LEMMA ClosingCovers ==
  ASSUME NEW seen, NEW row, Follows(seen, row), InTime(seen), NEW k \in 1..seen.at, NEW r, CoveredAt(seen, k, r)
  PROVE  LET C == {p \in Closed(seen, seen.at + 1) : p.from <= k /\ k < p.to} IN
         IF r.status \notin Kinds THEN C = {} ELSE \E p \in C : C = {p} /\ Tells(p, r)
<1> DEFINE c == seen.current
           now == seen.at + 1
           q == [c EXCEPT !.to = now]
           C == {p \in Closed(seen, now) : p.from <= k /\ k < p.to}
<1>1. k \in Nat /\ now \in Nat /\ k < now BY DEF InTime
<1>2. c # Unset => /\ Closed(seen, now) = seen.periods \cup {q} /\ q.from = c.from /\ q.to = now
                   /\ \A x : Tells(c, x) => Tells(q, x)
  BY ClosingIs
<1>3. c = Unset => Closed(seen, now) = seen.periods BY DEF Closed
<1> HIDE DEF q, now
<1>4. CASE Ongoing(seen, k)
  <2>1. c # Unset /\ c.from <= k BY <1>4 DEF Ongoing
  <2>2. C = CoveringAt(seen, k) \cup {q} BY <1>1, <1>2, <2>1 DEF CoveringAt
  <2>3. r.status \in Kinds /\ CoveringAt(seen, k) = {} /\ Tells(c, r) BY <1>4 DEF CoveredAt
  <2>4. C = {q} /\ Tells(q, r) BY <1>2, <2>1, <2>2, <2>3
  <2> HIDE DEF C
  <2> QED BY <2>3, <2>4 DEF now, C
<1>5. CASE ~Ongoing(seen, k)
  <2>1. c # Unset => ~(q.from <= k) BY <1>2, <1>5 DEF Ongoing
  <2>2. C = CoveringAt(seen, k) BY <1>2, <1>3, <2>1 DEF CoveringAt
  <2>3. IF r.status \notin Kinds THEN CoveringAt(seen, k) = {}
        ELSE \E p \in CoveringAt(seen, k) : CoveringAt(seen, k) = {p} /\ Tells(p, r)
    BY <1>5 DEF CoveredAt
  <2> HIDE DEF C
  <2>4. IF r.status \notin Kinds THEN C = {} ELSE \E p \in C : C = {p} /\ Tells(p, r) BY <2>2, <2>3
  <2> QED BY <2>4 DEF now, C
<1> QED BY <1>4, <1>5

\* Every other event goes on with the period or ends it.
LEMMA NextSeen ==
  ASSUME NEW seen, NEW row \in Row, Follows(seen, row), InTime(seen), NEW e, NEW next, Brings(seen, e, next)
  PROVE  LET a == See(seen, e) IN
         /\ a.at = seen.at + 1 /\ Follows(a, next) /\ InTime(a)
         /\ CoveredAt(a, seen.at + 1, next)
         /\ \A k \in 1..seen.at : \A r : CoveredAt(seen, k, r) => CoveredAt(a, k, r)
         /\ \A n, l : StandsFor(seen.current, n, l) /\ seen.current # Unset =>
              \/ a.current # Unset /\ StandsFor(a.current, n, l)
              \/ \E p \in a.periods : StandsFor(p, n, l)
         /\ seen.periods \subseteq a.periods
         /\ Splits(seen, e) /\ next.status \in Kinds =>
              a.current = Opened(seen, e, seen.at + 1) /\ a.current # Unset
<1> DEFINE a == See(seen, e)
           now == seen.at + 1
           c == seen.current
           p == Opened(seen, e, now)
           q == [c EXCEPT !.to = now]
<1>1. seen.at \in Nat /\ now \in Nat BY DEF InTime
<1>2. /\ a.at = now /\ a.state = next.status /\ a.office = next.office /\ a.employee = next.holder
      /\ a.condition = next.condition /\ ~a.gap
      /\ IF Splits(seen, e)
         THEN /\ a.periods = Closed(seen, now)
              /\ a.current = IF next.status \in Kinds THEN p ELSE Unset
         ELSE a.periods = seen.periods /\ a.current = c
  BY SeeIs DEF Brings, Follows
<1>3. next.status \in Kinds => p \in Periods /\ p # Unset /\ p.from = now /\ Tells(p, next)
  BY <1>1, OpenedIs
<1>4. c # Unset => /\ c \in Periods /\ c.from \in Nat /\ c.from < now /\ Tells(c, row)
  BY <1>1 DEF InTime, Follows
<1>5. \A x \in seen.periods : x \in Periods /\ x.from \in Nat /\ x.to \in Nat /\ x.from < x.to /\ x.to <= seen.at
  BY DEF InTime
<1>6. row.status \in Kinds <=> c # Unset BY DEF Follows
<1>7. row.office # Unset /\ row.condition # Unset /\ row.status # Unset
  BY TimelineAssumption DEF Row
<1>8. ~Splits(seen, e) => next.status = row.status /\ (c # Unset => Tells(c, next))
  <2>1. HAVE ~Splits(seen, e)
  <2>2. next.status = row.status /\ next.office = row.office /\ next.condition = row.condition
        /\ (row.status = "Allocated" => next.holder = row.holder)
    BY <1>7, <2>1 DEF Splits, Brings, Follows
  <2> QED BY <1>4, <2>2 DEF Tells
<1>9. c # Unset => /\ q \in Periods /\ q.from = c.from /\ q.to = now
                   /\ \A n, l : StandsFor(c, n, l) => StandsFor(q, n, l)
  BY ClosingIs
<1>10. Closed(seen, now) = IF c = Unset THEN seen.periods ELSE seen.periods \cup {q}
  BY DEF Closed
<1> HIDE DEF a, p, q, c, now
<1>11. now = seen.at + 1 BY DEF now
<1>12. c = seen.current BY DEF c
<1>13. Follows(a, next)
  <2>1. next.status \in Kinds <=> a.current # Unset BY <1>2, <1>3, <1>6, <1>8
  <2>2. a.current # Unset => Tells(a.current, next) BY <1>2, <1>3, <1>8
  <2> QED BY <1>2, <2>1, <2>2 DEF Follows
<1>14. InTime(a)
  <2>1. \A x \in a.periods : x \in Periods /\ x.from \in Nat /\ x.to \in Nat /\ x.from < x.to /\ x.to <= now
    <3>1. \A x \in seen.periods : x \in Periods /\ x.from \in Nat /\ x.to \in Nat /\ x.from < x.to /\ x.to <= now
      BY <1>1, <1>5, <1>11
    <3>2. c # Unset => q \in Periods /\ q.from \in Nat /\ q.to \in Nat /\ q.from < q.to /\ q.to <= now
      BY <1>1, <1>4, <1>9
    <3> QED BY <1>2, <1>10, <3>1, <3>2
  <2>2. a.current # Unset => a.current \in Periods /\ a.current.from \in Nat /\ a.current.from <= now
    BY <1>1, <1>2, <1>3, <1>4
  <2> QED BY <1>1, <1>2, <2>1, <2>2 DEF InTime
<1>15. CoveredAt(a, now, next)
  <2>1. CoveringAt(a, now) = {}
    <3>1. \A x \in a.periods : ~(now < x.to)
      <4>1. \A x \in a.periods : x.to \in Nat /\ x.to <= now BY <1>2, <1>14 DEF InTime
      <4> QED BY <1>1, <4>1
    <3> QED BY <3>1 DEF CoveringAt
  <2>2. next.status \in Kinds => Ongoing(a, now) /\ Tells(a.current, next)
    <3>1. HAVE next.status \in Kinds
    <3>2. a.current # Unset /\ Tells(a.current, next) BY <1>13, <3>1 DEF Follows
    <3>3. a.current.from \in Nat /\ a.current.from <= now BY <1>2, <1>14, <3>2 DEF InTime
    <3> QED BY <3>2, <3>3 DEF Ongoing
  <2>3. next.status \notin Kinds => ~Ongoing(a, now) BY <1>13 DEF Ongoing, Follows
  <2> QED BY <2>1, <2>2, <2>3 DEF CoveredAt
<1>16. ASSUME NEW k \in 1..seen.at, NEW r, CoveredAt(seen, k, r) PROVE CoveredAt(a, k, r)
  <2>1. k \in Nat /\ k < now BY <1>1, <1>11
  <2>2. CASE ~Splits(seen, e)
    <3>1. CoveringAt(a, k) = CoveringAt(seen, k) /\ (Ongoing(a, k) <=> Ongoing(seen, k)) /\ a.current = seen.current
      BY <1>2, <1>12, <2>2 DEF CoveringAt, Ongoing
    <3> QED BY <1>16, <3>1 DEF CoveredAt
  <2>3. CASE Splits(seen, e)
    <3>1. ~Ongoing(a, k)
      <4>1. a.current # Unset => a.current.from = now BY <1>2, <1>3, <2>3
      <4> QED BY <1>1, <2>1, <4>1 DEF Ongoing
    <3> DEFINE C == {x \in Closed(seen, now) : x.from <= k /\ k < x.to}
    <3>2. IF r.status \notin Kinds THEN C = {} ELSE \E x \in C : C = {x} /\ Tells(x, r)
      <4>1. LET D == {x \in Closed(seen, seen.at + 1) : x.from <= k /\ k < x.to} IN
            IF r.status \notin Kinds THEN D = {} ELSE \E x \in D : D = {x} /\ Tells(x, r)
        BY <1>16, ClosingCovers
      <4> QED BY <1>11, <4>1
    <3>3. CoveringAt(a, k) = C BY <1>2, <2>3 DEF CoveringAt
    <3> HIDE DEF C
    <3> QED BY <3>1, <3>2, <3>3 DEF CoveredAt
  <2> QED BY <2>2, <2>3
<1>17. ASSUME NEW n, NEW l, StandsFor(c, n, l), c # Unset
       PROVE  \/ a.current # Unset /\ StandsFor(a.current, n, l)
              \/ \E x \in a.periods : StandsFor(x, n, l)
  <2>1. CASE Splits(seen, e)
    <3>1. q \in a.periods BY <1>2, <1>10, <1>17, <2>1
    <3> QED BY <1>9, <1>17, <3>1
  <2>2. CASE ~Splits(seen, e) BY <1>2, <1>17, <2>2
  <2> QED BY <2>1, <2>2
<1>18. seen.periods \subseteq a.periods BY <1>2, <1>10
<1>19. Splits(seen, e) /\ next.status \in Kinds => a.current = p /\ a.current # Unset
  BY <1>2, <1>3
<1> QED
  BY <1>2, <1>13, <1>14, <1>15, <1>16, <1>17, <1>18, <1>19 DEF a, now, c, p

-----------------------------------------------------------------------------
(* The handlers record enough.                                               *)

EventOf(action, old, named, next) ==
  [action |-> action, old |-> old, named |-> named,
   snap |-> IF snapshots THEN Snapshot(next) ELSE Unset]

\* The fields that are not named did not change.
Names(named, row, next) ==
  /\ IF "status" \in DOMAIN named THEN named["status"] = next.status ELSE row.status = next.status
  /\ IF "office" \in DOMAIN named THEN named["office"] = next.office ELSE row.office = next.office
  /\ IF "condition" \in DOMAIN named THEN named["condition"] = next.condition ELSE row.condition = next.condition
  /\ IF "custodian" \in DOMAIN named THEN named["custodian"] = next.holder ELSE row.holder = next.holder
  /\ "date" \in DOMAIN named => named["date"] \in Nat

LEMMA SnapshotIs ==
  ASSUME NEW next \in Row
  PROVE  LET s == Snapshot(next) IN
         /\ s # Unset /\ s["status"] = next.status /\ s["office"] = next.office
         /\ s["condition"] = next.condition /\ s["custodian"] = next.holder
         /\ s["allocation"] = IF next.holder = Unset THEN 0 ELSE Len(next.allocations)
         /\ s["allocation"] \in Nat
<1>1. Len(next.allocations) \in Nat BY LenProperties DEF Row
<1>2. Snapshot(next) \in Snapshots BY <1>1 DEF Row, Snapshot, Snapshots
<1>3. Snapshot(next) # Unset BY <1>2, TimelineAssumption
<1> QED BY <1>1, <1>3 DEF Snapshot

LEMMA RecordedBrings ==
  ASSUME NEW seen, NEW row \in Row, Follows(seen, row), NEW next \in Row,
         NEW action, NEW old \in {Unset, row.status}, NEW named, Names(named, row, next),
         action = "employee_transfer" => next.status = "Allocated"
  PROVE  Brings(seen, EventOf(action, old, named, next), next)
<1> DEFINE e == EventOf(action, old, named, next)
<1>1. e.action = action /\ e.old = old /\ e.named = named
      /\ e.snap = IF snapshots THEN Snapshot(next) ELSE Unset
  BY DEF EventOf
<1> HIDE DEF e
<1>2. seen.state = row.status /\ seen.office = row.office /\ seen.condition = row.condition
      /\ seen.employee = row.holder
  BY DEF Follows
<1>3. /\ Read(e, "status", seen.state) = next.status
      /\ Read(e, "office", seen.office) = next.office
      /\ Read(e, "condition", seen.condition) = next.condition
      /\ Read(e, "custodian", seen.employee) = next.holder
  <2>1. CASE snapshots BY <1>1, <2>1, SnapshotIs DEF Read
  <2>2. CASE ~snapshots BY <1>1, <1>2, <2>2 DEF Read, Names
  <2> QED BY <2>1, <2>2
<1>4. ReadStatus(seen, e) = next.status BY <1>1, <1>3 DEF ReadStatus
<1>5. e.snap # Unset => e.snap.allocation \in Nat BY <1>1, SnapshotIs
<1>6. "date" \in DOMAIN e.named => e.named.date \in Nat BY <1>1 DEF Names
<1>7. StartKnown(seen, e)
  <2>1. row.status # Unset BY TimelineAssumption DEF Row
  <2> QED BY <1>2, <2>1 DEF StartKnown
<1> QED BY <1>1, <1>2, <1>3, <1>4, <1>5, <1>6, <1>7 DEF Brings, e

\* The new allocation of a handler, if any, has the period that its event opens.
Allocates(seen, e, row, next) ==
  \/ next.allocations = row.allocations
  \/ /\ Splits(seen, e) /\ next.status = "Allocated"
     /\ \E l \in [to: Holders, on: Nat] :
          /\ next.allocations = Append(row.allocations, l)
          /\ StandsFor(Opened(seen, e, seen.at + 1), Len(row.allocations) + 1, l)

LEMMA ToldStill ==
  ASSUME NEW seen, NEW row \in Row, Follows(seen, row), InTime(seen), AllocationsTold(seen, row),
         NEW e, NEW next \in Row, Brings(seen, e, next), Allocates(seen, e, row, next)
  PROVE  AllocationsTold(See(seen, e), next)
<1> DEFINE a == See(seen, e)
<1>1. /\ \A n, l : StandsFor(seen.current, n, l) /\ seen.current # Unset =>
              \/ a.current # Unset /\ StandsFor(a.current, n, l)
              \/ \E p \in a.periods : StandsFor(p, n, l)
      /\ seen.periods \subseteq a.periods
      /\ Splits(seen, e) /\ next.status \in Kinds =>
              a.current = Opened(seen, e, seen.at + 1) /\ a.current # Unset
  BY NextSeen
<1> HIDE DEF a
<1>2. row.allocations \in Seq([to: Holders, on: Nat]) /\ Len(row.allocations) \in Nat
  <2>1. row.allocations \in Seq([to: Holders, on: Nat]) BY DEF Row
  <2> QED BY <2>1, LenProperties
<1>3. ASSUME NEW n \in 1..Len(row.allocations), NEW l, l = row.allocations[n]
      PROVE  \/ a.current # Unset /\ StandsFor(a.current, n, l)
             \/ \E p \in a.periods : StandsFor(p, n, l)
  <2>1. \/ seen.current # Unset /\ StandsFor(seen.current, n, l)
        \/ \E p \in seen.periods : StandsFor(p, n, l)
    BY <1>3 DEF AllocationsTold
  <2> QED BY <1>1, <2>1
<1>4. CASE next.allocations = row.allocations
  BY <1>3, <1>4 DEF AllocationsTold, a
<1>5. CASE next.allocations # row.allocations
  <2>1. PICK l \in [to: Holders, on: Nat] :
          /\ Splits(seen, e) /\ next.status = "Allocated"
          /\ next.allocations = Append(row.allocations, l)
          /\ StandsFor(Opened(seen, e, seen.at + 1), Len(row.allocations) + 1, l)
    BY <1>5 DEF Allocates
  <2>2. a.current # Unset /\ StandsFor(a.current, Len(row.allocations) + 1, l)
    <3>1. next.status \in Kinds BY <2>1 DEF Kinds
    <3> QED BY <1>1, <2>1, <3>1
  <2>3. /\ Len(next.allocations) = Len(row.allocations) + 1
        /\ next.allocations[Len(row.allocations) + 1] = l
        /\ \A n \in 1..Len(row.allocations) : next.allocations[n] = row.allocations[n]
    BY <1>2, <2>1, AppendProperties
  <2>4. ASSUME NEW n \in 1..Len(next.allocations)
        PROVE  \/ a.current # Unset /\ StandsFor(a.current, n, next.allocations[n])
               \/ \E p \in a.periods : StandsFor(p, n, next.allocations[n])
    <3>1. n \in 1..Len(row.allocations) \/ n = Len(row.allocations) + 1 BY <1>2, <2>3
    <3>2. CASE n = Len(row.allocations) + 1 BY <2>2, <2>3, <3>2
    <3>3. CASE n \in 1..Len(row.allocations) BY <1>3, <2>3, <3>3
    <3> QED BY <3>1, <3>2, <3>3
  <2> QED BY <2>4 DEF AllocationsTold, a
<1> QED BY <1>4, <1>5

LEMMA StoreInv ==
  ASSUME TimelineInv, NEW t \in Things, NEW action, NEW old, NEW named, NEW next \in Row,
         Store(t, action, old, named, next),
         item[t] = Unset => /\ Brings(Unseen, EventOf(action, old, named, next), next)
                            /\ next.allocations = << >>,
         item[t] # Unset => /\ Brings(Seen(t), EventOf(action, old, named, next), next)
                            /\ Allocates(Seen(t), EventOf(action, old, named, next), item[t], next)
  PROVE  TimelineInv'
<1> DEFINE e == EventOf(action, old, named, next)
<1>1. /\ item' = [item EXCEPT ![t] = next]
      /\ past' = [past EXCEPT ![t] = Append(@, next)]
      /\ trail' = [trail EXCEPT ![t] = Append(@, e)]
      /\ UNCHANGED snapshots
  BY DEF Store, EventOf
<1> HIDE DEF e
<1>2. TimelineTypeOK /\ TrailsAre /\ \A o \in Things : ReadingTrue(o) BY DEF TimelineInv
<1>3. past[t] \in Seq(Row) /\ item[t] \in Row \cup {Unset} BY <1>2 DEF TimelineTypeOK
<1>4. PICK S : trail[t] \in Seq(S) BY <1>2 DEF TrailsAre
<1>5. next # Unset BY TimelineAssumption
<1>6. TimelineTypeOK'
  <2>1. Append(past[t], next) \in Seq(Row) BY <1>3, AppendProperties
  <2> QED BY <1>1, <1>2, <2>1 DEF TimelineTypeOK
<1>7. item'[t] = next /\ past'[t] = Append(past[t], next) BY <1>1, <1>2 DEF TimelineTypeOK
<1>8. trail'[t] = Append(trail[t], e) /\ Seen(t)' = See(Seen(t), e)
  <2>1. trail' = [trail EXCEPT ![t] = Append(@, e)] /\ trail = [o \in Things |-> trail[o]]
    BY <1>1, <1>2 DEF TrailsAre
  <2>2. trail'[t] = Append(trail[t], e) BY <2>1
  <2> QED BY <1>4, <2>2, SeenAppend DEF Seen
<1>9. TrailsAre'
  <2>1. trail' = [trail EXCEPT ![t] = Append(@, e)] /\ trail = [o \in Things |-> trail[o]]
    BY <1>1, <1>2 DEF TrailsAre
  <2>2. trail' = [o \in Things |-> trail'[o]] BY <2>1
  <2>3. \A o \in Things : \E T : trail'[o] \in Seq(T)
    <3>1. TAKE o \in Things
    <3>2. CASE o = t
      <4>1. trail[t] \in Seq(S \cup {e}) BY <1>4, SeqDef
      <4>2. Append(trail[t], e) \in Seq(S \cup {e}) BY <4>1, AppendProperties
      <4> QED BY <1>8, <3>2, <4>2
    <3>3. CASE o # t
      <4>1. trail'[o] = trail[o] BY <2>1, <3>3
      <4> QED BY <1>2, <4>1 DEF TrailsAre
    <3> QED BY <3>2, <3>3
  <2> QED BY <2>2, <2>3 DEF TrailsAre
<1>10. ASSUME NEW o \in Things, o # t PROVE ReadingTrue(o)'
  <2>1. trail'[o] = trail[o]
    <3>1. trail' = [trail EXCEPT ![t] = Append(@, e)] /\ trail = [x \in Things |-> trail[x]]
      BY <1>1, <1>2 DEF TrailsAre
    <3> QED BY <1>10, <3>1
  <2>2. item'[o] = item[o] /\ past'[o] = past[o]
    BY <1>1, <1>2, <1>10 DEF TimelineTypeOK
  <2>3. Seen(o)' = Seen(o) BY <2>1 DEF Seen
  <2>4. ReadingTrue(o) BY <1>2
  <2> QED BY <2>1, <2>2, <2>3, <2>4 DEF ReadingTrue
<1> DEFINE n == Len(past[t])
<1>11. /\ n \in Nat /\ Len(trail[t]) = n /\ Len(past'[t]) = n + 1 /\ Len(trail'[t]) = n + 1
       /\ past'[t][n + 1] = next /\ \A k \in 1..n : past'[t][k] = past[t][k]
       /\ Seen(t).at = n
  <2>1. Len(past[t]) = Len(trail[t]) /\ Seen(t).at = Len(trail[t]) BY <1>2 DEF ReadingTrue
  <2>2. Len(trail'[t]) = Len(trail[t]) + 1 BY <1>4, <1>8, AppendProperties
  <2>3. n \in Nat BY <1>3, LenProperties
  <2>4. Len(Append(past[t], next)) = n + 1 /\ Append(past[t], next)[n + 1] = next
        /\ \A k \in 1..n : Append(past[t], next)[k] = past[t][k]
    BY <1>3, AppendProperties
  <2> QED BY <1>7, <2>1, <2>2, <2>3, <2>4
<1> HIDE DEF n
<1> DEFINE a == See(Seen(t), e)
<1>12. /\ a.at = n + 1 /\ Follows(a, next) /\ InTime(a) /\ AllocationsTold(a, next)
       /\ \A k \in 1..(n + 1) : CoveredAt(a, k, past'[t][k])
  <2>1. CASE item[t] = Unset
    <3>1. trail[t] = << >> /\ past[t] = << >> BY <1>2, <2>1 DEF ReadingTrue
    <3>2. Seen(t) = Unseen BY <3>1, SeenNothing DEF Seen
    <3>3. Brings(Unseen, e, next) /\ next.allocations = << >> BY <2>1 DEF e
    <3>4. a.at = 1 /\ Follows(a, next) /\ InTime(a) /\ CoveredAt(a, 1, next)
      BY <3>2, <3>3, FirstSeen
    <3>5. n = 0
      <4>1. Len(<< >>) = 0 OBVIOUS
      <4> QED BY <3>1, <4>1 DEF n
    <3> HIDE DEF a
    <3>6. AllocationsTold(a, next)
      <4>1. Len(<< >>) = 0 /\ 1..0 = {} OBVIOUS
      <4>2. 1..Len(next.allocations) = {} BY <3>3, <4>1
      <4> QED BY <4>2 DEF AllocationsTold
    <3>7. \A k \in 1..(n + 1) : k = 1 BY <3>5
    <3>8. past'[t][1] = next BY <1>11, <3>5
    <3> QED BY <3>4, <3>5, <3>6, <3>7, <3>8
  <2>2. CASE item[t] # Unset
    <3>1. item[t] \in Row BY <1>3, <2>2
    <3>2. /\ Follows(Seen(t), item[t]) /\ InTime(Seen(t)) /\ AllocationsTold(Seen(t), item[t])
          /\ \A k \in 1..n : CoveredAt(Seen(t), k, past[t][k])
      BY <1>2, <2>2 DEF ReadingTrue, n
    <3>3. Brings(Seen(t), e, next) /\ Allocates(Seen(t), e, item[t], next) BY <2>2 DEF e
    <3> DEFINE b == Seen(t)
    <3>4. b.at = n BY <1>11
    <3> HIDE DEF b, a
    <3>5. /\ a.at = n + 1 /\ Follows(a, next) /\ InTime(a) /\ CoveredAt(a, n + 1, next)
          /\ \A k \in 1..n : \A r : CoveredAt(b, k, r) => CoveredAt(a, k, r)
      <4>1. Follows(b, item[t]) /\ InTime(b) /\ Brings(b, e, next) /\ a = See(b, e)
        BY <3>2, <3>3 DEF a, b
      <4> QED BY <3>1, <3>4, <4>1, NextSeen
    <3>6. AllocationsTold(a, next) BY <3>1, <3>2, <3>3, ToldStill DEF a
    <3>7. ASSUME NEW k \in 1..(n + 1) PROVE CoveredAt(a, k, past'[t][k])
      <4>1. k \in 1..n \/ k = n + 1 BY <1>11
      <4>2. CASE k = n + 1 BY <1>11, <3>5, <4>2
      <4>3. CASE k \in 1..n
        <5>1. CoveredAt(b, k, past[t][k]) BY <3>2, <4>3 DEF b
        <5> QED BY <1>11, <3>5, <4>3, <5>1
      <4> QED BY <4>1, <4>2, <4>3
    <3> QED BY <3>5, <3>6, <3>7
  <2> QED BY <2>1, <2>2
<1>13. ReadingTrue(t)'
  <2>1. Seen(t)' = a BY <1>8 DEF a
  <2> HIDE DEF a
  <2> QED BY <1>5, <1>7, <1>11, <1>12, <2>1 DEF ReadingTrue
<1> QED BY <1>6, <1>9, <1>10, <1>13 DEF TimelineInv

LEMMA RegisterInv ==
  ASSUME TimelineInv, NEW t \in Things, NEW p \in Places, NEW c \in Conditions, Register(t, p, c)
  PROVE  TimelineInv'
<1> DEFINE next == [status |-> "InStock", office |-> p, condition |-> c, holder |-> Unset,
                    allocations |-> << >>]
           named == [status |-> "InStock", office |-> p, condition |-> c, custodian |-> Unset]
           e == EventOf("create", Unset, named, next)
<1>1. item[t] = Unset /\ Store(t, "create", Unset, named, next) BY DEF Register
<1>2. next \in Row
  <2>1. << >> \in Seq([to: Holders, on: Nat]) BY EmptySeq
  <2> QED BY <2>1 DEF Row, Statuses, Kinds
<1>3. \A b : /\ Read(e, "status", b) = next.status /\ Read(e, "office", b) = next.office
             /\ Read(e, "condition", b) = next.condition /\ Read(e, "custodian", b) = next.holder
  <2>1. CASE snapshots
    <3> HIDE DEF next
    <3> QED BY <1>2, <2>1, SnapshotIs DEF Read, EventOf
  <2>2. CASE ~snapshots BY <2>2 DEF Read, EventOf
  <2> QED BY <2>1, <2>2
<1>4. e.snap # Unset => e.snap.allocation \in Nat
  <2> HIDE DEF next
  <2> QED BY <1>2, SnapshotIs DEF EventOf
<1>5. e.action = "create" /\ e.old = Unset /\ "date" \notin DOMAIN e.named BY DEF EventOf
<1>6. next.status \in Statuses BY <1>2 DEF Row
<1>7. next.allocations = << >> OBVIOUS
<1> HIDE DEF e, named, next
<1>8. ReadStatus(Unseen, e) = next.status BY <1>3, <1>5 DEF ReadStatus
<1>9. StartKnown(Unseen, e)
  <2>1. next.status # Unset BY <1>6, TimelineAssumption
  <2>2. Unseen.state = Unset BY DEF Unseen
  <2> QED BY <1>5, <1>8, <2>1, <2>2 DEF StartKnown
<1>10. Brings(Unseen, e, next) BY <1>2, <1>3, <1>4, <1>5, <1>8, <1>9 DEF Brings
<1> QED BY <1>1, <1>2, <1>7, <1>10, StoreInv DEF e

\* A handler that names what it changes and issues nothing.
LEMMA PlainInv ==
  ASSUME TimelineInv, NEW t \in Things, item[t] # Unset, NEW action, action # "employee_transfer",
         NEW old \in {Unset, item[t].status}, NEW named, NEW next \in Row,
         next.allocations = item[t].allocations, Names(named, item[t], next),
         Store(t, action, old, named, next)
  PROVE  TimelineInv'
<1>1. item[t] \in Row /\ Follows(Seen(t), item[t])
  BY DEF TimelineInv, TimelineTypeOK, ReadingTrue
<1>2. Brings(Seen(t), EventOf(action, old, named, next), next) BY <1>1, RecordedBrings
<1>3. Allocates(Seen(t), EventOf(action, old, named, next), item[t], next) BY DEF Allocates
<1> QED BY <1>2, <1>3, StoreInv

\* A handler that issues the asset to h.
LEMMA IssueInv ==
  ASSUME TimelineInv, NEW t \in Things, item[t] # Unset, NEW action,
         NEW old \in {Unset, item[t].status}, NEW named, NEW next \in Row, NEW h \in Holders,
         next.status = "Allocated", next.holder = h, next.allocations = Issued(t, h),
         Names(named, item[t], next), "date" \in DOMAIN named, named["date"] = Len(trail[t]) + 1,
         item[t].status # "Allocated" \/ item[t].holder # h,
         Store(t, action, old, named, next)
  PROVE  TimelineInv'
<1> DEFINE e == EventOf(action, old, named, next)
           seen == Seen(t)
           row == item[t]
<1>1. row \in Row /\ Follows(seen, row)
  BY DEF TimelineInv, TimelineTypeOK, ReadingTrue
<1>2. Brings(seen, e, next) BY <1>1, RecordedBrings
<1>3. /\ e.named = named /\ e.snap = IF snapshots THEN Snapshot(next) ELSE Unset
  BY DEF EventOf
<1>4. Splits(seen, e)
  <2> HIDE DEF seen, row, e
  <2>1. seen.state = row.status /\ ReadStatus(seen, e) = "Allocated" /\ Read(e, "custodian", seen.employee) = h
        /\ seen.employee = row.holder
    BY <1>1, <1>2 DEF Brings, Follows
  <2> QED BY <2>1 DEF Splits, row
<1> DEFINE l == [to |-> h, on |-> Len(trail[t]) + 1]
           p == Opened(seen, e, seen.at + 1)
<1>5. row.allocations \in Seq([to: Holders, on: Nat]) BY <1>1 DEF Row
<1>6. Len(trail[t]) \in Nat
  <2>1. PICK S : trail[t] \in Seq(S) BY DEF TimelineInv, TrailsAre
  <2> QED BY <2>1, LenProperties
<1>7. l \in [to: Holders, on: Nat] /\ l.to = h /\ l.on = Len(trail[t]) + 1 BY <1>6
<1>8. next.allocations = Append(row.allocations, l) BY DEF Issued
<1> HIDE DEF l
<1>9. Len(next.allocations) = Len(row.allocations) + 1 BY <1>5, <1>7, <1>8, AppendProperties
<1>10. /\ p.kind = "Allocated" /\ p.employee = h
       /\ p.allocation = IF e.snap = Unset THEN 0 ELSE e.snap.allocation
       /\ p.date = named["date"]
  <2> HIDE DEF e, seen
  <2> QED BY <1>2, <1>3 DEF Opened, Brings
<1>11. Matches(p, Len(row.allocations) + 1, l)
  <2>1. CASE snapshots
    <3>1. h # Unset BY TimelineAssumption
    <3>2. e.snap # Unset /\ e.snap["allocation"] = Len(next.allocations)
      <4> HIDE DEF e
      <4> QED BY <1>3, <2>1, <3>1, SnapshotIs
    <3> HIDE DEF p, e
    <3> QED BY <1>9, <1>10, <3>2 DEF Matches
  <2>2. CASE ~snapshots
    <3> HIDE DEF p, e
    <3> QED BY <1>7, <1>10 DEF Matches
  <2> QED BY <2>1, <2>2
<1>12. StandsFor(p, Len(row.allocations) + 1, l)
  <2> HIDE DEF p
  <2> QED BY <1>10, <1>11 DEF StandsFor
<1>13. Allocates(seen, e, row, next)
  <2> HIDE DEF seen, e, row
  <2> QED BY <1>4, <1>7, <1>8, <1>12 DEF Allocates
<1> QED BY <1>2, <1>13, StoreInv

LEMMA TrailLength ==
  ASSUME TimelineInv, NEW t \in Things
  PROVE  Len(trail[t]) + 1 \in Nat
<1>1. PICK S : trail[t] \in Seq(S) BY DEF TimelineInv, TrailsAre
<1>2. Len(trail[t]) \in Nat BY <1>1, LenProperties
<1> QED BY <1>2

\* A row with some of its columns written.
LEMMA RowWith ==
  ASSUME TimelineInv, NEW t \in Things, item[t] # Unset
  PROVE  /\ item[t] \in Row
         /\ \A st \in Statuses, c \in Conditions :
              [item[t] EXCEPT !.status = st, !.holder = Unset, !.condition = c] \in Row
         /\ \A p \in Places : [item[t] EXCEPT !.office = p] \in Row
         /\ \A st \in Statuses : [item[t] EXCEPT !.status = st] \in Row
         /\ \A c \in Conditions : [item[t] EXCEPT !.condition = c] \in Row
         /\ \A c \in Conditions, h \in Holders :
              [item[t] EXCEPT !.status = "Allocated", !.holder = h, !.condition = c,
                              !.allocations = Issued(t, h)] \in Row
         /\ \A p \in Places, c \in Conditions, h \in Holders :
              [item[t] EXCEPT !.holder = h, !.office = p, !.condition = c,
                              !.allocations = Issued(t, h)] \in Row
<1> DEFINE row == item[t]
<1>1. row \in Row BY DEF TimelineInv, TimelineTypeOK
<1>2. ASSUME NEW h \in Holders PROVE Issued(t, h) \in Seq([to: Holders, on: Nat])
  <2>1. row.allocations \in Seq([to: Holders, on: Nat]) BY <1>1 DEF Row
  <2>2. Len(trail[t]) \in Nat
    <3>1. PICK S : trail[t] \in Seq(S) BY DEF TimelineInv, TrailsAre
    <3> QED BY <3>1, LenProperties
  <2>3. [to |-> h, on |-> Len(trail[t]) + 1] \in [to: Holders, on: Nat] BY <2>2
  <2> QED BY <2>1, <2>3, AppendProperties DEF Issued
<1> HIDE DEF row
<1>3. /\ \A st \in Statuses, c \in Conditions :
           [row EXCEPT !.status = st, !.holder = Unset, !.condition = c] \in Row
      /\ \A p \in Places : [row EXCEPT !.office = p] \in Row
      /\ \A st \in Statuses : [row EXCEPT !.status = st] \in Row
      /\ \A c \in Conditions : [row EXCEPT !.condition = c] \in Row
  BY <1>1 DEF Row
<1>4. "Allocated" \in Statuses BY DEF Statuses, Kinds
<1>5. \A c \in Conditions, h \in Holders :
        [row EXCEPT !.status = "Allocated", !.holder = h, !.condition = c,
                    !.allocations = Issued(t, h)] \in Row
  BY <1>1, <1>2, <1>4 DEF Row
<1>6. \A p \in Places, c \in Conditions, h \in Holders :
        [row EXCEPT !.holder = h, !.office = p, !.condition = c, !.allocations = Issued(t, h)] \in Row
  BY <1>1, <1>2 DEF Row
<1> QED BY <1>1, <1>3, <1>5, <1>6 DEF row

LEMMA AllocateInv ==
  ASSUME TimelineInv, NEW t \in Things, NEW h \in Holders, NEW c \in Conditions, Allocate(t, h, c)
  PROVE  TimelineInv'
<1> DEFINE row == item[t]
           next == [row EXCEPT !.status = "Allocated", !.holder = h, !.condition = c,
                               !.allocations = Issued(t, h)]
           named == [status |-> "Allocated", custodian |-> h, condition |-> c, date |-> Len(trail[t]) + 1]
<1>1. item[t] # Unset /\ row.status = "InStock" /\ Store(t, "allocate", "InStock", named, next)
  BY DEF Allocate
<1>2. row \in Row /\ next \in Row BY <1>1, RowWith
<1> HIDE DEF row
<1>3. /\ next.status = "Allocated" /\ next.holder = h /\ next.condition = c /\ next.office = row.office
      /\ next.allocations = Issued(t, h)
  BY <1>2 DEF Row
<1>4. Len(trail[t]) + 1 \in Nat BY TrailLength
<1>5. Names(named, row, next) BY <1>3, <1>4 DEF Names
<1>6. "date" \in DOMAIN named /\ named["date"] = Len(trail[t]) + 1 OBVIOUS
<1> HIDE DEF named, next
<1> QED BY <1>1, <1>2, <1>3, <1>5, <1>6, IssueInv DEF row

LEMMA HandOverInv ==
  ASSUME TimelineInv, NEW t \in Things, NEW h \in Holders, NEW p \in Places, NEW c \in Conditions,
         HandOver(t, h, p, c)
  PROVE  TimelineInv'
<1> DEFINE row == item[t]
           next == [row EXCEPT !.holder = h, !.office = p, !.condition = c,
                               !.allocations = Issued(t, h)]
           named == [custodian |-> h, office |-> p, condition |-> c, date |-> Len(trail[t]) + 1]
<1>1. /\ item[t] # Unset /\ row.status = "Allocated" /\ row.holder # h
      /\ Store(t, "employee_transfer", Unset, named, next)
  BY DEF HandOver
<1>2. row \in Row /\ next \in Row BY <1>1, RowWith
<1> HIDE DEF row
<1>3. /\ next.status = "Allocated" /\ next.holder = h /\ next.condition = c /\ next.office = p
      /\ next.allocations = Issued(t, h)
  BY <1>1, <1>2 DEF Row
<1>4. Len(trail[t]) + 1 \in Nat BY TrailLength
<1>5. Names(named, row, next) BY <1>1, <1>3, <1>4 DEF Names
<1>6. "date" \in DOMAIN named /\ named["date"] = Len(trail[t]) + 1 OBVIOUS
<1> HIDE DEF named, next
<1> QED BY <1>1, <1>2, <1>3, <1>5, <1>6, IssueInv DEF row

LEMMA GiveBackInv ==
  ASSUME TimelineInv, NEW t \in Things, NEW c \in Conditions, GiveBack(t, c)
  PROVE  TimelineInv'
<1> DEFINE row == item[t]
           status == IF c = "Damaged" THEN "Damaged" ELSE "InStock"
           next == [row EXCEPT !.status = status, !.holder = Unset, !.condition = c]
           named == [status |-> status, custodian |-> Unset, condition |-> c]
<1>1. item[t] # Unset /\ Store(t, "return", row.status, named, next)
  BY DEF GiveBack
<1>2. status \in Statuses BY DEF Statuses, Kinds
<1> HIDE DEF status
<1>3. row \in Row /\ next \in Row BY <1>1, <1>2, RowWith
<1> HIDE DEF row
<1>4. /\ next.status = status /\ next.holder = Unset /\ next.condition = c /\ next.office = row.office
      /\ next.allocations = row.allocations
  BY <1>3 DEF Row
<1>5. Names(named, row, next) BY <1>4 DEF Names
<1> HIDE DEF named, next
<1> QED BY <1>1, <1>3, <1>4, <1>5, PlainInv DEF row

LEMMA RelocateInv ==
  ASSUME TimelineInv, NEW t \in Things, NEW p \in Places, Relocate(t, p)
  PROVE  TimelineInv'
<1> DEFINE row == item[t]
           next == [row EXCEPT !.office = p]
           named == [office |-> p]
<1>1. item[t] # Unset /\ Store(t, "office_transfer", Unset, named, next)
  BY DEF Relocate
<1>2. row \in Row /\ next \in Row BY <1>1, RowWith
<1> HIDE DEF row
<1>3. /\ next.status = row.status /\ next.holder = row.holder /\ next.condition = row.condition
      /\ next.office = p /\ next.allocations = row.allocations
  BY <1>2 DEF Row
<1>4. Names(named, row, next) BY <1>3 DEF Names
<1> HIDE DEF named, next
<1> QED BY <1>1, <1>2, <1>3, <1>4, PlainInv DEF row

LEMMA ChangeStatusInv ==
  ASSUME TimelineInv, NEW t \in Things, NEW s \in Statuses, ChangeStatus(t, s)
  PROVE  TimelineInv'
<1> DEFINE row == item[t]
           next == [row EXCEPT !.status = s]
           named == [status |-> s]
<1>1. item[t] # Unset /\ Store(t, "status", row.status, named, next)
  BY DEF ChangeStatus
<1>2. row \in Row /\ next \in Row BY <1>1, RowWith
<1> HIDE DEF row
<1>3. /\ next.status = s /\ next.holder = row.holder /\ next.condition = row.condition
      /\ next.office = row.office /\ next.allocations = row.allocations
  BY <1>2 DEF Row
<1>4. Names(named, row, next) BY <1>3 DEF Names
<1> HIDE DEF named, next
<1> QED BY <1>1, <1>2, <1>3, <1>4, PlainInv DEF row

LEMMA CorrectConditionInv ==
  ASSUME TimelineInv, NEW t \in Things, NEW c \in Conditions, CorrectCondition(t, c)
  PROVE  TimelineInv'
<1> DEFINE row == item[t]
           next == [row EXCEPT !.condition = c]
           named == [condition |-> c]
<1>1. item[t] # Unset /\ Store(t, "condition", Unset, named, next)
  BY DEF CorrectCondition
<1>2. row \in Row /\ next \in Row BY <1>1, RowWith
<1> HIDE DEF row
<1>3. /\ next.status = row.status /\ next.holder = row.holder /\ next.condition = c
      /\ next.office = row.office /\ next.allocations = row.allocations
  BY <1>2 DEF Row
<1>4. Names(named, row, next) BY <1>3 DEF Names
<1> HIDE DEF named, next
<1> QED BY <1>1, <1>2, <1>3, <1>4, PlainInv DEF row

\* Those that leave the row as it is.
LEMMA SameRowInv ==
  ASSUME TimelineInv, NEW t \in Things, CorrectIdentifiers(t) \/ UpdateMaster(t)
  PROVE  TimelineInv'
<1> DEFINE row == item[t]
           full == [status |-> row.status, office |-> row.office,
                    condition |-> row.condition, custodian |-> row.holder]
<1>1. item[t] # Unset BY DEF CorrectIdentifiers, UpdateMaster
<1>2. row \in Row BY <1>1, RowWith
<1>3. CASE CorrectIdentifiers(t)
  <2>1. Store(t, "identifiers", Unset, << >>, row) BY <1>3 DEF CorrectIdentifiers
  <2>2. Names(<< >>, row, row) BY DEF Names
  <2> QED BY <1>1, <1>2, <2>1, <2>2, PlainInv
<1>4. CASE UpdateMaster(t)
  <2>1. Store(t, "master", row.status, full, row) BY <1>4 DEF UpdateMaster
  <2>2. Names(full, row, row) BY DEF Names
  <2> HIDE DEF full
  <2> QED BY <1>1, <1>2, <2>1, <2>2, PlainInv
<1> QED BY <1>3, <1>4

LEMMA InstallInv ==
  ASSUME TimelineInv, UNCHANGED <<item, trail, past>>, snapshots' \in BOOLEAN
  PROVE  TimelineInv'
<1>1. TimelineTypeOK' BY DEF TimelineInv, TimelineTypeOK
<1>2. TrailsAre' BY DEF TimelineInv, TrailsAre
<1>3. \A t \in Things : ReadingTrue(t)'
  <2>1. TAKE t \in Things
  <2>2. Seen(t)' = Seen(t) BY DEF Seen
  <2> QED BY <2>2 DEF TimelineInv, ReadingTrue
<1> QED BY <1>1, <1>2, <1>3 DEF TimelineInv

LEMMA TimelineInitInv == TimelineInit => TimelineInv
<1> SUFFICES ASSUME TimelineInit PROVE TimelineInv
  OBVIOUS
<1>1. << >> \in Seq(Row) BY EmptySeq
<1>2. TimelineTypeOK BY <1>1 DEF TimelineInit, TimelineTypeOK
<1>3. TrailsAre
  <2>1. << >> \in Seq({}) BY EmptySeq
  <2> QED BY <2>1 DEF TimelineInit, TrailsAre
<1>4. \A t \in Things : ReadingTrue(t)
  <2>1. TAKE t \in Things
  <2>2. trail[t] = << >> /\ past[t] = << >> /\ item[t] = Unset BY DEF TimelineInit
  <2>3. Seen(t) = Unseen BY <2>2, SeenNothing DEF Seen
  <2>4. Unseen.at = 0 /\ Len(<< >>) = 0 BY DEF Unseen
  <2> QED BY <2>2, <2>3, <2>4 DEF ReadingTrue
<1> QED BY <1>2, <1>3, <1>4 DEF TimelineInv

LEMMA TimelineNextInv == TimelineInv /\ [TimelineNext]_timelineVars => TimelineInv'
<1> SUFFICES ASSUME TimelineInv, [TimelineNext]_timelineVars PROVE TimelineInv'
  OBVIOUS
<1>1. CASE UNCHANGED timelineVars \/ Install
  <2>1. snapshots' \in BOOLEAN /\ UNCHANGED <<item, trail, past>>
    BY <1>1 DEF timelineVars, Install, TimelineInv, TimelineTypeOK
  <2> QED BY <2>1, InstallInv
<1> QED
  BY <1>1, RegisterInv, AllocateInv, HandOverInv, GiveBackInv, RelocateInv, ChangeStatusInv,
     CorrectConditionInv, SameRowInv DEF TimelineNext

LEMMA ExactFollows == TimelineInv => TimelineExact
<1> SUFFICES ASSUME TimelineInv, NEW t \in Things, item[t] # Unset
    PROVE  LET view == Lifecycle(t) IN
           /\ ~view.gap
           /\ \A k \in 1..Len(past[t]) :
                LET row == past[t][k]
                    covering == {p \in view.periods : p.from <= k /\ k < p.to}
                IN IF row.status \notin Kinds THEN covering = {}
                   ELSE \E p \in covering :
                          /\ covering = {p}
                          /\ p.kind = row.status /\ p.office = row.office
                          /\ p.condition = row.condition
                          /\ row.status = "Allocated" => p.employee = row.holder
           /\ \A n \in 1..Len(item[t].allocations) :
                \E p \in view.periods :
                  p.kind = "Allocated" /\ Matches(p, n, item[t].allocations[n])
  BY DEF TimelineExact
<1> DEFINE seen == Seen(t)
           row == item[t]
           view == Lifecycle(t)
<1>1. /\ Follows(seen, row) /\ InTime(seen) /\ AllocationsTold(seen, row)
      /\ \A k \in 1..Len(past[t]) : CoveredAt(seen, k, past[t][k])
      /\ seen.at = Len(past[t])
  BY DEF TimelineInv, ReadingTrue
<1>2. /\ view.periods = Closed(seen, seen.at + 1)
      /\ view.gap = (\/ seen.gap
                     \/ seen.state # row.status
                     \/ seen.current = Unset /\ row.status \in {"InStock", "UnderRepair"})
  BY DEF Lifecycle, Seen, SeenIn
<1> HIDE DEF seen, row, view
<1>3. ~view.gap
  <2>1. row.status \in {"InStock", "UnderRepair"} => seen.current # Unset BY <1>1 DEF Follows, Kinds
  <2>2. ~seen.gap /\ seen.state = row.status BY <1>1 DEF Follows
  <2> QED BY <1>2, <2>1, <2>2
<1>4. ASSUME NEW k \in 1..Len(past[t])
      PROVE  LET r == past[t][k]
                 covering == {p \in view.periods : p.from <= k /\ k < p.to}
             IN IF r.status \notin Kinds THEN covering = {}
                ELSE \E p \in covering : covering = {p} /\ Tells(p, r)
  BY <1>1, <1>2, ClosingCovers
<1>5. ASSUME NEW n \in 1..Len(row.allocations)
      PROVE  \E p \in view.periods : StandsFor(p, n, row.allocations[n])
  <2>1. CASE seen.current # Unset /\ StandsFor(seen.current, n, row.allocations[n])
    <3> DEFINE q == [seen.current EXCEPT !.to = seen.at + 1]
    <3>1. q \in view.periods /\ StandsFor(q, n, row.allocations[n])
      BY <1>1, <1>2, <2>1, ClosingIs
    <3> QED BY <3>1
  <2>2. CASE \E p \in seen.periods : StandsFor(p, n, row.allocations[n])
    <3>1. seen.periods \subseteq view.periods BY <1>2 DEF Closed
    <3> QED BY <2>2, <3>1
  <2> QED BY <1>1, <2>1, <2>2 DEF AllocationsTold
<1> QED BY <1>3, <1>4, <1>5 DEF Tells, StandsFor, row, view

\* For any number of assets, employees and events, whatever part of the events is older
\* than the snapshots: the lifecycle that is rebuilt from them has one true period for
\* every instant there is one to tell of, misses nothing and has every allocation
\* (build_lifecycle, _record_asset_event).
THEOREM TimelineExactHolds == TimelineSpec => []TimelineExact
<1>1. TimelineInit => TimelineInv BY TimelineInitInv
<1>2. TimelineInv /\ [TimelineNext]_timelineVars => TimelineInv' BY TimelineNextInv
<1>3. TimelineInv => TimelineExact BY ExactFollows
<1> QED BY <1>1, <1>2, <1>3, PTL DEF TimelineSpec

=============================================================================
