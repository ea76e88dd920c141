---------------------- MODULE EmployeeTransfersProofs ----------------------
(* Theorems about EmployeeTransfers, for any number of transfers, users and  *)
(* executors.                                                                *)
EXTENDS EmployeeTransfers, TLAPS

-----------------------------------------------------------------------------
(* The inductive invariant.                                                *)

\* Statuses a transfer has only after its approval, and may have after it.
AfterApproval == {"Approved", "Superseded", "Applied"}
Decided == AfterApproval \cup {"Cancelled"}

Apart(u, row) == u # None /\ u \notin {Employee, row.requester}

\* The OWNER's open request holds the row it decided on.
RequestHolds ==
  tx # None =>
    /\ tx.approve => Status(tx.transfer, {"Reviewed"}) /\ Independent(Owner, tx.transfer)
    /\ ~tx.approve => Status(tx.transfer, {"Approved"})

\* Who reviewed and approved.
Reviewers ==
  \A t \in Transfers :
    /\ Status(t, {"Reviewed"} \cup AfterApproval) =>
         Apart(transfers[t].reviewer, transfers[t])
    /\ Status(t, AfterApproval) => transfers[t].approver # None
    /\ transfers[t].approver # None =>
         /\ transfers[t].status \in Decided
         /\ transfers[t].approver = Owner
         /\ Apart(Owner, transfers[t])

\* What an approved transfer replaces is superseded, by it alone.
Replaced ==
  \A t, p \in Transfers : Successor(t, p) =>
    /\ transfers[p].status = "Superseded"
    /\ \A q \in Transfers : Successor(q, p) => q = t

HasSuccessor ==
  \A p \in Transfers : transfers[p].status = "Superseded" =>
    \E t \in Transfers : Successor(t, p)

\* A transfer that exists proposes an assignment.
Filled == \A t \in Transfers : transfers[t].status # "none" => transfers[t].to \in Places

Inv ==
  /\ TypeOK
  /\ Filled
  /\ AppliedOnce
  /\ RequestHolds
  /\ Reviewers
  /\ Replaced
  /\ HasSuccessor

-----------------------------------------------------------------------------
\* What any user's action on a transfer before its approval, or its
\* cancellation, does to the row.
UserRow(t) ==
  LET old == transfers[t]
      new == transfers'[t]
  IN /\ transfers' \in [Transfers -> Transfer]
     /\ \A q \in Transfers : q # t => transfers'[q] = transfers[q]
     /\ old.status \notin Final
     /\ new.status \notin AfterApproval
     /\ RowFree(t)
     /\ new.to \in Places
     /\ new.status = "Reviewed" => Apart(new.reviewer, new)
     /\ \/ new.approver = None /\ (old.approver = None \/ old.status = "none")
        \/ /\ old.status = "Approved" /\ new.status = "Cancelled"
           /\ new.approver = old.approver /\ new.requester = old.requester
           /\ new.supersedes = old.supersedes
     /\ old.status \in {"Reviewed", "Approved"} =>
          new.from = old.from /\ new.to = old.to /\ new.effective = old.effective

LEMMA UserStepRow ==
  ASSUME Inv, NEW u \in Users, NEW t \in Transfers, UserStep(u, t)
  PROVE  UserRow(t) /\ UNCHANGED <<applications, place, active, today, tx, executor>>
<1> USE TransferAssumption
<1>1. /\ transfers[t] \in Transfer
      /\ transfers \in [Transfers -> Transfer]
      /\ tx # None => tx.transfer \in Transfers /\ Status(tx.transfer, {"Reviewed", "Approved"})
      /\ transfers[t].approver # None => transfers[t].status \in Decided
      /\ transfers[t].status # "none" => transfers[t].to \in Places
  BY DEF Inv, TypeOK, RequestHolds, Request, Status, Reviewers, Filled
<1>2. CASE Create(u, t)
  <2>1. PICK to \in Places, day \in 1..LastDay,
             previous \in {p \in Transfers : Status(p, {"Approved"})} \cup {None} :
          Set(t, [status |-> IF u \in Managers THEN "Submitted" ELSE "Draft",
                  requester |-> u, reviewer |-> None, approver |-> None,
                  supersedes |-> previous, from |-> place, to |-> to,
                  effective |-> day, error |-> FALSE])
    BY <1>2 DEF Create
  <2>2. place \in Places BY DEF Inv, TypeOK
  <2>3. transfers' \in [Transfers -> Transfer]
    BY <1>1, <2>1, <2>2 DEF Set, Transfer, Statuses, Users
  <2>4. Status(t, {"none"}) BY <1>2 DEF Create
  <2> QED BY <1>1, <1>2, <2>1, <2>3, <2>4
          DEF UserRow, Set, Status, RowFree, Final, AfterApproval, Create
<1>3. CASE Edit(u, t)
  <2>1. PICK to \in Places, day \in 1..LastDay :
          Set(t, [transfers[t] EXCEPT !.status = "Draft", !.from = place,
                                      !.to = to, !.effective = day])
    BY <1>3 DEF Edit
  <2>2. place \in Places /\ day \in 0..LastDay BY DEF Inv, TypeOK
  <2> DEFINE row == [transfers[t] EXCEPT !.status = "Draft", !.from = place,
                                         !.to = to, !.effective = day]
  <2>3. transfers' \in [Transfers -> Transfer]
    <3>1. row \in Transfer BY <1>1, <2>2, Zenon DEF Transfer, Statuses
    <3> HIDE DEF row
    <3>2. transfers' = [transfers EXCEPT ![t] = row] BY <2>1 DEF Set, row
    <3> QED BY <1>1, <3>1, <3>2
  <2>4. Status(t, {"Draft", "Returned"}) /\ AdvisoryFree BY <1>3 DEF Edit
  <2>5. transfers[t].approver = None
    BY <1>1, <2>4 DEF Status, Decided, AfterApproval
  <2>6. transfers'[t].status = "Draft" /\ transfers'[t].approver = None
        /\ transfers'[t].to = to
    BY <1>1, <2>1, <2>5 DEF Set, Transfer
  <2> QED BY <1>1, <1>3, <2>1, <2>3, <2>4, <2>5, <2>6
          DEF UserRow, Set, Status, RowFree, AdvisoryFree, Final, AfterApproval, Edit
<1>4. CASE Submit(u, t)
  <2>1. Status(t, {"Draft", "Returned"}) /\ RowFree(t) BY <1>4 DEF Submit
  <2>2. transfers' \in [Transfers -> Transfer]
    BY <1>1, <1>4 DEF Submit, Move, Transfer, Statuses
  <2>3. transfers[t].approver = None
    BY <1>1, <2>1 DEF Status, Decided, AfterApproval
  <2>4. transfers'[t].status = "Submitted" /\ transfers'[t].approver = None
        /\ transfers'[t].to = transfers[t].to
    BY <1>1, <1>4, <2>3 DEF Submit, Move, Transfer
  <2> QED BY <1>1, <1>4, <2>1, <2>2, <2>3, <2>4
          DEF UserRow, Move, Status, Final, AfterApproval, Submit
<1>5. CASE Review(u, t)
  <2>1. Status(t, {"Submitted"}) /\ RowFree(t) /\ Independent(u, t) BY <1>5 DEF Review
  <2>2. transfers' \in [Transfers -> Transfer]
    BY <1>1, <1>5 DEF Review, Set, Transfer, Statuses
  <2>3. transfers[t].approver = None
    BY <1>1, <2>1 DEF Status, Decided, AfterApproval
  <2>4. /\ transfers'[t].status = "Reviewed" /\ transfers'[t].approver = None
        /\ transfers'[t].reviewer = u /\ transfers'[t].requester = transfers[t].requester
        /\ transfers'[t].to = transfers[t].to
    BY <1>1, <1>5, <2>3 DEF Review, Set, Transfer
  <2>5. u # None BY DEF Users
  <2> QED BY <1>1, <1>5, <2>1, <2>2, <2>3, <2>4, <2>5
          DEF UserRow, Set, Status, Final, AfterApproval, Review, Apart, Independent
<1>6. CASE ReturnOrReject(u, t)
  <2>1. PICK status \in {"Returned", "Rejected"} : Move(t, status)
    BY <1>6 DEF ReturnOrReject
  <2>2. Status(t, {"Submitted", "Reviewed"}) /\ RowFree(t) BY <1>6 DEF ReturnOrReject
  <2>3. transfers' \in [Transfers -> Transfer]
    BY <1>1, <2>1 DEF Move, Transfer, Statuses
  <2>4. transfers[t].approver = None
    BY <1>1, <2>2 DEF Status, Decided, AfterApproval
  <2>5. /\ transfers'[t].status = status /\ transfers'[t].approver = None
        /\ transfers'[t].from = transfers[t].from /\ transfers'[t].to = transfers[t].to
        /\ transfers'[t].effective = transfers[t].effective
    BY <1>1, <2>1, <2>4 DEF Move, Transfer
  <2> QED BY <1>1, <1>6, <2>1, <2>2, <2>3, <2>4, <2>5
          DEF UserRow, Move, Status, Final, AfterApproval, ReturnOrReject
<1>7. CASE Cancel(u, t)
  <2>1. Status(t, {"Draft", "Returned", "Submitted", "Reviewed", "Approved"}) /\ RowFree(t)
    BY <1>7 DEF Cancel
  <2>2. transfers' \in [Transfers -> Transfer]
    BY <1>1, <1>7 DEF Cancel, Move, Transfer, Statuses
  <2>3. /\ transfers'[t].status = "Cancelled"
        /\ transfers'[t].approver = transfers[t].approver
        /\ transfers'[t].requester = transfers[t].requester
        /\ transfers'[t].supersedes = transfers[t].supersedes
        /\ transfers'[t].from = transfers[t].from /\ transfers'[t].to = transfers[t].to
        /\ transfers'[t].effective = transfers[t].effective
    BY <1>1, <1>7 DEF Cancel, Move, Transfer
  <2>4. transfers[t].approver # None => transfers[t].status = "Approved"
    BY <1>1, <2>1 DEF Status, Decided, AfterApproval
  <2> QED BY <1>1, <1>7, <2>1, <2>2, <2>3, <2>4
          DEF UserRow, Move, Status, Final, AfterApproval, Cancel
<1> QED BY <1>2, <1>3, <1>4, <1>5, <1>6, <1>7 DEF UserStep

LEMMA UserStepInv ==
  ASSUME Inv, NEW u \in Users, NEW t \in Transfers, UserStep(u, t)
  PROVE  Inv'
<1> USE TransferAssumption
<1>1. UserRow(t) /\ UNCHANGED <<applications, place, active, today, tx, executor>>
  BY UserStepRow
<1>2. TypeOK' BY <1>1 DEF Inv, TypeOK, UserRow
<1>3. AppliedOnce'
  BY <1>1 DEF Inv, AppliedOnce, UserRow, Final, AfterApproval
<1>4. RequestHolds'
  <2>1. tx # None => tx.transfer \in Transfers /\ tx.transfer # t
    BY <1>1 DEF Inv, TypeOK, Request, UserRow, RowFree
  <2> QED BY <1>1, <2>1 DEF Inv, RequestHolds, UserRow, Status, Independent
<1>5. Reviewers'
  BY <1>1 DEF Inv, Reviewers, UserRow, Status, Apart, Decided, AfterApproval
<1>6. \A q, p \in Transfers : Successor(q, p)' => Successor(q, p)
  BY <1>1 DEF UserRow, Successor
<1>7. \A p \in Transfers : transfers[p].status = "Superseded" => p # t
  BY <1>1 DEF UserRow, Final
<1>8. Replaced' BY <1>1, <1>6, <1>7 DEF Inv, Replaced, UserRow
<1>9. \A q, p \in Transfers : Successor(q, p) /\ transfers[q].status # "none" => Successor(q, p)'
  BY <1>1 DEF UserRow, Successor
<1>10. \A q, p \in Transfers : Successor(q, p) => transfers[q].status # "none"
  BY DEF Inv, Reviewers, Successor, Decided, AfterApproval
<1>11. \A p \in Transfers : transfers'[p].status = "Superseded" => transfers[p].status = "Superseded"
  BY <1>1 DEF UserRow, AfterApproval
<1>12. HasSuccessor' BY <1>9, <1>10, <1>11 DEF Inv, HasSuccessor
<1>13. Filled' BY <1>1 DEF Inv, Filled, UserRow
<1> QED BY <1>2, <1>3, <1>4, <1>5, <1>8, <1>12, <1>13 DEF Inv

-----------------------------------------------------------------------------
(* Application and approval.                                               *)

\* Applying an approved row to an employee of the reviewed assignment keeps the
\* invariant, whoever applies it.
LEMMA ApplyInv ==
  ASSUME NEW rows, rows \in [Transfers -> Transfer], NEW t \in Transfers, NEW seen, NEW valid,
         TypeOK, Apply(rows, t, seen, valid)
  PROVE  /\ transfers' \in [Transfers -> Transfer]
         /\ place' = rows[t].to
         /\ applications' \in [Transfers -> Nat]
         /\ \A q \in Transfers : q # t =>
              transfers'[q] = rows[q] /\ applications'[q] = applications[q]
         /\ applications'[t] = applications[t] + 1
         /\ transfers'[t].status = "Applied"
         /\ transfers'[t].requester = rows[t].requester
         /\ transfers'[t].reviewer = rows[t].reviewer
         /\ transfers'[t].approver = rows[t].approver
         /\ transfers'[t].supersedes = rows[t].supersedes
         /\ transfers'[t].from = rows[t].from
         /\ transfers'[t].to = rows[t].to
         /\ transfers'[t].effective = rows[t].effective
         /\ seen = rows[t].from
<1>1. transfers' = [rows EXCEPT ![t] = [rows[t] EXCEPT !.status = "Applied", !.error = FALSE]]
  BY DEF Apply
<1>2. rows[t] \in Transfer OBVIOUS
<1> DEFINE row == [rows[t] EXCEPT !.status = "Applied", !.error = FALSE]
<1>3. /\ row \in Transfer /\ row.status = "Applied"
      /\ row.requester = rows[t].requester /\ row.reviewer = rows[t].reviewer
      /\ row.approver = rows[t].approver /\ row.supersedes = rows[t].supersedes
      /\ row.from = rows[t].from /\ row.to = rows[t].to
      /\ row.effective = rows[t].effective
  BY <1>2 DEF Transfer, Statuses
<1> HIDE DEF row
<1>4. transfers' = [rows EXCEPT ![t] = row] BY <1>1 DEF row
<1>5. applications' = [applications EXCEPT ![t] = applications[t] + 1] BY DEF Apply
<1>6. applications \in [Transfers -> Nat] BY DEF TypeOK
<1>7. place' = rows[t].to /\ seen = rows[t].from BY DEF Apply
<1> QED BY <1>3, <1>4, <1>5, <1>6, <1>7

\* The row an approved transfer of the rows has, and what it replaced.
LEMMA ApprovedRows ==
  ASSUME Inv, NEW t \in Transfers, Status(t, {"Reviewed"}), Independent(Owner, t),
         NEW rows \in Approved(t)
  PROVE  /\ rows \in [Transfers -> Transfer]
         /\ rows[t].status = "Approved" /\ rows[t].approver = Owner
         /\ rows[t].requester = transfers[t].requester
         /\ rows[t].reviewer = transfers[t].reviewer
         /\ rows[t].supersedes = transfers[t].supersedes
         /\ rows[t].from = transfers[t].from /\ rows[t].to = transfers[t].to
         /\ rows[t].effective = transfers[t].effective
         /\ transfers[t].supersedes # None =>
              Status(transfers[t].supersedes, {"Approved"}) /\ transfers[t].supersedes # t
         /\ \A q \in Transfers : q # t =>
              /\ q # transfers[t].supersedes => rows[q] = transfers[q]
              /\ q = transfers[t].supersedes =>
                   rows[q] = [transfers[q] EXCEPT !.status = "Superseded"]
<1> USE TransferAssumption
<1>1. transfers \in [Transfers -> Transfer] /\ transfers[t] \in Transfer
  BY DEF Inv, TypeOK
<1>2. Owner \in Users BY DEF Users
<1> DEFINE previous == transfers[t].supersedes
           row == [transfers[t] EXCEPT !.status = "Approved", !.approver = Owner]
<1>3. /\ row \in Transfer /\ row.status = "Approved" /\ row.approver = Owner
      /\ row.requester = transfers[t].requester /\ row.reviewer = transfers[t].reviewer
      /\ row.supersedes = transfers[t].supersedes
      /\ row.from = transfers[t].from /\ row.to = transfers[t].to
      /\ row.effective = transfers[t].effective
  BY <1>1, <1>2 DEF Transfer, Statuses
<1> DEFINE approved == [transfers EXCEPT ![t] = row]
<1>0. [transfers EXCEPT ![t].status = "Approved", ![t].approver = Owner] = approved
  BY <1>1
<1>4. Approved(t) = IF previous = None THEN {approved}
                    ELSE IF ~Status(previous, {"Approved"}) THEN {}
                    ELSE {[approved EXCEPT ![previous].status = "Superseded"]}
  BY <1>0, Zenon DEF Approved
<1> HIDE DEF row
<1>5. CASE previous = None
  BY <1>1, <1>3, <1>4, <1>5
<1>6. CASE previous # None
  <2>1. Status(previous, {"Approved"}) /\ previous # t
    BY <1>4, <1>6 DEF Status
  <2>2. rows = [approved EXCEPT ![previous].status = "Superseded"]
    BY <1>4, <1>6, <2>1
  <2>3. previous \in Transfers BY <1>1, <1>6 DEF Transfer
  <2>4. approved[previous] = transfers[previous] BY <1>1, <2>1, <2>3
  <2> DEFINE old == [transfers[previous] EXCEPT !.status = "Superseded"]
  <2>5. rows = [approved EXCEPT ![previous] = old] BY <2>2, <2>4
  <2>6. transfers[previous] \in Transfer BY <1>1, <2>3
  <2>7. old \in Transfer BY <2>6 DEF Transfer, Statuses
  <2>8. approved \in [Transfers -> Transfer] BY <1>1, <1>3
  <2> HIDE DEF old, approved
  <2>9. /\ rows \in [Transfers -> Transfer]
        /\ rows[previous] = old
        /\ \A q \in Transfers : q # previous => rows[q] = approved[q]
    BY <2>3, <2>5, <2>7, <2>8
  <2>10. /\ approved[t] = row
         /\ \A q \in Transfers : q # t => approved[q] = transfers[q]
    BY <1>1 DEF approved
  <2> QED BY <1>3, <2>1, <2>9, <2>10 DEF old
<1> QED BY <1>5, <1>6

\* A schedule that is applied, by its approver or by an executor.
LEMMA ApplyScheduleInv ==
  ASSUME Inv, NEW t \in Transfers, Status(t, {"Approved"}), NEW seen, NEW valid,
         Apply(transfers, t, seen, valid), UNCHANGED <<active, today>>,
         tx' \in {tx, None}, RowFree(t)', executor' \in [Executors -> Tasks]
  PROVE  Inv'
<1> USE TransferAssumption
<1>1. TypeOK /\ transfers \in [Transfers -> Transfer] BY DEF Inv, TypeOK
<1>2. /\ transfers' \in [Transfers -> Transfer]
      /\ place' = transfers[t].to
      /\ applications' \in [Transfers -> Nat]
      /\ \A q \in Transfers : q # t =>
           transfers'[q] = transfers[q] /\ applications'[q] = applications[q]
      /\ applications'[t] = applications[t] + 1
      /\ transfers'[t].status = "Applied"
      /\ transfers'[t].requester = transfers[t].requester
      /\ transfers'[t].reviewer = transfers[t].reviewer
      /\ transfers'[t].approver = transfers[t].approver
      /\ transfers'[t].supersedes = transfers[t].supersedes
      /\ transfers'[t].to = transfers[t].to
  BY <1>1, ApplyInv
<1>3. transfers[t].status = "Approved" BY DEF Status
<1>4. transfers[t].to \in Places BY <1>3 DEF Inv, Filled
<1>5. TypeOK' BY <1>1, <1>2, <1>4 DEF TypeOK
<1>6. AppliedOnce' BY <1>1, <1>2, <1>3 DEF Inv, AppliedOnce
<1>7. RequestHolds'
  <2>1. tx' # None => tx' = tx /\ tx.transfer \in Transfers /\ tx.transfer # t
    BY DEF Inv, TypeOK, Request, RowFree
  <2> QED BY <1>2, <2>1 DEF Inv, RequestHolds, Status, Independent
<1>8. Reviewers'
  BY <1>2, <1>3 DEF Inv, Reviewers, Status, Apart, Decided, AfterApproval
<1>9. \A q, p \in Transfers : Successor(q, p)' <=> Successor(q, p)
  BY <1>2 DEF Successor
<1>10. \A q \in Transfers : transfers'[q].status = "Superseded" <=> transfers[q].status = "Superseded"
  BY <1>2, <1>3
<1>11. Replaced' /\ HasSuccessor'
  BY <1>9, <1>10 DEF Inv, Replaced, HasSuccessor
<1>12. Filled' BY <1>2, <1>4 DEF Inv, Filled
<1> QED BY <1>5, <1>6, <1>7, <1>8, <1>11, <1>12 DEF Inv

\* What an approval leaves: the row approved, or applied at once, and the
\* schedule it replaces superseded.
ApprovedRow(t) ==
  LET old == transfers[t]
      new == transfers'[t]
  IN /\ transfers' \in [Transfers -> Transfer]
     /\ applications' \in [Transfers -> Nat]
     /\ \/ new.status = "Approved" /\ applications'[t] = applications[t]
        \/ new.status = "Applied" /\ applications'[t] = applications[t] + 1
     /\ new.approver = Owner
     /\ new.requester = old.requester /\ new.reviewer = old.reviewer
     /\ new.supersedes = old.supersedes
     /\ new.from = old.from /\ new.to = old.to /\ new.effective = old.effective
     /\ old.supersedes # None =>
          /\ transfers[old.supersedes].status = "Approved"
          /\ old.supersedes # t
     /\ \A q \in Transfers : q # t =>
          /\ applications'[q] = applications[q]
          /\ q # old.supersedes => transfers'[q] = transfers[q]
          /\ q = old.supersedes =>
               transfers'[q] = [transfers[q] EXCEPT !.status = "Superseded"]

LEMMA ApprovedRowInv ==
  ASSUME Inv, NEW t \in Transfers, Status(t, {"Reviewed"}), Independent(Owner, t),
         ApprovedRow(t), place' \in Places, UNCHANGED <<active, today, executor>>,
         tx' = None
  PROVE  Inv'
<1> USE TransferAssumption
<1>1. /\ TypeOK /\ transfers \in [Transfers -> Transfer]
      /\ transfers[t] \in Transfer /\ transfers[t].status = "Reviewed"
  BY DEF Inv, TypeOK, Status
<1> DEFINE previous == transfers[t].supersedes
<1>2. previous # None =>
        /\ previous \in Transfers /\ previous # t
        /\ transfers[previous] \in Transfer
        /\ transfers[previous].status = "Approved"
        /\ transfers'[previous] = [transfers[previous] EXCEPT !.status = "Superseded"]
  BY <1>1 DEF ApprovedRow, Transfer
<1>3. previous # None =>
        /\ transfers'[previous].status = "Superseded"
        /\ transfers'[previous].requester = transfers[previous].requester
        /\ transfers'[previous].reviewer = transfers[previous].reviewer
        /\ transfers'[previous].approver = transfers[previous].approver
        /\ transfers'[previous].supersedes = transfers[previous].supersedes
        /\ transfers'[previous].to = transfers[previous].to
  BY <1>2 DEF Transfer
<1>4. \A q \in Transfers : q \notin {t, previous} => transfers'[q] = transfers[q]
  BY DEF ApprovedRow
<1>5. \A q \in Transfers : q # t => applications'[q] = applications[q]
  BY DEF ApprovedRow
<1>6. /\ transfers'[t].status \in {"Approved", "Applied"} /\ transfers'[t].approver = Owner
      /\ transfers'[t].requester = transfers[t].requester
      /\ transfers'[t].reviewer = transfers[t].reviewer
      /\ transfers'[t].supersedes = previous
      /\ transfers'[t].to = transfers[t].to
  BY DEF ApprovedRow
<1>7. TypeOK' BY <1>1 DEF TypeOK, ApprovedRow
<1>8. AppliedOnce'
  <2>1. applications'[t] = IF transfers'[t].status = "Applied" THEN 1 ELSE 0
    BY <1>1 DEF Inv, AppliedOnce, ApprovedRow
  <2> QED BY <1>2, <1>3, <1>4, <1>5, <2>1 DEF Inv, AppliedOnce
<1>9. RequestHolds' BY DEF RequestHolds
<1>10. Reviewers'
  <2>1. Apart(transfers[t].reviewer, transfers[t]) /\ Apart(Owner, transfers[t])
    BY <1>1 DEF Inv, Reviewers, Status, Independent, Apart
  <2> SUFFICES ASSUME NEW q \in Transfers
               PROVE  /\ Status(q, {"Reviewed"} \cup AfterApproval)' =>
                           Apart(transfers'[q].reviewer, transfers'[q])
                      /\ Status(q, AfterApproval)' => transfers'[q].approver # None
                      /\ transfers'[q].approver # None =>
                           /\ transfers'[q].status \in Decided
                           /\ transfers'[q].approver = Owner
                           /\ Apart(Owner, transfers'[q])
    BY DEF Reviewers
  <2>2. CASE q = t
    BY <1>6, <2>1, <2>2 DEF Apart, Decided, AfterApproval
  <2>3. CASE q # t /\ q = previous
    BY <1>2, <1>3, <2>3 DEF Inv, Reviewers, Status, Apart, Decided, AfterApproval
  <2>4. CASE q \notin {t, previous}
    BY <1>4, <2>4 DEF Inv, Reviewers, Status, Apart
  <2> QED BY <2>2, <2>3, <2>4
<1>11. transfers[t].approver = None
  BY <1>1 DEF Inv, Reviewers, Decided, AfterApproval
<1>12. \A q, p \in Transfers : Successor(q, p)' <=> Successor(q, p) \/ (q = t /\ p = previous)
  BY <1>2, <1>3, <1>4, <1>6, <1>11 DEF Successor
<1>13. \A q \in Transfers :
         transfers'[q].status = "Superseded" <=> transfers[q].status = "Superseded" \/ q = previous
  BY <1>1, <1>2, <1>3, <1>4, <1>6
<1>14. \A q, p \in Transfers : p = previous => ~Successor(q, p)
  <2> SUFFICES ASSUME NEW q \in Transfers, NEW p \in Transfers, p = previous,
                      Successor(q, p)
               PROVE  FALSE
    OBVIOUS
  <2>1. transfers[p].status = "Superseded" BY DEF Inv, Replaced
  <2>2. previous # None OBVIOUS
  <2> QED BY <1>2, <2>1, <2>2
<1>15. Replaced'
  <2>1. ASSUME NEW q \in Transfers, NEW p \in Transfers, Successor(q, p)'
        PROVE  /\ transfers'[p].status = "Superseded"
               /\ \A r \in Transfers : Successor(r, p)' => r = q
    <3>1. CASE p = previous
      BY <1>12, <1>13, <1>14, <2>1, <3>1
    <3>2. CASE p # previous
      BY <1>12, <1>13, <2>1, <3>2 DEF Inv, Replaced
    <3> QED BY <3>1, <3>2
  <2> QED BY <2>1, Zenon DEF Replaced
<1>16. HasSuccessor' BY <1>12, <1>13 DEF Inv, HasSuccessor
<1>17. Filled'
  <2>1. transfers'[t].to \in Places BY <1>1, <1>6 DEF Inv, Filled
  <2> QED BY <1>2, <1>3, <1>4, <2>1 DEF Inv, Filled
<1> QED BY <1>7, <1>8, <1>9, <1>10, <1>15, <1>16, <1>17 DEF Inv

\* An approval, with its application when the transfer is due.
LEMMA FinishApproves ==
  ASSUME Inv, Finish, tx.approve
  PROVE  /\ Status(tx.transfer, {"Reviewed"}) /\ Independent(Owner, tx.transfer)
         /\ ApprovedRow(tx.transfer) /\ place' \in Places
<1> USE TransferAssumption
<1> DEFINE t == tx.transfer
<1>0. tx # None /\ t \in Transfers /\ TypeOK BY DEF Finish, Inv, TypeOK, Request
<1>1. Status(t, {"Reviewed"}) /\ Independent(Owner, t)
  BY <1>0 DEF Inv, RequestHolds
<1>2. PICK rows \in Approved(t) :
        IF Due(t) THEN Apply(rows, t, tx.seen, tx.valid)
        ELSE transfers' = rows /\ UNCHANGED <<applications, place>>
  BY <1>0 DEF Finish
<1> HIDE DEF t
<1>3. /\ rows \in [Transfers -> Transfer]
      /\ rows[t].status = "Approved" /\ rows[t].approver = Owner
      /\ rows[t].requester = transfers[t].requester
      /\ rows[t].reviewer = transfers[t].reviewer
      /\ rows[t].supersedes = transfers[t].supersedes
      /\ rows[t].from = transfers[t].from /\ rows[t].to = transfers[t].to
      /\ rows[t].effective = transfers[t].effective
      /\ transfers[t].supersedes # None =>
           Status(transfers[t].supersedes, {"Approved"}) /\ transfers[t].supersedes # t
      /\ \A q \in Transfers : q # t =>
           /\ q # transfers[t].supersedes => rows[q] = transfers[q]
           /\ q = transfers[t].supersedes =>
                rows[q] = [transfers[q] EXCEPT !.status = "Superseded"]
  BY <1>0, <1>1, ApprovedRows
<1>4. transfers[t].to \in Places BY <1>0, <1>1 DEF Inv, Filled, Status
<1>5. applications \in [Transfers -> Nat] /\ place \in Places BY <1>0 DEF TypeOK
<1>6. ApprovedRow(t) /\ place' \in Places
  <2>1. CASE Due(t)
    <3>1. Apply(rows, t, tx.seen, tx.valid) BY <1>2, <2>1
    <3>2. /\ transfers' \in [Transfers -> Transfer]
          /\ place' = rows[t].to
          /\ applications' \in [Transfers -> Nat]
          /\ \A q \in Transfers : q # t =>
               transfers'[q] = rows[q] /\ applications'[q] = applications[q]
          /\ applications'[t] = applications[t] + 1
          /\ transfers'[t].status = "Applied"
          /\ transfers'[t].requester = rows[t].requester
          /\ transfers'[t].reviewer = rows[t].reviewer
          /\ transfers'[t].approver = rows[t].approver
          /\ transfers'[t].supersedes = rows[t].supersedes
          /\ transfers'[t].from = rows[t].from
          /\ transfers'[t].to = rows[t].to
          /\ transfers'[t].effective = rows[t].effective
      BY <1>0, <1>3, <3>1, ApplyInv
    <3> QED BY <1>3, <1>4, <3>2 DEF ApprovedRow, Status
  <2>2. CASE ~Due(t)
    <3>1. transfers' = rows /\ applications' = applications /\ place' = place
      BY <1>2, <2>2
    <3> QED BY <1>3, <1>5, <3>1 DEF ApprovedRow, Status
  <2> QED BY <2>1, <2>2
<1> QED BY <1>1, <1>6 DEF t

\* The rest of the OWNER's request.
LEMMA FinishInv ==
  ASSUME Inv, Finish
  PROVE  Inv'
<1> USE TransferAssumption
<1> DEFINE t == tx.transfer
<1>1. /\ tx # None /\ tx' = None /\ UNCHANGED <<active, today, executor>>
      /\ t \in Transfers /\ tx.approve \in BOOLEAN
      /\ executor \in [Executors -> Tasks]
      /\ TypeOK
  BY DEF Finish, Inv, TypeOK, Request
<1>2. \A r \in Transfers : RowFree(r)' BY <1>1 DEF RowFree
<1>3. CASE ~tx.approve
  <2>1. Apply(transfers, t, tx.seen, tx.valid) BY <1>3 DEF Finish
  <2>2. Status(t, {"Approved"}) BY <1>1, <1>3 DEF Inv, RequestHolds
  <2>3. tx' \in {tx, None} /\ executor' \in [Executors -> Tasks] BY <1>1
  <2>4. \A r \in Transfers : \A seen, valid :
          /\ Status(r, {"Approved"}) /\ Apply(transfers, r, seen, valid)
          /\ UNCHANGED <<active, today>> /\ RowFree(r)'
          => Inv'
    BY <2>3, ApplyScheduleInv
  <2> HIDE DEF t
  <2> QED BY <1>1, <1>2, <2>1, <2>2, <2>4, Zenon
<1>4. CASE tx.approve
  BY <1>1, <1>4, FinishApproves, ApprovedRowInv
<1> QED BY <1>1, <1>3, <1>4

-----------------------------------------------------------------------------
(* The other steps.                                                        *)

\* A step that leaves the rows and their applications alone.
LEMMA RowsKeptInv ==
  ASSUME Inv, UNCHANGED <<transfers, applications>>, TypeOK', RequestHolds'
  PROVE  Inv'
BY DEF Inv, Filled, AppliedOnce, Reviewers, Replaced, HasSuccessor, Successor,
       Status, Apart

LEMMA BeginInv ==
  ASSUME Inv, NEW t \in Transfers, NEW approve \in BOOLEAN, Begin(t, approve)
  PROVE  Inv'
<1>1. /\ UNCHANGED <<transfers, applications, place, active, today, executor>>
      /\ tx' = [transfer |-> t, approve |-> approve, seen |-> place, valid |-> Valid]
  BY DEF Begin
<1>2. TypeOK' BY <1>1 DEF Inv, TypeOK, Request, Valid
<1>3. RequestHolds' BY <1>1 DEF RequestHolds, Begin, Status, Independent
<1> QED BY <1>1, <1>2, <1>3, RowsKeptInv

LEMMA RollbackInv ==
  ASSUME Inv, Rollback
  PROVE  Inv'
<1>1. UNCHANGED <<transfers, applications>> /\ TypeOK' /\ RequestHolds'
  BY DEF Rollback, Inv, TypeOK, RequestHolds
<1> QED BY <1>1, RowsKeptInv

LEMMA OutsideInv ==
  ASSUME Inv, EditEmployee \/ SetAccountStatus \/ NextDay
  PROVE  Inv'
<1>1. UNCHANGED <<transfers, applications, tx, executor>>
  BY DEF EditEmployee, SetAccountStatus, NextDay
<1>2. TypeOK'
  <2>1. place' \in Places BY DEF EditEmployee, SetAccountStatus, NextDay, Inv, TypeOK
  <2>2. active' \in BOOLEAN BY DEF EditEmployee, SetAccountStatus, NextDay, Inv, TypeOK
  <2>3. today' \in 1..LastDay
    BY TransferAssumption DEF EditEmployee, SetAccountStatus, NextDay, Inv, TypeOK
  <2> QED BY <1>1, <2>1, <2>2, <2>3 DEF Inv, TypeOK
<1>3. RequestHolds' BY <1>1 DEF Inv, RequestHolds, Status, Independent
<1> QED BY <1>1, <1>2, <1>3, RowsKeptInv

LEMMA TaskInv ==
  ASSUME Inv, NEW x \in Executors, Scan(x) \/ Sleep(x) \/ Stop(x) \/ Restart(x)
  PROVE  Inv'
<1>1. UNCHANGED <<transfers, applications, place, active, today, tx>>
  BY DEF Scan, Sleep, Stop, Restart
<1>2. executor \in [Executors -> Tasks] BY DEF Inv, TypeOK
<1>3. executor' \in [Executors -> Tasks]
  <2>1. CASE Scan(x) BY <1>2, <2>1 DEF Scan, Tasks
  <2>2. CASE Sleep(x) BY <1>2, <2>2 DEF Sleep, Tasks
  <2>3. CASE Stop(x) BY <1>2, <2>3 DEF Stop, Tasks
  <2>4. CASE Restart(x) BY <1>2, <2>4 DEF Restart, Tasks
  <2> QED BY <2>1, <2>2, <2>3, <2>4
<1>4. TypeOK' BY <1>1, <1>3 DEF Inv, TypeOK
<1>5. RequestHolds' BY <1>1 DEF Inv, RequestHolds, Status, Independent
<1> QED BY <1>1, <1>4, <1>5, RowsKeptInv

LEMMA TakeInv ==
  ASSUME Inv, NEW x \in Executors, NEW t \in Transfers, Take(x, t)
  PROVE  Inv'
<1>1. /\ UNCHANGED <<active, today, tx>> /\ RowFree(t)'
      /\ executor \in [Executors -> Tasks] /\ tx = None
  BY DEF Take, AdvisoryFree, RowFree, Inv, TypeOK
<1>2. executor' \in [Executors -> Tasks]
  <2>1. \/ executor' = [executor EXCEPT ![x].due = @ \ {t}]
        \/ executor' = [executor EXCEPT ![x].at = "recording", ![x].failed = t,
                                         ![x].due = @ \ {t}]
    BY DEF Take
  <2> USE DEF Tasks
  <2>2. CASE executor' = [executor EXCEPT ![x].due = @ \ {t}]
    <3>1. [executor[x] EXCEPT !.due = @ \ {t}] \in Tasks BY <1>1
    <3> QED BY <1>1, <2>2, <3>1
  <2>3. CASE executor' = [executor EXCEPT ![x].at = "recording", ![x].failed = t,
                                          ![x].due = @ \ {t}]
    <3>1. [executor[x] EXCEPT !.at = "recording", !.failed = t, !.due = @ \ {t}] \in Tasks
      BY <1>1
    <3> QED BY <1>1, <2>3, <3>1
  <2> QED BY <2>1, <2>2, <2>3
<1>3. CASE Status(t, {"Approved"}) /\ Apply(transfers, t, place, Valid)
  BY <1>1, <1>2, <1>3, ApplyScheduleInv
<1>4. CASE UNCHANGED <<transfers, applications, place>>
  <2>1. TypeOK' BY <1>1, <1>2, <1>4 DEF Inv, TypeOK
  <2>2. RequestHolds' BY <1>1 DEF RequestHolds
  <2> QED BY <1>4, <2>1, <2>2, RowsKeptInv
<1> QED BY <1>3, <1>4 DEF Take

LEMMA RecordErrorInv ==
  ASSUME Inv, NEW x \in Executors, RecordError(x)
  PROVE  Inv'
<1>1. /\ UNCHANGED <<applications, place, active, today, tx>> /\ tx = None
      /\ executor \in [Executors -> Tasks]
      /\ transfers \in [Transfers -> Transfer]
      /\ executor' = [executor EXCEPT ![x].at = "scanned", ![x].failed = None]
  BY DEF RecordError, AdvisoryFree, Inv, TypeOK
<1>2. executor' \in [Executors -> Tasks] BY <1>1 DEF Tasks
<1>3. RequestHolds' BY <1>1 DEF RequestHolds
<1> DEFINE t == executor[x].failed
<1>4. CASE UNCHANGED transfers
  <2>1. TypeOK' BY <1>1, <1>2, <1>4 DEF Inv, TypeOK
  <2> QED BY <1>1, <1>3, <1>4, <2>1, RowsKeptInv
<1>5. CASE transfers' = [transfers EXCEPT ![t].error = TRUE]
  <2> DEFINE row == [transfers[t] EXCEPT !.error = TRUE]
  <2>a. t \in Transfers =>
          /\ row \in Transfer
          /\ row.status = transfers[t].status /\ row.requester = transfers[t].requester
          /\ row.reviewer = transfers[t].reviewer /\ row.approver = transfers[t].approver
          /\ row.supersedes = transfers[t].supersedes /\ row.to = transfers[t].to
    BY <1>1 DEF Transfer
  <2>b. \A q \in Transfers : transfers'[q] = IF q = t THEN row ELSE transfers[q]
    BY <1>1, <1>5
  <2>c. transfers' = [q \in Transfers |-> IF q = t THEN row ELSE transfers[q]]
    BY <1>1, <1>5
  <2> HIDE DEF t, row
  <2>1. /\ transfers' \in [Transfers -> Transfer]
        /\ \A q \in Transfers :
             /\ transfers'[q].status = transfers[q].status
             /\ transfers'[q].requester = transfers[q].requester
             /\ transfers'[q].reviewer = transfers[q].reviewer
             /\ transfers'[q].approver = transfers[q].approver
             /\ transfers'[q].supersedes = transfers[q].supersedes
             /\ transfers'[q].to = transfers[q].to
    <3>1. transfers' \in [Transfers -> Transfer] BY <1>1, <2>a, <2>c
    <3> QED BY <2>a, <2>b, <3>1
  <2>2. TypeOK' BY <1>1, <1>2, <2>1 DEF Inv, TypeOK
  <2>3. AppliedOnce' /\ Filled' BY <1>1, <2>1 DEF Inv, AppliedOnce, Filled
  <2>4. Reviewers' BY <2>1 DEF Inv, Reviewers, Status, Apart
  <2>5. \A q, p \in Transfers : Successor(q, p)' <=> Successor(q, p)
    BY <2>1 DEF Successor
  <2>6. Replaced' /\ HasSuccessor' BY <2>1, <2>5 DEF Inv, Replaced, HasSuccessor
  <2> QED BY <1>3, <2>2, <2>3, <2>4, <2>6 DEF Inv
<1> QED BY <1>4, <1>5 DEF RecordError

-----------------------------------------------------------------------------
LEMMA InitInv ==
  ASSUME Init
  PROVE  Inv
<1> USE TransferAssumption
<1>1. TypeOK BY DEF Init, TypeOK, Transfer, Statuses, Tasks
<1>2. Filled /\ AppliedOnce BY DEF Init, Filled, AppliedOnce
<1>3. RequestHolds /\ Reviewers
  BY DEF Init, RequestHolds, Reviewers, Status, AfterApproval
<1>4. Replaced /\ HasSuccessor BY DEF Init, Replaced, HasSuccessor, Successor
<1> QED BY <1>1, <1>2, <1>3, <1>4 DEF Inv

LEMMA NextInv ==
  ASSUME Inv, [Next]_vars
  PROVE  Inv'
<1>1. CASE \E u \in Users, t \in Transfers : UserStep(u, t)
  BY <1>1, UserStepInv
<1>2. CASE \E t \in Transfers, approve \in BOOLEAN : Begin(t, approve)
  BY <1>2, BeginInv
<1>3. CASE Finish BY <1>3, FinishInv
<1>4. CASE Rollback BY <1>4, RollbackInv
<1>5. CASE \E x \in Executors : ExecutorStep(x) \/ Stop(x) \/ Restart(x)
  BY <1>5, TaskInv, TakeInv, RecordErrorInv DEF ExecutorStep
<1>6. CASE EditEmployee \/ SetAccountStatus \/ NextDay BY <1>6, OutsideInv
<1>7. CASE UNCHANGED vars
  <2>1. TypeOK' BY <1>7 DEF vars, Inv, TypeOK
  <2>2. RequestHolds' BY <1>7 DEF vars, Inv, RequestHolds, Status, Independent
  <2> QED BY <1>7, <2>1, <2>2, RowsKeptInv DEF vars
<1> QED BY <1>1, <1>2, <1>3, <1>4, <1>5, <1>6, <1>7 DEF Next

-----------------------------------------------------------------------------
(* The theorems.                                                           *)

\* The invariant holds of every transfer, user and executor.
THEOREM Invariance == Spec => []Inv
BY InitInv, NextInv, PTL DEF Spec

\* Every row is well formed, whatever the actions on it.
THEOREM TypeCorrect == Spec => []TypeOK
<1>1. Inv => TypeOK BY DEF Inv
<1> QED BY <1>1, Invariance, PTL

\* No executor and no OWNER request applies a transfer that another applied
\* (_apply, apply_due_transfers).
THEOREM AppliedAtMostOnce == Spec => []AppliedOnce
<1>1. Inv => AppliedOnce BY DEF Inv
<1> QED BY <1>1, Invariance, PTL

\* Nobody approves what he asked for, or what moves himself (action_transfer).
THEOREM IndependentlyApprovedHolds == Spec => []IndependentlyApproved
<1>1. Inv => IndependentlyApproved
  BY TransferAssumption
     DEF Inv, Reviewers, IndependentlyApproved, Status, Apart, AfterApproval
<1> QED BY <1>1, Invariance, PTL

\* A transfer takes effect as it was approved (action_transfer, _apply).
THEOREM AppliedAsApprovedHolds == Spec => []AppliedAsApproved
BY AppliedAtMostOnce, IndependentlyApprovedHolds, PTL DEF AppliedAsApproved

\* A superseded schedule has exactly one successor and never took effect
\* (action_transfer).
THEOREM SupersededBySuccessorHolds == Spec => []SupersededBySuccessor
<1>1. Inv => SupersededBySuccessor
  BY DEF Inv, AppliedOnce, Replaced, HasSuccessor, SupersededBySuccessor
<1> QED BY <1>1, Invariance, PTL

-----------------------------------------------------------------------------
(* The action properties.                                                  *)

\* What the applying request leaves of the rows.
LEMMA AppliedRows ==
  ASSUME Inv, NEW t \in Transfers, NEW seen, NEW valid, Status(t, {"Approved"}),
         Apply(transfers, t, seen, valid)
  PROVE  /\ \A q \in Transfers :
              /\ q # t => transfers'[q] = transfers[q]
              /\ <<transfers'[q].from, transfers'[q].to, transfers'[q].effective>> =
                 <<transfers[q].from, transfers[q].to, transfers[q].effective>>
              /\ Status(q, Final) => q # t
         /\ transfers[t].from = seen
<1>1. TypeOK /\ transfers \in [Transfers -> Transfer] BY DEF Inv, TypeOK
<1>2. /\ \A q \in Transfers : q # t => transfers'[q] = transfers[q]
      /\ transfers'[t].from = transfers[t].from
      /\ transfers'[t].to = transfers[t].to
      /\ transfers'[t].effective = transfers[t].effective
      /\ seen = transfers[t].from
  BY <1>1, ApplyInv
<1> QED BY <1>2 DEF Status, Final

\* RecordError changes no more than the error of a schedule.
LEMMA RecordedRows ==
  ASSUME Inv, NEW x \in Executors, RecordError(x), NEW q \in Transfers
  PROVE  /\ transfers'[q].status = transfers[q].status
         /\ transfers'[q].from = transfers[q].from
         /\ transfers'[q].to = transfers[q].to
         /\ transfers'[q].effective = transfers[q].effective
<1>1. transfers \in [Transfers -> Transfer] BY DEF Inv, TypeOK
<1>2. CASE UNCHANGED transfers BY <1>2
<1>3. CASE transfers' = [transfers EXCEPT ![executor[x].failed].error = TRUE]
  BY <1>1, <1>3 DEF Transfer
<1> QED BY <1>2, <1>3 DEF RecordError

\* From its review on the content of a transfer is what was reviewed, and its
\* outcome is final (edit_transfer, action_transfer).
THEOREM ReviewedContentIsKept == Spec => ReviewedContentKept
<1> DEFINE Kept(t) ==
      /\ Status(t, {"Reviewed", "Approved"} \cup Final) =>
           <<transfers'[t].from, transfers'[t].to, transfers'[t].effective>> =
           <<transfers[t].from, transfers[t].to, transfers[t].effective>>
      /\ Status(t, Final) => transfers'[t].status = transfers[t].status
<1>1. ASSUME Inv, Next, NEW t \in Transfers
      PROVE  Kept(t)
  <2>1. ASSUME NEW u \in Users, NEW q \in Transfers, UserStep(u, q)
        PROVE  Kept(t)
    <3>1. UserRow(q) BY <1>1, <2>1, UserStepRow
    <3> QED BY <3>1 DEF UserRow, Status, Final
  <2>2. CASE Finish /\ tx.approve
    <3> DEFINE q == tx.transfer
    <3>1. ApprovedRow(q) /\ Status(q, {"Reviewed"})
      BY <1>1, <2>2, FinishApproves
    <3>2. /\ q \in Transfers /\ transfers[t] \in Transfer
          /\ transfers[q].supersedes # None =>
               transfers[transfers[q].supersedes].status = "Approved"
      BY <1>1, <2>2, <3>1 DEF Inv, TypeOK, Request, Finish, ApprovedRow
    <3> HIDE DEF q
    <3>3. CASE t = q BY <3>1, <3>3 DEF ApprovedRow, Status, Final
    <3>4. CASE t # q /\ t # transfers[q].supersedes
      BY <3>1, <3>4 DEF ApprovedRow
    <3>5. CASE t # q /\ t = transfers[q].supersedes
      <4>1. transfers'[t] = [transfers[t] EXCEPT !.status = "Superseded"]
        BY <3>1, <3>5 DEF ApprovedRow
      <4>2. t # None BY TransferAssumption
      <4> QED BY <3>2, <3>5, <4>1, <4>2 DEF Transfer, Status, Final
    <3> QED BY <3>3, <3>4, <3>5
  <2>3. CASE Finish /\ ~tx.approve
    <3> DEFINE q == tx.transfer
    <3>1. q \in Transfers /\ Status(q, {"Approved"}) /\ Apply(transfers, q, tx.seen, tx.valid)
      BY <1>1, <2>3 DEF Inv, TypeOK, Request, RequestHolds, Finish
    <3> HIDE DEF q
    <3> QED BY <1>1, <3>1, AppliedRows
  <2>4. ASSUME NEW x \in Executors, NEW q \in Transfers, Take(x, q)
        PROVE  Kept(t)
    <3>1. CASE Status(q, {"Approved"}) /\ Apply(transfers, q, place, Valid)
      BY <1>1, <3>1, AppliedRows
    <3>2. CASE UNCHANGED transfers BY <3>2
    <3> QED BY <2>4, <3>1, <3>2 DEF Take
  <2>5. ASSUME NEW x \in Executors, RecordError(x)
        PROVE  Kept(t)
    BY <1>1, <2>5, RecordedRows
  <2>6. UNCHANGED transfers => Kept(t) OBVIOUS
  <2> HIDE DEF Kept
  <2> QED BY <1>1, <2>1, <2>2, <2>3, <2>4, <2>5, <2>6
          DEF Next, ExecutorStep, Begin, Rollback, Scan, Sleep, Stop, Restart,
              EditEmployee, SetAccountStatus, NextDay
<1>2. Inv /\ [Next]_vars => [\A t \in Transfers : Kept(t)]_vars BY <1>1
<1> QED BY <1>2, Invariance, PTL DEF Spec, ReviewedContentKept

\* No executor overwrites an assignment it did not find as reviewed
\* (apply_due_transfers).
THEOREM ExecutorKeepsInterveningHolds == Spec => ExecutorKeepsIntervening
<1> DEFINE Kept(t) ==
      transfers'[t].status = "Applied" /\ transfers[t].status # "Applied" =>
        place = transfers[t].from
<1>1. ASSUME Inv, Next, tx' = tx, NEW t \in Transfers
      PROVE  Kept(t)
  <2>1. ASSUME NEW u \in Users, NEW q \in Transfers, UserStep(u, q)
        PROVE  Kept(t)
    <3>1. UserRow(q) BY <1>1, <2>1, UserStepRow
    <3> QED BY <3>1 DEF UserRow, AfterApproval
  <2>2. ~Finish BY <1>1 DEF Finish
  <2>3. ASSUME NEW x \in Executors, NEW q \in Transfers, Take(x, q)
        PROVE  Kept(t)
    <3>1. CASE Status(q, {"Approved"}) /\ Apply(transfers, q, place, Valid)
      BY <1>1, <3>1, AppliedRows
    <3>2. CASE UNCHANGED transfers BY <3>2
    <3> QED BY <2>3, <3>1, <3>2 DEF Take
  <2>4. ASSUME NEW x \in Executors, RecordError(x)
        PROVE  Kept(t)
    BY <1>1, <2>4, RecordedRows
  <2>5. UNCHANGED transfers => Kept(t) OBVIOUS
  <2> HIDE DEF Kept
  <2> QED BY <1>1, <2>1, <2>2, <2>3, <2>4, <2>5
          DEF Next, ExecutorStep, Begin, Rollback, Scan, Sleep, Stop, Restart,
              EditEmployee, SetAccountStatus, NextDay
<1>2. Inv /\ [Next]_vars => [tx' = tx => \A t \in Transfers : Kept(t)]_vars BY <1>1
<1> QED BY <1>2, Invariance, PTL DEF Spec, ExecutorKeepsIntervening
=============================================================================
