--------------------------- MODULE ClawbackLedger ---------------------------
(***************************************************************************)
(* What the clawback of one case earning promises: requests are submitted    *)
(* one at a time, for no more than is left of the earning; each is decided   *)
(* once; and approving a pending one takes its amount out of the earning.    *)
(***************************************************************************)
EXTENDS Naturals

CONSTANTS
  Requests,   \* identities of clawback requests
  Amount,     \* the earning's amount
  FullOnly    \* card points are reversed whole or not at all

VARIABLES
  requests,   \* requests[r]: status ("none" before it exists) and amount
  left        \* what is left of the earning

ledger == <<requests, left>>

Request == [status: {"none", "pending", "approved", "rejected"}, amount: 0..Amount]

Pending == {r \in Requests : requests[r].status = "pending"}

Init ==
  /\ requests = [r \in Requests |-> [status |-> "none", amount |-> 0]]
  /\ left = Amount

Submit(r) ==
  /\ requests[r].status = "none"
  /\ Pending = {}
  /\ \E amount \in 1..left :
       /\ FullOnly => amount = Amount
       /\ requests' = [requests EXCEPT ![r] = [status |-> "pending", amount |-> amount]]
  /\ UNCHANGED left

Approve(r) ==
  /\ requests[r].status = "pending"
  /\ requests' = [requests EXCEPT ![r].status = "approved"]
  /\ left' = left - requests[r].amount

Reject(r) ==
  /\ requests[r].status = "pending"
  /\ requests' = [requests EXCEPT ![r].status = "rejected"]
  /\ UNCHANGED left

Next == \E r \in Requests : Submit(r) \/ Approve(r) \/ Reject(r)

Spec == Init /\ [][Next]_ledger
=============================================================================
