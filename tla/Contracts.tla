------------------------------ MODULE Contracts -------------------------------
(***************************************************************************)
(* The employment contracts of one employee (contracts/service.py).          *)
(*                                                                           *)
(* Concurrency.  Every handler locks the contract it changes and is one      *)
(* step, but for an activation: it looks for the contract in force with a    *)
(* SELECT ... FOR UPDATE that waits when the row is held and then reads it   *)
(* again, and writes both rows under a partial unique index.  reading[c] is  *)
(* the page an OWNER has in front of him, and consent[c] the one he acted    *)
(* on; the program knows only the lock_version he sends.                     *)
(***************************************************************************)
EXTENDS Naturals

CONSTANTS
  Contracts,
  FirstContract,     \* the one the register holds at the start
  Authors,           \* users who may prepare contracts
  Signers,           \* OWNERs with Contracts.Approve
  Holder,            \* the employee
  MaxContractVersion,
  NoContract

ASSUME ContractsAssumption ==
  /\ FirstContract \in Contracts /\ NoContract \notin Contracts \cup Signers
  /\ MaxContractVersion \in Nat

VARIABLES
  contract,      \* contract[c]: status
  lockVersion,
  edition,       \* edition[c]: counts the changes of its terms and of its evidence
  attached,      \* the contracts with an active attachment
  author,        \* created_by_id
  activation,    \* activation[c]: how far a transaction that activates c has come
  previous,      \* previous[c]: the contract in force it has found
  reading, consent

contractsVars == <<contract, lockVersion, edition, attached, author, activation, previous, reading, consent>>

ContractStatuses == {"absent", "Draft", "PendingApproval", "Active", "Superseded", "Cancelled"}
Page == [by: Signers, version: Nat, edition: Nat]
NoPage == [by |-> NoContract, version |-> 0, edition |-> 0]

ContractsTypeOK ==
  /\ contract \in [Contracts -> ContractStatuses]
  /\ lockVersion \in [Contracts -> Nat] /\ edition \in [Contracts -> Nat]
  /\ attached \subseteq Contracts
  /\ author \in [Contracts -> Authors]
  /\ activation \in [Contracts -> {"none", "found", "held"}]
  /\ previous \in [Contracts -> Contracts \cup {NoContract}]
  /\ reading \in [Contracts -> Page \cup {NoPage}] /\ consent \in [Contracts -> Page \cup {NoPage}]

\* The employee works under the first contract, activated by somebody who did
\* not prepare it, or has none yet.
ContractsInit ==
  \E a \in Authors, s \in Signers, first \in {"Active", "Cancelled"} :
    /\ s \notin {a, Holder}
    /\ contract = [c \in Contracts |-> IF c = FirstContract THEN first ELSE "absent"]
    /\ lockVersion = [c \in Contracts |-> 0] /\ edition = [c \in Contracts |-> 0]
    /\ attached = {FirstContract} /\ author = [c \in Contracts |-> a]
    /\ activation = [c \in Contracts |-> "none"] /\ previous = [c \in Contracts |-> NoContract]
    /\ reading = [c \in Contracts |-> NoPage]
    /\ consent = [c \in Contracts |->
         IF c = FirstContract THEN [by |-> s, version |-> 0, edition |-> 0] ELSE NoPage]

-----------------------------------------------------------------------------
InForce == {c \in Contracts : contract[c] = "Active"}
Holds(x, c) == (x = c /\ activation[x] # "none") \/ (previous[x] = c /\ activation[x] = "held")
Unheld(c) == \A x \in Contracts : ~Holds(x, c)
Bounded(c) == lockVersion[c] < MaxContractVersion

\* _event, the UPDATE of the row and its version_id_col.
Becomes(c, s) ==
  /\ contract' = [contract EXCEPT ![c] = s]
  /\ lockVersion' = [lockVersion EXCEPT ![c] = @ + 1]

\* create_contract: a first contract or a renewal.
CreateContract(c, a) ==
  /\ contract[c] = "absent"
  /\ Becomes(c, "Draft")
  /\ edition' = [edition EXCEPT ![c] = 1] /\ author' = [author EXCEPT ![c] = a]
  /\ UNCHANGED <<attached, activation, previous, reading, consent>>

\* update_contract
UpdateContract(c) ==
  /\ contract[c] = "Draft" /\ Unheld(c) /\ Bounded(c)
  /\ Becomes(c, "Draft")
  /\ edition' = [edition EXCEPT ![c] = @ + 1]
  /\ UNCHANGED <<attached, author, activation, previous, reading, consent>>

\* Mutant: the new evidence leaves the version as it is.
UploadUnversioned(c) ==
  /\ contract[c] \in {"Draft", "PendingApproval"} /\ Unheld(c) /\ Bounded(c)
  /\ edition' = [edition EXCEPT ![c] = @ + 1] /\ attached' = attached \cup {c}
  /\ UNCHANGED <<contract, lockVersion, author, activation, previous, reading, consent>>

\* upload_attachment: the new file replaces the active one, "The reviewed
\* revision covers evidence as well as scalar contract fields."
UploadAttachment(c) ==
  /\ contract[c] \in {"Draft", "PendingApproval"} /\ Unheld(c) /\ Bounded(c)
  /\ Becomes(c, contract[c])
  /\ edition' = [edition EXCEPT ![c] = @ + 1] /\ attached' = attached \cup {c}
  /\ UNCHANGED <<author, activation, previous, reading, consent>>

\* submit_contract
SubmitContract(c) ==
  /\ contract[c] = "Draft" /\ Unheld(c) /\ Bounded(c)
  /\ Becomes(c, "PendingApproval")
  /\ UNCHANGED <<edition, attached, author, activation, previous, reading, consent>>

\* decide_contract: returned or rejected.
DecideContract(c, to) ==
  /\ contract[c] = "PendingApproval" /\ Unheld(c) /\ Bounded(c)
  /\ Becomes(c, to)
  /\ UNCHANGED <<edition, attached, author, activation, previous, reading, consent>>

\* cancel_contract
CancelContract(c) ==
  /\ contract[c] \in {"Draft", "PendingApproval"} /\ Unheld(c) /\ Bounded(c)
  /\ Becomes(c, "Cancelled")
  /\ UNCHANGED <<edition, attached, author, activation, previous, reading, consent>>

\* get_contract: no lock is taken.
ReadContract(c, s) ==
  /\ contract[c] = "PendingApproval"
  /\ reading' = [reading EXCEPT ![c] =
       [by |-> s, version |-> lockVersion[c], edition |-> edition[c]]]
  /\ UNCHANGED <<contract, lockVersion, edition, attached, author, activation, previous, consent>>

-----------------------------------------------------------------------------
\* activate_contract, up to the snapshot in which it looks for the one in force.
BeginActivation(c) ==
  LET page == reading[c] IN
  /\ contract[c] = "PendingApproval" /\ Unheld(c) /\ Bounded(c)
  /\ page # NoPage /\ page.by \notin {Holder, author[c]}
  /\ page.version = lockVersion[c] /\ c \in attached
  /\ activation' = [activation EXCEPT ![c] = "found"]
  /\ consent' = [consent EXCEPT ![c] = page]
  /\ \/ \E p \in InForce : previous' = [previous EXCEPT ![c] = p]
     \/ InForce = {} /\ previous' = [previous EXCEPT ![c] = NoContract]
  /\ UNCHANGED <<contract, lockVersion, edition, attached, author, reading>>

\* Its lock is granted, on the row as it is by then.
LockPrevious(c) ==
  LET p == previous[c] IN
  /\ activation[c] = "found" /\ (p # NoContract => Unheld(p))
  /\ activation' = [activation EXCEPT ![c] = "held"]
  /\ previous' = [previous EXCEPT ![c] = IF p \in InForce THEN p ELSE NoContract]
  /\ UNCHANGED <<contract, lockVersion, edition, attached, author, reading, consent>>

\* The previous contract is superseded, then this one activated, in one
\* transaction, and no third one may be in force (the partial unique index).
Activated(c) ==
  /\ contract' = [x \in Contracts |->
       IF x = c THEN "Active" ELSE IF x = previous[c] THEN "Superseded" ELSE contract[x]]
  /\ lockVersion' = [x \in Contracts |->
       IF x \in {c, previous[c]} THEN lockVersion[x] + 1 ELSE lockVersion[x]]
  /\ activation' = [activation EXCEPT ![c] = "none"]
  /\ previous' = [previous EXCEPT ![c] = NoContract]
  /\ UNCHANGED <<edition, attached, author, reading, consent>>

CommitActivation(c) ==
  /\ activation[c] = "held" /\ InForce \subseteq {previous[c]}
  /\ Activated(c)

\* CONTRACT_CONFLICT of the index, or the request is lost.
RollBackActivation(c) ==
  /\ activation[c] # "none"
  /\ activation' = [activation EXCEPT ![c] = "none"]
  /\ previous' = [previous EXCEPT ![c] = NoContract]
  /\ consent' = [consent EXCEPT ![c] = NoPage]
  /\ UNCHANGED <<contract, lockVersion, edition, attached, author, reading>>

ContractsNext ==
  \E c \in Contracts :
    \/ \E a \in Authors : CreateContract(c, a)
    \/ UpdateContract(c) \/ UploadAttachment(c) \/ SubmitContract(c) \/ CancelContract(c)
    \/ \E to \in {"Draft", "Cancelled"} : DecideContract(c, to)
    \/ \E s \in Signers : ReadContract(c, s)
    \/ BeginActivation(c) \/ LockPrevious(c) \/ CommitActivation(c) \/ RollBackActivation(c)

ContractsSpec == ContractsInit /\ [][ContractsNext]_contractsVars

-----------------------------------------------------------------------------
\* An employee who has ever had a contract in force has exactly one, and every
\* contract that is or was in force is, in its terms and its evidence, what an
\* OWNER who neither holds nor prepared it had read when he activated it
\* (activate_contract, docs/contracts.md "neither the employee nor the creator
\* may approve it", "atomically supersedes the previous active record").
ContractInForce ==
  /\ \A c, d \in InForce : c = d
  /\ (\E c \in Contracts : contract[c] = "Superseded") => InForce # {}
  /\ \A c \in Contracts : contract[c] \in {"Active", "Superseded"} =>
       /\ consent[c] # NoPage /\ consent[c].edition = edition[c]
       /\ consent[c].by \notin {Holder, author[c]}
=============================================================================
