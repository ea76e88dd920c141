--------------------------- MODULE RecordsProofs ----------------------------
(***************************************************************************)
(* Safety of the records of an employee, of notifications and of reports,  *)
(* for every value of the constants: Contracts, EmployeeDocuments,         *)
(* Notifications, Reporting.                                               *)
(***************************************************************************)
EXTENDS Contracts, EmployeeDocuments, Notifications, Reporting, FiniteSetTheorems,
        SequenceTheorems, WellFoundedInduction, TLAPS

-----------------------------------------------------------------------------
(***************************************************************************)
(* Contracts, for any number of contracts, signers and editions.           *)
(***************************************************************************)

\* What an OWNER reads is the row at the version he sends: as long as the version
\* stands, so do the terms and the evidence.
PagesTrue ==
  \A c \in Contracts : reading[c] # NoPage =>
    /\ reading[c].version <= lockVersion[c]
    /\ reading[c].version = lockVersion[c] => reading[c].edition = edition[c]

\* What an OWNER who may do so has consented to is the contract as it stands.
Consented(c) ==
  /\ consent[c] # NoPage /\ consent[c].edition = edition[c]
  /\ consent[c].by \notin {Holder, author[c]}

\* The locks of an activation: its contract is pending, and the one it found
\* and locked is in force until the activation ends, and is held by no other.
ActivationsHold ==
  \A c \in Contracts :
    /\ activation[c] # "none" => contract[c] = "PendingApproval" /\ Consented(c)
    /\ activation[c] = "held" /\ previous[c] # NoContract =>
         /\ contract[previous[c]] = "Active"
         /\ \A d \in Contracts :
              activation[d] = "held" /\ previous[d] = previous[c] => d = c

OneInForce ==
  /\ \A c, d \in InForce : c = d
  /\ (\E c \in Contracts : contract[c] = "Superseded") => InForce # {}
InForceConsented ==
  \A c \in Contracts : contract[c] \in {"Active", "Superseded"} => Consented(c)

ContractsInv ==
  ContractsTypeOK /\ PagesTrue /\ ActivationsHold /\ OneInForce /\ InForceConsented

-----------------------------------------------------------------------------
LEMMA ContractsInitInv == ContractsInit => ContractsInv
<1> SUFFICES ASSUME ContractsInit PROVE ContractsInv
  OBVIOUS
<1> USE ContractsAssumption
<1>1. PICK a \in Authors, s \in Signers, first \in {"Active", "Cancelled"} :
        /\ s \notin {a, Holder}
        /\ contract = [c \in Contracts |-> IF c = FirstContract THEN first ELSE "absent"]
        /\ lockVersion = [c \in Contracts |-> 0] /\ edition = [c \in Contracts |-> 0]
        /\ attached = {FirstContract} /\ author = [c \in Contracts |-> a]
        /\ activation = [c \in Contracts |-> "none"]
        /\ previous = [c \in Contracts |-> NoContract]
        /\ reading = [c \in Contracts |-> NoPage]
        /\ consent = [c \in Contracts |->
             IF c = FirstContract THEN [by |-> s, version |-> 0, edition |-> 0] ELSE NoPage]
  BY DEF ContractsInit
<1>2. /\ [by |-> s, version |-> 0, edition |-> 0] \in Page
      /\ [by |-> s, version |-> 0, edition |-> 0] # NoPage
  BY DEF Page, NoPage
<1>3. \A c \in Contracts : contract[c] \in {first, "absent"} BY <1>1
<1>4. ContractsTypeOK
  <2>1. contract \in [Contracts -> ContractStatuses] BY <1>1, <1>3 DEF ContractStatuses
  <2> QED BY <1>1, <1>2, <2>1 DEF ContractsTypeOK
<1>5. PagesTrue /\ ActivationsHold BY <1>1 DEF PagesTrue, ActivationsHold
<1>6. OneInForce BY <1>1 DEF OneInForce, InForce
<1>7. InForceConsented BY <1>1, <1>2 DEF InForceConsented, Consented
<1> QED BY <1>4, <1>5, <1>6, <1>7 DEF ContractsInv

\* A change of one contract that is neither held nor in force.
LEMMA RowChanged ==
  ASSUME ContractsInv, NEW c \in Contracts, NEW s \in {"Draft", "PendingApproval", "Cancelled"},
         NEW n \in Nat, NEW a \in Authors,
         contract[c] \in {"absent", "Draft", "PendingApproval"}, activation[c] = "none",
         Becomes(c, s),
         edition' = [edition EXCEPT ![c] = n] \/ edition' = edition,
         author' = [author EXCEPT ![c] = a] \/ author' = author,
         attached' \subseteq Contracts,
         UNCHANGED <<activation, previous, reading, consent>>
  PROVE  ContractsInv'
<1>0. ContractsTypeOK /\ PagesTrue /\ ActivationsHold /\ OneInForce /\ InForceConsented
  BY DEF ContractsInv
<1>1. /\ contract' \in [Contracts -> ContractStatuses] /\ contract'[c] = s
      /\ lockVersion' \in [Contracts -> Nat] /\ lockVersion'[c] = lockVersion[c] + 1
  BY <1>0 DEF Becomes, ContractStatuses, ContractsTypeOK
<1>2. ContractsTypeOK'
  <2>1. edition' \in [Contracts -> Nat] /\ author' \in [Contracts -> Authors] BY <1>0 DEF ContractsTypeOK
  <2> QED BY <1>0, <1>1, <2>1 DEF ContractsTypeOK
<1>3. \A d \in Contracts : d # c =>
        /\ contract'[d] = contract[d] /\ lockVersion'[d] = lockVersion[d]
        /\ edition'[d] = edition[d] /\ author'[d] = author[d]
  <2>1. \A d \in Contracts : d # c =>
          contract'[d] = contract[d] /\ lockVersion'[d] = lockVersion[d]
    BY <1>0 DEF Becomes, ContractsTypeOK
  <2>2. \A d \in Contracts : d # c => edition'[d] = edition[d] /\ author'[d] = author[d]
    BY <1>0 DEF ContractsTypeOK
  <2> QED BY <1>0, <2>1, <2>2 DEF ContractsTypeOK
<1>4. PagesTrue'
  <2> SUFFICES ASSUME NEW d \in Contracts, reading[d] # NoPage
               PROVE  /\ reading[d].version <= lockVersion'[d]
                      /\ reading[d].version = lockVersion'[d] => reading[d].edition = edition'[d]
    BY <1>0 DEF PagesTrue, ContractsTypeOK
  <2>1. reading[d] \in Page BY <1>0 DEF ContractsTypeOK
  <2>2. CASE d = c
    <3>1. reading[c].version <= lockVersion[c] BY <1>0, <2>2 DEF PagesTrue, ContractsTypeOK
    <3>2. reading[c].version \in Nat /\ lockVersion[c] \in Nat BY <1>0, <2>1, <2>2 DEF Page, ContractsTypeOK
    <3> QED BY <1>0, <1>1, <2>2, <3>1, <3>2 DEF ContractsTypeOK
  <2>3. CASE d # c BY <1>0, <1>3, <2>3 DEF PagesTrue, ContractsTypeOK
  <2> QED BY <1>0, <2>2, <2>3 DEF ContractsTypeOK
<1>5. InForce' = InForce BY <1>0, <1>1, <1>3 DEF InForce, ContractsTypeOK
<1>6. OneInForce' BY <1>0, <1>1, <1>3, <1>5 DEF OneInForce, ContractsTypeOK
<1>7. InForceConsented' BY <1>0, <1>1, <1>3 DEF InForceConsented, Consented, ContractsTypeOK
<1>8. ActivationsHold'
  <2>1. \A d \in Contracts : activation[d] = "held" /\ previous[d] # NoContract =>
          previous[d] # c /\ previous[d] \in Contracts
    BY <1>0 DEF ActivationsHold, ContractsTypeOK
  <2> QED BY <1>0, <1>3, <2>1 DEF ActivationsHold, Consented, ContractsTypeOK
<1> QED BY <1>0, <1>2, <1>4, <1>6, <1>7, <1>8 DEF ContractsInv

\* The handlers that prepare, decide and cancel.
LEMMA EditInv ==
  ASSUME ContractsInv, NEW c \in Contracts,
         \/ \E a \in Authors : CreateContract(c, a)
         \/ UpdateContract(c) \/ UploadAttachment(c) \/ SubmitContract(c) \/ CancelContract(c)
         \/ \E to \in {"Draft", "Cancelled"} : DecideContract(c, to)
  PROVE  ContractsInv'
<1>0. ContractsTypeOK /\ PagesTrue /\ ActivationsHold /\ OneInForce /\ InForceConsented
  BY DEF ContractsInv
<1>1. CASE \E a \in Authors : CreateContract(c, a)
  <2>1. activation[c] = "none" BY <1>0, <1>1 DEF CreateContract, ActivationsHold, ContractsTypeOK
  <2> QED BY <1>0, <1>1, <2>1, RowChanged DEF CreateContract, ContractsTypeOK
<1>2. ASSUME Unheld(c) PROVE activation[c] = "none" BY <1>0, <1>2 DEF Unheld, Holds, ContractsTypeOK
<1>3. edition[c] + 1 \in Nat /\ author[c] \in Authors BY <1>0 DEF ContractsTypeOK
<1>4. CASE UpdateContract(c)
  <2>1. edition' = [edition EXCEPT ![c] = edition[c] + 1] BY <1>0, <1>4 DEF UpdateContract, ContractsTypeOK
  <2> QED BY <1>0, <1>2, <1>3, <1>4, <2>1, RowChanged DEF UpdateContract, ContractsTypeOK
<1>5. CASE UploadAttachment(c)
  <2>1. edition' = [edition EXCEPT ![c] = edition[c] + 1] BY <1>0, <1>5 DEF UploadAttachment, ContractsTypeOK
  <2>2. /\ Becomes(c, contract[c]) /\ contract[c] \in {"Draft", "PendingApproval"}
        /\ activation[c] = "none" /\ attached' \subseteq Contracts
        /\ UNCHANGED <<author, activation, previous, reading, consent>>
    BY <1>0, <1>2, <1>5 DEF UploadAttachment, ContractsTypeOK
  <2> QED BY <1>0, <1>3, <2>1, <2>2, RowChanged DEF ContractsTypeOK
<1>6. CASE SubmitContract(c) BY <1>0, <1>2, <1>3, <1>6, RowChanged DEF SubmitContract, ContractsTypeOK
<1>7. CASE CancelContract(c) BY <1>0, <1>2, <1>3, <1>7, RowChanged DEF CancelContract, ContractsTypeOK
<1>8. CASE \E to \in {"Draft", "Cancelled"} : DecideContract(c, to)
  BY <1>0, <1>2, <1>3, <1>8, RowChanged DEF DecideContract, ContractsTypeOK
<1> QED BY <1>0, <1>1, <1>4, <1>5, <1>6, <1>7, <1>8 DEF ContractsInv

LEMMA ReadInv ==
  ASSUME ContractsInv, NEW c \in Contracts, NEW s \in Signers, ReadContract(c, s)
  PROVE  ContractsInv'
<1> USE DEF ReadContract
<1>0. ContractsTypeOK /\ PagesTrue /\ ActivationsHold /\ OneInForce /\ InForceConsented
  BY DEF ContractsInv
<1> DEFINE page == [by |-> s, version |-> lockVersion[c], edition |-> edition[c]]
<1>1. page \in Page BY <1>0 DEF Page, ContractsTypeOK
<1>2. ContractsTypeOK' BY <1>0, <1>1 DEF ContractsTypeOK
<1>3. PagesTrue'
  <2>1. \A d \in Contracts : d # c => reading'[d] = reading[d] BY <1>0 DEF ContractsTypeOK
  <2>2. reading'[c] = page /\ page.version = lockVersion[c] /\ page.edition = edition[c] BY <1>0 DEF ContractsTypeOK
  <2>3. lockVersion[c] <= lockVersion[c] BY <1>0 DEF ContractsTypeOK
  <2> HIDE DEF page
  <2> QED BY <1>0, <2>1, <2>2, <2>3 DEF PagesTrue, ContractsTypeOK
<1>4. ActivationsHold' BY <1>0 DEF ActivationsHold, Consented, ContractsTypeOK
<1>5. OneInForce' /\ InForceConsented' BY <1>0 DEF OneInForce, InForce, InForceConsented, Consented, ContractsTypeOK
<1> QED BY <1>0, <1>2, <1>3, <1>4, <1>5 DEF ContractsInv

LEMMA BeginActivationInv ==
  ASSUME ContractsInv, NEW c \in Contracts, BeginActivation(c) PROVE ContractsInv'
<1>0. ContractsTypeOK /\ PagesTrue /\ ActivationsHold /\ OneInForce /\ InForceConsented
  BY DEF ContractsInv
<1> DEFINE page == reading[c]
<1>1. /\ contract[c] = "PendingApproval" /\ Unheld(c)
      /\ page # NoPage /\ page.by \notin {Holder, author[c]} /\ page.version = lockVersion[c]
      /\ activation' = [activation EXCEPT ![c] = "found"]
      /\ consent' = [consent EXCEPT ![c] = page]
      /\ \E p \in InForce \cup {NoContract} : previous' = [previous EXCEPT ![c] = p]
      /\ UNCHANGED <<contract, lockVersion, edition, attached, author, reading>>
  BY <1>0 DEF BeginActivation, ContractsTypeOK
<1>2. page \in Page /\ page.edition = edition[c] BY <1>0, <1>1 DEF PagesTrue, ContractsTypeOK
<1>3. ContractsTypeOK' BY <1>0, <1>1, <1>2 DEF InForce, ContractsTypeOK
<1>4. PagesTrue' /\ OneInForce' BY <1>0, <1>1 DEF PagesTrue, OneInForce, InForce, ContractsTypeOK
<1>5. InForceConsented' BY <1>0, <1>1 DEF InForceConsented, Consented, ContractsTypeOK
<1>6. ActivationsHold'
  <2>1. \A d \in Contracts : d # c =>
          activation'[d] = activation[d] /\ previous'[d] = previous[d] /\ consent'[d] = consent[d]
    BY <1>0, <1>1 DEF ContractsTypeOK
  <2>2. activation'[c] = "found" /\ Consented(c)' BY <1>0, <1>1, <1>2 DEF Consented, ContractsTypeOK
  <2>3. \A d \in Contracts : d # c => Consented(d)' = Consented(d) BY <1>0, <1>1, <2>1 DEF Consented, ContractsTypeOK
  <2> QED BY <1>0, <1>1, <2>1, <2>2, <2>3 DEF ActivationsHold, ContractsTypeOK
<1> QED BY <1>0, <1>3, <1>4, <1>5, <1>6 DEF ContractsInv

LEMMA LockPreviousInv ==
  ASSUME ContractsInv, NEW c \in Contracts, LockPrevious(c) PROVE ContractsInv'
<1>0. ContractsTypeOK /\ PagesTrue /\ ActivationsHold /\ OneInForce /\ InForceConsented
  BY DEF ContractsInv
<1> DEFINE p == previous[c]
           q == IF p \in InForce THEN p ELSE NoContract
<1>1. /\ activation[c] = "found" /\ (p # NoContract => Unheld(p))
      /\ activation' = [activation EXCEPT ![c] = "held"]
      /\ previous' = [previous EXCEPT ![c] = q]
      /\ UNCHANGED <<contract, lockVersion, edition, attached, author, reading, consent>>
  BY <1>0 DEF LockPrevious, ContractsTypeOK
<1>2. ContractsTypeOK' BY <1>0, <1>1 DEF ContractsTypeOK
<1>3. PagesTrue' /\ OneInForce' /\ InForceConsented'
  BY <1>0, <1>1 DEF PagesTrue, OneInForce, InForce, InForceConsented, Consented, ContractsTypeOK
<1>4. ActivationsHold'
  <2>1. \A d \in Contracts : d # c => activation'[d] = activation[d] /\ previous'[d] = previous[d]
    BY <1>0, <1>1 DEF ContractsTypeOK
  <2>2. activation'[c] = "held" /\ previous'[c] = q BY <1>0, <1>1 DEF ContractsTypeOK
  <2>3. q # NoContract =>
          contract[q] = "Active" /\ \A d \in Contracts : activation[d] = "held" => previous[d] # q
    BY <1>0, <1>1 DEF InForce, Unheld, Holds, ContractsTypeOK
  <2>4. \A d \in Contracts : Consented(d)' = Consented(d) BY <1>0, <1>1 DEF Consented, ContractsTypeOK
  <2>5. contract[c] = "PendingApproval" /\ Consented(c) BY <1>0, <1>1 DEF ActivationsHold, ContractsTypeOK
  <2> HIDE DEF q
  <2> QED BY <1>0, <1>1, <2>1, <2>2, <2>3, <2>4, <2>5 DEF ActivationsHold, ContractsTypeOK
<1> QED BY <1>0, <1>2, <1>3, <1>4 DEF ContractsInv

LEMMA CommitActivationInv ==
  ASSUME ContractsInv, NEW c \in Contracts, CommitActivation(c) PROVE ContractsInv'
<1>0. ContractsTypeOK /\ PagesTrue /\ ActivationsHold /\ OneInForce /\ InForceConsented
  BY DEF ContractsInv
<1> DEFINE p == previous[c]
<1>1. /\ activation[c] = "held" /\ InForce \subseteq {p}
      /\ contract' = [x \in Contracts |->
           IF x = c THEN "Active" ELSE IF x = p THEN "Superseded" ELSE contract[x]]
      /\ lockVersion' = [x \in Contracts |->
           IF x \in {c, p} THEN lockVersion[x] + 1 ELSE lockVersion[x]]
      /\ activation' = [activation EXCEPT ![c] = "none"]
      /\ previous' = [previous EXCEPT ![c] = NoContract]
      /\ UNCHANGED <<edition, attached, author, reading, consent>>
  BY <1>0 DEF CommitActivation, Activated, ContractsTypeOK
<1>2. contract[c] = "PendingApproval" /\ Consented(c) BY <1>0, <1>1 DEF ActivationsHold, ContractsTypeOK
<1>3. p \in Contracts => contract[p] = "Active"
  <2>1. p # NoContract => contract[p] = "Active" BY <1>0, <1>1 DEF ActivationsHold, ContractsTypeOK
  <2> QED BY <1>0, <2>1, ContractsAssumption DEF ContractsTypeOK
<1>4. ContractsTypeOK'
  <2>1. contract' \in [Contracts -> ContractStatuses] BY <1>0, <1>1 DEF ContractStatuses, ContractsTypeOK
  <2>2. lockVersion' \in [Contracts -> Nat] BY <1>0, <1>1 DEF ContractsTypeOK
  <2>3. activation' \in [Contracts -> {"none", "found", "held"}]
        /\ previous' \in [Contracts -> Contracts \cup {NoContract}] BY <1>0, <1>1 DEF ContractsTypeOK
  <2> QED BY <1>0, <1>1, <2>1, <2>2, <2>3 DEF ContractsTypeOK
<1>5. PagesTrue'
  <2> SUFFICES ASSUME NEW d \in Contracts, reading[d] # NoPage
               PROVE  /\ reading[d].version <= lockVersion'[d]
                      /\ reading[d].version = lockVersion'[d] => reading[d].edition = edition[d]
    BY <1>0, <1>1 DEF PagesTrue, ContractsTypeOK
  <2>1. reading[d] \in Page BY <1>0 DEF ContractsTypeOK
  <2>2. lockVersion'[d] \in {lockVersion[d], lockVersion[d] + 1} BY <1>0, <1>1 DEF ContractsTypeOK
  <2> QED BY <1>0, <2>1, <2>2 DEF PagesTrue, Page, ContractsTypeOK
<1>6. InForce' = {c} BY <1>0, <1>1 DEF InForce, ContractsTypeOK
<1>7. OneInForce' BY <1>0, <1>6 DEF OneInForce, ContractsTypeOK
<1>8. InForceConsented' BY <1>0, <1>1, <1>2, <1>3 DEF InForceConsented, Consented, ContractsTypeOK
<1>9. ActivationsHold'
  <2> SUFFICES ASSUME NEW d \in Contracts, d # c
               PROVE  /\ activation[d] # "none" => contract'[d] = "PendingApproval" /\ Consented(d)
                      /\ activation[d] = "held" /\ previous[d] # NoContract =>
                           /\ contract'[previous[d]] = "Active"
                           /\ \A x \in Contracts :
                                activation'[x] = "held" /\ previous'[x] = previous[d] => x = d
    <3>1. \A x \in Contracts \ {c} : activation'[x] = activation[x] /\ previous'[x] = previous[x]
      BY <1>0, <1>1 DEF ContractsTypeOK
    <3>2. activation'[c] = "none" BY <1>0, <1>1 DEF ContractsTypeOK
    <3>3. \A x \in Contracts : Consented(x)' = Consented(x) BY <1>0, <1>1 DEF Consented, ContractsTypeOK
    <3> QED BY <1>0, <3>1, <3>2, <3>3 DEF ActivationsHold, ContractsTypeOK
  <2>1. activation[d] # "none" => contract[d] = "PendingApproval" /\ Consented(d)
    BY <1>0 DEF ActivationsHold, ContractsTypeOK
  <2>2. ASSUME activation[d] = "held", previous[d] # NoContract PROVE FALSE
    <3>1. contract[previous[d]] = "Active" BY <1>0, <2>2 DEF ActivationsHold, ContractsTypeOK
    <3>2. previous[d] \in Contracts BY <1>0, <2>2 DEF ContractsTypeOK
    <3>3. previous[d] = p BY <1>0, <1>1, <3>1, <3>2 DEF InForce, ContractsTypeOK
    <3> QED BY <1>0, <1>1, <2>2, <3>3 DEF ActivationsHold, ContractsTypeOK
  <2> QED BY <1>0, <1>1, <1>3, <2>1, <2>2 DEF ContractsTypeOK
<1> QED BY <1>0, <1>4, <1>5, <1>7, <1>8, <1>9 DEF ContractsInv

LEMMA RollBackActivationInv ==
  ASSUME ContractsInv, NEW c \in Contracts, RollBackActivation(c) PROVE ContractsInv'
<1>0. ContractsTypeOK /\ PagesTrue /\ ActivationsHold /\ OneInForce /\ InForceConsented
  BY DEF ContractsInv
<1>1. /\ activation[c] # "none"
      /\ activation' = [activation EXCEPT ![c] = "none"]
      /\ previous' = [previous EXCEPT ![c] = NoContract]
      /\ consent' = [consent EXCEPT ![c] = NoPage]
      /\ UNCHANGED <<contract, lockVersion, edition, attached, author, reading>>
  BY <1>0 DEF RollBackActivation, ContractsTypeOK
<1>2. contract[c] = "PendingApproval" BY <1>0, <1>1 DEF ActivationsHold, ContractsTypeOK
<1>3. ContractsTypeOK' BY <1>0, <1>1 DEF ContractsTypeOK
<1>4. PagesTrue' /\ OneInForce' BY <1>0, <1>1 DEF PagesTrue, OneInForce, InForce, ContractsTypeOK
<1>5. InForceConsented' BY <1>0, <1>1, <1>2 DEF InForceConsented, Consented, ContractsTypeOK
<1>6. ActivationsHold'
  <2>1. \A d \in Contracts \ {c} :
          activation'[d] = activation[d] /\ previous'[d] = previous[d] /\ Consented(d)' = Consented(d)
    BY <1>0, <1>1 DEF Consented, ContractsTypeOK
  <2>2. activation'[c] = "none" BY <1>0, <1>1 DEF ContractsTypeOK
  <2> QED BY <1>0, <1>1, <2>1, <2>2 DEF ActivationsHold, ContractsTypeOK
<1> QED BY <1>0, <1>3, <1>4, <1>5, <1>6 DEF ContractsInv

LEMMA ContractsNextInv == ContractsInv /\ [ContractsNext]_contractsVars => ContractsInv'
<1> SUFFICES ASSUME ContractsInv, [ContractsNext]_contractsVars PROVE ContractsInv'
  OBVIOUS
<1>1. CASE UNCHANGED contractsVars
  <2> USE <1>1 DEF contractsVars, ContractsInv
  <2>1. ContractsTypeOK' /\ PagesTrue' BY DEF ContractsTypeOK, PagesTrue
  <2>2. OneInForce' /\ InForceConsented' BY DEF OneInForce, InForce, InForceConsented, Consented
  <2>3. ActivationsHold' BY DEF ActivationsHold, Consented
  <2> QED BY <2>1, <2>2, <2>3
<1>2. CASE ContractsNext
  BY <1>2, EditInv, ReadInv, BeginActivationInv, LockPreviousInv, CommitActivationInv,
     RollBackActivationInv DEF ContractsNext
<1> QED BY <1>1, <1>2

-----------------------------------------------------------------------------
\* What an OWNER has consented to is the contract as it stands from the moment he
\* activates it, and the contract found in force stays in force until the activation
\* that locked it ends (activate_contract, the version of the row).
THEOREM ContractsInvariance == ContractsSpec => []ContractsInv
<1> QED BY ContractsInitInv, ContractsNextInv, PTL DEF ContractsSpec

\* ContractInForce holds for any number of contracts and signers: exactly one contract
\* in force once there was one, with the terms and evidence an OWNER who neither holds
\* nor prepared it had read.
THEOREM ContractInForceHolds == ContractsSpec => []ContractInForce
<1>1. ContractsInv => ContractInForce
  BY DEF ContractsInv, OneInForce, InForceConsented, Consented, ContractInForce
<1> QED BY <1>1, ContractsInvariance, PTL

-----------------------------------------------------------------------------
(***************************************************************************)
(* EmployeeDocuments, for any number of versions, files and requests.      *)
(***************************************************************************)

Edits ==
  [op: {"none"}] \cup [op: {"create"}, version: DocVersions]
  \cup [op: {"clone"}, of: DocVersions, key: Files \cup {NoFile}, new: BOOLEAN]
  \cup [op: {"purge"}, of: SUBSET DocVersions] \cup [op: {"unlink"}, files: SUBSET Files]

Kept == disk \cup purgedFiles \cup {NoFile}

\* A clone holds its row's lock, so the row stays active and no other has it.
ClonesHold ==
  \A r \in Editors : edit[r].op = "clone" =>
    /\ edit[r].of \in ActiveDocs /\ edit[r].of < MaxDocVersion
    /\ \A q \in Editors : edit[q].op = "clone" /\ edit[q].of = edit[r].of => q = r
    /\ edit[r].key \in Kept

\* The file a request has written is not yet anybody else's: it may remove it.
NewFilesOwn ==
  \A r \in Editors : edit[r].op = "clone" /\ edit[r].new =>
    /\ edit[r].key \in Files
    /\ \A v \in DocVersions : doc[v].key # edit[r].key
    /\ \A q \in Editors : q # r /\ edit[q].op = "clone" => edit[q].key # edit[r].key

DocumentsInv ==
  /\ DocumentsTypeOK /\ edit \in [Editors -> Edits]
  /\ ClonesHold /\ NewFilesOwn /\ DocumentsSound

LEMMA DocumentsInitInv == DocumentsInit => DocumentsInv
  BY SMTT(30) DEF DocumentsInit, DocumentsInv, DocumentsTypeOK, Edits, ClonesHold, NewFilesOwn,
         DocumentsSound, ActiveDocs, NoDoc, NoEdit, Kept

\* A set of numbers that is bounded has a largest one.
LEMMA LargestExists ==
  ASSUME NEW n \in Nat, NEW S \in SUBSET (1 .. n), S # {}
  PROVE  \E k \in S : \A j \in S : j <= k
<1> DEFINE T == {n - k : k \in S}
<1>1. T \subseteq Nat /\ T # {}
  <2>1. \A k \in S : n - k \in Nat OBVIOUS
  <2>2. T # {} BY Zenon
  <2> QED BY <2>1, <2>2
<1>2. PICK t \in T : \A u \in T : ~(<<u, t>> \in OpToRel(<, Nat))
  <2> HIDE DEF T
  <2> QED BY <1>1, NatLessThanWellFounded, WFMin
<1>3. PICK k \in S : t = n - k BY <1>2
<1>4. \A j \in S : j <= k
  <2>1. TAKE j \in S
  <2>2. n - j \in T /\ n - j \in Nat /\ t \in Nat BY <1>1, <1>2
  <2>3. ~(n - j < t) BY <1>2, <2>2 DEF OpToRel
  <2> QED BY <1>3, <2>3
<1> QED BY <1>4

\* A record that exists has a newest version.
LEMMA NewestExists ==
  ASSUME DocumentsTypeOK, Existing # {}
  PROVE  Newest \in Existing /\ \A w \in Existing : w <= Newest
<1>1. MaxDocVersion \in Nat /\ Existing \in SUBSET (1 .. MaxDocVersion)
  BY DocumentsAssumption DEF Existing, DocVersions
<1>2. PICK v \in Existing : \A w \in Existing : w <= v BY <1>1, LargestExists
<1> QED BY <1>2 DEF Newest

LEMMA BeginDocumentInv ==
  ASSUME DocumentsInv, NEW r \in Editors, BeginDocument(r) PROVE DocumentsInv'
<1>0. /\ DocumentsTypeOK /\ edit \in [Editors -> Edits]
      /\ ClonesHold /\ NewFilesOwn /\ DocumentsSound
  BY DEF DocumentsInv
<1>1. Newest + 1 \in DocVersions
  <2>1. CASE Existing = {} BY <2>1, DocumentsAssumption DEF BeginDocument, Newest, DocVersions
  <2>2. CASE Existing # {}
    BY <1>0, <2>2, NewestExists, DocumentsAssumption DEF BeginDocument, Existing, DocVersions
  <2> QED BY <2>1, <2>2
<1>2. edit' = [edit EXCEPT ![r] = [op |-> "create", version |-> Newest + 1]]
  BY DEF BeginDocument, Take
<1>3. \A q \in Editors : edit'[q].op = "clone" => q # r /\ edit'[q] = edit[q]
  BY <1>0, <1>2
<1>4. UNCHANGED <<doc, disk, purgedFiles>>
  BY DEF BeginDocument
<1>5. [op |-> "create", version |-> Newest + 1] \in Edits
  BY <1>1 DEF Edits
<1>6. edit' \in [Editors -> Edits]
  BY <1>0, <1>2, <1>5
<1>7. DocumentsTypeOK'
  BY <1>0, <1>4, <1>6 DEF DocumentsTypeOK, Edits, DocVersions
<1>8. ClonesHold'
  BY <1>0, <1>3, <1>4 DEF ClonesHold, Kept, ActiveDocs, DocVersions
<1>9. NewFilesOwn'
  BY <1>0, <1>3, <1>4 DEF NewFilesOwn, DocVersions
<1>10. DocumentsSound'
  BY <1>0, <1>4 DEF DocumentsSound, ActiveDocs, DocVersions
<1> QED BY <1>6, <1>7, <1>8, <1>9, <1>10 DEF DocumentsInv


LEMMA CommitDocumentInv ==
  ASSUME DocumentsInv, NEW r \in Editors, CommitDocument(r) PROVE DocumentsInv'
<1>0. /\ DocumentsTypeOK /\ edit \in [Editors -> Edits]
      /\ ClonesHold /\ NewFilesOwn /\ DocumentsSound
  BY DEF DocumentsInv
<1>1. edit[r] \in Edits /\ edit[r].op = "create"
  BY <1>0 DEF CommitDocument
<1>2. edit[r].version \in DocVersions
  BY <1>1 DEF Edits
<1>3. edit' = [edit EXCEPT ![r] = NoEdit]
  BY DEF CommitDocument, EndEdit
<1>4. \A q \in Editors : edit'[q].op = "clone" => q # r /\ edit'[q] = edit[q]
  BY <1>0, <1>3 DEF NoEdit
<1>5. /\ UNCHANGED <<disk, purgedFiles>> /\ ActiveDocs = {}
      /\ doc' = [doc EXCEPT ![edit[r].version] = [state |-> "active", key |-> NoFile]]
  BY DEF CommitDocument
<1>6. edit' \in [Editors -> Edits]
  BY <1>0, <1>3 DEF Edits, NoEdit
<1>7. DocumentsTypeOK'
  BY <1>0, <1>2, <1>5, <1>6 DEF DocumentsTypeOK, Edits, DocVersions
<1>8. ClonesHold'
  BY <1>0, <1>4, <1>5 DEF ClonesHold, ActiveDocs, DocVersions
<1>9. NewFilesOwn'
  BY <1>0, <1>2, <1>4, <1>5, DocumentsAssumption DEF NewFilesOwn, DocumentsTypeOK, DocVersions
<1>10. DocumentsSound'
  BY <1>0, <1>2, <1>5 DEF DocumentsSound, DocumentsTypeOK, ActiveDocs, DocVersions
<1> QED BY <1>6, <1>7, <1>8, <1>9, <1>10 DEF DocumentsInv

LEMMA BeginMetadataInv ==
  ASSUME DocumentsInv, NEW r \in Editors, NEW v \in DocVersions, BeginMetadata(r, v) PROVE DocumentsInv'
<1>0. /\ DocumentsTypeOK /\ edit \in [Editors -> Edits]
      /\ ClonesHold /\ NewFilesOwn /\ DocumentsSound
  BY DEF DocumentsInv
<1> DEFINE e == [op |-> "clone", of |-> v, key |-> doc[v].key, new |-> FALSE]
<1>1. doc[v].key \in Files \cup {NoFile} /\ doc[v].key \in Kept
  BY <1>0 DEF DocumentsTypeOK, DocumentsSound, Kept
<1>2. edit' = [edit EXCEPT ![r] = e] /\ edit[r] = NoEdit
  BY DEF BeginMetadata, Take
<1>3. e \in Edits
  BY <1>1 DEF Edits
<1>4. \A q \in Editors : q # r => edit'[q] = edit[q]
  BY <1>0, <1>2
<1>5. /\ UNCHANGED <<doc, disk, purgedFiles>>
      /\ v \in ActiveDocs /\ ~LockedDoc(v) /\ v < MaxDocVersion
  BY DEF BeginMetadata
<1>6. edit' \in [Editors -> Edits]
  BY <1>0, <1>2, <1>3
<1>7. DocumentsTypeOK'
  BY <1>0, <1>5, <1>6 DEF DocumentsTypeOK, Edits, DocVersions
<1>11. edit'[r] = e
  BY <1>0, <1>2
<1>8. ClonesHold'
  BY <1>0, <1>1, <1>11, <1>4, <1>5 DEF ClonesHold, Kept, ActiveDocs, LockedDoc, DocVersions
<1>9. NewFilesOwn'
  BY <1>0, <1>11, <1>4, <1>5 DEF NewFilesOwn, DocVersions
<1>10. DocumentsSound'
  BY <1>0, <1>5 DEF DocumentsSound, ActiveDocs, DocVersions
<1> QED BY <1>6, <1>7, <1>8, <1>9, <1>10 DEF DocumentsInv

LEMMA BeginUploadInv ==
  ASSUME DocumentsInv, NEW r \in Editors, NEW v \in DocVersions, NEW f \in Files, BeginUpload(r, v, f) PROVE DocumentsInv'
<1>0. /\ DocumentsTypeOK /\ edit \in [Editors -> Edits]
      /\ ClonesHold /\ NewFilesOwn /\ DocumentsSound
  BY DEF DocumentsInv
<1> DEFINE e == [op |-> "clone", of |-> v, key |-> f, new |-> TRUE]
<1>1. f \notin disk \cup purgedFiles /\ \A w \in DocVersions : doc[w].key # f
  BY DEF BeginUpload, UnusedFiles
<1>2. edit' = [edit EXCEPT ![r] = e] /\ edit[r] = NoEdit
  BY DEF BeginUpload, Take
<1>3. e \in Edits
  BY DEF Edits
<1>4. \A q \in Editors : q # r => edit'[q] = edit[q]
  BY <1>0, <1>2
<1>5. /\ UNCHANGED <<doc, purgedFiles>> /\ disk' = disk \cup {f}
      /\ v \in ActiveDocs /\ ~LockedDoc(v) /\ v < MaxDocVersion
  BY DEF BeginUpload
<1>6. edit' \in [Editors -> Edits]
  BY <1>0, <1>2, <1>3
<1>7. DocumentsTypeOK'
  BY <1>0, <1>5, <1>6 DEF DocumentsTypeOK, Edits, DocVersions
<1>11. edit'[r] = e
  BY <1>0, <1>2
<1>8. ClonesHold'
  BY <1>0, <1>11, <1>4, <1>5 DEF ClonesHold, Kept, ActiveDocs, LockedDoc, DocVersions
<1>12. \A q \in Editors : edit[q].op = "clone" => edit[q].key # f
  BY <1>0, <1>1, DocumentsAssumption DEF ClonesHold, Kept
<1>9. NewFilesOwn'
  BY <1>0, <1>1, <1>11, <1>12, <1>4, <1>5 DEF NewFilesOwn, DocVersions
<1>10. DocumentsSound'
  BY <1>0, <1>5 DEF DocumentsSound, ActiveDocs, DocVersions
<1> QED BY <1>6, <1>7, <1>8, <1>9, <1>10 DEF DocumentsInv

LEMMA CommitCloneInv ==
  ASSUME DocumentsInv, NEW r \in Editors, CommitClone(r) PROVE DocumentsInv'
<1>0. /\ DocumentsTypeOK /\ edit \in [Editors -> Edits]
      /\ ClonesHold /\ NewFilesOwn /\ DocumentsSound
  BY DEF DocumentsInv
<1> DEFINE v == edit[r].of
<1>1. edit[r] \in Edits /\ edit[r].op = "clone"
  BY <1>0 DEF CommitClone
<1>2. /\ v \in ActiveDocs /\ v \in DocVersions /\ v + 1 \in DocVersions /\ v # v + 1
      /\ edit[r].key \in Kept /\ edit[r].key \in Files \cup {NoFile}
  BY <1>0, <1>1, DocumentsAssumption DEF Edits, ClonesHold, ActiveDocs, DocVersions
<1>3. edit' = [edit EXCEPT ![r] = NoEdit]
  BY DEF CommitClone, EndEdit
<1>4. \A q \in Editors : edit'[q].op = "clone" => q # r /\ edit'[q] = edit[q]
  BY <1>0, <1>3 DEF NoEdit
<1>5. /\ UNCHANGED <<disk, purgedFiles>> /\ v + 1 \notin Existing
      /\ doc' = [doc EXCEPT ![v].state = "inactive", ![v + 1] = [state |-> "active", key |-> edit[r].key]]
  BY DEF CommitClone
<1>11. \A w \in ActiveDocs : w = v
  BY <1>0, <1>2 DEF DocumentsSound
<1>12. /\ doc'[v].state = "inactive" /\ doc'[v].key = doc[v].key
       /\ doc'[v + 1] = [state |-> "active", key |-> edit[r].key]
       /\ \A w \in DocVersions : w # v /\ w # v + 1 => doc'[w] = doc[w]
  BY <1>0, <1>2, <1>5 DEF DocumentsTypeOK
<1>6. edit' \in [Editors -> Edits]
  BY <1>0, <1>3 DEF Edits, NoEdit
<1>7. DocumentsTypeOK'
  <2>1. doc' \in [DocVersions -> [state: {"none", "active", "inactive"}, key: Files \cup {NoFile}]]
    BY <1>0, <1>2, <1>5 DEF DocumentsTypeOK
  <2> QED BY <1>0, <1>5, <1>6, <2>1 DEF DocumentsTypeOK, Edits
<1>13. \A q \in Editors : edit'[q].op # "clone"
  BY <1>0, <1>1, <1>11, <1>4 DEF ClonesHold
<1>8. ClonesHold'
  BY <1>13 DEF ClonesHold
<1>9. NewFilesOwn'
  BY <1>13 DEF NewFilesOwn
<1>10. DocumentsSound'
  <2>1. \A w \in DocVersions : doc'[w].state = "active" => w = v + 1
    BY <1>11, <1>12 DEF ActiveDocs
  <2>2. \A w \in DocVersions : doc'[w].key \in Kept
    BY <1>0, <1>12, <1>2 DEF DocumentsSound, Kept
  <2> QED BY <1>5, <2>1, <2>2 DEF DocumentsSound, ActiveDocs, DocVersions, Kept
<1> QED BY <1>6, <1>7, <1>8, <1>9, <1>10 DEF DocumentsInv

LEMMA InactivateDocumentInv ==
  ASSUME DocumentsInv, NEW v \in DocVersions, InactivateDocument(v) PROVE DocumentsInv'
<1>0. /\ DocumentsTypeOK /\ edit \in [Editors -> Edits]
      /\ ClonesHold /\ NewFilesOwn /\ DocumentsSound
  BY DEF DocumentsInv
<1>1. /\ v \in ActiveDocs /\ ~LockedDoc(v) /\ UNCHANGED <<disk, edit, purgedFiles>>
      /\ doc' = [doc EXCEPT ![v].state = "inactive"]
  BY DEF InactivateDocument
<1>2. /\ doc'[v].state = "inactive" /\ doc'[v].key = doc[v].key
      /\ \A w \in DocVersions : w # v => doc'[w] = doc[w]
  BY <1>0, <1>1 DEF DocumentsTypeOK
<1>6. edit' \in [Editors -> Edits]
  BY <1>0, <1>1 DEF Edits, DocVersions
<1>7. DocumentsTypeOK'
  BY <1>0, <1>1, <1>6 DEF DocumentsTypeOK, Edits, DocVersions
<1>8. ClonesHold'
  BY <1>0, <1>1, <1>2 DEF ClonesHold, Kept, ActiveDocs, LockedDoc, DocVersions
<1>9. NewFilesOwn'
  BY <1>0, <1>1, <1>2 DEF NewFilesOwn, DocVersions
<1>10. DocumentsSound'
  BY <1>0, <1>1, <1>2 DEF DocumentsSound, ActiveDocs, DocVersions
<1> QED BY <1>6, <1>7, <1>8, <1>9, <1>10 DEF DocumentsInv

LEMMA BeginPurgeInv ==
  ASSUME DocumentsInv, NEW r \in Editors, BeginPurge(r) PROVE DocumentsInv'
<1>0. /\ DocumentsTypeOK /\ edit \in [Editors -> Edits]
      /\ ClonesHold /\ NewFilesOwn /\ DocumentsSound
  BY DEF DocumentsInv
<1>2. edit' = [edit EXCEPT ![r] = [op |-> "purge", of |-> Existing]]
  BY DEF BeginPurge, Take
<1>3. \A q \in Editors : edit'[q].op = "clone" => q # r /\ edit'[q] = edit[q]
  BY <1>0, <1>2
<1>4. UNCHANGED <<doc, disk, purgedFiles>>
  BY DEF BeginPurge
<1>5. [op |-> "purge", of |-> Existing] \in Edits
  BY DEF Edits, Existing
<1>6. edit' \in [Editors -> Edits]
  BY <1>0, <1>2, <1>5
<1>7. DocumentsTypeOK'
  BY <1>0, <1>4, <1>6 DEF DocumentsTypeOK, Edits, DocVersions
<1>8. ClonesHold'
  BY <1>0, <1>3, <1>4 DEF ClonesHold, Kept, ActiveDocs, DocVersions
<1>9. NewFilesOwn'
  BY <1>0, <1>3, <1>4 DEF NewFilesOwn, DocVersions
<1>10. DocumentsSound'
  BY <1>0, <1>4 DEF DocumentsSound, ActiveDocs, DocVersions
<1> QED BY <1>6, <1>7, <1>8, <1>9, <1>10 DEF DocumentsInv

LEMMA CommitPurgeInv ==
  ASSUME DocumentsInv, NEW r \in Editors, CommitPurge(r) PROVE DocumentsInv'
<1>0. /\ DocumentsTypeOK /\ edit \in [Editors -> Edits]
      /\ ClonesHold /\ NewFilesOwn /\ DocumentsSound
  BY DEF DocumentsInv
<1> DEFINE gone == edit[r].of \cap Existing
           files == {doc[v].key : v \in gone} \ {NoFile}
<1>1. /\ edit' = [edit EXCEPT ![r] = [op |-> "unlink", files |-> files]]
      /\ \A v \in gone : ~LockedDoc(v)
      /\ doc' = [v \in DocVersions |-> IF v \in gone THEN NoDoc ELSE doc[v]]
      /\ UNCHANGED <<disk, purgedFiles>>
  BY DEF CommitPurge
<1>2. files \in SUBSET Files
  BY <1>0 DEF Existing, DocumentsTypeOK
<1> HIDE DEF gone, files
<1>3. \A q \in Editors : edit'[q].op = "clone" => q # r /\ edit'[q] = edit[q]
  BY <1>0, <1>1
<1>4. \A v \in DocVersions : doc'[v] = NoDoc \/ (v \notin gone /\ doc'[v] = doc[v])
  BY <1>1
<1>5. [op |-> "unlink", files |-> files] \in Edits
  BY <1>2 DEF Edits
<1>6. edit' \in [Editors -> Edits]
  BY <1>0, <1>1, <1>5
<1>7. DocumentsTypeOK'
  <2>1. doc' \in [DocVersions -> [state: {"none", "active", "inactive"}, key: Files \cup {NoFile}]]
    BY <1>0, <1>1 DEF DocumentsTypeOK, NoDoc
  <2> QED BY <1>0, <1>1, <1>6, <2>1 DEF DocumentsTypeOK, Edits
<1>8. ClonesHold'
  <2>1. \A q \in Editors : edit[q].op = "clone" => edit[q].of \notin gone
    BY <1>1 DEF LockedDoc
  <2>2. \A q \in Editors : edit[q].op = "clone" => doc'[edit[q].of] = doc[edit[q].of]
    BY <1>0, <1>1, <2>1 DEF ClonesHold, ActiveDocs
  <2> QED BY <1>0, <1>1, <1>3, <2>2 DEF ClonesHold, Kept, ActiveDocs, DocVersions
<1>9. NewFilesOwn'
  BY <1>0, <1>3, <1>4, DocumentsAssumption DEF NewFilesOwn, NoDoc, DocVersions
<1>10. DocumentsSound'
  BY <1>0, <1>1, <1>4 DEF DocumentsSound, ActiveDocs, NoDoc, DocVersions
<1> QED BY <1>6, <1>7, <1>8, <1>9, <1>10 DEF DocumentsInv

LEMMA UnlinkInv ==
  ASSUME DocumentsInv, NEW r \in Editors, Unlink(r) PROVE DocumentsInv'
<1>0. /\ DocumentsTypeOK /\ edit \in [Editors -> Edits]
      /\ ClonesHold /\ NewFilesOwn /\ DocumentsSound
  BY DEF DocumentsInv
<1>1. /\ edit' = [edit EXCEPT ![r] = NoEdit] /\ UNCHANGED doc
      /\ disk' = disk \ edit[r].files /\ purgedFiles' = purgedFiles \cup edit[r].files
      /\ edit[r].op = "unlink" /\ edit[r] \in Edits
  BY <1>0 DEF Unlink, EndEdit
<1>2. edit[r].files \in SUBSET Files
  BY <1>1 DEF Edits
<1>3. \A q \in Editors : edit'[q].op = "clone" => q # r /\ edit'[q] = edit[q]
  BY <1>0, <1>1 DEF NoEdit
<1>4. Kept \subseteq Kept'
  BY <1>1 DEF Kept
<1>6. edit' \in [Editors -> Edits]
  BY <1>0, <1>1 DEF Edits, NoEdit
<1>7. DocumentsTypeOK'
  BY <1>0, <1>1, <1>2, <1>6 DEF DocumentsTypeOK, Edits, DocVersions
<1>8. ClonesHold'
  BY <1>0, <1>1, <1>3, <1>4 DEF ClonesHold, ActiveDocs, DocVersions
<1>9. NewFilesOwn'
  BY <1>0, <1>1, <1>3 DEF NewFilesOwn, DocVersions
<1>10. DocumentsSound'
  BY <1>0, <1>1 DEF DocumentsSound, ActiveDocs, DocVersions
<1> QED BY <1>6, <1>7, <1>8, <1>9, <1>10 DEF DocumentsInv

LEMMA FailEditInv ==
  ASSUME DocumentsInv, NEW r \in Editors, FailEdit(r) PROVE DocumentsInv'
<1>0. /\ DocumentsTypeOK /\ edit \in [Editors -> Edits]
      /\ ClonesHold /\ NewFilesOwn /\ DocumentsSound
  BY DEF DocumentsInv
<1>1. /\ edit' = [edit EXCEPT ![r] = NoEdit] /\ UNCHANGED <<doc, purgedFiles>>
      /\ \/ UNCHANGED disk
         \/ edit[r].op = "clone" /\ edit[r].new /\ disk' = disk \ {edit[r].key}
  BY DEF FailEdit, EndEdit
<1>2. disk' \subseteq disk
  BY <1>1
<1>3. \A q \in Editors : edit'[q].op = "clone" => q # r /\ edit'[q] = edit[q]
  BY <1>0, <1>1 DEF NoEdit
<1>4. /\ \A v \in DocVersions : doc[v].key \in Kept'
      /\ \A q \in Editors : q # r /\ edit[q].op = "clone" => edit[q].key \in Kept'
  BY <1>0, <1>1 DEF Kept, DocumentsSound, ClonesHold, NewFilesOwn
<1>6. edit' \in [Editors -> Edits]
  BY <1>0, <1>1 DEF Edits, NoEdit
<1>7. DocumentsTypeOK'
  BY <1>0, <1>1, <1>2, <1>6 DEF DocumentsTypeOK, Edits, DocVersions
<1>8. ClonesHold'
  BY <1>0, <1>1, <1>3, <1>4 DEF ClonesHold, ActiveDocs, DocVersions
<1>9. NewFilesOwn'
  BY <1>0, <1>1, <1>3 DEF NewFilesOwn, DocVersions
<1>10. DocumentsSound'
  BY <1>0, <1>1, <1>4 DEF DocumentsSound, ActiveDocs, DocVersions, Kept
<1> QED BY <1>6, <1>7, <1>8, <1>9, <1>10 DEF DocumentsInv

LEMMA DocumentsNextInv == DocumentsInv /\ [DocumentsNext]_documentVars => DocumentsInv'
<1> SUFFICES ASSUME DocumentsInv, [DocumentsNext]_documentVars PROVE DocumentsInv'
  OBVIOUS
<1>1. CASE \E r \in Editors :
             \/ BeginDocument(r) \/ CommitDocument(r) \/ CommitClone(r)
             \/ BeginPurge(r) \/ CommitPurge(r) \/ Unlink(r) \/ FailEdit(r)
  BY <1>1, BeginDocumentInv, CommitDocumentInv, CommitCloneInv, BeginPurgeInv, CommitPurgeInv,
     UnlinkInv, FailEditInv
<1>2. CASE \E r \in Editors, v \in DocVersions :
             BeginMetadata(r, v) \/ \E f \in Files : BeginUpload(r, v, f)
  BY <1>2, BeginMetadataInv, BeginUploadInv
<1>3. CASE \E v \in DocVersions : InactivateDocument(v)
  BY <1>3, InactivateDocumentInv
<1>4. CASE UNCHANGED documentVars
  BY <1>4 DEF documentVars, DocumentsInv, DocumentsTypeOK, Edits, ClonesHold, NewFilesOwn,
     DocumentsSound, ActiveDocs, Kept, DocVersions
<1> QED BY <1>1, <1>2, <1>3, <1>4 DEF DocumentsNext

\* A request that replaces a version holds it active until it ends, and the file it has
\* written is nobody else's until then (_active_document, _clone_document).
THEOREM DocumentsInvariance == DocumentsSpec => []DocumentsInv
  BY DocumentsInitInv, DocumentsNextInv, PTL DEF DocumentsSpec

\* DocumentsSound holds for any number of versions, files and requests: one active
\* version, and every file of a version on disk unless a purge removed it.
THEOREM DocumentsSoundHolds == DocumentsSpec => []DocumentsSound
<1>1. DocumentsInv => DocumentsSound BY DEF DocumentsInv
<1> QED BY <1>1, DocumentsInvariance, PTL

-----------------------------------------------------------------------------
(***************************************************************************)
(* Notifications, for any number of notes, recipients and jobs.            *)
(***************************************************************************)

-----------------------------------------------------------------------------
Deliveries == [Notes -> [Recipients -> {"none", "unread", "read"}]]

\* Nothing that was delivered is taken back, nothing that was read is unread again.
Advanced(d, e) ==
  \A n \in Notes, u \in Recipients :
    /\ d[n][u] # "none" => e[n][u] # "none"
    /\ d[n][u] = "read" => e[n][u] = "read"

\* What is being listed, and what somebody was shown, has been posted.
ShownPosted ==
  /\ \A u \in Recipients : listing[u] # 0 => listing[u] \in DOMAIN posted
  /\ \A u \in Recipients, i \in Reminders : <<u, i>> \in entitled => i \in DOMAIN posted

NotificationsInv == NotificationsTypeOK /\ ShownPosted /\ RemindersAgree

\* A dispatch takes nothing back and reaches everybody it is for.
LEMMA PersistEffect ==
  ASSUME NEW n \in Notes, NEW to, NEW d \in Deliveries
  PROVE  /\ Persist(n, to, d) \in Deliveries /\ Advanced(d, Persist(n, to, d))
         /\ \A u \in Recipients \cap to : Persist(n, to, d)[n][u] # "none"
  BY DEF Persist, Deliveries, Advanced

\* Reading takes nothing back and reads what was delivered.
LEMMA ReadEffect ==
  ASSUME NEW n \in Notes, NEW who, NEW d \in Deliveries
  PROVE  /\ Read(n, who, d) \in Deliveries /\ Advanced(d, Read(n, who, d))
         /\ \A u \in Recipients \cap who : d[n][u] # "none" => Read(n, who, d)[n][u] = "read"
  BY DEF Read, Deliveries, Advanced

\* A holiday's reminder, with what it supersedes, takes nothing back.
LEMMA DispatchEffect ==
  ASSUME NEW kind \in Kinds, NEW to, NEW d \in Deliveries
  PROVE  /\ DispatchHoliday(kind, to, d) \in Deliveries
         /\ Advanced(d, DispatchHoliday(kind, to, d))
         /\ \A u \in Recipients \cap to : DispatchHoliday(kind, to, d)[kind][u] # "none"
<1> DEFINE p == Persist(kind, to, d)
           q == Read("automatic", Recipients, p)
<1>1. kind \in Notes /\ "automatic" \in Notes BY DEF Notes, Kinds
<1>2. p \in Deliveries /\ Advanced(d, p) /\ \A u \in Recipients \cap to : p[kind][u] # "none"
  BY <1>1, PersistEffect
<1> HIDE DEF p
<1>3. q \in Deliveries /\ Advanced(p, q) BY <1>1, <1>2, ReadEffect
<1> HIDE DEF q
<1>4. Advanced(d, q) /\ \A u \in Recipients \cap to : q[kind][u] # "none"
  BY <1>1, <1>2, <1>3 DEF Advanced
<1>5. Advanced(d, d) BY DEF Advanced
<1>6. DispatchHoliday(kind, to, d) = IF to = {} THEN d ELSE IF kind = "urgent" THEN q ELSE p
  BY DEF DispatchHoliday, p, q
<1> QED BY <1>2, <1>3, <1>4, <1>5, <1>6

LEMMA NotificationsInitInv == NotificationsInit => NotificationsInv
<1> SUFFICES ASSUME NotificationsInit PROVE NotificationsInv
  OBVIOUS
<1>1. posted \in Seq(Kinds) /\ Len(posted) = 0 /\ DOMAIN posted = {}
  BY DEF NotificationsInit
<1>2. NotificationsTypeOK
  <2>1. /\ eligible \subseteq Recipients /\ near \in BOOLEAN
        /\ dismissed \in [Recipients -> SUBSET Reminders]
        /\ listing \in [Recipients -> Reminders \cup {0}]
    BY DEF NotificationsInit
  <2>2. delivery \in [Notes -> [Recipients -> {"none", "unread", "read"}]]
    BY DEF NotificationsInit
  <2>3. /\ entitled \subseteq Recipients \X Reminders
        /\ rule.status \in {"absent", "draft", "active", "inactive"} /\ rule.targets \subseteq Recipients
        /\ asks \subseteq Notes /\ acknowledged \subseteq Recipients \X Notes
    BY DEF NotificationsInit, NoRule
  <2> QED BY <1>1, <2>1, <2>2, <2>3, NotificationsAssumption DEF NotificationsTypeOK
<1>3. ShownPosted /\ RemindersAgree
  BY <1>1 DEF NotificationsInit, ShownPosted, RemindersAgree
<1> QED BY <1>2, <1>3 DEF NotificationsInv

\* What keeps the rows of the reminders, or adds one, and takes no delivery back.
LEMMA KeepsAgree ==
  ASSUME NotificationsInv, Advanced(delivery, delivery'), UNCHANGED <<dismissed, entitled>>,
         posted' \in Seq(Kinds), Len(posted) <= Len(posted'),
         \A i \in DOMAIN posted : posted'[i] = posted[i]
  PROVE  /\ RemindersAgree'
         /\ \A u \in Recipients, i \in Reminders : <<u, i>> \in entitled' => i \in DOMAIN posted'
<1>1. posted \in Seq(Kinds) /\ entitled \subseteq Recipients \X Reminders
      /\ ShownPosted /\ RemindersAgree
  BY DEF NotificationsInv, NotificationsTypeOK
<1>2. \A u \in Recipients, i \in Reminders : <<u, i>> \in entitled' => i \in DOMAIN posted /\ i \in DOMAIN posted'
  BY <1>1 DEF ShownPosted, Reminders
<1>3. \A i \in DOMAIN posted : posted[i] \in Notes
  BY <1>1 DEF Notes
<1>4. RemindersAgree'
  <2> SUFFICES ASSUME NEW u \in Recipients, NEW i \in DOMAIN posted', <<u, i>> \in entitled'
               PROVE  /\ delivery'[posted'[i]][u] # "none"
                      /\ i \in dismissed'[u] => delivery'[posted'[i]][u] = "read"
    BY DEF RemindersAgree
  <2>1. i \in DOMAIN posted /\ <<u, i>> \in entitled /\ posted'[i] = posted[i] /\ posted[i] \in Notes
    BY <1>1, <1>2, <1>3
  <2>2. /\ delivery[posted[i]][u] # "none"
        /\ i \in dismissed[u] => delivery[posted[i]][u] = "read"
    BY <1>1, <2>1 DEF RemindersAgree
  <2> QED BY <2>1, <2>2 DEF Advanced
<1> QED BY <1>2, <1>4

LEMMA BeginListInv ==
  ASSUME NotificationsInv, NEW u \in Recipients, BeginList(u)
  PROVE  NotificationsInv' /\ Advanced(delivery, delivery')
<1> DEFINE due == near /\ \A i \in DOMAIN posted : posted[i] # "automatic"
           newest == CHOOSE i \in Listed(u) : \A j \in Listed(u) : j <= i
<1>0. NotificationsTypeOK /\ ShownPosted /\ RemindersAgree BY DEF NotificationsInv
<1>1. /\ posted' = IF due THEN Append(posted, "automatic") ELSE posted
      /\ delivery' = IF due THEN DispatchHoliday("automatic", eligible, delivery) ELSE delivery
      /\ due => Len(posted) < MaxReminders
      /\ listing' = [listing EXCEPT ![u] = newest]
      /\ Listed(u) # {}
      /\ UNCHANGED <<eligible, near, dismissed, entitled, ruleRows>>
  BY DEF BeginList
<1> HIDE DEF due
<1>2. posted \in Seq(Kinds) /\ Len(posted) <= MaxReminders /\ delivery \in Deliveries
  BY <1>0 DEF NotificationsTypeOK, Deliveries
<1>3. /\ posted' \in Seq(Kinds) /\ Len(posted) <= Len(posted') /\ Len(posted') <= MaxReminders
      /\ \A i \in DOMAIN posted : posted'[i] = posted[i]
  BY <1>1, <1>2, NotificationsAssumption DEF Kinds
<1>4. delivery' \in Deliveries /\ Advanced(delivery, delivery')
  <2>1. Advanced(delivery, delivery) BY DEF Advanced
  <2> QED BY <1>1, <1>2, <2>1, DispatchEffect DEF Kinds
<1>5. newest \in DOMAIN posted'
  <2>1. Listed(u) \in SUBSET (1 .. Len(posted')) /\ Len(posted') \in Nat BY <1>3 DEF Listed
  <2>2. \E k \in Listed(u) : \A j \in Listed(u) : j <= k BY <1>1, <2>1, LargestExists
  <2>3. newest \in Listed(u) BY <2>2
  <2> HIDE DEF newest
  <2> QED BY <1>3, <2>1, <2>3
<1> HIDE DEF newest
<1>6. RemindersAgree' /\ \A v \in Recipients, i \in Reminders : <<v, i>> \in entitled' => i \in DOMAIN posted'
  BY <1>1, <1>3, <1>4, KeepsAgree
<1>7. ShownPosted'
  BY <1>0, <1>1, <1>2, <1>3, <1>5, <1>6 DEF ShownPosted, NotificationsTypeOK
<1>8. NotificationsTypeOK'
  <2>1. listing' \in [Recipients -> Reminders \cup {0}]
    <3>1. newest \in Reminders BY <1>3, <1>5, NotificationsAssumption DEF Reminders
    <3> QED BY <1>0, <1>1, <3>1 DEF NotificationsTypeOK
  <2> QED BY <1>0, <1>1, <1>3, <1>4, <2>1 DEF NotificationsTypeOK, Deliveries, ruleRows, Kinds, Notes, Reminders
<1> QED BY <1>4, <1>6, <1>7, <1>8 DEF NotificationsInv

LEMMA CommitListInv ==
  ASSUME NotificationsInv, NEW u \in Recipients, CommitList(u)
  PROVE  NotificationsInv' /\ Advanced(delivery, delivery')
<1> DEFINE i == listing[u]
<1>0. NotificationsTypeOK /\ ShownPosted /\ RemindersAgree BY DEF NotificationsInv
<1>1. /\ delivery' = DispatchHoliday(posted[i], eligible, delivery)
      /\ entitled' = IF u \in eligible /\ i \notin dismissed[u]
                     THEN entitled \cup {<<u, i>>} ELSE entitled
      /\ listing' = [listing EXCEPT ![u] = 0]
      /\ i # 0
      /\ UNCHANGED <<eligible, near, posted, dismissed, ruleRows>>
  BY DEF CommitList
<1>2. /\ i \in DOMAIN posted /\ i \in Reminders /\ posted[i] \in Kinds /\ delivery \in Deliveries
      /\ posted \in Seq(Kinds)
  BY <1>0, <1>1 DEF NotificationsTypeOK, ShownPosted, Deliveries
<1>3. /\ delivery' \in Deliveries /\ Advanced(delivery, delivery')
      /\ \A v \in Recipients \cap eligible : delivery'[posted[i]][v] # "none"
  BY <1>1, <1>2, DispatchEffect
<1>4. RemindersAgree'
  <2> SUFFICES ASSUME NEW v \in Recipients, NEW j \in DOMAIN posted', <<v, j>> \in entitled'
               PROVE  /\ delivery'[posted'[j]][v] # "none"
                      /\ j \in dismissed'[v] => delivery'[posted'[j]][v] = "read"
    BY DEF RemindersAgree
  <2>1. posted[j] \in Notes BY <1>1, <1>2 DEF Notes
  <2>2. CASE <<v, j>> \in entitled
    <3>1. /\ delivery[posted[j]][v] # "none"
          /\ j \in dismissed[v] => delivery[posted[j]][v] = "read"
      BY <1>0, <1>1, <2>2 DEF RemindersAgree
    <3> QED BY <1>1, <1>3, <2>1, <3>1 DEF Advanced
  <2>3. CASE v = u /\ j = i /\ u \in eligible /\ i \notin dismissed[u]
    BY <1>1, <1>3, <2>3
  <2> QED BY <1>1, <2>2, <2>3
<1>5. ShownPosted'
  BY <1>0, <1>1, <1>2 DEF ShownPosted, NotificationsTypeOK
<1>6. NotificationsTypeOK'
  BY <1>0, <1>1, <1>2, <1>3 DEF NotificationsTypeOK, Deliveries, ruleRows, Kinds, Notes, Reminders
<1> QED BY <1>3, <1>4, <1>5, <1>6 DEF NotificationsInv

LEMMA SendUrgentReminderInv ==
  ASSUME NotificationsInv, SendUrgentReminder
  PROVE  NotificationsInv' /\ Advanced(delivery, delivery')
<1>0. NotificationsTypeOK /\ ShownPosted /\ RemindersAgree BY DEF NotificationsInv
<1>1. /\ posted' = Append(posted, "urgent") /\ Len(posted) < MaxReminders
      /\ delivery' = DispatchHoliday("urgent", eligible, delivery)
      /\ UNCHANGED <<eligible, near, dismissed, listing, entitled, ruleRows>>
  BY DEF SendUrgentReminder
<1>2. posted \in Seq(Kinds) /\ delivery \in Deliveries
  BY <1>0 DEF NotificationsTypeOK, Deliveries
<1>3. /\ posted' \in Seq(Kinds) /\ Len(posted) <= Len(posted') /\ Len(posted') <= MaxReminders
      /\ \A i \in DOMAIN posted : posted'[i] = posted[i]
  BY <1>1, <1>2, NotificationsAssumption DEF Kinds
<1>4. delivery' \in Deliveries /\ Advanced(delivery, delivery')
  BY <1>1, <1>2, DispatchEffect DEF Kinds
<1>5. RemindersAgree' /\ \A v \in Recipients, i \in Reminders : <<v, i>> \in entitled' => i \in DOMAIN posted'
  BY <1>1, <1>3, <1>4, KeepsAgree
<1>6. ShownPosted'
  BY <1>0, <1>1, <1>2, <1>3, <1>5 DEF ShownPosted
<1>7. NotificationsTypeOK'
  BY <1>0, <1>1, <1>3, <1>4 DEF NotificationsTypeOK, Deliveries, ruleRows, Kinds, Notes, Reminders
<1> QED BY <1>4, <1>5, <1>6, <1>7 DEF NotificationsInv

LEMMA DismissReminderInv ==
  ASSUME NotificationsInv, NEW u \in Recipients, NEW i \in DOMAIN posted, DismissReminder(u, i)
  PROVE  NotificationsInv' /\ Advanced(delivery, delivery')
<1>0. NotificationsTypeOK /\ ShownPosted /\ RemindersAgree BY DEF NotificationsInv
<1>1. /\ dismissed' = [dismissed EXCEPT ![u] = @ \cup {i}]
      /\ delivery' = Read(posted[i], {u}, delivery)
      /\ UNCHANGED <<eligible, near, posted, listing, entitled, ruleRows>>
  BY DEF DismissReminder
<1>2. /\ posted[i] \in Notes /\ i \in Reminders /\ delivery \in Deliveries /\ posted \in Seq(Kinds)
  BY <1>0, NotificationsAssumption DEF NotificationsTypeOK, Deliveries, Notes, Reminders
<1>3. /\ delivery' \in Deliveries /\ Advanced(delivery, delivery')
      /\ delivery[posted[i]][u] # "none" => delivery'[posted[i]][u] = "read"
  BY <1>1, <1>2, ReadEffect
<1>4. RemindersAgree'
  <2> SUFFICES ASSUME NEW v \in Recipients, NEW j \in DOMAIN posted', <<v, j>> \in entitled'
               PROVE  /\ delivery'[posted'[j]][v] # "none"
                      /\ j \in dismissed'[v] => delivery'[posted'[j]][v] = "read"
    BY DEF RemindersAgree
  <2>1. /\ posted[j] \in Notes /\ delivery[posted[j]][v] # "none"
        /\ j \in dismissed[v] => delivery[posted[j]][v] = "read"
    BY <1>0, <1>1, <1>2 DEF RemindersAgree, Notes
  <2>2. j \in dismissed'[v] => j \in dismissed[v] \/ (v = u /\ j = i)
    BY <1>0, <1>1 DEF NotificationsTypeOK
  <2> QED BY <1>1, <1>3, <2>1, <2>2 DEF Advanced
<1>5. ShownPosted'
  BY <1>0, <1>1 DEF ShownPosted
<1>6. NotificationsTypeOK'
  BY <1>0, <1>1, <1>2, <1>3 DEF NotificationsTypeOK, Deliveries, ruleRows, Kinds, Notes, Reminders
<1> QED BY <1>3, <1>4, <1>5, <1>6 DEF NotificationsInv

\* Everything else that changes a delivery.
LEMMA DeliveredInv ==
  ASSUME NotificationsInv, delivery' \in Deliveries, Advanced(delivery, delivery'),
         UNCHANGED reminderRows, eligible' \subseteq Recipients, near' \in BOOLEAN,
         rule'.status \in {"absent", "draft", "active", "inactive"}, rule'.targets \subseteq Recipients,
         asks' \subseteq Notes, acknowledged' \subseteq Recipients \X Notes
  PROVE  NotificationsInv'
<1>0. NotificationsTypeOK /\ ShownPosted /\ RemindersAgree BY DEF NotificationsInv
<1>1. posted \in Seq(Kinds) /\ posted' = posted /\ Len(posted) <= Len(posted')
      /\ UNCHANGED <<dismissed, entitled, listing>>
  BY <1>0 DEF NotificationsTypeOK, reminderRows
<1>2. RemindersAgree'
  BY <1>1, KeepsAgree
<1>3. ShownPosted' BY <1>0, <1>1 DEF ShownPosted
<1>4. NotificationsTypeOK'
  BY <1>0, <1>1 DEF NotificationsTypeOK, Deliveries, Kinds, Notes, Reminders
<1> QED BY <1>2, <1>3, <1>4 DEF NotificationsInv

LEMMA NotificationsNextInv ==
  NotificationsInv /\ [NotificationsNext]_notificationsVars
    => NotificationsInv' /\ Advanced(delivery, delivery')
<1> SUFFICES ASSUME NotificationsInv, [NotificationsNext]_notificationsVars
             PROVE  NotificationsInv' /\ Advanced(delivery, delivery')
  OBVIOUS
<1> DEFINE Rest ==
      /\ delivery' \in Deliveries /\ Advanced(delivery, delivery') /\ UNCHANGED reminderRows
      /\ eligible' \subseteq Recipients /\ near' \in BOOLEAN
      /\ rule'.status \in {"absent", "draft", "active", "inactive"} /\ rule'.targets \subseteq Recipients
      /\ asks' \subseteq Notes /\ acknowledged' \subseteq Recipients \X Notes
<1>1. NotificationsTypeOK /\ delivery \in Deliveries /\ Advanced(delivery, delivery)
  BY DEF NotificationsInv, NotificationsTypeOK, Deliveries, Advanced
<1>2. Rest => NotificationsInv' /\ Advanced(delivery, delivery')
  BY DeliveredInv
<1>3. CASE SendUrgentReminder BY <1>3, SendUrgentReminderInv
<1>4. CASE \E u \in Recipients : BeginList(u) \/ CommitList(u)
  BY <1>4, BeginListInv, CommitListInv
<1>5. CASE \E u \in Recipients, i \in DOMAIN posted : DismissReminder(u, i)
  BY <1>5, DismissReminderInv
<1>6. ASSUME NEW u \in Recipients, LoseList(u) PROVE NotificationsInv' /\ Advanced(delivery, delivery')
  <2>1. /\ listing' = [listing EXCEPT ![u] = 0]
        /\ UNCHANGED <<eligible, near, posted, dismissed, delivery, entitled, ruleRows>>
    BY <1>6 DEF LoseList
  <2>2. ShownPosted' /\ NotificationsTypeOK'
    BY <1>1, <2>1 DEF NotificationsInv, ShownPosted, NotificationsTypeOK, ruleRows, Notes, Kinds, Reminders
  <2>3. RemindersAgree' /\ Advanced(delivery, delivery')
    BY <1>1, <2>1 DEF NotificationsInv, RemindersAgree
  <2> QED BY <2>2, <2>3 DEF NotificationsInv
<1>7. CASE HolidayNears
  BY <1>1, <1>2, <1>7 DEF HolidayNears, NotificationsTypeOK, ruleRows
<1>8. ASSUME NEW u \in Recipients, ChangeEligibility(u) PROVE Rest
  BY <1>1, <1>8 DEF ChangeEligibility, NotificationsTypeOK, ruleRows
<1>9. ASSUME NEW u \in Recipients, NEW n \in Notes, MarkRead(u, n) PROVE Rest
  BY <1>1, <1>9, ReadEffect DEF MarkRead, NotificationsTypeOK, ruleRows
<1>10. ASSUME NEW u \in Recipients, MarkAllRead(u) PROVE Rest
  <2>1. \A n \in Notes : Read(n, {u}, delivery) \in Deliveries /\ Advanced(delivery, Read(n, {u}, delivery))
    BY <1>1, ReadEffect
  <2>2. delivery' = [n \in Notes |-> Read(n, {u}, delivery)[n]]
    BY <1>10 DEF MarkAllRead
  <2>3. delivery' \in Deliveries BY <2>1, <2>2 DEF Deliveries
  <2>4. Advanced(delivery, delivery') BY <2>1, <2>2 DEF Advanced
  <2> QED BY <1>1, <1>10, <2>3, <2>4 DEF MarkAllRead, NotificationsTypeOK, ruleRows
<1>11. ASSUME NEW u \in Recipients, NEW n \in Notes, Acknowledge(u, n) PROVE Rest
  BY <1>1, <1>11 DEF Acknowledge, NotificationsTypeOK
<1>12. ASSUME NEW targets \in SUBSET Recipients, NEW ack \in BOOLEAN, SaveRule(targets, ack) PROVE Rest
  BY <1>1, <1>12 DEF SaveRule, NotificationsTypeOK
<1>13. ASSUME NEW to \in {"active", "inactive"}, SetRuleStatus(to) PROVE Rest
  BY <1>1, <1>13 DEF SetRuleStatus, NotificationsTypeOK
<1>14. ASSUME NEW n \in {"event", "broadcast"}, NEW to, NEW ack, Notify(n, to, ack) PROVE Rest
  <2>1. n \in Notes BY DEF Notes
  <2>2. delivery' \in Deliveries /\ Advanced(delivery, delivery')
    BY <1>1, <1>14, <2>1, PersistEffect DEF Notify
  <2> QED BY <1>1, <1>14, <2>1, <2>2 DEF Notify, NotificationsTypeOK
<1>15. CASE DispatchSourceEvent
  BY <1>2, <1>14, <1>15 DEF DispatchSourceEvent
<1>16. CASE \E targets, ack : SendUrgent(targets, ack)
  BY <1>2, <1>14, <1>16 DEF SendUrgent
<1>17. CASE UNCHANGED notificationsVars
  BY <1>1, <1>17 DEF notificationsVars, NotificationsInv, NotificationsTypeOK, ShownPosted, RemindersAgree,
     Notes, Kinds, Reminders
<1>18. CASE ReminderNext
  BY <1>18, <1>2, <1>3, <1>4, <1>5, <1>6, <1>7, <1>8 DEF ReminderNext
<1>19. CASE RuleNext
  <2> HIDE DEF Rest
  <2> QED BY <1>19, <1>2, <1>8, <1>9, <1>10, <1>11, <1>12, <1>13, <1>15, <1>16 DEF RuleNext
<1> QED BY <1>17, <1>18, <1>19 DEF NotificationsNext

\* What is listed or was shown has been posted, and the reminders agree with the
\* deliveries (list_reminders, dismiss_reminder, dispatch_holiday_reminder).
THEOREM NotificationsInvariance == NotificationsSpec => []NotificationsInv
  BY NotificationsInitInv, NotificationsNextInv, PTL DEF NotificationsSpec

\* RemindersAgree holds for any number of recipients and of reminders: who was shown a
\* reminder has its delivery, and once he dismisses it that is read for good.
THEOREM RemindersAgreeHolds == NotificationsSpec => []RemindersAgree
<1>1. NotificationsInv => RemindersAgree BY DEF NotificationsInv
<1> QED BY <1>1, NotificationsInvariance, PTL

DeliveriesAdvance == [][Advanced(delivery, delivery')]_notificationsVars

\* DeliveriesAdvance holds too: no step takes a delivery back or makes a read one
\* unread.
THEOREM DeliveriesOnlyAdvance == NotificationsSpec => DeliveriesAdvance
<1>1. NotificationsInv /\ [NotificationsNext]_notificationsVars => [Advanced(delivery, delivery')]_notificationsVars
  BY NotificationsNextInv
<1> QED BY <1>1, NotificationsInvariance, PTL DEF NotificationsSpec, DeliveriesAdvance

-----------------------------------------------------------------------------
(***************************************************************************)
(* Reporting, for any number of cases, employees and managers.             *)
(***************************************************************************)

\* A dated history up to the instant now: one row follows upon the other and
\* only the last one is open.
Chain(rows, now) ==
  /\ \A i \in 1..Len(rows) : rows[i].from <= now
  /\ \A i, j \in 1..Len(rows) : i < j => rows[i].to # 0 /\ rows[i].to <= rows[j].from
  /\ \A i \in 1..Len(rows) : i < Len(rows) => rows[i].to = rows[i + 1].from
  /\ \A i \in 1..Len(rows) : i = Len(rows) => rows[i].to = 0

\* A filed case has had an owner since it was created; its dates are past and
\* those of its end go with its outcome.
Dated(c) ==
  /\ \A m \in Milestones :
       /\ fact[c].at[m] <= clock
       /\ fact[c].at[m] # 0 => fact[c].at["created"] <= fact[c].at[m]
  /\ \A t \in fact[c].returned : t <= clock /\ fact[c].at["created"] <= t
  /\ Chain(ownedBy[c], clock)
  /\ Filed(c) => ownedBy[c] # << >> /\ ownedBy[c][1].from <= fact[c].at["created"]
  /\ ~Filed(c) => /\ \A m \in Milestones : fact[c].at[m] = 0
                  /\ fact[c].outcome = "none" /\ fact[c].returned = {}
  /\ fact[c].at["terminal"] = 0 <=> fact[c].outcome = "none"
  /\ fact[c].at["funded"] # 0 => fact[c].outcome = "Completed"

ReportingInv == ReportingTypeOK /\ \A c \in CaseFiles : Dated(c)

\* The first of some positions.
LEMMA FirstExists ==
  ASSUME NEW I \in SUBSET Nat, I # {}
  PROVE  First(I) \in I
<1>1. PICK i \in I : \A j \in I : ~(<<j, i>> \in OpToRel(<, Nat))
  BY NatLessThanWellFounded, WFMin
<1>2. \A j \in I : i <= j
  <2> TAKE j \in I
  <2>1. i \in Nat /\ j \in Nat BY <1>1
  <2>2. ~(j < i) BY <1>1, <2>1 DEF OpToRel
  <2> QED BY <2>1, <2>2
<1>3. i \in I /\ \A j \in I : i <= j BY <1>1, <1>2
<1> QED BY <1>3 DEF First

\* In a history that has begun there is exactly one row at an instant.
LEMMA OneRowAt ==
  ASSUME NEW Values, NEW rows \in Seq(Span(Values)), NEW now \in Nat, NEW t \in Nat,
         Chain(rows, now), rows # << >>, rows[1].from <= t
  PROVE  \E i \in 1..Len(rows) : {k \in 1..Len(rows) : Contains(rows[k], t)} = {i}
<1> DEFINE S == {k \in 1..Len(rows) : rows[k].from <= t}
<1>1. Len(rows) \in Nat \ {0} /\ \A k \in 1..Len(rows) : rows[k] \in Span(Values)
  OBVIOUS
<1>2. 1 \in S BY <1>1
<1>3. S \in SUBSET (1..Len(rows)) /\ S # {} BY <1>2
<1>4. PICK i \in S : \A k \in S : k <= i
  <2> HIDE DEF S
  <2> QED BY <1>1, <1>3, LargestExists
<1>5. \A k \in 1..Len(rows) : rows[k].from \in Nat /\ rows[k].to \in Nat
  BY <1>1 DEF Span, Instants
<1>6. Contains(rows[i], t)
  <2>1. CASE i = Len(rows) BY <2>1, <1>1 DEF Contains, Chain
  <2>2. CASE i < Len(rows)
    <3>1. i + 1 \in 1..Len(rows) /\ i + 1 \notin S BY <1>1, <1>4, <2>2
    <3>2. rows[i + 1].from > t BY <3>1, <1>5
    <3>3. rows[i].to = rows[i + 1].from BY <2>2 DEF Chain
    <3> QED BY <3>2, <3>3, <1>5 DEF Contains
  <2> QED BY <1>1, <2>1, <2>2
<1>7. ASSUME NEW k \in 1..Len(rows), Contains(rows[k], t) PROVE k = i
  <2>1. k \in S BY <1>7 DEF Contains
  <2>2. k <= i BY <1>4, <2>1
  <2>3. CASE k < i
    <3>1. rows[k].to # 0 /\ rows[k].to <= rows[i].from BY <2>3 DEF Chain
    <3>2. t < rows[k].to BY <3>1, <1>7 DEF Contains
    <3> QED BY <3>1, <3>2, <1>5
  <2> QED BY <2>2, <2>3
<1> QED BY <1>6, <1>7

\* ... and what it says is attributed.
LEMMA AttributedAt ==
  ASSUME NEW Values, NEW rows \in Seq(Span(Values)), NEW now \in Nat, NEW t \in Nat,
         Chain(rows, now), rows # << >>, rows[1].from <= t
  PROVE  /\ AttributionAt(rows, t) \in Values
         /\ Resolved(rows, t) = {AttributionAt(rows, t)}
<1> DEFINE covering == {k \in 1..Len(rows) : Contains(rows[k], t)}
<1>1. PICK i \in 1..Len(rows) : covering = {i} BY OneRowAt
<1>2. First(covering) = i
  <2>1. First({i}) = i BY DEF First
  <2> QED BY <1>1, <2>1
<1>3. AttributionAt(rows, t) = rows[i].value
  BY <1>1, <1>2 DEF AttributionAt
<1>4. rows[i].value \in Values
  <2>1. rows[i] \in Span(Values) BY <1>1
  <2> QED BY <2>1 DEF Span
<1>5. Cardinality(covering) = 1 BY <1>1, FS_Singleton
<1>6. Resolved(rows, t) = {rows[k].value : k \in covering}
  BY <1>5 DEF Resolved
<1>7. {rows[k].value : k \in covering} = {rows[i].value} BY <1>1
<1> QED BY <1>3, <1>4, <1>6, <1>7

\* The types of what is kept of a case.
LEMMA CaseTypes ==
  ASSUME ReportingTypeOK, NEW c \in CaseFiles
  PROVE  /\ clock \in Nat /\ LastInstant \in Nat
         /\ fact[c] \in Fact
         /\ \A m \in Milestones : fact[c].at[m] \in Nat
         /\ fact[c].returned \in SUBSET Nat
         /\ ownedBy[c] \in Seq(Span(Credit))
<1>1. clock \in Nat /\ LastInstant \in Nat
  BY ReportingAssumption DEF ReportingTypeOK, Instants
<1>2. fact[c] \in Fact /\ ownedBy[c] \in Seq(Span(Credit))
  BY DEF ReportingTypeOK
<1>3. fact[c].at \in [Milestones -> Instants] /\ fact[c].returned \in SUBSET Instants
  BY <1>2 DEF Fact
<1> QED BY <1>1, <1>2, <1>3 DEF Instants

\* What the reports and finance say of the owner and the manager at an instant at
\* which the case existed.
LEMMA PaidAsCredited ==
  ASSUME ReportingInv, NEW c \in CaseFiles, NEW t \in Nat, Filed(c),
         fact[c].at["created"] <= t
  PROVE  /\ CreditAt(c, t) \in Credit
         /\ OwnerAt(c, t) \in Credited
         /\ PaidOwner(c, t) = {OwnerAt(c, t)}
         /\ PaidManager(c, t) \subseteq {ManagerAt(OwnerAt(c, t), t)}
<1>1. ownedBy[c] \in Seq(Span(Credit)) /\ clock \in Nat /\ fact[c].at["created"] \in Nat
  BY CaseTypes DEF ReportingInv, Milestones
<1>2. Dated(c) BY DEF ReportingInv
<1>3. ownedBy[c][1].from <= fact[c].at["created"] /\ ownedBy[c] # << >>
  BY <1>2 DEF Dated
<1>4. ownedBy[c][1].from \in Nat
  <2>1. ownedBy[c][1] \in Span(Credit) BY <1>1, <1>3
  <2> QED BY <2>1, ReportingAssumption DEF Span, Instants
<1>5. ownedBy[c][1].from <= t BY <1>1, <1>3, <1>4
<1>6. Chain(ownedBy[c], clock) BY <1>2 DEF Dated
<1>7. CreditAt(c, t) \in Credit /\ Resolved(ownedBy[c], t) = {CreditAt(c, t)}
  BY <1>1, <1>3, <1>5, <1>6, AttributedAt DEF CreditAt
<1>8. OwnerAt(c, t) \in Credited BY <1>7 DEF OwnerAt, Credit
<1>9. OwnerAt(c, t) \in Staff /\ PaidOwner(c, t) = {OwnerAt(c, t)}
  BY <1>7, <1>8 DEF OwnerAt, PaidOwner, Staff
<1> DEFINE u == OwnerAt(c, t)
           covering == {i \in 1..Len(chiefSpans[u]) : Contains(chiefSpans[u][i], t)}
<1>10. PaidManager(c, t) \subseteq Resolved(chiefSpans[u], t) BY <1>9 DEF PaidManager
<1>11. ASSUME Cardinality(covering) = 1 PROVE Resolved(chiefSpans[u], t) \subseteq {ManagerAt(u, t)}
  <2>1. chiefSpans[u] \in Seq(Span(Chiefs \cup {Nobody}))
    BY <1>9 DEF ReportingInv, ReportingTypeOK
  <2>2. Len(chiefSpans[u]) \in Nat
    <3> HIDE DEF u
    <3> QED BY <2>1
  <2>3. IsFiniteSet(covering)
    <3>1. IsFiniteSet(1..Len(chiefSpans[u])) BY <2>2, FS_Interval
    <3>2. covering \subseteq 1..Len(chiefSpans[u]) OBVIOUS
    <3> HIDE DEF covering, u
    <3> QED BY <3>1, <3>2, FS_Subset
  <2>4. PICK i : covering = {i}
    <3> HIDE DEF covering, u
    <3> QED BY <2>3, <1>11, FS_Singleton
  <2>5. First(covering) = i
    <3>1. First({i}) = i
      <4>1. i \in covering BY <2>4
      <4>2. i \in Int BY <4>1
      <4> QED BY <4>2 DEF First
    <3> QED BY <2>4, <3>1
  <2>6. ManagerAt(u, t) = chiefSpans[u][i].value BY <2>4, <2>5 DEF ManagerAt
  <2>7. Resolved(chiefSpans[u], t) \subseteq {chiefSpans[u][k].value : k \in covering}
    BY DEF Resolved
  <2> QED BY <2>4, <2>6, <2>7
<1>12. ASSUME Cardinality(covering) # 1 PROVE Resolved(chiefSpans[u], t) = {}
  BY <1>12 DEF Resolved
<1> QED BY <1>7, <1>8, <1>9, <1>10, <1>11, <1>12

\* Sets of cases that are apart.
LEMMA ThreeApart ==
  ASSUME NEW S, IsFiniteSet(S), NEW A \in SUBSET S, NEW B \in SUBSET S, NEW C \in SUBSET S,
         A \cap B = {}, A \cap C = {}, B \cap C = {}
  PROVE  Cardinality(A) + Cardinality(B) + Cardinality(C) <= Cardinality(S)
<1>1. IsFiniteSet(A) /\ IsFiniteSet(B) /\ IsFiniteSet(C) BY FS_Subset
<1>2. IsFiniteSet(A \cup B)
      /\ Cardinality(A \cup B) = Cardinality(A) + Cardinality(B) - Cardinality(A \cap B)
  BY <1>1, FS_Union
<1>3. (A \cup B) \cap C = {} OBVIOUS
<1>4. Cardinality((A \cup B) \cup C)
        = Cardinality(A \cup B) + Cardinality(C) - Cardinality((A \cup B) \cap C)
  BY <1>1, <1>2, FS_Union
<1>5. (A \cup B) \cup C \in SUBSET S OBVIOUS
<1>6. Cardinality((A \cup B) \cup C) <= Cardinality(S) BY <1>5, FS_Subset
<1>7. Cardinality({}) = 0 BY FS_EmptySet
<1>8. /\ Cardinality(A) \in Nat /\ Cardinality(B) \in Nat /\ Cardinality(C) \in Nat
      /\ Cardinality(A \cup B) \in Nat /\ Cardinality(S) \in Nat
      /\ Cardinality((A \cup B) \cup C) \in Nat
  <2>1. IsFiniteSet((A \cup B) \cup C) BY <1>5, FS_Subset
  <2> QED BY <1>1, <1>2, <2>1, FS_CardinalityType
<1>9. Cardinality(A \cap B) = 0 /\ Cardinality((A \cup B) \cap C) = 0
  BY <1>3, <1>7, Zenon
<1>10. /\ Cardinality(A \cup B) = Cardinality(A) + Cardinality(B)
       /\ Cardinality((A \cup B) \cup C) = Cardinality(A \cup B) + Cardinality(C)
  BY <1>2, <1>4, <1>8, <1>9
<1> QED BY <1>6, <1>8, <1>10

\* What the views of the whole company load and show.
LEMMA ViewsShow ==
  /\ \A x, t : Visible(Company, x, t)
  /\ \A u, x, t : Visible(Own(u), x, t) <=> x.owner = u
  /\ \A o, x, t : Visible(OfficeView(o), x, t) <=> x.office = o
  /\ \A m, x, t : Visible(TeamView(m), x, t) <=> m \in {x.owner} \cup Superiors(x.owner, t)
  /\ Loaded(Company) = CaseFiles
  /\ \A u : Loaded(Own(u)) = CaseFiles /\ Loaded(OfficeView(u)) = CaseFiles
            /\ Loaded(TeamView(u)) = CaseFiles
<1>1. Company.scope = "company" BY DEF Company
<1>2. \A u : Own(u).scope = "own" /\ Own(u).of = u BY DEF Own
<1>3. \A o : OfficeView(o).scope = "office" /\ OfficeView(o).of = o BY DEF OfficeView
<1>4. \A m : TeamView(m).scope = "team" /\ TeamView(m).of = m BY DEF TeamView
<1> QED BY <1>1, <1>2, <1>3, <1>4 DEF Visible, Loaded

\* A milestone of a window says when it was reached, and of a filed case.
LEMMA MilestoneIs ==
  ASSUME ReportingInv, NEW m \in Milestones, NEW w \in Windows, NEW c \in CaseFiles
  PROVE  /\ c \in Milestone(m, w, Company)
              <=> fact[c].at[m] > 0 /\ w.from <= fact[c].at[m] /\ fact[c].at[m] <= w.to
         /\ \A u : c \in Milestone(m, w, Own(u))
              <=> c \in Milestone(m, w, Company) /\ OwnerAt(c, fact[c].at[m]) = u
         /\ \A o : c \in Milestone(m, w, OfficeView(o))
              <=> c \in Milestone(m, w, Company) /\ CreditAt(c, fact[c].at[m]).office = o
         /\ \A y : c \in Milestone(m, w, TeamView(y))
              <=> /\ c \in Milestone(m, w, Company)
                  /\ y \in {OwnerAt(c, fact[c].at[m])}
                           \cup Superiors(OwnerAt(c, fact[c].at[m]), fact[c].at[m])
         /\ fact[c].at[m] > 0 =>
              Filed(c) /\ CreditAt(c, fact[c].at[m]) \in Credit /\ OwnerAt(c, fact[c].at[m]) \in Credited
<1>1. \A view : c \in Milestone(m, w, view) <=>
        /\ c \in Loaded(view) /\ fact[c].at[m] > 0 /\ Within(fact[c].at[m], w)
        /\ Visible(view, CreditAt(c, fact[c].at[m]), fact[c].at[m])
  BY DEF Milestone, Loaded
<1>2. CreditAt(c, fact[c].at[m]).owner = OwnerAt(c, fact[c].at[m]) BY DEF OwnerAt
<1>3. ASSUME fact[c].at[m] > 0
      PROVE  Filed(c) /\ CreditAt(c, fact[c].at[m]) \in Credit /\ OwnerAt(c, fact[c].at[m]) \in Credited
  <2>1. fact[c].at[m] \in Nat /\ fact[c].at["created"] \in Nat
    BY CaseTypes DEF ReportingInv, Milestones
  <2>2. Dated(c) BY DEF ReportingInv
  <2>3. Filed(c) BY <1>3, <2>2 DEF Dated
  <2>4. fact[c].at["created"] <= fact[c].at[m] BY <1>3, <2>1, <2>2 DEF Dated
  <2> QED BY <2>1, <2>3, <2>4, PaidAsCredited
<1>4. c \in Milestone(m, w, Company)
        <=> fact[c].at[m] > 0 /\ w.from <= fact[c].at[m] /\ fact[c].at[m] <= w.to
  BY <1>1, ViewsShow DEF Within
<1>5. \A u : c \in Milestone(m, w, Own(u))
        <=> c \in Milestone(m, w, Company) /\ OwnerAt(c, fact[c].at[m]) = u
  BY <1>1, <1>2, ViewsShow
<1>6. \A o : c \in Milestone(m, w, OfficeView(o))
        <=> c \in Milestone(m, w, Company) /\ CreditAt(c, fact[c].at[m]).office = o
  BY <1>1, ViewsShow
<1>7. \A y : c \in Milestone(m, w, TeamView(y))
        <=> /\ c \in Milestone(m, w, Company)
            /\ y \in {OwnerAt(c, fact[c].at[m])}
                     \cup Superiors(OwnerAt(c, fact[c].at[m]), fact[c].at[m])
  BY <1>1, <1>2, ViewsShow
<1> QED BY <1>3, <1>4, <1>5, <1>6, <1>7

\* What is pending at the end of a window is what existed and had not ended.
LEMMA PendingIs ==
  ASSUME ReportingInv, NEW w \in Windows, NEW c \in CaseFiles
  PROVE  /\ OpenAt(c, w.to) <=> c \in Pending(w, Company)
         /\ Filed(c) /\ fact[c].at["created"] <= w.to =>
              (c \in Pending(w, Company)
                <=> c \notin Milestone("terminal", [w EXCEPT !.from = 1], Company))
<1>1. (\A x, t : Visible(Company, x, t)) /\ Loaded(Company) = CaseFiles BY ViewsShow
<1>2. c \in Pending(w, Company) <=> PendingAt(c, w.to) BY <1>1 DEF Pending
<1>3. Dated(c) BY DEF ReportingInv
<1>4. fact[c].at["created"] \in Nat /\ fact[c].at["terminal"] \in Nat
  BY CaseTypes DEF ReportingInv, Milestones
<1>5. w.from \in 1..LastInstant /\ w.to \in 1..LastInstant /\ LastInstant \in Nat
  BY ReportingAssumption DEF Windows
<1>6. fact[c].at["terminal"] = 0 <=> fact[c].outcome = "none" BY <1>3 DEF Dated
<1>7. OpenAt(c, w.to) <=> PendingAt(c, w.to)
  BY <1>4, <1>5, <1>6 DEF OpenAt, PendingAt, Filed
<1> DEFINE before == [w EXCEPT !.from = 1]
<1>8. w \in [from: 1..LastInstant, to: 1..LastInstant] BY DEF Windows
<1>9. before = [from |-> 1, to |-> w.to] BY <1>8
<1>10. before.from = 1 /\ before.to = w.to BY <1>9
<1>11. c \in Milestone("terminal", before, Company)
        <=> fact[c].at["terminal"] > 0 /\ Within(fact[c].at["terminal"], before)
  BY <1>1 DEF Milestone
<1>12. Within(fact[c].at["terminal"], before)
        <=> 1 <= fact[c].at["terminal"] /\ fact[c].at["terminal"] <= w.to
  BY <1>10 DEF Within
<1>13. Filed(c) /\ fact[c].at["created"] <= w.to =>
         (PendingAt(c, w.to) <=> c \notin Milestone("terminal", before, Company))
  BY <1>4, <1>5, <1>11, <1>12 DEF PendingAt
<1> QED BY <1>2, <1>7, <1>13

\* The cases of a window that ended, and those that were funded, are submissions of it.
LEMMA CohortsApart ==
  ASSUME ReportingInv, NEW w \in Windows
  PROVE  Cardinality(CohortTerminal("Final Rejected", w, Company))
           + Cardinality(CohortTerminal("Withdrawn", w, Company))
           + Cardinality(CohortReached("submitted", "funded", w, Company))
           <= Cardinality(Milestone("submitted", w, Company))
<1> DEFINE S == Milestone("submitted", w, Company)
           A == CohortTerminal("Final Rejected", w, Company)
           B == CohortTerminal("Withdrawn", w, Company)
           C == CohortReached("submitted", "funded", w, Company)
<1>1. IsFiniteSet(S)
  <2>1. S \subseteq CaseFiles BY DEF Milestone, Loaded
  <2> QED BY <2>1, ReportingAssumption, FS_Subset
<1>2. A \in SUBSET S /\ B \in SUBSET S /\ C \in SUBSET S
  BY DEF CohortTerminal, CohortReached
<1>3. \A c \in A : fact[c].outcome = "Final Rejected" BY DEF CohortTerminal
<1>4. \A c \in B : fact[c].outcome = "Withdrawn" BY DEF CohortTerminal
<1>5. \A c \in C : fact[c].outcome = "Completed"
  <2> SUFFICES ASSUME NEW c \in C PROVE fact[c].outcome = "Completed" OBVIOUS
  <2>1. c \in CaseFiles /\ fact[c].at["funded"] > 0
    BY DEF CohortReached, ReachedByCutoff, Milestone, Loaded
  <2>2. Dated(c) BY <2>1 DEF ReportingInv
  <2>3. fact[c].at["funded"] \in Nat BY <2>1, CaseTypes DEF ReportingInv, Milestones
  <2> QED BY <2>1, <2>2, <2>3 DEF Dated
<1>6. A \cap B = {} /\ A \cap C = {} /\ B \cap C = {} BY <1>3, <1>4, <1>5
<1> HIDE DEF A, B, C, S
<1>7. Cardinality(A) + Cardinality(B) + Cardinality(C) <= Cardinality(S)
  BY <1>1, <1>2, <1>6, ThreeApart
<1> QED BY <1>7 DEF A, B, C, S

\* Where there is a window there is, at each instant inside, one that ends there
\* and one that begins after.
LEMMA SplitWindow ==
  ASSUME NEW w \in Windows, NEW t \in w.from..w.to - 1, LastInstant \in Nat
  PROVE  /\ [w EXCEPT !.to = t] \in Windows /\ [w EXCEPT !.from = t + 1] \in Windows
         /\ [w EXCEPT !.to = t].from = w.from /\ [w EXCEPT !.to = t].to = t
         /\ [w EXCEPT !.from = t + 1].from = t + 1 /\ [w EXCEPT !.from = t + 1].to = w.to
<1>1. w \in [from: 1..LastInstant, to: 1..LastInstant] /\ w.from <= w.to BY DEF Windows
<1>2. t \in 1..LastInstant /\ t + 1 \in 1..LastInstant /\ w.from <= t /\ t + 1 <= w.to
  BY <1>1
<1>3. /\ [w EXCEPT !.to = t] = [from |-> w.from, to |-> t]
      /\ [w EXCEPT !.from = t + 1] = [from |-> t + 1, to |-> w.to]
  BY <1>1
<1> QED BY <1>1, <1>2, <1>3 DEF Windows

\* The manager of somebody above u, or of u, is above u.
LEMMA AboveClimbs ==
  ASSUME NEW boss, NEW u, NEW x, x = u \/ x \in Above(boss, u), boss[x] \in Chiefs
  PROVE  boss[x] \in Above(boss, u)
<1> SUFFICES ASSUME NEW S \in SUBSET Chiefs, \A y \in S \cup {u} : boss[y] \in S \cup {Nobody}
             PROVE  boss[x] \in S
  BY DEF Above
<1>1. boss[x] # Nobody BY ReportingAssumption DEF Staff
<1>2. x \in S \cup {u}
  <2>1. CASE x \in Above(boss, u) BY <2>1 DEF Above
  <2> QED BY <2>1
<1> QED BY <1>1, <1>2

\* Whoever is above u at an instant has his manager above u as well.
LEMMA RollsUp ==
  ASSUME ReportingInv, NEW m \in Milestones, NEW w \in Windows, NEW x \in Staff,
         NEW c \in Milestone(m, w, TeamView(x)), NEW y \in Chiefs,
         ManagerAt(x, fact[c].at[m]) = y
  PROVE  c \in Milestone(m, w, TeamView(y))
<1> DEFINE t == fact[c].at[m]
           u == OwnerAt(c, t)
           boss == [z \in Staff |-> ManagerAt(z, t)]
<1>1. c \in CaseFiles BY DEF Milestone, Loaded
<1>2. c \in Milestone(m, w, Company) /\ x \in {u} \cup Superiors(u, t) BY <1>1, MilestoneIs
<1>3. Superiors(u, t) = Above(boss, u) BY DEF Superiors
<1>4. boss[x] = y OBVIOUS
<1> HIDE DEF boss, u, t
<1>5. y \in Superiors(u, t) BY <1>2, <1>3, <1>4, AboveClimbs
<1> QED BY <1>1, <1>2, <1>5, MilestoneIs DEF u, t

LEMMA MilestonesAddUp ==
  ASSUME ReportingInv, NEW m \in Milestones, NEW w \in Windows
  PROVE  /\ Milestone(m, w, Company) = UNION {Milestone(m, w, Own(u)) : u \in Credited}
         /\ \A u, v \in Credited : u # v => Milestone(m, w, Own(u)) \cap Milestone(m, w, Own(v)) = {}
         /\ \A u \in Credited : Value(m, w, u) = Cardinality(Milestone(m, w, Own(u)))
         /\ Milestone(m, w, Company) = UNION {Milestone(m, w, OfficeView(o)) : o \in Offices}
         /\ \A o, p \in Offices : o # p =>
              Milestone(m, w, OfficeView(o)) \cap Milestone(m, w, OfficeView(p)) = {}
         /\ \A x \in Staff : \A c \in Milestone(m, w, TeamView(x)) :
              \A y \in Chiefs : ManagerAt(x, fact[c].at[m]) = y => c \in Milestone(m, w, TeamView(y))
         /\ \A t \in w.from..w.to - 1 :
              LET before == [w EXCEPT !.to = t]
                  after == [w EXCEPT !.from = t + 1]
              IN /\ Milestone(m, before, Company) \cup Milestone(m, after, Company) = Milestone(m, w, Company)
                 /\ Milestone(m, before, Company) \cap Milestone(m, after, Company) = {}
<1>1. \A v, view : Milestone(m, v, view) \subseteq CaseFiles BY DEF Milestone, Loaded
<1>2. Milestone(m, w, Company) = UNION {Milestone(m, w, Own(u)) : u \in Credited}
  <2>1. ASSUME NEW c \in Milestone(m, w, Company) PROVE \E u \in Credited : c \in Milestone(m, w, Own(u))
    <3>1. c \in CaseFiles BY <1>1
    <3>2. OwnerAt(c, fact[c].at[m]) \in Credited BY <2>1, <3>1, MilestoneIs
    <3>3. c \in Milestone(m, w, Own(OwnerAt(c, fact[c].at[m]))) BY <2>1, <3>1, MilestoneIs
    <3> QED BY <3>2, <3>3
  <2>2. ASSUME NEW u \in Credited, NEW c \in Milestone(m, w, Own(u)) PROVE c \in Milestone(m, w, Company)
    <3>1. c \in CaseFiles BY <1>1
    <3> QED BY <2>2, <3>1, MilestoneIs
  <2> QED BY <2>1, <2>2
<1>3. ASSUME NEW u \in Credited, NEW v \in Credited, u # v
      PROVE  Milestone(m, w, Own(u)) \cap Milestone(m, w, Own(v)) = {}
  <2> SUFFICES ASSUME NEW c \in Milestone(m, w, Own(u)), c \in Milestone(m, w, Own(v)) PROVE FALSE
    OBVIOUS
  <2>1. c \in CaseFiles BY <1>1
  <2>2. OwnerAt(c, fact[c].at[m]) = u /\ OwnerAt(c, fact[c].at[m]) = v BY <2>1, MilestoneIs
  <2> QED BY <1>3, <2>2
<1>4. ASSUME NEW u \in Credited PROVE Value(m, w, u) = Cardinality(Milestone(m, w, Own(u)))
  <2> DEFINE counted == {c \in Milestone(m, w, Company) : OwnerAt(c, fact[c].at[m]) = u}
  <2>1. \A c : c \in counted <=> c \in Milestone(m, w, Own(u))
    <3> TAKE c
    <3>1. CASE c \in CaseFiles BY <3>1, MilestoneIs
    <3>2. CASE c \notin CaseFiles BY <3>2, <1>1
    <3> QED BY <3>1, <3>2
  <2>2. counted = Milestone(m, w, Own(u)) BY <2>1
  <2>3. Value(m, w, u) = Cardinality(counted) BY DEF Value
  <2> QED BY <2>2, <2>3
<1>5. ASSUME NEW t \in w.from..w.to - 1
      PROVE  LET before == [w EXCEPT !.to = t]
                 after == [w EXCEPT !.from = t + 1]
             IN /\ Milestone(m, before, Company) \cup Milestone(m, after, Company) = Milestone(m, w, Company)
                /\ Milestone(m, before, Company) \cap Milestone(m, after, Company) = {}
  <2> DEFINE before == [w EXCEPT !.to = t]
             after == [w EXCEPT !.from = t + 1]
  <2>1. LastInstant \in Nat BY ReportingAssumption
  <2>2. before \in Windows /\ after \in Windows BY <2>1, SplitWindow
  <2>3. before.from = w.from /\ before.to = t /\ after.from = t + 1 /\ after.to = w.to
    BY <2>1, SplitWindow
  <2>4. t \in Int /\ w.from \in Int /\ w.to \in Int /\ w.from <= t /\ t < w.to
    BY <2>1 DEF Windows
  <2> HIDE DEF before, after
  <2>5. ASSUME NEW c \in CaseFiles
        PROVE  /\ c \in Milestone(m, w, Company)
                    <=> (c \in Milestone(m, before, Company) \/ c \in Milestone(m, after, Company))
               /\ ~(c \in Milestone(m, before, Company) /\ c \in Milestone(m, after, Company))
    <3> DEFINE d == fact[c].at[m]
    <3>1. d \in Nat BY CaseTypes DEF ReportingInv
    <3>2. c \in Milestone(m, w, Company) <=> d > 0 /\ w.from <= d /\ d <= w.to BY MilestoneIs
    <3>3. c \in Milestone(m, before, Company) <=> d > 0 /\ w.from <= d /\ d <= t
      BY <2>2, <2>3, MilestoneIs
    <3>4. c \in Milestone(m, after, Company) <=> d > 0 /\ t + 1 <= d /\ d <= w.to
      BY <2>2, <2>3, MilestoneIs
    <3> HIDE DEF d
    <3> QED BY <2>4, <3>1, <3>2, <3>3, <3>4
  <2>6. /\ Milestone(m, before, Company) \cup Milestone(m, after, Company) = Milestone(m, w, Company)
        /\ Milestone(m, before, Company) \cap Milestone(m, after, Company) = {}
    BY <1>1, <2>5
  <2> QED BY <2>6 DEF before, after
<1>6. Milestone(m, w, Company) = UNION {Milestone(m, w, OfficeView(o)) : o \in Offices}
  <2>1. ASSUME NEW c \in Milestone(m, w, Company)
        PROVE  \E o \in Offices : c \in Milestone(m, w, OfficeView(o))
    <3> DEFINE o == CreditAt(c, fact[c].at[m]).office
    <3>1. c \in CaseFiles BY <1>1
    <3>2. CreditAt(c, fact[c].at[m]) \in Credit BY <2>1, <3>1, MilestoneIs
    <3>3. o \in Offices BY <3>2 DEF Credit
    <3>4. c \in Milestone(m, w, OfficeView(o)) BY <2>1, <3>1, MilestoneIs
    <3> QED BY <3>3, <3>4
  <2>2. ASSUME NEW o \in Offices, NEW c \in Milestone(m, w, OfficeView(o))
        PROVE  c \in Milestone(m, w, Company)
    <3>1. c \in CaseFiles BY <1>1
    <3> QED BY <2>2, <3>1, MilestoneIs
  <2> QED BY <2>1, <2>2
<1>7. ASSUME NEW o \in Offices, NEW p \in Offices, o # p
      PROVE  Milestone(m, w, OfficeView(o)) \cap Milestone(m, w, OfficeView(p)) = {}
  <2> SUFFICES ASSUME NEW c \in Milestone(m, w, OfficeView(o)), c \in Milestone(m, w, OfficeView(p))
               PROVE  FALSE
    OBVIOUS
  <2>1. c \in CaseFiles BY <1>1
  <2>2. CreditAt(c, fact[c].at[m]).office = o /\ CreditAt(c, fact[c].at[m]).office = p
    BY <2>1, MilestoneIs
  <2> QED BY <1>7, <2>2
<1> QED BY <1>2, <1>3, <1>4, <1>5, <1>6, <1>7, RollsUp

LEMMA FiguresFollow == ReportingInv => FiguresAddUp
<1> SUFFICES ASSUME ReportingInv PROVE FiguresAddUp
  OBVIOUS
<1>1. clock \in Nat BY ReportingAssumption DEF ReportingInv, ReportingTypeOK, Instants
<1>2. ASSUME NEW c \in CaseFiles, NEW t \in 1..clock, Filed(c), fact[c].at["created"] <= t
      PROVE  /\ PaidOwner(c, t) = {OwnerAt(c, t)}
             /\ PaidManager(c, t) \subseteq {ManagerAt(OwnerAt(c, t), t)}
  <2>1. t \in Nat BY <1>1
  <2> QED BY <1>2, <2>1, PaidAsCredited
<1>3. ASSUME NEW w \in Windows
      PROVE  /\ \A c \in CaseFiles : OpenAt(c, w.to) <=> c \in Pending(w, Company)
             /\ \A c \in CaseFiles : Filed(c) /\ fact[c].at["created"] <= w.to =>
                  (c \in Pending(w, Company)
                    <=> c \notin Milestone("terminal", [w EXCEPT !.from = 1], Company))
  BY PendingIs
<1> QED BY <1>2, <1>3, MilestonesAddUp, CohortsApart DEF FiguresAddUp

\* A history with one more row.
LEMMA SucceedIs ==
  ASSUME NEW Values, NEW rows \in Seq(Span(Values)), NEW u \in Values, Now \in Instants, clock \in Nat
  PROVE  /\ Succeed(rows, u) \in Seq(Span(Values))
         /\ Len(rows) \in Nat /\ Len(Succeed(rows, u)) = Len(rows) + 1
         /\ \A i \in 1..Len(rows) :
              /\ rows[i] \in Span(Values)
              /\ Succeed(rows, u)[i].value = rows[i].value
              /\ Succeed(rows, u)[i].from = rows[i].from
              /\ Succeed(rows, u)[i].to = IF rows[i].to = 0 THEN Now ELSE rows[i].to
         /\ Succeed(rows, u)[Len(rows) + 1] = [value |-> u, from |-> Now, to |-> 0]
<1> DEFINE n == Len(rows)
           closed == [i \in 1..n |-> IF rows[i].to = 0 THEN [rows[i] EXCEPT !.to = Now] ELSE rows[i]]
           row == [value |-> u, from |-> Now, to |-> 0]
<1>1. n \in Nat /\ \A i \in 1..n : rows[i] \in Span(Values)
  BY LenProperties, ElementOfSeq
<1>2. 0 \in Instants BY ReportingAssumption DEF Instants
<1>3. row \in Span(Values) BY <1>2 DEF Span
<1>4. ASSUME NEW i \in 1..n
      PROVE  /\ closed[i] \in Span(Values)
             /\ closed[i].value = rows[i].value /\ closed[i].from = rows[i].from
             /\ closed[i].to = IF rows[i].to = 0 THEN Now ELSE rows[i].to
  <2>1. rows[i] \in [value: Values, from: Instants, to: Instants] BY <1>1 DEF Span
  <2>2. closed[i] = IF rows[i].to = 0 THEN [rows[i] EXCEPT !.to = Now] ELSE rows[i]
    OBVIOUS
  <2>3. rows[i] = [value |-> rows[i].value, from |-> rows[i].from, to |-> rows[i].to]
    BY <2>1
  <2>4. [rows[i] EXCEPT !.to = Now] = [value |-> rows[i].value, from |-> rows[i].from, to |-> Now]
    BY <2>1
  <2> HIDE DEF closed
  <2> QED BY <2>1, <2>2, <2>4 DEF Span
<1>5. closed \in [1..n -> Span(Values)]
  <2>1. closed = [i \in 1..n |-> closed[i]] OBVIOUS
  <2> HIDE DEF closed
  <2> QED BY <1>4, <2>1
<1>6. closed \in Seq(Span(Values))
  <2> HIDE DEF closed, n
  <2> QED BY <1>1, <1>5, SeqDef
<1>7. Len(closed) = n
  <2>1. DOMAIN closed = 1..n OBVIOUS
  <2>2. Len(closed) \in Nat /\ DOMAIN closed = 1..Len(closed) BY <1>6, LenProperties
  <2> HIDE DEF closed, n
  <2> QED BY <1>1, <2>1, <2>2
<1>8. Succeed(rows, u) = Append(closed, row) BY DEF Succeed
<1> HIDE DEF closed, n, row
<1>9. /\ Append(closed, row) \in Seq(Span(Values))
      /\ Len(Append(closed, row)) = Len(closed) + 1
      /\ \A i \in 1..Len(closed) : Append(closed, row)[i] = closed[i]
      /\ Append(closed, row)[Len(closed) + 1] = row
  BY <1>3, <1>6, AppendProperties
<1>10. \A i \in 1..n : Succeed(rows, u)[i] = closed[i] BY <1>7, <1>8, <1>9
<1>11. Succeed(rows, u)[n + 1] = row BY <1>7, <1>8, <1>9
<1>12. Succeed(rows, u) \in Seq(Span(Values)) /\ Len(Succeed(rows, u)) = n + 1
  BY <1>7, <1>8, <1>9
<1> QED BY <1>1, <1>4, <1>10, <1>11, <1>12 DEF n, row

\* It is a history up to the present.
LEMMA SucceedChain ==
  ASSUME NEW Values, NEW rows \in Seq(Span(Values)), NEW u \in Values, Now \in Instants, clock \in Nat,
         Chain(rows, clock)
  PROVE  /\ Chain(Succeed(rows, u), Now)
         /\ Succeed(rows, u) # << >>
         /\ Succeed(rows, u)[1].from = IF rows = << >> THEN Now ELSE rows[1].from
<1> DEFINE n == Len(rows)
           more == Succeed(rows, u)
<1>1. /\ n \in Nat /\ Len(more) = n + 1
      /\ \A i \in 1..n :
           /\ rows[i] \in Span(Values) /\ more[i].from = rows[i].from
           /\ more[i].to = IF rows[i].to = 0 THEN Now ELSE rows[i].to
      /\ more[n + 1] = [value |-> u, from |-> Now, to |-> 0]
      /\ more \in Seq(Span(Values))
  BY SucceedIs
<1>2. \A i \in 1..n : rows[i].from \in Nat /\ rows[i].to \in Nat
  <2> TAKE i \in 1..n
  <2>1. rows[i] \in [value: Values, from: Instants, to: Instants] BY <1>1 DEF Span
  <2>2. Instants \subseteq Nat BY ReportingAssumption DEF Instants
  <2> HIDE DEF n
  <2> QED BY <2>1, <2>2
<1>3. more[n + 1].from = Now /\ more[n + 1].to = 0 BY <1>1
<1>4. /\ \A i \in 1..n : rows[i].from <= clock
      /\ \A i, j \in 1..n : i < j => rows[i].to # 0 /\ rows[i].to <= rows[j].from
      /\ \A i \in 1..n : i < n => rows[i].to = rows[i + 1].from
      /\ \A i \in 1..n : i = n => rows[i].to = 0
  BY DEF Chain
<1>5. Now = clock + 1 BY DEF Now
<1>6. rows = << >> <=> n = 0
  <2>1. rows = << >> => Len(rows) = 0 BY EmptySeq
  <2>2. rows # << >> => Len(rows) \in Nat \ {0} BY EmptySeq
  <2> QED BY <2>1, <2>2
<1> HIDE DEF n, more
<1>7. \A i \in 1..n + 1 : i \in 1..n \/ i = n + 1 BY <1>1
<1>8. \A i \in 1..n + 1 : more[i].from <= Now
  <2> TAKE i \in 1..n + 1
  <2>1. CASE i \in 1..n
    <3>1. more[i].from = rows[i].from /\ rows[i].from <= clock /\ rows[i].from \in Nat
      BY <1>1, <1>2, <1>4, <2>1
    <3> QED BY <3>1, <1>5
  <2>2. CASE i = n + 1 BY <2>2, <1>3, <1>5
  <2> QED BY <2>1, <2>2, <1>7
<1>9. ASSUME NEW i \in 1..n + 1, NEW j \in 1..n + 1, i < j
      PROVE  more[i].to # 0 /\ more[i].to <= more[j].from
  <2>1. i \in 1..n BY <1>1, <1>9
  <2>2. CASE j \in 1..n
    <3>1. rows[i].to # 0 /\ rows[i].to <= rows[j].from BY <2>1, <2>2, <1>4, <1>9
    <3> QED BY <1>1, <2>1, <2>2, <3>1
  <2>3. CASE j = n + 1
    <3>1. CASE rows[i].to = 0
      <4>1. more[i].to = Now BY <1>1, <2>1, <3>1
      <4> QED BY <4>1, <2>3, <1>3, <1>5
    <3>2. CASE rows[i].to # 0
      <4>1. i < n BY <1>1, <2>1, <3>2, <1>4
      <4>2. n \in 1..n BY <1>1, <4>1, <2>1
      <4>3. rows[i].to <= rows[n].from /\ rows[n].from <= clock BY <1>4, <2>1, <4>1, <4>2
      <4>4. more[i].to = rows[i].to BY <1>1, <2>1, <3>2
      <4>5. rows[i].to \in Nat /\ rows[n].from \in Nat BY <1>2, <2>1, <4>2
      <4>6. rows[i].to <= clock + 1 BY <4>3, <4>5
      <4> QED BY <4>4, <4>6, <3>2, <2>3, <1>3, <1>5
    <3> QED BY <3>1, <3>2
  <2> QED BY <2>2, <2>3, <1>7
<1>10. ASSUME NEW i \in 1..n + 1, i < n + 1 PROVE more[i].to = more[i + 1].from
  <2>1. i \in 1..n BY <1>1, <1>10
  <2>2. CASE i = n
    <3>1. rows[i].to = 0 BY <1>4, <2>1, <2>2
    <3>2. more[i].to = Now BY <1>1, <2>1, <3>1
    <3> QED BY <3>2, <2>2, <1>3
  <2>3. CASE i # n
    <3>1. i < n /\ i + 1 \in 1..n /\ n \in 1..n BY <1>1, <2>1, <2>3
    <3>2. rows[i].to = rows[i + 1].from /\ rows[i].to # 0 BY <1>4, <2>1, <3>1
    <3> QED BY <1>1, <2>1, <3>1, <3>2
  <2> QED BY <2>2, <2>3
<1>11. \A i \in 1..n + 1 : i = n + 1 => more[i].to = 0 BY <1>3
<1>12. Chain(more, Now)
  BY <1>1, <1>8, <1>9, <1>10, <1>11 DEF Chain
<1>13. more # << >>
  <2>1. Len(<< >>) = 0 BY EmptySeq
  <2> QED BY <1>1, <2>1
<1>14. more[1].from = IF rows = << >> THEN Now ELSE rows[1].from
  <2>1. CASE n = 0 BY <2>1, <1>3, <1>6
  <2>2. CASE n # 0
    <3>1. 1 \in 1..n BY <1>1, <2>2
    <3> QED BY <3>1, <2>2, <1>1, <1>6
  <2> QED BY <2>1, <2>2
<1> QED BY <1>12, <1>13, <1>14 DEF more

\* Of an instant before it, the longer history says what the shorter one did.
LEMMA SucceedKeeps ==
  ASSUME NEW Values, NEW rows \in Seq(Span(Values)), NEW u \in Values, Now \in Instants, clock \in Nat,
         NEW t \in Nat, t <= clock
  PROVE  /\ {i \in 1..Len(Succeed(rows, u)) : Contains(Succeed(rows, u)[i], t)}
              = {i \in 1..Len(rows) : Contains(rows[i], t)}
         /\ \A i \in 1..Len(rows) : Succeed(rows, u)[i].value = rows[i].value
         /\ Resolved(Succeed(rows, u), t) = Resolved(rows, t)
         /\ rows # << >> => AttributionAt(Succeed(rows, u), t) = AttributionAt(rows, t)
<1> DEFINE n == Len(rows)
           more == Succeed(rows, u)
           covering == {i \in 1..n : Contains(rows[i], t)}
           earlier == {i \in 1..n : rows[i].from <= t}
<1>1. /\ n \in Nat /\ Len(more) = n + 1
      /\ \A i \in 1..n :
           /\ rows[i] \in Span(Values) /\ more[i].from = rows[i].from /\ more[i].value = rows[i].value
           /\ more[i].to = IF rows[i].to = 0 THEN Now ELSE rows[i].to
      /\ more[n + 1] = [value |-> u, from |-> Now, to |-> 0]
  BY SucceedIs
<1>2. more[n + 1].from = Now /\ Now = clock + 1 /\ Now \in Nat BY <1>1 DEF Now
<1>3. ~(more[n + 1].from <= t) /\ ~Contains(more[n + 1], t) BY <1>2 DEF Contains
<1>4. ASSUME NEW i \in 1..n PROVE Contains(more[i], t) <=> Contains(rows[i], t)
  <2>1. CASE rows[i].to = 0
    <3>1. more[i].to = Now /\ more[i].from = rows[i].from BY <1>1, <2>1
    <3> QED BY <2>1, <3>1, <1>2 DEF Contains
  <2>2. CASE rows[i].to # 0
    <3>1. more[i].to = rows[i].to /\ more[i].from = rows[i].from BY <1>1, <2>2
    <3> QED BY <3>1 DEF Contains
  <2> QED BY <2>1, <2>2
<1>5. \A i : i \in 1..n + 1 <=> i \in 1..n \/ i = n + 1 BY <1>1
<1>6. {i \in 1..Len(more) : Contains(more[i], t)} = covering
  <2> HIDE DEF n, more
  <2> QED BY <1>1, <1>3, <1>4, <1>5
<1>7. {i \in 1..Len(more) : more[i].from <= t} = earlier
  <2> HIDE DEF n, more
  <2> QED BY <1>1, <1>3, <1>5
<1>8. {more[i].value : i \in covering} = {rows[i].value : i \in covering} BY <1>1
<1>9. Resolved(more, t) = Resolved(rows, t)
  <2>1. Resolved(more, t)
          = IF Cardinality(covering) = 1 THEN {more[i].value : i \in covering} ELSE {}
    BY <1>6 DEF Resolved
  <2>2. Resolved(rows, t)
          = IF Cardinality(covering) = 1 THEN {rows[i].value : i \in covering} ELSE {}
    BY DEF Resolved
  <2> QED BY <1>8, <2>1, <2>2
<1>10. ASSUME rows # << >> PROVE AttributionAt(more, t) = AttributionAt(rows, t)
  <2>1. AttributionAt(more, t)
          = IF covering # {} THEN more[First(covering)].value
            ELSE IF earlier # {} THEN more[Last(earlier)].value ELSE more[1].value
    BY <1>6, <1>7 DEF AttributionAt
  <2>2. AttributionAt(rows, t)
          = IF covering # {} THEN rows[First(covering)].value
            ELSE IF earlier # {} THEN rows[Last(earlier)].value ELSE rows[1].value
    BY DEF AttributionAt
  <2>3. 1 \in 1..n
    <3>1. n \in Nat \ {0} BY <1>10, EmptySeq
    <3> QED BY <3>1
  <2>4. covering # {} => First(covering) \in 1..n
    <3>1. covering \in SUBSET Nat /\ covering \subseteq 1..n BY <1>1
    <3> HIDE DEF covering
    <3> QED BY <3>1, FirstExists
  <2>5. earlier # {} => Last(earlier) \in 1..n
    <3>1. earlier \in SUBSET (1..n) OBVIOUS
    <3> HIDE DEF earlier, n
    <3>2. earlier # {} => \E i \in earlier : \A j \in earlier : j <= i
      BY <1>1, <3>1, LargestExists
    <3> QED BY <3>1, <3>2 DEF Last
  <2>6. \A i \in 1..n : more[i].value = rows[i].value BY <1>1
  <2> QED BY <2>1, <2>2, <2>3, <2>4, <2>5, <2>6
<1> QED BY <1>1, <1>6, <1>9, <1>10

\* What a step does to one case: what is dated stays so, except that it may be
\* approved or booked again, and what is added is dated now.
CaseMoves(c) ==
  /\ \A m \in Milestones :
       /\ fact'[c].at[m] \in {fact[c].at[m], Now}
       /\ fact[c].at[m] # 0 /\ m \notin {"approved", "booked"} => fact'[c].at[m] = fact[c].at[m]
  /\ fact'[c].returned \in {fact[c].returned, fact[c].returned \cup {Now}}
  /\ ownedBy'[c] = ownedBy[c] \/ \E x \in Credit : ownedBy'[c] = Succeed(ownedBy[c], x)

\* ... and to the managers of one employee.
ChiefMoves(u) ==
  \/ chiefSpans'[u] = chiefSpans[u]
  \/ \E m \in Chiefs \cup {Nobody} : chiefSpans'[u] = Succeed(chiefSpans[u], m)

HistoriesGrow ==
  Tick /\ (\A c \in CaseFiles : CaseMoves(c)) /\ (\A u \in Staff : ChiefMoves(u))

LEMMA TickIs ==
  ASSUME ReportingTypeOK, Tick
  PROVE  clock \in Nat /\ clock' = Now /\ Now = clock + 1 /\ Now \in Instants /\ Now \in Nat \ {0}
<1>1. clock \in Nat /\ LastInstant \in Nat BY ReportingAssumption DEF ReportingTypeOK, Instants
<1>2. clock < LastInstant /\ clock' = clock + 1 BY DEF Tick
<1>3. clock + 1 \in 0..LastInstant BY <1>1, <1>2
<1> QED BY <1>1, <1>2, <1>3 DEF Now, Instants

\* A history up to now is one up to the next instant.
LEMMA ChainLasts ==
  ASSUME NEW Values, NEW rows \in Seq(Span(Values)), NEW now \in Nat, Chain(rows, now)
  PROVE  Chain(rows, now + 1)
<1>1. ASSUME NEW i \in 1..Len(rows) PROVE rows[i].from <= now + 1
  <2>1. rows[i] \in Span(Values) BY ElementOfSeq
  <2>2. rows[i].from \in Nat BY <2>1, ReportingAssumption DEF Span, Instants
  <2>3. rows[i].from <= now BY DEF Chain
  <2> QED BY <2>2, <2>3
<1> QED BY <1>1 DEF Chain

\* A case to which nothing happens.
LEMMA StillDated ==
  ASSUME ReportingTypeOK, Tick, NEW c \in CaseFiles, Dated(c),
         fact'[c] = fact[c], ownedBy'[c] = ownedBy[c]
  PROVE  Dated(c)' /\ CaseMoves(c)
<1>1. clock \in Nat /\ clock' = clock + 1 BY TickIs
<1>2. /\ fact[c].returned \in SUBSET Nat
      /\ \A m \in Milestones : fact[c].at[m] \in Nat
  BY CaseTypes
<1>3. Chain(ownedBy[c], clock')
  <2>1. Chain(ownedBy[c], clock) BY DEF Dated
  <2>2. ownedBy[c] \in Seq(Span(Credit)) BY CaseTypes
  <2> QED BY <2>1, <2>2, <1>1, ChainLasts
<1>4. \A m \in Milestones : fact[c].at[m] <= clock' BY <1>1, <1>2 DEF Dated
<1>5. \A t \in fact[c].returned : t <= clock' /\ fact[c].at["created"] <= t
  BY <1>1, <1>2 DEF Dated
<1> QED BY <1>3, <1>4, <1>5 DEF Dated, CaseMoves, Filed

\* A step that concerns one case.
LEMMA OneCaseMoves ==
  ASSUME ReportingInv, Tick, NEW c \in CaseFiles, NEW f \in Fact,
         NEW rows \in Seq(Span(Credit)),
         fact' = [fact EXCEPT ![c] = f], ownedBy' = [ownedBy EXCEPT ![c] = rows],
         UNCHANGED <<chief, chiefSpans, office>>,
         (Dated(c))', CaseMoves(c)
  PROVE  ReportingInv' /\ HistoriesGrow
<1>1. ReportingTypeOK BY DEF ReportingInv
<1>2. clock' \in Instants BY <1>1, TickIs
<1>3. ReportingTypeOK' BY <1>1, <1>2 DEF ReportingTypeOK
<1>4. ASSUME NEW d \in CaseFiles, d # c PROVE (Dated(d))' /\ CaseMoves(d)
  <2>1. fact'[d] = fact[d] /\ ownedBy'[d] = ownedBy[d] BY <1>1, <1>4 DEF ReportingTypeOK
  <2>2. Dated(d) BY DEF ReportingInv
  <2> QED BY <1>1, <2>1, <2>2, StillDated
<1>5. \A u \in Staff : ChiefMoves(u) BY DEF ChiefMoves
<1> QED BY <1>3, <1>4, <1>5 DEF ReportingInv, HistoriesGrow

\* What is stamped on a case.
LEMMA StampIs ==
  ASSUME NEW f \in Fact, NEW m \in Milestones, NEW v \in Instants
  PROVE  /\ [f EXCEPT !.at[m] = v] \in Fact
         /\ [f EXCEPT !.at[m] = v].at \in [Milestones -> Instants]
         /\ [f EXCEPT !.at[m] = v].at[m] = v
         /\ \A k \in Milestones : k # m => [f EXCEPT !.at[m] = v].at[k] = f.at[k]
         /\ [f EXCEPT !.at[m] = v].outcome = f.outcome
         /\ [f EXCEPT !.at[m] = v].returned = f.returned
<1>1. f.at \in [Milestones -> Instants] BY DEF Fact
<1>2. [f.at EXCEPT ![m] = v] \in [Milestones -> Instants] BY <1>1
<1>3. [f EXCEPT !.at[m] = v] =
        [at |-> [f.at EXCEPT ![m] = v], outcome |-> f.outcome, returned |-> f.returned]
  <2>1. f \in [at: [Milestones -> Instants],
               outcome: ReportedOutcomes, returned: SUBSET Instants]
    BY DEF Fact
  <2> DEFINE a == [f.at EXCEPT ![m] = v]
  <2> HIDE DEF a
  <2>2. [f EXCEPT !.at = a] = [at |-> a, outcome |-> f.outcome, returned |-> f.returned]
    BY <2>1
  <2> QED BY <2>2 DEF a
<1>4. [f EXCEPT !.at[m] = v] \in Fact BY <1>2, <1>3 DEF Fact
<1> QED BY <1>1, <1>2, <1>3, <1>4

\* What is written down of an owner.
LEMMA CreditToIs ==
  ASSUME ReportingTypeOK, NEW u \in Credited
  PROVE  CreditTo(u) \in Credit
BY DEF ReportingTypeOK, CreditTo, Credit

\* A filed case gets a date, and perhaps an outcome with it.
LEMMA FileCaseInv ==
  ASSUME ReportingInv, NEW c \in CaseFiles, NEW u \in Credited, FileCase(c, u)
  PROVE  ReportingInv' /\ HistoriesGrow
<1> DEFINE f == [fact[c] EXCEPT !.at["created"] = Now]
           rows == Succeed(ownedBy[c], CreditTo(u))
<1>1. ReportingTypeOK /\ Tick /\ ~Filed(c) /\ Dated(c) /\ "created" \in Milestones
  BY DEF FileCase, ReportingInv, Milestones
<1>2. clock \in Nat /\ clock' = Now /\ Now = clock + 1 /\ Now \in Instants /\ Now \in Nat \ {0}
  BY <1>1, TickIs
<1>3. /\ fact[c] \in Fact /\ ownedBy[c] \in Seq(Span(Credit))
      /\ \A m \in Milestones : fact[c].at[m] \in Nat
  BY <1>1, CaseTypes
<1>4. /\ f \in Fact /\ f.at["created"] = Now /\ f.outcome = fact[c].outcome
      /\ f.returned = fact[c].returned
      /\ \A k \in Milestones : k # "created" => f.at[k] = fact[c].at[k]
  BY <1>1, <1>2, <1>3, StampIs
<1>5. CreditTo(u) \in Credit /\ rows \in Seq(Span(Credit))
  BY <1>1, <1>2, <1>3, CreditToIs, SucceedIs
<1>6. fact' = [fact EXCEPT ![c] = f] /\ ownedBy' = [ownedBy EXCEPT ![c] = rows]
      /\ UNCHANGED <<chief, chiefSpans, office>>
  BY <1>2 DEF FileCase, Stamp
<1>7. fact'[c] = f /\ ownedBy'[c] = rows
  BY <1>1, <1>6 DEF ReportingTypeOK
<1>8. /\ Chain(rows, Now) /\ rows # << >>
      /\ rows[1].from = IF ownedBy[c] = << >> THEN Now ELSE ownedBy[c][1].from
  BY <1>1, <1>2, <1>3, <1>5, SucceedChain DEF Dated
<1>9. rows[1].from <= Now
  <2>1. CASE ownedBy[c] = << >> BY <2>1, <1>2, <1>8
  <2>2. CASE ownedBy[c] # << >>
    <3>1. Len(rows) \in Nat \ {0} BY <1>5, <1>8, EmptySeq
    <3>2. 1 \in 1..Len(rows) BY <3>1
    <3> QED BY <1>8, <3>2 DEF Chain
  <2> QED BY <2>1, <2>2
<1>10. \A m \in Milestones : fact[c].at[m] = 0
  BY <1>1 DEF Dated
<1>11. fact[c].outcome = "none" /\ fact[c].returned = {} BY <1>1 DEF Dated
<1> HIDE DEF f, rows
<1>12. /\ f.outcome = "none" /\ f.returned = {}
       /\ \A k \in Milestones : k # "created" => f.at[k] = 0
  BY <1>4, <1>10, <1>11
<1>13. "terminal" \in Milestones /\ "funded" \in Milestones /\ "terminal" # "created" /\ "funded" # "created"
  BY DEF Milestones
<1>14. f.at["terminal"] = 0 /\ f.at["funded"] = 0 BY <1>12, <1>13
<1>15. (Dated(c))'
  <2>1. \A m \in Milestones : f.at[m] <= Now /\ (f.at[m] # 0 => f.at["created"] <= f.at[m])
    BY <1>2, <1>4, <1>12
  <2>2. f.at["created"] > 0 BY <1>2, <1>4
  <2>3. f.at["created"] = Now BY <1>4
  <2> QED BY <2>1, <2>2, <2>3, <1>2, <1>7, <1>8, <1>9, <1>12, <1>14 DEF Dated, Filed
<1>16. CaseMoves(c)
  <2>1. \A m \in Milestones : f.at[m] \in {fact[c].at[m], Now} BY <1>4
  <2>2. rows = Succeed(ownedBy[c], CreditTo(u)) BY DEF rows
  <2> QED BY <2>1, <2>2, <1>4, <1>5, <1>7, <1>10 DEF CaseMoves
<1> QED BY <1>1, <1>4, <1>5, <1>6, <1>15, <1>16, OneCaseMoves

\* What an open case is dated by.
LEMMA OpenFileIs ==
  ASSUME ReportingInv, NEW c \in CaseFiles, OpenFile(c)
  PROVE  /\ Dated(c) /\ Filed(c) /\ ReportingTypeOK
         /\ fact[c].outcome = "none"
         /\ fact[c].at["terminal"] = 0 /\ fact[c].at["funded"] = 0
         /\ fact[c].at["created"] \in Nat \ {0} /\ fact[c].at["created"] <= clock
         /\ fact[c] \in Fact /\ ownedBy[c] \in Seq(Span(Credit))
<1>1. Dated(c) /\ ReportingTypeOK BY DEF ReportingInv
<1>2. fact[c].outcome = "none" /\ Filed(c) BY DEF OpenFile
<1>3. \A m \in Milestones : fact[c].at[m] \in Nat BY <1>1, CaseTypes
<1>4. "created" \in Milestones /\ "funded" \in Milestones BY DEF Milestones
<1>5. fact[c].at["created"] \in Nat \ {0} BY <1>2, <1>3, <1>4 DEF Filed
<1>6. fact[c].at["terminal"] = 0 BY <1>1, <1>2 DEF Dated
<1>7. fact[c].at["funded"] = 0 BY <1>1, <1>2 DEF Dated
<1>8. fact[c].at["created"] <= clock BY <1>1, <1>4 DEF Dated
<1> QED BY <1>1, <1>2, <1>5, <1>6, <1>7, <1>8, CaseTypes

\* Dates, returns and an outcome may be added to an open case.
LEMMA FactMoves ==
  ASSUME ReportingInv, Tick, NEW c \in CaseFiles, OpenFile(c), NEW f \in Fact,
         fact' = [fact EXCEPT ![c] = f], UNCHANGED <<ownedBy, chief, chiefSpans, office>>,
         \A m \in Milestones :
           /\ f.at[m] \in {fact[c].at[m], Now}
           /\ fact[c].at[m] # 0 /\ m \notin {"approved", "booked"} => f.at[m] = fact[c].at[m],
         f.returned \in {fact[c].returned, fact[c].returned \cup {Now}},
         f.at["terminal"] = 0 <=> f.outcome = "none",
         f.at["funded"] # 0 => f.outcome = "Completed"
  PROVE  ReportingInv' /\ HistoriesGrow
<1>1. /\ Dated(c) /\ Filed(c) /\ ReportingTypeOK
      /\ fact[c].at["created"] \in Nat \ {0} /\ fact[c].at["created"] <= clock
      /\ ownedBy[c] \in Seq(Span(Credit))
  BY OpenFileIs
<1>2. clock \in Nat /\ clock' = Now /\ Now = clock + 1 /\ Now \in Nat \ {0} BY <1>1, TickIs
<1>3. fact'[c] = f /\ ownedBy'[c] = ownedBy[c] BY <1>1 DEF ReportingTypeOK
<1>4. "created" \in Milestones /\ "created" \notin {"approved", "booked"} BY DEF Milestones
<1>5. f.at["created"] = fact[c].at["created"] BY <1>1, <1>4
<1>6. ASSUME NEW m \in Milestones
      PROVE  f.at[m] <= Now /\ (f.at[m] # 0 => f.at["created"] <= f.at[m])
  <2>1. fact[c].at[m] \in Nat BY <1>1, CaseTypes
  <2>2. fact[c].at[m] <= clock /\ (fact[c].at[m] # 0 => fact[c].at["created"] <= fact[c].at[m])
    BY <1>1 DEF Dated
  <2>3. CASE f.at[m] = fact[c].at[m] BY <2>1, <2>2, <2>3, <1>2, <1>5
  <2>4. CASE f.at[m] = Now BY <2>4, <1>1, <1>2, <1>5
  <2> QED BY <2>3, <2>4
<1>7. \A t \in f.returned : t <= Now /\ f.at["created"] <= t
  <2> TAKE t \in f.returned
  <2>1. CASE t \in fact[c].returned
    <3>1. t \in Nat BY <2>1, <1>1, CaseTypes
    <3>2. t <= clock /\ fact[c].at["created"] <= t BY <2>1, <1>1 DEF Dated
    <3> QED BY <3>1, <3>2, <1>2, <1>5
  <2>2. CASE t = Now BY <2>2, <1>1, <1>2, <1>5
  <2> QED BY <2>1, <2>2
<1>8. Chain(ownedBy[c], Now)
  <2>1. Chain(ownedBy[c], clock) BY <1>1 DEF Dated
  <2> QED BY <2>1, <1>1, <1>2, ChainLasts
<1>9. (Dated(c))'
  <2>1. f.at["created"] > 0 BY <1>1, <1>5
  <2>2. ownedBy[c] # << >> /\ ownedBy[c][1].from <= f.at["created"] BY <1>1, <1>5 DEF Dated
  <2> QED BY <2>1, <2>2, <1>2, <1>3, <1>6, <1>7, <1>8 DEF Dated, Filed
<1>10. CaseMoves(c) BY <1>3 DEF CaseMoves
<1>11. ownedBy' = [ownedBy EXCEPT ![c] = ownedBy[c]] BY <1>1 DEF ReportingTypeOK
<1> QED BY <1>1, <1>9, <1>10, <1>11, OneCaseMoves

LEMMA PassInv ==
  ASSUME ReportingInv, NEW c \in CaseFiles, NEW m \in Milestones, Pass(c, m)
  PROVE  ReportingInv' /\ HistoriesGrow
<1> DEFINE f == [fact[c] EXCEPT !.at[m] = Now]
<1>1. Tick /\ OpenFile(c) /\ ReportingTypeOK BY DEF Pass, ReportingInv
<1>2. clock' = Now /\ Now \in Instants BY <1>1, TickIs
<1>3. fact[c] \in Fact /\ fact[c].outcome = "none" /\ fact[c].at["terminal"] = 0
      /\ fact[c].at["funded"] = 0
  BY <1>1, OpenFileIs
<1>4. /\ f \in Fact /\ f.at[m] = Now /\ f.outcome = fact[c].outcome /\ f.returned = fact[c].returned
      /\ \A k \in Milestones : k # m => f.at[k] = fact[c].at[k]
  BY <1>2, <1>3, StampIs
<1>5. fact' = [fact EXCEPT ![c] = f] /\ UNCHANGED <<ownedBy, chief, chiefSpans, office>>
  BY <1>2 DEF Pass, Stamp
<1>6. m \in {"submitted", "approved", "booked"} /\ (m = "submitted" => fact[c].at[m] = 0)
  BY DEF Pass
<1>7. "terminal" \in Milestones /\ "funded" \in Milestones /\ "terminal" # m /\ "funded" # m
  BY <1>6 DEF Milestones
<1> HIDE DEF f
<1>8. f.at["terminal"] = 0 /\ f.at["funded"] = 0 BY <1>3, <1>4, <1>7
<1>9. \A k \in Milestones :
        /\ f.at[k] \in {fact[c].at[k], Now}
        /\ fact[c].at[k] # 0 /\ k \notin {"approved", "booked"} => f.at[k] = fact[c].at[k]
  BY <1>4, <1>6
<1> QED BY <1>1, <1>3, <1>4, <1>5, <1>8, <1>9, FactMoves

\* A case that ends now.
LEMMA EndedIs ==
  ASSUME NEW h \in Fact, NEW outcome \in ReportedOutcomes, Now \in Instants
  PROVE  LET f == [h EXCEPT !.at["terminal"] = Now, !.outcome = outcome]
         IN /\ f \in Fact /\ f.at["terminal"] = Now /\ f.outcome = outcome
            /\ f.returned = h.returned
            /\ \A k \in Milestones : k # "terminal" => f.at[k] = h.at[k]
<1> DEFINE s == [h EXCEPT !.at["terminal"] = Now]
<1>1. "terminal" \in Milestones BY DEF Milestones
<1>2. /\ s \in Fact /\ s.at["terminal"] = Now /\ s.returned = h.returned
      /\ \A k \in Milestones : k # "terminal" => s.at[k] = h.at[k]
  BY <1>1, StampIs
<1>3. [h EXCEPT !.at["terminal"] = Now, !.outcome = outcome] = [s EXCEPT !.outcome = outcome]
  OBVIOUS
<1> HIDE DEF s
<1>4. /\ [s EXCEPT !.outcome = outcome] \in Fact
      /\ [s EXCEPT !.outcome = outcome].at = s.at
      /\ [s EXCEPT !.outcome = outcome].outcome = outcome
      /\ [s EXCEPT !.outcome = outcome].returned = s.returned
  BY <1>2 DEF Fact
<1> QED BY <1>2, <1>3, <1>4

LEMMA FundInv ==
  ASSUME ReportingInv, NEW c \in CaseFiles, Fund(c)
  PROVE  ReportingInv' /\ HistoriesGrow
<1> DEFINE g == [fact[c] EXCEPT !.at["funded"] = Now]
           f == [g EXCEPT !.at["terminal"] = Now, !.outcome = "Completed"]
<1>1. Tick /\ OpenFile(c) /\ ReportingTypeOK BY DEF Fund, ReportingInv
<1>2. Now \in Instants /\ Now # 0 BY <1>1, TickIs
<1>3. fact[c] \in Fact /\ fact[c].at["terminal"] = 0 /\ fact[c].at["funded"] = 0
  BY <1>1, OpenFileIs
<1>4. "terminal" \in Milestones /\ "funded" \in Milestones BY DEF Milestones
<1>5. /\ g \in Fact /\ g.at["funded"] = Now /\ g.returned = fact[c].returned
      /\ \A k \in Milestones : k # "funded" => g.at[k] = fact[c].at[k]
  BY <1>2, <1>3, <1>4, StampIs
<1>6. "Completed" \in ReportedOutcomes BY Zenon DEF ReportedOutcomes
<1>7. fact' = [fact EXCEPT ![c] = f] /\ UNCHANGED <<ownedBy, chief, chiefSpans, office>>
  BY DEF Fund
<1> HIDE DEF g
<1>8. /\ f \in Fact /\ f.at["terminal"] = Now /\ f.outcome = "Completed"
      /\ f.returned = g.returned
      /\ \A k \in Milestones : k # "terminal" => f.at[k] = g.at[k]
  BY <1>2, <1>5, <1>6, EndedIs
<1> HIDE DEF f
<1>9. \A k \in Milestones :
        /\ f.at[k] \in {fact[c].at[k], Now}
        /\ fact[c].at[k] # 0 /\ k \notin {"approved", "booked"} => f.at[k] = fact[c].at[k]
  BY <1>3, <1>5, <1>8
<1>10. f.at["terminal"] = 0 <=> f.outcome = "none" BY <1>2, <1>8
<1>11. f \in Fact /\ f.returned \in {fact[c].returned, fact[c].returned \cup {Now}}
       /\ (f.at["funded"] # 0 => f.outcome = "Completed")
  BY <1>5, <1>8
<1> QED BY <1>1, <1>7, <1>9, <1>10, <1>11, FactMoves

LEMMA EndFileInv ==
  ASSUME ReportingInv, NEW c \in CaseFiles, NEW outcome \in ReportedOutcomes,
         outcome # "none", EndFile(c, outcome)
  PROVE  ReportingInv' /\ HistoriesGrow
<1> DEFINE f == [fact[c] EXCEPT !.at["terminal"] = Now, !.outcome = outcome]
<1>1. Tick /\ OpenFile(c) /\ ReportingTypeOK BY DEF EndFile, ReportingInv
<1>2. Now \in Instants /\ Now # 0 BY <1>1, TickIs
<1>3. fact[c] \in Fact /\ fact[c].at["terminal"] = 0 /\ fact[c].at["funded"] = 0
  BY <1>1, OpenFileIs
<1>4. fact' = [fact EXCEPT ![c] = f] /\ UNCHANGED <<ownedBy, chief, chiefSpans, office>>
  BY DEF EndFile
<1>5. /\ f \in Fact /\ f.at["terminal"] = Now /\ f.outcome = outcome
      /\ f.returned = fact[c].returned
      /\ \A k \in Milestones : k # "terminal" => f.at[k] = fact[c].at[k]
  BY <1>2, <1>3, EndedIs
<1> HIDE DEF f
<1>6. \A k \in Milestones :
        /\ f.at[k] \in {fact[c].at[k], Now}
        /\ fact[c].at[k] # 0 /\ k \notin {"approved", "booked"} => f.at[k] = fact[c].at[k]
  BY <1>3, <1>5
<1>7. f.at["funded"] = 0 BY <1>3, <1>5 DEF Milestones
<1>8. f.at["terminal"] = 0 <=> f.outcome = "none" BY <1>2, <1>5
<1> QED BY <1>1, <1>4, <1>5, <1>6, <1>7, <1>8, FactMoves

LEMMA ReturnFileInv ==
  ASSUME ReportingInv, NEW c \in CaseFiles, ReturnFile(c)
  PROVE  ReportingInv' /\ HistoriesGrow
<1> DEFINE f == [fact[c] EXCEPT !.returned = @ \cup {Now}]
<1>1. Tick /\ OpenFile(c) /\ ReportingTypeOK BY DEF ReturnFile, ReportingInv
<1>2. clock' = Now /\ Now \in Instants BY <1>1, TickIs
<1>3. fact[c] \in Fact /\ fact[c].outcome = "none" /\ fact[c].at["terminal"] = 0
      /\ fact[c].at["funded"] = 0
  BY <1>1, OpenFileIs
<1>4. /\ f \in Fact /\ f.at = fact[c].at /\ f.outcome = fact[c].outcome
      /\ f.returned = fact[c].returned \cup {Now}
  BY <1>2, <1>3 DEF Fact
<1>5. fact' = [fact EXCEPT ![c] = f] /\ UNCHANGED <<ownedBy, chief, chiefSpans, office>>
  BY DEF ReturnFile
<1> HIDE DEF f
<1> QED BY <1>1, <1>3, <1>4, <1>5, FactMoves

LEMMA ReassignInv ==
  ASSUME ReportingInv, NEW c \in CaseFiles, NEW u \in Credited, Reassign(c, u)
  PROVE  ReportingInv' /\ HistoriesGrow
<1> DEFINE rows == Succeed(ownedBy[c], CreditTo(u))
<1>1. Tick /\ OpenFile(c) BY DEF Reassign
<1>2. /\ Dated(c) /\ Filed(c) /\ ReportingTypeOK
      /\ fact[c] \in Fact /\ ownedBy[c] \in Seq(Span(Credit))
  BY <1>1, OpenFileIs
<1>3. clock \in Nat /\ clock' = Now /\ Now \in Instants /\ Now = clock + 1 BY <1>1, <1>2, TickIs
<1>4. CreditTo(u) \in Credit /\ rows \in Seq(Span(Credit))
  BY <1>2, <1>3, CreditToIs, SucceedIs
<1>5. ownedBy[c] # << >> /\ ownedBy[c][1].from <= fact[c].at["created"] BY <1>2 DEF Dated
<1>6. Chain(rows, Now) /\ rows # << >> /\ rows[1].from = ownedBy[c][1].from
  BY <1>2, <1>3, <1>4, <1>5, SucceedChain DEF Dated
<1>7. /\ fact' = [fact EXCEPT ![c] = fact[c]] /\ ownedBy' = [ownedBy EXCEPT ![c] = rows]
      /\ UNCHANGED <<chief, chiefSpans, office>>
  BY <1>2 DEF Reassign, ReportingTypeOK
<1>8. fact'[c] = fact[c] /\ ownedBy'[c] = rows BY <1>2, <1>7 DEF ReportingTypeOK
<1>9. (Dated(c))'
  <2>1. \A m \in Milestones : fact[c].at[m] \in Nat BY <1>2, CaseTypes
  <2>2. \A m \in Milestones : fact[c].at[m] <= Now BY <1>2, <1>3, <2>1 DEF Dated
  <2>3. fact[c].returned \in SUBSET Nat BY <1>2, CaseTypes
  <2>4. \A t \in fact[c].returned : t <= Now /\ fact[c].at["created"] <= t
    BY <1>2, <1>3, <2>3 DEF Dated
  <2> HIDE DEF rows
  <2> QED BY <1>2, <1>3, <1>5, <1>6, <1>8, <2>2, <2>4 DEF Dated, Filed
<1>10. CaseMoves(c) BY <1>4, <1>8 DEF CaseMoves
<1> HIDE DEF rows
<1> QED BY <1>1, <1>2, <1>4, <1>7, <1>9, <1>10, OneCaseMoves

\* A step that concerns no case.
LEMMA ReportInv ==
  ASSUME ReportingInv,
         \/ TimePasses
         \/ \E u \in Staff, m \in Chiefs \cup {Nobody} : Report(u, m)
         \/ \E u \in Credited \cup Leads, o \in Offices : Relocate(u, o)
  PROVE  ReportingInv' /\ HistoriesGrow
<1>1. Tick /\ ReportingTypeOK BY DEF TimePasses, Report, Relocate, ReportingInv
<1>2. clock \in Nat /\ clock' = Now /\ Now \in Instants BY <1>1, TickIs
<1>3. UNCHANGED <<fact, ownedBy>> BY DEF TimePasses, Report, Relocate
<1>4. \A c \in CaseFiles : (Dated(c))' /\ CaseMoves(c)
  <2> TAKE c \in CaseFiles
  <2>1. Dated(c) BY DEF ReportingInv
  <2> QED BY <1>1, <1>3, <2>1, StillDated
<1>5. CASE TimePasses \/ \E u \in Credited \cup Leads, o \in Offices : Relocate(u, o)
  <2>1. \A u \in Staff : ChiefMoves(u) BY <1>5 DEF TimePasses, Relocate, ChiefMoves
  <2>2. office' \in [Credited \cup Leads -> Offices]
    BY <1>1, <1>5 DEF TimePasses, Relocate, ReportingTypeOK
  <2>3. UNCHANGED <<chief, chiefSpans>> BY <1>5 DEF TimePasses, Relocate
  <2>4. ReportingTypeOK' BY <1>1, <1>2, <1>3, <2>2, <2>3 DEF ReportingTypeOK
  <2> QED BY <1>1, <1>4, <2>1, <2>4 DEF ReportingInv, HistoriesGrow
<1>6. CASE \E u \in Staff, m \in Chiefs \cup {Nobody} : Report(u, m)
  <2>1. PICK u \in Staff, m \in Chiefs \cup {Nobody} : Report(u, m) BY <1>6
  <2> DEFINE rows == Succeed(chiefSpans[u], m)
  <2>2. chiefSpans[u] \in Seq(Span(Chiefs \cup {Nobody})) BY <1>1 DEF ReportingTypeOK
  <2>3. rows \in Seq(Span(Chiefs \cup {Nobody})) BY <1>2, <2>2, SucceedIs
  <2>4. /\ chief' = [chief EXCEPT ![u] = m] /\ chiefSpans' = [chiefSpans EXCEPT ![u] = rows]
        /\ office' = office
    BY <2>1 DEF Report
  <2>5. \A v \in Staff : ChiefMoves(v) BY <1>1, <2>4 DEF ChiefMoves, ReportingTypeOK
  <2> HIDE DEF rows
  <2>6. ReportingTypeOK' BY <1>1, <1>2, <1>3, <2>3, <2>4 DEF ReportingTypeOK
  <2> QED BY <1>1, <1>4, <2>5, <2>6 DEF ReportingInv, HistoriesGrow
<1> QED BY <1>5, <1>6

LEMMA ReportingInitInv == ReportingInit => ReportingInv
<1> SUFFICES ASSUME ReportingInit PROVE ReportingInv
  OBVIOUS
<1>1. 0 \in Instants BY ReportingAssumption DEF Instants
<1>2. clock = 0 /\ ownedBy = [c \in CaseFiles |-> << >>] /\ chief = [u \in Staff |-> Nobody]
  BY DEF ReportingInit
<1> DEFINE blank == [at |-> [m \in Milestones |-> 0], outcome |-> "none", returned |-> {}]
<1>3. fact = [c \in CaseFiles |-> blank] BY DEF ReportingInit
<1>4. blank \in Fact
  <2>1. "none" \in ReportedOutcomes BY Zenon DEF ReportedOutcomes
  <2> QED BY <1>1, <2>1 DEF Fact
<1>5. chiefSpans \in [Staff -> Seq(Span(Chiefs \cup {Nobody}))]
  <2>1. PICK dated \in SUBSET Staff :
          chiefSpans = [u \in Staff |->
            IF u \in dated THEN <<[value |-> Nobody, from |-> 0, to |-> 0]>> ELSE << >>]
    BY DEF ReportingInit
  <2>2. [value |-> Nobody, from |-> 0, to |-> 0] \in Span(Chiefs \cup {Nobody}) BY <1>1 DEF Span
  <2>3. <<[value |-> Nobody, from |-> 0, to |-> 0]>> \in Seq(Span(Chiefs \cup {Nobody})) BY <2>2
  <2>4. << >> \in Seq(Span(Chiefs \cup {Nobody})) BY EmptySeq
  <2> QED BY <2>1, <2>3, <2>4
<1>6. << >> \in Seq(Span(Credit)) /\ Len(<< >>) = 0 BY EmptySeq
<1>7. ReportingTypeOK
  <2>1. office \in [Credited \cup Leads -> Offices] BY DEF ReportingInit
  <2> QED BY <1>1, <1>2, <1>3, <1>4, <1>5, <1>6, <2>1 DEF ReportingTypeOK
<1>8. ASSUME NEW c \in CaseFiles PROVE Dated(c)
  <2>1. fact[c] = blank /\ ownedBy[c] = << >> BY <1>2, <1>3
  <2>2. /\ \A m \in Milestones : blank.at[m] = 0
        /\ blank.outcome = "none" /\ blank.returned = {}
    OBVIOUS
  <2>3. "created" \in Milestones /\ "terminal" \in Milestones /\ "funded" \in Milestones
    BY DEF Milestones
  <2>4. Chain(<< >>, 0) BY <1>6 DEF Chain
  <2> HIDE DEF blank
  <2> QED BY <1>2, <2>1, <2>2, <2>3, <2>4 DEF Dated, Filed
<1> QED BY <1>7, <1>8 DEF ReportingInv

LEMMA ReportingNextInv ==
  ASSUME ReportingInv, ReportingNext
  PROVE  ReportingInv' /\ HistoriesGrow
<1>1. CASE \E c \in CaseFiles, u \in Credited : FileCase(c, u) \/ Reassign(c, u)
  BY <1>1, FileCaseInv, ReassignInv
<1>2. CASE \E c \in CaseFiles, m \in Milestones : Pass(c, m) BY <1>2, PassInv
<1>3. CASE \E c \in CaseFiles : Fund(c) \/ ReturnFile(c) BY <1>3, FundInv, ReturnFileInv
<1>4. \A outcome \in {"Final Rejected", "Withdrawn"} : outcome \in ReportedOutcomes \ {"none"}
  BY Zenon DEF ReportedOutcomes
<1>5. CASE \E c \in CaseFiles, outcome \in {"Final Rejected", "Withdrawn"} : EndFile(c, outcome)
  BY <1>4, <1>5, EndFileInv, Zenon
<1>6. CASE \/ TimePasses
           \/ \E u \in Staff, m \in Chiefs \cup {Nobody} : Report(u, m)
           \/ \E u \in Credited \cup Leads, o \in Offices : Relocate(u, o)
  BY <1>6, ReportInv
<1> QED BY <1>1, <1>2, <1>3, <1>5, <1>6, Zenon DEF ReportingNext

\* Finance pays somebody who is in the history.
LEMMA ResolvedIn ==
  ASSUME NEW Values, NEW rows \in Seq(Span(Values)), NEW t
  PROVE  Resolved(rows, t) \subseteq Values
<1>1. \A i \in 1..Len(rows) : rows[i].value \in Values
  <2> TAKE i \in 1..Len(rows)
  <2>1. rows[i] \in Span(Values) BY ElementOfSeq
  <2> QED BY <2>1 DEF Span
<1> QED BY <1>1 DEF Resolved

\* What is said of the past stays said.
LEMMA PastStands ==
  ASSUME ReportingInv, HistoriesGrow, NEW t \in Nat, t <= clock
  PROVE  /\ \A c \in CaseFiles : Resolved(ownedBy'[c], t) = Resolved(ownedBy[c], t)
         /\ \A c \in CaseFiles : Filed(c) =>
              AttributionAt(ownedBy'[c], t) = AttributionAt(ownedBy[c], t)
         /\ \A u \in Staff : Resolved(chiefSpans'[u], t) = Resolved(chiefSpans[u], t)
<1>1. ReportingTypeOK /\ Tick BY DEF ReportingInv, HistoriesGrow
<1>2. clock \in Nat /\ Now \in Instants BY <1>1, TickIs
<1>3. ASSUME NEW c \in CaseFiles
      PROVE  /\ Resolved(ownedBy'[c], t) = Resolved(ownedBy[c], t)
             /\ Filed(c) => AttributionAt(ownedBy'[c], t) = AttributionAt(ownedBy[c], t)
  <2>1. ownedBy[c] \in Seq(Span(Credit)) BY <1>1, CaseTypes
  <2>2. Filed(c) => ownedBy[c] # << >> BY DEF ReportingInv, Dated
  <2>3. CASE ownedBy'[c] = ownedBy[c] BY <2>3
  <2>4. CASE \E x \in Credit : ownedBy'[c] = Succeed(ownedBy[c], x)
    <3>1. PICK x \in Credit : ownedBy'[c] = Succeed(ownedBy[c], x) BY <2>4
    <3>2. /\ Resolved(Succeed(ownedBy[c], x), t) = Resolved(ownedBy[c], t)
          /\ ownedBy[c] # << >> =>
               AttributionAt(Succeed(ownedBy[c], x), t) = AttributionAt(ownedBy[c], t)
      BY <1>2, <2>1, SucceedKeeps
    <3> QED BY <2>2, <3>1, <3>2
  <2>5. CaseMoves(c) BY DEF HistoriesGrow
  <2> QED BY <2>3, <2>4, <2>5 DEF CaseMoves
<1>4. ASSUME NEW u \in Staff
      PROVE  Resolved(chiefSpans'[u], t) = Resolved(chiefSpans[u], t)
  <2>1. chiefSpans[u] \in Seq(Span(Chiefs \cup {Nobody})) BY <1>1 DEF ReportingTypeOK
  <2>2. CASE chiefSpans'[u] = chiefSpans[u] BY <2>2
  <2>3. CASE \E m \in Chiefs \cup {Nobody} : chiefSpans'[u] = Succeed(chiefSpans[u], m)
    <3>1. PICK m \in Chiefs \cup {Nobody} : chiefSpans'[u] = Succeed(chiefSpans[u], m) BY <2>3
    <3>2. Resolved(Succeed(chiefSpans[u], m), t) = Resolved(chiefSpans[u], t)
      BY <1>2, <2>1, SucceedKeeps
    <3> QED BY <3>1, <3>2
  <2>4. ChiefMoves(u) BY DEF HistoriesGrow
  <2> QED BY <2>2, <2>3, <2>4 DEF ChiefMoves
<1> QED BY <1>3, <1>4

\* Of whom finance pays.
LEMMA PaymentsStand ==
  ASSUME ReportingInv, HistoriesGrow, NEW c \in CaseFiles, NEW t \in 1..clock
  PROVE  (PaidOwner(c, t))' = PaidOwner(c, t) /\ (PaidManager(c, t))' = PaidManager(c, t)
<1>1. ReportingTypeOK /\ Tick BY DEF ReportingInv, HistoriesGrow
<1>2. clock \in Nat BY <1>1, TickIs
<1>3. t \in Nat /\ t <= clock BY <1>2
<1>4. (PaidOwner(c, t))' = PaidOwner(c, t)
  <2>1. Resolved(ownedBy'[c], t) = Resolved(ownedBy[c], t) BY <1>3, PastStands
  <2> QED BY <2>1 DEF PaidOwner
<1>5. PaidOwner(c, t) \subseteq Staff
  <2>1. ownedBy[c] \in Seq(Span(Credit)) BY <1>1, CaseTypes
  <2>2. Resolved(ownedBy[c], t) \subseteq Credit BY <2>1, ResolvedIn
  <2> QED BY <2>2 DEF PaidOwner, Credit, Staff
<1>6. \A u \in PaidOwner(c, t) : Resolved(chiefSpans'[u], t) = Resolved(chiefSpans[u], t)
  BY <1>3, <1>5, PastStands
<1>7. (PaidManager(c, t))' = UNION {Resolved(chiefSpans'[u], t) : u \in PaidOwner(c, t)} \ {Nobody}
  BY <1>4 DEF PaidManager
<1>8. PaidManager(c, t) = UNION {Resolved(chiefSpans[u], t) : u \in PaidOwner(c, t)} \ {Nobody}
  BY DEF PaidManager
<1>9. {Resolved(chiefSpans'[u], t) : u \in PaidOwner(c, t)}
        = {Resolved(chiefSpans[u], t) : u \in PaidOwner(c, t)}
  BY <1>6
<1> QED BY <1>4, <1>7, <1>8, <1>9

\* A manager is a manager.
LEMMA ManagerIs ==
  ASSUME ReportingInv, NEW u \in Staff, NEW t \in Nat
  PROVE  ManagerAt(u, t) \in Chiefs \cup {Nobody}
<1> DEFINE rows == chiefSpans[u]
           covering == {i \in 1..Len(rows) : Contains(rows[i], t)}
<1>1. rows \in Seq(Span(Chiefs \cup {Nobody})) /\ chief[u] \in Chiefs \cup {Nobody}
  BY DEF ReportingInv, ReportingTypeOK
<1>2. ManagerAt(u, t) = IF covering # {} THEN rows[First(covering)].value ELSE chief[u]
  BY DEF ManagerAt
<1>3. ASSUME covering # {} PROVE First(covering) \in 1..Len(rows)
  <2>1. covering \in SUBSET Nat /\ covering \subseteq 1..Len(rows) BY <1>1
  <2> HIDE DEF covering
  <2> QED BY <1>3, <2>1, FirstExists
<1> HIDE DEF covering, rows
<1>4. \A i \in 1..Len(rows) : rows[i].value \in Chiefs \cup {Nobody}
  <2> TAKE i \in 1..Len(rows)
  <2>1. rows[i] \in Span(Chiefs \cup {Nobody}) BY <1>1, ElementOfSeq
  <2> QED BY <2>1 DEF Span
<1> QED BY <1>1, <1>2, <1>3, <1>4

\* What the dated history says of a manager stays said.
LEMMA ManagerStands ==
  ASSUME ReportingInv, HistoriesGrow, NEW u \in Staff, NEW t \in Nat, t <= clock,
         \E i \in 1..Len(chiefSpans[u]) : Contains(chiefSpans[u][i], t)
  PROVE  (ManagerAt(u, t))' = ManagerAt(u, t)
<1> DEFINE rows == chiefSpans[u]
           later == chiefSpans'[u]
           covering == {i \in 1..Len(rows) : Contains(rows[i], t)}
           coveringLater == {i \in 1..Len(later) : Contains(later[i], t)}
<1>1. ReportingTypeOK /\ Tick BY DEF ReportingInv, HistoriesGrow
<1>2. clock \in Nat /\ Now \in Instants BY <1>1, TickIs
<1>3. rows \in Seq(Span(Chiefs \cup {Nobody})) BY <1>1 DEF ReportingTypeOK
<1>4. covering # {} OBVIOUS
<1>5. First(covering) \in 1..Len(rows)
  <2>1. covering \in SUBSET Nat /\ covering \subseteq 1..Len(rows) BY <1>3
  <2> HIDE DEF covering
  <2> QED BY <1>4, <2>1, FirstExists
<1>6. ManagerAt(u, t) = rows[First(covering)].value BY <1>4 DEF ManagerAt
<1>7. (ManagerAt(u, t))'
        = IF coveringLater # {} THEN later[First(coveringLater)].value ELSE chief'[u]
  BY DEF ManagerAt
<1>8. coveringLater = covering /\ \A i \in 1..Len(rows) : later[i].value = rows[i].value
  <2>1. CASE later = rows BY <2>1
  <2>2. CASE \E m \in Chiefs \cup {Nobody} : later = Succeed(rows, m)
    <3>1. PICK m \in Chiefs \cup {Nobody} : later = Succeed(rows, m) BY <2>2
    <3> HIDE DEF rows, later
    <3>2. /\ {i \in 1..Len(Succeed(rows, m)) : Contains(Succeed(rows, m)[i], t)} = covering
          /\ \A i \in 1..Len(rows) : Succeed(rows, m)[i].value = rows[i].value
      BY <1>2, <1>3, SucceedKeeps
    <3>3. coveringLater = {i \in 1..Len(Succeed(rows, m)) : Contains(Succeed(rows, m)[i], t)}
      BY <3>1, Zenon
    <3> HIDE DEF covering, coveringLater
    <3> QED BY <3>1, <3>2, <3>3
  <2>3. ChiefMoves(u) BY DEF HistoriesGrow
  <2> QED BY <2>1, <2>2, <2>3 DEF ChiefMoves
<1> HIDE DEF rows, later, covering, coveringLater
<1> QED BY <1>4, <1>5, <1>6, <1>7, <1>8

\* Who is above u depends on the managers of u and of those above him.
LEMMA AboveStands ==
  ASSUME NEW boss, NEW later, NEW u,
         \A x \in {u} \cup Above(boss, u) : later[x] = boss[x] /\ boss[x] \in Chiefs \cup {Nobody}
  PROVE  Above(later, u) = Above(boss, u)
<1> DEFINE A == Above(boss, u)
<1>1. A \in SUBSET Chiefs BY DEF Above
<1>2. \A x \in A \cup {u} : boss[x] \in A \cup {Nobody}
  BY AboveClimbs
<1>3. Above(later, u) \subseteq A
  <2>1. \A x \in A \cup {u} : later[x] \in A \cup {Nobody} BY <1>2
  <2> HIDE DEF A
  <2> QED BY <1>1, <2>1 DEF Above
<1>4. ASSUME NEW m \in A, NEW S \in SUBSET Chiefs, \A y \in S \cup {u} : later[y] \in S \cup {Nobody}
      PROVE  m \in S
  <2> DEFINE T == S \cap A
  <2>1. \A y \in T \cup {u} : boss[y] \in T \cup {Nobody} BY <1>2, <1>4
  <2>2. T \in SUBSET Chiefs OBVIOUS
  <2>3. m \in Above(boss, u) OBVIOUS
  <2> HIDE DEF T
  <2>4. m \in T BY <2>1, <2>2, <2>3 DEF Above
  <2> QED BY <2>4 DEF T
<1>5. A \subseteq Above(later, u) BY <1>1, <1>4 DEF Above
<1> QED BY <1>3, <1>5

\* Who was above u at an instant stays so where it is written down.
LEMMA SuperiorsStand ==
  ASSUME ReportingInv, HistoriesGrow, NEW u \in Staff, NEW t \in Nat, t <= clock, Followed(u, t)
  PROVE  (Superiors(u, t))' = Superiors(u, t)
<1> DEFINE boss == [x \in Staff |-> ManagerAt(x, t)]
           later == [x \in Staff |-> (ManagerAt(x, t))']
<1>1. Superiors(u, t) = Above(boss, u) BY DEF Superiors
<1>2. (Superiors(u, t))' = Above(later, u) BY DEF Superiors, Above
<1>3. Above(boss, u) \subseteq Staff BY DEF Above, Staff
<1>4. \A x \in {u} \cup Above(boss, u) :
        \E i \in 1..Len(chiefSpans[x]) : Contains(chiefSpans[x][i], t)
  BY <1>1 DEF Followed
<1>5. \A x \in {u} \cup Above(boss, u) : later[x] = boss[x] /\ boss[x] \in Chiefs \cup {Nobody}
  <2> TAKE x \in {u} \cup Above(boss, u)
  <2>1. x \in Staff BY <1>3
  <2>2. boss[x] = ManagerAt(x, t) /\ later[x] = (ManagerAt(x, t))' BY <2>1
  <2>3. (ManagerAt(x, t))' = ManagerAt(x, t) BY <1>4, <2>1, ManagerStands
  <2> QED BY <2>1, <2>2, <2>3, ManagerIs
<1> HIDE DEF boss, later
<1> QED BY <1>1, <1>2, <1>5, AboveStands

\* The views.
LEMMA ViewIs ==
  ASSUME NEW view \in Views
  PROVE  \/ view.scope = "company" \/ view.scope = "own" \/ view.scope = "office"
         \/ view.scope = "team" \/ view.scope = "lead"
BY DEF Views, Company, Own, OfficeView, TeamView, LeadView

\* A case that a view showed at an instant of the past it goes on to show.
LEMMA VisibleStands ==
  ASSUME ReportingInv, HistoriesGrow, NEW c \in CaseFiles, NEW w \in Windows, NEW view \in Views,
         Settled(view, c, w), Filed(c), NEW t \in w.from..w.to, t \in Nat, t <= clock,
         fact[c].at["created"] <= t
  PROVE  (Visible(view, CreditAt(c, t), t))' <=> Visible(view, CreditAt(c, t), t)
<1> DEFINE x == CreditAt(c, t)
<1>1. (CreditAt(c, t))' = x BY PastStands DEF CreditAt
<1>2. PICK u \in Staff : x.owner = u /\ OwnerAt(c, t) = u
  BY PaidAsCredited DEF OwnerAt, Staff
<1>3. CASE view.scope = "company" BY <1>3 DEF Visible
<1>4. CASE view.scope = "own" BY <1>1, <1>4 DEF Visible
<1>5. CASE view.scope = "office" BY <1>1, <1>5 DEF Visible
<1>6. CASE view.scope = "team"
  <2>1. Followed(u, t) BY <1>2, <1>6 DEF Settled
  <2>2. (Superiors(u, t))' = Superiors(u, t) BY <2>1, SuperiorsStand
  <2>3. Visible(view, x, t) <=> view.of \in {u} \cup Superiors(u, t)
    BY <1>2, <1>6 DEF Visible
  <2>4. (Visible(view, CreditAt(c, t), t))' <=> view.of \in {u} \cup (Superiors(u, t))'
    BY <1>1, <1>2, <1>6 DEF Visible, Superiors
  <2> QED BY <2>2, <2>3, <2>4
<1>7. CASE view.scope = "lead"
  <2>1. (Team(view.of))' = Team(view.of) BY <1>7 DEF Settled
  <2> QED BY <1>1, <1>7, <2>1 DEF Visible
<1> QED BY <1>3, <1>4, <1>5, <1>6, <1>7, ViewIs

\* ... and it stays among those it knows.
LEMMA LoadedStands ==
  ASSUME HistoriesGrow, NEW c \in CaseFiles, NEW w, NEW view, Settled(view, c, w), Filed(c),
         Filed(c)'
  PROVE  (c \in Loaded(view))' <=> c \in Loaded(view)
<1>1. CASE view.scope = "lead"
  <2>1. (PresentOwner(c) \in Team(view.of))' <=> PresentOwner(c) \in Team(view.of)
    BY <1>1 DEF Settled
  <2> QED BY <1>1, <2>1 DEF Loaded
<1>2. CASE view.scope # "lead" BY <1>2 DEF Loaded
<1> QED BY <1>1, <1>2

\* What is in a figure, and what will be.
LEMMA InMilestone ==
  ASSUME NEW c \in CaseFiles, NEW m, NEW w, NEW view, NEW t
  PROVE  /\ fact[c].at[m] = t =>
              (c \in Milestone(m, w, view) <=>
                 c \in Loaded(view) /\ t > 0 /\ Within(t, w) /\ Visible(view, CreditAt(c, t), t))
         /\ fact'[c].at[m] = t =>
              ((c \in Milestone(m, w, view))' <=>
                 /\ (c \in Loaded(view))' /\ t > 0 /\ Within(t, w)
                 /\ (Visible(view, CreditAt(c, t), t))')
<1>1. Loaded(view) \subseteq CaseFiles /\ (Loaded(view))' \subseteq CaseFiles BY DEF Loaded
<1> QED BY <1>1 DEF Milestone

LEMMA InOthers ==
  ASSUME NEW c \in CaseFiles, NEW w, NEW view
  PROVE  /\ c \in Returned(w, view) <=>
              /\ c \in Loaded(view)
              /\ \E t \in fact[c].returned : Within(t, w) /\ Visible(view, CreditAt(c, t), t)
         /\ (c \in Returned(w, view))' <=>
              /\ (c \in Loaded(view))'
              /\ \E t \in fact'[c].returned : Within(t, w) /\ (Visible(view, CreditAt(c, t), t))'
         /\ c \in Pending(w, view) <=>
              c \in Loaded(view) /\ PendingAt(c, w.to) /\ Visible(view, CreditAt(c, w.to), w.to)
         /\ (c \in Pending(w, view))' <=>
              /\ (c \in Loaded(view))' /\ (PendingAt(c, w.to))'
              /\ (Visible(view, CreditAt(c, w.to), w.to))'
BY DEF Returned, Pending, Loaded

\* Of one case in the figures of a window that has ended.
LEMMA CaseStands ==
  ASSUME ReportingInv, HistoriesGrow, NEW c \in CaseFiles, NEW w \in Windows, NEW view \in Views,
         w.to <= clock, Settled(view, c, w)
  PROVE  /\ \A m \in Milestones :
              m \notin {"approved", "booked"} \/ fact'[c].at[m] = fact[c].at[m] =>
                ((c \in Milestone(m, w, view))' <=> c \in Milestone(m, w, view))
         /\ (c \in Returned(w, view))' <=> c \in Returned(w, view)
         /\ (c \in Pending(w, view))' <=> c \in Pending(w, view)
<1>1. ReportingTypeOK /\ Tick /\ Dated(c) /\ CaseMoves(c)
  BY DEF ReportingInv, HistoriesGrow
<1>2. clock \in Nat /\ Now = clock + 1 /\ LastInstant \in Nat BY <1>1, TickIs, ReportingAssumption
<1>3. w.to \in Nat /\ w.from \in Nat \ {0} BY <1>2 DEF Windows
<1>4. ~Within(Now, w) BY <1>2, <1>3 DEF Within
<1>5. \A t \in Nat : Within(t, w) => t <= clock /\ t \in w.from..w.to BY <1>2, <1>3 DEF Within
<1>6. /\ \A m \in Milestones : fact[c].at[m] \in Nat
      /\ fact[c].returned \in SUBSET Nat
  BY <1>1, CaseTypes
<1>7. "created" \in Milestones /\ "terminal" \in Milestones BY DEF Milestones
<1>8. ASSUME Filed(c)
      PROVE  /\ fact'[c].at["created"] = fact[c].at["created"]
             /\ (c \in Loaded(view))' <=> c \in Loaded(view)
             /\ \A t \in Nat : Within(t, w) /\ fact[c].at["created"] <= t =>
                  ((Visible(view, CreditAt(c, t), t))' <=> Visible(view, CreditAt(c, t), t))
  <2>1. fact'[c].at["created"] = fact[c].at["created"]
    <3>1. "created" \notin {"approved", "booked"} OBVIOUS
    <3>2. fact[c].at["created"] # 0 BY <1>6, <1>7, <1>8 DEF Filed
    <3> QED BY <1>1, <1>7, <3>1, <3>2 DEF CaseMoves
  <2>2. (Filed(c))' BY <1>8, <2>1 DEF Filed
  <2>3. (c \in Loaded(view))' <=> c \in Loaded(view) BY <1>8, <2>2, LoadedStands
  <2>4. ASSUME NEW t \in Nat, Within(t, w), fact[c].at["created"] <= t
        PROVE  (Visible(view, CreditAt(c, t), t))' <=> Visible(view, CreditAt(c, t), t)
    <3>1. t <= clock /\ t \in w.from..w.to BY <1>5, <2>4
    <3> QED BY <1>8, <2>4, <3>1, VisibleStands
  <2> QED BY <2>1, <2>3, <2>4
<1>9. ASSUME NEW m \in Milestones, m \notin {"approved", "booked"} \/ fact'[c].at[m] = fact[c].at[m]
      PROVE  (c \in Milestone(m, w, view))' <=> c \in Milestone(m, w, view)
  <2>1. CASE fact'[c].at[m] = fact[c].at[m] /\ fact[c].at[m] > 0
    <3>1. Filed(c) /\ fact[c].at["created"] <= fact[c].at[m]
      BY <1>1, <1>6, <2>1 DEF Dated
    <3> DEFINE t == fact[c].at[m]
    <3>2. t \in Nat BY <1>6
    <3> QED BY <1>8, <2>1, <3>1, <3>2, InMilestone
  <2>2. CASE fact[c].at[m] = 0
    <3>1. c \notin Milestone(m, w, view) BY <2>2, InMilestone
    <3>2. fact'[c].at[m] = 0 \/ fact'[c].at[m] = Now BY <1>1, <2>2 DEF CaseMoves
    <3>3. ~(c \in Milestone(m, w, view))' BY <1>4, <3>2, InMilestone
    <3> QED BY <3>1, <3>3
  <2>3. fact'[c].at[m] = fact[c].at[m] \/ fact[c].at[m] = 0
    BY <1>1, <1>9 DEF CaseMoves
  <2>4. fact[c].at[m] \in Nat BY <1>6
  <2> QED BY <2>1, <2>2, <2>3, <2>4
<1>10. (c \in Returned(w, view))' <=> c \in Returned(w, view)
  <2>1. \A t : Within(t, w) => (t \in fact'[c].returned <=> t \in fact[c].returned)
    BY <1>1, <1>4 DEF CaseMoves
  <2>2. CASE ~Filed(c)
    <3>1. fact[c].returned = {} BY <1>1, <2>2 DEF Dated
    <3> QED BY <2>1, <3>1, InOthers
  <2>3. CASE Filed(c)
    <3>1. \A t \in fact[c].returned : t \in Nat /\ fact[c].at["created"] <= t
      BY <1>1, <1>6 DEF Dated
    <3>2. \A t \in fact[c].returned : Within(t, w) =>
            ((Visible(view, CreditAt(c, t), t))' <=> Visible(view, CreditAt(c, t), t))
      BY <1>8, <2>3, <3>1
    <3>3. (\E t \in fact'[c].returned : Within(t, w) /\ (Visible(view, CreditAt(c, t), t))')
            <=> \E t \in fact[c].returned : Within(t, w) /\ Visible(view, CreditAt(c, t), t)
      BY <2>1, <3>2
    <3> QED BY <1>8, <2>3, <3>3, InOthers
  <2> QED BY <2>2, <2>3
<1>11. (c \in Pending(w, view))' <=> c \in Pending(w, view)
  <2> DEFINE d == fact[c].at["created"]
             e == fact[c].at["terminal"]
             d2 == fact'[c].at["created"]
             e2 == fact'[c].at["terminal"]
  <2>1. d \in Nat /\ e \in Nat BY <1>6, <1>7
  <2>2. (d2 = d \/ (d = 0 /\ d2 = Now)) /\ (e2 = e \/ (e = 0 /\ e2 = Now))
    <3>1. "created" \notin {"approved", "booked"} /\ "terminal" \notin {"approved", "booked"} OBVIOUS
    <3>2. d2 \in {d, Now} /\ (d # 0 => d2 = d) BY <1>1, <1>7, <3>1 DEF CaseMoves
    <3>3. e2 \in {e, Now} /\ (e # 0 => e2 = e) BY <1>1, <1>7, <3>1 DEF CaseMoves
    <3> HIDE DEF d, e, d2, e2
    <3> QED BY <3>2, <3>3
  <2>3. PendingAt(c, w.to) <=> d > 0 /\ d <= w.to /\ (e = 0 \/ e > w.to)
    BY DEF PendingAt, Filed
  <2>4. (PendingAt(c, w.to))' <=> d2 > 0 /\ d2 <= w.to /\ (e2 = 0 \/ e2 > w.to)
    BY DEF PendingAt, Filed
  <2>5. d > 0 => Filed(c) BY DEF Filed
  <2>6. Within(w.to, w) BY <1>3 DEF Within, Windows
  <2>7. Filed(c) /\ d <= w.to =>
          /\ (c \in Loaded(view))' <=> c \in Loaded(view)
          /\ (Visible(view, CreditAt(c, w.to), w.to))' <=> Visible(view, CreditAt(c, w.to), w.to)
    BY <1>3, <1>8, <2>6
  <2> HIDE DEF d, e, d2, e2
  <2>8. (PendingAt(c, w.to))' <=> PendingAt(c, w.to)
    BY <1>2, <1>3, <2>1, <2>2, <2>3, <2>4
  <2>9. PendingAt(c, w.to) => Filed(c) /\ d <= w.to BY <2>3, <2>5
  <2> QED BY <2>7, <2>8, <2>9, InOthers
<1> QED BY <1>9, <1>10, <1>11

LEMMA FiguresStand ==
  ASSUME ReportingInv, HistoriesGrow, NEW c \in CaseFiles, NEW w \in Windows, NEW view \in Views,
         w.to <= clock, Settled(view, c, w)
  PROVE  /\ (Figures(w, view, c))' = Figures(w, view, c)
         /\ \A m \in {"approved", "booked"} : fact'[c].at[m] = fact[c].at[m] =>
              (c \in Milestone(m, w, view))' = (c \in Milestone(m, w, view))
<1>1. \A m \in {"created", "submitted", "funded", "terminal"} :
        (c \in Milestone(m, w, view))' = (c \in Milestone(m, w, view))
  <2> TAKE m \in {"created", "submitted", "funded", "terminal"}
  <2>1. m \in Milestones /\ m \notin {"approved", "booked"} BY DEF Milestones
  <2> QED BY <2>1, CaseStands
<1>2. (c \in Returned(w, view))' = (c \in Returned(w, view)) BY CaseStands
<1>3. (c \in Pending(w, view))' = (c \in Pending(w, view)) BY CaseStands
<1>4. (Figures(w, view, c))' = Figures(w, view, c)
  BY <1>1, <1>2, <1>3 DEF Figures
<1>5. {"approved", "booked"} \subseteq Milestones BY DEF Milestones
<1> QED BY <1>4, <1>5, CaseStands

\* The invariant: dated facts, and histories without gaps.
THEOREM ReportingInvariance == ReportingSpec => []ReportingInv
<1>1. ReportingInv /\ UNCHANGED reportingVars => ReportingInv'
  <2> SUFFICES ASSUME ReportingInv, UNCHANGED reportingVars PROVE ReportingInv'
    OBVIOUS
  <2>1. ReportingTypeOK' BY DEF ReportingInv, ReportingTypeOK, reportingVars
  <2>2. \A c \in CaseFiles : Dated(c) => (Dated(c))' BY DEF reportingVars, Dated, Filed
  <2> QED BY <2>1, <2>2 DEF ReportingInv
<1>2. ReportingInv /\ [ReportingNext]_reportingVars => ReportingInv'
  BY <1>1, ReportingNextInv
<1> QED BY ReportingInitInv, <1>2, PTL DEF ReportingSpec

\* Reports and finance agree on whom a case is credited to, and the figures add up, for
\* any number of cases, employees, managers and instants.
THEOREM FiguresAddUpHolds == ReportingSpec => []FiguresAddUp
BY ReportingInvariance, FiguresFollow, PTL

\* Reassignment after an event moves no credit, nor does a move to another office or,
\* where the managers were dated, another manager; and whom finance pays stays too.
\* In a Team Leader's reports this is so of the cases that stay in his team.
THEOREM CreditStandsHolds == ReportingSpec => CreditStands
<1> DEFINE Stands ==
      /\ \A c \in CaseFiles, t \in 1..clock : Filed(c) =>
           (PaidOwner(c, t))' = PaidOwner(c, t) /\ (PaidManager(c, t))' = PaidManager(c, t)
      /\ \A w \in Windows, view \in Views, c \in CaseFiles : w.to <= clock /\ Settled(view, c, w) =>
           /\ (Figures(w, view, c))' = Figures(w, view, c)
           /\ \A m \in {"approved", "booked"} : fact'[c].at[m] = fact[c].at[m] =>
                (c \in Milestone(m, w, view)') = (c \in Milestone(m, w, view))
<1>1. ReportingInv /\ [ReportingNext]_reportingVars => [Stands]_reportingVars
  <2>1. ReportingInv /\ ReportingNext => HistoriesGrow BY ReportingNextInv
  <2>2. ReportingInv /\ HistoriesGrow => Stands BY PaymentsStand, FiguresStand
  <2> HIDE DEF Stands
  <2> QED BY <2>1, <2>2
<1> QED BY <1>1, ReportingInvariance, PTL DEF ReportingSpec, CreditStands
=============================================================================
