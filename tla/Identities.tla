------------------------------ MODULE Identities ------------------------------
(***************************************************************************)
(* Login emails, Employee Codes and reserved User Codes of the persons       *)
(* (identity/users_service.py, onboarding_service.py, bulk_upload.py).       *)
(*                                                                           *)
(* A request checks that an identifier is free, and commits later against    *)
(* what the database enforces: the unique indexes on the current values and  *)
(* the primary keys of the reservations.  Identifiers differ here when they  *)
(* differ in more than case.                                                 *)
(***************************************************************************)
EXTENDS FiniteSets

CONSTANTS
  Persons, Emails, Codes,
  Tickets,        \* User Codes issued beforehand (UserCodeReservation)
  Desks,          \* concurrent requests
  Unset

ASSUME IdentitiesAssumption == Unset \notin Persons \cup Emails \cup Codes \cup Tickets

VARIABLES
  email,          \* email[p]: Unset until p is created
  code,           \* code[p]: employee_code
  former,         \* former[p]: UserEmailHistory
  issued,         \* issued[p]: the Employee Codes in p's assignment history
  emailOf,        \* emailOf[e]: the user of ReservedEmail e
  codeOf,         \* codeOf[c]: the user of ReservedEmployeeCode c
  ticket,         \* ticket[k]: "unissued", "issued" or the person created with it
  desk            \* desk[d]: what request d has checked

identitiesVars == <<email, code, former, issued, emailOf, codeOf, ticket, desk>>

\* A person about to be created, and the file's or form's set of them.
Row == [person: Persons, email: Emails, code: Codes \cup {Unset}]
Job == [op: {"create", "basic", "import"}, rows: SUBSET Row, ticket: Tickets \cup {Unset}]
  \cup [op: {"email"}, person: Persons, new: Emails, old: Emails]
  \cup [op: {"rehire"}, person: Persons, new: Codes, old: Codes \cup {Unset}]
NoJob == [op |-> "none"]

IdentitiesTypeOK ==
  /\ email \in [Persons -> Emails \cup {Unset}]
  /\ code \in [Persons -> Codes \cup {Unset}]
  /\ former \in [Persons -> SUBSET Emails]
  /\ issued \in [Persons -> SUBSET Codes]
  /\ emailOf \in [Emails -> Persons \cup {Unset}]
  /\ codeOf \in [Codes -> Persons \cup {Unset}]
  /\ ticket \in [Tickets -> {"unissued", "issued"} \cup Persons]
  /\ \A d \in Desks : desk[d] = NoJob \/ desk[d] \in Job

IdentitiesInit ==
  /\ email = [p \in Persons |-> Unset] /\ code = [p \in Persons |-> Unset]
  /\ former = [p \in Persons |-> {}] /\ issued = [p \in Persons |-> {}]
  /\ emailOf = [e \in Emails |-> Unset] /\ codeOf = [c \in Codes |-> Unset]
  /\ ticket = [k \in Tickets |-> "unissued"]
  /\ desk = [d \in Desks |-> NoJob]

-----------------------------------------------------------------------------
Created(p) == email[p] # Unset
Idle(d) == desk[d] = NoJob

\* assert_unique_email for p: nobody else has it, had it or has it reserved.
EmailFree(e, p) ==
  /\ \A q \in Persons \ {p} : email[q] # e /\ e \notin former[q]
  /\ emailOf[e] \in {Unset, p}

\* assert_unique_employee_code.
CodeFree(c, p) ==
  /\ \A q \in Persons \ {p} : code[q] # c /\ c \notin issued[q]
  /\ codeOf[c] \in {Unset, p}

\* The unique indexes on users, and the primary keys of the reservations.
EmailStorable(e, p) == (\A q \in Persons \ {p} : email[q] # e) /\ emailOf[e] \in {Unset, p}
CodeIndexed(c, p) == \A q \in Persons \ {p} : code[q] # c
CodeStorable(c, p) == c # Unset => CodeIndexed(c, p) /\ codeOf[c] \in {Unset, p}

PersonFree(row) ==
  /\ ~Created(row.person)
  /\ EmailFree(row.email, row.person)
  /\ row.code # Unset => CodeFree(row.code, row.person)

Open(d, job) == desk' = [desk EXCEPT ![d] = job]
Enrolled(d) == desk[d].rows
Untouched == UNCHANGED <<email, code, former, issued, emailOf, codeOf>>

-----------------------------------------------------------------------------
\* reserve_user_code.
ReserveUserCode(k) ==
  /\ ticket[k] = "unissued"
  /\ ticket' = [ticket EXCEPT ![k] = "issued"]
  /\ Untouched /\ UNCHANGED desk

\* create_user, up to its flush.
CreatePerson(d, row) ==
  /\ Idle(d) /\ PersonFree(row) /\ row.code # Unset
  /\ Open(d, [op |-> "create", rows |-> {row}, ticket |-> Unset])
  /\ Untouched /\ UNCHANGED ticket

\* create_basic_user: with a reserved User Code, locked, or with a code made up.
CreateBasic(d, row, k) ==
  /\ Idle(d) /\ PersonFree(row)
  /\ k # Unset =>
       /\ ticket[k] = "issued"
       /\ \A x \in Desks : desk[x].op = "basic" => desk[x].ticket # k
  /\ (k = Unset) <=> (row.code # Unset)
  /\ Open(d, [op |-> "basic", rows |-> {row}, ticket |-> k])
  /\ Untouched /\ UNCHANGED ticket

\* validate_staff_csv under the import's advisory lock.
ImportStaff(d, rows) ==
  /\ Idle(d) /\ \A x \in Desks : desk[x].op # "import"
  /\ rows # {} /\ \A row \in rows : PersonFree(row)
  /\ \A x, y \in rows : x # y =>
       x.person # y.person /\ x.email # y.email /\ (x.code = Unset \/ x.code # y.code)
  /\ Open(d, [op |-> "import", rows |-> rows, ticket |-> Unset])
  /\ Untouched /\ UNCHANGED ticket

\* Every row is inserted and its identifiers reserved, or none is.
Enrol(d) ==
  /\ desk[d].op \in {"create", "basic", "import"}
  /\ \A row \in Enrolled(d) :
       ~Created(row.person) /\ EmailStorable(row.email, row.person) /\ CodeStorable(row.code, row.person)
  /\ LET New(p) == CHOOSE row \in Enrolled(d) : row.person = p
         Added == {row.person : row \in Enrolled(d)}
     IN /\ email' = [p \in Persons |-> IF p \in Added THEN New(p).email ELSE email[p]]
        /\ code' = [p \in Persons |-> IF p \in Added THEN New(p).code ELSE code[p]]
        /\ issued' = [p \in Persons |-> issued[p] \cup
             (IF p \in Added /\ desk[d].op # "basic" THEN {New(p).code} \ {Unset} ELSE {})]
        /\ emailOf' = [e \in Emails |->
             IF \E p \in Added : New(p).email = e THEN CHOOSE p \in Added : New(p).email = e
             ELSE emailOf[e]]
        /\ codeOf' = [c \in Codes |->
             IF \E p \in Added : New(p).code = c THEN CHOOSE p \in Added : New(p).code = c
             ELSE codeOf[c]]
        /\ ticket' = [k \in Tickets |->
             IF k = desk[d].ticket THEN CHOOSE p \in Added : TRUE ELSE ticket[k]]
  /\ Open(d, NoJob)
  /\ UNCHANGED former

\* update_user with another email: checked on the copy of the user it loaded.
CheckEmail(d, p, e) ==
  /\ Idle(d) /\ Created(p) /\ e # email[p]
  /\ EmailFree(e, p)
  /\ Open(d, [op |-> "email", person |-> p, new |-> e, old |-> email[p]])
  /\ Untouched /\ UNCHANGED ticket

\* Mutant: the new email is not reserved.
ChangeEmailUnreserved(d) ==
  LET job == desk[d] IN
  /\ job.op = "email" /\ EmailStorable(job.new, job.person)
  /\ email' = [email EXCEPT ![job.person] = job.new]
  /\ former' = [former EXCEPT ![job.person] = @ \cup {job.old}]
  /\ Open(d, NoJob)
  /\ UNCHANGED <<code, issued, emailOf, codeOf, ticket>>

\* The copy's email goes to the history, the new one is reserved.
ChangeEmail(d) ==
  LET job == desk[d] IN
  /\ job.op = "email" /\ EmailStorable(job.new, job.person)
  /\ email' = [email EXCEPT ![job.person] = job.new]
  /\ former' = [former EXCEPT ![job.person] = @ \cup {job.old}]
  /\ emailOf' = [emailOf EXCEPT ![job.new] = job.person]
  /\ Open(d, NoJob)
  /\ UNCHANGED <<code, issued, codeOf, ticket>>

\* update_user with an Employee Code: the code is read anew, under the row's lock.
AssignCode(p, c) ==
  /\ Created(p) /\ code[p] = Unset
  /\ CodeFree(c, p)
  /\ code' = [code EXCEPT ![p] = c]
  /\ issued' = [issued EXCEPT ![p] = @ \cup {c}]
  /\ codeOf' = [codeOf EXCEPT ![c] = p]
  /\ UNCHANGED <<email, former, emailOf, ticket, desk>>

\* rehire_user with an Employee Code: checked on the copy, which has none.
CheckRehire(d, p, c) ==
  /\ Idle(d) /\ Created(p) /\ code[p] = Unset
  /\ CodeFree(c, p)
  /\ Open(d, [op |-> "rehire", person |-> p, new |-> c, old |-> code[p]])
  /\ Untouched /\ UNCHANGED ticket

\* The code is written without a reservation.
Rehire(d) ==
  LET job == desk[d] IN
  /\ job.op = "rehire" /\ CodeIndexed(job.new, job.person)
  /\ code' = [code EXCEPT ![job.person] = job.new]
  /\ issued' = [issued EXCEPT ![job.person] = @ \cup {job.new}]
  /\ Open(d, NoJob)
  /\ UNCHANGED <<email, former, emailOf, codeOf, ticket>>

\* identity_unique_conflict, or a request that ends otherwise: rolled back.
GiveUp(d) ==
  /\ ~Idle(d)
  /\ Open(d, NoJob)
  /\ Untouched /\ UNCHANGED ticket

IdentitiesNext ==
  \/ \E k \in Tickets : ReserveUserCode(k)
  \/ \E d \in Desks, row \in Row :
       CreatePerson(d, row) \/ \E k \in Tickets \cup {Unset} : CreateBasic(d, row, k)
  \/ \E d \in Desks, x, y \in Row : ImportStaff(d, {x, y})
  \/ \E d \in Desks, p \in Persons, e \in Emails : CheckEmail(d, p, e)
  \/ \E d \in Desks, p \in Persons, c \in Codes : CheckRehire(d, p, c)
  \/ \E p \in Persons, c \in Codes : AssignCode(p, c)
  \/ \E d \in Desks : Enrol(d) \/ ChangeEmail(d) \/ Rehire(d) \/ GiveUp(d)

IdentitiesSpec == IdentitiesInit /\ [][IdentitiesNext]_identitiesVars

-----------------------------------------------------------------------------
\* Every email a person has or had.
EmailsOf(p) == former[p] \cup ({email[p]} \ {Unset})

\* A login email belongs to one person for good: what somebody has or has had,
\* also when another change overtook that change, is given to nobody else
\* (find_email_owner and reserve_email beside the unique index).
EmailsKept ==
  /\ \A p, q \in Persons : p # q => EmailsOf(p) \cap EmailsOf(q) = {}
  /\ \A e \in Emails, p \in Persons : emailOf[e] = p => \A q \in Persons \ {p} : e \notin EmailsOf(q)

\* docs/account-onboarding.md:22: an Employee Code is immutable once assigned.
\* Two rehires that overlap do not keep this: see the README.
CodeImmutable == [][\A p \in Persons : code[p] # Unset => code'[p] = code[p]]_identitiesVars
=============================================================================
