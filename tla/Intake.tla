-------------------------------- MODULE Intake --------------------------------
(***************************************************************************)
(* Customers, the creation of cases and the workflow versions of one product *)
(* of a bank (customers/service.py, create_application and relink in          *)
(* applications/service.py, applications/workflow_service.py).               *)
(*                                                                           *)
(* Concurrency.  Nothing here takes a row lock: a request reads and checks,   *)
(* then writes and commits.  job[d] is what an open request has read.  What   *)
(* it writes meets the unique indexes only: one live case per customer, bank  *)
(* and product, the codes, one row per identifier, one merge per source and   *)
(* one workflow per version.  A request whose write violates one fails.      *)
(***************************************************************************)
EXTENDS Integers, FiniteSets

CONSTANTS
  Customers, Papers,   \* customers, and the identifiers they present
  Cases,
  Versions,            \* bound: the workflow versions are 1..Versions
  Counters,            \* concurrent requests
  Absent

ASSUME IntakeAssumption ==
  Versions \in Nat \ {0} /\ Absent \notin Customers /\ IsFiniteSet(Cases)

VARIABLES
  customer,   \* customer[c]: status and merged_into_id
  paper,      \* paper[i]: the customer of its history row, and whether it is current
  file,       \* file[k]: customer, number of the code, version, whether it is live
  lastCode,   \* ApplicationCodeCounter
  version,    \* version[v]: "absent", "active" or "inactive"
  job

intakeVars == <<customer, paper, file, lastCode, version, job>>

NoJob == [op |-> "none"]
NoFile == [of |-> Absent, code |-> 0, version |-> 0, live |-> FALSE]
Job ==
  [op: {"create"}, of: Customers, new: BOOLEAN, with: Papers \cup {Absent},
   code: 1..Cardinality(Cases) + 1, version: 1..Versions]
    \cup [op: {"register"}, of: Customers, with: Papers \cup {Absent}]
    \cup [op: {"identify"}, of: Customers, with: Papers]
    \cup [op: {"status"}, of: Customers, to: {"active", "inactive"}]
    \cup [op: {"merge"}, of: Customers, into: Customers, files: SUBSET Cases]
    \cup [op: {"version"}, next: 1..Versions]

IntakeTypeOK ==
  /\ customer \in [Customers -> [status: {"absent", "active", "inactive", "merged"},
                                 into: Customers \cup {Absent}]]
  /\ paper \in [Papers -> [of: Customers \cup {Absent}, current: BOOLEAN]]
  /\ file \in [Cases -> [of: Customers \cup {Absent}, code: 0..Cardinality(Cases) + 1,
                         version: 0..Versions, live: BOOLEAN]]
  /\ lastCode \in 0..Cardinality(Cases)
  /\ version \in [1..Versions -> {"absent", "active", "inactive"}]
  /\ job \in [Counters -> Job \cup {NoJob}]

IntakeInit ==
  /\ customer = [c \in Customers |-> [status |-> "absent", into |-> Absent]]
  /\ paper = [i \in Papers |-> [of |-> Absent, current |-> FALSE]]
  /\ file = [k \in Cases |-> NoFile]
  /\ lastCode = 0
  /\ version = [v \in 1..Versions |-> IF v = 1 THEN "active" ELSE "absent"]
  /\ job = [d \in Counters |-> NoJob]

-----------------------------------------------------------------------------
(* What a request reads.                                                     *)

Status(c) == customer[c].status
LiveFiles(c) == {k \in Cases : file[k].of = c /\ file[k].live}
FilesOf(c) == {k \in Cases : file[k].of = c}
NewestVersion == CHOOSE v \in 1..Versions :
  version[v] # "absent" /\ \A w \in 1..Versions : version[w] # "absent" => w <= v

\* Whom an identifier resolves to: a merged customer is followed one step.
Match(i) ==
  LET c == paper[i].of
  IN IF ~paper[i].current THEN Absent
     ELSE IF Status(c) = "merged" THEN customer[c].into ELSE c

\* Customers not created yet and not being created.
FreshCustomers ==
  {c \in Customers : Status(c) = "absent"
     /\ \A d \in Counters : job[d].op \in {"create", "register"} => job[d].of # c}

\* Which of them, and which of the cases, is next does not matter (uuid4).
NextOf(fresh) == IF fresh = {} THEN {} ELSE {CHOOSE x \in fresh : TRUE}

StartJob(d, j) ==
  /\ job[d] = NoJob
  /\ job' = [job EXCEPT ![d] = j]
  /\ UNCHANGED <<customer, paper, file, lastCode, version>>

Creation(c, new, i) ==
  [op |-> "create", of |-> c, new |-> new, with |-> i, code |-> lastCode + 1,
   version |-> NewestVersion]

\* A case for the customer that an identifier shows, for a new one, or for one
\* that is picked from the directory.
BeginCreate(d) ==
  /\ version[NewestVersion] = "active"
  /\ \/ \E i \in Papers, c \in Customers :
          /\ c = Match(i) /\ Status(c) = "active" /\ LiveFiles(c) = {}
          /\ StartJob(d, Creation(c, FALSE, Absent))
     \/ \E i \in Papers \cup {Absent}, c \in NextOf(FreshCustomers) :
          /\ i # Absent => paper[i].of = Absent
          /\ StartJob(d, Creation(c, TRUE, i))
     \/ \E c \in Customers :
          /\ Status(c) = "active" /\ LiveFiles(c) = {}
          /\ StartJob(d, Creation(c, FALSE, Absent))

BeginRegister(d) ==
  \E i \in Papers \cup {Absent}, c \in NextOf(FreshCustomers) :
    /\ i # Absent => paper[i].of = Absent
    /\ StartJob(d, [op |-> "register", of |-> c, with |-> i])

BeginIdentify(d) ==
  \E i \in Papers, c \in Customers :
    /\ Status(c) \in {"active", "inactive"} /\ paper[i].of = Absent
    /\ StartJob(d, [op |-> "identify", of |-> c, with |-> i])

\* A customer with live cases is not deactivated.
BeginStatus(d) ==
  \E c \in Customers, to \in {"active", "inactive"} :
    /\ Status(c) \in {"active", "inactive"} \ {to}
    /\ to = "inactive" => LiveFiles(c) = {}
    /\ StartJob(d, [op |-> "status", of |-> c, to |-> to])

\* Two customers with a live case for the same product are not merged.
BeginMerge(d) ==
  \E c, p \in Customers :
    /\ c # p /\ {Status(c), Status(p)} \subseteq {"active", "inactive"}
    /\ LiveFiles(c) = {} \/ LiveFiles(p) = {}
    /\ StartJob(d, [op |-> "merge", of |-> c, into |-> p, files |-> FilesOf(c)])

BeginVersion(d) ==
  /\ NewestVersion < Versions
  /\ StartJob(d, [op |-> "version", next |-> NewestVersion + 1])

-----------------------------------------------------------------------------
(* What it writes, against the unique indexes.                               *)

Done(d) == job' = [job EXCEPT ![d] = NoJob]

\* The history row of an identifier, current or not, is unique.
PaperFree(i) == i \in Papers => paper[i].of = Absent

RecordPaper(c, i) ==
  paper' = [x \in Papers |->
    IF x = i THEN [of |-> c, current |-> TRUE]
    ELSE IF paper[x].of = c /\ i # Absent THEN [paper[x] EXCEPT !.current = FALSE]
    ELSE paper[x]]

Enter(c) == customer' = [customer EXCEPT ![c].status = "active"]

CodeFree(n) == \A k \in Cases : file[k].code # n

ActiveUnique(c) == LiveFiles(c) = {}

\* Mutant: relinking relies on the check made before.
RelinkChecked(files, into) == into # Absent

\* The live cases that relinking brings together are at most one.
Relinkable(files, into) ==
  Cardinality({k \in Cases : file[k].live /\ (k \in files \/ file[k].of = into)}) <= 1


CommitCreate(d) ==
  LET j == job[d]
  IN /\ j.op = "create" /\ PaperFree(j.with) /\ ActiveUnique(j.of) /\ CodeFree(j.code)
     /\ \E k \in NextOf({k \in Cases : file[k] = NoFile}) :
          file' = [file EXCEPT ![k] =
            [of |-> j.of, code |-> j.code, version |-> j.version, live |-> TRUE]]
     /\ lastCode' = j.code
     /\ IF j.new THEN Enter(j.of) /\ RecordPaper(j.of, j.with) ELSE UNCHANGED <<customer, paper>>
     /\ Done(d) /\ UNCHANGED version

CommitRegister(d) ==
  LET j == job[d]
  IN /\ j.op = "register" /\ PaperFree(j.with)
     /\ Enter(j.of) /\ RecordPaper(j.of, j.with)
     /\ Done(d) /\ UNCHANGED <<file, lastCode, version>>

CommitIdentify(d) ==
  LET j == job[d]
  IN /\ j.op = "identify" /\ PaperFree(j.with)
     /\ RecordPaper(j.of, j.with)
     /\ Done(d) /\ UNCHANGED <<customer, file, lastCode, version>>

\* The UPDATE names the status only.
CommitStatus(d) ==
  /\ job[d].op = "status"
  /\ customer' = [customer EXCEPT ![job[d].of].status = job[d].to]
  /\ Done(d) /\ UNCHANGED <<paper, file, lastCode, version>>

\* A source is merged once (customer.into is also the CustomerMerge row); its
\* live case, if any, must not meet one of the primary.
CommitMerge(d) ==
  LET j == job[d]
  IN /\ j.op = "merge" /\ customer[j.of].into = Absent
     /\ Relinkable(j.files, j.into)
     /\ customer' = [customer EXCEPT ![j.of] = [status |-> "merged", into |-> j.into]]
     /\ file' = [k \in Cases |-> IF k \in j.files THEN [file[k] EXCEPT !.of = j.into] ELSE file[k]]
     /\ Done(d) /\ UNCHANGED <<paper, lastCode, version>>

\* A new version retires the one it was copied from.
CommitVersion(d) ==
  LET n == job[d].next
  IN /\ job[d].op = "version" /\ version[n] = "absent"
     /\ version' = [version EXCEPT ![n] = "active", ![n - 1] = "inactive"]
     /\ Done(d) /\ UNCHANGED <<customer, paper, file, lastCode>>

\* A write that violates an index, or a request that is cut off.
Reject(d) ==
  /\ job[d] # NoJob /\ Done(d)
  /\ UNCHANGED <<customer, paper, file, lastCode, version>>

\* A case reaches its outcome.
CloseFile ==
  \E k \in Cases :
    /\ file[k].live
    /\ file' = [file EXCEPT ![k].live = FALSE]
    /\ UNCHANGED <<customer, paper, lastCode, version, job>>

IntakeNext ==
  \/ \E d \in Counters :
       \/ BeginCreate(d) \/ BeginRegister(d) \/ BeginIdentify(d)
       \/ BeginStatus(d) \/ BeginMerge(d) \/ BeginVersion(d)
       \/ CommitCreate(d) \/ CommitRegister(d) \/ CommitIdentify(d)
       \/ CommitStatus(d) \/ CommitMerge(d) \/ CommitVersion(d)
       \/ Reject(d)
  \/ CloseFile

IntakeSpec == IntakeInit /\ [][IntakeNext]_intakeVars

-----------------------------------------------------------------------------
\* The unlocked checks of intake are made good by the indexes:
\*  - a customer has at most one live case for a product, also when two creations,
\*    or a creation and a merge, pass their checks together;
\*  - the code counter never falls behind the codes that were issued: of two
\*    creations that computed one code one fails, and what the next request
\*    computes is free;
\*  - the newest workflow version is the only active one, whatever versions are
\*    created at the same time
\* (_assert_active_unique, relink_applications, next_application_code,
\* create_workflow_version).
IntakeSound ==
  /\ \A c \in Customers : Cardinality(LiveFiles(c)) <= 1
  /\ \A k \in Cases : file[k].code <= lastCode
  /\ \A k, l \in Cases : file[k] # NoFile /\ file[k].code = file[l].code => k = l
  /\ \A v \in 1..Versions : version[v] = "active" <=> v = NewestVersion

\* docs/architecture.md:60: "Customer deactivation is blocked while active
\* applications exist."  A case created meanwhile escapes this: see the README.
DeactivationBlocked ==
  [][\A c \in Customers :
       customer[c].status = "active" /\ customer'[c].status = "inactive" => LiveFiles(c) = {}]_intakeVars
=============================================================================
