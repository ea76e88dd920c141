---------------------------- MODULE StaffProofs -----------------------------
(***************************************************************************)
(* Safety of what is kept about users and their organisation, for every    *)
(* value of the constants: Hierarchy, Sessions, Identities, Organisation   *)
(* and Approvals.                                                          *)
(***************************************************************************)
EXTENDS Hierarchy, Sessions, Identities, Organisation, Approvals, TLAPS

-----------------------------------------------------------------------------
(***************************************************************************)
(* Hierarchy, for any number of users and requests.                        *)
(***************************************************************************)

\* The advisory lock: one request at a time has a validated change.
OneWriter ==
  \A w, x \in Writers : edge[w] # NoEdge /\ edge[x] # NoEdge => w = x

\* What was validated still holds when it is committed.
EdgesValid ==
  \A w \in Writers : edge[w] # NoEdge =>
    /\ edge[w].to # edge[w].user
    /\ edge[w].to \notin Below(edge[w].user)

HierarchyInv == HierarchyTypeOK /\ ReportsAcyclic /\ OneWriter /\ EdgesValid

-----------------------------------------------------------------------------
\* Whoever reports to somebody below u, or to u, is below u.
LEMMA BelowClosed ==
  ASSUME NEW u \in People, NEW v \in People, manager[v] \in Below(u) \cup {u}
  PROVE  v \in Below(u)
<1> SUFFICES ASSUME NEW S \in SUBSET People, ReportsClosed(S, u) PROVE v \in S
  BY DEF Below
<1> QED BY DEF Below, ReportsClosed

\* A forest stays one when u is put under somebody who is neither u nor below u.
LEMMA Relink ==
  ASSUME manager \in [People -> People \cup {Nobody}], ReportsAcyclic,
         NEW u \in People, NEW m \in People \cup {Nobody},
         m # u, m \notin Below(u),
         manager' = [manager EXCEPT ![u] = m]
  PROVE  ReportsAcyclic'
<1> SUFFICES ASSUME NEW S \in SUBSET People, S # {},
                    \A v \in S : manager'[v] \in S
             PROVE  FALSE
  BY DEF ReportsAcyclic
<1>1. CASE u \notin S
  <2>1. \A v \in S : manager[v] \in S BY <1>1
  <2> QED BY <2>1 DEF ReportsAcyclic
<1>2. CASE u \in S
  <2> DEFINE T == S \ (Below(u) \cup {u})
  <2>1. m \in T BY <1>2
  <2>2. ASSUME NEW v \in T PROVE manager[v] \in T
    <3>1. manager[v] \in S BY <2>2
    <3>2. manager[v] \notin Below(u) \cup {u} BY <2>2, BelowClosed
    <3> QED BY <3>1, <3>2
  <2>3. T \in SUBSET People /\ T # {} BY <2>1
  <2> HIDE DEF T
  <2> QED BY <2>2, <2>3 DEF ReportsAcyclic
<1> QED BY <1>1, <1>2

LEMMA HierarchyInitInv == HierarchyInit => HierarchyInv
<1> SUFFICES ASSUME HierarchyInit PROVE HierarchyInv
  OBVIOUS
<1> USE HierarchyAssumption
<1>1. HierarchyTypeOK BY DEF HierarchyInit, HierarchyTypeOK, Standings
<1>2. ReportsAcyclic BY DEF HierarchyInit, ReportsAcyclic
<1>3. OneWriter /\ EdgesValid BY DEF HierarchyInit, OneWriter, EdgesValid
<1> QED BY <1>1, <1>2, <1>3 DEF HierarchyInv

\* Steps that leave the graph and the validated changes alone.
LEMMA GraphKept ==
  ASSUME HierarchyInv, UNCHANGED <<manager, edge>>
  PROVE  ReportsAcyclic' /\ OneWriter' /\ EdgesValid'
<1>1. ReportsAcyclic' BY DEF HierarchyInv, ReportsAcyclic
<1>2. OneWriter' BY DEF HierarchyInv, OneWriter
<1>3. \A u \in People : Below(u)' = Below(u) BY DEF Below, ReportsClosed
<1>4. EdgesValid' BY <1>3, HierarchyAssumption DEF HierarchyInv, EdgesValid, HierarchyTypeOK, Edge, NoEdge
<1> QED BY <1>1, <1>2, <1>4

LEMMA PrepareInv ==
  ASSUME HierarchyInv, NEW w \in Writers, NEW u \in People, NEW m \in People \cup {Nobody},
         Prepare(w, u, m)
  PROVE  HierarchyInv'
<1> USE HierarchyAssumption
<1>1. edge' = [edge EXCEPT ![w] = [user |-> u, to |-> m]] BY DEF Prepare
<1>2. UNCHANGED <<standing, eligible, manager>> BY DEF Prepare
<1>3. HierarchyTypeOK' BY <1>1, <1>2 DEF HierarchyInv, HierarchyTypeOK, Edge
<1>4. \A x \in Writers : x # w => edge'[x] = NoEdge
  BY <1>1 DEF Prepare, LockFree, HierarchyInv, HierarchyTypeOK
<1>5. edge'[w] = [user |-> u, to |-> m] BY <1>1 DEF HierarchyInv, HierarchyTypeOK
<1>6. m # u /\ m \notin Below(u) BY DEF Prepare, ManagerOK, Below
<1>7. Below(u)' = Below(u) BY <1>2 DEF Below, ReportsClosed
<1>8. EdgesValid' BY <1>4, <1>5, <1>6, <1>7 DEF EdgesValid
<1>9. ReportsAcyclic' BY <1>2 DEF HierarchyInv, ReportsAcyclic
<1> QED BY <1>3, <1>4, <1>8, <1>9 DEF HierarchyInv, OneWriter

LEMMA CommitEdgeInv == ASSUME HierarchyInv, NEW w \in Writers, CommitEdge(w) PROVE HierarchyInv'
<1> USE HierarchyAssumption
<1> DEFINE u == edge[w].user
           m == edge[w].to
<1>1. edge[w] # NoEdge /\ u \in People /\ m \in People \cup {Nobody}
  BY DEF CommitEdge, HierarchyInv, HierarchyTypeOK, Edge
<1>2. manager' = [manager EXCEPT ![u] = m] BY DEF CommitEdge
<1>3. m # u /\ m \notin Below(u) BY <1>1 DEF HierarchyInv, EdgesValid
<1>4. ReportsAcyclic'
  <2> HIDE DEF u, m
  <2> QED BY <1>1, <1>2, <1>3, Relink DEF HierarchyInv, HierarchyTypeOK
<1>5. edge' = [edge EXCEPT ![w] = NoEdge] BY DEF CommitEdge
<1>6. \A x \in Writers : edge'[x] = NoEdge
  BY <1>1, <1>5 DEF HierarchyInv, OneWriter, HierarchyTypeOK
<1>7. HierarchyTypeOK'
  <2>1. manager' \in [People -> People \cup {Nobody}]
    BY <1>1, <1>2 DEF HierarchyInv, HierarchyTypeOK
  <2>2. edge' \in [Writers -> Edge \cup {NoEdge}] BY <1>5 DEF HierarchyInv, HierarchyTypeOK
  <2>3. standing' \in [People -> Standings] /\ eligible' \in [People -> BOOLEAN]
    <3>1. CASE Exists(u) BY <3>1 DEF CommitEdge, HierarchyInv, HierarchyTypeOK
    <3>2. CASE ~Exists(u)
      BY <3>2 DEF CommitEdge, HierarchyInv, HierarchyTypeOK, Standings
    <3> QED BY <3>1, <3>2
  <2> QED BY <2>1, <2>2, <2>3 DEF HierarchyTypeOK
<1> QED BY <1>4, <1>6, <1>7 DEF HierarchyInv, OneWriter, EdgesValid

LEMMA DropEdgeInv == ASSUME HierarchyInv, NEW w \in Writers, DropEdge(w) PROVE HierarchyInv'
<1> USE HierarchyAssumption
<1>1. edge' = [edge EXCEPT ![w] = NoEdge] /\ UNCHANGED <<standing, eligible, manager>>
  BY DEF DropEdge
<1>2. \A x \in Writers : edge'[x] = NoEdge
  BY <1>1 DEF DropEdge, HierarchyInv, OneWriter, HierarchyTypeOK
<1>3. HierarchyTypeOK' BY <1>1 DEF HierarchyInv, HierarchyTypeOK
<1>4. ReportsAcyclic' BY <1>1 DEF HierarchyInv, ReportsAcyclic
<1> QED BY <1>2, <1>3, <1>4 DEF HierarchyInv, OneWriter, EdgesValid

\* Creation without a manager, account status and user type.
LEMMA AccountInv ==
  ASSUME HierarchyInv, NEW u \in People, CreateUser(u) \/ SetAccount(u) \/ AssignType(u)
  PROVE  HierarchyInv'
<1>1. UNCHANGED <<manager, edge>> BY DEF CreateUser, SetAccount, AssignType
<1>2. standing' \in [People -> Standings] /\ eligible' \in [People -> BOOLEAN]
  BY DEF HierarchyInv, HierarchyTypeOK, CreateUser, SetAccount, AssignType, Standings
<1>3. HierarchyTypeOK' BY <1>1, <1>2 DEF HierarchyInv, HierarchyTypeOK
<1> QED BY <1>1, <1>3, GraphKept DEF HierarchyInv

LEMMA HierarchyNextInv == HierarchyInv /\ [HierarchyNext]_hierarchyVars => HierarchyInv'
<1> SUFFICES ASSUME HierarchyInv, [HierarchyNext]_hierarchyVars PROVE HierarchyInv'
  OBVIOUS
<1>1. ASSUME NEW w \in Writers, NEW u \in People, NEW m \in People \cup {Nobody},
             Prepare(w, u, m)
      PROVE  HierarchyInv'
  BY <1>1, PrepareInv
<1>2. ASSUME NEW w \in Writers, CommitEdge(w) PROVE HierarchyInv' BY <1>2, CommitEdgeInv
<1>3. ASSUME NEW w \in Writers, DropEdge(w) PROVE HierarchyInv' BY <1>3, DropEdgeInv
<1>4. ASSUME NEW u \in People, CreateUser(u) \/ SetAccount(u) \/ AssignType(u) PROVE HierarchyInv'
  BY <1>4, AccountInv
<1>5. CASE UNCHANGED hierarchyVars
  <2>1. HierarchyTypeOK' BY <1>5 DEF hierarchyVars, HierarchyInv, HierarchyTypeOK
  <2> QED BY <1>5, <2>1, GraphKept DEF hierarchyVars, HierarchyInv
<1> QED BY <1>1, <1>2, <1>3, <1>4, <1>5 DEF HierarchyNext

-----------------------------------------------------------------------------
\* Every reachable state satisfies the inductive invariant.
THEOREM HierarchyInvariance == HierarchySpec => []HierarchyInv
<1>1. HierarchyInit => HierarchyInv BY HierarchyInitInv
<1>2. HierarchyInv /\ [HierarchyNext]_hierarchyVars => HierarchyInv' BY HierarchyNextInv
<1> QED BY <1>1, <1>2, PTL DEF HierarchySpec

\* Accounts, managers and the validated change keep their types.
THEOREM HierarchyTypeCorrect == HierarchySpec => []HierarchyTypeOK
<1>1. HierarchyInv => HierarchyTypeOK BY DEF HierarchyInv
<1> QED BY <1>1, HierarchyInvariance, PTL

\* No sequence of overlapping requests closes a circle of reporting managers.
THEOREM ReportsStayAcyclic == HierarchySpec => []ReportsAcyclic
<1>1. HierarchyInv => ReportsAcyclic BY DEF HierarchyInv
<1> QED BY <1>1, HierarchyInvariance, PTL

-----------------------------------------------------------------------------
(***************************************************************************)
(* Sessions, for any number of requests, tokens and attempts.              *)
(***************************************************************************)

-----------------------------------------------------------------------------
(* The inductive invariant: whoever has read the user to log in holds the row, *)
(* and nothing of what he read has changed since.                              *)
ReadStands ==
  \A r \in Clients : client[r].op \in {"login", "mfa"} =>
    /\ rowLock = r /\ ~locked
    /\ client[r].op = "mfa" \/ client[r].ok => status = "active"

SessionsInv == SessionsTypeOK /\ SessionsAllowed /\ ReadStands /\ wrong = failures

-----------------------------------------------------------------------------
LEMMA SessionsInitInv == SessionsInit => SessionsInv
<1> SUFFICES ASSUME SessionsInit PROVE SessionsInv
  OBVIOUS
<1>1. /\ status \in AccountStatuses /\ sessions \subseteq Tokens
      /\ pending \in [Purposes -> SUBSET Tokens]
      /\ mfa \in [on: BOOLEAN, secret: BOOLEAN]
      /\ client \in [Clients -> Reads \cup {NoRead}] /\ rowLock \in Clients \cup {NoClient}
  BY DEF SessionsInit, AccountStatuses
<1>2. typeActive \in BOOLEAN /\ typed \in BOOLEAN /\ password \in BOOLEAN /\ locked \in BOOLEAN
  BY Zenon DEF SessionsInit
<1>3. failures \in 0..Limit - 1 /\ wrong \in Nat /\ wrong = failures
  BY SessionsAssumption DEF SessionsInit
<1>4. SessionsAllowed /\ ReadStands BY DEF SessionsInit, SessionsAllowed, ReadStands, NoRead
<1> QED BY <1>1, <1>2, <1>3, <1>4 DEF SessionsInv, SessionsTypeOK

\* Sessions stay allowed while the account does not lose them.
LEMMA AllowedKept ==
  ASSUME SessionsAllowed, sessions' \subseteq sessions,
         sessions' = {} \/ (status' = status /\ (locked' = locked \/ ~locked'))
  PROVE  SessionsAllowed'
BY DEF SessionsAllowed

\* The end of a login or of an answer gives the row back, and nobody else holds it.
LEMMA FinishReads ==
  ASSUME SessionsInv, NEW r \in Clients, client[r].op \in {"login", "mfa"}, EndRequest(r)
  PROVE  /\ client' \in [Clients -> Reads \cup {NoRead}] /\ rowLock' \in Clients \cup {NoClient}
         /\ ReadStands'
<1>1. client' = [client EXCEPT ![r] = NoRead] /\ rowLock' = NoClient BY DEF EndRequest
<1>2. client' \in [Clients -> Reads \cup {NoRead}] BY <1>1 DEF SessionsInv, SessionsTypeOK
<1>3. ASSUME NEW x \in Clients PROVE client'[x].op \notin {"login", "mfa"}
  <2>1. CASE x = r BY <1>1, <2>1 DEF SessionsInv, SessionsTypeOK, NoRead
  <2>2. CASE x # r
    <3>1. client'[x] = client[x] BY <1>1, <2>2 DEF SessionsInv, SessionsTypeOK
    <3> QED BY <3>1, <2>2 DEF SessionsInv, ReadStands
  <2> QED BY <2>1, <2>2
<1> QED BY <1>1, <1>2, <1>3 DEF ReadStands

\* A wrong answer.
LEMMA FailureInv ==
  ASSUME SessionsInv, NEW r \in Clients, LoginFails(r) \/ AnswerWrong(r)
  PROVE  SessionsInv'
<1>1. RecordFailure /\ EndRequest(r) /\ UNCHANGED <<typeActive, typed, status, password, mfa>>
  BY DEF LoginFails, AnswerWrong, typeVars
<1>2. client[r].op \in {"login", "mfa"} BY DEF LoginFails, AnswerWrong
<1>3. client' \in [Clients -> Reads \cup {NoRead}] /\ rowLock' \in Clients \cup {NoClient} /\ ReadStands'
  BY <1>1, <1>2, FinishReads
<1>4. CASE failures + 1 >= Limit
  BY <1>1, <1>3, <1>4, SessionsAssumption
  DEF RecordFailure, TerminateSessions, SessionsInv, SessionsTypeOK, SessionsAllowed, Purposes
<1>5. CASE ~(failures + 1 >= Limit)
  BY <1>1, <1>3, <1>5, SessionsAssumption
  DEF RecordFailure, SessionsInv, SessionsTypeOK, SessionsAllowed
<1> QED BY <1>4, <1>5

\* A session is created by whoever has read an active account.
LEMMA SuccessInv ==
  ASSUME SessionsInv, NEW r \in Clients, NEW t \in Tokens,
         LoginSucceeds(r, t) \/ AnswerRight(r, t)
  PROVE  SessionsInv'
<1>1. CreateSession(t) /\ EndRequest(r) /\ UNCHANGED <<typeActive, typed, status, password, mfa>>
  BY DEF LoginSucceeds, AnswerRight, typeVars
<1>2. client[r].op \in {"login", "mfa"} BY DEF LoginSucceeds, AnswerRight
<1>3. client' \in [Clients -> Reads \cup {NoRead}] /\ rowLock' \in Clients \cup {NoClient} /\ ReadStands'
  BY <1>1, <1>2, FinishReads
<1>4. status = "active" BY DEF LoginSucceeds, AnswerRight, SessionsInv, ReadStands
<1>5. pending' \in [Purposes -> SUBSET Tokens]
  BY DEF LoginSucceeds, AnswerRight, SessionsInv, SessionsTypeOK
<1>6. SessionsAllowed' BY <1>1, <1>4 DEF CreateSession, SessionsAllowed
<1>7. failures' \in 0..Limit - 1 /\ wrong' \in Nat /\ wrong' = failures'
  BY <1>1, SessionsAssumption DEF CreateSession
<1>8. locked' \in BOOLEAN /\ sessions' \subseteq Tokens BY <1>1 DEF CreateSession
<1> QED BY <1>1, <1>3, <1>5, <1>6, <1>7, <1>8 DEF SessionsInv, SessionsTypeOK

\* A request that only reads the user's row, and locks it.
LEMMA LockInv ==
  ASSUME SessionsInv, NEW r \in Clients,
         \/ \E right \in BOOLEAN : Login(r, right)
         \/ \E t \in Tokens, right \in BOOLEAN : AnswerChallenge(r, t, right)
  PROVE  SessionsInv'
<1>1. PICK read \in Reads :
         /\ ~locked /\ LockRow(r, read)
         /\ read.op = "mfa" \/ (read.op = "login" /\ read.ok) => status = "active"
  <2>1. CASE \E right \in BOOLEAN : Login(r, right)
    <3>1. PICK right \in BOOLEAN : Login(r, right) BY <2>1
    <3> DEFINE read == [op |-> "login", ok |-> right /\ status = "active" /\ password,
                        typeOK |-> typeActive, mfa |-> mfa]
    <3>2. read \in Reads BY DEF Reads, SessionsInv, SessionsTypeOK
    <3> QED BY <3>1, <3>2 DEF Login
  <2>2. CASE \E t \in Tokens, right \in BOOLEAN : AnswerChallenge(r, t, right)
    <3>1. PICK t \in Tokens, right \in BOOLEAN : AnswerChallenge(r, t, right) BY <2>2
    <3> DEFINE read == [op |-> "mfa", ok |-> right, token |-> t]
    <3>2. read \in Reads BY DEF Reads
    <3> QED BY <3>1, <3>2 DEF AnswerChallenge
  <2> QED BY <2>1, <2>2
<1>2. UNCHANGED <<status, typeActive, typed, password, failures, locked, mfa, sessions, pending, wrong>>
  BY DEF Login, AnswerChallenge, userVars, typeVars
<1>3. client' = [client EXCEPT ![r] = read] /\ rowLock' = r /\ rowLock = NoClient
  BY <1>1 DEF LockRow, Unlocked
<1>4. ReadStands'
  <2> SUFFICES ASSUME NEW x \in Clients, client'[x].op \in {"login", "mfa"}
               PROVE  /\ rowLock' = x /\ ~locked'
                      /\ client'[x].op = "mfa" \/ client'[x].ok => status' = "active"
    BY DEF ReadStands
  <2>1. CASE x = r
    <3>1. client'[x] = read BY <2>1, <1>3 DEF SessionsInv, SessionsTypeOK
    <3> QED BY <3>1, <2>1, <1>1, <1>2, <1>3
  <2>2. CASE x # r
    <3>1. client'[x] = client[x] BY <2>2, <1>3 DEF SessionsInv, SessionsTypeOK
    <3>2. rowLock = x BY <3>1 DEF SessionsInv, ReadStands
    <3> QED BY <3>2, <1>3, SessionsAssumption
  <2> QED BY <2>1, <2>2
<1> QED BY <1>2, <1>3, <1>4 DEF SessionsInv, SessionsTypeOK, SessionsAllowed

\* A login that ends without touching the user or the sessions.
LEMMA EndInv ==
  ASSUME SessionsInv, NEW r \in Clients, LoginRefused(r) \/ \E t \in Tokens : Challenge(r, t)
  PROVE  SessionsInv'
<1>1. EndRequest(r) /\ client[r].op \in {"login", "mfa"}
      /\ UNCHANGED <<status, typeActive, typed, password, failures, locked, mfa, sessions, wrong>>
  BY DEF LoginRefused, Challenge, userVars, typeVars
<1>2. client' \in [Clients -> Reads \cup {NoRead}] /\ rowLock' \in Clients \cup {NoClient} /\ ReadStands'
  BY <1>1, FinishReads
<1>3. pending' \in [Purposes -> SUBSET Tokens]
  BY DEF LoginRefused, Challenge, SessionsInv, SessionsTypeOK
<1> QED BY <1>1, <1>2, <1>3 DEF SessionsInv, SessionsTypeOK, SessionsAllowed

\* Requests that present a session or confirm MFA read nothing of the user to keep.
LEMMA PresentInv ==
  ASSUME SessionsInv, NEW r \in Clients,
         \/ \E t \in Tokens : Present(r, t)
         \/ Serve(r) \/ TurnAway(r) \/ StartConfirm(r) \/ MfaConfirm(r)
  PROVE  SessionsInv'
<1>1. PICK read \in Reads \cup {NoRead} :
        client' = [client EXCEPT ![r] = read] /\ read.op \notin {"login", "mfa"}
  BY DEF Present, Serve, TurnAway, StartConfirm, MfaConfirm, Reads, NoRead
<1>2. UNCHANGED <<status, typeActive, typed, password, failures, locked, sessions, pending, rowLock, wrong>>
  BY DEF Present, Serve, TurnAway, StartConfirm, MfaConfirm, userVars, typeVars
<1>3. mfa' \in [on: BOOLEAN, secret: BOOLEAN]
  BY DEF Present, Serve, TurnAway, StartConfirm, MfaConfirm, userVars, SessionsInv, SessionsTypeOK
<1>4. ReadStands'
  <2> SUFFICES ASSUME NEW x \in Clients, client'[x].op \in {"login", "mfa"}
               PROVE  client'[x] = client[x]
    BY <1>2 DEF ReadStands, SessionsInv
  <2> QED BY <1>1 DEF SessionsInv, SessionsTypeOK
<1> QED BY <1>1, <1>2, <1>3, <1>4 DEF SessionsInv, SessionsTypeOK, SessionsAllowed

\* Changes of the user, which wait for the row lock.
LEMMA UserInv ==
  ASSUME SessionsInv,
         \/ \E p \in {"setup", "reset"}, t \in Tokens : ConsumeLink(p, t)
         \/ MfaSetup \/ MfaDisable
         \/ \E to \in {"active", "deactivated"} : ChangeAccount(to)
         \/ AssignUserType \/ UnlockUser
  PROVE  SessionsInv'
<1>1. Unlocked /\ UNCHANGED <<rowLock, client>>
  BY DEF ConsumeLink, MfaSetup, MfaDisable, ChangeAccount, AssignUserType, UnlockUser
<1>2. \A r \in Clients : client[r].op \notin {"login", "mfa"}
  BY <1>1, SessionsAssumption DEF Unlocked, SessionsInv, ReadStands
<1>3. ReadStands' BY <1>1, <1>2 DEF ReadStands
<1>4. CASE \E p \in {"setup", "reset"}, t \in Tokens : ConsumeLink(p, t)
  <2>1. sessions' = {} /\ status' \in AccountStatuses /\ pending' \in [Purposes -> SUBSET Tokens]
    BY <1>4 DEF ConsumeLink, TerminateSessions, SessionsInv, SessionsTypeOK, AccountStatuses, Purposes
  <2>2. failures' = 0 /\ wrong' = 0 /\ UNCHANGED <<typeActive, typed, mfa>>
    BY <1>4 DEF ConsumeLink, typeVars
  <2>3. password' \in BOOLEAN /\ locked' \in BOOLEAN BY Zenon, <1>4 DEF ConsumeLink
  <2> QED BY <1>1, <1>3, <2>1, <2>2, <2>3, SessionsAssumption
    DEF SessionsInv, SessionsTypeOK, SessionsAllowed
<1>5. CASE MfaSetup \/ MfaDisable
  <2>1. mfa' \in [on: BOOLEAN, secret: BOOLEAN]
    <3>1. \/ mfa' = [on |-> FALSE, secret |-> TRUE]
          \/ mfa' = [on |-> FALSE, secret |-> FALSE]
      BY <1>5 DEF MfaSetup, MfaDisable
    <3>2. /\ [on |-> FALSE, secret |-> TRUE] \in [on: BOOLEAN, secret: BOOLEAN]
          /\ [on |-> FALSE, secret |-> FALSE] \in [on: BOOLEAN, secret: BOOLEAN]
      OBVIOUS
    <3> QED BY Zenon, <3>1, <3>2
  <2>2. UNCHANGED <<status, password, failures, locked, typeActive, typed, sessions, pending, wrong>>
    BY <1>5 DEF MfaSetup, MfaDisable, typeVars
  <2> QED BY <1>1, <1>3, <2>1, <2>2 DEF SessionsInv, SessionsTypeOK, SessionsAllowed
<1>6. CASE \E to \in {"active", "deactivated"} : ChangeAccount(to)
  <2>1. status' \in AccountStatuses /\ (status' = "active" \/ sessions' = {})
        /\ UNCHANGED <<password, failures, locked, mfa, typeActive, typed, pending, wrong>>
        /\ (sessions' = {} \/ sessions' = sessions)
    BY <1>6 DEF ChangeAccount, TerminateSessions, typeVars, AccountStatuses
  <2>2. SessionsAllowed' BY <2>1 DEF SessionsInv, SessionsAllowed
  <2> QED BY <1>1, <1>3, <2>1, <2>2 DEF SessionsInv, SessionsTypeOK
<1>7. CASE AssignUserType
  <2>1. typeActive' \in BOOLEAN /\ typed' \in BOOLEAN BY Zenon, <1>7 DEF AssignUserType
  <2>2. sessions' = {} /\ UNCHANGED <<status, password, failures, locked, mfa, pending, wrong>>
    BY <1>7 DEF AssignUserType, TerminateSessions, userVars
  <2> QED BY <1>1, <1>3, <2>1, <2>2 DEF SessionsInv, SessionsTypeOK, SessionsAllowed
<1>8. CASE UnlockUser
  <2>1. ~locked' /\ locked' \in BOOLEAN BY Zenon, <1>8 DEF UnlockUser
  <2>2. failures' = 0 /\ wrong' = 0
        /\ UNCHANGED <<status, password, mfa, typeActive, typed, sessions, pending>>
    BY <1>8 DEF UnlockUser, typeVars
  <2>3. SessionsAllowed' BY <2>1, <2>2, AllowedKept DEF SessionsInv
  <2> QED BY <1>1, <1>3, <2>1, <2>2, <2>3, SessionsAssumption DEF SessionsInv, SessionsTypeOK
<1> QED BY <1>4, <1>5, <1>6, <1>7, <1>8

\* Sessions that end, links that are issued or lapse, and the user type.
LEMMA RowFreeInv ==
  ASSUME SessionsInv,
         \/ \E t \in Tokens : Expire(t) \/ SetupLink(t) \/ ResetLink(t)
         \/ \E p \in Purposes, t \in Tokens : TokenLapses(p, t)
         \/ \E active \in BOOLEAN : SetUserTypeStatus(active)
         \/ Logout \/ TerminateUserSessions \/ TypeChanged \/ LockoutEnds
  PROVE  SessionsInv'
<1> USE DEF Expire, SetupLink, ResetLink, TokenLapses, SetUserTypeStatus, Logout,
           TerminateUserSessions, TypeChanged, LockoutEnds, TerminateSessions, userVars, typeVars
<1>1. /\ UNCHANGED <<status, typed, password, failures, mfa, rowLock, client, wrong>>
      /\ sessions' \subseteq sessions
  OBVIOUS
<1>2. typeActive' = typeActive \/ typeActive' \in BOOLEAN OBVIOUS
<1>3. locked' = locked \/ (~locked' /\ locked' \in BOOLEAN) BY Zenon
<1>4. pending' \in [Purposes -> SUBSET Tokens] BY DEF SessionsInv, SessionsTypeOK
<1>5. ReadStands' BY <1>1, <1>3 DEF SessionsInv, ReadStands
<1>6. SessionsAllowed' BY <1>1, <1>3, AllowedKept DEF SessionsInv
<1>7. typeActive' \in BOOLEAN /\ locked' \in BOOLEAN
  BY Zenon, <1>2, <1>3 DEF SessionsInv, SessionsTypeOK
<1> QED BY <1>1, <1>4, <1>5, <1>6, <1>7 DEF SessionsInv, SessionsTypeOK

LEMMA SessionsStepInv == SessionsInv /\ [SessionsNext]_sessionsVars => SessionsInv'
<1> SUFFICES ASSUME SessionsInv, [SessionsNext]_sessionsVars PROVE SessionsInv'
  OBVIOUS
<1>1. CASE UNCHANGED sessionsVars
  BY <1>1 DEF sessionsVars, SessionsInv, SessionsTypeOK, SessionsAllowed, ReadStands
<1>2. CASE SessionsNext
  BY <1>2, FailureInv, SuccessInv, LockInv, EndInv, PresentInv, UserInv, RowFreeInv
  DEF SessionsNext, AssignPermissions, AssignScope, AssignCustomerScope,
      AssignApplicationScope, AssignReportingScope
<1> QED BY <1>1, <1>2

LEMMA SessionsInvariance == SessionsSpec => []SessionsInv
BY SessionsInitInv, SessionsStepInv, PTL DEF SessionsSpec

-----------------------------------------------------------------------------
\* Every row of the user's authentication keeps its type.
THEOREM SessionsTyped == SessionsSpec => []SessionsTypeOK
<1>1. SessionsInv => SessionsTypeOK BY DEF SessionsInv
<1> QED BY <1>1, SessionsInvariance, PTL

\* One session at most, and none of an account that may not have one: for any
\* number of overlapping logins and changes of the account.
THEOREM SessionsStayAllowed == SessionsSpec => []SessionsAllowed
<1>1. SessionsInv => SessionsAllowed BY DEF SessionsInv
<1> QED BY <1>1, SessionsInvariance, PTL

\* The failure budget holds for any limit.
THEOREM BudgetStays == SessionsSpec => []BudgetKept
<1>1. SessionsInv => BudgetKept
  BY SessionsAssumption DEF SessionsInv, SessionsTypeOK, BudgetKept
<1> QED BY <1>1, SessionsInvariance, PTL

-----------------------------------------------------------------------------
(***************************************************************************)
(* Identities, for any number of persons, emails, codes and requests.      *)
(***************************************************************************)

\* Whoever has or had an email has it reserved, and so has who replaces it by
\* another: reservations never pass to somebody else.
Reserved ==
  /\ \A p \in Persons : \A e \in EmailsOf(p) : emailOf[e] = p
  /\ \A d \in Desks : desk[d].op = "email" => emailOf[desk[d].old] = desk[d].person

\* The rows that are enrolled together are of different persons with different emails.
RowsApart(rows) ==
  rows # {} /\ \A x, y \in rows : x # y => x.person # y.person /\ x.email # y.email

IdentitiesInv ==
  /\ IdentitiesTypeOK /\ desk \in [Desks -> Job \cup {NoJob}]
  /\ Reserved
  /\ \A d \in Desks : desk[d].op \in {"create", "basic", "import"} => RowsApart(desk[d].rows)

\* What a request carries, by its kind.
LEMMA Jobs ==
  ASSUME NEW j \in Job \cup {NoJob}
  PROVE  /\ j.op \in {"create", "basic", "import"} => j.rows \subseteq Row /\ j.ticket \in Tickets \cup {Unset}
         /\ j.op = "email" => j.person \in Persons /\ j.new \in Emails /\ j.old \in Emails
         /\ j.op = "rehire" => j.person \in Persons /\ j.new \in Codes
  BY DEF Job, NoJob

LEMMA IdentitiesInitInv == IdentitiesInit => IdentitiesInv
<1> SUFFICES ASSUME IdentitiesInit PROVE IdentitiesInv
  OBVIOUS
<1>1. IdentitiesTypeOK /\ desk \in [Desks -> Job \cup {NoJob}]
  BY DEF IdentitiesInit, IdentitiesTypeOK
<1>2. Reserved BY DEF IdentitiesInit, Reserved, EmailsOf, NoJob
<1> QED BY <1>1, <1>2 DEF IdentitiesInit, IdentitiesInv, NoJob

-----------------------------------------------------------------------------
\* d begins or ends; nothing is stored.
LEMMA OpenInv ==
  ASSUME IdentitiesInv, NEW d \in Desks, NEW j \in Job \cup {NoJob}, Open(d, j),
         Untouched, ticket' \in [Tickets -> {"unissued", "issued"} \cup Persons],
         j.op = "email" => emailOf[j.old] = j.person,
         j.op \in {"create", "basic", "import"} => RowsApart(j.rows)
  PROVE  IdentitiesInv'
<1>1. /\ desk' \in [Desks -> Job \cup {NoJob}] /\ desk'[d] = j /\ \A x \in Desks : x # d => desk'[x] = desk[x]
      /\ UNCHANGED <<email, code, former, issued, emailOf, codeOf>>
  BY DEF Open, Untouched, IdentitiesInv
<1>2. IdentitiesTypeOK' BY <1>1 DEF IdentitiesInv, IdentitiesTypeOK
<1>3. Reserved' BY <1>1 DEF IdentitiesInv, Reserved, EmailsOf
<1> QED BY <1>1, <1>2, <1>3 DEF IdentitiesInv

LEMMA BeginInv ==
  ASSUME IdentitiesInv, NEW d \in Desks
  PROVE  /\ \A rec \in Row : CreatePerson(d, rec) => IdentitiesInv'
         /\ \A rec \in Row, k \in Tickets \cup {Unset} : CreateBasic(d, rec, k) => IdentitiesInv'
         /\ \A x, y \in Row : ImportStaff(d, {x, y}) => IdentitiesInv'
         /\ \A p \in Persons, e \in Emails : CheckEmail(d, p, e) => IdentitiesInv'
         /\ \A p \in Persons, c \in Codes : CheckRehire(d, p, c) => IdentitiesInv'
         /\ GiveUp(d) => IdentitiesInv'
<1>0. ticket \in [Tickets -> {"unissued", "issued"} \cup Persons]
  BY DEF IdentitiesInv, IdentitiesTypeOK
<1>1. ASSUME NEW rec \in Row, CreatePerson(d, rec) PROVE IdentitiesInv'
  <2>1. PICK j \in Job : j = [op |-> "create", rows |-> {rec}, ticket |-> Unset]
    BY DEF Job
  <2>2. RowsApart(j.rows) BY <2>1 DEF RowsApart
  <2> QED BY <1>0, <1>1, <2>1, <2>2, OpenInv DEF CreatePerson
<1>2. ASSUME NEW rec \in Row, NEW k \in Tickets \cup {Unset}, CreateBasic(d, rec, k) PROVE IdentitiesInv'
  <2>1. PICK j \in Job : j = [op |-> "basic", rows |-> {rec}, ticket |-> k]
    BY DEF Job
  <2>2. RowsApart(j.rows) BY <2>1 DEF RowsApart
  <2> QED BY <1>0, <1>2, <2>1, <2>2, OpenInv DEF CreateBasic
<1>3. ASSUME NEW x \in Row, NEW y \in Row, ImportStaff(d, {x, y}) PROVE IdentitiesInv'
  <2>1. PICK j \in Job : j = [op |-> "import", rows |-> {x, y}, ticket |-> Unset]
    BY DEF Job
  <2>2. RowsApart(j.rows) BY <1>3, <2>1 DEF RowsApart, ImportStaff
  <2> QED BY <1>0, <1>3, <2>1, <2>2, OpenInv DEF ImportStaff
<1>4. ASSUME NEW p \in Persons, NEW e \in Emails, CheckEmail(d, p, e) PROVE IdentitiesInv'
  <2>1. email[p] \in Emails /\ emailOf[email[p]] = p
    BY <1>4 DEF CheckEmail, Created, IdentitiesInv, IdentitiesTypeOK, Reserved, EmailsOf
  <2>2. PICK j \in Job : j = [op |-> "email", person |-> p, new |-> e, old |-> email[p]]
    BY <2>1 DEF Job
  <2> QED BY <1>0, <1>4, <2>1, <2>2, OpenInv DEF CheckEmail
<1>5. ASSUME NEW p \in Persons, NEW c \in Codes, CheckRehire(d, p, c) PROVE IdentitiesInv'
  <2>1. PICK j \in Job : j = [op |-> "rehire", person |-> p, new |-> c, old |-> code[p]]
    BY DEF Job, IdentitiesInv, IdentitiesTypeOK
  <2> QED BY <1>0, <1>5, <2>1, OpenInv DEF CheckRehire
<1>6. ASSUME GiveUp(d) PROVE IdentitiesInv'
  BY <1>0, <1>6, OpenInv DEF GiveUp, NoJob
<1> QED BY <1>1, <1>2, <1>3, <1>4, <1>5, <1>6

\* An email that is stored for p alone keeps its reservation.
LEMMA EnrolInv ==
  ASSUME IdentitiesInv, NEW d \in Desks, Enrol(d)
  PROVE  IdentitiesInv'
<1> DEFINE rows == desk[d].rows
           New(p) == CHOOSE rec \in rows : rec.person = p
           Added == {rec.person : rec \in rows}
<1>1. /\ desk[d].op \in {"create", "basic", "import"} /\ Open(d, NoJob) /\ UNCHANGED former
      /\ \A rec \in rows : ~Created(rec.person) /\ EmailStorable(rec.email, rec.person)
      /\ email' = [p \in Persons |-> IF p \in Added THEN New(p).email ELSE email[p]]
      /\ code' = [p \in Persons |-> IF p \in Added THEN New(p).code ELSE code[p]]
      /\ issued' = [p \in Persons |-> issued[p] \cup
             (IF p \in Added /\ desk[d].op # "basic" THEN {New(p).code} \ {Unset} ELSE {})]
      /\ emailOf' = [e \in Emails |->
             IF \E p \in Added : New(p).email = e THEN CHOOSE p \in Added : New(p).email = e
             ELSE emailOf[e]]
      /\ codeOf' = [c \in Codes |->
             IF \E p \in Added : New(p).code = c THEN CHOOSE p \in Added : New(p).code = c
             ELSE codeOf[c]]
      /\ ticket' = [k \in Tickets |->
             IF k = desk[d].ticket THEN CHOOSE p \in Added : TRUE ELSE ticket[k]]
  BY DEF Enrol, Enrolled
<1>2. rows \subseteq Row /\ RowsApart(rows)
  BY <1>1, Jobs DEF IdentitiesInv
<1> HIDE DEF rows
<1>3. /\ Added \subseteq Persons /\ Added # {}
      /\ \A p \in Added : New(p) \in rows /\ New(p).person = p
  BY <1>2 DEF Row, RowsApart
<1>4. \A p \in Added : /\ New(p) \in Row /\ New(p).email \in Emails /\ New(p).code \in Codes \cup {Unset}
                       /\ email[p] = Unset /\ emailOf[New(p).email] \in {Unset, p}
  BY <1>1, <1>2, <1>3 DEF Row, Created, EmailStorable
<1>5. \A p, q \in Added : New(p).email = New(q).email => p = q
  BY <1>2, <1>3 DEF RowsApart
<1> HIDE DEF New, Added
<1>6. /\ \A p \in Persons : email'[p] = IF p \in Added THEN New(p).email ELSE email[p]
      /\ \A p \in Added : emailOf'[New(p).email] = p
      /\ \A e \in Emails : (\A p \in Added : New(p).email # e) => emailOf'[e] = emailOf[e]
  BY <1>1, <1>4, <1>5
<1>7. \A e \in Emails : emailOf[e] # Unset => emailOf'[e] = emailOf[e]
  BY <1>4, <1>6
<1>8. \A x \in Desks : desk'[x] = desk[x] \/ desk'[x] = NoJob
  BY <1>1 DEF Open, IdentitiesInv
<1>9. IdentitiesTypeOK' /\ desk' \in [Desks -> Job \cup {NoJob}]
  <2>1. email' \in [Persons -> Emails \cup {Unset}] /\ code' \in [Persons -> Codes \cup {Unset}]
    BY <1>1, <1>4 DEF IdentitiesInv, IdentitiesTypeOK
  <2>2. issued' \in [Persons -> SUBSET Codes]
    BY <1>1, <1>4 DEF IdentitiesInv, IdentitiesTypeOK
  <2>3. emailOf' \in [Emails -> Persons \cup {Unset}] /\ codeOf' \in [Codes -> Persons \cup {Unset}]
    BY <1>1, <1>3 DEF IdentitiesInv, IdentitiesTypeOK
  <2>4. ticket' \in [Tickets -> {"unissued", "issued"} \cup Persons]
    BY <1>1, <1>3 DEF IdentitiesInv, IdentitiesTypeOK
  <2>5. desk' \in [Desks -> Job \cup {NoJob}]
    BY <1>1 DEF Open, IdentitiesInv
  <2> QED BY <1>1, <2>1, <2>2, <2>3, <2>4, <2>5 DEF IdentitiesInv, IdentitiesTypeOK
<1>10. Reserved'
  <2>1. ASSUME NEW p \in Persons, NEW e \in EmailsOf(p)' PROVE emailOf'[e] = p
    <3>1. CASE p \in Added /\ e = New(p).email BY <1>6, <3>1
    <3>2. CASE e \in EmailsOf(p)
      <4>1. emailOf[e] = p /\ e \in Emails /\ p # Unset
        BY <3>2, IdentitiesAssumption DEF IdentitiesInv, IdentitiesTypeOK, Reserved, EmailsOf
      <4> QED BY <1>7, <4>1
    <3> QED BY <1>1, <1>6, <2>1, <3>1, <3>2 DEF EmailsOf
  <2>2. ASSUME NEW x \in Desks, desk'[x].op = "email" PROVE emailOf'[desk'[x].old] = desk'[x].person
    <3>1. desk'[x] = desk[x] BY <1>8, <2>2 DEF NoJob
    <3>2. desk[x].old \in Emails /\ desk[x].person \in Persons
      BY <2>2, <3>1, Jobs DEF IdentitiesInv
    <3>3. emailOf[desk[x].old] = desk[x].person
      BY <2>2, <3>1 DEF IdentitiesInv, Reserved
    <3> QED BY <1>7, <3>1, <3>2, <3>3, IdentitiesAssumption
  <2> QED BY <2>1, <2>2 DEF Reserved
<1>11. \A x \in Desks : desk'[x].op \in {"create", "basic", "import"} => RowsApart(desk'[x].rows)
  BY <1>8 DEF IdentitiesInv, NoJob
<1> QED BY <1>9, <1>10, <1>11 DEF IdentitiesInv

LEMMA ChangeEmailInv ==
  ASSUME IdentitiesInv, NEW d \in Desks, ChangeEmail(d)
  PROVE  IdentitiesInv'
<1>1. PICK p, new, old : p = desk[d].person /\ new = desk[d].new /\ old = desk[d].old
  OBVIOUS
<1>2. /\ desk[d].op = "email" /\ emailOf[new] \in {Unset, p} /\ Open(d, NoJob)
      /\ email' = [email EXCEPT ![p] = new] /\ former' = [former EXCEPT ![p] = @ \cup {old}]
      /\ emailOf' = [emailOf EXCEPT ![new] = p] /\ UNCHANGED <<code, issued, codeOf, ticket>>
  BY <1>1 DEF ChangeEmail, EmailStorable
<1>3. p \in Persons /\ new \in Emails /\ old \in Emails /\ emailOf[old] = p /\ p # Unset
  BY <1>1, <1>2, Jobs, IdentitiesAssumption DEF IdentitiesInv, Reserved
<1>4. IdentitiesTypeOK' /\ desk' \in [Desks -> Job \cup {NoJob}]
      /\ \A x \in Desks : desk'[x] = desk[x] \/ desk'[x] = NoJob
  BY <1>2, <1>3 DEF Open, IdentitiesInv, IdentitiesTypeOK
<1>5. emailOf'[new] = p /\ \A e \in Emails : emailOf[e] # Unset => emailOf'[e] = emailOf[e]
  BY <1>2, <1>3 DEF IdentitiesInv, IdentitiesTypeOK
<1>6. Reserved'
  <2>1. ASSUME NEW q \in Persons, NEW e \in EmailsOf(q)' PROVE emailOf'[e] = q
    <3>1. CASE q = p /\ e = new BY <1>5, <3>1
    <3>2. CASE q = p /\ e = old BY <1>3, <1>5, <3>2
    <3>3. CASE e \in EmailsOf(q)
      <4>1. emailOf[e] = q /\ e \in Emails /\ q # Unset
        BY <3>3, IdentitiesAssumption DEF IdentitiesInv, IdentitiesTypeOK, Reserved, EmailsOf
      <4> QED BY <1>5, <4>1
    <3> QED BY <1>2, <1>3, <2>1, <3>1, <3>2, <3>3 DEF EmailsOf, IdentitiesInv, IdentitiesTypeOK
  <2>2. ASSUME NEW x \in Desks, desk'[x].op = "email" PROVE emailOf'[desk'[x].old] = desk'[x].person
    <3>1. desk'[x] = desk[x] BY <1>4, <2>2 DEF NoJob
    <3>2. desk[x].old \in Emails /\ desk[x].person \in Persons
      BY <2>2, <3>1, Jobs DEF IdentitiesInv
    <3>3. emailOf[desk[x].old] = desk[x].person
      BY <2>2, <3>1 DEF IdentitiesInv, Reserved
    <3> QED BY <1>5, <3>1, <3>2, <3>3, IdentitiesAssumption
  <2> QED BY <2>1, <2>2 DEF Reserved
<1>7. \A x \in Desks : desk'[x].op \in {"create", "basic", "import"} => RowsApart(desk'[x].rows)
  BY <1>4 DEF IdentitiesInv, NoJob
<1> QED BY <1>4, <1>6, <1>7 DEF IdentitiesInv

LEMMA CodesInv ==
  ASSUME IdentitiesInv
  PROVE  /\ \A p \in Persons, c \in Codes : AssignCode(p, c) => IdentitiesInv'
         /\ \A d \in Desks : Rehire(d) => IdentitiesInv'
         /\ \A k \in Tickets : ReserveUserCode(k) => IdentitiesInv'
<1>1. ASSUME UNCHANGED <<email, former, emailOf>>, IdentitiesTypeOK', desk' \in [Desks -> Job \cup {NoJob}],
             \A x \in Desks : desk'[x] = desk[x] \/ desk'[x] = NoJob
      PROVE  IdentitiesInv'
  BY <1>1 DEF IdentitiesInv, Reserved, EmailsOf, NoJob
<1>2. ASSUME NEW p \in Persons, NEW c \in Codes, AssignCode(p, c) PROVE IdentitiesInv'
  BY <1>1, <1>2 DEF AssignCode, IdentitiesInv, IdentitiesTypeOK
<1>3. ASSUME NEW d \in Desks, Rehire(d) PROVE IdentitiesInv'
  <2>1. PICK p, c : p = desk[d].person /\ c = desk[d].new
    OBVIOUS
  <2>2. /\ desk[d].op = "rehire" /\ Open(d, NoJob) /\ UNCHANGED <<email, former, emailOf, codeOf, ticket>>
        /\ code' = [code EXCEPT ![p] = c] /\ issued' = [issued EXCEPT ![p] = @ \cup {c}]
    BY <1>3, <2>1 DEF Rehire
  <2>3. p \in Persons /\ c \in Codes
    BY <2>1, <2>2, Jobs DEF IdentitiesInv
  <2> QED BY <1>1, <2>2, <2>3 DEF Open, IdentitiesInv, IdentitiesTypeOK
<1>4. ASSUME NEW k \in Tickets, ReserveUserCode(k) PROVE IdentitiesInv'
  BY <1>1, <1>4 DEF ReserveUserCode, Untouched, IdentitiesInv, IdentitiesTypeOK
<1> QED BY <1>2, <1>3, <1>4

LEMMA IdentitiesNextInv ==
  ASSUME IdentitiesInv, [IdentitiesNext]_identitiesVars
  PROVE  IdentitiesInv'
<1>1. CASE UNCHANGED identitiesVars
  BY <1>1 DEF identitiesVars, IdentitiesInv, IdentitiesTypeOK, Reserved, EmailsOf
<1> QED BY <1>1, BeginInv, EnrolInv, ChangeEmailInv, CodesInv DEF IdentitiesNext

\* Every email that somebody has or had stays reserved for him, and so does one that
\* is being replaced (reserve_email, find_email_owner); the rows that one request
\* enrols differ in persons and emails.
THEOREM IdentitiesInvariance == IdentitiesSpec => []IdentitiesInv
<1>1. IdentitiesInv /\ [IdentitiesNext]_identitiesVars => IdentitiesInv'
  BY IdentitiesNextInv
<1> QED BY <1>1, IdentitiesInitInv, PTL DEF IdentitiesSpec

\* EmailsKept holds for any number of persons, emails and requests: a login email is
\* never given to a second person, whichever changes overtake each other.
THEOREM EmailsKeptHolds == IdentitiesSpec => []EmailsKept
<1>1. IdentitiesInv => EmailsKept
  BY DEF IdentitiesInv, IdentitiesTypeOK, Reserved, EmailsOf, EmailsKept
<1> QED BY <1>1, IdentitiesInvariance, PTL

-----------------------------------------------------------------------------
(***************************************************************************)
(* Organisation, for any number of departments, units, teams and requests. *)
(***************************************************************************)

Statuses == {"absent", "active", "inactive", "deleted"}

\* A row that exists belongs somewhere, one that does not belongs nowhere and leads
\* nobody.
Rooted ==
  /\ \A u \in BusinessUnits : Extant(u) <=> unitDept[u] # Vacant
  /\ \A t \in Squads :
       /\ Extant(t) <=> squadDept[t] # Vacant
       /\ squadUnit[t] # Vacant \/ leader[t] # Vacant => Extant(t)

\* A unit with a team or an employee is active.
UnitsActive ==
  /\ \A t \in Squads : squadUnit[t] # Vacant =>
       master[squadUnit[t]] = "active" /\ unitDept[squadUnit[t]] = squadDept[t]
  /\ \A p \in Members : spot[p].unit # Vacant => master[spot[p].unit] = "active"

\* What an open transaction has validated is so until it commits.
FormOK(w) ==
  /\ form[w].op = "unit" =>
       /\ master[form[w].unit] = "absent"
       /\ \A x \in Forms \ {w} : form[x].op = "unit" => form[x].unit # form[w].unit
  /\ form[w].op = "squad" => master[form[w].unit] = "active" /\ unitDept[form[w].unit] = form[w].dept
  /\ form[w].op = "place" /\ form[w].new.unit # Vacant => master[form[w].new.unit] = "active"

OrganisationInv ==
  /\ OrganisationTypeOK /\ Rooted /\ UnitsActive /\ DeletedUnreferenced
  /\ \A w \in Forms : FormOK(w)

-----------------------------------------------------------------------------
\* What an open transaction carries, by its kind.
LEMMA FormKinds ==
  ASSUME NEW f \in Form \cup {NoForm}
  PROVE  /\ f.op = "place" => f.member \in Members /\ f.old \in Spot /\ f.new \in Spot
         /\ f.op = "squad" => f.squad \in Squads /\ f.unit \in BusinessUnits /\ f.dept \in Departments
         /\ f.op = "unit" => f.unit \in BusinessUnits /\ f.dept \in Departments
         /\ f.op = "snapshot" => f.of \in Masters
         /\ f.op \in {"none", "place", "squad", "unit", "snapshot"}
         /\ f.op # "none" => f \in Form
  BY DEF Form, NoForm

LEMMA FieldsRead ==
  ASSUME NEW w \in Forms
  PROVE  /\ form[w].op = "place" => ReadBy(w) = Fields(form[w].new) /\ Shared(w) = {form[w].new.unit} \cap BusinessUnits
         /\ form[w].op = "squad" => ReadBy(w) = {form[w].unit, form[w].dept, form[w].squad} /\ Shared(w) = {form[w].unit}
         /\ form[w].op = "unit" => ReadBy(w) = {form[w].unit, form[w].dept}
         /\ form[w].op = "snapshot" => ReadBy(w) = {form[w].of}
         /\ form[w].op = "none" => ReadBy(w) = {}
  BY DEF ReadBy, Shared

LEMMA OwnKind == ASSUME NEW m \in Masters PROVE m \in KindOf(m)
  BY DEF Masters, KindOf

\* Who refers to what exists refers to nothing deleted.
LEMMA NotDeleted ==
  ASSUME OrganisationInv
  PROVE  /\ \A u \in BusinessUnits : Extant(u) =>
              unitDept[u] \in Departments /\ master[unitDept[u]] # "deleted"
         /\ \A t \in Squads : Extant(t) =>
              /\ squadDept[t] \in Departments /\ master[squadDept[t]] # "deleted"
              /\ squadUnit[t] # Vacant => squadUnit[t] \in BusinessUnits /\ master[squadUnit[t]] = "active"
  BY DEF OrganisationInv, OrganisationTypeOK, Rooted, UnitsActive, DeletedUnreferenced, Used, Masters

LEMMA OrganisationInitInv == OrganisationInit => OrganisationInv
<1> SUFFICES ASSUME OrganisationInit PROVE OrganisationInv
  OBVIOUS
<1>0. PICK old \in SUBSET Squads, home \in Departments :
       /\ master = [m \in Masters |-> IF m \in old \cup {home} THEN "active" ELSE "absent"]
       /\ squadDept = [t \in Squads |-> IF t \in old THEN home ELSE Vacant]
  BY DEF OrganisationInit
<1>1. OrganisationTypeOK
  BY <1>0 DEF OrganisationInit, OrganisationTypeOK, Spot, NoSpot
<1>2. Rooted
  BY <1>0, OrganisationAssumption DEF OrganisationInit, Rooted, Extant, Masters
<1>3. UnitsActive /\ DeletedUnreferenced
  BY <1>0 DEF OrganisationInit, UnitsActive, NoSpot, DeletedUnreferenced
<1>4. \A w \in Forms : FormOK(w)
  BY DEF OrganisationInit, FormOK, NoForm
<1> QED BY <1>1, <1>2, <1>3, <1>4 DEF OrganisationInv

-----------------------------------------------------------------------------
\* w opens a transaction: what it read is not deleted.
LEMMA FillInv ==
  ASSUME OrganisationInv, NEW w \in Forms, NEW f \in Form, Fill(w, f), UNCHANGED orgRows,
         \A m \in Masters : m \in ReadBy(w)' => master[m] # "deleted", FormOK(w)',
         f.op = "unit" => \A x \in Forms \ {w} : form[x].op = "unit" => form[x].unit # f.unit
  PROVE  OrganisationInv'
<1>1. /\ form' \in [Forms -> Form \cup {NoForm}] /\ form'[w] = f /\ \A x \in Forms \ {w} : form'[x] = form[x]
      /\ UNCHANGED <<master, unitDept, squadDept, squadUnit, spot, leader, mentions>>
  BY DEF Fill, orgRows, OrganisationInv, OrganisationTypeOK
<1>2. OrganisationTypeOK' BY <1>1 DEF OrganisationInv, OrganisationTypeOK
<1>3. Rooted' /\ UnitsActive' BY <1>1 DEF OrganisationInv, Rooted, UnitsActive, Extant
<1>4. DeletedUnreferenced'
  <2>1. \A m \in Masters : Used(m)' <=> Used(m) BY <1>1 DEF Used, Extant
  <2>2. \A x \in Forms \ {w} : ReadBy(x)' = ReadBy(x) BY <1>1 DEF ReadBy
  <2> QED BY <1>1, <2>1, <2>2 DEF OrganisationInv, DeletedUnreferenced
<1>5. \A x \in Forms \ {w} : FormOK(x)' BY <1>1 DEF OrganisationInv, FormOK
<1> QED BY <1>2, <1>3, <1>4, <1>5 DEF OrganisationInv

LEMMA StartUnitInv ==
  ASSUME OrganisationInv, NEW w \in Forms, NEW u \in BusinessUnits, NEW d \in Departments, StartUnit(w, u, d)
  PROVE  OrganisationInv'
<1> DEFINE f == [op |-> "unit", unit |-> u, dept |-> d]
<1>1. /\ f \in Form /\ f.op = "unit" /\ f.unit = u /\ f.dept = d
      /\ Fill(w, f) /\ UNCHANGED orgRows /\ master[u] = "absent" /\ master[d] = "active"
      /\ \A x \in Forms : form[x].op = "unit" => form[x].unit # u
  BY DEF StartUnit, Form, Active
<1> HIDE DEF f
<1>2. form'[w] = f /\ \A x \in Forms \ {w} : form'[x] = form[x]
  BY <1>1 DEF Fill, OrganisationInv, OrganisationTypeOK
<1>3. FormOK(w)' BY <1>1, <1>2 DEF FormOK, orgRows
<1>4. ReadBy(w)' = {u, d} BY <1>1, <1>2 DEF ReadBy
<1> QED BY <1>1, <1>3, <1>4, FillInv

LEMMA StartSquadInv ==
  ASSUME OrganisationInv, NEW w \in Forms, NEW t \in Squads, NEW u \in BusinessUnits, StartSquad(w, t, u)
  PROVE  OrganisationInv'
<1>1. PICK d \in Departments : d = unitDept[u] /\ master[d] # "deleted"
  BY NotDeleted DEF StartSquad, Active
<1> DEFINE f == [op |-> "squad", squad |-> t, unit |-> u, dept |-> d]
<1>2. /\ f \in Form /\ f.op = "squad" /\ f.unit = u /\ f.dept = d /\ f.squad = t
      /\ Fill(w, f) /\ UNCHANGED orgRows /\ master[u] = "active" /\ master[t] = "absent"
  BY <1>1 DEF StartSquad, Form, Active
<1> HIDE DEF f
<1>3. form'[w] = f BY <1>2 DEF Fill, OrganisationInv, OrganisationTypeOK
<1>4. FormOK(w)' BY <1>1, <1>2, <1>3 DEF FormOK, orgRows
<1>5. ReadBy(w)' = {u, d, t} BY <1>2, <1>3 DEF ReadBy
<1> QED BY <1>1, <1>2, <1>4, <1>5, FillInv

LEMMA StartPlaceInv ==
  ASSUME OrganisationInv, NEW w \in Forms, NEW p \in Members, NEW s \in Spot, StartPlace(w, p, s)
  PROVE  OrganisationInv'
<1>1. spot[p] \in Spot BY DEF OrganisationInv, OrganisationTypeOK
<1>2. PICK n \in Spot : n = Resolved(spot[p], s)
  BY <1>1 DEF Resolved, Spot, OrganisationInv, OrganisationTypeOK
<1> DEFINE f == [op |-> "place", member |-> p, old |-> spot[p], new |-> n]
<1>3. /\ f \in Form /\ f.op = "place" /\ f.new = n
      /\ Fill(w, f) /\ UNCHANGED orgRows /\ SpotValid(s)
  BY <1>1, <1>2 DEF StartPlace, Form
<1> HIDE DEF f
<1>4. form'[w] = f BY <1>3 DEF Fill, OrganisationInv, OrganisationTypeOK
<1>5. /\ n.dept = s.dept /\ n.squad = s.squad
      /\ n.unit = s.unit \/ (s.squad # Vacant /\ n.unit = squadUnit[s.squad])
  BY <1>2 DEF Resolved, Spot
<1>6. /\ n.dept # Vacant => Extant(n.dept)
      /\ n.squad # Vacant => Extant(n.squad) /\ n.squad \in Squads
      /\ n.unit # Vacant => master[n.unit] = "active"
  BY <1>3, <1>5, NotDeleted DEF SpotValid, UnitValid, Active, Spot
<1>7. FormOK(w)' BY <1>3, <1>4, <1>6 DEF FormOK, orgRows
<1>8. ReadBy(w)' = Fields(n) BY <1>3, <1>4 DEF ReadBy
<1>9. \A m \in Masters : m \in ReadBy(w)' => master[m] # "deleted"
  BY <1>6, <1>8 DEF Fields, Extant
<1> QED BY <1>3, <1>7, <1>9, FillInv

LEMMA StartSnapshotInv ==
  ASSUME OrganisationInv, NEW w \in Forms, NEW m \in Masters, StartSnapshot(w, m)
  PROVE  OrganisationInv'
<1> DEFINE f == [op |-> "snapshot", of |-> m]
<1>1. /\ f \in Form /\ f.op = "snapshot" /\ f.of = m /\ Fill(w, f) /\ UNCHANGED orgRows /\ Extant(m)
  BY DEF StartSnapshot, Form
<1> HIDE DEF f
<1>2. form'[w] = f BY <1>1 DEF Fill, OrganisationInv, OrganisationTypeOK
<1>3. FormOK(w)' BY <1>1, <1>2 DEF FormOK
<1>4. ReadBy(w)' = {m} BY <1>1, <1>2 DEF ReadBy
<1> QED BY <1>1, <1>3, <1>4, FillInv DEF Extant

-----------------------------------------------------------------------------
\* Transactions end and rows change: nothing refers to a deleted master that did not.
LEMMA StaysUnreferenced ==
  ASSUME OrganisationInv, \A x \in Forms : form'[x] \in {form[x], NoForm},
         \A m \in Masters : master'[m] = "deleted" => master[m] = "deleted",
         \A m \in mentions' \ mentions : master'[m] # "deleted",
         \A p \in Members : \A m \in Fields(spot[p])' \ Fields(spot[p]) : master'[m] # "deleted",
         \A u \in BusinessUnits : Extant(u)' /\ master'[unitDept'[u]] = "deleted" =>
           Extant(u) /\ unitDept'[u] = unitDept[u],
         \A t \in Squads : Extant(t)' =>
           /\ master'[squadDept'[t]] = "deleted" => Extant(t) /\ squadDept'[t] = squadDept[t]
           /\ master'[squadUnit'[t]] = "deleted" => Extant(t) /\ squadUnit'[t] = squadUnit[t]
  PROVE  DeletedUnreferenced'
<1> SUFFICES ASSUME NEW m \in Masters, master'[m] = "deleted"
             PROVE  ~Used(m)' /\ \A w \in Forms : m \notin ReadBy(w)'
  BY DEF DeletedUnreferenced
<1>1. ~Used(m) /\ \A w \in Forms : m \notin ReadBy(w)
  BY DEF OrganisationInv, DeletedUnreferenced
<1>2. \A w \in Forms : ReadBy(w)' = ReadBy(w) \/ ReadBy(w)' = {}
  BY DEF ReadBy, NoForm
<1>3. m \notin mentions' BY <1>1 DEF Used
<1>4. \A p \in Members : m \notin Fields(spot[p])' BY <1>1 DEF Used
<1>5. \A u \in BusinessUnits : Extant(u)' => unitDept'[u] # m BY <1>1 DEF Used
<1>6. \A t \in Squads : Extant(t)' => m \notin {squadDept'[t], squadUnit'[t]} BY <1>1 DEF Used
<1> QED BY <1>1, <1>2, <1>3, <1>4, <1>5, <1>6 DEF Used

\* What is validated stays so when the units in open transactions do.
LEMMA FormsStay ==
  ASSUME OrganisationInv, \A x \in Forms : form'[x] \in {form[x], NoForm},
         \A x \in Forms : form'[x].op = "unit" => master'[form[x].unit] = master[form[x].unit],
         \A x \in Forms : \A u \in Shared(x) : master'[u] = master[u] /\ unitDept'[u] = unitDept[u]
  PROVE  \A x \in Forms : FormOK(x)'
<1> SUFFICES ASSUME NEW x \in Forms PROVE FormOK(x)'
  OBVIOUS
<1>1. CASE form'[x] = NoForm BY <1>1 DEF FormOK, NoForm
<1>2. CASE form'[x] = form[x] /\ form'[x] # NoForm
  <2>1. FormOK(x) /\ form[x] \in Form \cup {NoForm} BY DEF OrganisationInv, OrganisationTypeOK
  <2>2. \A y \in Forms : form'[y].op = "unit" => form'[y] = form[y] BY DEF NoForm
  <2>3. form[x].op = "unit" =>
          /\ master'[form[x].unit] = "absent"
          /\ \A y \in Forms \ {x} : form'[y].op = "unit" => form'[y].unit # form[x].unit
    BY <1>2, <2>1, <2>2 DEF FormOK
  <2>4. form[x].op = "squad" => master'[form[x].unit] = "active" /\ unitDept'[form[x].unit] = form[x].dept
    BY <2>1, FieldsRead DEF FormOK
  <2>5. form[x].op = "place" /\ form[x].new.unit # Vacant => master'[form[x].new.unit] = "active"
    <3> SUFFICES ASSUME form[x].op = "place", form[x].new.unit # Vacant
                 PROVE  master'[form[x].new.unit] = "active"
      OBVIOUS
    <3>1. form[x].new \in Spot BY <2>1, FormKinds
    <3>2. form[x].new.unit \in Shared(x) BY <3>1, FieldsRead DEF Spot
    <3> QED BY <2>1, <3>2 DEF FormOK
  <2> QED BY <1>2, <2>3, <2>4, <2>5 DEF FormOK
<1> QED BY <1>1, <1>2

\* A transaction that ends leaves the others as they are.
LEMMA CloseFacts ==
  ASSUME OrganisationInv, NEW w \in Forms, Close(w)
  PROVE  /\ form' \in [Forms -> Form \cup {NoForm}] /\ form'[w] = NoForm
         /\ \A x \in Forms : form'[x] \in {form[x], NoForm} /\ (x # w => form'[x] = form[x])
  BY DEF Close, OrganisationInv, OrganisationTypeOK

LEMMA CreateDepartmentInv ==
  ASSUME OrganisationInv, NEW d \in Departments, CreateDepartment(d)
  PROVE  OrganisationInv'
<1>1. /\ master[d] = "absent" /\ master' = [master EXCEPT ![d] = "active"]
      /\ UNCHANGED <<unitDept, squadDept, squadUnit, spot, leader, mentions, form>>
      /\ master \in [Masters -> Statuses] /\ d \in Masters /\ d \notin BusinessUnits \cup Squads
  BY OrganisationAssumption DEF CreateDepartment, OrganisationInv, OrganisationTypeOK, Masters, Statuses
<1>2. OrganisationTypeOK' BY <1>1 DEF OrganisationInv, OrganisationTypeOK
<1>3. \A m \in Masters : m # d => master'[m] = master[m] BY <1>1
<1>4. \A m \in BusinessUnits \cup Squads : master'[m] = master[m] /\ (Extant(m)' <=> Extant(m))
  BY <1>1, <1>3 DEF Extant, Masters
<1>5. Rooted' BY <1>1, <1>4 DEF Rooted, OrganisationInv
<1>6. UnitsActive' BY <1>1, <1>4 DEF UnitsActive, OrganisationInv, OrganisationTypeOK, Spot
<1>7. DeletedUnreferenced'
  <2>1. \A m \in Masters : master'[m] = "deleted" => master[m] = "deleted" BY <1>1
  <2>2. \A m : Fields(spot[m])' = Fields(spot[m]) BY <1>1 DEF Fields
  <2> QED BY <1>1, <1>4, <2>1, <2>2, StaysUnreferenced
<1>8. \A x \in Forms : FormOK(x)'
  <2>1. \A x \in Forms : form[x].op = "unit" => form[x].unit \in BusinessUnits
    BY FormKinds DEF OrganisationInv, OrganisationTypeOK
  <2>2. \A x \in Forms : Shared(x) \subseteq BusinessUnits
    BY FormKinds DEF Shared, OrganisationInv, OrganisationTypeOK
  <2> QED BY <1>1, <1>4, <2>1, <2>2, FormsStay
<1> QED BY <1>2, <1>5, <1>6, <1>7, <1>8 DEF OrganisationInv

\* The validated units and the units to be created, as typed.
LEMMA FormUnits ==
  ASSUME OrganisationInv, NEW x \in Forms
  PROVE  /\ form[x].op = "unit" => form[x].unit \in BusinessUnits /\ master[form[x].unit] = "absent"
         /\ Shared(x) \subseteq BusinessUnits /\ \A u \in Shared(x) : master[u] = "active"
<1>1. form[x] \in Form \cup {NoForm} /\ FormOK(x) BY DEF OrganisationInv, OrganisationTypeOK
<1> QED BY <1>1, FormKinds, OrganisationAssumption DEF Shared, FormOK

\* The status of an existing master changes; only a unit without teams and employees
\* becomes inactive.
LEMMA StatusInv ==
  ASSUME OrganisationInv, NEW m \in Masters, NEW to \in {"active", "inactive"}, Extant(m),
         master' = [master EXCEPT ![m] = to], mentions' \in {mentions, mentions \cup {m}},
         UNCHANGED <<unitDept, squadDept, squadUnit, spot, leader, form>>,
         m \in BusinessUnits => Unshared(m),
         m \in BusinessUnits /\ to = "inactive" =>
           (\A t \in Squads : squadUnit[t] # m) /\ (\A p \in Members : spot[p].unit # m)
  PROVE  OrganisationInv'
<1>1. /\ master \in [Masters -> Statuses] /\ master[m] \in {"active", "inactive"}
      /\ master'[m] = to /\ \A k \in Masters : k # m => master'[k] = master[k]
  BY DEF Extant, OrganisationInv, OrganisationTypeOK, Statuses
<1>2. OrganisationTypeOK' BY <1>1 DEF OrganisationInv, OrganisationTypeOK
<1>3. \A k \in Masters : (Extant(k)' <=> Extant(k)) /\ (master'[k] = "deleted" <=> master[k] = "deleted")
  BY <1>1 DEF Extant
<1>4. Rooted' BY <1>3 DEF Rooted, OrganisationInv, Masters
<1>5. UnitsActive'
  <2>1. ASSUME NEW t \in Squads, squadUnit[t] # Vacant
        PROVE  master'[squadUnit[t]] = "active" /\ unitDept'[squadUnit[t]] = squadDept'[t]
    BY <1>1, <2>1 DEF OrganisationInv, OrganisationTypeOK, UnitsActive, Masters
  <2>2. ASSUME NEW p \in Members, spot[p].unit # Vacant PROVE master'[spot[p].unit] = "active"
    <3>1. spot[p].unit \in BusinessUnits /\ master[spot[p].unit] = "active"
      BY <2>2 DEF OrganisationInv, OrganisationTypeOK, UnitsActive, Spot
    <3> QED BY <1>1, <3>1 DEF Masters
  <2> QED BY <2>1, <2>2 DEF UnitsActive
<1>6. DeletedUnreferenced'
  <2>1. \A p : Fields(spot[p])' = Fields(spot[p]) BY DEF Fields
  <2>2. \A k \in mentions' \ mentions : master'[k] # "deleted" BY <1>1
  <2> QED BY <1>3, <2>1, <2>2, StaysUnreferenced DEF Masters
<1>7. \A x \in Forms : FormOK(x)'
  <2>1. \A x \in Forms : form[x].op = "unit" => form[x].unit # m /\ form[x].unit \in Masters
    BY <1>1, FormUnits DEF Masters
  <2>2. \A x \in Forms : \A u \in Shared(x) : u \in Masters /\ u # m
    BY <1>1, FormUnits DEF Masters, Unshared
  <2> QED BY <1>1, <2>1, <2>2, FormsStay
<1> QED BY <1>2, <1>4, <1>5, <1>6, <1>7 DEF OrganisationInv

LEMMA SetStatusInv ==
  ASSUME OrganisationInv, NEW m \in Masters, NEW to \in {"active", "inactive"},
         \/ m \in Departments /\ SetDepartmentStatus(m, to)
         \/ m \in BusinessUnits /\ SetUnitStatus(m, to)
         \/ m \in Squads /\ SetSquadStatus(m, to)
  PROVE  OrganisationInv'
<1>1. CASE m \in Departments /\ SetDepartmentStatus(m, to)
  BY <1>1, StatusInv, OrganisationAssumption DEF SetDepartmentStatus
<1>2. CASE m \in BusinessUnits /\ SetUnitStatus(m, to)
  BY <1>2, StatusInv DEF SetUnitStatus
<1>3. CASE m \in Squads /\ SetSquadStatus(m, to)
  BY <1>3, StatusInv, OrganisationAssumption DEF SetSquadStatus
<1> QED BY <1>1, <1>2, <1>3

LEMMA MoveUnitInv ==
  ASSUME OrganisationInv, NEW u \in BusinessUnits, NEW d \in Departments, MoveUnit(u, d)
  PROVE  OrganisationInv'
<1>1. /\ Extant(u) /\ master[d] = "active" /\ d # Vacant /\ Unshared(u) /\ ~Used(u)
      /\ unitDept' = [unitDept EXCEPT ![u] = d]
      /\ UNCHANGED <<master, squadDept, squadUnit, spot, leader, mentions, form>>
  BY DEF MoveUnit, Active, Extant
<1>2. OrganisationTypeOK' BY <1>1 DEF OrganisationInv, OrganisationTypeOK
<1>3. unitDept'[u] = d /\ \A v \in BusinessUnits : v # u => unitDept'[v] = unitDept[v]
  BY <1>1 DEF OrganisationInv, OrganisationTypeOK
<1>4. \A m : Extant(m)' <=> Extant(m) BY <1>1 DEF Extant
<1>5. Rooted' BY <1>1, <1>3, <1>4 DEF Rooted, OrganisationInv
<1>6. \A t \in Squads : squadUnit[t] # u
  BY <1>1, OrganisationAssumption DEF Used, Rooted, OrganisationInv, Extant
<1>7. UnitsActive' BY <1>1, <1>3, <1>6 DEF UnitsActive, OrganisationInv, OrganisationTypeOK
<1>8. DeletedUnreferenced'
  <2>1. \A p : Fields(spot[p])' = Fields(spot[p]) BY <1>1 DEF Fields
  <2> QED BY <1>1, <1>3, <1>4, <2>1, StaysUnreferenced
<1>9. \A x \in Forms : FormOK(x)'
  <2>1. \A x \in Forms : \A v \in Shared(x) : v # u /\ v \in BusinessUnits
    BY <1>1, FormUnits DEF Unshared
  <2> QED BY <1>1, <1>3, <2>1, FormsStay
<1> QED BY <1>2, <1>5, <1>7, <1>8, <1>9 DEF OrganisationInv

LEMMA MoveSquadInv ==
  ASSUME OrganisationInv, NEW t \in Squads, NEW u \in BusinessUnits, MoveSquad(t, u)
  PROVE  OrganisationInv'
<1>1. /\ Extant(t) /\ master[u] = "active" /\ u # Vacant /\ unitDept[u] = squadDept[t]
      /\ squadUnit' = [squadUnit EXCEPT ![t] = u] /\ mentions' = mentions \cup {t, u}
      /\ UNCHANGED <<master, unitDept, squadDept, spot, leader, form>>
  BY DEF MoveSquad, UnitValid, Active, Extant
<1>2. OrganisationTypeOK' BY <1>1 DEF OrganisationInv, OrganisationTypeOK, Masters
<1>3. squadUnit'[t] = u /\ \A s \in Squads : s # t => squadUnit'[s] = squadUnit[s]
  BY <1>1 DEF OrganisationInv, OrganisationTypeOK
<1>4. \A m : Extant(m)' <=> Extant(m) BY <1>1 DEF Extant
<1>5. Rooted' BY <1>1, <1>3, <1>4 DEF Rooted, OrganisationInv
<1>6. UnitsActive' BY <1>1, <1>3 DEF UnitsActive, OrganisationInv, OrganisationTypeOK
<1>7. DeletedUnreferenced'
  <2>1. \A p : Fields(spot[p])' = Fields(spot[p]) BY <1>1 DEF Fields
  <2>2. \A m \in mentions' \ mentions : master'[m] # "deleted" BY <1>1 DEF Extant
  <2> QED BY <1>1, <1>3, <1>4, <2>1, <2>2, StaysUnreferenced
<1>8. \A x \in Forms : FormOK(x)' BY <1>1, FormsStay
<1> QED BY <1>2, <1>5, <1>6, <1>7, <1>8 DEF OrganisationInv

LEMMA SetTeamLeaderInv ==
  ASSUME OrganisationInv, NEW t \in Squads, NEW p \in Members \cup {Vacant}, SetTeamLeader(t, p)
  PROVE  OrganisationInv'
<1>1. /\ Extant(t) /\ leader' = [leader EXCEPT ![t] = p] /\ mentions' = mentions \cup {t}
      /\ UNCHANGED <<master, unitDept, squadDept, squadUnit, spot, form>>
  BY DEF SetTeamLeader
<1>2. OrganisationTypeOK' BY <1>1 DEF OrganisationInv, OrganisationTypeOK, Masters
<1>3. \A m : Extant(m)' <=> Extant(m) BY <1>1 DEF Extant
<1>4. Rooted' BY <1>1, <1>3 DEF Rooted, OrganisationInv, OrganisationTypeOK
<1>5. UnitsActive' BY <1>1 DEF UnitsActive, OrganisationInv
<1>6. DeletedUnreferenced'
  <2>1. \A q : Fields(spot[q])' = Fields(spot[q]) BY <1>1 DEF Fields
  <2>2. \A m \in mentions' \ mentions : master'[m] # "deleted" BY <1>1 DEF Extant
  <2> QED BY <1>1, <1>3, <2>1, <2>2, StaysUnreferenced
<1>7. \A x \in Forms : FormOK(x)' BY <1>1, FormsStay
<1> QED BY <1>2, <1>4, <1>5, <1>6, <1>7 DEF OrganisationInv

LEMMA CreateUnitInv ==
  ASSUME OrganisationInv, NEW w \in Forms, CreateUnit(w)
  PROVE  OrganisationInv'
<1>0. PICK u, d : u = form[w].unit /\ d = form[w].dept OBVIOUS
<1>1. /\ form[w].op = "unit" /\ Extant(d) /\ master' = [master EXCEPT ![u] = "active"]
      /\ unitDept' = [unitDept EXCEPT ![u] = d] /\ Close(w)
      /\ UNCHANGED <<squadDept, squadUnit, spot, leader, mentions>>
  BY <1>0 DEF CreateUnit
<1>2. u \in BusinessUnits /\ d \in Departments /\ master[u] = "absent" /\ d # Vacant
  BY <1>0, <1>1, FormKinds, OrganisationAssumption DEF OrganisationInv, OrganisationTypeOK, FormOK
<1>3. \A x \in Forms \ {w} : form[x].op = "unit" => form[x].unit # u
  BY <1>0, <1>1 DEF OrganisationInv, FormOK
<1>4. /\ form' \in [Forms -> Form \cup {NoForm}] /\ form'[w] = NoForm
      /\ \A x \in Forms : form'[x] \in {form[x], NoForm} /\ (x # w => form'[x] = form[x])
  BY <1>1, CloseFacts
<1>5. /\ master'[u] = "active" /\ unitDept'[u] = d /\ u \in Masters
      /\ \A m \in Masters : m # u => master'[m] = master[m]
      /\ \A v \in BusinessUnits : v # u => unitDept'[v] = unitDept[v]
  BY <1>1, <1>2 DEF OrganisationInv, OrganisationTypeOK, Masters
<1>6. OrganisationTypeOK' BY <1>1, <1>2, <1>4 DEF OrganisationInv, OrganisationTypeOK
<1>7. Extant(u)' /\ \A m \in Masters : m # u => (Extant(m)' <=> Extant(m))
  BY <1>2, <1>5, OrganisationAssumption DEF Extant
<1>8. Rooted'
  BY <1>1, <1>2, <1>5, <1>7, OrganisationAssumption DEF Rooted, OrganisationInv, Masters
<1>9. UnitsActive'
  BY <1>1, <1>2, <1>5 DEF UnitsActive, OrganisationInv, OrganisationTypeOK, Spot, Masters
<1>10. DeletedUnreferenced'
  <2>1. \A p : Fields(spot[p])' = Fields(spot[p]) BY <1>1 DEF Fields
  <2>2. master'[d] # "deleted" /\ d # u
    BY <1>1, <1>2, <1>5, OrganisationAssumption DEF Extant, Masters
  <2> QED BY <1>1, <1>2, <1>4, <1>5, <1>7, <2>1, <2>2, StaysUnreferenced, OrganisationAssumption DEF Masters
<1>11. \A x \in Forms : FormOK(x)'
  <2>1. \A x \in Forms : form'[x].op = "unit" => form[x].unit # u /\ form[x].unit \in Masters
    BY <1>3, <1>4, FormUnits DEF NoForm, Masters
  <2>2. \A x \in Forms : \A v \in Shared(x) : v # u /\ v \in Masters /\ v \in BusinessUnits
    BY <1>2, FormUnits DEF Masters
  <2> QED BY <1>4, <1>5, <2>1, <2>2, FormsStay
<1> QED BY <1>6, <1>8, <1>9, <1>10, <1>11 DEF OrganisationInv

LEMMA CreateSquadInv ==
  ASSUME OrganisationInv, NEW w \in Forms, CreateSquad(w)
  PROVE  OrganisationInv'
<1>0. PICK t, u, d : t = form[w].squad /\ u = form[w].unit /\ d = form[w].dept OBVIOUS
<1>1. /\ form[w].op = "squad" /\ Extant(u) /\ Extant(d) /\ master' = [master EXCEPT ![t] = "active"]
      /\ squadDept' = [squadDept EXCEPT ![t] = d] /\ squadUnit' = [squadUnit EXCEPT ![t] = u] /\ Close(w)
      /\ UNCHANGED <<unitDept, spot, leader, mentions>>
  BY <1>0 DEF CreateSquad
<1>2. /\ u \in BusinessUnits /\ d \in Departments /\ t \in Squads
      /\ master[u] = "active" /\ unitDept[u] = d /\ d # Vacant /\ u # Vacant /\ t # Vacant
  BY <1>0, <1>1, FormKinds, OrganisationAssumption DEF OrganisationInv, OrganisationTypeOK, FormOK
<1>3. /\ form' \in [Forms -> Form \cup {NoForm}]
      /\ \A x \in Forms : form'[x] \in {form[x], NoForm}
  BY <1>1, CloseFacts
<1>4. /\ master'[t] = "active" /\ squadDept'[t] = d /\ squadUnit'[t] = u /\ t \in Masters
      /\ \A m \in Masters : m # t => master'[m] = master[m]
      /\ \A s \in Squads : s # t => squadDept'[s] = squadDept[s] /\ squadUnit'[s] = squadUnit[s]
      /\ \A v \in BusinessUnits : v # t /\ v \in Masters
  BY <1>1, <1>2, OrganisationAssumption DEF OrganisationInv, OrganisationTypeOK, Masters
<1>5. OrganisationTypeOK' BY <1>1, <1>2, <1>3 DEF OrganisationInv, OrganisationTypeOK
<1>6. Extant(t)' /\ \A m \in Masters : m # t => (Extant(m)' <=> Extant(m))
  BY <1>2, <1>4 DEF Extant
<1>7. Rooted' BY <1>1, <1>2, <1>4, <1>6 DEF Rooted, OrganisationInv, Masters
<1>8. UnitsActive'
  BY <1>1, <1>2, <1>4 DEF UnitsActive, OrganisationInv, OrganisationTypeOK, Spot
<1>9. DeletedUnreferenced'
  <2>1. \A p : Fields(spot[p])' = Fields(spot[p]) BY <1>1 DEF Fields
  <2>2. master'[d] # "deleted" /\ master'[u] # "deleted"
    BY <1>1, <1>2, <1>4, OrganisationAssumption DEF Extant, Masters
  <2>3. \A m \in Masters : master'[m] = "deleted" => master[m] = "deleted"
    BY <1>4
  <2>4. \A s \in Squads : Extant(s)' =>
           /\ master'[squadDept'[s]] = "deleted" => Extant(s) /\ squadDept'[s] = squadDept[s]
           /\ master'[squadUnit'[s]] = "deleted" => Extant(s) /\ squadUnit'[s] = squadUnit[s]
    BY <1>4, <1>6, <2>2 DEF Masters
  <2> QED BY <1>1, <1>3, <1>4, <1>6, <2>1, <2>3, <2>4, StaysUnreferenced
<1>10. \A x \in Forms : FormOK(x)'
  <2>1. \A x \in Forms : form[x].op = "unit" => form[x].unit \in BusinessUnits BY FormUnits
  <2>2. \A x \in Forms : \A v \in Shared(x) : v \in BusinessUnits BY FormUnits
  <2> QED BY <1>1, <1>3, <1>4, <2>1, <2>2, FormsStay DEF NoForm
<1> QED BY <1>5, <1>7, <1>8, <1>9, <1>10 DEF OrganisationInv

LEMMA PlaceInv ==
  ASSUME OrganisationInv, NEW w \in Forms, Place(w)
  PROVE  OrganisationInv'
<1> DEFINE To(old, new, cur) == IF new = old THEN cur ELSE new
<1>1. PICK p, old, new : /\ p = form[w].member /\ old = form[w].old /\ new = form[w].new
  OBVIOUS
<1>2. PICK now : now = [dept |-> To(old.dept, new.dept, spot[p].dept),
                        unit |-> To(old.unit, new.unit, spot[p].unit),
                        squad |-> To(old.squad, new.squad, spot[p].squad)]
  OBVIOUS
<1>3. /\ form[w].op = "place" /\ \A m \in Fields(now) : Extant(m)
      /\ spot' = [spot EXCEPT ![p] = now]
      /\ leader' = [t \in Squads |->
           IF leader[t] = p /\ (new.squad # t \/ new.dept # squadDept[t]) THEN Vacant ELSE leader[t]]
      /\ mentions' = mentions \cup ({new.unit} \ {old.unit, Vacant}) \cup ({new.squad} \ {old.squad, Vacant})
           \cup {t \in Squads : leader'[t] # leader[t]}
      /\ Close(w) /\ UNCHANGED <<master, unitDept, squadDept, squadUnit>>
  BY <1>1, <1>2 DEF Place
<1>4. /\ p \in Members /\ old \in Spot /\ new \in Spot /\ spot[p] \in Spot
      /\ (new.unit # Vacant => master[new.unit] = "active")
  BY <1>1, <1>3, FormKinds DEF OrganisationInv, OrganisationTypeOK, FormOK
<1>5. now \in Spot BY <1>2, <1>4 DEF Spot
<1>6. /\ form' \in [Forms -> Form \cup {NoForm}]
      /\ \A x \in Forms : form'[x] \in {form[x], NoForm}
  BY <1>3, CloseFacts
<1>7. now.unit # Vacant => master[now.unit] = "active"
  BY <1>2, <1>4 DEF OrganisationInv, UnitsActive
<1>8. spot'[p] = now /\ \A q \in Members : q # p => spot'[q] = spot[q]
  BY <1>3, <1>4 DEF OrganisationInv, OrganisationTypeOK
<1>9. \A t \in Squads : leader'[t] \in {leader[t], Vacant}
  BY <1>3
<1>10. OrganisationTypeOK'
  <2>1. mentions' \subseteq Masters
    BY <1>3, <1>4 DEF Spot, Masters, OrganisationInv, OrganisationTypeOK
  <2> QED BY <1>3, <1>5, <1>6, <1>9, <2>1 DEF OrganisationInv, OrganisationTypeOK
<1>11. Rooted' BY <1>3, <1>9 DEF Rooted, Extant, OrganisationInv
<1>12. UnitsActive' BY <1>3, <1>7, <1>8 DEF UnitsActive, OrganisationInv
<1>13. DeletedUnreferenced'
  <2>1. \A m \in Masters : m \in Fields(new) => master[m] # "deleted"
    BY <1>1, <1>3, FieldsRead DEF OrganisationInv, DeletedUnreferenced
  <2>2. \A m \in mentions' \ mentions : master'[m] # "deleted"
    <3> SUFFICES ASSUME NEW m \in mentions' \ mentions PROVE master[m] # "deleted"
      BY <1>3
    <3>1. CASE m \in {new.unit, new.squad} /\ m # Vacant
      BY <1>4, <2>1, <3>1 DEF Fields, Spot, Masters
    <3>2. CASE m \in Squads /\ leader'[m] # leader[m]
      BY <1>9, <3>2 DEF OrganisationInv, Rooted, Extant
    <3> QED BY <1>3, <3>1, <3>2
  <2>3. \A q \in Members : \A m \in Fields(spot[q])' \ Fields(spot[q]) : master'[m] # "deleted"
    BY <1>3, <1>8 DEF Fields, Extant
  <2>4. \A m : Extant(m)' <=> Extant(m) BY <1>3 DEF Extant
  <2> QED BY <1>3, <1>6, <2>2, <2>3, <2>4, StaysUnreferenced
<1>14. \A x \in Forms : FormOK(x)' BY <1>3, <1>6, FormsStay DEF NoForm
<1> QED BY <1>10, <1>11, <1>12, <1>13, <1>14 DEF OrganisationInv

LEMMA CloseInv ==
  ASSUME OrganisationInv, NEW w \in Forms, KeepSnapshot(w) \/ DropForm(w)
  PROVE  OrganisationInv'
<1>1. /\ Close(w) /\ UNCHANGED <<master, unitDept, squadDept, squadUnit, spot, leader>>
      /\ mentions' = mentions \/ (form[w].op = "snapshot" /\ mentions' = mentions \cup {form[w].of})
  BY DEF KeepSnapshot, DropForm, orgRows
<1>2. /\ form' \in [Forms -> Form \cup {NoForm}]
      /\ \A x \in Forms : form'[x] \in {form[x], NoForm}
  BY <1>1, CloseFacts
<1>3. form[w].op = "snapshot" => form[w].of \in Masters /\ master[form[w].of] # "deleted"
  BY FormKinds, FieldsRead DEF OrganisationInv, OrganisationTypeOK, DeletedUnreferenced
<1>4. OrganisationTypeOK' BY <1>1, <1>2, <1>3 DEF OrganisationInv, OrganisationTypeOK
<1>5. Rooted' /\ UnitsActive' BY <1>1 DEF Rooted, Extant, UnitsActive, OrganisationInv
<1>6. DeletedUnreferenced'
  <2>1. \A p : Fields(spot[p])' = Fields(spot[p]) BY <1>1 DEF Fields
  <2>2. \A m : Extant(m)' <=> Extant(m) BY <1>1 DEF Extant
  <2>3. \A m \in mentions' \ mentions : master'[m] # "deleted" BY <1>1, <1>3
  <2> QED BY <1>1, <1>2, <2>1, <2>2, <2>3, StaysUnreferenced
<1>7. \A x \in Forms : FormOK(x)' BY <1>1, <1>2, FormsStay DEF NoForm
<1> QED BY <1>4, <1>5, <1>6, <1>7 DEF OrganisationInv

\* Quiet keeps the transactions away from m, ~Used the rows.
LEMMA DeleteInv ==
  ASSUME OrganisationInv, NEW m \in Masters, DeleteUnusedMaster(m)
  PROVE  OrganisationInv'
<1>1. /\ Extant(m) /\ ~Used(m) /\ (m \in Squads => leader[m] = Vacant)
      /\ \A w \in Forms : m \notin ReadBy(w)
      /\ master' = [master EXCEPT ![m] = "deleted"]
      /\ UNCHANGED <<spot, leader, form>>
  BY OwnKind DEF DeleteUnusedMaster, Quiet, Erase
<1>2. /\ \A u \in BusinessUnits : unitDept'[u] = IF u = m THEN Vacant ELSE unitDept[u]
      /\ \A t \in Squads : squadDept'[t] = IF t = m THEN Vacant ELSE squadDept[t]
      /\ \A t \in Squads : squadUnit'[t] = IF t = m THEN Vacant ELSE squadUnit[t]
      /\ mentions' = mentions \cup
           ((IF m \in BusinessUnits THEN {unitDept[m]}
             ELSE IF m \in Squads THEN {squadDept[m], squadUnit[m]} ELSE {}) \ {Vacant})
  BY DEF DeleteUnusedMaster, Erase
<1>3. OrganisationTypeOK'
  BY <1>1, <1>2 DEF DeleteUnusedMaster, Erase, OrganisationInv, OrganisationTypeOK, Masters
<1>4. master'[m] = "deleted" /\ \A k \in Masters : k # m => master'[k] = master[k]
  BY <1>1 DEF OrganisationInv, OrganisationTypeOK
<1>5. ~Extant(m)' /\ \A k \in Masters : k # m => (Extant(k)' <=> Extant(k))
  BY <1>4 DEF Extant
<1>6. Rooted'
  BY <1>1, <1>2, <1>5 DEF Rooted, OrganisationInv, Masters
<1>7. \A t \in Squads : squadUnit[t] # Vacant => squadUnit[t] # m
  BY <1>1 DEF Used, OrganisationInv, Rooted
<1>8. \A p \in Members : spot[p].unit # Vacant => spot[p].unit # m
  BY <1>1 DEF Used, Fields
<1>9. UnitsActive'
  <2>1. ASSUME NEW t \in Squads, squadUnit'[t] # Vacant
        PROVE  master'[squadUnit'[t]] = "active" /\ unitDept'[squadUnit'[t]] = squadDept'[t]
    <3>1. t # m /\ squadUnit'[t] = squadUnit[t] /\ squadUnit[t] \in BusinessUnits /\ squadUnit[t] # m
      BY <1>2, <1>7, <2>1 DEF OrganisationInv, OrganisationTypeOK
    <3> QED BY <1>2, <1>4, <2>1, <3>1 DEF OrganisationInv, UnitsActive, Masters
  <2>2. ASSUME NEW p \in Members, spot'[p].unit # Vacant PROVE master'[spot'[p].unit] = "active"
    <3>1. spot[p].unit \in BusinessUnits /\ spot[p].unit # m /\ spot'[p] = spot[p]
      BY <1>1, <1>8, <2>2 DEF OrganisationInv, OrganisationTypeOK, Spot
    <3> QED BY <1>4, <2>2, <3>1 DEF OrganisationInv, UnitsActive, Masters
  <2> QED BY <2>1, <2>2 DEF UnitsActive
<1>10. DeletedUnreferenced'
  <2> SUFFICES ASSUME NEW k \in Masters, master'[k] = "deleted"
               PROVE  ~Used(k)' /\ \A w \in Forms : k \notin ReadBy(w)'
    BY DEF DeletedUnreferenced
  <2>1. ~Used(k) /\ \A w \in Forms : k \notin ReadBy(w)
    BY <1>1, <1>4 DEF OrganisationInv, DeletedUnreferenced
  <2>2. \A w \in Forms : ReadBy(w)' = ReadBy(w) BY <1>1 DEF ReadBy
  <2>3. k \notin mentions'
    <3>1. k # Vacant BY OrganisationAssumption DEF Masters
    <3>2. m \in BusinessUnits => unitDept[m] # k BY <1>1, <2>1 DEF Used
    <3>3. m \in Squads => squadDept[m] # k /\ squadUnit[m] # k BY <1>1, <2>1 DEF Used
    <3> QED BY <1>2, <2>1, <3>1, <3>2, <3>3 DEF Used
  <2>4. \A p \in Members : k \notin Fields(spot[p])' BY <1>1, <2>1 DEF Used, Fields
  <2>5. \A u \in BusinessUnits : Extant(u)' => unitDept'[u] # k
    BY <1>2, <1>5, <2>1 DEF Used, Masters
  <2>6. \A t \in Squads : Extant(t)' => k \notin {squadDept'[t], squadUnit'[t]}
    BY <1>2, <1>5, <2>1 DEF Used, Masters
  <2> QED BY <2>1, <2>2, <2>3, <2>4, <2>5, <2>6 DEF Used
<1>11. \A x \in Forms : FormOK(x)'
  <2>1. \A x \in Forms : form[x].op = "unit" => form[x].unit # m /\ form[x].unit \in Masters
    BY <1>1, FormUnits DEF Extant, Masters
  <2>2. \A x \in Forms : \A v \in Shared(x) : v # m /\ v \in BusinessUnits
    <3>1. \A x \in Forms : Shared(x) \subseteq ReadBy(x)
      BY FieldsRead, OrganisationAssumption DEF Shared, ReadBy, Fields
    <3> QED BY <1>1, <3>1, FormUnits
  <2> QED BY <1>1, <1>2, <1>4, <2>1, <2>2, FormsStay DEF Masters
<1> QED BY <1>3, <1>6, <1>9, <1>10, <1>11 DEF OrganisationInv

LEMMA OrganisationNextInv ==
  ASSUME OrganisationInv, [OrganisationNext]_organisationVars
  PROVE  OrganisationInv'
<1>1. CASE UNCHANGED organisationVars
  BY <1>1 DEF organisationVars, OrganisationInv, OrganisationTypeOK, Rooted, Extant, UnitsActive,
     DeletedUnreferenced, Used, Fields, ReadBy, FormOK
<1>2. ASSUME NEW d \in Departments, NEW to \in {"active", "inactive"}, SetDepartmentStatus(d, to)
      PROVE  OrganisationInv'
  BY <1>2, SetStatusInv DEF Masters
<1>3. ASSUME NEW u \in BusinessUnits, NEW to \in {"active", "inactive"}, SetUnitStatus(u, to)
      PROVE  OrganisationInv'
  BY <1>3, SetStatusInv DEF Masters
<1>4. ASSUME NEW t \in Squads, NEW to \in {"active", "inactive"}, SetSquadStatus(t, to)
      PROVE  OrganisationInv'
  BY <1>4, SetStatusInv DEF Masters
<1>5. ASSUME NEW w \in Forms, CreateUnit(w) \/ CreateSquad(w) \/ Place(w) \/ KeepSnapshot(w) \/ DropForm(w)
      PROVE  OrganisationInv'
  BY <1>5, CreateUnitInv, CreateSquadInv, PlaceInv, CloseInv
<1> QED
  BY <1>1, <1>2, <1>3, <1>4, <1>5, CreateDepartmentInv, MoveUnitInv, StartUnitInv, MoveSquadInv,
     StartSquadInv, SetTeamLeaderInv, StartPlaceInv, StartSnapshotInv, DeleteInv DEF OrganisationNext

\* Deleted masters are referred to by nobody, units with teams or employees are
\* active, and what an open transaction has validated stays so until it commits,
\* because of the rows it shares and the tables a deletion locks
\* (validate_business_unit, delete_unused_master).
THEOREM OrganisationInvariance == OrganisationSpec => []OrganisationInv
<1>1. OrganisationInv /\ [OrganisationNext]_organisationVars => OrganisationInv'
  BY OrganisationNextInv
<1> QED BY <1>1, OrganisationInitInv, PTL DEF OrganisationSpec

\* DeletedUnreferenced holds for any number of masters and transactions: no row, no
\* history and no open transaction refers to a deleted master.
THEOREM DeletedUnreferencedHolds == OrganisationSpec => []DeletedUnreferenced
<1>1. OrganisationInv => DeletedUnreferenced BY DEF OrganisationInv
<1> QED BY <1>1, OrganisationInvariance, PTL

\* UnitsCoherent holds for any number of units, teams and employees: an inactive unit
\* has neither, and a team belongs to the department of its unit.
THEOREM UnitsCoherentHolds == OrganisationSpec => []UnitsCoherent
<1>1. OrganisationInv => UnitsCoherent
  <2> SUFFICES ASSUME OrganisationInv PROVE UnitsCoherent
    OBVIOUS
  <2>1. \A u \in BusinessUnits : u # Vacant BY OrganisationAssumption
  <2> QED BY <2>1 DEF OrganisationInv, UnitsActive, UnitsCoherent
<1> QED BY <1>1, OrganisationInvariance, PTL

-----------------------------------------------------------------------------
(***************************************************************************)
(* Approvals, for any number of deciders, of one request of each kind.     *)
(***************************************************************************)

\* Who has a decision under way is neither the employee nor the requester, and the row
\* he named is still as he saw it, or the decision is outdated.
ApprovalInv ==
  /\ ApprovalTypeOK
  /\ \A p \in Deciders : choice[p] # Empty =>
       /\ p \notin {Subject, requester}
       /\ choice[p].current => row.status = choice[p].status

\* What the Approval Centre offers somebody, the service accepts from him.
LEMMA OfferedAccepted ==
  ASSUME ApprovalInv, NEW p \in Deciders, NEW a \in Offered(p)
  PROVE  Accepts(p, a, row.status)
<1>1. /\ Visible(p) /\ p \notin {Subject, requester} /\ kind \in {"Leave", "Contracts", "Transfers", "Exit"}
      /\ row.consent \in BOOLEAN
  BY ApprovalAssumption DEF Offered, ApprovalInv, ApprovalTypeOK
<1>2. CASE kind = "Leave"
  <2>1. a \in LeaveOffers(p) /\ (Hr(p) \/ boss = p)
    BY <1>1, <1>2 DEF Offered, Visible
  <2>2. CASE row.status = "CancellationPending"
    BY <1>1, <1>2, <2>1, <2>2 DEF LeaveOffers, Accepts, LeaveAccepts, Hr, May, Proprietor
  <2>3. CASE row.status # "CancellationPending"
    <3>1. \/ a = "approve" /\ row.status = "Submitted" /\ boss = p
          \/ a = "approve" /\ row.status = "ManagerApproved" /\ Hr(p)
          \/ a \in {"reject", "return"} /\ row.status \in {"Submitted", "ManagerApproved"}
          \/ a = "override" /\ Proprietor(p)
              /\ row.status \in {"Draft", "Submitted", "ManagerApproved", "Returned"}
      BY <2>1, <2>3 DEF LeaveOffers
    <3>2. CASE a = "approve" /\ row.status = "Submitted" /\ boss = p
      BY <1>1, <1>2, <3>2 DEF Accepts, LeaveAccepts
    <3>3. CASE a = "approve" /\ row.status = "ManagerApproved" /\ Hr(p)
      BY <1>1, <1>2, <3>3 DEF Accepts, LeaveAccepts
    <3>4. CASE a \in {"reject", "return"} /\ row.status \in {"Submitted", "ManagerApproved"}
      BY <1>1, <1>2, <2>1, <3>4 DEF Accepts, LeaveAccepts
    <3>5. CASE a = "override" /\ Proprietor(p)
               /\ row.status \in {"Draft", "Submitted", "ManagerApproved", "Returned"}
      BY <1>1, <1>2, <2>1, <3>5 DEF Accepts, LeaveAccepts
    <3> QED BY <3>1, <3>2, <3>3, <3>4, <3>5
  <2> QED BY <2>2, <2>3
<1>3. CASE kind = "Contracts"
  BY <1>1, <1>3 DEF Offered, ContractOffers, Accepts, ContractAccepts
<1>4. CASE kind = "Transfers"
  <2>1. \/ a = "approve" /\ row.status = "Submitted" /\ May(p, "review")
        \/ a = "approve" /\ row.status = "Reviewed" /\ Proprietor(p)
        \/ a \in {"reject", "return"} /\ row.status \in {"Submitted", "Reviewed"} /\ May(p, "return")
    BY <1>1, <1>4 DEF Offered, TransferOffers
  <2>2. CASE a = "approve" /\ row.status = "Submitted" /\ May(p, "review")
    BY <1>1, <1>4, <2>2 DEF Accepts, TransferAccepts
  <2>3. CASE a = "approve" /\ row.status = "Reviewed" /\ Proprietor(p)
    BY <1>1, <1>4, <2>3 DEF Accepts, TransferAccepts
  <2>4. CASE a \in {"reject", "return"} /\ May(p, "return")
    BY <1>1, <1>4, <2>1, <2>4 DEF Accepts, TransferAccepts
  <2> QED BY <2>1, <2>2, <2>3, <2>4
<1>5. CASE kind = "Exit"
  <2>1. \/ a = "approve" /\ row.status = "Submitted" /\ May(p, "review")
        \/ a = "approve" /\ row.status = "ReadyToClose" /\ Proprietor(p)
        \/ a \in {"reject", "return"} /\ row.status = "Submitted" /\ May(p, "return")
    BY <1>1, <1>5 DEF Offered, ExitOffers
  <2>2. CASE a = "approve" /\ row.status = "Submitted" /\ May(p, "review")
    BY <1>1, <1>5, <2>2 DEF Accepts, ExitAccepts
  <2>3. CASE a = "approve" /\ row.status = "ReadyToClose" /\ Proprietor(p)
    BY <1>1, <1>5, <2>3 DEF Accepts, ExitAccepts
  <2>4. CASE a \in {"reject", "return"} /\ May(p, "return")
    BY <1>1, <1>5, <2>1, <2>4 DEF Accepts, ExitAccepts
  <2> QED BY <2>1, <2>2, <2>3, <2>4
<1> QED BY <1>1, <1>2, <1>3, <1>4, <1>5

\* Nothing but decisions is offered.
LEMMA OfferedDecision ==
  ASSUME NEW p \in Deciders PROVE Offered(p) \subseteq Decision
  BY DEF Offered, LeaveOffers, ContractOffers, TransferOffers, ExitOffers, Decision

\* An accepted decision leaves the row in a status of its module.
LEMMA DecidedType ==
  ASSUME ApprovalInv, NEW p \in Deciders, NEW a \in Decision, NEW seen, Accepts(p, a, seen)
  PROVE  AfterDecision(p, a) \in [status: Stages(kind), consent: BOOLEAN]
<1>1. kind \in {"Leave", "Contracts", "Transfers", "Exit"} /\ row.status \in Stages(kind)
  BY ApprovalAssumption DEF ApprovalInv, ApprovalTypeOK
<1>2. CASE kind = "Leave"
  BY <1>1, <1>2 DEF Accepts, LeaveAccepts, Decided, Stages, AfterDecision, Decision
<1>3. CASE kind = "Contracts"
  BY <1>1, <1>3 DEF Accepts, ContractAccepts, Decided, Stages, AfterDecision, Decision
<1>4. CASE kind = "Transfers"
  BY <1>1, <1>4 DEF Accepts, TransferAccepts, Decided, Stages, AfterDecision, Decision
<1>5. CASE kind = "Exit"
  BY <1>1, <1>5 DEF Accepts, ExitAccepts, Decided, Stages, AfterDecision, Decision
<1> QED BY <1>1, <1>2, <1>3, <1>4, <1>5

\* A write of the row ends no choice and outdates all.
LEMMA OutdateFacts ==
  ASSUME ApprovalInv
  PROVE  /\ Outdate \in [Deciders -> Choice \cup {Empty}]
         /\ \A q \in Deciders : /\ Outdate[q] = Empty <=> choice[q] = Empty
                                /\ Outdate[q] # Empty => ~Outdate[q].current
<1>1. ASSUME NEW q \in Deciders, choice[q] # Empty
      PROVE  [choice[q] EXCEPT !.current = FALSE] \in Choice /\ ~[choice[q] EXCEPT !.current = FALSE].current
  <2>1. choice[q] \in Choice BY <1>1 DEF ApprovalInv, ApprovalTypeOK
  <2> QED BY <2>1 DEF Choice
<1> QED BY <1>1, ApprovalAssumption DEF Outdate

LEMMA ChooseInv ==
  ASSUME ApprovalInv, NEW p \in Deciders, NEW a \in Decision, Choose(p, a)
  PROVE  ApprovalInv' /\ DecidedRightly
<1>1. PICK c : c = [action |-> a, status |-> row.status, current |-> TRUE]
  OBVIOUS
<1>2. c \in Choice /\ c.current /\ c.status = row.status
  BY <1>1 DEF Choice, ApprovalInv, ApprovalTypeOK
<1>3. choice' = [choice EXCEPT ![p] = c] /\ UNCHANGED <<kind, requester, row, boss>> /\ p \notin {Subject, requester}
  BY <1>1 DEF Choose, Offered
<1>4. ApprovalInv' BY <1>2, <1>3 DEF ApprovalInv, ApprovalTypeOK
<1>5. DecidedRightly BY <1>3, OfferedAccepted DEF DecidedRightly
<1> QED BY <1>4, <1>5

LEMMA CarryInv ==
  ASSUME ApprovalInv, NEW p \in Deciders, Carry(p)
  PROVE  ApprovalInv' /\ DecidedRightly
<1>1. PICK a, seen : a = choice[p].action /\ seen = choice[p].status
  OBVIOUS
<1>2. /\ choice[p] # Empty /\ choice[p].current /\ Accepts(p, a, seen) /\ row' = AfterDecision(p, a)
      /\ choice' = [Outdate EXCEPT ![p] = Empty] /\ UNCHANGED <<kind, requester, boss>>
  BY <1>1 DEF Carry
<1>3. a \in Decision /\ row.status = seen /\ p \notin {Subject, requester}
  BY <1>1, <1>2 DEF ApprovalInv, ApprovalTypeOK, Choice
<1>4. row' \in [status: Stages(kind), consent: BOOLEAN] /\ row'.status = Decided(p, a)
  BY <1>2, <1>3, DecidedType DEF AfterDecision
<1>5. /\ choice' \in [Deciders -> Choice \cup {Empty}]
      /\ \A q \in Deciders : q # p => /\ choice'[q] = Empty <=> choice[q] = Empty
                                      /\ choice'[q] # Empty => ~choice'[q].current
      /\ choice'[p] = Empty
  BY <1>2, OutdateFacts
<1>6. ApprovalTypeOK' BY <1>2, <1>4, <1>5 DEF ApprovalInv, ApprovalTypeOK
<1>7. ApprovalInv' BY <1>2, <1>5, <1>6 DEF ApprovalInv
<1>8. kind = "Leave" /\ ~Hr(p) => boss = p
  BY <1>2 DEF Accepts, LeaveAccepts
<1>9. DecidedRightly
  BY <1>1, <1>3, <1>4, <1>5, <1>8, OfferedAccepted DEF DecidedRightly
<1> QED BY <1>7, <1>9

\* A write of the row by the module itself.
LEMMA WriteInv ==
  ASSUME ApprovalInv, row' \in [status: Stages(kind), consent: BOOLEAN], choice' = Outdate,
         UNCHANGED <<kind, requester, boss>>
  PROVE  ApprovalInv' /\ DecidedRightly
<1>1. ApprovalTypeOK' BY OutdateFacts DEF ApprovalInv, ApprovalTypeOK
<1>2. ApprovalInv' BY <1>1, OutdateFacts DEF ApprovalInv
<1>3. DecidedRightly BY OutdateFacts, OfferedAccepted DEF DecidedRightly
<1> QED BY <1>2, <1>3

LEMMA MoveOnInv ==
  ASSUME ApprovalInv, MoveOn
  PROVE  ApprovalInv' /\ DecidedRightly
<1>1. /\ kind \in {"Leave", "Contracts", "Transfers", "Exit"} /\ row.status \in Stages(kind)
  BY ApprovalAssumption DEF ApprovalInv, ApprovalTypeOK
<1>2. Successors \subseteq Stages(kind)
  BY <1>1 DEF Successors, Stages
<1> QED BY <1>2, WriteInv DEF MoveOn

LEMMA ApprovalNextInv ==
  ASSUME ApprovalInv, [ApprovalNext]_approvalVars
  PROVE  ApprovalInv' /\ DecidedRightly
<1>1. ASSUME NEW p \in Deciders, NEW a \in Decision, DecideThere(p, a) PROVE ApprovalInv' /\ DecidedRightly
  BY <1>1, DecidedType, WriteInv DEF DecideThere
<1>2. ASSUME NEW p \in Deciders, Refuse(p) PROVE ApprovalInv' /\ DecidedRightly
  BY <1>2, OfferedAccepted DEF Refuse, ApprovalInv, ApprovalTypeOK, DecidedRightly
<1>3. ASSUME NEW m \in Deciders \cup {Empty}, ChangeBoss(m) PROVE ApprovalInv' /\ DecidedRightly
  BY <1>3, OfferedAccepted DEF ChangeBoss, ApprovalInv, ApprovalTypeOK, DecidedRightly
<1>4. CASE UNCHANGED approvalVars
  BY <1>4, OfferedAccepted DEF approvalVars, ApprovalInv, ApprovalTypeOK, DecidedRightly
<1> QED BY <1>1, <1>2, <1>3, <1>4, ChooseInv, CarryInv, MoveOnInv DEF ApprovalNext

\* Who has a decision under way is neither the employee nor the requester, and the
\* row is as he saw it unless the decision is marked outdated (decide).
THEOREM ApprovalInvariance == ApprovalSpec => []ApprovalInv
<1>1. ApprovalInit => ApprovalInv
  <2> SUFFICES ASSUME ApprovalInit PROVE ApprovalInv OBVIOUS
  <2>1. kind \in {"Leave", "Contracts", "Transfers", "Exit"}
    BY ApprovalAssumption DEF ApprovalInit
  <2>2. "Draft" \in Stages(kind) BY <2>1 DEF Stages
  <2> QED BY <2>2 DEF ApprovalInit, ApprovalInv, ApprovalTypeOK
<1>2. ApprovalInv /\ [ApprovalNext]_approvalVars => ApprovalInv'
  BY ApprovalNextInv
<1> QED BY <1>1, <1>2, PTL DEF ApprovalSpec

\* DecidedAsSeen holds for any number of deciders: in every reachable state the
\* service accepts all that the Approval Centre offers, and a decision takes the row
\* from the status that was shown to the one that was announced, by somebody who may.
THEOREM DecidedAsSeenHolds == ApprovalSpec => DecidedAsSeen
<1>1. ApprovalInv /\ [ApprovalNext]_approvalVars => DecidedRightly
  BY ApprovalNextInv
<1> QED BY <1>1, ApprovalInvariance, PTL DEF ApprovalSpec, DecidedAsSeen
=============================================================================
