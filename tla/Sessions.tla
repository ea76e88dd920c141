------------------------------- MODULE Sessions -------------------------------
(***************************************************************************)
(* Authentication of one user (identity/auth_service.py,                     *)
(* session_management.py, api/v1/auth.py, user_types_service.py): login with *)
(* one or two factors, lockout, one-time links, and everything that ends     *)
(* sessions.                                                                 *)
(*                                                                           *)
(* Concurrency.  A login, an MFA answer and the use of a link lock the       *)
(* user's row before they read it; a request with rowLock = r has read and   *)
(* not yet committed.  An UPDATE of the user waits for that lock; changes of *)
(* the user type and logouts do not touch the row.  A request presents a     *)
(* session in two steps: it is looked up, and touched again at the end.      *)
(***************************************************************************)
EXTENDS Naturals

CONSTANTS
  Tokens,       \* tokens of sessions, of MFA challenges and of links
  Clients,      \* concurrent requests
  Limit,        \* FAILED_LOGIN_LIMIT
  NoClient

ASSUME SessionsAssumption == Limit \in Nat \ {0} /\ NoClient \notin Clients

VARIABLES
  status,       \* account_status
  typeActive,   \* the user's type is active
  typed,        \* the type is one that may set a password (assigned, not PENDING)
  password,     \* a password is set
  failures,     \* failed_login_count
  locked,       \* locked_until lies in the future
  mfa,          \* [on: mfa_enabled, secret: an mfa_secret is stored]
  sessions,     \* tokens of the Session rows
  pending,      \* tokens of the unused one-time tokens, by purpose
  rowLock,
  client,       \* client[r]: what request r has read
  wrong         \* wrong answers since the last right one, lockout or unlock

sessionsVars == <<status, typeActive, typed, password, failures, locked, mfa, sessions,
                  pending, rowLock, client, wrong>>
userVars == <<status, password, failures, locked, mfa>>
typeVars == <<typeActive, typed>>

Purposes == {"setup", "reset", "mfa_login"}
AccountStatuses == {"pending", "active", "deactivated"}
NoRead == [op |-> "none"]
Reads ==
  [op: {"login"}, ok: BOOLEAN, typeOK: BOOLEAN, mfa: [on: BOOLEAN, secret: BOOLEAN]]
    \cup [op: {"mfa"}, ok: BOOLEAN, token: Tokens]
    \cup [op: {"present"}, token: Tokens]
    \cup [op: {"confirm"}]

SessionsTypeOK ==
  /\ status \in AccountStatuses
  /\ typeActive \in BOOLEAN /\ typed \in BOOLEAN
  /\ password \in BOOLEAN /\ locked \in BOOLEAN
  /\ failures \in 0..Limit - 1
  /\ mfa \in [on: BOOLEAN, secret: BOOLEAN]
  /\ sessions \subseteq Tokens
  /\ pending \in [Purposes -> SUBSET Tokens]
  /\ rowLock \in Clients \cup {NoClient}
  /\ client \in [Clients -> Reads \cup {NoRead}]
  /\ wrong \in Nat

SessionsInit ==
  /\ status = "pending" /\ typeActive = TRUE /\ typed = FALSE /\ password = FALSE
  /\ failures = 0 /\ locked = FALSE /\ mfa = [on |-> FALSE, secret |-> FALSE]
  /\ sessions = {} /\ pending = [p \in Purposes |-> {}]
  /\ rowLock = NoClient /\ client = [r \in Clients |-> NoRead]
  /\ wrong = 0

-----------------------------------------------------------------------------
\* A token nobody holds: new_token().
Fresh(t) ==
  /\ t \notin sessions /\ \A p \in Purposes : t \notin pending[p]
  /\ \A r \in Clients : client[r].op \in {"mfa", "present"} => client[r].token # t

Unlocked == rowLock = NoClient

LockRow(r, read) ==
  /\ Unlocked /\ client[r] = NoRead
  /\ rowLock' = r
  /\ client' = [client EXCEPT ![r] = read]

\* The transaction ends and gives the row back.
EndRequest(r) ==
  /\ rowLock' = NoClient
  /\ client' = [client EXCEPT ![r] = NoRead]

\* terminate_sessions: every row it finds.
TerminateSessions == sessions' = {}

\* _record_auth_failure: the budget spans both factors and all challenges.
RecordFailure ==
  IF failures + 1 >= Limit
  THEN /\ failures' = 0 /\ locked' = TRUE /\ wrong' = 0
       /\ TerminateSessions
       /\ pending' = [pending EXCEPT !["mfa_login"] = {}]
  ELSE /\ failures' = failures + 1 /\ wrong' = wrong + 1
       /\ UNCHANGED <<locked, sessions, pending>>

\* create_session: the user's other sessions end.
CreateSession(t) ==
  /\ Fresh(t)
  /\ sessions' = {t}
  /\ failures' = 0 /\ locked' = FALSE /\ wrong' = 0

-----------------------------------------------------------------------------
\* Mutant: the row is read without a lock.
LoginUnlocked(r, right) ==
  /\ ~locked /\ client[r] = NoRead
  /\ client' = [client EXCEPT ![r] =
       [op |-> "login", ok |-> right /\ status = "active" /\ password,
        typeOK |-> typeActive, mfa |-> mfa]]
  /\ UNCHANGED <<userVars, typeVars, sessions, pending, wrong, rowLock>>

\* login, up to the password: refused at once while the account is locked.
Login(r, right) ==
  /\ ~locked
  /\ LockRow(r, [op |-> "login", ok |-> right /\ status = "active" /\ password,
                 typeOK |-> typeActive, mfa |-> mfa])
  /\ UNCHANGED <<userVars, typeVars, sessions, pending, wrong>>

LoginFails(r) ==
  /\ client[r].op = "login" /\ ~client[r].ok
  /\ RecordFailure
  /\ EndRequest(r)
  /\ UNCHANGED <<typeVars, status, password, mfa>>

\* An inactive type, or MFA without a secret: refused without a failure.
LoginRefused(r) ==
  /\ client[r].op = "login" /\ client[r].ok
  /\ ~client[r].typeOK \/ (client[r].mfa.on /\ ~client[r].mfa.secret)
  /\ EndRequest(r)
  /\ UNCHANGED <<userVars, typeVars, sessions, pending, wrong>>

\* Mutant: a new challenge grants a new budget.
ChallengeAnew(r, t) ==
  /\ client[r].op = "login" /\ client[r].ok /\ client[r].typeOK
  /\ client[r].mfa = [on |-> TRUE, secret |-> TRUE]
  /\ Fresh(t)
  /\ pending' = [pending EXCEPT !["mfa_login"] = @ \cup {t}]
  /\ failures' = 0
  /\ EndRequest(r)
  /\ UNCHANGED <<status, password, locked, mfa, typeVars, sessions, wrong>>

\* The second factor is asked for; the failures so far still count.
Challenge(r, t) ==
  /\ client[r].op = "login" /\ client[r].ok /\ client[r].typeOK
  /\ client[r].mfa = [on |-> TRUE, secret |-> TRUE]
  /\ Fresh(t)
  /\ pending' = [pending EXCEPT !["mfa_login"] = @ \cup {t}]
  /\ EndRequest(r)
  /\ UNCHANGED <<userVars, typeVars, sessions, wrong>>

LoginSucceeds(r, t) ==
  /\ client[r].op = "login" /\ client[r].ok /\ client[r].typeOK /\ ~client[r].mfa.on
  /\ CreateSession(t)
  /\ EndRequest(r)
  /\ UNCHANGED <<typeVars, status, password, mfa, pending>>

\* complete_mfa_login, up to the code: account first, challenge second.
AnswerChallenge(r, t, right) ==
  /\ t \in pending["mfa_login"]
  /\ mfa = [on |-> TRUE, secret |-> TRUE] /\ ~locked /\ status = "active" /\ typeActive
  /\ LockRow(r, [op |-> "mfa", ok |-> right, token |-> t])
  /\ UNCHANGED <<userVars, typeVars, sessions, pending, wrong>>

AnswerWrong(r) ==
  /\ client[r].op = "mfa" /\ ~client[r].ok
  /\ RecordFailure
  /\ EndRequest(r)
  /\ UNCHANGED <<typeVars, status, password, mfa>>

AnswerRight(r, t) ==
  /\ client[r].op = "mfa" /\ client[r].ok
  /\ pending' = [pending EXCEPT !["mfa_login"] = @ \ {client[r].token}]
  /\ CreateSession(t)
  /\ EndRequest(r)
  /\ UNCHANGED <<typeVars, status, password, mfa>>

-----------------------------------------------------------------------------
\* resolve_session, up to the checks of the user.
Present(r, t) ==
  /\ client[r] = NoRead /\ t \in sessions
  /\ status = "active" /\ typeActive
  /\ client' = [client EXCEPT ![r] = [op |-> "present", token |-> t]]
  /\ UNCHANGED <<userVars, typeVars, sessions, pending, rowLock, wrong>>

\* Expired, idle, or of an inactive type: the row is deleted.
Expire(t) ==
  /\ t \in sessions
  /\ sessions' = sessions \ {t}
  /\ UNCHANGED <<userVars, typeVars, pending, rowLock, client, wrong>>

\* The session is touched if it still exists, and only then is the request served.
Serve(r) ==
  /\ client[r].op = "present" /\ client[r].token \in sessions
  /\ client' = [client EXCEPT ![r] = NoRead]
  /\ UNCHANGED <<userVars, typeVars, sessions, pending, rowLock, wrong>>

TurnAway(r) ==
  /\ client[r].op = "present" /\ client[r].token \notin sessions
  /\ client' = [client EXCEPT ![r] = NoRead]
  /\ UNCHANGED <<userVars, typeVars, sessions, pending, rowLock, wrong>>

Logout ==
  /\ sessions # {} /\ TerminateSessions
  /\ UNCHANGED <<userVars, typeVars, pending, rowLock, client, wrong>>

\* terminate_user_sessions, by an administrator.
TerminateUserSessions ==
  /\ TerminateSessions
  /\ UNCHANGED <<userVars, typeVars, pending, rowLock, client, wrong>>

-----------------------------------------------------------------------------
\* setup_link and reset_link.
SetupLink(t) ==
  /\ status \in {"pending", "active"} /\ ~password /\ typed /\ typeActive
  /\ Fresh(t)
  /\ pending' = [pending EXCEPT !["setup"] = @ \cup {t}]
  /\ UNCHANGED <<userVars, typeVars, sessions, rowLock, client, wrong>>

ResetLink(t) ==
  /\ Fresh(t)
  /\ pending' = [pending EXCEPT !["reset"] = @ \cup {t}]
  /\ UNCHANGED <<userVars, typeVars, sessions, rowLock, client, wrong>>

\* consume_password_token: a link works once; the lockout ends with it.
ConsumeLink(purpose, t) ==
  /\ Unlocked /\ t \in pending[purpose]
  /\ IF purpose = "setup"
     THEN /\ ~password /\ status # "deactivated" /\ typed /\ typeActive
          /\ status' = "active"
     ELSE UNCHANGED status
  /\ password' = TRUE /\ failures' = 0 /\ locked' = FALSE /\ wrong' = 0
  /\ pending' = [pending EXCEPT ![purpose] = @ \ {t}]
  /\ TerminateSessions
  /\ UNCHANGED <<typeVars, mfa, rowLock, client>>

\* A one-time token lapses.
TokenLapses(purpose, t) ==
  /\ t \in pending[purpose]
  /\ pending' = [pending EXCEPT ![purpose] = @ \ {t}]
  /\ UNCHANGED <<userVars, typeVars, sessions, rowLock, client, wrong>>

MfaSetup ==
  /\ Unlocked /\ sessions # {}
  /\ mfa' = [on |-> FALSE, secret |-> TRUE]
  /\ UNCHANGED <<status, password, failures, locked, typeVars, sessions, pending, rowLock, client, wrong>>

\* mfa_confirm: decided on a copy of the user that may be older than a disable.
StartConfirm(r) ==
  /\ client[r] = NoRead /\ sessions # {} /\ mfa.secret
  /\ client' = [client EXCEPT ![r] = [op |-> "confirm"]]
  /\ UNCHANGED <<userVars, typeVars, sessions, pending, rowLock, wrong>>

MfaConfirm(r) ==
  /\ Unlocked /\ client[r].op = "confirm"
  /\ mfa' = [mfa EXCEPT !.on = TRUE]
  /\ client' = [client EXCEPT ![r] = NoRead]
  /\ UNCHANGED <<status, password, failures, locked, typeVars, sessions, pending, rowLock, wrong>>

MfaDisable ==
  /\ Unlocked /\ sessions # {}
  /\ mfa' = [on |-> FALSE, secret |-> FALSE]
  /\ UNCHANGED <<status, password, failures, locked, typeVars, sessions, pending, rowLock, client, wrong>>

-----------------------------------------------------------------------------
\* set_account_status, and an employment status that deactivates (update_user).
ChangeAccount(to) ==
  /\ Unlocked
  /\ status' = to
  /\ IF to = "deactivated" THEN TerminateSessions ELSE UNCHANGED sessions
  /\ UNCHANGED <<password, failures, locked, mfa, typeVars, pending, rowLock, client, wrong>>

\* assign_user_type.
AssignUserType ==
  /\ Unlocked
  /\ \E t, a \in BOOLEAN : typed' = t /\ typeActive' = a
  /\ TerminateSessions
  /\ UNCHANGED <<userVars, pending, rowLock, client, wrong>>

\* unlock_user.
UnlockUser ==
  /\ Unlocked
  /\ locked' = FALSE /\ failures' = 0 /\ wrong' = 0
  /\ UNCHANGED <<status, password, mfa, typeVars, sessions, pending, rowLock, client>>

\* The lockout has lasted lockout_minutes.
LockoutEnds ==
  /\ locked /\ locked' = FALSE
  /\ UNCHANGED <<status, password, failures, mfa, typeVars, sessions, pending, rowLock, client, wrong>>

\* set_user_type_status: the sessions of its users end.
SetUserTypeStatus(active) ==
  /\ typeActive' = active
  /\ TerminateSessions
  /\ UNCHANGED <<userVars, typed, pending, rowLock, client, wrong>>

\* Other changes of what the type may do or see.
TypeChanged ==
  /\ TerminateSessions
  /\ UNCHANGED <<userVars, typeVars, pending, rowLock, client, wrong>>
AssignPermissions == TypeChanged
AssignScope == TypeChanged
AssignCustomerScope == TypeChanged
AssignApplicationScope == TypeChanged
AssignReportingScope == TypeChanged

SessionsNext ==
  \/ \E r \in Clients, right \in BOOLEAN : Login(r, right)
  \/ \E r \in Clients, t \in Tokens, right \in BOOLEAN : AnswerChallenge(r, t, right)
  \/ \E r \in Clients, t \in Tokens :
       Challenge(r, t) \/ LoginSucceeds(r, t) \/ AnswerRight(r, t) \/ Present(r, t)
  \/ \E r \in Clients : LoginFails(r) \/ LoginRefused(r) \/ AnswerWrong(r) \/ Serve(r) \/ TurnAway(r)
                         \/ StartConfirm(r) \/ MfaConfirm(r)
  \/ \E t \in Tokens : Expire(t) \/ SetupLink(t) \/ ResetLink(t)
  \/ \E p \in Purposes, t \in Tokens : TokenLapses(p, t)
  \/ \E p \in {"setup", "reset"}, t \in Tokens : ConsumeLink(p, t)
  \/ \E to \in {"active", "deactivated"} : ChangeAccount(to)
  \/ \E active \in BOOLEAN : SetUserTypeStatus(active)
  \/ Logout \/ TerminateUserSessions \/ MfaSetup \/ MfaDisable
  \/ AssignUserType \/ UnlockUser \/ LockoutEnds
  \/ AssignPermissions \/ AssignScope \/ AssignCustomerScope \/ AssignApplicationScope
  \/ AssignReportingScope

SessionsSpec == SessionsInit /\ [][SessionsNext]_sessionsVars

-----------------------------------------------------------------------------
\* The user has one session at most, and none while the account is locked out,
\* deactivated or not yet set up: a login that had read the row before such a
\* change is not left with a session (create_session, terminate_sessions and the
\* row lock of login).
SessionsAllowed ==
  /\ \A s, t \in sessions : s = t
  /\ sessions # {} => status = "active" /\ ~locked

\* However passwords, codes and new challenges alternate and overlap, fewer than
\* FAILED_LOGIN_LIMIT wrong answers in a row are given without a lockout
\* (_record_auth_failure).
BudgetKept == wrong < Limit
=============================================================================
