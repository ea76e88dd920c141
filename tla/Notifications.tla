---------------------------- MODULE Notifications -----------------------------
(***************************************************************************)
(* The Notification Center (notifications/service.py) and the reminders of   *)
(* one official holiday that feed it (attendance/service.py): a rule, one    *)
(* source event under it, one urgent broadcast, and any number of people who *)
(* list and dismiss the reminders.                                           *)
(*                                                                           *)
(* Concurrency.  list_reminders commits the automatic reminder and then, in a *)
(* second transaction, reads the rows, then the recipients, and inserts ON    *)
(* CONFLICT DO NOTHING, while reminders are sent and dismissed.  All urgent  *)
(* reminders of a holiday share one notification.                            *)
(***************************************************************************)
EXTENDS Naturals, Sequences

CONSTANTS
  Recipients,       \* employees
  Scope,            \* those the creator of the rule may see
  MaxReminders      \* bound on the reminders of the holiday

ASSUME NotificationsAssumption == Scope \subseteq Recipients /\ MaxReminders \in Nat

VARIABLES
  eligible,      \* active, with an active User Type and Notifications.View
  near,          \* the holiday is within seven days
  posted,        \* HolidayReminder rows, oldest first, by kind
  dismissed,     \* dismissed[u]: HolidayReminderDismissal rows
  delivery,      \* delivery[n][u]: NotificationDelivery of a notification
  listing,       \* listing[u]: the reminder the list_reminders of u has read, or 0
  entitled,      \* who was shown which reminder, while eligible and not having dismissed it
  rule, asks, acknowledged

notificationsVars == <<eligible, near, posted, dismissed, delivery, listing, entitled,
                       rule, asks, acknowledged>>
reminderRows == <<posted, dismissed, listing, entitled>>
ruleRows == <<rule, asks, acknowledged>>

Kinds == {"automatic", "urgent"}
Notes == Kinds \cup {"event", "broadcast"}
Reminders == 1 .. MaxReminders
NoRule == [status |-> "absent", targets |-> {}, asks |-> FALSE]

NotificationsTypeOK ==
  /\ eligible \subseteq Recipients /\ near \in BOOLEAN
  /\ posted \in Seq(Kinds) /\ Len(posted) <= MaxReminders
  /\ dismissed \in [Recipients -> SUBSET Reminders]
  /\ delivery \in [Notes -> [Recipients -> {"none", "unread", "read"}]]
  /\ listing \in [Recipients -> Reminders \cup {0}]
  /\ entitled \subseteq Recipients \X Reminders
  /\ rule.status \in {"absent", "draft", "active", "inactive"} /\ rule.targets \subseteq Recipients
  /\ asks \subseteq Notes /\ acknowledged \subseteq Recipients \X Notes

NotificationsInit ==
  /\ eligible = Recipients /\ near = FALSE /\ posted = << >>
  /\ dismissed = [u \in Recipients |-> {}]
  /\ delivery = [n \in Notes |-> [u \in Recipients |-> "none"]]
  /\ listing = [u \in Recipients |-> 0]
  /\ entitled = {} /\ rule = NoRule /\ asks = {} /\ acknowledged = {}

-----------------------------------------------------------------------------
\* Mutant: a delivery that exists is delivered anew.
PersistAnew(n, to, d) ==
  [d EXCEPT ![n] = [u \in Recipients |-> IF u \in to THEN "unread" ELSE d[n][u]]]

\* _persist_notification: one notification per key, one delivery per recipient.
Persist(n, to, d) ==
  [d EXCEPT ![n] = [u \in Recipients |-> IF u \in to /\ d[n][u] = "none" THEN "unread" ELSE d[n][u]]]

Read(n, who, d) ==
  [d EXCEPT ![n] = [u \in Recipients |-> IF u \in who /\ d[n][u] = "unread" THEN "read" ELSE d[n][u]]]

\* dispatch_holiday_reminder: an urgent one supersedes what is unread of the
\* automatic one; without recipients nothing happens.
DispatchHoliday(kind, to, d) ==
  IF to = {} THEN d
  ELSE IF kind = "urgent" THEN Read("automatic", Recipients, Persist(kind, to, d))
  ELSE Persist(kind, to, d)

\* The reminders u has not dismissed; of each holiday the newest is listed.
Listed(u) ==
  {i \in DOMAIN posted' : i \notin dismissed[u] /\ (near \/ posted'[i] = "urgent")}

\* list_reminders: ensure_automatic_reminders, then the rows.
BeginList(u) ==
  LET due == near /\ \A i \in DOMAIN posted : posted[i] # "automatic" IN
  /\ listing[u] = 0 /\ (due => Len(posted) < MaxReminders)
  /\ posted' = IF due THEN Append(posted, "automatic") ELSE posted
  /\ delivery' = IF due THEN DispatchHoliday("automatic", eligible, delivery) ELSE delivery
  /\ Listed(u) # {}
  /\ listing' = [listing EXCEPT ![u] =
       CHOOSE i \in Listed(u) : \A j \in Listed(u) : j <= i]
  /\ UNCHANGED <<eligible, near, dismissed, entitled, ruleRows>>

\* What is listed is dispatched again, to those who became eligible since.
CommitList(u) ==
  /\ listing[u] # 0
  /\ delivery' = DispatchHoliday(posted[listing[u]], eligible, delivery)
  /\ entitled' = IF u \in eligible /\ listing[u] \notin dismissed[u]
                 THEN entitled \cup {<<u, listing[u]>>} ELSE entitled
  /\ listing' = [listing EXCEPT ![u] = 0]
  /\ UNCHANGED <<eligible, near, posted, dismissed, ruleRows>>

\* The second transaction is lost; the first stays.
LoseList(u) ==
  /\ listing[u] # 0
  /\ listing' = [listing EXCEPT ![u] = 0]
  /\ UNCHANGED <<eligible, near, posted, dismissed, delivery, entitled, ruleRows>>

\* send_urgent_reminder
SendUrgentReminder ==
  /\ Len(posted) < MaxReminders
  /\ posted' = Append(posted, "urgent")
  /\ delivery' = DispatchHoliday("urgent", eligible, delivery)
  /\ UNCHANGED <<eligible, near, dismissed, listing, entitled, ruleRows>>

\* dismiss_reminder, mark_holiday_reminder_read.
DismissReminder(u, i) ==
  /\ dismissed' = [dismissed EXCEPT ![u] = @ \cup {i}]
  /\ delivery' = Read(posted[i], {u}, delivery)
  /\ UNCHANGED <<eligible, near, posted, listing, entitled, ruleRows>>

\* The holiday comes within seven days.
HolidayNears ==
  /\ ~near /\ near' = TRUE
  /\ UNCHANGED <<eligible, delivery, reminderRows, ruleRows>>

\* An account, a User Type or its permissions change.
ChangeEligibility(u) ==
  /\ eligible' = IF u \in eligible THEN eligible \ {u} ELSE eligible \cup {u}
  /\ UNCHANGED <<near, delivery, reminderRows, ruleRows>>

-----------------------------------------------------------------------------
\* mark_read, mark_all_read
MarkRead(u, n) ==
  /\ delivery[n][u] = "unread"
  /\ delivery' = Read(n, {u}, delivery)
  /\ UNCHANGED <<eligible, near, reminderRows, ruleRows>>

MarkAllRead(u) ==
  /\ delivery' = [n \in Notes |-> Read(n, {u}, delivery)[n]]
  /\ UNCHANGED <<eligible, near, reminderRows, ruleRows>>

\* acknowledge: once, and only what asks for it.
Acknowledge(u, n) ==
  /\ delivery[n][u] # "none" /\ n \in asks /\ <<u, n>> \notin acknowledged
  /\ acknowledged' = acknowledged \cup {<<u, n>>}
  /\ UNCHANGED <<eligible, near, delivery, reminderRows, rule, asks>>

\* create_rule, update_rule: a draft, or a rule in any state with new targets.
SaveRule(targets, ack) ==
  /\ rule' = [status |-> IF rule.status = "absent" THEN "draft" ELSE rule.status,
              targets |-> targets, asks |-> ack]
  /\ UNCHANGED <<eligible, near, delivery, reminderRows, asks, acknowledged>>

\* set_rule_status
SetRuleStatus(to) ==
  /\ rule.status \notin {"absent", to}
  /\ rule' = [rule EXCEPT !.status = to]
  /\ UNCHANGED <<eligible, near, delivery, reminderRows, asks, acknowledged>>

Notify(n, to, ack) ==
  /\ \A u \in Recipients : delivery[n][u] = "none"
  /\ delivery' = Persist(n, to, delivery)
  /\ asks' = IF ack /\ to # {} THEN asks \cup {n} ELSE asks
  /\ UNCHANGED <<eligible, near, reminderRows, rule, acknowledged>>

\* dispatch_source_event, in the transaction of the source: by the active rule,
\* within what its creator may see.
DispatchSourceEvent ==
  /\ rule.status = "active"
  /\ Notify("event", rule.targets \cap eligible \cap Scope, rule.asks)

\* send_urgent: somebody eligible must be reached.
SendUrgent(targets, ack) ==
  /\ targets \cap eligible # {}
  /\ Notify("broadcast", targets \cap eligible, ack)

ReminderNext ==
  \/ SendUrgentReminder \/ HolidayNears
  \/ \E u \in Recipients :
       \/ BeginList(u) \/ CommitList(u) \/ LoseList(u)
       \/ ChangeEligibility(u)
       \/ \E i \in DOMAIN posted : DismissReminder(u, i)

RuleNext ==
  \/ \E targets \in SUBSET Recipients \ {{}}, ack \in BOOLEAN :
       SaveRule(targets, ack) \/ SendUrgent(targets, ack)
  \/ \E to \in {"active", "inactive"} : SetRuleStatus(to)
  \/ DispatchSourceEvent
  \/ \E u \in Recipients :
       \/ ChangeEligibility(u) \/ MarkAllRead(u)
       \/ \E n \in Notes : MarkRead(u, n) \/ Acknowledge(u, n)

NotificationsNext == ReminderNext \/ RuleNext

NotificationsSpec == NotificationsInit /\ [][NotificationsNext]_notificationsVars

-----------------------------------------------------------------------------
\* The reminders and the Notification Center agree: a reminder that somebody
\* eligible has been shown has been delivered to him, and once he then
\* dismisses it it is never unread again, however often it is listed and dispatched anew
\* (docs/notifications.md "Dismissing an Attendance reminder marks the
\* corresponding Notification Center delivery read").
RemindersAgree ==
  \A u \in Recipients, i \in DOMAIN posted : <<u, i>> \in entitled =>
    /\ delivery[posted[i]][u] # "none"
    /\ i \in dismissed[u] => delivery[posted[i]][u] = "read"
=============================================================================
