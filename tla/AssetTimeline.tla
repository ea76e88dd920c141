---------------------------- MODULE AssetTimeline ----------------------------
(***************************************************************************)
(* The lifecycle of an asset, rebuilt on every request from the audit events *)
(* that its handlers have recorded (assets/lifecycle.py), beside those       *)
(* handlers (assets/service.py).  Nothing stores how long an asset was in    *)
(* stock, with whom, or in repair: the periods are read off the events, so   *)
(* each handler must record enough and the reading must miss nothing.        *)
(*                                                                           *)
(* Every handler locks the asset's row first and is one action; AssetCustody *)
(* has what happens beside that lock.  The events of one asset are recorded  *)
(* under it and ordered by their time: event k is at instant k.  Events from *)
(* before the snapshots carry only what the handler named; snapshots says    *)
(* whether they are written yet.  The employees' offices change beside all   *)
(* this, so wherever a handler compares one it may be any.                   *)
(***************************************************************************)
EXTENDS Integers, SequencesExt

CONSTANTS
  Things,       \* assets
  Holders,      \* employees
  Places,       \* offices
  MaxTrail,     \* bound: events of an asset
  Unset

VARIABLES
  item,         \* item[t]: the row with its allocations
  trail,        \* trail[t]: its audit events
  past,         \* past[t][k]: the row after event k; what the reading is held against
  snapshots     \* events carry a snapshot of the row

timelineVars == <<item, trail, past, snapshots>>

Conditions == {"Good", "Damaged"}
Kinds == {"InStock", "Allocated", "UnderRepair"}
Statuses == Kinds \cup {"Damaged", "Lost", "Retired"}
Row == [status: Statuses, office: Places, condition: Conditions, holder: Holders \cup {Unset},
        allocations: Seq([to: Holders, on: Nat])]
Snapshots == [status: Statuses, office: Places, condition: Conditions,
              custodian: Holders \cup {Unset}, allocation: Nat]
Periods == [kind: Kinds, from: Nat, to: Nat \cup {Unset}, employee: Holders \cup {Unset},
            office: Places, condition: Conditions, allocation: Nat, date: Nat \cup {Unset}]

\* None is no value of a column and no row.
ASSUME TimelineAssumption ==
  /\ Unset \notin Holders \cup Places \cup Conditions \cup Statuses
  /\ Unset \notin Row \cup Snapshots \cup Periods

TimelineTypeOK ==
  /\ item \in [Things -> Row \cup {Unset}]
  /\ past \in [Things -> Seq(Row)]
  /\ snapshots \in BOOLEAN

TimelineInit ==
  /\ item = [t \in Things |-> Unset]
  /\ trail = [t \in Things |-> << >>]
  /\ past = [t \in Things |-> << >>]
  /\ snapshots \in BOOLEAN

-----------------------------------------------------------------------------
(* The handlers.                                                             *)

\* The lifecycle part that _record_asset_event adds: the row as it now stands.
Snapshot(row) ==
  [status |-> row.status, office |-> row.office, condition |-> row.condition,
   custodian |-> row.holder,
   allocation |-> IF row.holder = Unset THEN 0 ELSE Len(row.allocations)]

\* named: what the handler itself puts into old_values (the status) and into
\* new_values (a function on the names of the fields).
Store(t, action, old, named, row) ==
  /\ Len(trail[t]) < MaxTrail
  /\ item' = [item EXCEPT ![t] = row]
  /\ past' = [past EXCEPT ![t] = Append(@, row)]
  /\ trail' = [trail EXCEPT ![t] = Append(@,
       [action |-> action, old |-> old, named |-> named,
        snap |-> IF snapshots THEN Snapshot(row) ELSE Unset])]
  /\ UNCHANGED snapshots

\* create_asset.
Register(t, p, c) ==
  /\ item[t] = Unset
  /\ Store(t, "create", Unset,
       [status |-> "InStock", office |-> p, condition |-> c, custodian |-> Unset],
       [status |-> "InStock", office |-> p, condition |-> c, holder |-> Unset,
        allocations |-> << >>])

\* An allocation with the date it was issued on, which is the event's.
Issued(t, h) == Append(item[t].allocations, [to |-> h, on |-> Len(trail[t]) + 1])

\* allocate_asset.
Allocate(t, h, c) ==
  /\ item[t] # Unset
  /\ item[t].status = "InStock" /\ item[t].holder = Unset
  /\ Store(t, "allocate", "InStock",
       [status |-> "Allocated", custodian |-> h, condition |-> c,
        date |-> Len(trail[t]) + 1],
       [item[t] EXCEPT !.status = "Allocated", !.holder = h, !.condition = c,
                       !.allocations = Issued(t, h)])

\* return_asset, also out of repair.
GiveBack(t, c) ==
  /\ item[t] # Unset
  /\ item[t].status \in {"Allocated", "UnderRepair"} /\ item[t].holder # Unset
  /\ LET status == IF c = "Damaged" THEN "Damaged" ELSE "InStock" IN
     Store(t, "return", item[t].status,
       [status |-> status, custodian |-> Unset, condition |-> c],
       [item[t] EXCEPT !.status = status, !.holder = Unset, !.condition = c])

\* transfer_employee: the asset goes to the employee's office.
HandOver(t, h, p, c) ==
  /\ item[t] # Unset
  /\ item[t].status = "Allocated" /\ item[t].holder \notin {Unset, h}
  /\ Store(t, "employee_transfer", Unset,
       [custodian |-> h, office |-> p, condition |-> c, date |-> Len(trail[t]) + 1],
       [item[t] EXCEPT !.holder = h, !.office = p, !.condition = c,
                       !.allocations = Issued(t, h)])

\* transfer_office; for an allocated asset, to the office its holder is at.
Relocate(t, p) ==
  /\ item[t] # Unset
  /\ item[t].status # "Retired" /\ item[t].office # p
  /\ Store(t, "office_transfer", Unset, [office |-> p], [item[t] EXCEPT !.office = p])

\* set_asset_status.
ChangeStatus(t, s) ==
  /\ item[t] # Unset
  /\ s \in {"Retired", "InStock"} => item[t].holder = Unset
  /\ s = "Allocated" => item[t].holder # Unset
  /\ Store(t, "status", item[t].status, [status |-> s], [item[t] EXCEPT !.status = s])

\* correct_condition.
CorrectCondition(t, c) ==
  /\ item[t] # Unset
  /\ Store(t, "condition", Unset, [condition |-> c], [item[t] EXCEPT !.condition = c])

\* correct_identifiers names no field that the periods are about.
CorrectIdentifiers(t) ==
  /\ item[t] # Unset
  /\ Store(t, "identifiers", Unset, << >>, item[t])

\* update_asset_master names them all, before and after.
UpdateMaster(t) ==
  /\ item[t] # Unset
  /\ Store(t, "master", item[t].status,
       [status |-> item[t].status, office |-> item[t].office,
        condition |-> item[t].condition, custodian |-> item[t].holder],
       item[t])

\* The release that records snapshots is installed.
Install ==
  /\ ~snapshots /\ snapshots' = TRUE
  /\ UNCHANGED <<item, trail, past>>

TimelineNext ==
  \/ \E t \in Things :
       \/ \E p \in Places, c \in Conditions : Register(t, p, c)
       \/ \E h \in Holders, c \in Conditions : Allocate(t, h, c)
       \/ \E c \in Conditions : GiveBack(t, c) \/ CorrectCondition(t, c)
       \/ \E h \in Holders, p \in Places, c \in Conditions : HandOver(t, h, p, c)
       \/ \E p \in Places : Relocate(t, p)
       \/ \E s \in Statuses : ChangeStatus(t, s)
       \/ CorrectIdentifiers(t)
       \/ UpdateMaster(t)
  \/ Install

TimelineSpec == TimelineInit /\ [][TimelineNext]_timelineVars

-----------------------------------------------------------------------------
(* build_lifecycle: a fold over the events.  seen is what is known so far: at *)
(* how many events, the state, office, employee and condition they lead to,  *)
(* the current period, the closed ones, and whether something is missing.    *)

Unseen ==
  [at |-> 0, state |-> Unset, office |-> Unset, employee |-> Unset,
   condition |-> Unset, current |-> Unset, periods |-> {}, gap |-> FALSE]

\* A field: from the snapshot, or as the handler named it, or as before.
Read(event, field, before) ==
  IF event.snap # Unset THEN event.snap[field]
  ELSE IF field \in DOMAIN event.named THEN event.named[field] ELSE before

ReadStatus(seen, event) ==
  IF event.action = "employee_transfer" THEN "Allocated"
  ELSE Read(event, "status", seen.state)

\* A period with no known start; it counts for nothing.
Unknown(s) ==
  [kind |-> s, from |-> Unset, to |-> Unset, employee |-> Unset, office |-> Unset,
   condition |-> Unset, allocation |-> 0, date |-> Unset]

\* The event's own old status contradicts the events before it: a period is missing.
Reconcile(seen, event) ==
  IF event.old \in {Unset, seen.state} THEN seen
  ELSE [seen EXCEPT
          !.gap = @ \/ seen.state # Unset \/ event.old \in Kinds,
          !.state = IF event.old \in Kinds THEN event.old ELSE Unset,
          !.current = IF event.old \in Kinds THEN Unknown(event.old) ELSE Unset]

\* Mutant: a transfer from one employee to another continues the period.
SplitsNotByEmployee(seen, event) ==
  \/ ReadStatus(seen, event) # seen.state
  \/ seen.office # Unset /\ Read(event, "office", seen.office) # seen.office
  \/ seen.condition # Unset /\ Read(event, "condition", seen.condition) # seen.condition

Splits(seen, event) ==
  \/ ReadStatus(seen, event) # seen.state
  \/ seen.office # Unset /\ Read(event, "office", seen.office) # seen.office
  \/ seen.condition # Unset /\ Read(event, "condition", seen.condition) # seen.condition
  \/ /\ seen.state = "Allocated"
     /\ Read(event, "custodian", seen.employee) # seen.employee

\* close_period.
Closed(seen, now) ==
  IF seen.current = Unset THEN seen.periods
  ELSE seen.periods \cup {[seen.current EXCEPT !.to = now]}

\* The start is known from the event before, or because this one moves the asset.
StartKnown(seen, event) ==
  \/ seen.state # Unset
  \/ /\ event.action \in {"create", "return", "status", "allocate", "employee_transfer"}
     /\ ReadStatus(seen, event) # seen.state

Opened(seen, event, now) ==
  [kind |-> ReadStatus(seen, event),
   from |-> IF StartKnown(seen, event) THEN now ELSE Unset,
   to |-> Unset,
   employee |-> Read(event, "custodian", seen.employee),
   office |-> Read(event, "office", seen.office),
   condition |-> Read(event, "condition", seen.condition),
   allocation |-> IF event.snap = Unset THEN 0 ELSE event.snap.allocation,
   date |-> IF "date" \in DOMAIN event.named THEN event.named.date ELSE Unset]

See(before, event) ==
  LET seen == Reconcile(before, event)
      now == before.at + 1
      opens == ReadStatus(seen, event) \in Kinds
  IN [at |-> now,
      state |-> ReadStatus(seen, event),
      office |-> Read(event, "office", seen.office),
      employee |-> Read(event, "custodian", seen.employee),
      condition |-> Read(event, "condition", seen.condition),
      current |-> IF ~Splits(seen, event) THEN seen.current
                  ELSE IF opens THEN Opened(seen, event, now) ELSE Unset,
      periods |-> IF Splits(seen, event) THEN Closed(seen, now) ELSE seen.periods,
      gap |-> \/ seen.gap
              \/ Splits(seen, event) /\ opens /\ ~StartKnown(seen, event)]

\* What the reading ends in: the current period goes on; a row that the events do
\* not lead to, or one at rest without a period, is a gap.
Lifecycle(t) ==
  LET seen == FoldLeft(See, Unseen, trail[t]) IN
  [periods |-> Closed(seen, seen.at + 1),
   gap |-> \/ seen.gap
           \/ seen.state # item[t].status
           \/ seen.current = Unset /\ item[t].status \in {"InStock", "UnderRepair"}]

\* The period that stands for an allocation.
Matches(period, n, allocation) ==
  \/ period.allocation = n
  \/ period.employee = allocation.to /\ period.date = allocation.on

-----------------------------------------------------------------------------
\* The lifecycle is complete and true: at every instant since the asset was
\* registered at which it was in stock, with somebody or in repair, exactly one
\* period says so, with the office, condition and employee of that instant, and at
\* the others none; nothing is reported as missing, and every allocation is in it,
\* also when part of the events is older than the snapshots
\* (assets/lifecycle.py, assets/service.py:551).
TimelineExact ==
  \A t \in Things : item[t] # Unset =>
    LET view == Lifecycle(t) IN
    /\ ~view.gap
    /\ \A k \in 1..Len(past[t]) :
         LET row == past[t][k]
             covering == {p \in view.periods : p.from <= k /\ k < p.to}
         IN IF row.status \notin Kinds THEN covering = {}
            ELSE \E p \in covering :
                   /\ covering = {p}
                   /\ p.kind = row.status /\ p.office = row.office
                   /\ p.condition = row.condition
                   /\ row.status = "Allocated" => p.employee = row.holder
    /\ \A n \in 1..Len(item[t].allocations) :
         \E p \in view.periods :
           p.kind = "Allocated" /\ Matches(p, n, item[t].allocations[n])
=============================================================================
