---------------------------- MODULE Organisation -----------------------------
(***************************************************************************)
(* The organisation masters of one office (identity/org_service.py,          *)
(* business_units.py, org_deletion.py, api/v1/organization.py) and the       *)
(* employees placed in them (resolve_org, update_user and create_user in     *)
(* users_service.py).                                                        *)
(*                                                                           *)
(* Concurrency.  form[w] is a transaction that has read and validated and    *)
(* not yet written: it holds ACCESS SHARE on the tables it read and the unit *)
(* it validated FOR SHARE.  Foreign keys are checked when it writes.  A      *)
(* deletion, and a move of a used-looking master, locks every table that may *)
(* refer to the master, and the master's own table exclusively, or fails at  *)
(* once: it happens at one instant of quiet.                                 *)
(***************************************************************************)
CONSTANTS
  Departments, BusinessUnits, Squads,   \* departments, business units and teams
  Members,      \* employees
  Forms,        \* concurrent transactions
  Vacant

ASSUME OrganisationAssumption ==
  /\ Vacant \notin Departments \cup BusinessUnits \cup Squads \cup Members
  /\ Departments \cap BusinessUnits = {} /\ Departments \cap Squads = {} /\ BusinessUnits \cap Squads = {}

VARIABLES
  master,      \* master[m]: status of a master; "absent" before, "deleted" after
  unitDept,    \* unitDept[u]: department_id
  squadDept, squadUnit,
  spot,        \* spot[p]: the department, unit and team of an employee
  leader,      \* leader[t]: team_leader_id
  mentions,    \* masters in histories, audit rows and snapshots that count as usage
  form

organisationVars == <<master, unitDept, squadDept, squadUnit, spot, leader, mentions, form>>

Masters == Departments \cup BusinessUnits \cup Squads
Spot == [dept: Departments \cup {Vacant}, unit: BusinessUnits \cup {Vacant}, squad: Squads \cup {Vacant}]
NoForm == [op |-> "none"]
Form ==
  [op: {"place"}, member: Members, old: Spot, new: Spot]
    \cup [op: {"squad"}, squad: Squads, unit: BusinessUnits, dept: Departments]
    \cup [op: {"unit"}, unit: BusinessUnits, dept: Departments]
    \cup [op: {"snapshot"}, of: Masters]

OrganisationTypeOK ==
  /\ master \in [Masters -> {"absent", "active", "inactive", "deleted"}]
  /\ unitDept \in [BusinessUnits -> Departments \cup {Vacant}]
  /\ squadDept \in [Squads -> Departments \cup {Vacant}]
  /\ squadUnit \in [Squads -> BusinessUnits \cup {Vacant}]
  /\ spot \in [Members -> Spot]
  /\ leader \in [Squads -> Members \cup {Vacant}]
  /\ mentions \subseteq Masters
  /\ form \in [Forms -> Form \cup {NoForm}]

NoSpot == [dept |-> Vacant, unit |-> Vacant, squad |-> Vacant]

\* Teams that existed before business units did have none.
OrganisationInit ==
  /\ \E old \in SUBSET Squads, home \in Departments :
       /\ master = [m \in Masters |-> IF m \in old \cup {home} THEN "active" ELSE "absent"]
       /\ squadDept = [t \in Squads |-> IF t \in old THEN home ELSE Vacant]
  /\ unitDept = [u \in BusinessUnits |-> Vacant] /\ squadUnit = [t \in Squads |-> Vacant]
  /\ spot = [p \in Members |-> NoSpot] /\ leader = [t \in Squads |-> Vacant]
  /\ mentions = {} /\ form = [w \in Forms |-> NoForm]

-----------------------------------------------------------------------------
Extant(m) == m # Vacant /\ master[m] \in {"active", "inactive"}
Active(m) == Extant(m) /\ master[m] = "active"
Fields(s) == {s.dept, s.unit, s.squad} \ {Vacant}

\* The unit a transaction holds FOR SHARE (validate_business_unit).
Shared(w) ==
  CASE form[w].op = "squad" -> {form[w].unit}
    [] form[w].op = "place" -> {form[w].new.unit} \cap BusinessUnits
    [] OTHER -> {}

\* The masters a transaction has read.
ReadBy(w) ==
  CASE form[w].op = "place" -> Fields(form[w].new)
    [] form[w].op = "squad" -> {form[w].unit, form[w].dept, form[w].squad}
    [] form[w].op = "unit" -> {form[w].unit, form[w].dept}
    [] form[w].op = "snapshot" -> {form[w].of}
    [] OTHER -> {}

KindOf(m) == CHOOSE K \in {Departments, BusinessUnits, Squads} : m \in K

\* lock_master_references succeeds: nobody has read the table of m.
Quiet(m) == \A w \in Forms : ReadBy(w) \cap KindOf(m) = {}

\* _reference_queries: rows that refer to m, and what is kept about m.
Used(m) ==
  \/ m \in mentions
  \/ \E p \in Members : m \in Fields(spot[p])
  \/ \E u \in BusinessUnits : Extant(u) /\ unitDept[u] = m
  \/ \E t \in Squads : Extant(t) /\ m \in {squadDept[t], squadUnit[t]}

Unshared(u) == \A w \in Forms : u \notin Shared(w)

\* validate_business_unit
UnitValid(u, d) == Active(u) /\ unitDept[u] = d

\* resolve_org: the department and team exist and match, the unit is active.
SpotValid(s) ==
  /\ s.dept # Vacant => Extant(s.dept)
  /\ s.squad # Vacant => s.dept # Vacant /\ Extant(s.squad) /\ squadDept[s.squad] = s.dept
  /\ s.unit # Vacant =>
       /\ s.dept # Vacant /\ UnitValid(s.unit, s.dept)
       /\ s.squad # Vacant => squadUnit[s.squad] = s.unit

\* Without a unit given, a new team's is taken.
Resolved(old, s) ==
  IF s.unit = Vacant /\ s.squad \notin {Vacant, old.squad}
  THEN [s EXCEPT !.unit = squadUnit[s.squad]] ELSE s

orgRows == <<master, unitDept, squadDept, squadUnit, spot, leader, mentions>>
Fill(w, f) == form[w] = NoForm /\ form' = [form EXCEPT ![w] = f]
Close(w) == form' = [form EXCEPT ![w] = NoForm]

-----------------------------------------------------------------------------
\* create_department; a designation or an office is created alike.
CreateDepartment(d) ==
  /\ master[d] = "absent"
  /\ master' = [master EXCEPT ![d] = "active"]
  /\ UNCHANGED <<unitDept, squadDept, squadUnit, spot, leader, mentions, form>>

\* save_business_unit without an id, up to validate_parents.
StartUnit(w, u, d) ==
  /\ master[u] = "absent" /\ Active(d)
  /\ \A x \in Forms : form[x].op = "unit" => form[x].unit # u
  /\ Fill(w, [op |-> "unit", unit |-> u, dept |-> d])
  /\ UNCHANGED orgRows

CreateUnit(w) ==
  /\ form[w].op = "unit" /\ Extant(form[w].dept)
  /\ master' = [master EXCEPT ![form[w].unit] = "active"]
  /\ unitDept' = [unitDept EXCEPT ![form[w].unit] = form[w].dept]
  /\ Close(w)
  /\ UNCHANGED <<squadDept, squadUnit, spot, leader, mentions>>

\* create_team, up to its validation.
StartSquad(w, t, u) ==
  /\ master[t] = "absent" /\ Active(u)
  /\ \A x \in Forms : form[x].op = "squad" => form[x].squad # t
  /\ Fill(w, [op |-> "squad", squad |-> t, unit |-> u, dept |-> unitDept[u]])
  /\ UNCHANGED orgRows

CreateSquad(w) ==
  LET f == form[w] IN
  /\ f.op = "squad" /\ Extant(f.unit) /\ Extant(f.dept)
  /\ master' = [master EXCEPT ![f.squad] = "active"]
  /\ squadDept' = [squadDept EXCEPT ![f.squad] = f.dept]
  /\ squadUnit' = [squadUnit EXCEPT ![f.squad] = f.unit]
  /\ Close(w)
  /\ UNCHANGED <<unitDept, spot, leader, mentions>>

-----------------------------------------------------------------------------
\* set_department_status, set_team_status: refused while active rows are below.  Of
\* the employees only those with an ACTIVE account count; accounts are not kept
\* here, so those assigned may all be without one and are no obstacle.
\* A department's audit rows do not count as its usage, a team's do.
SetDepartmentStatus(d, to) ==
  /\ Extant(d)
  /\ to = "inactive" =>
       /\ \A u \in BusinessUnits : Active(u) => unitDept[u] # d
       /\ \A t \in Squads : Active(t) => squadDept[t] # d
  /\ master' = [master EXCEPT ![d] = to]
  /\ UNCHANGED <<unitDept, squadDept, squadUnit, spot, leader, mentions, form>>

SetSquadStatus(t, to) ==
  /\ Extant(t)
  /\ to = "inactive" => leader[t] = Vacant
  /\ master' = [master EXCEPT ![t] = to]
  /\ mentions' = mentions \cup {t}
  /\ UNCHANGED <<unitDept, squadDept, squadUnit, spot, leader, form>>

\* Mutant: the row is not locked against those who validate it.
SetUnitStatusUnlocked(u, to) ==
  /\ Extant(u)
  /\ IF to = "inactive"
     THEN (\A t \in Squads : squadUnit[t] # u) /\ (\A p \in Members : spot[p].unit # u)
     ELSE Active(unitDept[u])
  /\ master' = [master EXCEPT ![u] = to]
  /\ mentions' = mentions \cup {u}
  /\ UNCHANGED <<unitDept, squadDept, squadUnit, spot, leader, form>>

\* business_unit_status: waits for those who validate the unit.
SetUnitStatus(u, to) ==
  /\ Extant(u) /\ Unshared(u)
  /\ IF to = "inactive"
     THEN (\A t \in Squads : squadUnit[t] # u) /\ (\A p \in Members : spot[p].unit # u)
     ELSE Active(unitDept[u])
  /\ master' = [master EXCEPT ![u] = to]
  /\ mentions' = mentions \cup {u}
  /\ UNCHANGED <<unitDept, squadDept, squadUnit, spot, leader, form>>

\* save_business_unit with another department: only of an unused unit.
MoveUnit(u, d) ==
  /\ Extant(u) /\ Active(d) /\ unitDept[u] # d
  /\ Unshared(u) /\ Quiet(u) /\ ~Used(u)
  /\ unitDept' = [unitDept EXCEPT ![u] = d]
  /\ UNCHANGED <<master, squadDept, squadUnit, spot, leader, mentions, form>>

\* teams_rename with another unit: of a team without one, or of an unused team.
\* The audit row mentions both.
MoveSquad(t, u) ==
  /\ Extant(t) /\ squadUnit[t] # u /\ UnitValid(u, squadDept[t])
  /\ squadUnit[t] # Vacant => Quiet(t) /\ ~Used(t) /\ leader[t] = Vacant
  /\ squadUnit' = [squadUnit EXCEPT ![t] = u]
  /\ mentions' = mentions \cup {t, u}
  /\ UNCHANGED <<master, unitDept, squadDept, spot, leader, form>>

\* set_team_leader: the leader belongs to the team.  The audit row mentions it.
SetTeamLeader(t, p) ==
  /\ Extant(t)
  /\ p # Vacant => spot[p].squad = t /\ spot[p].dept = squadDept[t]
  /\ leader' = [leader EXCEPT ![t] = p]
  /\ mentions' = mentions \cup {t}
  /\ UNCHANGED <<master, unitDept, squadDept, squadUnit, spot, form>>

-----------------------------------------------------------------------------
\* create_user, update_user, rehire_user, up to resolve_org, on a copy of the
\* employee: values not given are the copy's.
StartPlace(w, p, s) ==
  /\ SpotValid(s)
  /\ Fill(w, [op |-> "place", member |-> p, old |-> spot[p], new |-> Resolved(spot[p], s)])
  /\ UNCHANGED orgRows

\* The columns that differ from the copy are written; the history mentions the
\* unit and the team, and who leads another team no longer does.
Place(w) ==
  LET f == form[w]
      To(old, new, now) == IF new = old THEN now ELSE new
      now == [dept |-> To(f.old.dept, f.new.dept, spot[f.member].dept),
              unit |-> To(f.old.unit, f.new.unit, spot[f.member].unit),
              squad |-> To(f.old.squad, f.new.squad, spot[f.member].squad)]
  IN /\ f.op = "place" /\ \A m \in Fields(now) : Extant(m)
     /\ spot' = [spot EXCEPT ![f.member] = now]
     /\ leader' = [t \in Squads |->
          IF leader[t] = f.member /\ (f.new.squad # t \/ f.new.dept # squadDept[t]) THEN Vacant
          ELSE leader[t]]
     /\ mentions' = mentions
          \cup ({f.new.unit} \ {f.old.unit, Vacant}) \cup ({f.new.squad} \ {f.old.squad, Vacant})
          \cup {t \in Squads : leader'[t] # leader[t]}
     /\ Close(w)
     /\ UNCHANGED <<master, unitDept, squadDept, squadUnit>>

\* A transfer, report, target or contract that keeps a master by value only.
StartSnapshot(w, m) ==
  /\ Extant(m)
  /\ Fill(w, [op |-> "snapshot", of |-> m])
  /\ UNCHANGED orgRows

KeepSnapshot(w) ==
  /\ form[w].op = "snapshot"
  /\ mentions' = mentions \cup {form[w].of}
  /\ Close(w)
  /\ UNCHANGED <<master, unitDept, squadDept, squadUnit, spot, leader>>

\* The transaction is refused, or a foreign key fails it.
DropForm(w) ==
  /\ form[w] # NoForm
  /\ Close(w)
  /\ UNCHANGED orgRows

-----------------------------------------------------------------------------
\* The row is deleted; its snapshot mentions the masters it belonged to.
Erase(m) ==
  /\ master' = [master EXCEPT ![m] = "deleted"]
  /\ unitDept' = [u \in BusinessUnits |-> IF u = m THEN Vacant ELSE unitDept[u]]
  /\ squadDept' = [t \in Squads |-> IF t = m THEN Vacant ELSE squadDept[t]]
  /\ squadUnit' = [t \in Squads |-> IF t = m THEN Vacant ELSE squadUnit[t]]
  /\ mentions' = mentions \cup
       ((IF m \in BusinessUnits THEN {unitDept[m]}
         ELSE IF m \in Squads THEN {squadDept[m], squadUnit[m]} ELSE {}) \ {Vacant})
  /\ UNCHANGED <<spot, leader, form>>

\* Mutant: the master's own table is not locked against those who have read it.
DeleteUnlocked(m) ==
  /\ Extant(m) /\ ~Used(m) /\ (m \in Squads => leader[m] = Vacant)
  /\ Erase(m)

\* delete_unused_master.
DeleteUnusedMaster(m) ==
  /\ Extant(m) /\ Quiet(m) /\ ~Used(m) /\ (m \in Squads => leader[m] = Vacant)
  /\ Erase(m)

OrganisationNext ==
  \/ \E d \in Departments : CreateDepartment(d) \/ \E to \in {"active", "inactive"} : SetDepartmentStatus(d, to)
  \/ \E u \in BusinessUnits, to \in {"active", "inactive"} : SetUnitStatus(u, to)
  \/ \E t \in Squads, to \in {"active", "inactive"} : SetSquadStatus(t, to)
  \/ \E u \in BusinessUnits, d \in Departments : MoveUnit(u, d) \/ \E w \in Forms : StartUnit(w, u, d)
  \/ \E t \in Squads, u \in BusinessUnits : MoveSquad(t, u) \/ \E w \in Forms : StartSquad(w, t, u)
  \/ \E t \in Squads, p \in Members \cup {Vacant} : SetTeamLeader(t, p)
  \/ \E w \in Forms, p \in Members, s \in Spot : StartPlace(w, p, s)
  \/ \E w \in Forms, m \in Masters : StartSnapshot(w, m)
  \/ \E w \in Forms : CreateUnit(w) \/ CreateSquad(w) \/ Place(w) \/ KeepSnapshot(w) \/ DropForm(w)
  \/ \E m \in Masters : DeleteUnusedMaster(m)

OrganisationSpec == OrganisationInit /\ [][OrganisationNext]_organisationVars

-----------------------------------------------------------------------------
\* Nothing refers to a deleted master: no row, no history or snapshot, and no
\* transaction that has read the master and is about to keep it (the table locks
\* of delete_unused_master).
DeletedUnreferenced ==
  \A m \in Masters : master[m] = "deleted" =>
    ~Used(m) /\ \A w \in Forms : m \notin ReadBy(w)

\* A business unit that is not active has no teams and no employees, and every
\* team belongs to the department of its unit, whatever is validated while the
\* unit is deactivated or moved (validate_business_unit FOR SHARE against
\* business_unit_status and save_business_unit FOR UPDATE).
UnitsCoherent ==
  /\ \A u \in BusinessUnits : master[u] = "inactive" =>
       (\A t \in Squads : squadUnit[t] # u) /\ (\A p \in Members : spot[p].unit # u)
  /\ \A t \in Squads : squadUnit[t] # Vacant => unitDept[squadUnit[t]] = squadDept[t]
=============================================================================
