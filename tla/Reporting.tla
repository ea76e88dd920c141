------------------------------ MODULE Reporting ------------------------------
(***************************************************************************)
(* Who is credited with what a case did, and when (reporting/service.py,     *)
(* scope.py, periods.py, tl.py): reports keep nothing of their own and are   *)
(* derived from the case's dates, its dated owners with the office each had  *)
(* then, and the dated managers of their owners, while cases go on and people *)
(* are moved.  A Team Leader's reports are cut down to his team of today.    *)
(*                                                                           *)
(* Time.  An instant is a number and every change has an instant of its own. *)
(* Amounts are left out: a case counts 1.  An office stands for the place an *)
(* employee has: one office with one department and one team, never none.    *)
(***************************************************************************)
EXTENDS Integers, Sequences, FiniteSets

CONSTANTS
  Credited,      \* employees who own cases
  Chiefs,        \* who may be a reporting manager
  Leads,         \* those of them who are Team Leaders
  Offices,       \* the places an employee may have
  CaseFiles,     \* the cases reported on
  LastInstant,   \* bound: the last instant looked at
  Nobody

Staff == Credited \cup Chiefs

ASSUME ReportingAssumption ==
  LastInstant \in Nat /\ Nobody \notin Staff /\ Leads \subseteq Chiefs /\ IsFiniteSet(CaseFiles)

VARIABLES
  clock,
  fact,          \* fact[c]: the dates of case c, 0 where there is none
  ownedBy,       \* ownedBy[c]: its owner history, the open row last
  chief,         \* chief[u]: reporting_manager_id
  chiefSpans,    \* chiefSpans[u]: the dated managers in u's assignment history
  office         \* office[u]: office_id, department_id and team_id of u

reportingVars == <<clock, fact, ownedBy, chief, chiefSpans, office>>

Instants == 0..LastInstant
Milestones == {"created", "submitted", "approved", "booked", "funded", "terminal"}
ReportedOutcomes == {"none", "Completed", "Final Rejected", "Withdrawn"}
Fact == [at: [Milestones -> Instants], outcome: ReportedOutcomes, returned: SUBSET Instants]
Span(Values) == [value: Values, from: Instants, to: Instants]   \* to is 0 while it lasts
Credit == [owner: Credited, office: Offices]

ReportingTypeOK ==
  /\ clock \in Instants
  /\ fact \in [CaseFiles -> Fact]
  /\ ownedBy \in [CaseFiles -> Seq(Span(Credit))]
  /\ chief \in [Staff -> Chiefs \cup {Nobody}]
  /\ chiefSpans \in [Staff -> Seq(Span(Chiefs \cup {Nobody}))]
  /\ office \in [Credited \cup Leads -> Offices]

\* Employees created by hand have a dated "no manager"; those who were imported
\* or onboarded have no row before their first manager.
ReportingInit ==
  /\ clock = 0
  /\ fact = [c \in CaseFiles |->
       [at |-> [m \in Milestones |-> 0], outcome |-> "none", returned |-> {}]]
  /\ ownedBy = [c \in CaseFiles |-> << >>]
  /\ chief = [u \in Staff |-> Nobody]
  /\ \E dated \in SUBSET Staff :
       chiefSpans = [u \in Staff |->
         IF u \in dated THEN <<[value |-> Nobody, from |-> 0, to |-> 0]>> ELSE << >>]
  /\ office \in [Credited \cup Leads -> Offices]

-----------------------------------------------------------------------------
Tick == clock < LastInstant /\ clock' = clock + 1
Filed(c) == fact[c].at["created"] > 0
OpenFile(c) == Filed(c) /\ fact[c].outcome = "none"
Stamp(c, m) == fact' = [fact EXCEPT ![c].at[m] = clock']
Now == clock + 1

\* The open row ends and another begins (record_assignment, _open_owner_history).
Succeed(rows, v) ==
  Append([i \in 1..Len(rows) |-> IF rows[i].to = 0 THEN [rows[i] EXCEPT !.to = Now] ELSE rows[i]],
         [value |-> v, from |-> Now, to |-> 0])

\* The owner is written down with the place he has now.
CreditTo(u) == [owner |-> u, office |-> office[u]]

\* Whom x reports to under the managers boss, directly or through others: what
\* every set contains that holds the manager of x and those of its members.
Above(boss, x) ==
  {m \in Chiefs : \A S \in SUBSET Chiefs :
     (\A y \in S \cup {x} : boss[y] \in S \cup {Nobody}) => m \in S}

FileCase(c, u) ==
  /\ Tick /\ ~Filed(c)
  /\ Stamp(c, "created")
  /\ ownedBy' = [ownedBy EXCEPT ![c] = Succeed(@, CreditTo(u))]
  /\ UNCHANGED <<chief, chiefSpans, office>>

\* The first number of the bank submits the case; a stage may be entered again.
Pass(c, m) ==
  /\ Tick /\ OpenFile(c)
  /\ m \in {"submitted", "approved", "booked"}
  /\ m = "submitted" => fact[c].at[m] = 0
  /\ Stamp(c, m)
  /\ UNCHANGED <<ownedBy, chief, chiefSpans, office>>

\* The Fund Released stage: the case is completed with it.
Fund(c) ==
  /\ Tick /\ OpenFile(c)
  /\ fact' = [fact EXCEPT ![c].at["funded"] = Now, ![c].at["terminal"] = Now,
                          ![c].outcome = "Completed"]
  /\ UNCHANGED <<ownedBy, chief, chiefSpans, office>>

EndFile(c, outcome) ==
  /\ Tick /\ OpenFile(c)
  /\ fact' = [fact EXCEPT ![c].at["terminal"] = Now, ![c].outcome = outcome]
  /\ UNCHANGED <<ownedBy, chief, chiefSpans, office>>

ReturnFile(c) ==
  /\ Tick /\ OpenFile(c)
  /\ fact' = [fact EXCEPT ![c].returned = @ \cup {Now}]
  /\ UNCHANGED <<ownedBy, chief, chiefSpans, office>>

\* Also to the owner it has, whose place is then written down anew.
Reassign(c, u) ==
  /\ Tick /\ OpenFile(c)
  /\ ownedBy' = [ownedBy EXCEPT ![c] = Succeed(@, CreditTo(u))]
  /\ UNCHANGED <<fact, chief, chiefSpans, office>>

\* An employee gets a manager, at first or instead of another, or loses him;
\* nobody reports to himself.
Report(u, m) ==
  /\ Tick /\ chief[u] # m
  /\ m # Nobody => u \notin {m} \cup Above(chief, m)
  /\ chief' = [chief EXCEPT ![u] = m]
  /\ chiefSpans' = [chiefSpans EXCEPT ![u] = Succeed(@, m)]
  /\ UNCHANGED <<fact, ownedBy, office>>

\* An employee moves; the cases he has keep the place they were given to him at.
Relocate(u, o) ==
  /\ Tick /\ office[u] # o
  /\ office' = [office EXCEPT ![u] = o]
  /\ UNCHANGED <<fact, ownedBy, chief, chiefSpans>>

TimePasses == Tick /\ UNCHANGED <<fact, ownedBy, chief, chiefSpans, office>>

ReportingNext ==
  \/ \E c \in CaseFiles :
       \/ Fund(c) \/ ReturnFile(c)
       \/ \E m \in Milestones : Pass(c, m)
       \/ \E outcome \in {"Final Rejected", "Withdrawn"} : EndFile(c, outcome)
       \/ \E u \in Credited : FileCase(c, u) \/ Reassign(c, u)
  \/ \E u \in Staff, m \in Chiefs \cup {Nobody} : Report(u, m)
  \/ \E u \in Credited \cup Leads, o \in Offices : Relocate(u, o)
  \/ TimePasses

ReportingSpec == ReportingInit /\ [][ReportingNext]_reportingVars

-----------------------------------------------------------------------------
Contains(row, t) == row.from <= t /\ (row.to = 0 \/ t < row.to)
First(I) == CHOOSE i \in I : \A j \in I : i <= j
Last(I) == CHOOSE i \in I : \A j \in I : j <= i

\* Mutant: the owner of the case when the report is made.
AttributionNow(rows, t) == rows[Len(rows)].value

\* attribution_at: gaps belong to the owner before them.
AttributionAt(rows, t) ==
  LET covering == {i \in 1..Len(rows) : Contains(rows[i], t)}
      earlier == {i \in 1..Len(rows) : rows[i].from <= t}
  IN IF covering # {} THEN rows[First(covering)].value
     ELSE IF earlier # {} THEN rows[Last(earlier)].value
     ELSE rows[1].value

CreditAt(c, t) == AttributionAt(ownedBy[c], t)
OwnerAt(c, t) == CreditAt(c, t).owner
PresentOwner(c) == ownedBy[c][Len(ownedBy[c])].value.owner   \* case_owner_id

\* manager_at: where no span says, the manager of today.
ManagerAt(u, t) ==
  LET covering == {i \in 1..Len(chiefSpans[u]) : Contains(chiefSpans[u][i], t)}
  IN IF covering # {} THEN chiefSpans[u][First(covering)].value ELSE chief[u]

\* was_descendant_at, upwards: the managers above u at t.
Superiors(u, t) == Above([x \in Staff |-> ManagerAt(x, t)], u)

\* tl_team_owner_ids: a Team Leader and the employees who report to him and have
\* his place, as of today.
Team(l) == {l} \cup {u \in Credited \ Leads : chief[u] = l /\ office[u] = office[l]}

\* _owner_history_at and _resolve_recipient of finance: the only dated row at t.
\* They refuse to pay where there is none, or more than one.
Resolved(rows, t) ==
  LET covering == {i \in 1..Len(rows) : Contains(rows[i], t)}
  IN IF Cardinality(covering) = 1 THEN {rows[i].value : i \in covering} ELSE {}
PaidOwner(c, t) == {x.owner : x \in Resolved(ownedBy[c], t)}
PaidManager(c, t) == UNION {Resolved(chiefSpans[u], t) : u \in PaidOwner(c, t)} \ {Nobody}

\* Mutant: the last instant of a window is not in it.
WithinOpen(t, w) == w.from <= t /\ t < w.to

\* in_window: both ends are.
Within(t, w) == w.from <= t /\ t <= w.to

\* resolve_period, comparison_windows: a named or a custom period.
Windows == {w \in [from: 1..LastInstant, to: 1..LastInstant] : w.from <= w.to}

\* The views, each with what is visible in it (owner_visible): the company's, that of
\* an employee, of an office, of a manager with all who were under him at the
\* instant, and of a Team Leader with his team of today.
Company == [scope |-> "company"]
Own(u) == [scope |-> "own", of |-> u]
OfficeView(o) == [scope |-> "office", of |-> o]
TeamView(m) == [scope |-> "team", of |-> m]
LeadView(l) == [scope |-> "lead", of |-> l]
Views ==
  {Company} \cup {Own(u) : u \in Credited} \cup {OfficeView(o) : o \in Offices}
    \cup {TeamView(m) : m \in Chiefs \ Leads} \cup {LeadView(l) : l \in Leads}
Visible(view, credit, t) ==
  CASE view.scope = "company" -> TRUE
    [] view.scope = "own" -> credit.owner = view.of
    [] view.scope = "office" -> credit.office = view.of
    [] view.scope = "team" -> view.of \in {credit.owner} \cup Superiors(credit.owner, t)
    [] view.scope = "lead" -> credit.owner \in Team(view.of)

\* load_facts: a Team Leader's reports know the cases his team has today.
Loaded(view) ==
  {c \in CaseFiles : view.scope = "lead" => Filed(c) /\ PresentOwner(c) \in Team(view.of)}

\* MetricEngine.owned, .milestone and .terminal: the cases credited in a window.
Milestone(m, w, view) ==
  {c \in Loaded(view) : LET t == fact[c].at[m]
                        IN t > 0 /\ Within(t, w) /\ Visible(view, CreditAt(c, t), t)}
Terminal(outcome, w, view) == {c \in Milestone("terminal", w, view) : fact[c].outcome = outcome}

\* MetricEngine.repeated.
Returned(w, view) ==
  {c \in Loaded(view) :
     \E t \in fact[c].returned : Within(t, w) /\ Visible(view, CreditAt(c, t), t)}

\* _pending_at_cutoff and MetricEngine.pending; the team leader's history has its own.
PendingAt(c, t) == Filed(c) /\ fact[c].at["created"] <= t
                     /\ (fact[c].at["terminal"] = 0 \/ fact[c].at["terminal"] > t)
Pending(w, view) ==
  {c \in Loaded(view) : PendingAt(c, w.to) /\ Visible(view, CreditAt(c, w.to), w.to)}
OpenAt(c, t) ==
  IF ~Filed(c) \/ fact[c].at["created"] > t THEN FALSE
  ELSE IF fact[c].at["terminal"] > 0 THEN fact[c].at["terminal"] > t
  ELSE fact[c].outcome = "none"

ReachedByCutoff(c, m, w) == fact[c].at[m] > 0 /\ fact[c].at[m] <= w.to
CohortReached(m, reached, w, view) == {c \in Milestone(m, w, view) : ReachedByCutoff(c, reached, w)}
CohortTerminal(outcome, w, view) ==
  {c \in Milestone("submitted", w, view) :
     fact[c].outcome = outcome /\ ReachedByCutoff(c, "terminal", w)}

\* build_rankings: what each employee has of a metric, and _rank_rows over them.
Value(m, w, u) == Cardinality({c \in Milestone(m, w, Company) : OwnerAt(c, fact[c].at[m]) = u})
Rank(m, w, u) == 1 + Cardinality({v \in Credited : Value(m, w, v) > Value(m, w, u)})

-----------------------------------------------------------------------------
\* The figures add up: what the employees are credited with is, case by case,
\* the company's figure and their ranking's, and so is what the offices are
\* credited with; a manager has in his team's figures whatever those had who
\* reported to him at the instant (docs/reporting.md:43, the roll-up); a case
\* that existed at a cutoff is either pending then or ended before, in the
\* reports and in the team leader's history; adjoining periods share nothing and
\* leave nothing out; a conversion never exceeds the submissions it is taken of;
\* finance pays the owner and the manager whom the reports credit
\* (attribution_at, in_window, MetricEngine, build_rankings, tl.py open_at,
\* finance/service.py:860).
FiguresAddUp ==
  /\ \A c \in CaseFiles, t \in 1..clock : Filed(c) /\ fact[c].at["created"] <= t =>
       /\ PaidOwner(c, t) = {OwnerAt(c, t)}
       /\ PaidManager(c, t) \subseteq {ManagerAt(OwnerAt(c, t), t)}
  /\ \A w \in Windows : w.to <= clock =>
    /\ \A m \in Milestones :
         /\ Milestone(m, w, Company) = UNION {Milestone(m, w, Own(u)) : u \in Credited}
         /\ \A u, v \in Credited : u # v => Milestone(m, w, Own(u)) \cap Milestone(m, w, Own(v)) = {}
         /\ \A u \in Credited : Value(m, w, u) = Cardinality(Milestone(m, w, Own(u)))
         /\ Milestone(m, w, Company) = UNION {Milestone(m, w, OfficeView(o)) : o \in Offices}
         /\ \A o, p \in Offices : o # p =>
              Milestone(m, w, OfficeView(o)) \cap Milestone(m, w, OfficeView(p)) = {}
         /\ \A x \in Staff : \A c \in Milestone(m, w, TeamView(x)) :
              \A y \in Chiefs : ManagerAt(x, fact[c].at[m]) = y => c \in Milestone(m, w, TeamView(y))
         /\ \A t \in w.from..w.to - 1 :
              LET before == [w EXCEPT !.to = t]
                  after == [w EXCEPT !.from = t + 1]
              IN /\ Milestone(m, before, Company) \cup Milestone(m, after, Company) = Milestone(m, w, Company)
                 /\ Milestone(m, before, Company) \cap Milestone(m, after, Company) = {}
    /\ \A c \in CaseFiles : OpenAt(c, w.to) <=> c \in Pending(w, Company)
    /\ \A c \in CaseFiles : Filed(c) /\ fact[c].at["created"] <= w.to =>
         (c \in Pending(w, Company) <=> c \notin Milestone("terminal", [w EXCEPT !.from = 1], Company))
    /\ Cardinality(CohortTerminal("Final Rejected", w, Company))
         + Cardinality(CohortTerminal("Withdrawn", w, Company))
         + Cardinality(CohortReached("submitted", "funded", w, Company))
         <= Cardinality(Milestone("submitted", w, Company))

\* What the figures of a window say of a case, approvals and bookings apart.
Figures(w, view, c) ==
  <<c \in Milestone("created", w, view), c \in Milestone("submitted", w, view),
    c \in Milestone("funded", w, view), c \in Milestone("terminal", w, view),
    c \in Returned(w, view), c \in Pending(w, view)>>

\* Who was above u at t is written down: no present manager stands in for a
\* history that had not begun.
Followed(u, t) ==
  \A x \in {u} \cup Superiors(u, t) :
    \E i \in 1..Len(chiefSpans[x]) : Contains(chiefSpans[x][i], t)

\* What a view's figures of a case are derived from beside the dated history: in a
\* team's, managers that are written down; in a Team Leader's, his team of today, which
\* this step leaves as it is, and which the case neither joins nor leaves.
Settled(view, c, w) ==
  /\ view.scope = "team" =>
       \A t \in w.from..w.to :
         Filed(c) /\ fact[c].at["created"] <= t => Followed(OwnerAt(c, t), t)
  /\ view.scope = "lead" =>
       /\ Team(view.of)' = Team(view.of)
       /\ Filed(c) => (PresentOwner(c)' \in Team(view.of) <=> PresentOwner(c) \in Team(view.of))

\* docs/reporting.md:35: reassignment after an event does not move credit, nor does
\* a move to another office or, where the managers were dated, another manager.  The
\* figures of a window that has ended stay what they were in every view (in a
\* Team Leader's, as long as his team and its cases stay), also the approvals and
\* bookings unless the case is approved or booked again, and whom
\* finance pays for an instant stays as well.
CreditStands ==
  [][/\ \A c \in CaseFiles, t \in 1..clock : Filed(c) =>
          PaidOwner(c, t)' = PaidOwner(c, t) /\ PaidManager(c, t)' = PaidManager(c, t)
     /\ \A w \in Windows, view \in Views, c \in CaseFiles : w.to <= clock /\ Settled(view, c, w) =>
       /\ Figures(w, view, c)' = Figures(w, view, c)
       /\ \A m \in {"approved", "booked"} : fact'[c].at[m] = fact[c].at[m] =>
            (c \in Milestone(m, w, view)') = (c \in Milestone(m, w, view))]_reportingVars

\* docs/reporting.md:43: a team's figures follow the dated history of managers.
\* What a manager's team is credited with in a past window does not move when
\* its members get other managers later.  It does for those who had none: see the
\* README.
TeamCreditStands ==
  [][\A w \in Windows, m \in Chiefs \ Leads : w.to <= clock =>
       Milestone("submitted", w, TeamView(m))' = Milestone("submitted", w, TeamView(m))]_reportingVars

\* docs/reporting.md:35, for a Team Leader: what his team was credited with in a past
\* window does not move when a case is reassigned, or an employee moved, later.
\* It does (load_facts, restrict_current_team): see the README.
LeadCreditStands ==
  [][\A w \in Windows, l \in Leads : w.to <= clock =>
       Milestone("submitted", w, LeadView(l))' = Milestone("submitted", w, LeadView(l))]_reportingVars
=============================================================================
