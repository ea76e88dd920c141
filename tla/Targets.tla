------------------------------- MODULE Targets -------------------------------
(***************************************************************************)
(* Targets of one employee for one product and milestone, period locks, the  *)
(* KPI scorecards of the company and the score they give (targets/service.py *)
(* and calc.py).                                                             *)
(*                                                                           *)
(* Concurrency.  plan[r] is what a request has read and not yet committed.   *)
(* Targets are read without a lock; a request on a scorecard holds its row   *)
(* from the moment it reads it, and those that switch the active card hold   *)
(* one advisory lock besides.                                                *)
(*                                                                           *)
(* Numbers.  Hundred stands for 100 per cent in units of the stored scale,   *)
(* and quantize rounds halves up.  Days are counted on, MonthDays a month.   *)
(***************************************************************************)
EXTENDS Integers, FiniteSets, FiniteSetsExt

CONSTANTS
  Goals,        \* targets of the employee, product and milestone
  LastTargetMonth,    \* bound: months are 1..LastTargetMonth
  MonthDays, Workdays,   \* days of a month, and which of them are worked
  GoalValues,
  Cards, Measures,
  Drafts,       \* metric lists: weights by metric, 0 where it is not listed
  FromGoals,    \* metrics compared with the targets; the others have a baseline
  LowerBetter, Baseline,
  Actuals,
  Hundred,
  Planners

ASSUME TargetsAssumption ==
  /\ LastTargetMonth \in Nat \ {0} /\ MonthDays \in Nat \ {0} /\ Workdays \subseteq 1..MonthDays
  /\ GoalValues \subseteq Nat /\ Actuals \subseteq Nat /\ Hundred \in Nat \ {0}
  /\ Drafts \subseteq [Measures -> Nat] /\ Baseline \in Nat
  /\ FromGoals \subseteq Measures /\ LowerBetter \subseteq Measures
  /\ IsFiniteSet(Goals) /\ IsFiniteSet(Measures)

VARIABLES
  day,           \* business_today
  goal,          \* goal[g]: the target row, of month 0 before it is created
  lockedMonths,  \* TargetPeriodLock
  card,          \* card[k]: status and metrics of a scorecard
  plan

targetsVars == <<day, goal, lockedMonths, card, plan>>

TargetMonths == 1..LastTargetMonth
Goal == [month: TargetMonths \cup {0}, value: GoalValues \cup {0}, prorate: BOOLEAN, active: BOOLEAN]
NoGoal == [month |-> 0, value |-> 0, prorate |-> FALSE, active |-> FALSE]
NoMetrics == [m \in Measures |-> 0]
Card == [status: {"absent", "draft", "active", "inactive"}, metrics: Drafts \cup {NoMetrics}]
NoPlan == [op |-> "none"]
Plan == [op: {"create", "edit"}, goal: Goals, old: Goal, new: Goal]
          \cup [op: {"rewrite", "switch"}, card: Cards, old: Card]

TargetsTypeOK ==
  /\ day \in 1..LastTargetMonth * MonthDays
  /\ goal \in [Goals -> Goal]
  /\ lockedMonths \subseteq TargetMonths
  /\ card \in [Cards -> Card]
  /\ plan \in [Planners -> Plan \cup {NoPlan}]

TargetsInit ==
  /\ day = 1
  /\ goal = [g \in Goals |-> NoGoal]
  /\ lockedMonths = {}
  /\ card = [k \in Cards |-> [status |-> "absent", metrics |-> NoMetrics]]
  /\ plan = [r \in Planners |-> NoPlan]

-----------------------------------------------------------------------------
Decide(r, p) == plan[r] = NoPlan /\ plan' = [plan EXCEPT ![r] = p]
Settle(r) == plan' = [plan EXCEPT ![r] = NoPlan]

\* _require_unlocked, on the locks as they are now.
Editable(month) == month \notin lockedMonths

\* _ensure_unique and the partial unique indexes on active targets.
UniqueGoal(g, new) ==
  new.active => \A h \in Goals \ {g} : ~(goal[h].active /\ goal[h].month = new.month)

\* create_target, up to its flush.
StartGoal(r, g, new) ==
  /\ goal[g] = NoGoal /\ \A q \in Planners : plan[q].op = "create" => plan[q].goal # g
  /\ new.month # 0 /\ new.value # 0 /\ new.active
  /\ Editable(new.month) /\ UniqueGoal(g, new)
  /\ Decide(r, [op |-> "create", goal |-> g, old |-> NoGoal, new |-> new])
  /\ UNCHANGED <<day, goal, lockedMonths, card>>

\* update_target and set_target_status: the month stays, something changes.
StartEdit(r, g, new) ==
  /\ goal[g] # NoGoal /\ Editable(goal[g].month)
  /\ new.month = goal[g].month /\ new.value # 0 /\ new # goal[g]
  /\ \/ new.active = goal[g].active
     \/ new = [goal[g] EXCEPT !.active = ~@] /\ UniqueGoal(g, new)
  /\ Decide(r, [op |-> "edit", goal |-> g, old |-> goal[g], new |-> new])
  /\ UNCHANGED <<day, goal, lockedMonths, card>>

\* The columns that differ from the copy are written; the index is checked.
CommitGoal(r) ==
  LET p == plan[r]
      Merge(old, new, now) == IF new = old THEN now ELSE new
      row == goal[p.goal]
      next == [month |-> p.new.month,
               value |-> Merge(p.old.value, p.new.value, row.value),
               prorate |-> Merge(p.old.prorate, p.new.prorate, row.prorate),
               active |-> Merge(p.old.active, p.new.active, row.active)]
  IN /\ p.op \in {"create", "edit"} /\ UniqueGoal(p.goal, next)
     /\ goal' = [goal EXCEPT ![p.goal] = next]
     /\ Settle(r)
     /\ UNCHANGED <<day, lockedMonths, card>>

LockMonth(month) ==
  /\ month \notin lockedMonths /\ lockedMonths' = lockedMonths \cup {month}
  /\ UNCHANGED <<day, goal, card, plan>>

ReopenMonth(month) ==
  /\ month \in lockedMonths /\ lockedMonths' = lockedMonths \ {month}
  /\ UNCHANGED <<day, goal, card, plan>>

-----------------------------------------------------------------------------
\* _assert_active_invariant.
Weighted(metrics) == MapThenSumSet(LAMBDA m : metrics[m], Measures) = Hundred

CardHeld(k) == \E r \in Planners : plan[r].op \in {"rewrite", "switch"} /\ plan[r].card = k

CreateScorecard(k, metrics) ==
  /\ card[k].status = "absent"
  /\ card' = [card EXCEPT ![k] = [status |-> "draft", metrics |-> metrics]]
  /\ UNCHANGED <<day, goal, lockedMonths, plan>>

\* Mutant: the row is read without a lock.
LoadScorecardUnlocked(r, k, op) ==
  /\ card[k].status # "absent"
  /\ op = "switch" => \A q \in Planners : plan[q].op # "switch"
  /\ Decide(r, [op |-> op, card |-> k, old |-> card[k]])
  /\ UNCHANGED <<day, goal, lockedMonths, card>>

\* _load_scorecard with its row lock; a switch takes the advisory lock first.
LoadScorecard(r, k, op) ==
  /\ card[k].status # "absent" /\ ~CardHeld(k)
  /\ op = "switch" => \A q \in Planners : plan[q].op # "switch"
  /\ Decide(r, [op |-> op, card |-> k, old |-> card[k]])
  /\ UNCHANGED <<day, goal, lockedMonths, card>>

\* update_scorecard
UpdateScorecard(r, metrics) ==
  /\ plan[r].op = "rewrite"
  /\ plan[r].old.status = "active" => Weighted(metrics)
  /\ card' = [card EXCEPT ![plan[r].card].metrics = metrics]
  /\ Settle(r)
  /\ UNCHANGED <<day, goal, lockedMonths>>

\* set_scorecard_status: the other active card is locked, read anew and ended.
ActivateScorecard(r) ==
  LET k == plan[r].card
      others == {j \in Cards \ {k} : card[j].status = "active"}
  IN /\ plan[r].op = "switch" /\ Weighted(plan[r].old.metrics)
     /\ \A j \in others : ~CardHeld(j)
     /\ card' = [j \in Cards |->
          IF j = k THEN [card[j] EXCEPT !.status = "active"]
          ELSE IF j \in others THEN [card[j] EXCEPT !.status = "inactive"] ELSE card[j]]
     /\ Settle(r)
     /\ UNCHANGED <<day, goal, lockedMonths>>

DeactivateScorecard(r) ==
  /\ plan[r].op = "switch"
  /\ card' = [card EXCEPT ![plan[r].card].status = "inactive"]
  /\ Settle(r)
  /\ UNCHANGED <<day, goal, lockedMonths>>

\* The request is refused, or its commit fails.
Withdraw(r) ==
  /\ plan[r] # NoPlan
  /\ Settle(r)
  /\ UNCHANGED <<day, goal, lockedMonths, card>>

NextDay ==
  /\ day < LastTargetMonth * MonthDays
  /\ day' = day + 1
  /\ UNCHANGED <<goal, lockedMonths, card, plan>>

TargetsNext ==
  \/ \E r \in Planners, g \in Goals, new \in Goal : StartGoal(r, g, new) \/ StartEdit(r, g, new)
  \/ \E r \in Planners : CommitGoal(r) \/ ActivateScorecard(r) \/ DeactivateScorecard(r) \/ Withdraw(r)
  \/ \E m \in TargetMonths : LockMonth(m) \/ ReopenMonth(m)
  \/ \E k \in Cards, metrics \in Drafts : CreateScorecard(k, metrics)
  \/ \E r \in Planners, k \in Cards, op \in {"rewrite", "switch"} : LoadScorecard(r, k, op)
  \/ \E r \in Planners, metrics \in Drafts : UpdateScorecard(r, metrics)
  \/ NextDay

TargetsSpec == TargetsInit /\ [][TargetsNext]_targetsVars

-----------------------------------------------------------------------------
\* quantize of a / b
Quantize(a, b) == (2 * a + b) \div (2 * b)

FirstDay(month) == (month - 1) * MonthDays + 1
LastDayOf(month) == month * MonthDays
MonthAt(d) == (d - 1) \div MonthDays + 1
\* working_dates
Working(from, to) == Cardinality({d \in from..to : ((d - 1) % MonthDays) + 1 \in Workdays})

\* Mutant: the days that are left instead of those elapsed.
ProrateRemaining(value, elapsed, all) == IF all = 0 THEN value ELSE Quantize(value * (all - elapsed), all)

\* prorate_target
Prorate(value, elapsed, all) == IF all = 0 THEN value ELSE Quantize(value * elapsed, all)

\* _effective_target of a row over the days from..to.
Effective(row, from, to) ==
  LET begins == IF from > FirstDay(row.month) THEN from ELSE FirstDay(row.month)
      ends == IF to < LastDayOf(row.month) THEN to ELSE LastDayOf(row.month)
  IN IF begins > ends THEN 0
     ELSE IF row.prorate /\ row.month = MonthAt(day)
     THEN Prorate(row.value, Working(begins, ends), Working(FirstDay(row.month), LastDayOf(row.month)))
     ELSE IF row.month > MonthAt(day) THEN 0 ELSE row.value

\* _compute_result: the active targets of a period, the current month until today.
Applicable(from, to) ==
  {g \in Goals : goal[g].active /\ from <= LastDayOf(goal[g].month) /\ FirstDay(goal[g].month) <= to}
EffectiveTarget(from, to) == MapThenSumSet(LAMBDA g : Effective(goal[g], from, to), Applicable(from, to))

\* _run_rate and daily_run_rate until the end of the current month; -1 is none.
RunRate(effective, actual) ==
  LET left == Working(day, LastDayOf(MonthAt(day)))
  IN IF left = 0 THEN -1 ELSE IF actual >= effective THEN 0 ELSE Quantize(effective - actual, left)

\* directed_achievement in units of Hundred; -1 where it is not configured.
Achievement(m, actual, baseline) ==
  IF baseline < 0 THEN -1
  ELSE IF m \in LowerBetter
  THEN IF actual = 0 THEN Hundred ELSE IF baseline = 0 THEN 0 ELSE Quantize(Hundred * baseline, actual)
  ELSE IF baseline = 0 THEN -1 ELSE Quantize(Hundred * actual, baseline)

\* weighted_contribution
Contribution(achievement, weight) ==
  IF achievement < 0 THEN 0
  ELSE Quantize((IF achievement > Hundred THEN Hundred ELSE achievement) * weight, Hundred)

\* _employee_kpi_components over the current month until today.
BaselineOf(m) ==
  IF m \notin FromGoals THEN Baseline
  ELSE IF Applicable(FirstDay(MonthAt(day)), day) = {} THEN -1
  ELSE EffectiveTarget(FirstDay(MonthAt(day)), day)
AchievedIn(m, actual) == Achievement(m, actual[m], BaselineOf(m))
Score(k, actual) ==
  MapThenSumSet(LAMBDA m : Contribution(AchievedIn(m, actual), card[k].metrics[m]), Measures)

-----------------------------------------------------------------------------
\* Whatever edits and switches of scorecards overlap, one card at most is active,
\* and it gives a score between 0 and 100, which is 100 to whoever meets every
\* metric: no edit gets into an active card with other weights (docs/targets-kpi.md:43,
\* _load_scorecard FOR UPDATE, weighted_contribution).
ScorecardSound ==
  \A k \in Cards : card[k].status = "active" =>
    /\ \A j \in Cards \ {k} : card[j].status # "active"
    /\ \A actual \in [Measures -> Actuals] :
         /\ Score(k, actual) \in 0..Hundred
         /\ (\A m \in Measures : card[k].metrics[m] > 0 => AchievedIn(m, actual) >= Hundred)
              => Score(k, actual) = Hundred

\* A target that is prorated grows to its whole value by the last working day of
\* its month, is never above it and counts once in every period; and whoever
\* meets the daily run rate on the working days that are left meets the target,
\* up to half a unit a day (_effective_target, _run_rate).
ProratedToWhole ==
  /\ \A g \in Goals : goal[g].active =>
       LET m == goal[g].month
           Until(d) == Effective(goal[g], FirstDay(m), d)
       IN /\ Until(day) \in 0..goal[g].value
          /\ \A d \in FirstDay(m)..LastDayOf(m) - 1 : Until(d) <= Until(d + 1)
          /\ m <= MonthAt(day) => Until(LastDayOf(m)) = goal[g].value
  /\ \A actual \in Actuals :
       LET rate == RunRate(EffectiveTarget(FirstDay(MonthAt(day)), day), actual)
           left == Working(day, LastDayOf(MonthAt(day)))
       IN rate > 0 =>
            2 * (actual + rate * left) >= 2 * EffectiveTarget(FirstDay(MonthAt(day)), day) - left

\* Both: the score of the active scorecard and the prorated target it is measured
\* against (_employee_kpi_components).
TargetsSound == ScorecardSound /\ ProratedToWhole

\* docs/targets-kpi.md:35: a locked month cannot be edited until it is reopened.
\* An edit under way when the month is locked is written: see the README.
LockedMonthStands ==
  [][\A g \in Goals :
       goal'[g].month \in lockedMonths => goal'[g] = goal[g]]_targetsVars
=============================================================================
