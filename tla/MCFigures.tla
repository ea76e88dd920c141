------------------------------ MODULE MCFigures -------------------------------
(***************************************************************************)
(* Small instances of the components about figures, side by side: payouts,   *)
(* reporting, targets and KPI scorecards, commission rules and plans; and    *)
(* beside them the sessions of a user.  A behaviour is one component's alone *)
(* and focus, which never changes, says whose.                               *)
(***************************************************************************)
EXTENDS MCPayouts, Reporting, Targets, Commission, Sessions

VARIABLE focus

CONSTANTS x1, x2, y1, y2, o1, o2

\* The components share the values that stand for what is interchangeable in each.
FiguresSymmetry ==
  Permutations({x1, x2}) \cup Permutations({y1, y2}) \cup Permutations({o1, o2})

\* A measure from sales and one entered as a quality score: weights of 10, and
\* of 9 in a draft that is not complete.
McDrafts == {("quality" :> 4 @@ "sales" :> 6), ("quality" :> 5 @@ "sales" :> 4)}

\* Rules with a fixed amount and by slabs, monthly plans, and points of a card.
McFixed == [method |-> "fixed", given |-> {"fixed"}, slabs |-> {}]
McSlabs(cut, low) ==
  {[low |-> 0, high |-> cut, order |-> 1], [low |-> low, high |-> NoTerm, order |-> 2]}
McRule(variant, from, to, calculation) ==
  [kind |-> "rule", variant |-> variant, milestone |-> "booked", from |-> from, to |-> to,
   mode |-> "split", share |-> ("owner" :> 60 @@ "manager" :> 40),
   calculations |-> {calculation}]
McSlabRule(variant, cut, low) ==
  McRule(variant, 2, 4, [method |-> "slab", given |-> {"slabs"}, slabs |-> McSlabs(cut, low)])
McPlan(from, to, cut, low) ==
  [kind |-> "plan", name |-> "monthly", from |-> from, to |-> to, slabs |-> McSlabs(cut, low)]
McCard == [kind |-> "card", variant |-> "v1", from |-> 1, to |-> 4]
McPayloads ==
  {McRule(General, 1, 4, McFixed), McRule("v1", 1, 2, McFixed),
   McSlabRule("v1", 1, 2), McSlabRule("v1", 2, 2),
   McPlan(1, 3, 1, 2), McPlan(3, 4, 3, 4), McPlan(1, 4, 2, 2), McCard}
McEvents ==
  {[case |-> 1, variant |-> "v1", milestone |-> "booked", day |-> 2, eligible |-> 2,
    pays |-> ("owner" :> "ann" @@ "manager" :> "bob")],
   [case |-> 2, variant |-> "v2", milestone |-> "booked", day |-> 2, eligible |-> 1,
    pays |-> ("owner" :> "bob" @@ "manager" :> "ann")],
   [case |-> 1, variant |-> "v1", milestone |-> "booked", day |-> 3, eligible |-> 1,
    pays |-> ("owner" :> "ann" @@ "manager" :> "bob")]}

\* The components that are not in focus stay in one initial state.  The
\* possible managers are employees created by hand.
FiguresInit ==
  /\ focus \in {"payouts", "reporting", "targets", "commission", "sessions"}
  /\ Init
  /\ ReportingInit
  /\ \A m \in Chiefs : chiefSpans[m] # << >>
  /\ focus # "reporting" =>
       /\ \A u \in Staff : chiefSpans[u] # << >>
       /\ \A u, v \in Credited \cup Leads : office[u] = office[v]
  /\ TargetsInit
  /\ CommissionInit
  /\ SessionsInit

FiguresNext ==
  \/ focus = "payouts" /\ Next
     /\ UNCHANGED <<focus, reportingVars, targetsVars, commissionVars, sessionsVars>>
  \/ focus = "reporting" /\ ReportingNext
     /\ UNCHANGED <<focus, vars, targetsVars, commissionVars, sessionsVars>>
  \/ focus = "targets" /\ TargetsNext
     /\ UNCHANGED <<focus, vars, reportingVars, commissionVars, sessionsVars>>
  \/ focus = "commission" /\ CommissionNext
     /\ UNCHANGED <<focus, vars, reportingVars, targetsVars, sessionsVars>>
  \/ focus = "sessions" /\ SessionsNext
     /\ UNCHANGED <<focus, vars, reportingVars, targetsVars, commissionVars>>

FiguresSpec ==
  FiguresInit
  /\ [][FiguresNext]_<<focus, vars, reportingVars, targetsVars, commissionVars, sessionsVars>>
=============================================================================
