------------------------------ MODULE Commission ------------------------------
(***************************************************************************)
(* What a payout is computed from (finance/service.py, finance/calc.py) and  *)
(* what a card earns (case_operations/service.py): commission rules,         *)
(* incentive plans and card rules are created with a version, then activated *)
(* and deactivated, and a generation looks up the one rule of each event,    *)
(* the one plan of the month and the one slab of each amount.  It refuses    *)
(* the whole month when it finds two; a card takes the newest.               *)
(*                                                                           *)
(* Concurrency.  A creation reads the highest version and inserts the next   *)
(* one later; a unique index decides between rivals (drafting).  An          *)
(* activation locks its own row, then one row that all rivals lock: the      *)
(* bank's product for rules, a Permission for plans, none for card rules.    *)
(* Then it asks for overlaps and commits (activating: those that have        *)
(* asked).  Deactivation locks its own row alone.                            *)
(*                                                                           *)
(* The rules are those of one bank and product; amounts are small integers,  *)
(* dates are days.  The split of an amount is in Payouts, the recipients of  *)
(* an event, which come from the histories of Reporting, are given here.     *)
(***************************************************************************)
EXTENDS Integers, FiniteSets, FiniteSetsExt

CONSTANTS
  Terms,        \* identities of rules and plans
  Payloads,     \* what requests for a new rule or plan may carry
  Variants,     \* the bank's product's variants
  General,      \* the variant of a rule for all of them
  MonthStarts,  \* the first days of the months
  Events,       \* milestones that applications reached
  NoTerm

VARIABLES
  term,         \* term[i]: the row of rule or plan i
  drafting,     \* drafting[i]: the request that creates it
  activating    \* the rules and plans whose activation has asked for overlaps

commissionVars == <<term, drafting, activating>>

\* The bounds of a slab are amounts; the upper one may be left open.
SlabsTyped(slabs) ==
  \A s \in slabs : s.low \in Nat /\ s.high \in Nat \cup {NoTerm}

\* A request that has counted its version, and a row.
Draft == [terms: Payloads, version: Nat]
Row == [terms: Payloads, version: Nat, status: {"draft", "active", "inactive"}]

ASSUME CommissionAssumption ==
  /\ General \notin Variants
  /\ MonthStarts \subseteq Nat
  /\ NoTerm \notin Nat \cup Draft \cup Row
  /\ IsFiniteSet(Terms) /\ IsFiniteSet(Events)
  /\ \A event \in Events : event.day \in Nat /\ event.eligible \in Nat

\* What a request that is well formed carries.
ASSUME PayloadAssumption ==
  \A payload \in Payloads :
    /\ payload.kind \in {"plan", "rule", "card"}
    /\ payload.from \in Nat /\ payload.to \in Nat
    /\ payload.kind = "plan" => SlabsTyped(payload.slabs)
    /\ payload.kind = "rule" =>
         \A calculation \in payload.calculations : SlabsTyped(calculation.slabs)

CommissionInit ==
  /\ term = [i \in Terms |-> NoTerm]
  /\ drafting = [i \in Terms |-> NoTerm]
  /\ activating = {}

-----------------------------------------------------------------------------
(* Validation.  A slab is [low, high, order], both ends included; high may be *)
(* NoTerm.  A calculation is a method, the fields given for it and its slabs. *)

Methods == {"fixed", "percentage", "flatPercentage", "slab"}

\* ranges_overlap.
Meets(s, u) ==
  /\ u.high # NoTerm => s.low <= u.high
  /\ s.high # NoTerm => u.low <= s.high

\* _validate_slab_ranges.
SlabsValid(slabs) ==
  /\ slabs # {}
  /\ \A s \in slabs : s.high # NoTerm => s.low <= s.high
  /\ \A s, u \in slabs : s # u => s.order # u.order /\ ~Meets(s, u)

Needs(method) ==
  CASE method = "fixed" -> {"fixed"}
    [] method = "percentage" -> {"rate"}
    [] method = "flatPercentage" -> {"flat", "rate"}
    [] method = "slab" -> {"slabs"}

\* _validate_method: exactly the fields of the method.
MethodValid(calculation) ==
  /\ calculation.method \in Methods
  /\ calculation.given = Needs(calculation.method)
  /\ calculation.method = "slab" => SlabsValid(calculation.slabs)

\* _validate_rule_payload: a split has one calculation and shares of 100 per cent,
\* independent rates one calculation for each recipient and no shares.
RuleValid(payload) ==
  /\ payload.from <= payload.to
  /\ \A calculation \in payload.calculations : MethodValid(calculation)
  /\ payload.mode = "split" =>
       /\ Cardinality(payload.calculations) = 1
       /\ MapThenSumSet(LAMBDA r : payload.share[r], DOMAIN payload.share) = 100

\* create_incentive_plan.
PlanValid(payload) ==
  /\ payload.from <= payload.to
  /\ SlabsValid(payload.slabs)

Valid(payload) ==
  CASE payload.kind = "plan" -> PlanValid(payload)
    [] payload.kind = "rule" -> RuleValid(payload)
    [] payload.kind = "card" -> payload.from <= payload.to

\* What versions are counted in: for plans the name, for rules variant and milestone,
\* for card rules the variant.
Series(payload) ==
  CASE payload.kind = "plan" -> <<"plan", payload.name>>
    [] payload.kind = "rule" -> <<"rule", payload.variant, payload.milestone>>
    [] payload.kind = "card" -> <<"card", payload.variant>>

Saved == {i \in Terms : term[i] # NoTerm}

-----------------------------------------------------------------------------
(* The handlers.                                                             *)

\* create_rule, create_incentive_plan and create_card_rule up to the commit.
BeginDraft(i, payload) ==
  /\ term[i] = NoTerm /\ drafting[i] = NoTerm
  /\ Valid(payload)
  /\ LET versions == {term[j].version : j \in {k \in Saved : Series(term[k].terms) = Series(payload)}}
     IN drafting' = [drafting EXCEPT ![i] =
          [terms |-> payload, version |-> 1 + Max({0} \cup versions)]]
  /\ UNCHANGED <<term, activating>>

\* uq_commission_rules_lane_variant_milestone_version, where NULLs are not
\* distinct, and the indexes on a plan's name and a card's variant with the version.
Taken(draft) ==
  \E j \in Saved :
    Series(term[j].terms) = Series(draft.terms) /\ term[j].version = draft.version

CommitDraft(i) ==
  /\ drafting[i] # NoTerm
  /\ ~Taken(drafting[i])
  /\ term' = [term EXCEPT ![i] =
       [terms |-> drafting[i].terms, version |-> drafting[i].version, status |-> "draft"]]
  /\ drafting' = [drafting EXCEPT ![i] = NoTerm]
  /\ UNCHANGED activating

\* The version is taken (409), or the request is lost.
DropDraft(i) ==
  /\ drafting[i] # NoTerm
  /\ drafting' = [drafting EXCEPT ![i] = NoTerm]
  /\ UNCHANGED <<term, activating>>

\* Mutant: plans are activated without the lock of the permission.
SameAnchorForRules(a, b) == a.kind = "rule" /\ b.kind = "rule"

\* The row that an activation locks after its own.
SameAnchor(a, b) == a.kind = b.kind /\ a.kind # "card"

\* What an activation takes for rivals: all plans, else those of the same series.
Rivals(a, b) ==
  \/ Series(a) = Series(b)
  \/ a.kind = "plan" /\ b.kind = "plan"

DatesMeet(a, b) == a.from <= b.to /\ b.from <= a.to

\* set_rule_status, set_incentive_plan_status and set_card_rule_status up to the
\* query for overlaps.
BeginTerm(i) ==
  /\ i \in Saved \ activating /\ term[i].status # "active"
  /\ \A j \in activating : ~SameAnchor(term[i].terms, term[j].terms)
  /\ Valid(term[i].terms)
  /\ \A j \in Saved \ {i} :
       ~ /\ term[j].status = "active"
         /\ Rivals(term[i].terms, term[j].terms)
         /\ DatesMeet(term[i].terms, term[j].terms)
  /\ activating' = activating \cup {i}
  /\ UNCHANGED <<term, drafting>>

CommitTerm(i) ==
  /\ i \in activating
  /\ term' = [term EXCEPT ![i].status = "active"]
  /\ activating' = activating \ {i}
  /\ UNCHANGED drafting

DropTerm(i) ==
  /\ i \in activating
  /\ activating' = activating \ {i}
  /\ UNCHANGED <<term, drafting>>

DeactivateTerm(i) ==
  /\ i \in Saved \ activating /\ term[i].status # "inactive"
  /\ term' = [term EXCEPT ![i].status = "inactive"]
  /\ UNCHANGED <<drafting, activating>>

CommissionNext ==
  \E i \in Terms :
    \/ \E payload \in Payloads : BeginDraft(i, payload)
    \/ CommitDraft(i) \/ DropDraft(i)
    \/ BeginTerm(i) \/ CommitTerm(i) \/ DropTerm(i)
    \/ DeactivateTerm(i)

CommissionSpec == CommissionInit /\ [][CommissionNext]_commissionVars

-----------------------------------------------------------------------------
(* What a generation looks up.                                               *)

TermsInForce(kind) ==
  {i \in Saved : term[i].status = "active" /\ term[i].terms.kind = kind}

SpanHas(i, day) == term[i].terms.from <= day /\ day <= term[i].terms.to

\* _resolve_rule: the rules for the application's own variant, if there are any,
\* before those for all variants.
RulesOf(event) ==
  LET applicable == {i \in TermsInForce("rule") :
                       /\ term[i].terms.milestone = event.milestone
                       /\ term[i].terms.variant \in {event.variant, General}
                       /\ SpanHas(i, event.day)}
      exact == {i \in applicable : term[i].terms.variant = event.variant}
  IN IF exact # {} THEN exact ELSE applicable

\* _resolve_incentive_plan: the plan in force on the first of the month.
PlansOf(start) == {i \in TermsInForce("plan") : SpanHas(i, start)}

\* _resolved_card_rule orders those in force by their version.
CardsOf(event) == {i \in TermsInForce("card") :
                     term[i].terms.variant = event.variant /\ SpanHas(i, event.day)}
NewestOf(I) == {i \in I : \A j \in I : term[j].version <= term[i].version}

\* single_matching_slab finds these.
Matching(slabs, amount) ==
  {s \in slabs : s.low <= amount /\ (s.high # NoTerm => amount <= s.high)}

\* calculate_component: no field of the method is missing, no slab ambiguous.
Computable(calculation, amount) ==
  /\ Needs(calculation.method) \subseteq calculation.given
  /\ calculation.method = "slab" =>
       Cardinality(Matching(calculation.slabs, amount)) <= 1

\* The month whose events those of the day are counted with.
StartOf(day) == Max({s \in MonthStarts : s <= day})

\* Whom an event pays by the rule that applies to it.
PaidBy(event) == UNION {{event.pays[r] : r \in DOMAIN term[i].terms.share} : i \in RulesOf(event)}

\* _prepare_incentive_components: an application that reached a milestone counts
\* once for a recipient, in however many roles the rule pays it to him.
Production(start, recipient) ==
  MapThenSumSet(LAMBDA event : event.eligible,
    {event \in Events : StartOf(event.day) = start /\ recipient \in PaidBy(event)})

Earners == UNION {{event.pays[r] : r \in DOMAIN event.pays} : event \in Events}

-----------------------------------------------------------------------------
\* A generation is never stopped by its own configuration, whatever creations and
\* activations overlap: the versions of a series differ, every event has at most
\* one rule, which can be computed at its amount, every month at most one plan, and
\* the production of each recipient at most one slab of it; a card never has two
\* newest rules, although overlapping ones may be active
\* (finance/service.py:1122, 1292, finance/calc.py:33, case_operations/service.py:667).
TermsUnambiguous ==
  /\ \A i, j \in Saved :
       i # j => \/ Series(term[i].terms) # Series(term[j].terms)
                \/ term[i].version # term[j].version
  /\ \A event \in Events :
       /\ Cardinality(RulesOf(event)) <= 1
       /\ \A i \in RulesOf(event) : \A calculation \in term[i].terms.calculations :
            Computable(calculation, event.eligible)
       /\ Cardinality(NewestOf(CardsOf(event))) <= 1
  /\ \A start \in MonthStarts :
       /\ Cardinality(PlansOf(start)) <= 1
       /\ \A i \in PlansOf(start), r \in Earners :
            Cardinality(Matching(term[i].terms.slabs, Production(start, r))) <= 1
=============================================================================
