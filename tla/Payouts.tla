------------------------------- MODULE Payouts -------------------------------
(***************************************************************************)
(* Monthly payouts of commission (finance/service.py, finance/calc.py): the  *)
(* activation of commission rules, the generation of a month's period from   *)
(* the rule in force, its review, finalisation and reopening, adjustments    *)
(* and clawbacks, and the negative balance a recipient carries on.           *)
(*                                                                           *)
(* Concurrency.  Generating, finalising and reopening are serialised by the  *)
(* row lock of one Permission (_lock_payout_sequence); sequence is the       *)
(* transaction that holds it.  A review takes no more than the period's row, *)
(* as adjustments and clawbacks do: change[m] is the one that holds it.      *)
(* Activations hold the row of the bank's product; activation is the set of  *)
(* those that have passed the overlap query and wait to commit.              *)
(*                                                                           *)
(* Abstracted: the rules are those of one bank, product, variant and         *)
(* milestone; a month has one application that reached it, or none, and      *)
(* money is counted in cents.  Incentive plans and what refuses a request    *)
(* without a write (scope, missing recipients, amounts) are left out.        *)
(***************************************************************************)
EXTENDS Integers, FiniteSets, FiniteSetsExt, Functions

CONSTANTS
  LastMonth,    \* the months are 1..LastMonth
  Recipients,
  Rules,
  Independent,  \* the rules with a rate of its own for each recipient
  Covers,       \* Covers[c]: the months whose events rule c applies to
  Percent,      \* Percent[c]: the share of each of its recipients
  SortOrder,    \* SortOrder[r]: the configured order of recipient r
  Pools,        \* amounts a rule may come to in a month
  Corrections,  \* amounts of adjustments; negated, of clawbacks
  Cap,          \* bound: corrections of a recipient in a month stay within
  None

VARIABLES
  period,       \* period[m]: the status of the month's period
  components,   \* components[m]: what the period's components come to
  payout,       \* payout[m][r]: the payout row of r
  sequence,     \* the transaction that holds the payout sequence
  change,       \* change[m]: the correction that holds the period's row
  rule,         \* rule[c]: the status of rule c
  activation    \* the rules whose activation waits to commit

vars == <<period, components, payout, sequence, change, rule, activation>>
ledgerVars == <<period, components, payout>>
ruleVars == <<rule, activation>>

Months == 1..LastMonth

Payout == [carried: Int, gross: Int, payable: Nat, carry: Int]

ASSUME PayoutAssumption ==
  /\ LastMonth \in Nat /\ Cap \in Nat
  /\ IsFiniteSet(Recipients)
  /\ None \notin Rules \cup Recipients \cup Payout
  /\ Independent \subseteq Rules
  /\ Covers \in [Rules -> SUBSET Months]
  /\ SortOrder \in [Recipients -> Nat]
  /\ Pools \subseteq Nat /\ Corrections \subseteq Int \ {0}
  /\ \A c \in Rules :
       /\ DOMAIN Percent[c] \subseteq Recipients
       /\ Percent[c] \in [DOMAIN Percent[c] -> 1..100]

\* _validate_rule_payload: splits come to 100, sort orders are distinct.
ASSUME SplitAssumption ==
  /\ IsInjective(SortOrder)
  /\ \A c \in Rules \ Independent : SumFunction(Percent[c]) = 100

PeriodStatus == {"none", "draft", "review", "finalized"}
RuleStatus == {"draft", "active", "inactive"}

\* The commission of each recipient that has one, the rule and the pool it comes
\* from, and the sum of the adjustments and clawbacks recorded since.
Components ==
  [rule: Rules \cup {None}, pool: Nat,
   earned: [Recipients -> Nat \cup {None}],
   corrected: [Recipients -> Int]]

NoComponents ==
  [rule |-> None, pool |-> 0, earned |-> [r \in Recipients |-> None],
   corrected |-> [r \in Recipients |-> 0]]

\* Generation with what it has prepared; finalisation or reopening with the
\* period's row locked or not yet.
Generation == [op: {"generate"}, month: Months, prepared: Components]
Transition == [op: {"finalize", "reopen"}, month: Months, locked: BOOLEAN]

Correction == [recipient: Recipients, amount: Int]

TypeOK ==
  /\ period \in [Months -> PeriodStatus]
  /\ components \in [Months -> Components]
  /\ payout \in [Months -> [Recipients -> Payout \cup {None}]]
  /\ sequence \in Generation \cup Transition \cup {None}
  /\ change \in [Months -> Correction \cup {None}]
  /\ rule \in [Rules -> RuleStatus]
  /\ activation \subseteq Rules

Init ==
  /\ period = [m \in Months |-> "none"]
  /\ components = [m \in Months |-> NoComponents]
  /\ payout = [m \in Months |-> [r \in Recipients |-> None]]
  /\ sequence = None
  /\ change = [m \in Months |-> None]
  /\ rule = [c \in Rules |-> "draft"]
  /\ activation = {}

-----------------------------------------------------------------------------
(* Amounts.                                                                  *)

Floor(pool, c, r) == (pool * Percent[c][r]) \div 100
Remainder(pool, c, r) == (pool * Percent[c][r]) % 100

\* The recipients before r in the order of the remainders.
Ahead(pool, c, r) ==
  {q \in DOMAIN Percent[c] :
     \/ Remainder(pool, c, q) > Remainder(pool, c, r)
     \/ /\ Remainder(pool, c, q) = Remainder(pool, c, r)
        /\ SortOrder[q] < SortOrder[r]}

Residual(pool, c) ==
  pool - SumFunction([r \in DOMAIN Percent[c] |-> Floor(pool, c, r)])

\* largest_remainder_allocate.
Allocate(pool, c, r) ==
  Floor(pool, c, r)
    + IF Cardinality(Ahead(pool, c, r)) < Residual(pool, c) THEN 1 ELSE 0

\* _prepare_commission_components.  With a rate of its own each recipient gets
\* the same amount here: it depends on nothing but the rule.
Prepared(pool, c) ==
  [rule |-> c, pool |-> pool,
   earned |-> [r \in Recipients |->
                 IF r \notin DOMAIN Percent[c] THEN None
                 ELSE IF c \in Independent THEN pool ELSE Allocate(pool, c, r)],
   corrected |-> [r \in Recipients |-> 0]]

\* The payout a recipient carries on from: of the latest finalized earlier period
\* with one.
Previous(m, r) ==
  {k \in Months : k < m /\ period[k] = "finalized" /\ payout[k][r] # None}

\* Mutant: only the month before.
CarryIntoLastMonth(m, r) ==
  IF m - 1 \in Previous(m, r) THEN payout[m - 1][r].carry ELSE 0

CarryInto(m, r) ==
  IF Previous(m, r) = {} THEN 0 ELSE payout[Max(Previous(m, r))][r].carry

Earned(c, r) == IF c.earned[r] = None THEN 0 ELSE c.earned[r]

\* _refresh_payout: the row of r when the period's components are c.
Refreshed(m, r, c) ==
  LET carried == IF payout[m][r] = None THEN CarryInto(m, r)
                                        ELSE payout[m][r].carried
      gross == carried + Earned(c, r) + c.corrected[r]
  IN  [carried |-> carried, gross |-> gross,
       payable |-> IF gross > 0 THEN gross ELSE 0,
       carry |-> IF gross < 0 THEN gross ELSE 0]

-----------------------------------------------------------------------------
(* Rules: set_rule_status.                                                   *)

Overlap(c, d) == c # d /\ Covers[c] \cap Covers[d] # {}

\* Activation up to the overlap query, both rows locked.
CheckActivation(c) ==
  /\ rule[c] # "active" /\ activation = {}
  /\ ~ \E d \in Rules : rule[d] = "active" /\ Overlap(c, d)
  /\ activation' = activation \cup {c}
  /\ UNCHANGED <<ledgerVars, sequence, change, rule>>

CommitActivation(c) ==
  /\ c \in activation
  /\ rule' = [rule EXCEPT ![c] = "active"]
  /\ activation' = activation \ {c}
  /\ UNCHANGED <<ledgerVars, sequence, change>>

FailActivation(c) ==
  /\ c \in activation
  /\ activation' = activation \ {c}
  /\ UNCHANGED <<ledgerVars, sequence, change, rule>>

\* Deactivation takes the rule's row alone.
Deactivate(c) ==
  /\ rule[c] # "inactive" /\ c \notin activation
  /\ rule' = [rule EXCEPT ![c] = "inactive"]
  /\ UNCHANGED <<ledgerVars, sequence, change, activation>>

-----------------------------------------------------------------------------
(* Periods.                                                                  *)

InForce(m) == {c \in Rules : rule[c] = "active" /\ m \in Covers[c]}

HasLater(m) == \E k \in Months : k > m /\ period[k] # "none"

\* _assert_generation_order.
GenerationInOrder(m) ==
  /\ ~HasLater(m)
  /\ \A k \in Months : k < m => period[k] \in {"none", "finalized"}

\* generate_period up to the last component prepared.  Two rules in force refuse it
\* (_resolve_rule).
BeginGenerate(m) ==
  /\ sequence = None
  /\ period[m] = "none" /\ GenerationInOrder(m)
  /\ \/ \E c \in Rules, pool \in Pools :
          /\ InForce(m) = {c}
          /\ sequence' = [op |-> "generate", month |-> m, prepared |-> Prepared(pool, c)]
     \/ sequence' = [op |-> "generate", month |-> m, prepared |-> NoComponents]
  /\ UNCHANGED <<ledgerVars, change, ruleVars>>

\* The rest of generate_period: period, components and payouts in one commit.
CommitGenerate ==
  /\ sequence # None /\ sequence.op = "generate"
  /\ LET m == sequence.month IN
       /\ period' = [period EXCEPT ![m] = "draft"]
       /\ components' = [components EXCEPT ![m] = sequence.prepared]
       /\ payout' = [payout EXCEPT ![m] =
            [r \in Recipients |->
               IF sequence.prepared.earned[r] = None THEN payout[m][r]
               ELSE Refreshed(m, r, sequence.prepared)]]
  /\ sequence' = None
  /\ UNCHANGED <<change, ruleVars>>

\* The row of period m is not locked by another transaction.
RowFree(m) ==
  /\ change[m] = None
  /\ ~(sequence # None /\ sequence.op # "generate" /\ sequence.month = m /\ sequence.locked)

\* review_period.
Review(m) ==
  /\ period[m] = "draft" /\ RowFree(m)
  /\ period' = [period EXCEPT ![m] = "review"]
  /\ UNCHANGED <<components, payout, sequence, change, ruleVars>>

\* finalize_period and reopen_period up to _lock_payout_sequence.
BeginTransition(m, op) ==
  /\ sequence = None
  /\ sequence' = [op |-> op, month |-> m, locked |-> FALSE]
  /\ UNCHANGED <<ledgerVars, change, ruleVars>>

Expected(op) == IF op = "finalize" THEN "review" ELSE "finalized"

\* Mutant: a period is reopened though a later one exists.
LockPeriodAnyway ==
  /\ sequence # None /\ sequence.op # "generate" /\ ~sequence.locked
  /\ RowFree(sequence.month)
  /\ period[sequence.month] = Expected(sequence.op)
  /\ sequence' = [sequence EXCEPT !.locked = TRUE]
  /\ UNCHANGED <<ledgerVars, change, ruleVars>>

\* Mutant: the period's row is read without a lock.
LockPeriodUnlocked ==
  /\ sequence # None /\ sequence.op # "generate" /\ ~sequence.locked
  /\ period[sequence.month] = Expected(sequence.op)
  /\ sequence.op = "reopen" => ~HasLater(sequence.month)
  /\ sequence' = [sequence EXCEPT !.locked = TRUE]
  /\ UNCHANGED <<ledgerVars, change, ruleVars>>

\* The row lock and the checks under it.
LockPeriod ==
  /\ sequence # None /\ sequence.op # "generate" /\ ~sequence.locked
  /\ RowFree(sequence.month)
  /\ period[sequence.month] = Expected(sequence.op)
  /\ sequence.op = "reopen" => ~HasLater(sequence.month)
  /\ sequence' = [sequence EXCEPT !.locked = TRUE]
  /\ UNCHANGED <<ledgerVars, change, ruleVars>>

CommitTransition ==
  /\ sequence # None /\ sequence.op # "generate" /\ sequence.locked
  /\ period' = [period EXCEPT ![sequence.month] =
                  IF sequence.op = "finalize" THEN "finalized" ELSE "review"]
  /\ sequence' = None
  /\ UNCHANGED <<components, payout, change, ruleVars>>

\* A refused or lost request rolls back and releases the sequence.
FailSequence ==
  /\ sequence # None
  /\ sequence' = None
  /\ UNCHANGED <<ledgerVars, change, ruleVars>>

-----------------------------------------------------------------------------
(* Adjustments and clawbacks.                                                *)

\* An adjustment needs a commission of the recipient in this period, a clawback
\* an original in any.
Correctable(m, r, amount) ==
  \/ components[m].earned[r] # None
  \/ amount < 0 /\ \E k \in Months : components[k].earned[r] # None

\* add_adjustment, add_clawback: row lock, _require_editable and the reads.
BeginChange(m, r, amount) ==
  /\ RowFree(m) /\ period[m] \in {"draft", "review"}
  /\ Correctable(m, r, amount)
  /\ components[m].corrected[r] + amount \in -Cap..Cap
  /\ change' = [change EXCEPT ![m] = [recipient |-> r, amount |-> amount]]
  /\ UNCHANGED <<ledgerVars, sequence, ruleVars>>

\* The component, the payout refreshed with it, and the commit.
CommitChange(m) ==
  /\ change[m] # None
  /\ LET r == change[m].recipient
         c == [components[m] EXCEPT !.corrected[r] = @ + change[m].amount]
     IN  /\ components' = [components EXCEPT ![m] = c]
         /\ payout' = [payout EXCEPT ![m][r] = Refreshed(m, r, c)]
  /\ change' = [change EXCEPT ![m] = None]
  /\ UNCHANGED <<period, sequence, ruleVars>>

FailChange(m) ==
  /\ change[m] # None
  /\ change' = [change EXCEPT ![m] = None]
  /\ UNCHANGED <<ledgerVars, sequence, ruleVars>>

-----------------------------------------------------------------------------
NextRule(c) ==
  \/ CheckActivation(c) \/ CommitActivation(c) \/ FailActivation(c)
  \/ Deactivate(c)

NextPeriod(m) ==
  \/ BeginGenerate(m) \/ Review(m)
  \/ \E op \in {"finalize", "reopen"} : BeginTransition(m, op)
  \/ \E r \in Recipients, amount \in Corrections : BeginChange(m, r, amount)
  \/ CommitChange(m) \/ FailChange(m)

NextSequence ==
  CommitGenerate \/ LockPeriod \/ CommitTransition \/ FailSequence

Next ==
  \/ \E c \in Rules : NextRule(c)
  \/ \E m \in Months : NextPeriod(m)
  \/ NextSequence

Spec == Init /\ [][Next]_vars

-----------------------------------------------------------------------------
(* Properties.                                                               *)

\* Periods are worked in order: whatever lies before the latest one is final
\* (_assert_generation_order and _assert_no_downstream_period together).
InOrder == \A m \in Months : HasLater(m) => period[m] \in {"none", "finalized"}

Earlier(m, r) == {k \in Months : k < m /\ payout[k][r] # None}
Balance(m, r) ==
  IF Earlier(m, r) = {} THEN 0 ELSE payout[Max(Earlier(m, r))][r].carry

\* What a payout was given from the past is still what the past leaves behind: the
\* balance of the recipient's latest earlier payout, months without one skipped
\* (previous_carry in _refresh_payout).
CarriedExactly ==
  \A m \in Months, r \in Recipients :
    payout[m][r] # None => payout[m][r].carried = Balance(m, r)

Total(f) == SumFunctionOnSet(f, Months)

\* No cent is lost between the components and the payouts (_refresh_payout): what a
\* recipient is paid in all, with the balance still carried, is what the components
\* come to.
Conserved ==
  \A r \in Recipients :
    Total([m \in Months |-> Earned(components[m], r) + components[m].corrected[r]])
      = Total([m \in Months |-> IF payout[m][r] = None THEN 0 ELSE payout[m][r].payable])
          + Balance(LastMonth + 1, r)

\* No two active rules apply to one event, whatever activations overlap
\* (set_rule_status under the lock of the bank's product).
RulesDisjoint ==
  \A c, d \in Rules : rule[c] = "active" /\ rule[d] = "active" => ~Overlap(c, d)

\* A split pool is handed out to the cent (largest_remainder_allocate): each share is
\* exact up to one cent, and no recipient gets one of the cents left over before
\* another with a larger remainder, or an equal one and an earlier sort order.
SplitExact ==
  \A m \in Months : components[m].rule \in Rules \ Independent =>
    LET c == components[m].rule
        pool == components[m].pool
        extra(r) == components[m].earned[r] - Floor(pool, c, r)
    IN  /\ SumFunctionOnSet(components[m].earned, DOMAIN Percent[c]) = pool
        /\ \A r, q \in DOMAIN Percent[c] :
             /\ extra(r) \in {0, 1}
             /\ r \in Ahead(pool, c, q) => extra(q) <= extra(r)

\* Every cent goes from a pool to a share and from a component to a payout.
CentsKept == Conserved /\ SplitExact

\* A period that a later one has carried on from never changes, and a finalized one
\* changes its status only (FINANCE_PERIOD_LOCKED, FINANCE_PERIOD_HAS_DOWNSTREAM).
ClosedStands ==
  [][\A m \in Months :
       /\ period[m] = "finalized" => UNCHANGED <<components[m], payout[m]>>
       /\ HasLater(m) => UNCHANGED <<period[m], components[m], payout[m]>>]_vars
=============================================================================
