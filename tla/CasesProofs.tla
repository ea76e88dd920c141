---------------------------- MODULE CasesProofs -----------------------------
(***************************************************************************)
(* Safety of the case modules for every value of their constants:          *)
(* CaseLifecycle, the handlers of one application, and Intake, how         *)
(* applications, customers and workflow versions come about.               *)
(***************************************************************************)
EXTENDS CaseLifecycle, Intake, FiniteSetTheorems, TLAPS

-----------------------------------------------------------------------------
(***************************************************************************)
(* CaseLifecycle, for any number of users, managers, stages and workflows: *)
(* types, the open occupancy of a live case, the agreement of the review   *)
(* chain with the routing columns, and the earning.                        *)
(***************************************************************************)

\* A stored row is a row: each column is a committed or a computed one (Store).
LEMMA StoreType ==
  ASSUME app \in Application, NEW old \in Application, NEW new \in Application,
         Store(old, new)
  PROVE  app' \in Application
BY DEF Application, Store, Col

\* What update_stage computes is a row.
LEMMA MovedType ==
  ASSUME NEW a \in Application, NEW t \in Stages, NEW amount \in BOOLEAN,
         NEW outcome \in Outcomes, NEW stopped \in BOOLEAN
  PROVE  [a EXCEPT !.stage = t, !.bookedAmount = amount, !.outcome = outcome,
                   !.tatStopped = stopped] \in Application
BY DEF Application

\* A locked request reads rows of the right types.
LEMMA NowType == RowTypes => Now \in Snapshot
BY DEF RowTypes, Now, Snapshot

\* update_application and the mutations behind the scope check keep the types,
\* whatever rows s they read.
LEMMA HandlerType ==
  ASSUME ModelAssumption, RowTypes, NEW u \in Users, NEW s \in Snapshot,
         UpdateApplication(u, s) \/ Processing(u, s)
  PROVE  RowTypes'
<1> USE DEF RowTypes, Snapshot
<1>0. s.app \in Application /\ FreshRows \subseteq Rows
  BY DEF FreshRows
<1>a. ASSUME NEW a \in Application, RecordCaseNumber(s, a)
      PROVE  /\ app' \in Application /\ openOcc' \subseteq Stages
             /\ delay' \subseteq Rows /\ numbers' \subseteq Rows
             /\ submissions' \in Nat
  <2>1. numbers' \subseteq Rows
    BY <1>0, <1>a DEF RecordCaseNumber, ReplaceNumber
  <2>2. CASE s.app.submitted
    BY <1>0, <1>a, <2>1, <2>2, StoreType DEF RecordCaseNumber
  <2>3. CASE ~s.app.submitted
    <3>1. PICK target \in SubmitTargets(a) :
            /\ Store(s.app, [a EXCEPT !.submitted = TRUE, !.stage = target,
                              !.tatStopped = @ \/ (~Live(a) /\ a.stage # target)])
            /\ submissions' = submissions + 1
            /\ MoveOccupancy(a.stage, target, ~Live(a))
      BY <1>a, <2>3 DEF RecordCaseNumber
    <3>2. target \in Stages
      BY ModelAssumption DEF SubmitTargets, StagesByKey, ModelAssumption
    <3>3. [a EXCEPT !.submitted = TRUE, !.stage = target,
                    !.tatStopped = @ \/ (~Live(a) /\ a.stage # target)] \in Application
      BY <1>a, <3>2 DEF Application
    <3>4. app' \in Application
      BY <1>0, <3>1, <3>3, StoreType
    <3> QED
      BY <2>1, <3>1, <3>2, <3>4 DEF MoveOccupancy
  <2> QED
    BY <2>2, <2>3
<1>1. CASE UpdateApplication(u, s)
  <2>1. PICK amount \in BOOLEAN, number \in BOOLEAN :
          LET a == [s.app EXCEPT !.bookedAmount = amount] IN
          IF number
          THEN RecordCaseNumber(s, a)
          ELSE Store(s.app, a) /\ UNCHANGED <<openOcc, delay, numbers, submissions>>
    BY <1>1 DEF UpdateApplication
  <2>2. [s.app EXCEPT !.bookedAmount = amount] \in Application
    BY <1>0 DEF Application
  <2>3. CASE number
    BY <1>1, <1>a, <2>1, <2>2, <2>3 DEF UpdateApplication
  <2>4. CASE ~number
    BY <1>0, <1>1, <2>1, <2>2, <2>4, StoreType DEF UpdateApplication
  <2> QED
    BY <2>3, <2>4
<1>2. CASE CaseNumberRoute(u, s)
  BY <1>0, <1>2, <1>a DEF CaseNumberRoute, SaveCaseNumber
<1>3. CASE CorrectSubmitted(u, s)
  <2>1. [s.app EXCEPT !.bookedAmount = TRUE] \in Application
    BY <1>0 DEF Application
  <2> QED
    BY <1>0, <1>3, <2>1, StoreType DEF CorrectSubmitted
<1>4. CASE ReassignCaseOwner(u, s)
  <2>1. PICK owner \in Owners : /\ Store(s.app, [s.app EXCEPT !.owner = owner])
                                /\ historyOwner' = owner
    BY <1>4 DEF ReassignCaseOwner
  <2>2. owner \in Users
    BY ModelAssumption DEF ModelAssumption, Users
  <2>3. [s.app EXCEPT !.owner = owner] \in Application
    BY <1>0, <2>2 DEF Application
  <2> QED
    BY <1>0, <1>4, <2>1, <2>2, <2>3, StoreType DEF ReassignCaseOwner
<1>5. ASSUME NEW given \in BOOLEAN, UpdateStage(u, s, given)
      PROVE  RowTypes'
  <2> DEFINE a      == s.app
             amount(t) == a.bookedAmount \/ (KeyOf[t] = "BOOKED" /\ given)
             funded(t) == KeyOf[t] = "FUND_RELEASED"
             moved(t)  == [a EXCEPT !.stage = t,
                             !.bookedAmount = amount(t),
                             !.outcome = IF funded(t) THEN "Completed" ELSE @,
                             !.tatStopped = @ \/ (funded(t) /\ a.stage # t)]
  <2>1. PICK t \in ActiveStages :
          /\ Store(a, moved(t))
          /\ MoveOccupancy(a.stage, t, funded(t))
          /\ PostEarning(moved(t)) \/ UNCHANGED earnings
          /\ UNCHANGED <<review, historyOwner, numbers, submissions>>
    BY <1>5 DEF UpdateStage
  <2>2. t \in Stages
    BY ModelAssumption DEF ModelAssumption
  <2>3. moved(t) \in Application
    <3>1. amount(t) \in BOOLEAN /\ (a.tatStopped \/ (funded(t) /\ a.stage # t)) \in BOOLEAN
      BY <1>0 DEF Application
    <3>2. (IF funded(t) THEN "Completed" ELSE a.outcome) \in Outcomes
      BY <1>0 DEF Application, Outcomes
    <3> HIDE DEF amount, funded
    <3> QED
      BY <1>0, <2>2, <3>1, <3>2, MovedType
  <2>4. app' \in Application
    BY <1>0, <2>1, <2>3, StoreType
  <2>5. earnings' \subseteq Earning
    BY <2>1, <2>3 DEF PostEarning, Earning, EarningType, Application
  <2> QED
    BY <2>1, <2>2, <2>4, <2>5 DEF MoveOccupancy
<1>6. CASE CorrectStage(u, s)
  <2>1. PICK target \in Stages : /\ Store(s.app, [s.app EXCEPT !.stage = target])
                                 /\ CorrectOccupancy(s.app.stage, target)
    BY <1>6 DEF CorrectStage
  <2>2. [s.app EXCEPT !.stage = target] \in Application
    BY <1>0 DEF Application
  <2> QED
    BY <1>0, <1>6, <2>1, <2>2, StoreType DEF CorrectStage, CorrectOccupancy
<1>7. CASE SetOutcome(u, s)
  <2>1. PICK outcome \in ManualOutcomes :
          Store(s.app, [s.app EXCEPT !.outcome = outcome, !.tatStopped = TRUE])
    BY <1>7 DEF SetOutcome
  <2>2. [s.app EXCEPT !.outcome = outcome, !.tatStopped = TRUE] \in Application
    BY <1>0 DEF Application, Outcomes
  <2> QED
    BY <1>0, <1>7, <2>1, <2>2, StoreType DEF SetOutcome, CloseOccupancy
<1>8. CASE MigrateApplication(u, s)
  <2>1. PICK target \in ActiveStages :
          /\ Store(s.app, [s.app EXCEPT !.workflow = WorkflowOf[target], !.stage = target])
          /\ MoveOccupancy(s.app.stage, target, FALSE)
    BY <1>8 DEF MigrateApplication
  <2>2. target \in Stages /\ WorkflowOf[target] \in Workflows
    BY ModelAssumption DEF ModelAssumption
  <2>3. [s.app EXCEPT !.workflow = WorkflowOf[target], !.stage = target] \in Application
    BY <1>0, <2>2 DEF Application
  <2> QED
    BY <1>0, <1>8, <2>1, <2>2, <2>3, StoreType DEF MigrateApplication, MoveOccupancy
<1>9. CASE MarkDelay(u, s) \/ CorrectDelay(u, s)
  BY <1>0, <1>9 DEF MarkDelay, CorrectDelay
<1> QED
  BY <1>1, <1>2, <1>3, <1>4, <1>5, <1>6, <1>7, <1>8, <1>9 DEF Processing

-----------------------------------------------------------------------------
(* The rows on which the handlers of managers are safe although they decide  *)
(* on stale copies.                                                          *)

RowInv ==
  /\ RowTypes
  /\ LiveOccupancy
  /\ ReviewMatchesRouting
  /\ EarningBacked

\* Columns and events that only locked handlers write.
Frame ==
  /\ app'.product = app.product
  /\ app'.bookedBy = app.bookedBy
  /\ app'.routing = app.routing
  /\ review' = review

\* A handler that leaves the booking columns of its copy alone leaves them alone
\* in the database, and a terminal outcome is never overwritten by "Open".
LEMMA StoreFrame ==
  ASSUME NEW old \in Application, NEW new \in Application, Store(old, new),
         new.bookedBy = old.bookedBy, new.routing = old.routing,
         Live(old) \/ new.outcome = old.outcome
  PROVE  /\ app'.product = app.product
         /\ app'.bookedBy = app.bookedBy
         /\ app'.routing = app.routing
         /\ app'.stage = Col(old.stage, new.stage, app.stage)
         /\ app'.outcome = Col(old.outcome, new.outcome, app.outcome)
         /\ ~Live(app) => ~Live(app')
BY DEF Store, Col, Live

\* A stage movement, decided on any copy that is behind the row, leaves a live
\* case with one open occupancy, for its stage.
LEMMA MoveKeepsOccupancy ==
  ASSUME LiveOccupancy, NEW old \in Application, NEW new \in Application,
         Behind(old), Store(old, new),
         new.bookedBy = old.bookedBy, new.routing = old.routing,
         Live(old) \/ new.outcome = old.outcome,
         MoveOccupancy(old.stage, new.stage, ~Live(new))
  PROVE  LiveOccupancy'
<1>1. /\ app'.stage = Col(old.stage, new.stage, app.stage)
      /\ app'.outcome = Col(old.outcome, new.outcome, app.outcome)
      /\ ~Live(app) => ~Live(app')
  BY StoreFrame
<1>2. CASE old.stage = new.stage
  BY <1>1, <1>2 DEF LiveOccupancy, MoveOccupancy, Col, Live
<1>3. CASE old.stage # new.stage /\ Live(new)
  BY <1>1, <1>3 DEF LiveOccupancy, MoveOccupancy, Col, Live
<1>4. CASE old.stage # new.stage /\ ~Live(new)
  BY <1>1, <1>4 DEF Col, Live, Behind, LiveOccupancy
<1> QED
  BY <1>2, <1>3, <1>4

\* An earning posted by update_stage from a copy that is behind the row.
LEMMA PostKeepsBacked ==
  ASSUME RowInv, Frame, NEW a \in Application, a.product = app.product,
         a.product = "PF", app.bookedBy # None,
         PostEarning(a) \/ UNCHANGED earnings
  PROVE  EarningBacked'
<1>1. CASE UNCHANGED earnings
  BY <1>1 DEF RowInv, Frame, EarningBacked, EarningType
<1>2. CASE PostEarning(a) /\ \E e \in earnings : e.type = EarningType(a.product)
  BY <1>2 DEF RowInv, Frame, EarningBacked, EarningType, PostEarning
<1>3. CASE PostEarning(a) /\ ~\E e \in earnings : e.type = EarningType(a.product)
  <2>1. earnings = {}
    BY <1>3 DEF RowInv, EarningBacked
  <2>2. earnings' = {[type |-> EarningType(a.product), owner |-> a.owner]}
    BY <1>3, <2>1 DEF PostEarning
  <2> QED
    BY <2>2 DEF RowInv, Frame, EarningBacked, EarningType
<1> QED
  BY <1>1, <1>2, <1>3

\* Every handler of a manager, on every copy that is behind the row.
LEMMA HandlerRowInv ==
  ASSUME ModelAssumption, RowInv, NEW u \in Users, NEW s \in Snapshot,
         Behind(s.app), UpdateApplication(u, s) \/ Processing(u, s)
  PROVE  RowInv' /\ Frame /\ (~Live(app) => ~Live(app'))
<1>0. s.app \in Application /\ RowTypes'
  BY HandlerType DEF RowInv, Snapshot
<1>a. ASSUME UNCHANGED earnings, Frame, LiveOccupancy'
      PROVE  RowInv'
  BY <1>0, <1>a DEF RowInv, Frame, ReviewMatchesRouting, EarningBacked, EarningType
<1>b. ASSUME NEW a \in Application, RecordCaseNumber(s, a), UNCHANGED <<review, earnings>>,
             a.stage = s.app.stage, a.outcome = s.app.outcome,
             a.bookedBy = s.app.bookedBy, a.routing = s.app.routing
      PROVE  RowInv' /\ Frame /\ (~Live(app) => ~Live(app'))
  <2>1. CASE s.app.submitted
    <3>1. Store(s.app, a) /\ UNCHANGED openOcc
      BY <1>b, <2>1 DEF RecordCaseNumber
    <3>2. Frame /\ app'.stage = app.stage /\ app'.outcome = app.outcome
      BY <1>0, <1>b, <3>1, StoreFrame DEF Frame, Col
    <3> QED
      BY <1>a, <1>b, <3>1, <3>2 DEF RowInv, LiveOccupancy, Live
  <2>2. CASE ~s.app.submitted
    <3>1. PICK target \in SubmitTargets(a) :
            /\ Store(s.app, [a EXCEPT !.submitted = TRUE, !.stage = target,
                              !.tatStopped = @ \/ (~Live(a) /\ a.stage # target)])
            /\ MoveOccupancy(a.stage, target, ~Live(a))
      BY <1>b, <2>2 DEF RecordCaseNumber
    <3> DEFINE new == [a EXCEPT !.submitted = TRUE, !.stage = target,
                                !.tatStopped = @ \/ (~Live(a) /\ a.stage # target)]
    <3>2. target \in Stages
      BY ModelAssumption DEF SubmitTargets, StagesByKey, ModelAssumption
    <3>3. /\ new \in Application /\ new.stage = target /\ new.outcome = a.outcome
          /\ new.bookedBy = a.bookedBy /\ new.routing = a.routing
      BY <1>b, <3>2 DEF Application
    <3>4. Store(s.app, new) /\ MoveOccupancy(s.app.stage, new.stage, ~Live(new))
      BY <1>b, <3>1, <3>3 DEF Live
    <3> HIDE DEF new
    <3>5. Frame /\ (~Live(app) => ~Live(app'))
      BY <1>0, <1>b, <3>3, <3>4, StoreFrame DEF Frame
    <3>6. LiveOccupancy'
      BY <1>0, <1>b, <3>3, <3>4, MoveKeepsOccupancy DEF RowInv
    <3> QED
      BY <1>a, <1>b, <3>5, <3>6
  <2> QED
    BY <2>1, <2>2
\* A handler that only rewrites columns other than the stage and the outcome.
<1>c. ASSUME NEW a \in Application, Store(s.app, a), UNCHANGED <<review, openOcc, earnings>>,
             a.stage = s.app.stage, a.outcome = s.app.outcome,
             a.bookedBy = s.app.bookedBy, a.routing = s.app.routing
      PROVE  RowInv' /\ Frame /\ (~Live(app) => ~Live(app'))
  <2>1. Frame /\ app'.stage = app.stage /\ app'.outcome = app.outcome
    BY <1>0, <1>c, StoreFrame DEF Frame, Col
  <2> QED
    BY <1>a, <1>c, <2>1 DEF RowInv, LiveOccupancy, Live
<1>1. CASE UpdateApplication(u, s)
  <2>1. PICK amount \in BOOLEAN, number \in BOOLEAN :
          LET a == [s.app EXCEPT !.bookedAmount = amount] IN
          IF number
          THEN RecordCaseNumber(s, a)
          ELSE Store(s.app, a) /\ UNCHANGED <<openOcc, delay, numbers, submissions>>
    BY <1>1 DEF UpdateApplication
  <2> DEFINE a == [s.app EXCEPT !.bookedAmount = amount]
  <2>2. /\ a \in Application /\ a.stage = s.app.stage /\ a.outcome = s.app.outcome
        /\ a.bookedBy = s.app.bookedBy /\ a.routing = s.app.routing
    BY <1>0 DEF Application
  <2>3. UNCHANGED <<review, earnings>>
    BY <1>1 DEF UpdateApplication
  <2>4. CASE number
    <3>1. RecordCaseNumber(s, a)
      BY <2>1, <2>4
    <3> HIDE DEF a
    <3> QED
      BY <1>b, <2>2, <2>3, <3>1
  <2>5. CASE ~number
    <3>1. Store(s.app, a) /\ UNCHANGED openOcc
      BY <2>1, <2>5
    <3> HIDE DEF a
    <3> QED
      BY <1>c, <2>2, <2>3, <3>1
  <2> QED
    BY <2>4, <2>5
<1>2. CASE CaseNumberRoute(u, s)
  <2>1. RecordCaseNumber(s, s.app) /\ UNCHANGED <<review, earnings>>
    BY <1>2 DEF CaseNumberRoute, SaveCaseNumber
  <2> QED
    BY <1>0, <1>b, <2>1
<1>3. CASE CorrectSubmitted(u, s)
  <2> DEFINE a == [s.app EXCEPT !.bookedAmount = TRUE]
  <2>1. /\ a \in Application /\ a.stage = s.app.stage /\ a.outcome = s.app.outcome
        /\ a.bookedBy = s.app.bookedBy /\ a.routing = s.app.routing
    BY <1>0 DEF Application
  <2>2. Store(s.app, a) /\ UNCHANGED <<review, openOcc, earnings>>
    BY <1>3 DEF CorrectSubmitted
  <2> HIDE DEF a
  <2> QED
    BY <1>c, <2>1, <2>2
<1>4. CASE ReassignCaseOwner(u, s)
  <2>1. PICK owner \in Owners : Store(s.app, [s.app EXCEPT !.owner = owner])
    BY <1>4 DEF ReassignCaseOwner
  <2> DEFINE a == [s.app EXCEPT !.owner = owner]
  <2>2. owner \in Users
    BY ModelAssumption DEF ModelAssumption, Users
  <2>3. /\ a \in Application /\ a.stage = s.app.stage /\ a.outcome = s.app.outcome
        /\ a.bookedBy = s.app.bookedBy /\ a.routing = s.app.routing
    BY <1>0, <2>2 DEF Application
  <2>4. Store(s.app, a) /\ UNCHANGED <<review, openOcc, earnings>>
    BY <1>4, <2>1 DEF ReassignCaseOwner
  <2> HIDE DEF a
  <2> QED
    BY <1>c, <2>3, <2>4
<1>5. ASSUME NEW given \in BOOLEAN, UpdateStage(u, s, given)
      PROVE  RowInv' /\ Frame /\ (~Live(app) => ~Live(app'))
  <2> DEFINE a      == s.app
             amount(t) == a.bookedAmount \/ (KeyOf[t] = "BOOKED" /\ given)
             funded(t) == KeyOf[t] = "FUND_RELEASED"
             moved(t)  == [a EXCEPT !.stage = t,
                             !.bookedAmount = amount(t),
                             !.outcome = IF funded(t) THEN "Completed" ELSE @,
                             !.tatStopped = @ \/ (funded(t) /\ a.stage # t)]
  <2>1. PICK t \in ActiveStages :
          /\ Live(a)
          /\ Store(a, moved(t))
          /\ MoveOccupancy(a.stage, t, funded(t))
          /\ IF t \in Successful /\ a.product = "PF" /\ a.bookedBy # None
             THEN PostEarning(moved(t))
             ELSE UNCHANGED earnings
          /\ UNCHANGED review
    BY <1>5 DEF UpdateStage
  <2>2. t \in Stages
    BY ModelAssumption DEF ModelAssumption
  <2>3. moved(t) \in Application
    <3>1. amount(t) \in BOOLEAN /\ (a.tatStopped \/ (funded(t) /\ a.stage # t)) \in BOOLEAN
      BY <1>0 DEF Application
    <3>2. (IF funded(t) THEN "Completed" ELSE a.outcome) \in Outcomes
      BY <1>0 DEF Application, Outcomes
    <3> HIDE DEF amount, funded
    <3> QED
      BY <1>0, <2>2, <3>1, <3>2, MovedType
  <2>4. /\ moved(t).stage = t /\ moved(t).product = a.product
        /\ moved(t).bookedBy = a.bookedBy /\ moved(t).routing = a.routing
        /\ moved(t).outcome = IF funded(t) THEN "Completed" ELSE a.outcome
    BY <1>0 DEF Application
  <2> HIDE DEF moved, funded
  <2>5. MoveOccupancy(a.stage, moved(t).stage, ~Live(moved(t)))
    BY <2>1, <2>4 DEF Live, MoveOccupancy
  <2>6. Frame /\ (~Live(app) => ~Live(app'))
    BY <1>0, <2>1, <2>3, <2>4, StoreFrame DEF Frame
  <2>7. LiveOccupancy'
    BY <1>0, <2>1, <2>3, <2>4, <2>5, MoveKeepsOccupancy DEF RowInv
  <2>8. CASE UNCHANGED earnings
    BY <1>a, <2>6, <2>7, <2>8
  <2>9. CASE a.product = "PF" /\ a.bookedBy # None /\ PostEarning(moved(t))
    <3>1. EarningBacked'
      BY <2>3, <2>4, <2>6, <2>9, PostKeepsBacked DEF Behind
    <3> QED
      BY <1>0, <2>6, <2>7, <3>1 DEF RowInv, Frame, ReviewMatchesRouting
  <2> QED
    BY <2>1, <2>8, <2>9
<1>6. CASE CorrectStage(u, s)
  <2>1. PICK target \in Stages : /\ Store(s.app, [s.app EXCEPT !.stage = target])
                                 /\ CorrectOccupancy(s.app.stage, target)
    BY <1>6 DEF CorrectStage
  <2> DEFINE a == [s.app EXCEPT !.stage = target]
  <2>2. /\ a \in Application /\ a.stage = target /\ a.outcome = s.app.outcome
        /\ a.bookedBy = s.app.bookedBy /\ a.routing = s.app.routing
    BY <1>0 DEF Application
  <2>3. Store(s.app, a) /\ UNCHANGED <<review, earnings>>
    BY <1>6, <2>1 DEF CorrectStage
  <2> HIDE DEF a
  <2>4. /\ Frame /\ app'.outcome = app.outcome
        /\ app'.stage = Col(s.app.stage, target, app.stage)
    BY <1>0, <2>2, <2>3, StoreFrame DEF Frame, Col
  <2>5. LiveOccupancy'
    BY <2>1, <2>4 DEF RowInv, LiveOccupancy, Live, Col, CorrectOccupancy
  <2> QED
    BY <1>a, <2>3, <2>4, <2>5 DEF Live
<1>7. CASE SetOutcome(u, s)
  <2>1. PICK outcome \in ManualOutcomes :
          Store(s.app, [s.app EXCEPT !.outcome = outcome, !.tatStopped = TRUE])
    BY <1>7 DEF SetOutcome
  <2> DEFINE a == [s.app EXCEPT !.outcome = outcome, !.tatStopped = TRUE]
  <2>2. /\ a \in Application /\ a.stage = s.app.stage /\ a.outcome = outcome
        /\ a.bookedBy = s.app.bookedBy /\ a.routing = s.app.routing
    BY <1>0 DEF Application, Outcomes
  <2>3. Store(s.app, a) /\ Live(s.app) /\ UNCHANGED <<review, earnings>>
    BY <1>7, <2>1 DEF SetOutcome
  <2> HIDE DEF a
  <2>4. outcome # "Open"
    BY ModelAssumption DEF ModelAssumption
  <2>5. Frame /\ app'.outcome = outcome
    BY <1>0, <2>2, <2>3, <2>4, StoreFrame DEF Frame, Col, Live
  <2> QED
    BY <1>a, <2>3, <2>4, <2>5 DEF LiveOccupancy, Live
<1>8. CASE MigrateApplication(u, s)
  <2>1. PICK target \in ActiveStages :
          /\ Store(s.app, [s.app EXCEPT !.workflow = WorkflowOf[target], !.stage = target])
          /\ MoveOccupancy(s.app.stage, target, FALSE)
    BY <1>8 DEF MigrateApplication
  <2> DEFINE a == [s.app EXCEPT !.workflow = WorkflowOf[target], !.stage = target]
  <2>2. target \in Stages /\ WorkflowOf[target] \in Workflows
    BY ModelAssumption DEF ModelAssumption
  <2>3. /\ a \in Application /\ a.stage = target /\ a.outcome = s.app.outcome
        /\ a.bookedBy = s.app.bookedBy /\ a.routing = s.app.routing
    BY <1>0, <2>2 DEF Application
  <2>4. Store(s.app, a) /\ Live(s.app) /\ UNCHANGED <<review, earnings>>
    BY <1>8, <2>1 DEF MigrateApplication
  <2> HIDE DEF a
  <2>5. Frame /\ (~Live(app) => ~Live(app'))
    BY <1>0, <2>3, <2>4, StoreFrame DEF Frame
  <2>6. MoveOccupancy(s.app.stage, a.stage, ~Live(a))
    BY <2>1, <2>3, <2>4 DEF MoveOccupancy, Live
  <2>7. LiveOccupancy'
    BY <1>0, <2>3, <2>4, <2>6, MoveKeepsOccupancy DEF RowInv
  <2> QED
    BY <1>a, <2>4, <2>5, <2>7
<1>9. CASE MarkDelay(u, s) \/ CorrectDelay(u, s)
  <2>1. UNCHANGED <<app, review, openOcc, earnings>>
    BY <1>9 DEF MarkDelay, CorrectDelay
  <2> QED
    BY <1>a, <2>1 DEF Frame, RowInv, LiveOccupancy, Live
<1> QED
  BY <1>1, <1>2, <1>3, <1>4, <1>5, <1>6, <1>7, <1>8, <1>9 DEF Processing

-----------------------------------------------------------------------------
(* The inductive invariant: the rows, and open requests that read rows which *)
(* are behind the committed ones.                                            *)

Inv == TypeOK /\ RowInv /\ SnapshotsBehind

LEMMA InitInv ==
  ASSUME ModelAssumption, Init
  PROVE  Inv
<1>1. PICK owner \in Owners, product \in Products, status \in Reviews,
           entry \in {st \in ActiveStages : KeyOf[st] = "APPLICATION_CREATED"},
           tl \in {u \in Staff : Role[u] = "TL"} \cup {None} :
        /\ app = [workflow |-> WorkflowOf[entry], stage |-> entry,
                  outcome |-> "Open", product |-> product, owner |-> owner,
                  bookedBy |-> None, manager |-> None, coordinator |-> None,
                  routing |-> "none", submitted |-> FALSE,
                  bookedAmount |-> FALSE, tatStopped |-> FALSE]
        /\ review = [status |-> status, tl |-> tl]
        /\ openOcc = {entry}
        /\ historyOwner = owner
  BY DEF Init
<1>2. entry \in Stages /\ WorkflowOf[entry] \in Workflows /\ owner \in Users
      /\ tl \in Users \cup {None}
      /\ status \in {"legacy", "forwarded", "pending_review"}
  BY ModelAssumption DEF ModelAssumption, Users
<1>3. delay = {} /\ numbers = {} /\ submissions = 0 /\ earnings = {}
      /\ tx = [m \in Managers |-> None]
  BY DEF Init
<1>4. RowTypes
  BY <1>1, <1>2, <1>3 DEF RowTypes, Application, Outcomes, Routings, ReviewStates
<1>5. TypeOK /\ SnapshotsBehind
  BY <1>3, <1>4 DEF TypeOK, SnapshotsBehind
<1>6. LiveOccupancy /\ ReviewMatchesRouting /\ EarningBacked
  BY <1>1, <1>2, <1>3 DEF LiveOccupancy, ReviewMatchesRouting, EarningBacked
<1> QED
  BY <1>4, <1>5, <1>6 DEF Inv, RowInv

\* The requests that keep what open requests have read valid: the product
\* stays, bookings stay, terminal cases stay terminal.
LEMMA StillBehind ==
  ASSUME SnapshotsBehind, UNCHANGED tx, app'.product = app.product,
         app.bookedBy # None => app'.bookedBy # None,
         ~Live(app) => ~Live(app')
  PROVE  SnapshotsBehind'
BY DEF SnapshotsBehind, Behind, Live

\* A handler that locks the row decides on what is committed.
LEMMA NowBehind == Behind(Now.app)
BY DEF Behind, Now, Live

\* The handlers of the internal review and of the bank submission, which write
\* the booking columns and the review event together.
LEMMA PipelineInv ==
  ASSUME ModelAssumption, Inv, NEW u \in Staff,
         \/ ReturnForCorrection(u) \/ Resubmit(u) \/ BookCase(u)
         \/ SalesManagerDecision(u) \/ SubmitBankFile(u)
  PROVE  Inv'
<1>0. /\ RowTypes /\ LiveOccupancy /\ ReviewMatchesRouting /\ EarningBacked
      /\ SnapshotsBehind /\ app \in Application /\ u \in Users
      /\ tx \in [Managers -> Snapshot \cup {None}]
  BY DEF Inv, RowInv, RowTypes, TypeOK, Users
<1>a. UNCHANGED tx
  BY DEF ReturnForCorrection, Resubmit, BookCase, SalesManagerDecision, SubmitBankFile
<1>1. CASE ReturnForCorrection(u)
  <2>1. /\ UNCHANGED <<app, openOcc, delay, historyOwner, numbers, submissions, earnings>>
        /\ review.status \in {"pending_review", "resubmitted"}
        /\ review' = [review EXCEPT !.status = "returned"]
    BY <1>1 DEF ReturnForCorrection
  <2>2. review'.status = "returned" /\ RowTypes'
    BY <1>0, <2>1 DEF RowTypes, ReviewStates
  <2>3. LiveOccupancy' /\ ReviewMatchesRouting' /\ EarningBacked'
    BY <1>0, <2>1, <2>2 DEF LiveOccupancy, ReviewMatchesRouting, EarningBacked, Live
  <2> QED
    BY <1>0, <1>a, <2>1, <2>2, <2>3, StillBehind DEF Inv, RowInv, TypeOK
<1>2. CASE Resubmit(u)
  <2>1. /\ UNCHANGED <<app, openOcc, delay, historyOwner, numbers, submissions, earnings>>
        /\ review.status = "returned"
        /\ review' = [review EXCEPT !.status = "resubmitted"]
    BY <1>2 DEF Resubmit
  <2>2. review'.status = "resubmitted" /\ RowTypes'
    BY <1>0, <2>1 DEF RowTypes, ReviewStates
  <2>3. LiveOccupancy' /\ ReviewMatchesRouting' /\ EarningBacked'
    BY <1>0, <2>1, <2>2 DEF LiveOccupancy, ReviewMatchesRouting, EarningBacked, Live
  <2> QED
    BY <1>0, <1>a, <2>1, <2>2, <2>3, StillBehind DEF Inv, RowInv, TypeOK
<1>3. CASE BookCase(u)
  <2>1. PICK m \in Staff, c \in Staff :
          Store(app, [app EXCEPT !.bookedBy = u, !.manager = m,
                                 !.coordinator = c, !.routing = "booked"])
    BY <1>3 DEF BookCase
  <2> DEFINE new == [app EXCEPT !.bookedBy = u, !.manager = m,
                                !.coordinator = c, !.routing = "booked"]
  <2>2. /\ new \in Application
        /\ new.stage = app.stage /\ new.outcome = app.outcome
        /\ new.bookedBy = u /\ new.routing = "booked"
    BY <1>0 DEF Application, Routings, Users
  <2>3. Store(app, new)
    BY <2>1
  <2> HIDE DEF new
  <2>4. /\ app' \in Application /\ app'.product = app.product
        /\ app'.stage = app.stage /\ app'.outcome = app.outcome
        /\ app'.bookedBy = u /\ app'.routing = "booked"
    BY <1>0, <2>2, <2>3, StoreType DEF Store, Col
  <2>5. /\ review' = [status |-> "booked", tl |-> u]
        /\ UNCHANGED <<openOcc, delay, historyOwner, numbers, submissions, earnings>>
        /\ app.bookedBy # None => app.routing = "returned"
    BY <1>3 DEF BookCase
  <2>6. u # None
    BY ModelAssumption DEF ModelAssumption
  <2>7. RowTypes'
    BY <1>0, <2>4, <2>5 DEF RowTypes, ReviewStates
  <2>8. LiveOccupancy' /\ ReviewMatchesRouting'
    BY <1>0, <2>4, <2>5, <2>6 DEF LiveOccupancy, ReviewMatchesRouting, Live
  <2>9. EarningBacked'
    BY <1>0, <2>4, <2>5, <2>6 DEF EarningBacked, ReviewMatchesRouting, EarningType
  <2> QED
    BY <1>0, <1>a, <2>4, <2>6, <2>7, <2>8, <2>9, StillBehind DEF Inv, RowInv, TypeOK, Live
<1>4. CASE SalesManagerDecision(u)
  <2>1. PICK decision \in {"sm_approved", "returned"} :
          /\ Store(app, [app EXCEPT !.routing = decision])
          /\ review' = [status |-> decision, tl |-> app.bookedBy]
    BY <1>4 DEF SalesManagerDecision
  <2> DEFINE new == [app EXCEPT !.routing = decision]
  <2>2. /\ new \in Application /\ new.routing = decision
        /\ new.stage = app.stage /\ new.outcome = app.outcome
        /\ new.bookedBy = app.bookedBy
    BY <1>0 DEF Application, Routings
  <2>3. Store(app, new)
    BY <2>1
  <2> HIDE DEF new
  <2>4. /\ app' \in Application /\ app'.product = app.product
        /\ app'.stage = app.stage /\ app'.outcome = app.outcome
        /\ app'.bookedBy = app.bookedBy /\ app'.routing = decision
    BY <1>0, <2>2, <2>3, StoreType DEF Store, Col
  <2>5. /\ app.routing = "booked" /\ review.status = "booked"
        /\ UNCHANGED <<openOcc, delay, historyOwner, numbers, submissions, earnings>>
    BY <1>4 DEF SalesManagerDecision
  <2>6. RowTypes'
    BY <1>0, <2>1, <2>4, <2>5 DEF RowTypes, ReviewStates, Application
  <2>7. LiveOccupancy' /\ ReviewMatchesRouting'
    BY <1>0, <2>1, <2>4, <2>5 DEF LiveOccupancy, ReviewMatchesRouting, Live
  <2>8. EarningBacked'
    BY <1>0, <2>1, <2>4, <2>5 DEF EarningBacked, EarningType
  <2> QED
    BY <1>0, <1>a, <2>4, <2>6, <2>7, <2>8, StillBehind DEF Inv, RowInv, TypeOK, Live
<1>5. CASE SubmitBankFile(u)
  <2>0. /\ app.routing = "sm_approved" /\ Live(app) /\ ~app.submitted
        /\ UNCHANGED <<review, historyOwner>>
    BY <1>5 DEF SubmitBankFile, ReadyForBank
  <2>1. app.bookedBy # None /\ review.status = "sm_approved"
    BY <1>0, <2>0 DEF ReviewMatchesRouting
  <2>2. FreshRows \subseteq Rows
    BY DEF FreshRows
  <2>3. CASE app.product # "CC"
    <3>1. RecordCaseNumber(Now, [app EXCEPT !.routing = "submitted"]) /\ UNCHANGED earnings
      BY <1>5, <2>3 DEF SubmitBankFile
    <3> DEFINE a == [app EXCEPT !.routing = "submitted"]
    <3>2. /\ a \in Application /\ a.stage = app.stage /\ a.outcome = app.outcome
          /\ a.bookedBy = app.bookedBy /\ a.routing = "submitted"
      BY <1>0 DEF Application, Routings
    <3>3. RecordCaseNumber(Now, a)
      BY <3>1
    <3> HIDE DEF a
    <3>4. PICK target \in SubmitTargets(a) :
            /\ Store(app, [a EXCEPT !.submitted = TRUE, !.stage = target,
                              !.tatStopped = @ \/ (~Live(a) /\ a.stage # target)])
            /\ submissions' = submissions + 1
            /\ MoveOccupancy(a.stage, target, ~Live(a))
      BY <2>0, <3>3 DEF RecordCaseNumber, Now
    <3> DEFINE new == [a EXCEPT !.submitted = TRUE, !.stage = target,
                              !.tatStopped = @ \/ (~Live(a) /\ a.stage # target)]
    <3>5. target \in Stages
      BY ModelAssumption DEF SubmitTargets, StagesByKey, ModelAssumption
    <3>6. /\ new \in Application /\ new.stage = target /\ new.outcome = app.outcome
          /\ new.bookedBy = app.bookedBy /\ new.routing = "submitted"
      BY <3>2, <3>5 DEF Application
    <3>7. Store(app, new)
      BY <3>4
    <3> HIDE DEF new
    <3>8. /\ app' \in Application /\ app'.product = app.product
          /\ app'.stage = target /\ app'.outcome = app.outcome
          /\ app'.bookedBy = app.bookedBy /\ app'.routing = "submitted"
      BY <1>0, <3>6, <3>7, StoreType DEF Store, Col
    <3>9. /\ openOcc' = IF app.stage = target THEN openOcc ELSE {target}
          /\ delay' \subseteq Rows
      BY <1>0, <2>0, <3>2, <3>4 DEF MoveOccupancy, Live, RowTypes
    <3>10. numbers' \subseteq Rows
      BY <1>0, <2>2, <3>3 DEF RecordCaseNumber, ReplaceNumber, Now, RowTypes
    <3>11. RowTypes'
      BY <1>0, <2>0, <3>1, <3>4, <3>5, <3>8, <3>9, <3>10 DEF RowTypes
    <3>12. LiveOccupancy' /\ ReviewMatchesRouting'
      BY <1>0, <2>0, <2>1, <3>8, <3>9 DEF LiveOccupancy, ReviewMatchesRouting, Live
    <3>13. EarningBacked'
      BY <1>0, <2>3, <3>1, <3>8 DEF EarningBacked, EarningType
    <3> QED
      BY <1>0, <1>a, <2>1, <3>8, <3>11, <3>12, <3>13, StillBehind
      DEF Inv, RowInv, TypeOK, Live
  <2>4. CASE app.product = "CC"
    <3>1. /\ ReplaceNumber(Now)
          /\ submissions' = submissions + 1
          /\ CloseOccupancy
          /\ PostEarning(app)
      BY <1>5, <2>4 DEF SubmitBankFile
    <3>2. PICK target \in SubmitTargets(app) :
            Store(app, [app EXCEPT !.submitted = TRUE, !.stage = target,
                                   !.routing = "closed", !.outcome = "Completed",
                                   !.tatStopped = TRUE])
      BY <1>5, <2>4 DEF SubmitBankFile
    <3> DEFINE new == [app EXCEPT !.submitted = TRUE, !.stage = target,
                                  !.routing = "closed", !.outcome = "Completed",
                                  !.tatStopped = TRUE]
    <3>3. target \in Stages
      BY ModelAssumption DEF SubmitTargets, StagesByKey, ModelAssumption
    <3>4. /\ new \in Application /\ new.outcome = "Completed"
          /\ new.bookedBy = app.bookedBy /\ new.routing = "closed"
      BY <1>0, <3>3 DEF Application, Routings, Outcomes
    <3>5. Store(app, new)
      BY <3>2
    <3> HIDE DEF new
    <3>6. /\ app' \in Application /\ app'.product = app.product
          /\ app'.outcome = "Completed"
          /\ app'.bookedBy = app.bookedBy /\ app'.routing = "closed"
      BY <1>0, <3>4, <3>5, StoreType DEF Store, Col
    <3>7. numbers' \subseteq Rows
      BY <1>0, <2>2, <3>1 DEF ReplaceNumber, Now, RowTypes
    <3>8. earnings = {}
      BY <1>0, <2>0, <2>4 DEF EarningBacked
    <3>9. earnings' = {[type |-> "card_points", owner |-> app.owner]}
      BY <2>4, <3>1, <3>8 DEF PostEarning, EarningType
    <3>10. RowTypes'
      BY <1>0, <2>0, <3>1, <3>6, <3>7, <3>9 DEF RowTypes, CloseOccupancy, Earning, Application
    <3>11. LiveOccupancy' /\ ReviewMatchesRouting'
      BY <2>0, <2>1, <3>6 DEF LiveOccupancy, ReviewMatchesRouting, Live
    <3>12. EarningBacked'
      BY <2>1, <2>4, <3>6, <3>9 DEF EarningBacked, EarningType
    <3> QED
      BY <1>0, <1>a, <2>1, <3>6, <3>10, <3>11, <3>12, StillBehind
      DEF Inv, RowInv, TypeOK, Live
  <2> QED
    BY <2>3, <2>4
<1> QED
  BY <1>1, <1>2, <1>3, <1>4, <1>5

LEMMA NextInv ==
  ASSUME ModelAssumption, Inv, [Next]_vars
  PROVE  Inv'
<1>0. /\ RowInv /\ RowTypes /\ SnapshotsBehind
      /\ tx \in [Managers -> Snapshot \cup {None}]
  BY DEF Inv, RowInv, TypeOK
<1>a. ASSUME NEW u \in Users, UpdateApplication(u, Now) \/ Processing(u, Now), UNCHANGED tx
      PROVE  Inv'
  <2>1. Now \in Snapshot /\ Behind(Now.app)
    BY <1>0, NowType, NowBehind
  <2>2. RowInv' /\ Frame /\ (~Live(app) => ~Live(app'))
    BY <1>0, <1>a, <2>1, HandlerRowInv
  <2>3. SnapshotsBehind'
    BY <1>0, <1>a, <2>2, StillBehind DEF Frame
  <2> QED
    BY <1>0, <1>a, <2>2, <2>3 DEF Inv, TypeOK, RowInv
<1>1. ASSUME NEW u \in Staff, StaffStep(u)
      PROVE  Inv'
  <2>1. u \in Users
    BY DEF Users
  <2>2. CASE StaffMutation(u)
    BY <1>a, <2>1, <2>2 DEF StaffMutation
  <2>3. CASE ImportStageRow(u)
    <3>1. Processing(u, Now) /\ UNCHANGED tx
      BY <2>3 DEF ImportStageRow, Processing
    <3> QED
      BY <1>a, <2>1, <3>1
  <2> QED
    BY <1>1, <2>2, <2>3, PipelineInv DEF StaffStep
<1>2. ASSUME NEW m \in Managers, Begin(m)
      PROVE  Inv'
  <2>1. Now \in Snapshot /\ Behind(Now.app)
    BY <1>0, NowType, NowBehind
  <2>2. /\ tx' = [tx EXCEPT ![m] = Now]
        /\ UNCHANGED <<app, review, openOcc, delay, historyOwner, numbers, submissions, earnings>>
    BY <1>2 DEF Begin
  <2>3. RowInv' /\ RowTypes'
    BY <1>0, <2>2 DEF RowInv, RowTypes, LiveOccupancy, ReviewMatchesRouting,
                       EarningBacked, Live
  <2>4. TypeOK'
    BY <1>0, <2>1, <2>2, <2>3 DEF TypeOK
  <2>5. SnapshotsBehind'
    BY <1>0, <2>1, <2>2 DEF SnapshotsBehind, Behind, Live
  <2> QED
    BY <2>3, <2>4, <2>5 DEF Inv
<1>3. ASSUME NEW m \in Managers, Finish(m)
      PROVE  Inv'
  <2>1. /\ tx[m] \in Snapshot /\ Behind(tx[m].app) /\ m \in Users
        /\ UpdateApplication(m, tx[m]) \/ Processing(m, tx[m])
        /\ tx' = [tx EXCEPT ![m] = None]
    BY <1>0, <1>3 DEF Finish, SnapshotsBehind, Users
  <2>2. RowInv' /\ Frame /\ (~Live(app) => ~Live(app'))
    BY <1>0, <2>1, HandlerRowInv
  <2>3. TypeOK'
    BY <1>0, <2>1, <2>2 DEF TypeOK, RowInv
  <2>4. SnapshotsBehind'
    BY <1>0, <2>1, <2>2 DEF SnapshotsBehind, Behind, Frame, Live
  <2> QED
    BY <2>2, <2>3, <2>4 DEF Inv
<1>4. ASSUME NEW m \in Managers, Refuse(m)
      PROVE  Inv'
  <2>1. /\ tx' = [tx EXCEPT ![m] = None]
        /\ UNCHANGED <<app, review, openOcc, delay, historyOwner, numbers, submissions, earnings>>
    BY <1>4 DEF Refuse
  <2>2. RowInv' /\ RowTypes'
    BY <1>0, <2>1 DEF RowInv, RowTypes, LiveOccupancy, ReviewMatchesRouting,
                       EarningBacked, Live
  <2>3. TypeOK' /\ SnapshotsBehind'
    BY <1>0, <2>1, <2>2 DEF TypeOK, SnapshotsBehind, Behind, Live
  <2> QED
    BY <2>2, <2>3 DEF Inv
<1>5. CASE UNCHANGED vars
  BY <1>0, <1>5 DEF vars, Inv, TypeOK, RowInv, RowTypes, LiveOccupancy,
     ReviewMatchesRouting, EarningBacked, SnapshotsBehind, Behind, Live
<1> QED
  BY <1>1, <1>2, <1>3, <1>4, <1>5 DEF Next

\* Every reachable state of the case, however the requests of managers overlap
\* the locked ones, satisfies the inductive invariant.
THEOREM Invariance ==
  ASSUME ModelAssumption
  PROVE  Spec => []Inv
<1>1. Init => Inv
  BY InitInv
<1>2. Inv /\ [Next]_vars => Inv'
  BY NextInv
<1> QED
  BY <1>1, <1>2, PTL DEF Spec

\* The rows and the open requests keep their types.
THEOREM TypeCorrect ==
  ASSUME ModelAssumption
  PROVE  Spec => []TypeOK
BY Invariance, PTL DEF Inv

\* A live case always has exactly one open occupancy, for its current stage.
THEOREM LiveOccupancyHolds ==
  ASSUME ModelAssumption
  PROVE  Spec => []LiveOccupancy
BY Invariance, PTL DEF Inv, RowInv

\* The review events and the routing columns never disagree.
THEOREM ReviewMatchesRoutingHolds ==
  ASSUME ModelAssumption
  PROVE  Spec => []ReviewMatchesRouting
BY Invariance, PTL DEF Inv, RowInv

\* A case earns at most once, for what it is entitled to, and only when booked.
THEOREM EarningBackedHolds ==
  ASSUME ModelAssumption
  PROVE  Spec => []EarningBacked
BY Invariance, PTL DEF Inv, RowInv

\* A manager's stale copy is never ahead of the committed row.
THEOREM SnapshotsBehindHolds ==
  ASSUME ModelAssumption
  PROVE  Spec => []SnapshotsBehind
BY Invariance, PTL DEF Inv

-----------------------------------------------------------------------------
\* What RoutingForward says of one step.
RoutingMoves ==
  /\ app.routing \in {"sm_approved", "submitted", "closed"} =>
       app'.routing \in {app.routing, "submitted", "closed"}
  /\ app.routing \in {"submitted", "closed"} => app'.routing = app.routing

OwnerLocked ==
  app.bookedBy # None /\ app'.owner # app.owner =>
    \E m \in Managers : tx[m] # None /\ tx'[m] = None

\* A locked handler's routing is stored as it is.
LEMMA StoreRouting ==
  ASSUME NEW new, Store(app, new)
  PROVE  app'.routing = new.routing
BY DEF Store, Col

\* Only the three locked handlers of the pipeline write the routing, each from the
\* state before.
LEMMA NextForward ==
  ASSUME ModelAssumption, Inv, [Next]_vars
  PROVE  RoutingMoves
<1>0. RowInv /\ TypeOK /\ SnapshotsBehind
  BY DEF Inv, RowInv, TypeOK
<1>a. ASSUME NEW u \in Users, NEW s \in Snapshot, Behind(s.app),
             UpdateApplication(u, s) \/ Processing(u, s)
      PROVE  RoutingMoves
  <2>1. Frame
    BY <1>0, <1>a, HandlerRowInv
  <2> QED
    BY <2>1 DEF Frame, RoutingMoves
<1>b. Now \in Snapshot /\ Behind(Now.app)
  BY <1>0, NowType, NowBehind DEF TypeOK
<1>1. ASSUME NEW u \in Staff, StaffStep(u)
      PROVE  RoutingMoves
  <2>1. u \in Users
    BY DEF Users
  <2>2. CASE StaffMutation(u) \/ ImportStageRow(u)
    <3>1. UpdateApplication(u, Now) \/ Processing(u, Now)
      BY <2>2 DEF StaffMutation, ImportStageRow, Processing
    <3> QED
      BY <1>a, <1>b, <2>1, <3>1
  <2>3. CASE ReturnForCorrection(u) \/ Resubmit(u)
    BY <2>3 DEF ReturnForCorrection, Resubmit, RoutingMoves
  <2>4. CASE BookCase(u)
    <3>1. app.routing \in {"none", "returned"}
      BY <1>0, <2>4 DEF BookCase, RowInv, ReviewMatchesRouting
    <3> QED
      BY <3>1 DEF RoutingMoves
  <2>5. CASE SalesManagerDecision(u)
    BY <2>5 DEF SalesManagerDecision, RoutingMoves
  <2>6. CASE SubmitBankFile(u)
    <3>1. app.routing = "sm_approved" /\ ReadyForBank(u)
      BY <2>6 DEF SubmitBankFile, ReadyForBank
    <3>2. CASE app.product # "CC"
      <4> DEFINE a == [app EXCEPT !.routing = "submitted"]
                 stopped(t) == a.tatStopped \/ (~Live(a) /\ a.stage # t)
                 new(t) == [a EXCEPT !.submitted = TRUE, !.stage = t, !.tatStopped = stopped(t)]
      <4>1. RecordCaseNumber(Now, a) /\ ~Now.app.submitted /\ Now.app = app
        BY <2>6, <3>2 DEF SubmitBankFile, ReadyForBank, Now
      <4>2. PICK t \in SubmitTargets(a) : Store(app, new(t))
        BY <4>1 DEF RecordCaseNumber
      <4>3. new(t).routing = "submitted"
        BY <1>0 DEF RowInv, RowTypes, Application
      <4> HIDE DEF new
      <4>4. app'.routing = "submitted"
        BY <4>2, <4>3, StoreRouting
      <4> QED
        BY <3>1, <4>4 DEF RoutingMoves
    <3>3. CASE app.product = "CC"
      <4> DEFINE new(t) == [app EXCEPT !.submitted = TRUE, !.stage = t, !.routing = "closed",
                                       !.outcome = "Completed", !.tatStopped = TRUE]
      <4>1. PICK t \in SubmitTargets(app) : Store(app, new(t))
        BY <2>6, <3>3 DEF SubmitBankFile
      <4>2. new(t).routing = "closed"
        BY <1>0 DEF RowInv, RowTypes, Application
      <4> HIDE DEF new
      <4>3. app'.routing = "closed"
        BY <4>1, <4>2, StoreRouting
      <4> QED
        BY <3>1, <4>3 DEF RoutingMoves
    <3> QED
      BY <3>2, <3>3
  <2> QED
    BY <1>1, <2>2, <2>3, <2>4, <2>5, <2>6 DEF StaffStep
<1>2. ASSUME NEW m \in Managers, Finish(m)
      PROVE  RoutingMoves
  <2>1. /\ tx[m] \in Snapshot /\ Behind(tx[m].app) /\ m \in Users
        /\ UpdateApplication(m, tx[m]) \/ Processing(m, tx[m])
    BY <1>0, <1>2 DEF Finish, TypeOK, SnapshotsBehind, Users
  <2> QED
    BY <1>a, <2>1
<1>3. ASSUME NEW m \in Managers, Begin(m) \/ Refuse(m)
      PROVE  RoutingMoves
  BY <1>3 DEF Begin, Refuse, RoutingMoves
<1>4. CASE UNCHANGED vars
  BY <1>4 DEF vars, RoutingMoves
<1> QED
  BY <1>1, <1>2, <1>3, <1>4 DEF Next

\* A locked handler that does not compute another owner leaves the one there is.
LEMMA StoreOwner ==
  ASSUME NEW new, Store(app, new), new.owner = app.owner
  PROVE  app'.owner = app.owner
BY DEF Store, Col

LEMMA NumberKeepsOwner ==
  ASSUME app \in Application, NEW a \in Application, a.owner = app.owner,
         RecordCaseNumber(Now, a)
  PROVE  app'.owner = app.owner
<1>1. CASE app.submitted
  <2>1. Store(app, a) BY <1>1 DEF RecordCaseNumber, Now
  <2> QED BY <2>1, StoreOwner
<1>2. CASE ~app.submitted
  <2> DEFINE stopped(t) == a.tatStopped \/ (~Live(a) /\ a.stage # t)
             new(t) == [a EXCEPT !.submitted = TRUE, !.stage = t, !.tatStopped = stopped(t)]
  <2>1. PICK t \in SubmitTargets(a) : Store(app, new(t)) BY <1>2 DEF RecordCaseNumber, Now
  <2>2. new(t).owner = app.owner BY DEF Application
  <2> HIDE DEF new
  <2> QED BY <2>1, <2>2, StoreOwner
<1> QED BY <1>1, <1>2

\* On a booked case no request of staff gets past the check of the owner.
LEMMA StaffKeepsOwner ==
  ASSUME ModelAssumption, app \in Application, app.bookedBy # None,
         NEW u \in Staff, UpdateApplication(u, Now) \/ Processing(u, Now)
  PROVE  app'.owner = app.owner
<1>0. Now.app = app /\ u \notin Managers BY DEF Now, ModelAssumption
<1>1. ~UpdateApplication(u, Now) /\ ~ReassignCaseOwner(u, Now)
  BY <1>0 DEF UpdateApplication, ReassignCaseOwner
<1>2. CASE CaseNumberRoute(u, Now)
  <2>1. RecordCaseNumber(Now, app) BY <1>0, <1>2 DEF CaseNumberRoute, SaveCaseNumber
  <2> QED BY <2>1, NumberKeepsOwner
<1>3. CASE CorrectSubmitted(u, Now)
  <2> DEFINE new == [app EXCEPT !.bookedAmount = TRUE]
  <2>1. Store(app, new) BY <1>0, <1>3 DEF CorrectSubmitted
  <2>2. new.owner = app.owner BY DEF Application
  <2> HIDE DEF new
  <2> QED BY <2>1, <2>2, StoreOwner
<1>4. ASSUME NEW given \in BOOLEAN, UpdateStage(u, Now, given)
      PROVE  app'.owner = app.owner
  <2> DEFINE amount(t) == app.bookedAmount \/ (KeyOf[t] = "BOOKED" /\ given)
             funded(t) == KeyOf[t] = "FUND_RELEASED"
             new(t) == [app EXCEPT !.stage = t, !.bookedAmount = amount(t),
                                   !.outcome = IF funded(t) THEN "Completed" ELSE @,
                                   !.tatStopped = @ \/ (funded(t) /\ app.stage # t)]
  <2>1. PICK t \in ActiveStages : Store(app, new(t)) BY <1>0, <1>4 DEF UpdateStage
  <2>2. new(t).owner = app.owner BY DEF Application
  <2> HIDE DEF new
  <2> QED BY <2>1, <2>2, StoreOwner
<1>5. CASE CorrectStage(u, Now)
  <2> DEFINE new(t) == [app EXCEPT !.stage = t]
  <2>1. PICK t \in Stages : Store(app, new(t)) BY <1>0, <1>5 DEF CorrectStage
  <2>2. new(t).owner = app.owner BY DEF Application
  <2> HIDE DEF new
  <2> QED BY <2>1, <2>2, StoreOwner
<1>6. CASE SetOutcome(u, Now)
  <2> DEFINE new(o) == [app EXCEPT !.outcome = o, !.tatStopped = TRUE]
  <2>1. PICK o \in ManualOutcomes : Store(app, new(o)) BY <1>0, <1>6 DEF SetOutcome
  <2>2. new(o).owner = app.owner BY DEF Application
  <2> HIDE DEF new
  <2> QED BY <2>1, <2>2, StoreOwner
<1>7. CASE MigrateApplication(u, Now)
  <2> DEFINE new(t) == [app EXCEPT !.workflow = WorkflowOf[t], !.stage = t]
  <2>1. PICK t \in ActiveStages : Store(app, new(t)) BY <1>0, <1>7 DEF MigrateApplication
  <2>2. new(t).owner = app.owner BY DEF Application
  <2> HIDE DEF new
  <2> QED BY <2>1, <2>2, StoreOwner
<1>8. CASE MarkDelay(u, Now) \/ CorrectDelay(u, Now)
  BY <1>8 DEF MarkDelay, CorrectDelay
<1> QED BY <1>1, <1>2, <1>3, <1>4, <1>5, <1>6, <1>7, <1>8 DEF Processing

LEMMA NextOwnerLocked ==
  ASSUME ModelAssumption, Inv, [Next]_vars
  PROVE  OwnerLocked
<1> SUFFICES ASSUME app.bookedBy # None, app'.owner # app.owner
             PROVE  \E m \in Managers : tx[m] # None /\ tx'[m] = None
  BY DEF OwnerLocked
<1>0. app \in Application /\ tx \in [Managers -> Snapshot \cup {None}]
  BY DEF Inv, RowInv, RowTypes, TypeOK
<1>1. ASSUME NEW u \in Staff, StaffStep(u)
      PROVE  FALSE
  <2>1. CASE StaffMutation(u) \/ ImportStageRow(u)
    <3>1. UpdateApplication(u, Now) \/ Processing(u, Now)
      BY <2>1 DEF StaffMutation, ImportStageRow, Processing
    <3> QED
      BY <1>0, <3>1, StaffKeepsOwner
  <2>2. CASE ReturnForCorrection(u) \/ Resubmit(u)
    BY <2>2 DEF ReturnForCorrection, Resubmit
  <2>3. CASE BookCase(u)
    <3> DEFINE new(m, c) == [app EXCEPT !.bookedBy = u, !.manager = m,
                                        !.coordinator = c, !.routing = "booked"]
    <3>1. PICK m \in Staff, c \in Staff : Store(app, new(m, c))
      BY <2>3 DEF BookCase
    <3>2. new(m, c).owner = app.owner
      BY <1>0 DEF Application
    <3> HIDE DEF new
    <3> QED
      BY <3>1, <3>2, StoreOwner
  <2>4. CASE SalesManagerDecision(u)
    <3> DEFINE new(d) == [app EXCEPT !.routing = d]
    <3>1. PICK d \in {"sm_approved", "returned"} : Store(app, new(d))
      BY <2>4 DEF SalesManagerDecision
    <3>2. new(d).owner = app.owner
      BY <1>0 DEF Application
    <3> HIDE DEF new
    <3> QED
      BY <3>1, <3>2, StoreOwner
  <2>5. CASE SubmitBankFile(u)
    <3>1. CASE app.product # "CC"
      <4> DEFINE a == [app EXCEPT !.routing = "submitted"]
      <4>1. RecordCaseNumber(Now, a)
        BY <2>5, <3>1 DEF SubmitBankFile
      <4>2. a \in Application /\ a.owner = app.owner
        BY <1>0 DEF Application, Routings
      <4> HIDE DEF a
      <4> QED
        BY <1>0, <4>1, <4>2, NumberKeepsOwner
    <3>2. CASE app.product = "CC"
      <4> DEFINE new(t) == [app EXCEPT !.submitted = TRUE, !.stage = t, !.routing = "closed",
                                       !.outcome = "Completed", !.tatStopped = TRUE]
      <4>1. PICK t \in SubmitTargets(app) : Store(app, new(t))
        BY <2>5, <3>2 DEF SubmitBankFile
      <4>2. new(t).owner = app.owner
        BY <1>0 DEF Application
      <4> HIDE DEF new
      <4> QED
        BY <4>1, <4>2, StoreOwner
    <3> QED
      BY <3>1, <3>2
  <2> QED
    BY <1>1, <2>1, <2>2, <2>3, <2>4, <2>5 DEF StaffStep
<1>2. ASSUME NEW m \in Managers, Finish(m)
      PROVE  tx[m] # None /\ tx'[m] = None
  BY <1>0, <1>2 DEF Finish
<1>3. ASSUME NEW m \in Managers, Begin(m) \/ Refuse(m)
      PROVE  FALSE
  BY <1>3 DEF Begin, Refuse
<1>4. ~UNCHANGED vars
  BY DEF vars
<1> QED
  BY <1>1, <1>2, <1>3, <1>4 DEF Next

\* However the requests overlap, an approved case never goes back to wait for its
\* Sales Manager, one with the bank stays there, and the owner of a booked case is
\* changed by nobody but a GM or OWNER.
THEOREM RoutingForwardHolds ==
  ASSUME ModelAssumption
  PROVE  Spec => RoutingForward
<1>1. Inv /\ [Next]_vars => [RoutingMoves /\ OwnerLocked]_vars
  BY NextForward, NextOwnerLocked
<1> QED
  BY <1>1, Invariance, PTL DEF Spec, RoutingForward, RoutingMoves, OwnerLocked

-----------------------------------------------------------------------------
(***************************************************************************)
(* Intake, for any number of requests, customers and cases: case codes are *)
(* given without a gap, whoever is counted in the meantime.                *)
(***************************************************************************)

\* The codes are those of the cases, without a gap, and no case without a code is
\* anybody's.
CodesDense ==
  /\ \A k \in Cases : file[k].code <= lastCode /\ (file[k].code = 0 <=> file[k] = NoFile)
  /\ \A k, l \in Cases : file[k].code # 0 /\ file[k].code = file[l].code => k = l
  /\ \A n \in 1..lastCode : \E k \in Cases : file[k].code = n

OneLive ==
  \A k, l \in Cases : file[k].live /\ file[l].live /\ file[k].of = file[l].of => k = l

\* The versions up to n exist, and n is the active one.
VersionsUpTo(n) ==
  \A v \in 1..Versions :
    version[v] = IF v < n THEN "inactive" ELSE IF v = n THEN "active" ELSE "absent"

\* What a request computed is at most one ahead of what has been committed.
JobOK(j) ==
  /\ j.op = "create" => j.code <= lastCode + 1
  /\ j.op = "merge" => \A k \in j.files : file[k] # NoFile
  /\ j.op = "version" => 2 <= j.next /\ version[j.next - 1] # "absent"

IntakeInv ==
  /\ IntakeTypeOK /\ CodesDense /\ OneLive
  /\ \E n \in 1..Versions : VersionsUpTo(n)
  /\ \A d \in Counters : JobOK(job[d])

-----------------------------------------------------------------------------
(***************************************************************************)
(* Requests that do not overlap (SerialSpec): the case stays in step with   *)
(* its dependent rows, and a terminal one stays as it is.                   *)
(***************************************************************************)

\* A case that was submitted has one current number, any other none.
OneNumber ==
  /\ submissions = (IF app.submitted THEN 1 ELSE 0)
  /\ app.submitted => \E id \in Rows : numbers = {id}
  /\ ~app.submitted => numbers = {}

\* What requests that do not overlap keep.
SerialInv == RowTypes /\ OwnerMatchesHistory /\ StageInWorkflow /\ OneNumber

\* What one step may do to a terminal case.
ClosedStep == ~Live(app) => app'.outcome = app.outcome /\ openOcc' \subseteq openOcc

\* The UPDATE of a request that decided on the committed row stores what it computed.
LEMMA StoreNow ==
  ASSUME app \in Application, NEW new \in Application, new.product = app.product,
         Store(app, new)
  PROVE  app' = new
BY DEF Store, Col, Application

\* A step that leaves the numbers alone.
LEMMA SameNumber ==
  ASSUME OneNumber, app'.submitted = app.submitted, UNCHANGED <<numbers, submissions>>
  PROVE  OneNumber'
BY DEF OneNumber

\* A step that stores the row new and leaves its numbers and its terminal
\* outcome alone.
LEMMA SerialStore ==
  ASSUME SerialInv, RowTypes', NEW new \in Application, Store(app, new),
         new.product = app.product, new.submitted = app.submitted,
         UNCHANGED <<numbers, submissions>>,
         historyOwner' = new.owner, WorkflowOf[new.stage] = new.workflow
  PROVE  SerialInv' /\ app' = new
<1>1. app' = new
  BY StoreNow DEF SerialInv, RowTypes
<1> QED
  BY <1>1, SameNumber DEF SerialInv, OwnerMatchesHistory, StageInWorkflow

\* The rest of save_case_number, from the locked row and what the handler changed.
LEMMA SerialNumber ==
  ASSUME ModelAssumption, SerialInv, RowTypes', UNCHANGED historyOwner,
         NEW a \in Application, RecordCaseNumber(Now, a),
         a.product = app.product, a.submitted = app.submitted, a.stage = app.stage,
         a.workflow = app.workflow, a.owner = app.owner, a.outcome = app.outcome
  PROVE  SerialInv' /\ ClosedStep
<1>0. app \in Application /\ app.owner = historyOwner /\ WorkflowOf[app.stage] = app.workflow
  BY DEF SerialInv, RowTypes, OwnerMatchesHistory, StageInWorkflow
<1>1. PICK id \in Rows : numbers' = {id}
  BY DEF RecordCaseNumber, ReplaceNumber, Now, FreshRows
<1>2. CASE app.submitted
  <2>1. Store(app, a) /\ UNCHANGED <<openOcc, submissions>>
    BY <1>2 DEF RecordCaseNumber, Now
  <2>2. app' = a
    BY <1>0, <2>1, StoreNow
  <2>3. OneNumber'
    BY <1>1, <1>2, <2>1, <2>2 DEF SerialInv, OneNumber
  <2> QED
    BY <1>0, <2>1, <2>2, <2>3 DEF SerialInv, OwnerMatchesHistory, StageInWorkflow, ClosedStep
<1>3. CASE ~app.submitted
  <2>1. PICK target \in SubmitTargets(a) :
          /\ Store(app, [a EXCEPT !.submitted = TRUE, !.stage = target,
                            !.tatStopped = @ \/ (~Live(a) /\ a.stage # target)])
          /\ submissions' = submissions + 1
          /\ MoveOccupancy(a.stage, target, ~Live(a))
    BY <1>3 DEF RecordCaseNumber, Now
  <2>2. target \in Stages /\ WorkflowOf[target] = a.workflow
    BY ModelAssumption DEF SubmitTargets, StagesByKey, ModelAssumption
  <2> DEFINE new == [a EXCEPT !.submitted = TRUE, !.stage = target,
                              !.tatStopped = @ \/ (~Live(a) /\ a.stage # target)]
  <2>3. /\ new \in Application /\ new.product = app.product /\ new.submitted = TRUE
        /\ new.stage = target /\ new.workflow = a.workflow /\ new.owner = a.owner
        /\ new.outcome = a.outcome
    BY <2>2 DEF Application
  <2>4. Store(app, new)
    BY <2>1
  <2> HIDE DEF new
  <2>5. app' = new
    BY <1>0, <2>3, <2>4, StoreNow
  <2>6. OneNumber'
    BY <1>1, <1>3, <2>1, <2>3, <2>5 DEF SerialInv, OneNumber
  <2>7. ClosedStep
    BY <1>0, <2>1, <2>3, <2>5 DEF ClosedStep, MoveOccupancy, Live
  <2> QED
    BY <1>0, <2>2, <2>3, <2>5, <2>6, <2>7 DEF SerialInv, OwnerMatchesHistory, StageInWorkflow
<1> QED
  BY <1>2, <1>3

\* Every mutation behind the scope check, on the committed row.
LEMMA SerialHandler ==
  ASSUME ModelAssumption, SerialInv, NEW u \in Users,
         UpdateApplication(u, Now) \/ Processing(u, Now)
  PROVE  SerialInv' /\ ClosedStep
<1>0. /\ app \in Application /\ app.owner = historyOwner
      /\ WorkflowOf[app.stage] = app.workflow /\ RowTypes /\ Now.app = app
  BY DEF SerialInv, RowTypes, OwnerMatchesHistory, StageInWorkflow, Now
<1>1. Now \in Snapshot /\ RowTypes'
  BY <1>0, NowType, HandlerType
<1>2. CASE UpdateApplication(u, Now)
  <2>1. PICK amount \in BOOLEAN, number \in BOOLEAN :
          IF number
          THEN RecordCaseNumber(Now, [app EXCEPT !.bookedAmount = amount])
          ELSE /\ Store(app, [app EXCEPT !.bookedAmount = amount])
               /\ UNCHANGED <<openOcc, delay, numbers, submissions>>
    BY <1>0, <1>2 DEF UpdateApplication
  <2> DEFINE a == [app EXCEPT !.bookedAmount = amount]
  <2>2. /\ a \in Application /\ a.product = app.product /\ a.submitted = app.submitted
        /\ a.stage = app.stage /\ a.workflow = app.workflow /\ a.owner = app.owner
        /\ a.outcome = app.outcome
    BY <1>0 DEF Application
  <2>3. UNCHANGED historyOwner
    BY <1>2 DEF UpdateApplication
  <2>4. IF number THEN RecordCaseNumber(Now, a)
        ELSE Store(app, a) /\ UNCHANGED <<openOcc, delay, numbers, submissions>>
    BY <2>1
  <2> HIDE DEF a
  <2>5. CASE number
    BY <1>1, <2>2, <2>3, <2>4, <2>5, SerialNumber
  <2>6. CASE ~number
    BY <1>0, <1>1, <2>2, <2>3, <2>4, <2>6, SerialStore DEF ClosedStep
  <2> QED
    BY <2>5, <2>6
<1>3. CASE CaseNumberRoute(u, Now)
  BY <1>0, <1>1, <1>3, SerialNumber DEF CaseNumberRoute, SaveCaseNumber
<1>4. CASE CorrectSubmitted(u, Now)
  <2> DEFINE new == [app EXCEPT !.bookedAmount = TRUE]
  <2>1. /\ new \in Application /\ new.product = app.product /\ new.submitted = app.submitted
        /\ new.stage = app.stage /\ new.workflow = app.workflow /\ new.owner = app.owner
        /\ new.outcome = app.outcome
    BY <1>0 DEF Application
  <2>2. /\ Store(app, new)
        /\ UNCHANGED <<openOcc, historyOwner, numbers, submissions>>
    BY <1>0, <1>4 DEF CorrectSubmitted
  <2> HIDE DEF new
  <2> QED
    BY <1>0, <1>1, <2>1, <2>2, SerialStore DEF ClosedStep
<1>5. CASE ReassignCaseOwner(u, Now)
  <2>1. PICK owner \in Owners :
          /\ Store(app, [app EXCEPT !.owner = owner])
          /\ historyOwner' = owner
    BY <1>0, <1>5 DEF ReassignCaseOwner
  <2> DEFINE new == [app EXCEPT !.owner = owner]
  <2>2. /\ new \in Application /\ new.product = app.product /\ new.submitted = app.submitted
        /\ new.stage = app.stage /\ new.workflow = app.workflow /\ new.owner = owner
    BY <1>0, ModelAssumption DEF Application, ModelAssumption, Users
  <2>3. Store(app, new)
    BY <2>1
  <2>4. Live(app) /\ UNCHANGED <<openOcc, numbers, submissions>>
    BY <1>0, <1>5 DEF ReassignCaseOwner
  <2> HIDE DEF new
  <2> QED
    BY <1>0, <1>1, <2>1, <2>2, <2>3, <2>4, SerialStore DEF ClosedStep
<1>6. ASSUME NEW given \in BOOLEAN, UpdateStage(u, Now, given)
      PROVE  SerialInv' /\ ClosedStep
  <2> DEFINE Amount(t) == app.bookedAmount \/ (KeyOf[t] = "BOOKED" /\ given)
             Funded(t) == KeyOf[t] = "FUND_RELEASED"
             Moved(t) == [app EXCEPT !.stage = t, !.bookedAmount = Amount(t),
                                     !.outcome = IF Funded(t) THEN "Completed" ELSE @,
                                     !.tatStopped = @ \/ (Funded(t) /\ app.stage # t)]
  <2>1. PICK target \in ActiveStages :
          /\ Live(app) /\ WorkflowOf[target] = app.workflow
          /\ Store(app, Moved(target))
          /\ UNCHANGED <<historyOwner, numbers, submissions>>
    BY <1>0, <1>6 DEF UpdateStage
  <2>2. target \in Stages /\ "Completed" \in Outcomes
    BY ModelAssumption DEF ModelAssumption, Outcomes
  <2> DEFINE new == Moved(target)
  <2>3. /\ new \in Application /\ new.product = app.product /\ new.submitted = app.submitted
        /\ new.stage = target /\ new.workflow = app.workflow /\ new.owner = app.owner
    BY <1>0, <2>2 DEF Application
  <2>4. Store(app, new)
    BY <2>1
  <2> HIDE DEF new, Moved
  <2> QED
    BY <1>0, <1>1, <2>1, <2>3, <2>4, SerialStore DEF ClosedStep
<1>7. CASE CorrectStage(u, Now)
  <2>1. PICK target \in Stages :
          WorkflowOf[target] = app.workflow /\ Store(app, [app EXCEPT !.stage = target])
    BY <1>0, <1>7 DEF CorrectStage
  <2> DEFINE new == [app EXCEPT !.stage = target]
  <2>2. /\ new \in Application /\ new.product = app.product /\ new.submitted = app.submitted
        /\ new.stage = target /\ new.workflow = app.workflow /\ new.owner = app.owner
    BY <1>0 DEF Application
  <2>3. Store(app, new)
    BY <2>1
  <2>4. Live(app) /\ UNCHANGED <<historyOwner, numbers, submissions>>
    BY <1>0, <1>7 DEF CorrectStage
  <2> HIDE DEF new
  <2> QED
    BY <1>0, <1>1, <2>1, <2>2, <2>3, <2>4, SerialStore DEF ClosedStep
<1>8. CASE SetOutcome(u, Now)
  <2>1. PICK outcome \in ManualOutcomes :
          Store(app, [app EXCEPT !.outcome = outcome, !.tatStopped = TRUE])
    BY <1>0, <1>8 DEF SetOutcome
  <2> DEFINE new == [app EXCEPT !.outcome = outcome, !.tatStopped = TRUE]
  <2>2. /\ new \in Application /\ new.product = app.product /\ new.submitted = app.submitted
        /\ new.stage = app.stage /\ new.workflow = app.workflow /\ new.owner = app.owner
    BY <1>0 DEF Application, Outcomes
  <2>3. Store(app, new)
    BY <2>1
  <2>4. Live(app) /\ UNCHANGED <<historyOwner, numbers, submissions>>
    BY <1>0, <1>8 DEF SetOutcome
  <2> HIDE DEF new
  <2> QED
    BY <1>0, <1>1, <2>1, <2>2, <2>3, <2>4, SerialStore DEF ClosedStep
<1>9. CASE MigrateApplication(u, Now)
  <2>1. PICK target \in ActiveStages :
          Store(app, [app EXCEPT !.workflow = WorkflowOf[target], !.stage = target])
    BY <1>0, <1>9 DEF MigrateApplication
  <2>2. target \in Stages /\ WorkflowOf[target] \in Workflows
    BY ModelAssumption DEF ModelAssumption
  <2> DEFINE new == [app EXCEPT !.workflow = WorkflowOf[target], !.stage = target]
  <2>3. /\ new \in Application /\ new.product = app.product /\ new.submitted = app.submitted
        /\ new.stage = target /\ new.workflow = WorkflowOf[target] /\ new.owner = app.owner
    BY <1>0, <2>2 DEF Application
  <2>4. Store(app, new)
    BY <2>1
  <2>5. Live(app) /\ UNCHANGED <<historyOwner, numbers, submissions>>
    BY <1>0, <1>9 DEF MigrateApplication
  <2> HIDE DEF new
  <2> QED
    BY <1>0, <1>1, <2>3, <2>4, <2>5, SerialStore DEF ClosedStep
<1>10. CASE MarkDelay(u, Now) \/ CorrectDelay(u, Now)
  <2>1. UNCHANGED <<app, openOcc, historyOwner, numbers, submissions>>
    BY <1>10 DEF MarkDelay, CorrectDelay
  <2> QED
    BY <1>1, <2>1 DEF SerialInv, OwnerMatchesHistory, StageInWorkflow, OneNumber, ClosedStep
<1> QED
  BY <1>2, <1>3, <1>4, <1>5, <1>6, <1>7, <1>8, <1>9, <1>10 DEF Processing

\* The handlers of the internal review and of the bank submission.
LEMMA SerialPipeline ==
  ASSUME ModelAssumption, SerialInv, RowTypes', NEW u \in Staff,
         \/ ReturnForCorrection(u) \/ Resubmit(u) \/ BookCase(u)
         \/ SalesManagerDecision(u) \/ SubmitBankFile(u)
  PROVE  SerialInv' /\ ClosedStep
<1>0. /\ app \in Application /\ app.owner = historyOwner /\ u \in Users
      /\ WorkflowOf[app.stage] = app.workflow
  BY DEF SerialInv, RowTypes, OwnerMatchesHistory, StageInWorkflow, Users
<1>1. CASE ReturnForCorrection(u) \/ Resubmit(u)
  <2>1. UNCHANGED <<app, openOcc, historyOwner, numbers, submissions>>
    BY <1>1 DEF ReturnForCorrection, Resubmit
  <2> QED
    BY <2>1 DEF SerialInv, OwnerMatchesHistory, StageInWorkflow, OneNumber, ClosedStep
<1>2. CASE BookCase(u)
  <2>1. PICK m \in Staff, c \in Staff :
          Store(app, [app EXCEPT !.bookedBy = u, !.manager = m,
                                 !.coordinator = c, !.routing = "booked"])
    BY <1>2 DEF BookCase
  <2> DEFINE new == [app EXCEPT !.bookedBy = u, !.manager = m,
                                !.coordinator = c, !.routing = "booked"]
  <2>2. /\ new \in Application /\ new.product = app.product /\ new.submitted = app.submitted
        /\ new.stage = app.stage /\ new.workflow = app.workflow /\ new.owner = app.owner
        /\ new.outcome = app.outcome
    BY <1>0 DEF Application, Routings, Users
  <2>3. Store(app, new) /\ UNCHANGED <<openOcc, historyOwner, numbers, submissions>>
    BY <1>2, <2>1 DEF BookCase
  <2> HIDE DEF new
  <2> QED
    BY <1>0, <2>2, <2>3, SerialStore DEF ClosedStep
<1>3. CASE SalesManagerDecision(u)
  <2>1. PICK decision \in {"sm_approved", "returned"} :
          Store(app, [app EXCEPT !.routing = decision])
    BY <1>3 DEF SalesManagerDecision
  <2> DEFINE new == [app EXCEPT !.routing = decision]
  <2>2. /\ new \in Application /\ new.product = app.product /\ new.submitted = app.submitted
        /\ new.stage = app.stage /\ new.workflow = app.workflow /\ new.owner = app.owner
        /\ new.outcome = app.outcome
    BY <1>0 DEF Application, Routings
  <2>3. Store(app, new) /\ UNCHANGED <<openOcc, historyOwner, numbers, submissions>>
    BY <1>3, <2>1 DEF SalesManagerDecision
  <2> HIDE DEF new
  <2> QED
    BY <1>0, <2>2, <2>3, SerialStore DEF ClosedStep
<1>4. CASE SubmitBankFile(u) /\ app.product # "CC"
  <2> DEFINE a == [app EXCEPT !.routing = "submitted"]
  <2>1. /\ a \in Application /\ a.product = app.product /\ a.submitted = app.submitted
        /\ a.stage = app.stage /\ a.workflow = app.workflow /\ a.owner = app.owner
        /\ a.outcome = app.outcome
    BY <1>0 DEF Application, Routings
  <2>2. RecordCaseNumber(Now, a) /\ UNCHANGED historyOwner
    BY <1>4 DEF SubmitBankFile
  <2> HIDE DEF a
  <2> QED
    BY <2>1, <2>2, SerialNumber
<1>5. CASE SubmitBankFile(u) /\ app.product = "CC"
  <2>1. /\ ReplaceNumber(Now) /\ submissions' = submissions + 1
        /\ UNCHANGED historyOwner /\ Live(app) /\ ~app.submitted
    BY <1>5 DEF SubmitBankFile, ReadyForBank
  <2>2. PICK target \in SubmitTargets(app) :
          Store(app, [app EXCEPT !.submitted = TRUE, !.stage = target,
                                 !.routing = "closed", !.outcome = "Completed",
                                 !.tatStopped = TRUE])
    BY <1>5 DEF SubmitBankFile
  <2>3. target \in Stages /\ WorkflowOf[target] = app.workflow
    BY ModelAssumption DEF SubmitTargets, StagesByKey, ModelAssumption
  <2> DEFINE new == [app EXCEPT !.submitted = TRUE, !.stage = target,
                                !.routing = "closed", !.outcome = "Completed",
                                !.tatStopped = TRUE]
  <2>4. /\ new \in Application /\ new.product = app.product /\ new.submitted = TRUE
        /\ new.stage = target /\ new.workflow = app.workflow /\ new.owner = app.owner
    BY <1>0, <2>3 DEF Application, Routings, Outcomes
  <2>5. Store(app, new)
    BY <2>2
  <2> HIDE DEF new
  <2>6. app' = new
    BY <1>0, <2>4, <2>5, StoreNow
  <2>7. PICK id \in Rows : numbers' = {id}
    BY <2>1 DEF ReplaceNumber, Now, FreshRows
  <2>8. OneNumber'
    BY <2>1, <2>4, <2>6, <2>7 DEF SerialInv, OneNumber
  <2> QED
    BY <1>0, <2>1, <2>3, <2>4, <2>6, <2>8
    DEF SerialInv, OwnerMatchesHistory, StageInWorkflow, ClosedStep
<1> QED
  BY <1>1, <1>2, <1>3, <1>4, <1>5

\* Every step of the system whose requests do not overlap.
LEMMA SerialNextInv ==
  ASSUME ModelAssumption, Inv, SerialInv, [SerialNext]_vars
  PROVE  Inv' /\ SerialInv' /\ (ClosedStep \/ UNCHANGED vars)
<1>a. ASSUME NEW u \in Users, UpdateApplication(u, Now) \/ Processing(u, Now), UNCHANGED tx
      PROVE  Inv' /\ SerialInv' /\ ClosedStep
  <2>0. RowInv /\ SnapshotsBehind /\ TypeOK /\ RowTypes
    BY DEF Inv, RowInv, TypeOK
  <2>1. Now \in Snapshot /\ Behind(Now.app)
    BY <2>0, NowType, NowBehind
  <2>2. RowInv' /\ Frame /\ (~Live(app) => ~Live(app'))
    BY <1>a, <2>0, <2>1, HandlerRowInv
  <2>3. SnapshotsBehind'
    BY <1>a, <2>0, <2>2, StillBehind DEF Frame
  <2> QED
    BY <1>a, <2>0, <2>2, <2>3, SerialHandler DEF Inv, TypeOK, RowInv
<1>1. ASSUME NEW u \in Staff, StaffStep(u)
      PROVE  Inv' /\ SerialInv' /\ ClosedStep
  <2>1. u \in Users
    BY DEF Users
  <2>2. CASE StaffMutation(u)
    BY <1>a, <2>1, <2>2 DEF StaffMutation
  <2>3. CASE ImportStageRow(u)
    <3>1. Processing(u, Now) /\ UNCHANGED tx
      BY <2>3 DEF ImportStageRow, Processing
    <3> QED
      BY <1>a, <2>1, <3>1
  <2>4. CASE \/ ReturnForCorrection(u) \/ Resubmit(u) \/ BookCase(u)
             \/ SalesManagerDecision(u) \/ SubmitBankFile(u)
    <3>1. Inv'
      BY <2>4, PipelineInv
    <3>2. RowTypes'
      BY <3>1 DEF Inv, RowInv
    <3> QED
      BY <2>4, <3>1, <3>2, SerialPipeline
  <2> QED
    BY <1>1, <2>2, <2>3, <2>4 DEF StaffStep
<1>2. ASSUME NEW m \in Managers, UpdateApplication(m, Now) \/ Processing(m, Now), UNCHANGED tx
      PROVE  Inv' /\ SerialInv' /\ ClosedStep
  BY <1>a, <1>2 DEF Users
<1>3. CASE UNCHANGED vars
  <2>1. Inv'
    BY <1>3, NextInv
  <2>2. SerialInv'
    BY <1>3 DEF vars, SerialInv, RowTypes, OwnerMatchesHistory, StageInWorkflow, OneNumber
  <2> QED
    BY <1>3, <2>1, <2>2
<1> QED
  BY <1>1, <1>2, <1>3 DEF SerialNext

LEMMA SerialInit ==
  ASSUME ModelAssumption, Init
  PROVE  Inv /\ SerialInv
<1>1. Inv /\ RowTypes
  BY InitInv DEF Inv, RowInv
<1>2. numbers = {} /\ submissions = 0
  BY DEF Init
<1>3. ~app.submitted /\ app.owner = historyOwner /\ WorkflowOf[app.stage] = app.workflow
  BY DEF Init
<1> QED
  BY <1>1, <1>2, <1>3 DEF SerialInv, OwnerMatchesHistory, StageInWorkflow, OneNumber

\* Requests that do not overlap keep the owner with his history, the stage with
\* the workflow version and the submission with one current case number
\* (reassign_case_owner, migrate_application, _first_or_correct_case_number).
THEOREM RowsInStepHolds ==
  ASSUME ModelAssumption
  PROVE  SerialSpec => []RowsInStep
<1>1. Init => Inv /\ SerialInv
  BY SerialInit
<1>2. (Inv /\ SerialInv) /\ [SerialNext]_vars => (Inv /\ SerialInv)'
  BY SerialNextInv
<1>3. SerialInv => RowsInStep
  <2>1. ASSUME OneNumber PROVE SubmittedOnce
    BY <2>1, FS_EmptySet, FS_Singleton DEF OneNumber, SubmittedOnce
  <2> QED
    BY <2>1 DEF SerialInv, RowsInStep
<1> QED
  BY <1>1, <1>2, <1>3, PTL DEF SerialSpec

\* And a terminal case keeps its outcome and opens no occupancy
\* (_reject_terminal), which overlapping requests of managers may break.
THEOREM ClosedForSerialHolds ==
  ASSUME ModelAssumption
  PROVE  SerialSpec => ClosedForSerial
<1>1. Init => Inv /\ SerialInv
  BY SerialInit
<1>2. (Inv /\ SerialInv) /\ [SerialNext]_vars => (Inv /\ SerialInv)'
  BY SerialNextInv
<1>3. (Inv /\ SerialInv) /\ [SerialNext]_vars =>
        [~Live(app) => app'.outcome = app.outcome /\ openOcc' \subseteq openOcc]_vars
  BY SerialNextInv DEF ClosedStep
<1> QED
  BY <1>1, <1>2, <1>3, PTL DEF SerialSpec, ClosedForSerial, TerminalNotReopened

-----------------------------------------------------------------------------
\* What a request has read, by its kind.
LEMMA JobKinds ==
  ASSUME NEW j \in Job \cup {NoJob}
  PROVE  /\ j.op = "create" => /\ j.of \in Customers /\ j.with \in Papers \cup {Absent}
                               /\ j.code \in 1..Cardinality(Cases) + 1 /\ j.version \in 1..Versions
         /\ j.op = "register" => j.of \in Customers /\ j.with \in Papers \cup {Absent}
         /\ j.op = "identify" => j.of \in Customers /\ j.with \in Papers
         /\ j.op = "status" => j.of \in Customers /\ j.to \in {"active", "inactive"}
         /\ j.op = "merge" => j.of \in Customers /\ j.into \in Customers /\ j.files \subseteq Cases
         /\ j.op = "version" => j.next \in 1..Versions
  BY DEF Job, NoJob

\* Of a finite set of cases: a subset of at most one has no two members.
LEMMA CasesCounted ==
  /\ Cardinality(Cases) \in Nat
  /\ \A S \in SUBSET Cases : Cardinality(S) <= 1 => \A a, b \in S : a = b
<1>1. IsFiniteSet(Cases) /\ Cardinality(Cases) \in Nat
  BY IntakeAssumption, FS_CardinalityType
<1>2. ASSUME NEW S \in SUBSET Cases, Cardinality(S) <= 1, NEW a \in S, NEW b \in S, a # b PROVE FALSE
  <2>1. IsFiniteSet(S) BY <1>1, FS_Subset
  <2>2. IsFiniteSet({a}) /\ Cardinality({a}) = 1 BY FS_Singleton
  <2>3. Cardinality({a} \cup {b}) = 2 BY <1>2, <2>2, FS_AddElement
  <2>4. Cardinality({a} \cup {b}) <= Cardinality(S)
    <3>1. {a} \cup {b} \in SUBSET S OBVIOUS
    <3> QED BY <2>1, <3>1, FS_Subset
  <2>5. Cardinality(S) \in Nat BY <2>1, FS_CardinalityType
  <2> QED BY <1>2, <2>3, <2>4, <2>5
<1> QED BY <1>1, <1>2

\* While the versions up to n exist and n is the active one, n is the newest.
LEMMA NewestIs ==
  ASSUME NEW n \in 1..Versions, VersionsUpTo(n)
  PROVE  NewestVersion = n
<1>1. Versions \in Nat BY IntakeAssumption
<1>2. version[n] # "absent" /\ \A w \in 1..Versions : version[w] # "absent" => w <= n
  BY <1>1 DEF VersionsUpTo
<1>3. \A v \in 1..Versions :
        version[v] # "absent" /\ (\A w \in 1..Versions : version[w] # "absent" => w <= v) => v = n
  BY <1>1, <1>2
<1> QED BY <1>2, <1>3 DEF NewestVersion

\* A case can still be created: the next code is within the number of the cases.
LEMMA RoomForOne ==
  ASSUME IntakeInv, NEW k \in Cases, file[k] = NoFile
  PROVE  lastCode + 1 <= Cardinality(Cases)
<1> DEFINE Codes == {file[l].code : l \in Cases}
<1>1. lastCode \in Nat BY CasesCounted DEF IntakeInv, IntakeTypeOK
<1>2. 0..lastCode \subseteq Codes
  <2>1. 0 \in Codes BY DEF NoFile
  <2>2. \A n \in 1..lastCode : n \in Codes BY DEF IntakeInv, CodesDense
  <2>3. \A n \in 0..lastCode : n = 0 \/ n \in 1..lastCode BY <1>1
  <2> QED BY <2>1, <2>2, <2>3
<1>3. IsFiniteSet(Codes) /\ Cardinality(Codes) <= Cardinality(Cases)
  <2> DEFINE f == [l \in Cases |-> file[l].code]
  <2>1. f \in Surjection(Cases, Codes) BY DEF Surjection
  <2> HIDE DEF f, Codes
  <2> QED BY <2>1, IntakeAssumption, FS_Surjection
<1>4. Cardinality(0..lastCode) = lastCode + 1
  BY <1>1, FS_Interval
<1>5. Cardinality(0..lastCode) <= Cardinality(Codes)
  BY <1>2, <1>3, FS_Subset
<1>6. Cardinality(Codes) \in Nat BY <1>3, FS_CardinalityType
<1> HIDE DEF Codes
<1> QED BY <1>1, <1>3, <1>4, <1>5, <1>6, CasesCounted

LEMMA IntakeInitInv == IntakeInit => IntakeInv
<1> SUFFICES ASSUME IntakeInit PROVE IntakeInv
  OBVIOUS
<1>0. Versions \in Nat \ {0} BY IntakeAssumption
<1>1. IntakeTypeOK BY <1>0, CasesCounted DEF IntakeInit, IntakeTypeOK, NoFile
<1>2. CodesDense /\ OneLive BY DEF IntakeInit, CodesDense, OneLive, NoFile
<1>3. VersionsUpTo(1) /\ 1 \in 1..Versions BY <1>0 DEF IntakeInit, VersionsUpTo
<1>4. \A d \in Counters : JobOK(job[d]) BY DEF IntakeInit, JobOK, NoJob
<1> QED BY <1>1, <1>2, <1>3, <1>4 DEF IntakeInv

-----------------------------------------------------------------------------
\* d reads, or gives up.
LEMMA JobInv ==
  ASSUME IntakeInv, NEW d \in Counters, NEW j \in Job \cup {NoJob}, job' = [job EXCEPT ![d] = j], JobOK(j),
         UNCHANGED <<customer, paper, file, lastCode, version>>
  PROVE  IntakeInv'
<1>1. job' \in [Counters -> Job \cup {NoJob}] /\ \A x \in Counters : job'[x] \in {job[x], j}
  BY DEF IntakeInv, IntakeTypeOK
<1>2. IntakeTypeOK' BY <1>1 DEF IntakeInv, IntakeTypeOK
<1>3. CodesDense' /\ OneLive' BY DEF IntakeInv, CodesDense, OneLive
<1>4. \E n \in 1..Versions : VersionsUpTo(n)' BY DEF IntakeInv, VersionsUpTo
<1>5. \A x \in Counters : JobOK(job[x])' BY <1>1 DEF IntakeInv, JobOK
<1> QED BY <1>2, <1>3, <1>4, <1>5 DEF IntakeInv

LEMMA BeginInv ==
  ASSUME IntakeInv, NEW d \in Counters,
         BeginCreate(d) \/ BeginRegister(d) \/ BeginIdentify(d) \/ BeginStatus(d) \/ BeginMerge(d)
           \/ BeginVersion(d) \/ Reject(d)
  PROVE  IntakeInv'
<1>1. lastCode \in 0..Cardinality(Cases) /\ Cardinality(Cases) \in Nat
  BY CasesCounted DEF IntakeInv, IntakeTypeOK
<1>2. PICK n \in 1..Versions : VersionsUpTo(n) BY DEF IntakeInv
<1>3. Versions \in Nat /\ NewestVersion = n BY <1>2, NewestIs, IntakeAssumption
<1>4. ASSUME NEW c \in Customers, NEW new \in BOOLEAN, NEW i \in Papers \cup {Absent},
             StartJob(d, Creation(c, new, i))
      PROVE  IntakeInv'
  <2>1. PICK j : j = Creation(c, new, i) OBVIOUS
  <2>2. j \in Job /\ j.op = "create" /\ j.code = lastCode + 1
    BY <1>1, <1>3, <2>1 DEF Creation, Job
  <2>3. JobOK(j) BY <1>1, <2>2 DEF JobOK
  <2> QED BY <1>4, <2>1, <2>2, <2>3, JobInv DEF StartJob
<1>5. \A c : c \in NextOf(FreshCustomers) => c \in Customers
  BY DEF NextOf, FreshCustomers
<1>6. CASE BeginCreate(d) BY <1>4, <1>5, <1>6 DEF BeginCreate
<1>7. CASE BeginRegister(d)
  <2>1. PICK i \in Papers \cup {Absent}, c \in Customers : StartJob(d, [op |-> "register", of |-> c, with |-> i])
    BY <1>5, <1>7 DEF BeginRegister
  <2>2. PICK j \in Job : j = [op |-> "register", of |-> c, with |-> i] BY DEF Job
  <2> QED BY <2>1, <2>2, JobInv DEF StartJob, JobOK
<1>8. CASE BeginIdentify(d)
  <2>1. PICK i \in Papers, c \in Customers : StartJob(d, [op |-> "identify", of |-> c, with |-> i])
    BY <1>8 DEF BeginIdentify
  <2>2. PICK j \in Job : j = [op |-> "identify", of |-> c, with |-> i] BY DEF Job
  <2> QED BY <2>1, <2>2, JobInv DEF StartJob, JobOK
<1>9. CASE BeginStatus(d)
  <2>1. PICK c \in Customers, to \in {"active", "inactive"} : StartJob(d, [op |-> "status", of |-> c, to |-> to])
    BY <1>9 DEF BeginStatus
  <2>2. PICK j \in Job : j = [op |-> "status", of |-> c, to |-> to] BY DEF Job
  <2> QED BY <2>1, <2>2, JobInv DEF StartJob, JobOK
<1>10. CASE BeginMerge(d)
  <2>1. PICK c \in Customers, p \in Customers :
          StartJob(d, [op |-> "merge", of |-> c, into |-> p, files |-> FilesOf(c)])
    BY <1>10 DEF BeginMerge
  <2>2. PICK j \in Job : j = [op |-> "merge", of |-> c, into |-> p, files |-> FilesOf(c)]
    BY DEF Job, FilesOf
  <2>3. \A k \in FilesOf(c) : file[k] # NoFile
    BY IntakeAssumption DEF FilesOf, NoFile
  <2> QED BY <2>1, <2>2, <2>3, JobInv DEF StartJob, JobOK
<1>11. CASE BeginVersion(d)
  <2>1. n < Versions /\ StartJob(d, [op |-> "version", next |-> n + 1])
    BY <1>3, <1>11 DEF BeginVersion
  <2>2. PICK j \in Job : j = [op |-> "version", next |-> n + 1]
    BY <1>3, <2>1 DEF Job
  <2>3. version[n] = "active" BY <1>2, <1>3 DEF VersionsUpTo
  <2>4. JobOK(j) BY <1>3, <2>2, <2>3 DEF JobOK
  <2> QED BY <2>1, <2>2, <2>4, JobInv DEF StartJob
<1>12. CASE Reject(d)
  BY <1>12, JobInv DEF Reject, Done, JobOK, NoJob
<1> QED BY <1>6, <1>7, <1>8, <1>9, <1>10, <1>11, <1>12

\* Job d ends; the rest of what the jobs rely on stays.
LEMMA DoneFacts ==
  ASSUME IntakeInv, NEW d \in Counters, Done(d)
  PROVE  /\ job' \in [Counters -> Job \cup {NoJob}]
         /\ \A x \in Counters : job'[x] \in {job[x], NoJob}
  BY DEF Done, IntakeInv, IntakeTypeOK

\* Codes only grow and nothing comes not to exist again, so what other requests
\* have computed stays at most one ahead.
LEMMA JobsStay ==
  ASSUME IntakeInv, NEW d \in Counters, Done(d), lastCode' \in Nat, lastCode <= lastCode',
         \A k \in Cases : file[k] # NoFile => file'[k] # NoFile,
         \A v \in 1..Versions : version[v] # "absent" => version'[v] # "absent"
  PROVE  \A x \in Counters : JobOK(job[x])'
<1> SUFFICES ASSUME NEW x \in Counters PROVE JobOK(job[x])'
  OBVIOUS
<1>1. lastCode \in Nat /\ Versions \in Nat
  BY CasesCounted, IntakeAssumption DEF IntakeInv, IntakeTypeOK
<1>2. CASE job'[x] = NoJob BY <1>2 DEF JobOK, NoJob
<1>3. CASE job'[x] = job[x]
  <2>0. PICK j \in Job \cup {NoJob} : j = job[x]
    BY DEF IntakeInv, IntakeTypeOK
  <2>1. JobOK(j) BY <2>0 DEF IntakeInv
  <2>2. j.op = "create" => j.code \in Int /\ j.code <= lastCode' + 1
    BY <1>1, <2>1, JobKinds, CasesCounted DEF JobOK
  <2>3. j.op = "merge" => \A k \in j.files : file'[k] # NoFile
    BY <2>1, JobKinds DEF JobOK
  <2>4. j.op = "version" => 2 <= j.next /\ version'[j.next - 1] # "absent"
    <3> SUFFICES ASSUME j.op = "version" PROVE 2 <= j.next /\ version'[j.next - 1] # "absent"
      OBVIOUS
    <3>1. j.next \in 1..Versions /\ 2 <= j.next /\ version[j.next - 1] # "absent"
      BY <2>1, JobKinds DEF JobOK
    <3>2. j.next - 1 \in 1..Versions BY <1>1, <3>1
    <3> QED BY <3>1, <3>2
  <2> QED BY <1>3, <2>0, <2>2, <2>3, <2>4 DEF JobOK
<1> QED BY <1>2, <1>3, DoneFacts

\* The customers and their papers, not the cases.
LEMMA PaperTypes ==
  ASSUME IntakeInv, NEW c \in Customers, NEW i \in Papers \cup {Absent}
  PROVE  /\ RecordPaper(c, i) => paper' \in [Papers -> [of: Customers \cup {Absent}, current: BOOLEAN]]
         /\ Enter(c) => customer' \in [Customers -> [status: {"absent", "active", "inactive", "merged"},
                                                    into: Customers \cup {Absent}]]
<1>1. RecordPaper(c, i) => paper' \in [Papers -> [of: Customers \cup {Absent}, current: BOOLEAN]]
  <2> DEFINE Paper == [of: Customers \cup {Absent}, current: BOOLEAN]
  <2>1. [of |-> c, current |-> TRUE] \in Paper OBVIOUS
  <2>2. \A x \in Papers : paper[x] \in Paper BY DEF IntakeInv, IntakeTypeOK
  <2>3. \A r \in Paper : [r EXCEPT !.current = FALSE] \in Paper OBVIOUS
  <2> HIDE DEF Paper
  <2>4. RecordPaper(c, i) => paper' \in [Papers -> Paper]
    BY <2>1, <2>2, <2>3 DEF RecordPaper
  <2> QED BY <2>4 DEF Paper
<1>2. Enter(c) => customer' \in [Customers -> [status: {"absent", "active", "inactive", "merged"},
                                             into: Customers \cup {Absent}]]
  BY DEF Enter, IntakeInv, IntakeTypeOK
<1> QED BY <1>1, <1>2

LEMMA CustomerInv ==
  ASSUME IntakeInv, NEW d \in Counters, CommitRegister(d) \/ CommitIdentify(d) \/ CommitStatus(d)
  PROVE  IntakeInv'
<1>1. Done(d) /\ UNCHANGED <<file, lastCode, version>>
  BY DEF CommitRegister, CommitIdentify, CommitStatus
<1>2. PICK j \in Job \cup {NoJob} : j = job[d]
  BY DEF IntakeInv, IntakeTypeOK
<1>3. /\ customer' \in [Customers -> [status: {"absent", "active", "inactive", "merged"},
                                     into: Customers \cup {Absent}]]
      /\ paper' \in [Papers -> [of: Customers \cup {Absent}, current: BOOLEAN]]
  <2>1. CASE CommitRegister(d)
    BY <1>2, <2>1, JobKinds, PaperTypes DEF CommitRegister
  <2>2. CASE CommitIdentify(d)
    <3>1. j.op = "identify" /\ RecordPaper(j.of, j.with) /\ UNCHANGED customer
      BY <1>2, <2>2 DEF CommitIdentify
    <3> QED BY <3>1, JobKinds, PaperTypes DEF IntakeInv, IntakeTypeOK
  <2>3. CASE CommitStatus(d)
    <3>1. /\ j.op = "status" /\ customer' = [customer EXCEPT ![j.of].status = j.to] /\ UNCHANGED paper
      BY <1>2, <2>3 DEF CommitStatus
    <3> QED BY <3>1, JobKinds DEF IntakeInv, IntakeTypeOK
  <2> QED BY <2>1, <2>2, <2>3
<1>4. IntakeTypeOK' BY <1>1, <1>3, DoneFacts DEF IntakeInv, IntakeTypeOK
<1>5. CodesDense' /\ OneLive' BY <1>1 DEF IntakeInv, CodesDense, OneLive
<1>6. \E n \in 1..Versions : VersionsUpTo(n)' BY <1>1 DEF IntakeInv, VersionsUpTo
<1>7. \A x \in Counters : JobOK(job[x])'
  BY <1>1, JobsStay, CasesCounted DEF IntakeInv, IntakeTypeOK
<1> QED BY <1>4, <1>5, <1>6, <1>7 DEF IntakeInv

\* The code is free, so it is the next one, and the customer has no other live case.
LEMMA CommitCreateInv ==
  ASSUME IntakeInv, NEW d \in Counters, CommitCreate(d)
  PROVE  IntakeInv'
<1>1. PICK j \in Job \cup {NoJob} : j = job[d]
  BY DEF IntakeInv, IntakeTypeOK
<1>2. PICK k \in NextOf({l \in Cases : file[l] = NoFile}) :
        file' = [file EXCEPT ![k] = [of |-> j.of, code |-> j.code, version |-> j.version, live |-> TRUE]]
  BY <1>1 DEF CommitCreate
<1>3. /\ j.op = "create" /\ LiveFiles(j.of) = {} /\ (\A l \in Cases : file[l].code # j.code)
      /\ lastCode' = j.code /\ Done(d) /\ UNCHANGED version
      /\ (j.new /\ Enter(j.of) /\ RecordPaper(j.of, j.with)) \/ UNCHANGED <<customer, paper>>
  BY <1>1 DEF CommitCreate, ActiveUnique, CodeFree
<1>4. /\ j.of \in Customers /\ j.with \in Papers \cup {Absent} /\ j.version \in 1..Versions
      /\ j.code \in Nat /\ 1 <= j.code /\ j.code <= lastCode + 1
  BY <1>1, <1>3, JobKinds, CasesCounted DEF IntakeInv, JobOK
<1>5. k \in Cases /\ file[k] = NoFile
  BY <1>2 DEF NextOf
<1>6. lastCode \in Nat /\ lastCode + 1 <= Cardinality(Cases) /\ Cardinality(Cases) \in Nat /\ Versions \in Nat
  BY <1>5, RoomForOne, CasesCounted, IntakeAssumption DEF IntakeInv, IntakeTypeOK
<1>7. j.code = lastCode + 1
  <2>1. j.code \notin 1..lastCode BY <1>3 DEF IntakeInv, CodesDense
  <2> QED BY <1>4, <1>6, <2>1
<1>8. /\ file'[k].of = j.of /\ file'[k].code = lastCode + 1 /\ file'[k].live /\ file'[k] # NoFile
      /\ \A l \in Cases : l # k => file'[l] = file[l]
  BY <1>2, <1>5, <1>6, <1>7 DEF IntakeInv, IntakeTypeOK, NoFile
<1>9. IntakeTypeOK'
  <2>1. /\ customer' \in [Customers -> [status: {"absent", "active", "inactive", "merged"},
                                       into: Customers \cup {Absent}]]
        /\ paper' \in [Papers -> [of: Customers \cup {Absent}, current: BOOLEAN]]
    BY <1>3, <1>4, PaperTypes DEF IntakeInv, IntakeTypeOK
  <2>2. file' \in [Cases -> [of: Customers \cup {Absent}, code: 0..Cardinality(Cases) + 1,
                             version: 0..Versions, live: BOOLEAN]]
    <3>1. [of |-> j.of, code |-> j.code, version |-> j.version, live |-> TRUE]
            \in [of: Customers \cup {Absent}, code: 0..Cardinality(Cases) + 1,
                 version: 0..Versions, live: BOOLEAN]
      BY <1>4, <1>6, <1>7
    <3> QED BY <1>2, <3>1 DEF IntakeInv, IntakeTypeOK
  <2>3. lastCode' \in 0..Cardinality(Cases) BY <1>3, <1>6, <1>7
  <2> QED BY <1>3, <2>1, <2>2, <2>3, DoneFacts DEF IntakeInv, IntakeTypeOK
<1>10. CodesDense'
  <2>1. \A l \in Cases : file[l].code \in Nat /\ file[l].code <= lastCode /\ (file[l].code = 0 <=> file[l] = NoFile)
    BY <1>6 DEF IntakeInv, IntakeTypeOK, CodesDense
  <2>2. \A l \in Cases : file'[l].code <= lastCode + 1 /\ (file'[l].code = 0 <=> file'[l] = NoFile)
    BY <1>6, <1>8, <2>1
  <2>3. \A l, m \in Cases : file'[l].code # 0 /\ file'[l].code = file'[m].code => l = m
    BY <1>3, <1>7, <1>8 DEF IntakeInv, CodesDense
  <2>4. \A n \in 1..lastCode + 1 : \E l \in Cases : file'[l].code = n
    <3> SUFFICES ASSUME NEW n \in 1..lastCode + 1 PROVE \E l \in Cases : file'[l].code = n
      OBVIOUS
    <3>1. CASE n = lastCode + 1 BY <1>5, <1>8, <3>1
    <3>2. CASE n \in 1..lastCode
      <4>1. PICK l \in Cases : file[l].code = n BY <3>2 DEF IntakeInv, CodesDense
      <4>2. l # k BY <1>5, <1>6, <3>2, <4>1 DEF NoFile
      <4> QED BY <1>8, <4>1, <4>2
    <3> QED BY <1>6, <3>1, <3>2
  <2> QED BY <1>3, <1>7, <2>2, <2>3, <2>4 DEF CodesDense
<1>11. OneLive'
  BY <1>3, <1>8 DEF IntakeInv, OneLive, LiveFiles
<1>12. \E n \in 1..Versions : VersionsUpTo(n)' BY <1>3 DEF IntakeInv, VersionsUpTo
<1>13. \A x \in Counters : JobOK(job[x])'
  BY <1>3, <1>6, <1>7, <1>8, JobsStay
<1> QED BY <1>9, <1>10, <1>11, <1>12, <1>13 DEF IntakeInv

LEMMA CommitMergeInv ==
  ASSUME IntakeInv, NEW d \in Counters, CommitMerge(d)
  PROVE  IntakeInv'
<1>1. PICK j \in Job \cup {NoJob} : j = job[d]
  BY DEF IntakeInv, IntakeTypeOK
<1>2. /\ j.op = "merge" /\ Relinkable(j.files, j.into) /\ Done(d) /\ UNCHANGED <<paper, lastCode, version>>
      /\ customer' = [customer EXCEPT ![j.of] = [status |-> "merged", into |-> j.into]]
      /\ file' = [k \in Cases |-> IF k \in j.files THEN [file[k] EXCEPT !.of = j.into] ELSE file[k]]
  BY <1>1 DEF CommitMerge
<1>3. /\ j.of \in Customers /\ j.into \in Customers /\ j.into # Absent
      /\ \A k \in j.files : file[k] # NoFile
  BY <1>1, <1>2, JobKinds, IntakeAssumption DEF IntakeInv, JobOK
<1>4. \A k \in Cases :
        /\ file'[k].code = file[k].code /\ file'[k].live = file[k].live
        /\ file'[k].of = IF k \in j.files THEN j.into ELSE file[k].of
        /\ k \notin j.files => file'[k] = file[k]
  BY <1>2 DEF IntakeInv, IntakeTypeOK
<1>5. IntakeTypeOK'
  <2>1. customer' \in [Customers -> [status: {"absent", "active", "inactive", "merged"},
                                     into: Customers \cup {Absent}]]
    BY <1>2, <1>3 DEF IntakeInv, IntakeTypeOK
  <2>2. file' \in [Cases -> [of: Customers \cup {Absent}, code: 0..Cardinality(Cases) + 1,
                             version: 0..Versions, live: BOOLEAN]]
    BY <1>2, <1>3 DEF IntakeInv, IntakeTypeOK
  <2> QED BY <1>2, <2>1, <2>2, DoneFacts DEF IntakeInv, IntakeTypeOK
<1>6. \A k \in Cases : file'[k] = NoFile <=> file[k] = NoFile
  <2>1. \A k \in Cases : file'[k] = NoFile => file[k].code = 0
    BY <1>4 DEF NoFile
  <2> QED BY <1>3, <1>4, <2>1 DEF IntakeInv, CodesDense
<1>7. CodesDense' BY <1>2, <1>4, <1>6 DEF IntakeInv, CodesDense
<1>8. OneLive'
  <2>1. \A k, l \in {m \in Cases : file[m].live /\ (m \in j.files \/ file[m].of = j.into)} : k = l
    BY <1>2, CasesCounted DEF Relinkable
  <2> QED BY <1>4, <2>1 DEF IntakeInv, OneLive
<1>9. \E n \in 1..Versions : VersionsUpTo(n)' BY <1>2 DEF IntakeInv, VersionsUpTo
<1>10. \A x \in Counters : JobOK(job[x])'
  <2>1. lastCode \in Nat BY CasesCounted DEF IntakeInv, IntakeTypeOK
  <2>2. Done(d) /\ lastCode' = lastCode /\ version' = version BY <1>2
  <2> QED BY <1>6, <2>1, <2>2, JobsStay
<1> QED BY <1>5, <1>7, <1>8, <1>9, <1>10 DEF IntakeInv

\* The version is absent and the one before it is not, so it is the next one.
LEMMA CommitVersionInv ==
  ASSUME IntakeInv, NEW d \in Counters, CommitVersion(d)
  PROVE  IntakeInv'
<1>1. PICK j \in Job \cup {NoJob} : j = job[d]
  BY DEF IntakeInv, IntakeTypeOK
<1>2. PICK n : n = j.next OBVIOUS
<1>3. /\ j.op = "version" /\ version[n] = "absent" /\ Done(d)
      /\ version' = [version EXCEPT ![n] = "active", ![n - 1] = "inactive"]
      /\ UNCHANGED <<customer, paper, file, lastCode>>
  BY <1>1, <1>2 DEF CommitVersion
<1>4. n \in 1..Versions /\ 2 <= n /\ version[n - 1] # "absent" /\ Versions \in Nat
  BY <1>1, <1>2, <1>3, JobKinds, IntakeAssumption DEF IntakeInv, JobOK
<1>5. PICK m \in 1..Versions : VersionsUpTo(m) BY DEF IntakeInv
<1>6. n = m + 1
  <2>1. n - 1 \in 1..Versions BY <1>4
  <2> QED BY <1>3, <1>4, <1>5, <2>1 DEF VersionsUpTo
<1>7. version' \in [1..Versions -> {"absent", "active", "inactive"}]
  BY <1>3 DEF IntakeInv, IntakeTypeOK
<1>8. \A v \in 1..Versions :
        version'[v] = IF v = n - 1 THEN "inactive" ELSE IF v = n THEN "active" ELSE version[v]
  BY <1>3, <1>4 DEF IntakeInv, IntakeTypeOK
<1>9. VersionsUpTo(n)'
  BY <1>4, <1>5, <1>6, <1>8 DEF VersionsUpTo
<1>10. IntakeTypeOK' BY <1>3, <1>7, DoneFacts DEF IntakeInv, IntakeTypeOK
<1>11. CodesDense' /\ OneLive' BY <1>3 DEF IntakeInv, CodesDense, OneLive
<1>12. \A x \in Counters : JobOK(job[x])'
  BY <1>3, <1>8, JobsStay, CasesCounted DEF IntakeInv, IntakeTypeOK
<1> QED BY <1>4, <1>9, <1>10, <1>11, <1>12 DEF IntakeInv

LEMMA CloseFileInv == ASSUME IntakeInv, CloseFile PROVE IntakeInv'
<1>1. PICK k \in Cases : /\ file[k].live /\ file' = [file EXCEPT ![k].live = FALSE]
                         /\ UNCHANGED <<customer, paper, lastCode, version, job>>
  BY DEF CloseFile
<1>2. \A l \in Cases :
        /\ file'[l].code = file[l].code /\ file'[l].of = file[l].of /\ (file'[l].live => file[l].live)
        /\ l # k => file'[l] = file[l]
  BY <1>1 DEF IntakeInv, IntakeTypeOK
<1>3. file[k] # NoFile BY <1>1 DEF NoFile
<1>4. \A l \in Cases : file'[l] = NoFile <=> file[l] = NoFile
  <2>1. \A l \in Cases : file'[l] = NoFile => file[l].code = 0
    BY <1>2 DEF NoFile
  <2> QED BY <1>2, <1>3, <2>1 DEF IntakeInv, CodesDense
<1>5. IntakeTypeOK' BY <1>1 DEF IntakeInv, IntakeTypeOK
<1>6. CodesDense' BY <1>1, <1>2, <1>4 DEF IntakeInv, CodesDense
<1>7. OneLive' BY <1>2 DEF IntakeInv, OneLive
<1>8. \E n \in 1..Versions : VersionsUpTo(n)' BY <1>1 DEF IntakeInv, VersionsUpTo
<1>9. \A x \in Counters : JobOK(job[x])'
  <2>1. \A x \in Counters : job[x].op = "merge" => job[x].files \subseteq Cases
    BY JobKinds DEF IntakeInv, IntakeTypeOK
  <2> QED BY <1>1, <1>4, <2>1 DEF IntakeInv, JobOK
<1> QED BY <1>5, <1>6, <1>7, <1>8, <1>9 DEF IntakeInv

LEMMA IntakeNextInv ==
  ASSUME IntakeInv, [IntakeNext]_intakeVars
  PROVE  IntakeInv'
<1>1. CASE UNCHANGED intakeVars
  <2>1. UNCHANGED <<customer, paper, file, lastCode, version, job>> BY <1>1 DEF intakeVars
  <2> QED BY <2>1 DEF IntakeInv, IntakeTypeOK, CodesDense, OneLive, VersionsUpTo, JobOK
<1> QED
  BY <1>1, BeginInv, CustomerInv, CommitCreateInv, CommitMergeInv, CommitVersionInv, CloseFileInv
     DEF IntakeNext

\* Whatever requests overlap, the codes of the cases are 1 .. last_code with no gap
\* and no two alike, a customer has at most one live case, and the versions of the
\* workflow up to one exist of which the last is active (create_application,
\* next_application_code, relink_applications, create_workflow_version); the types
\* hold too, the bound on the codes because there are as many as cases.
THEOREM IntakeInvariance == IntakeSpec => []IntakeInv
<1>1. IntakeInv /\ [IntakeNext]_intakeVars => IntakeInv'
  BY IntakeNextInv
<1> QED BY <1>1, IntakeInitInv, PTL DEF IntakeSpec

\* IntakeSound holds for any number of requests, customers, cases and versions: one
\* live case of a customer, codes that differ and never run ahead of the counter, and
\* the newest workflow version the only active one.
THEOREM IntakeSoundHolds == IntakeSpec => []IntakeSound
<1>1. IntakeInv => IntakeSound
  <2> SUFFICES ASSUME IntakeInv PROVE IntakeSound
    OBVIOUS
  <2>1. ASSUME NEW c \in Customers PROVE Cardinality(LiveFiles(c)) <= 1
    <3>1. CASE LiveFiles(c) = {} BY <3>1, FS_EmptySet
    <3>2. CASE LiveFiles(c) # {}
      <4>1. PICK k : LiveFiles(c) = {k}
        BY <3>2 DEF IntakeInv, OneLive, LiveFiles
      <4> QED BY <4>1, FS_Singleton
    <3> QED BY <3>1, <3>2
  <2>2. PICK n \in 1..Versions : VersionsUpTo(n) BY DEF IntakeInv
  <2>3. \A v \in 1..Versions : version[v] = "active" <=> v = NewestVersion
    BY <2>2, NewestIs, IntakeAssumption DEF VersionsUpTo
  <2>4. \A k, l \in Cases : file[k] # NoFile /\ file[k].code = file[l].code => k = l
    BY DEF IntakeInv, CodesDense
  <2>5. \A k \in Cases : file[k].code <= lastCode BY DEF IntakeInv, CodesDense
  <2> QED BY <2>1, <2>3, <2>4, <2>5 DEF IntakeSound
<1> QED BY <1>1, IntakeInvariance, PTL
=============================================================================
