-------------------------- MODULE MCCaseLifecycle --------------------------
(* Small instances of CaseLifecycle: one user per role, a workflow with the  *)
(* entry, Submitted, Booked (successful) and Fund Released stages, and a     *)
(* second version to migrate to.                                             *)
EXTENDS CaseLifecycle

CONSTANTS se, tl, sm, cod, cod2, gm, w1, w2, new1, sub1, book1, rel1, old1, new2

MCRole == [u \in {se, tl, sm, cod, cod2} |->
             CASE u = se -> "SE" [] u = tl -> "TL" [] u = sm -> "SM" [] OTHER -> "COD"]
MCTeam == [u \in {tl} |-> {se, tl}]

MCStages == {new1, sub1, book1, rel1, old1, new2}
MCWorkflowOf == [st \in MCStages |-> IF st = new2 THEN w2 ELSE w1]
MCKeyOf == [st \in MCStages |->
             CASE st \in {new1, new2} -> "APPLICATION_CREATED"
               [] st = sub1  -> "SUBMITTED"
               [] st = book1 -> "BOOKED"
               [] st = rel1  -> "FUND_RELEASED"
               [] st = old1  -> "CUSTOM"]
MCActiveStages == MCStages \ {old1}
MCTransitions == {<<new1, sub1>>, <<sub1, book1>>, <<book1, rel1>>}
=============================================================================
