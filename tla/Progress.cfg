SPECIFICATION ProgressSpec
INVARIANT AppliedAsApproved
PROPERTIES EveryRequestEnds ImplementsLedger DueIsSettled OverdueReminded
CHECK_DEADLOCK FALSE
CONSTANTS
  Requests = {r1, r2, r3}
  Sessions = {s1, s2, s3}
  Amount = 2
  FullOnly = FALSE
  NoRequest = NoRequest
  Transfers = {t1}
  Employee = emp
  Owner = owner
  HR = {hr, emp}
  Managers = {mgr}
  Places = {here, there}
  LastDay = 2
  Executors = {x1, x2}
  Reliable = {x1}
  None = None
  Reminders = {m1, m2}
