SPECIFICATION Spec
PROPERTIES NoSilentOverwrite
CONSTANTS
  Transfers = {t1}
  Employee = emp
  Owner = owner
  HR = {hr, emp}
  Managers = {mgr}
  Places = {here, there}
  LastDay = 2
  Executors = {x1, x2}
  Reliable = {x1}
  None = None
