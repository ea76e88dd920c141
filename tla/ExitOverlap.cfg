SPECIFICATION Spec

PROPERTIES EndedTogether

CONSTANTS
  Assets = {a1}
  Employees = {emp, other}
  Exits = {x1}
  Owners = {o1, o2}
  HR = {emp}
  Departures = {"Resigned"}
  Items = {approval, handover}
  Approval = approval
  None = None
