SPECIFICATION StaffSpec
INVARIANTS SupersededBySuccessor ReportsAcyclic EmailsKept
PROPERTIES ReviewedContentKept DecidedAsSeen
SYMMETRY StaffSymmetry
CHECK_DEADLOCK FALSE
CONSTANTS
  x1 = x1
  x2 = x2
  x3 = x3
  y1 = y1
  y2 = y2
  Transfers = {x1, x2, x3}
  Employee = emp
  Owner = owner
  HR = {}
  Managers = {mgr}
  Places = {here, there}
  LastDay = 2
  Executors = {}
  Reliable = {}
  None = None
  Head = own
  People = {own, x1, x2, x3}
  Writers = {y1, y2}
  Nobody = Nobody
  Persons = {y1, y2}
  Emails = {x1, x2, x3}
  Codes = {c1}
  Tickets = {k1}
  Desks = {d1, d2}
  Unset = Unset
  mgr = mgr
  hr = hr
  own = own
  RowKinds = {"Leave", "Contracts", "Transfers", "Exit"}
  Subject = emp
  Deciders = {mgr, hr, own}
  Proprietors = {own}
  Grant <- McGrant
  Requesters = {emp, hr}
  Empty = Empty
