SPECIFICATION PeopleSpec
INVARIANTS ClearedForGood
  ApprovedAndConsented RecordsExplained
  TimelineExact DefinitionsKept
PROPERTIES CompletedWithoutCustody SubmittedWithinBalance
  ClosedMonthStands
SYMMETRY PeopleSymmetry
CHECK_DEADLOCK FALSE
CONSTANTS
  Assets = {a1}
  Employees = {emp, other}
  Exits = {x1}
  Owners = {y1, y2}
  HR = {emp}
  Departures = {"Resigned"}
  Items = {approval, handover}
  Approval = approval
  mgr = mgr
  y1 = y1
  y2 = y2
  z1 = z1
  z2 = z2
  hr = hr
  own = own
  Leaves = {z1, z2}
  Employee = emp
  Colleagues = {mgr, hr, own}
  LeaveManagers = {mgr, hr}
  LeaveHR = {emp, hr}
  LeaveOwners = {own}
  LeaveEditors = {hr}
  Spans <- McSpans
  WorkingDays = {1, 2}
  AttachmentRequired = TRUE
  Grants = {0, 4}
  Null = Null
  Staff = {sam}
  Offices = {y1, y2}
  Clerks = {z1, z2}
  Files = {f1}
  Rows <- McRows
  Values = {"onTime", "late", "leave"}
  Legacy = {}
  Nil = Nil
  None = None
  Things = {t1}
  Holders = {y1, y2}
  Places = {z1, z2}
  MaxTrail = 5
  Unset = Unset
  Pieces = {z1, z2}
  Categories = {y1, y2}
  Layouts = {d1, d2}
  NoEntry = NoEntry
