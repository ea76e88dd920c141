SPECIFICATION FiguresSpec
INVARIANTS CarriedExactly CentsKept
  FiguresAddUp TargetsSound
  TermsUnambiguous
  SessionsAllowed BudgetKept
PROPERTIES ClosedStands CreditStands
SYMMETRY FiguresSymmetry
CHECK_DEADLOCK FALSE
CONSTANTS
  ann = ann
  bob = bob
  split = split
  rates = rates
  LastMonth = 3
  Recipients = {ann, bob}
  Rules = {split, rates}
  Independent = {rates}
  Covers <- McCovers
  Percent <- McPercent
  SortOrder <- McSortOrder
  Pools = {3}
  Corrections <- McCorrections
  Cap = 4
  None = None
  x1 = x1
  x2 = x2
  y1 = y1
  y2 = y2
  o1 = o1
  o2 = o2
  Credited = {s1, l1}
  Chiefs = {l1, m1}
  Leads = {l1}
  Offices = {o1, o2}
  CaseFiles = {f1}
  LastInstant = 4
  Nobody = Nobody
  Goals = {g1}
  LastTargetMonth = 2
  MonthDays = 3
  Workdays = {1, 3}
  GoalValues = {3}
  Cards = {x1, x2}
  Measures = {"quality", "sales"}
  Drafts <- McDrafts
  FromGoals = {"sales"}
  LowerBetter = {"quality"}
  Baseline = 3
  Actuals = {0, 2, 4}
  Hundred = 10
  Planners = {y1, y2}
  Terms = {x1, x2, z1}
  Payloads <- McPayloads
  Variants = {"v1", "v2"}
  General = General
  MonthStarts = {1, 3}
  Events <- McEvents
  NoTerm = NoTerm
  Tokens = {x1, x2, z1}
  Clients = {y1, y2}
  Limit = 5
  NoClient = NoClient
