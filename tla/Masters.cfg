SPECIFICATION MastersSpec
INVARIANTS RowsInStep DeletedUnreferenced UnitsCoherent ContractInForce RemindersAgree DocumentsSound
PROPERTIES ClosedForSerial
SYMMETRY MastersSymmetry
CHECK_DEADLOCK FALSE
CONSTANTS
  x1 = x1
  x2 = x2
  y1 = y1
  y2 = y2
  Departments = {x1, x2}
  BusinessUnits = {unit}
  Squads = {team}
  Members = {member}
  Forms = {y1, y2}
  Vacant = Vacant
  Contracts = {k0, z1, z2}
  FirstContract = k0
  Authors = {a1, s1}
  Signers = {s1, h}
  Holder = h
  MaxContractVersion = 5
  NoContract = NoContract
  Recipients = {y1, y2}
  Scope = {y1, y2}
  MaxReminders = 2
  Files = {z1, z2}
  Editors = {y1, y2}
  MaxDocVersion = 4
  NoFile = NoFile
  se = se
  tl = tl
  sm = sm
  cod = cod
  cod2 = cod2
  gm = gm
  w1 = w1
  w2 = w2
  new1 = new1
  sub1 = sub1
  book1 = book1
  rel1 = rel1
  old1 = old1
  new2 = new2
  None = None
  Staff = {se, tl, sm, cod, cod2}
  Managers = {gm}
  Role <- MCRole
  Team <- MCTeam
  Owners = {se, tl}
  Workflows = {w1, w2}
  Stages <- MCStages
  WorkflowOf <- MCWorkflowOf
  KeyOf <- MCKeyOf
  ActiveStages <- MCActiveStages
  Successful = {book1}
  Transitions <- MCTransitions
  Products = {"CC", "PF"}
  AmountRequired = {"PF"}
  ManualOutcomes = {"Cancelled"}
  Reviews = {"legacy", "forwarded", "pending_review"}
  Rows = {1, 2}
