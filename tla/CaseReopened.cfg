SPECIFICATION Spec
PROPERTIES TerminalNotReopened
CHECK_DEADLOCK FALSE
CONSTANTS
  se = se
  tl = tl
  sm = sm
  cod = cod
  cod2 = cod2
  gm = gm
  w1 = w1
  w2 = w2
  new1 = new1
  sub1 = sub1
  book1 = book1
  rel1 = rel1
  old1 = old1
  new2 = new2
  None = None
  Staff = {se, tl, sm, cod}
  Managers = {gm}
  Role <- MCRole
  Team <- MCTeam
  Owners = {se}
  Workflows = {w1, w2}
  Stages <- MCStages
  WorkflowOf <- MCWorkflowOf
  KeyOf <- MCKeyOf
  ActiveStages <- MCActiveStages
  Successful = {book1}
  Transitions <- MCTransitions
  Products = {"CC", "PF"}
  AmountRequired = {"PF"}
  ManualOutcomes = {"Cancelled"}
  Reviews = {"legacy", "pending_review"}
  Rows = {1, 2, 3}
