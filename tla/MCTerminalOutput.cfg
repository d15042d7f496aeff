SPECIFICATION Spec
CONSTANTS
  desk = desk
  phone = phone
  Panes <- MCPanes
  Phones <- MCPhones
  Boxes = {2, 3}
  RingCap = 1
  MaxQueue = 1
  Budgets <- MCBudgets
INVARIANTS
  TypeOK CountersAgree NobodyFallsBehind ExactFits SmallestVisible RepaintIsComing NudgeIsUndone
PROPERTY ImplementsStream
CHECK_DEADLOCK FALSE
