CONSTANTS
  Block = 2
  Threshold = 1
  Ceiling = 7
  OldMarks <- MCOldMarks
  LosesRenames = TRUE
  MaxIds = 4
SPECIFICATION Spec
INVARIANT LostEntryIsSafe
CHECK_DEADLOCK FALSE
