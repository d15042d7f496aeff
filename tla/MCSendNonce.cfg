CONSTANTS
  Block = 2
  Threshold = 1
  Ceiling = 7
  OldMarks <- MCOldMarks
  LosesRenames = TRUE
  MaxIds = 4
SPECIFICATION Spec
INVARIANTS
  TypeOK
  NextNonceUnused
  LicenceIsDurable
  FloorNeverLeads
  NoSpuriousRefusal
PROPERTY MarkNeverLowered
CHECK_DEADLOCK FALSE
