SPECIFICATION Spec
CONSTANTS
  Conns = {c1, c2}
  Ids = {a, b}
  Ptys = {p1, p2}
  None = None
  PauseThreshold = 1
  OutboundCap = 2
  MaxBurst = 2
  TrailingOutput = TRUE
SYMMETRY Symmetry
INVARIANTS
  TypeOK
  NoStrandedPty
  NoOrphanPause
  PauseHasDeadline
  NoStaleDeadline
PROPERTIES
  LiveSessionStays
  ImplementsRegistry
