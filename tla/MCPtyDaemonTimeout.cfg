SPECIFICATION Spec
CONSTANTS
  Conns = {c1, c2}
  Ids = {a}
  Ptys = {p1, p2}
  None = None
  PauseThreshold = 1
  OutboundCap = 2
  MaxBurst = 2
  TrailingOutput = TRUE
PROPERTY OnlyBlockersTimeOut
