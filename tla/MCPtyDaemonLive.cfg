SPECIFICATION FairSpec
CONSTANTS
  Conns = {c1, c2}
  Ids = {a}
  Ptys = {p1, p2}
  None = None
  PauseThreshold = 0
  OutboundCap = 1
  MaxBurst = 2
  TrailingOutput = FALSE
PROPERTIES
  PauseEnds
  ClosedSessionLeaves
