SPECIFICATION FairSpec
CONSTANTS
  Openers = {o1}
  Recovery = {}
  Ptys = {p1}
  None = None
  OthersAlive = TRUE
  MaxSeq = 2
  MaxFaults = 1
PROPERTY LeftoversGo
