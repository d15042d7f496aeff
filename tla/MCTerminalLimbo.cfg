SPECIFICATION FairSpec
CONSTANTS
  Openers = {o1}
  Recovery = {"attach", "adopt"}
  Ptys = {p1, p2}
  None = None
  OthersAlive = FALSE
  MaxSeq = 1
  MaxFaults = 1
PROPERTIES
  LimboEnds
