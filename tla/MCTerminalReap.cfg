SPECIFICATION Spec
CONSTANTS
  Openers = {o1}
  Recovery = {"attach", "adopt"}
  Ptys = {p1, p2}
  None = None
  OthersAlive = TRUE
  MaxSeq = 3
  MaxFaults = 0
PROPERTY ReaperSparesLive
