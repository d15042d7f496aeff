SPECIFICATION Spec
CONSTANTS
  Openers = {o1, o2}
  Recovery = {}
  Ptys = {p1, p2, p3}
  None = None
  OthersAlive = FALSE
  MaxSeq = 3
  MaxFaults = 1
SYMMETRY Symmetry
PROPERTY ConfirmedIsDead
