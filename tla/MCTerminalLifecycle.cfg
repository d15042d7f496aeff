SPECIFICATION Spec
CONSTANTS
  Openers = {o1}
  Recovery = {"attach", "adopt"}
  Ptys = {p1, p2}
  None = None
  OthersAlive = TRUE
  MaxSeq = 2
  MaxFaults = 1
SYMMETRY Symmetry
INVARIANTS
  TypeOK
  SessionOwnsRow
  KilledStaysDead
PROPERTY ConfirmedIsDoomed
