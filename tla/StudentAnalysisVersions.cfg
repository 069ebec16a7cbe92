SPECIFICATION Spec
CONSTANTS
  None = None
  Requests = {r1, r2}
  Workers = {w1}
  MaxVersions = 2
  Keys = {k1, k2, k3}
  ForeignKeys = {k3}
  Sources = {h1, h2}
  AiOutputs = {ai}
  Edits = {}
  Levels <- MCLowLevel
  Matrix <- MCMatrix
  RiskFloor <- MCRiskFloor
  ForcedFloor <- MCForcedFloor
  Attempts = 1
  StallLimit = 0
  MaxSends = 1
  Disturbances = {"throw", "redis", "stall", "crash"}
  MaxFaults = 1
SYMMETRY MCSymmetry
INVARIANTS TypeOK OnlyNewestUnfinished OneVersionPerKey ResendNeedsNewSource
PROPERTY ImplementsLedger
