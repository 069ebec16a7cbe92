SPECIFICATION FairSpec
CONSTANTS
  None = None
  Requests = {r1, r2}
  Workers = {w1}
  MaxVersions = 1
  Keys = {k1, k2}
  ForeignKeys = {k2}
  Sources = {h1}
  AiOutputs = {ai}
  Edits = {edit}
  Levels <- MCLevels
  Matrix <- MCMatrix
  RiskFloor <- MCRiskFloor
  ForcedFloor <- MCForcedFloor
  Attempts = 2
  StallLimit = 1
  MaxSends = 2
  Disturbances = {"throw"}
  MaxFaults = 2
PROPERTY EverySendSettles
