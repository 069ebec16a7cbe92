SPECIFICATION FairSpec
CONSTANTS
  None = None
  Requests = {r1, r2}
  Workers = {w1}
  MaxVersions = 1
  Keys = {k1}
  ForeignKeys = {}
  Sources = {h1}
  AiOutputs = {ai}
  Edits = {edit}
  Levels <- MCLevels
  Matrix <- MCMatrix
  RiskFloor <- MCRiskFloor
  ForcedFloor <- MCForcedFloor
  Attempts = 1
  StallLimit = 1
  MaxSends = 2
  Disturbances = {"throw", "redis", "stall", "evict"}
  MaxFaults = 3
INVARIANT SentToAllRecipients
PROPERTIES ContentOnlyChangesAsDraft GenerationSettles DeliverySettles
