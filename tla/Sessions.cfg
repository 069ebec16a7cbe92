SPECIFICATION Spec
CONSTANTS
  tab1 = tab1
  tab2 = tab2
  Tabs <- MCTabs
  Duties <- MCDuties
  MaxTokens = 3
  MaxPinAttempts = 2
  MaxAsked = 5
  MaxFaults = 1
  None = None
INVARIANTS
  TypeOK
  RefusedOnlyWhenOver
  OneTokenPerLogin
PROPERTIES
  RevokedStaysLocked
  RefreshSettles
CHECK_DEADLOCK FALSE
