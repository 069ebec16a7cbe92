SPECIFICATION Spec
CONSTANTS
  an = an
  binh = binh
  s1 = s1
  s2 = s2
  Staff = {an, binh}
  Heads = {}
  Admins = {binh}
  Sections = {s1}
  Inputs <- MCOneInput
  Ticked <- MCTicked
  Counts = {3}
  Editors = {e1, e2}
  MaxChanges = 3
  None = None
PROPERTY CriteriaAsSent
CHECK_DEADLOCK FALSE
