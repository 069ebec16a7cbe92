SPECIFICATION Spec
CONSTANTS
  an = an
  binh = binh
  s1 = s1
  s2 = s2
  Staff = {an, binh}
  Heads = {}
  Admins = {binh}
  Sections = {s1, s2}
  Inputs <- MCInputs
  Ticked <- MCTicked
  Counts = {2, 3}
  Editors = {e1}
  MaxChanges = 4
  None = None
SYMMETRY MCSymmetry
INVARIANTS
  TypeOK
  MedianOfPoints
PROPERTIES
  WorseNeverCalmer
CHECK_DEADLOCK FALSE
