SPECIFICATION Spec
CONSTANTS
  None = None
  Requests = {r1, r2}
  Handlers <- MCCare
  MaxAlerts = 1
  MaxLogs = 2
  Lecturers = {s1, s2}
  RaiseLevels = {2, 4}
  Absences = {3}
SYMMETRY MCSymmetry
VIEW MCCareView
INVARIANTS CaredForLevel 
PROPERTY AlertOnlyMovesForward
