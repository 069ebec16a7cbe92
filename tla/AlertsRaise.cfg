SPECIFICATION Spec
CONSTANTS
  None = None
  Requests = {r1, r2}
  Handlers <- MCRaise
  MaxAlerts = 2
  MaxLogs = 0
  Lecturers = {s1, None}
  RaiseLevels = {4}
  Absences = {3}
SYMMETRY MCSymmetry
INVARIANTS TypeOK RaisedOnce LevelAnnounced
