SPECIFICATION Spec
CONSTANTS
  None = None
  s1 = s1
  j1 = j1
  j2 = j2
  k1 = k1
  t1 = t1
  d1 = d1
  d2 = d2
  m1 = m1
  m2 = m2
  admin = admin
  section = section
  Students = {s1}
  Subjects = {j1, j2}
  Sections = {k1}
  Lecturers = {t1}
  Departments = {d1, d2}
  Majors = {m1, m2}
  Classes = {admin, section}
  AdminClasses = {admin}
  ClassMajor <- MCClassMajor
  MajorDept <- MCMajorDept
  HomeDept <- MCHomeDept
  CodeTaken = {}
  Forms <- MCForms
  InitialCell <- MCCell
  Callers = {c1, c2}
  Scoped = {c2}
  MaxBatches = 2
  Files <- MCFiles
  MaxEdits = 1
  MaxFaults = 1
INVARIANTS
  TypeOK
  AppliedNotPending
  DepartmentFollowsMajor
PROPERTIES
  AdminClassKept
  ReviewFollows
CHECK_DEADLOCK FALSE
