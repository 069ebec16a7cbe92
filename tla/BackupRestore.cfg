SPECIFICATION Spec
CONSTANTS
  Tasks = {t1, t2}
  MaxFiles = 4
  MaxWrites = 1
  MaxRequests = 3
  MaxMishaps = 2
  MaxCrashes = 1
  RetentionCount = 1
SYMMETRY TaskSymmetry
INVARIANTS TypeOK SafeCopy LockFreeAtRest
PROPERTIES RestoreReturns 
CHECK_DEADLOCK FALSE
