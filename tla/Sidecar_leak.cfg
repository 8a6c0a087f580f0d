\* New captures whose header may fail to be written.
SPECIFICATION Spec
CONSTANTS
  None = None
  MaxBytes = 4
  MaxAge = 1
  maxRunSuffix = 1
  FilesMayFail = TRUE
  HeaderMayFail = TRUE
  MaxRuns = 3
  MaxTime = 2
  MaxSize = 4
INVARIANT EndedClean
CHECK_DEADLOCK FALSE
