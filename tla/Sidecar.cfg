\* Three runs in one capture directory; files may be undeletable.
SPECIFICATION FairSpec
CONSTANTS
  None = None
  MaxBytes = 4
  MaxAge = 1
  maxRunSuffix = 1
  FilesMayFail = TRUE
  HeaderMayFail = FALSE
  MaxRuns = 3
  MaxTime = 2
  MaxSize = 4
INVARIANTS
  WithinMaxBytes
  EndedClean
  KeylogOfOneRun
PROPERTIES
  OnlyDueDeleted
  FinishedUnchanged
  ExpiredDeleted
  FreedRoomUsed
CHECK_DEADLOCK FALSE
