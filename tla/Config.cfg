SPECIFICATION Spec
CONSTANTS
  Half = 4
  Exact = 2
  Ulps = {1, 2, 4, 8}
  Absent = Absent
  Error = Error
INVARIANTS LoadsAsWritten
CHECK_DEADLOCK FALSE
