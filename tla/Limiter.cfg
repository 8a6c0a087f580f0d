\* Three goroutines, windows of two ticks, bursts of two.
SPECIFICATION Spec
CONSTANTS
  g1 = g1
  g2 = g2
  g3 = g3
  Callers <- Three
  Interval = 2
  Burst = 2
  MaxTime = 7
  MaxCalls = 12
SYMMETRY Symmetric
INVARIANTS
  RateBounded
  AllAccounted
CHECK_DEADLOCK FALSE
