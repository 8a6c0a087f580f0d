SPECIFICATION PodSpec
CONSTANTS
  DownFirst = FALSE
  MaxRuns = 3
INVARIANT AppAfterListener
