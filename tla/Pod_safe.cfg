SPECIFICATION PodSpec
CONSTANTS
  DownFirst = TRUE
  MaxRuns = 3
INVARIANTS AppAfterListener 
