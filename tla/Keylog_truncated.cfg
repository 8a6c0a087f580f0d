\* One app process sending a line the sidecar knows and one it does not, and a restart of the sidecar.
SPECIFICATION Spec
CONSTANTS
  a1 = a1
  f1 = f1
  f2 = f2
  None = None
  Procs <- OneProc
  Lines <- KnownAndUnknown
  Conns <- TwoConns
  MaxAttempts = 2
  SockBuf = 1
  Backlog = 1
  MaxSecrets = 2
  MaxRuns = 2
  MaxRejected = 1
  FileMayFail = FALSE
  DiskMayFail = FALSE
  IgnoreSigpipe = TRUE
INVARIANT TruncatedIsRejected
CHECK_DEADLOCK FALSE
