\* Two sockets, two ports, maps of one entry, and a restart.
SPECIFICATION FairSpec
CONSTANTS
  c1 = c1
  c2 = c2
  p1 = p1
  p2 = p2
  r1 = r1
  r2 = r2
  relay0 = relay0
  local0 = local0
  Conns <- Two
  Ports <- TwoPorts
  Remotes <- TwoRemotes
  Loopback <- LoopbackSmall
  RelayAddr <- relay0
  MaxEntries = 1
  Retries = 1
  MaxRuns = 2
  MaxFailures = 1
  SocketReuse = FALSE
  Base = 3
  LoopbackNet = 1
  PROXY_PORT = 5
INVARIANTS
  RelayedToOriginal
  NeverADefault
  NoLoop
  OnlyFailedLeft
  ByteOrderContract
PROPERTY
  HandlersDecide
CHECK_DEADLOCK FALSE
