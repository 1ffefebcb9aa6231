\* The loop is scheduled (weak fairness of Sm).
\* A state in which every client is parked and has gone is quiescent, not stuck.
SPECIFICATION FairSpec
CONSTANTS
  h1 = h1  h2 = h2  h3 = h3
  p0 = p0  p1 = p1  p2 = p2
  c1 = c1  c2 = c2
  NSlots = 3
  SrvMax = 3
  PmMax = 0
  NServices = 3
  SemMax = 3
  Handles <- MCHandles
  Ports <- MCPorts
  SrvPmPort = p0
  Pids <- MCPids
  SmPid = "sm"
  Names <- MCName
  SrvPmName = "srv:pm"
  Asked <- MCName
  Clobbered = "clobbered"
  PrefixPairs <- MCNoPrefix
  Word4 <- Flags
  Ops <- MCWaitOps
  ServersDie = FALSE
INVARIANTS
  PoolPartitioned
  SemaphoreCountsWakeups
  NeverPanics
PROPERTIES
  WokenIsReplayed
CHECK_DEADLOCK FALSE
