\* Services and named ports, one name a prefix of the other; servers unregister
\* services that sessions are parked on, so that sm may panic, or die.
\* A state in which every client is parked and has gone is quiescent, not stuck.
SPECIFICATION Spec
CONSTANTS
  h1 = h1  h2 = h2  h3 = h3
  p0 = p0  p1 = p1  p2 = p2
  c1 = c1  c2 = c2
  NSlots = 2
  SrvMax = 2
  PmMax = 0
  NServices = 3
  SemMax = 3
  Handles <- MCHandles
  Ports <- MCPorts3
  SrvPmPort = p0
  Pids <- MCPids
  SmPid = "sm"
  Names <- MCNames
  SrvPmName = "srv:pm"
  Asked <- MCNames
  Clobbered = "clobbered"
  PrefixPairs <- MCPrefix
  Word4 <- Flags
  Ops <- MCFullOps
  ServersDie = TRUE
INVARIANTS
  IInv
  NoLostWakeup
  RequestsAccountedFor
CHECK_DEADLOCK FALSE
SYMMETRY Symm
