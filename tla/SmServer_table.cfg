\* Registration and unregistration by two processes, and by pm for a process.
\* A state in which every client is parked and has gone is quiescent, not stuck.
SPECIFICATION Spec
CONSTANTS
  h1 = h1  h2 = h2  h3 = h3
  p0 = p0  p1 = p1  p2 = p2
  c1 = c1  c2 = c2
  NSlots = 2
  SrvMax = 1
  PmMax = 1
  NServices = 3
  SemMax = 3
  Handles <- MCHandles
  Ports <- MCPorts3
  SrvPmPort = p0
  Pids <- MCPids2
  SmPid = "sm"
  Names <- MCName
  SrvPmName = "srv:pm"
  Asked <- MCAskPm
  Clobbered = "clobbered"
  PrefixPairs <- MCNoPrefix
  Word4 <- One
  Ops <- MCTableOps
  ServersDie = FALSE
INVARIANTS
  TypeOK
  ServiceTableSound
PROPERTIES
  UnregisterRemovesExactly
CHECK_DEADLOCK FALSE
SYMMETRY SymmTable
