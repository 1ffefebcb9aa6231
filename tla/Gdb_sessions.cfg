\* Two kinds of use of two contexts and two ports: see MCGdb.  It ends when the
\* debugger has been disabled, or its menu has given up waiting for it.
SPECIFICATION FairSpec
CONSTANTS
  MAX_DEBUG = 2
  NPorts = 2
  MAX_CTXS = 4
  pa = pa
  pb = pb
  Pids <- MCPids
  None = none
  Uses <- MCUses
  Polite = TRUE
  MonitorFirst = TRUE
  AttachFails = FALSE
CHECK_DEADLOCK FALSE
INVARIANTS
  TypeOK
  TablesSound
  MonitorStays
  DebuggeesSound
PROPERTIES
  CloseIsAcknowledged
  StopsAreReported
