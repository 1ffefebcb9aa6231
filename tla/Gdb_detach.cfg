\* A client in extended-remote mode detaches at any moment.
SPECIFICATION FairSpec
CONSTANTS
  MAX_DEBUG = 2
  NPorts = 2
  MAX_CTXS = 4
  pa = pa
  pb = pb
  Pids <- MCPids
  None = none
  Uses <- MCOneSession
  Polite = TRUE
  MonitorFirst = FALSE
  AttachFails = FALSE
CHECK_DEADLOCK FALSE
PROPERTY CloseIsAcknowledged
