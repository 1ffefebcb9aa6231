\* Two processes, one of them of section 0; two notifications and rings of two
\* slots: rings wrap, and a publication meets a full ring before and after others.
SPECIFICATION Spec
CONSTANTS
  Pids = {p, q}
  Section0 = {p}
  x = x
  y = y
  Ids <- MCIds
  Ring = 2
  MaxSubs = 1
  NProcs = 2
  None = none
  WaitFirst = TRUE
INVARIANTS
  TypeOK
  SemaphoreMatchesRing
PROPERTIES
  PublishedToAllSubscribers
  IsQueues
SYMMETRY Symm
