\* pxi:mc 5 is sent whatever else is in progress.  Where nothing can
\* move any more is what the run looks for, so it is not reported as a deadlock.
SPECIFICATION FairSpec
CONSTANTS
  NSessions = 2
  nbStaticBuffersByService <- TwoSessions
  NB_STATIC_BUFFERS = 6
  Tags = {1}
  Uses <- SomeUses
  Exclusive = FALSE
PROPERTY CommandsAreAnswered
CHECK_DEADLOCK FALSE
