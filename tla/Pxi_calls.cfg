\* Two uses of two sessions: see MCPxi.  A panic is a deadlock.  The sessions
\* may hold 0 + 2 static buffers, and four more are on offer.
SPECIFICATION FairSpec
CONSTANTS
  NSessions = 2
  nbStaticBuffersByService <- TwoSessions
  NB_STATIC_BUFFERS = 6
  Tags = {1, 2}
  Uses <- SomeUses
  Exclusive = TRUE
INVARIANTS TypeOK RepliesAreCounted  PendingIsInFlight
PROPERTIES IsCalls CommandsAreAnswered TerminationCompletes
