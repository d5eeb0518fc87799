SPECIFICATION FairSpec
CONSTANTS
  c1 = c1
  c2 = c2
  c3 = c3
  l1 = l1
  l2 = l2
  Conns <- MCConns
  LoopOf <- MCLoopOf
  Loops = {l1, l2}
  Names = {"a"}
  TimerRuns = TRUE
  MaxCommands = 1
  MaxSessions = 2
CHECK_DEADLOCK FALSE
INVARIANTS PlayersExact RegisteredPublisherLive LivePublisherRegisteredUnlessRaced
PROPERTIES ClosedUserLeaves DestroyedPublisherGetsClosed
