SPECIFICATION FairSpec
CONSTANTS
  c1 = c1
  c2 = c2
  c3 = c3
  l1 = l1
  l2 = l2
  Conns <- MCTwoConns
  LoopOf <- MCTwoLoopOf
  Loops = {l1, l2}
  Names = {"a"}
  TimerRuns = FALSE
  MaxCommands = 2
  MaxSessions = 1
CHECK_DEADLOCK FALSE
PROPERTY HandlersFinish
