SPECIFICATION Spec
CONSTANTS
  Acceptor = Acceptor
  Pipe = Pipe
  None = None
  Conns = {1, 2, 3}
  Fds = {1, 2, 3}
  PipeRoom = 2
  Room = 1
  Programs <- MCPrograms
CHECK_DEADLOCK FALSE
INVARIANTS 
  ConnectionsWatched
  NothingUnnoticed
  WokenForTasks
  BytesInOrderUnlessShort
  CompletionOwed
  ClosedForCauseUnlessStray
