SPECIFICATION Spec
CONSTANTS
  None = None
  Csids = {3}
  Lengths = {0, 3}
  Times = {0, 1, 9}
  Half = 4
  ExtMark = 7
  InitialChunk = 1
  OutChunk = 2
  Window = 5
  AckEvery = 4
  Batch = 2
  Writers = {"client", "server", "encoder"}
  MaxMessages = 2
CHECK_DEADLOCK FALSE
INVARIANTS DeliveredAsSent TimeAsSent EveryByteCountedOnce NothingLeftBehind
