SPECIFICATION Spec
CONSTANTS
  u1 = u1
  u2 = u2
  Users = {u1}
  BufferSize = 3
  BatchSize = 2
  ContentLatency = 3
  Deltas <- MCBackwards
  Kinds <- MCKinds
  MaxFrames = 6
INVARIANTS
  DecodableUnlessGap
PROPERTIES
  EntersAtKeyFrameUnlessStale
  LogSpec
CHECK_DEADLOCK FALSE
