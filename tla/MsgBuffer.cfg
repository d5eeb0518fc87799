SPECIFICATION Spec
CONSTANTS
  Offset = 1
  Length = 1
  ExtSize = 2
  Bytes = {0, 1}
  Base = 2
  MaxLen = 3
  MaxReadable = 4
INVARIANTS NumbersReadBack
PROPERTY QueueSpec
