SPECIFICATION Spec
CONSTANTS
  SeqSize = 5
  BufferKeep = 4
  HashKeep = 5
  SlotsPerSec = 1
  Flight = 3
  Window = 2
  Settings <- Wrap
INVARIANTS FoundTheData
CHECK_DEADLOCK FALSE
