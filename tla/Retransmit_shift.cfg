SPECIFICATION Spec
CONSTANTS
  SeqSize = 256
  BufferKeep = 4
  HashKeep = 5
  SlotsPerSec = 2
  Flight = 3
  Window = 2
  Settings <- Shift
INVARIANTS AskedAreMissing
CHECK_DEADLOCK FALSE
