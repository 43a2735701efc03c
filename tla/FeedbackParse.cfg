SPECIFICATION Spec
CONSTANTS
  HEADER = 2
  MAX_LENGTH = 4
  LINEAR_SIZE = 6
  LOWATER = 4
  PACKET = 2
  FrameLength = {2, 4}
  BodyWord = {0, 1, 5, 6}
  MaxBacklog = 7
  MaxLost = 1
INVARIANTS TypeOK InStep
PROPERTIES FramesFound NeverStops
