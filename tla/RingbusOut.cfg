SPECIFICATION Spec
CONSTANTS
  HALF = 2
  Thread = {"dsp", "js", "zmq"}
  DspThread = "dsp"
  Fpga = {"parse", "fft", "peer"}
  Own = {"parse", "fft"}
  Program <- MCProgram
  Queued = {"dsp", "js"}
  MINIMUM_GAP = 2
INVARIANTS TypeOK NothingStranded SoleUserIsObeyed NoMixedValue
PROPERTIES GapKept AllLeave
CHECK_DEADLOCK FALSE
