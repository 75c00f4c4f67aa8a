CONSTANTS
  MaxRuns = 1
  NoObject = NoObject
SPECIFICATION HandshakeSpec
INVARIANT ReadyMeansReady
CHECK_DEADLOCK FALSE
