SPECIFICATION Spec
CONSTANTS
  NumMotors = 3
  MotType <- Mixed
  Pulse <- Pulse112
  Back <- Back010
  Merr <- Merr000
  Lo = 0
  Hi = 3
  TrackMoves = TRUE
  Nsta = 8
  Stalled <- Nobody
  MaxFaults = 2
  Tries = 1
  MaxRewrites = 1
  LineNoise = TRUE
  MaxCommands = 1
  MaxSignals = 1
INVARIANTS
  FlagsDown
  PassSound
