SPECIFICATION Spec
CONSTANTS
  NumMotors = 1
  MotType <- OneVme
  Pulse <- Pulse1
  Back <- Back1
  Merr <- Merr0
  Lo = 0
  Hi = 4
  TrackMoves = TRUE
  Nsta = 1
  Stalled <- Nobody
  MaxFaults = 0
  Tries = 3
  MaxRewrites = 2
  LineNoise = FALSE
  MaxCommands = 1
  MaxSignals = 1
INVARIANTS
  FileAfterAbort
