SPECIFICATION Spec
CONSTANTS
  NumMotors = 1
  MotType <- OneAcs
  Pulse <- Pulse1
  Back <- Back1
  Merr <- Merr0
  Lo = 0
  Hi = 4
  TrackMoves = TRUE
  Nsta = 1
  Stalled <- Nobody
  MaxFaults = 2
  Tries = 3
  MaxRewrites = 2
  LineNoise = FALSE
  MaxCommands = 2
  MaxSignals = 1
INVARIANTS
  OnTarget
  BacklashTaken
  FileFollows
  NoRunaway
