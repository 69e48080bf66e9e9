SPECIFICATION FairSpec
CONSTANTS
  NumMotors = 2
  MotType <- AcsVme
  Pulse <- Pulse11
  Back <- BackUpDown
  Merr <- Merr00
  Lo = 0
  Hi = 3
  TrackMoves = TRUE
  Nsta = 1
  Stalled <- Nobody
  MaxFaults = 2
  Tries = 2
  MaxRewrites = 1
  LineNoise = FALSE
  MaxCommands = 1
  MaxSignals = 1
INVARIANTS
  TypeOK
  OnTarget
  BacklashTaken
  FileFollows
PROPERTIES
  YieldReturns
