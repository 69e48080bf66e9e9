SPECIFICATION FairSpec
CONSTANTS
  Main <- NestedMain
  Included <- NestedIncluded
  Kept = 3
  MaxTry = 2
  MaxRuns = 2
  MaxCrashes = 2
  MaxSignals = 1
PROPERTIES
  RunsInOrder
  SequenceEnds
