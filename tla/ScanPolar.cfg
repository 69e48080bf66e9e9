SPECIFICATION FairSpec
CONSTANTS
  Pts = 2
  Mpf = 4
  Sections = 2
  Scl = 2
  Retries = 1
  MaxHolds = 1
  MaxRuns = 2
  MaxUpsets = 1
  MaxSignals = 1
INVARIANTS
  PointsWhole
  FilesInStep
  FinishedWhole
PROPERTIES
  ScanEnds
