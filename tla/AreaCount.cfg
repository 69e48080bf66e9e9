SPECIFICATION Spec
CONSTANTS
  Piece = 2
  Word = 3
  Presets <- MCPresets
  MaxPulses <- MCPulses
  MaxErrors = 1
  Contents <- MCContents
  Zero = {}
  Elements = 3
  PerBlock = 2
  Sizes = {2, 6}
  LongWords = 2
  MaxMishaps = 1
  AreaPresets <- MCAreaPresets
  Rocks = {TRUE, FALSE}
  MaxCounts = 2
INVARIANTS
  TypeOK
  Exact
  HistogramOwn
  Brought
  
  Finished
PROPERTIES
  Implements
  TransferOver
CHECK_DEADLOCK FALSE
