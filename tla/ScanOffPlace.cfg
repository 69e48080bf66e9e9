SPECIFICATION Spec
CONSTANTS
  Pts = 1
  Mpf = 1
  Sections = 1
  Scl = 1
  Retries = 1
  MaxHolds = 0
  MaxRuns = 1
  MaxUpsets = 1
  MaxSignals = 0
INVARIANTS
  CountedInPlace
