SPECIFICATION Spec
CONSTANTS
  Room = 2
  MaxGiven = 4
  MaxEdits = 2
  MaxSaves = 2
  MaxCrashes = 1
  MaxSignals = 1
INVARIANTS
  RecordFits
  AtMostOnce
  OwnersApart
PROPERTIES
  RunsInOrder
