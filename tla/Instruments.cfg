SPECIFICATION Spec
CONSTANTS
  Routines <- MCRoutines
  Says <- MCSays
  Kits <- MCKits
  MaxFaults = 2
  MaxCalls = 2
INVARIANTS
  TypeOK
  InStep
  Behind
  Reported
  MotorSeen
PROPERTIES
  Ends
CHECK_DEADLOCK FALSE
