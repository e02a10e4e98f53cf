CONSTANTS
  a = a
  b = b
  c = c
  Ops <- MCOps
  Scenarios <- MCScenarios
  Threshold = 2
  HalfOpenProbes = 1
  MaxAttempts = 2
  Capacity = 8
  Ratio = 1
SPECIFICATION Spec
CHECK_DEADLOCK FALSE
INVARIANTS
  ProbeSlots
  ExtraWorkIsPaid
  NoOrphan
PROPERTIES
  EveryRunSettles
