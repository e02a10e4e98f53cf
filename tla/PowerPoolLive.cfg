\* Workers answer and the queue is resumed.
SPECIFICATION FairSpec
CONSTANTS
  r1 = r1
  r2 = r2
  r3 = r3
  f1 = f1
  k0 = k0
  d1 = d1
  d2 = d2
  Calls <- ThreeCalls
  Keys <- AllKeys
  Drains = {d1}
  MaxAlive = 1
  MaxBootFailures = 3
  Scenarios <- LiveScenarios
  Sizes = {1}
CHECK_DEADLOCK FALSE
PROPERTIES
  EveryResponseSettles
  EveryDrainSettles
