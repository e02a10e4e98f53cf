\* Every safety property, in every scenario.
SPECIFICATION Spec
CONSTANTS
  r1 = r1
  r2 = r2
  r3 = r3
  f1 = f1
  k0 = k0
  d1 = d1
  d2 = d2
  Calls <- FourCalls
  Keys <- AllKeys
  Drains = {d1}
  MaxAlive = 2
  MaxBootFailures = 3
  Scenarios <- SafetyScenarios
  Sizes = {0, 2}
SYMMETRY RequestSymmetry
CHECK_DEADLOCK FALSE
INVARIANTS
  WorkIsCounted
  NoLostResponse
  OpenIsRegistered
  IdleIsAnnounced
  ShutdownIsFinal
  AbortReleasesWaiter
  WorkersAreKept
PROPERTIES
  DrainMeansDone
  SettledOnce
