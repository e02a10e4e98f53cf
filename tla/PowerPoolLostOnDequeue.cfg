\* A queued item whose post to the worker throws.
SPECIFICATION Spec
CONSTANTS
  r1 = r1
  r2 = r2
  r3 = r3
  f1 = f1
  k0 = k0
  d1 = d1
  d2 = d2
  Calls <- ThreeCalls
  Keys <- AllKeys
  Drains = {d1}
  MaxAlive = 1
  MaxBootFailures = 3
  Scenarios <- ThrowScenarios
  Sizes = {1}
CHECK_DEADLOCK FALSE
INVARIANT NoLostResponse
