\* A waiter heavier than any one release, with holders that release.
SPECIFICATION FairSpec
CONSTANTS
  Calls = {c1, c2, c3}
  Capacity = 2
  QueueCapacity = 2
  Weights = {1, 2}
  InitialTokens = 2
  ResetTo = {2}
  AbortsAfterReset = FALSE
PROPERTY EveryWaiterSettles
