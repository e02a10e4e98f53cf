\* Two partitions of two units, light, heavy and impossible tasks.
SPECIFICATION FairSpec
CONSTANTS
  Calls = {c1, c2, c3}
  Capacity = 2
  QueueCapacity = 1
  Partitions = 2
  Weights = {1, 2, 3}
  NoKey = NoKey
  Keys = {NoKey, 0}
  ResetTo = {1, 2}
  MaxDrains = 2
INVARIANTS
  CountsAreExact
  PermitsAreOwned
PROPERTIES
  DrainIsExact
  EveryDrainResolves
