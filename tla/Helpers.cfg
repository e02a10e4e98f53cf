CONSTANTS
  k1 = k1
  k2 = k2
  k3 = k3
  Nil = Nil
  Freed = Freed
  Keys <- MCKeys
  MaxEntries = 2
  MaxWeight = 3
  WindowSize = 1
  MissCost <- MCMissCost
  AsyncKeys = {k1}
  Flights = {1, 2, 3}
  CacheCalls = {1, 2, 3}
  MaxInflightRefreshes = 1
  TKeys <- MCKeys
  Ttls = {0, 1, 3}
  MaxSize = 2
  LastTime = 5
  DKeys <- MCKeys
  DTtl = 2
  MaxKeys = 2
  LastDTime = 5
  LKeys <- MCLedgerKeys
  SweepBatch = 2
  NoKey = NoKey
  SKeys <- MCKeys
  Depth = 2
  Width = 2
  Column <- MCColumn
  Gamma = 2
  Samples = {0, 1, 3, 4, 6, 16}
  Infinite = 16
  MaxSamples = 3
  Quantiles = {1, 34, 50, 67, 100}
  Histograms = {1, 2}
  Unordered = Unordered
  MKeys <- MCMemoKeys
  Runs = {1, 2, 3}
  Callers = {1, 2, 3, 4}
  NoRun = NoRun
  ThrottleCapacity = 2
  Rate = 1
  Per = 2
  Emission = 2
  Burst = 1
  WindowCapacity = 2
  WindowMs = 3
  FlowRates = {0, 1, 2}
  LastTick = 4
  MaxOdd = 1
  Calls = {1, 2, 3, 4, 5}
  Capacity = 2
  QueueCapacity = 2
  LowWaterMark = 1
  HighWaterMark = 2
  BaseRefill = 1
  WindowMin = 1
  WindowMax = 2
  Increase = 1
  Batches = {1, 2}
  Strategies <- MCStrategies
  Items = {1, 2, 3, 4}
  BatchSize = 2
  Channels = {1, 2}
  Total = 7
  ChunkSize = 2
  Window = 2
  HighWaters = {0, 1}
  PoolWorkers = {1}
  PoolQueues = {1, 3}
  ChunkDrains = {1, 2}
  LatchWaiters = {1, 2, 3}
  MaxCount = 2
  LockRequests = {1, 2, 3, 4}
  Interval = 2
  MaxCatchUp = 1
  LastCronTick = 9
  MaxInFlight = 3
  Listeners = {1, 2}
  MaxListeners = 2
  MaxRegistered = 3
  MaxBuckets = 2
  MaxDepth = 2
  Values = {1, 2}
  MaxSets = 3
  MaxNested = 2
  Latencies = {0, 1, 2, 6}
  Elapsed = {0, 1, 3}
  TargetLatency = 2
  Gain = 1
  MinRate = 1
  MaxRate = 8
  InitialRate = 5
  FlowCapacity = 2
  MaxSubmitted = 4
SPECIFICATION Spec
CHECK_DEADLOCK FALSE
INVARIANTS
  CacheIsSound
  SharedRuns
  ShortcutsAreSound
  LimitsAreSound
  GateKeepsFlowing
  BatchesAreKept
  CoordinationIsSound
  ListenersAreKept
