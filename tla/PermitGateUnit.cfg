\* Unit weights: the gate as PowerSemaphore is normally used.
SPECIFICATION FairSpec
CONSTANTS
  Calls = {c1, c2, c3, c4, c5}
  Capacity = 2
  QueueCapacity = 2
  Weights = {1}
  InitialTokens = 2
  ResetTo = {2}
  AbortsAfterReset = FALSE
INVARIANTS
  LedgerIsSound
  UnitsConserved
  PendingIsLiveWaiters
  NoIdlePermit
PROPERTIES
  ImplementsFifo
  EveryWaiterSettles
