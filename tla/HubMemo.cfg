SPECIFICATION HubSpec
CONSTANTS
  Sockets = {1, 2, 3}
  Frames = {1, 2}
  Droppable = {1}
  Arrivals = {1, 2}
  MessageQueueSize = 1
  MaxReconnectAttempts = 1
  MaxConnects = 2
  Sessions = {1, 2, 3}
  MaxWtAttempts = 1
  MaxWtConnects = 2
  Datagrams = {0, 1, 2, 3}
  MaxUnsent = 2
  WindowSize = 3
  MaxResets = 1
  Members = {1}
  Topics = {"t"}
  Pubs = {1, 2, 3, 4, 5, 6}
  RetainLimit = 1
  Object <- MCMemoObject
  MaxQueue <- MCMemoMaxQueue
  MaxBatch <- MCMemoMaxBatch
  Policy <- MCMemoPolicy
  RtcFrames = {1, 2, 3, 4, 5, 6}
  Size <- MCSize
  HighWater = 2
  LowWater = 1
  QueueBudget = 3
  MaxWork = 2
  Receivers = {1, 2}
  MaxFrames = 5
  Header = 2
  Payloads = {0, 1, 3, 4}
  MaxStream = 3
  MaxFrameBytes = 5
  InitialBytes = 4
  Pieces = {1, 2, 3, 5, 8}
  MaxStreams = 2
INVARIANTS
  FrameIsItsBatch
CHECK_DEADLOCK FALSE
