SPECIFICATION Spec
CONSTANTS
  c1 = c1
  c2 = c2
  c3 = c3
  worker = worker
  gcs = gcs
  uav = uav
  gcsReader = gcsReader
  uavReader = uavReader
  gcsMonitor = gcsMonitor
  uavMonitor = uavMonitor
  gcsOwner = gcsOwner
  uavOwner = uavOwner
  Threads <- MCThreads
  Nodes = {gcs, uav}
  NodeOf <- MCNodeOf
  Receiver <- MCReceiver
  Monitor <- MCMonitor
  Peer <- MCPeer
  Parts <- MCParts
  Callers = {c1, c2, c3}
  MaxPings = 1
  MaxAnswers = 2
  MaxAssemblies = 1
  MaxBytes = 2
  MaxCompleted = 1
  Server = uav
  Workers = {worker}
  Width = 1
  MaxPending = 1
  Routed = {c1, c2}
  Plans <- MCPlans
INVARIANTS
  HandledOnce
  NobodyIsLeftWaiting
  LimitsAreExact
  StoppedIsSilent
  AckMeansHandled
