SPECIFICATION Spec
CONSTANTS
  c1 = c1
  c2 = c2
  c3 = c3
  reader = reader
  monitor = monitor
  handler = handler
  Threads <- MCThreads
  Clients = {c1, c2, c3}
  Reader = reader
  Monitor = monitor
  Handler = handler
  Kinds <- MCKinds
  Source <- MCSource
  IsHeartbeat <- MCIsHeartbeat
  Greeting = "hb1"
  Inboxes <- OneInbox
  HistoryLimit = 1
  StateCapacity = 2
  SourceCapacity = 1
  Components = {1, 2}
  Autopilots = {1, 2}
  Vehicle = vehicle
  Nobody = nobody
  Timeout = 1
  Retentions = {1}
  Forever = forever
  Horizon = 2
  Plans <- MCPlans
CONSTRAINT ClockWaits
INVARIANTS
  NewMessagesWake
  SelectedIsLive
  StoppedIsReleased
