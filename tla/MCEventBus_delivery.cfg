SPECIFICATION FairSpec
CONSTANTS
  Subscribers = {subscriber}
  Waiters = {subscriber}
  Timers = {timer}
  Closers = {closer}
  Matches <- Everything
  Times = {2}
  Replays = {2}
  HistorySize = 1
  BufferSize = 1
  MaxSchedules = 1
  Executor = FALSE
  RaiseErrors = TRUE
  MaxEvents = 2
CHECK_DEADLOCK FALSE
INVARIANTS
  InOrder
  NothingMissed
  ClosedIsSilent
PROPERTIES
  CallsReturn
