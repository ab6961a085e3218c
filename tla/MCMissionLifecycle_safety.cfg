SPECIFICATION Spec
CONSTANTS
  Clients = {c1, c2}
  Scheduler = scheduler
  NoThread = NoThread
  Commands = {"pause", "resume", "stop", "fail", "retry_cleanup", "run", "callback"}
  RetryAttempts = 2
  CleanupMayFail = TRUE
  SlowEngine = TRUE
  MaxGeneration = 2
  MaxDecisions = 1
SYMMETRY Symmetry
INVARIANTS
  OneRunningWorker
  CallbacksExclusive
PROPERTIES
  CleanedBeforeRelease
  CommandSettles
  ImplementsContract
