SPECIFICATION FairSpec
CONSTANTS
  Clients = {c1, c2}
  Scheduler = scheduler
  NoThread = NoThread
  Commands = {"pause", "resume", "cancel", "complete", "run", "promote", "queue_timeout", "timeout", "guard"}
  RetryAttempts = 2
  CleanupMayFail = FALSE
  SlowEngine = FALSE
  MaxGeneration = 1
  MaxDecisions = 1
PROPERTIES
  StoppingSettles
  CommandsReturn
