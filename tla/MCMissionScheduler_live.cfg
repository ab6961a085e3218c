SPECIFICATION FairSpec
CONSTANTS
  survey = survey
  rescue = rescue
  Survey = Survey
  Rescue = Rescue
  motors = motors
  camera = camera
  Scheduler = scheduler
  NoThread = NoThread
  NoMission = NoMission
  Missions <- AllMissions
  Types <- AllTypes
  Resources <- AllResources
  TypeOf <- TypeOfEach
  Needs <- NeedsOfEach
  Blocks <- NoBlocks
  Requires <- NoPrerequisites
  Priority <- RescueFirst
  ConflictPolicy <- RescuePreempts
  PrerequisitePolicy <- QueueForPrerequisites
  Attempts <- NoRetry
  Results <- SucceedOnly
  QueueTimeouts = {}
  MaxActive = 2
  MaxQueued = 2
  Clients = {c1, c2}
  Commands = {"run", "close"}
  StopMayFail = FALSE
  MaxLaunches = 1
INVARIANTS
  NoConflict
PROPERTIES
  QueueIsServed
  CommandsReturn
CHECK_DEADLOCK FALSE
