SPECIFICATION Spec
CONSTANTS
  survey = survey
  rescue = rescue
  Survey = Survey
  Rescue = Rescue
  motors = motors
  camera = camera
  Scheduler = scheduler
  NoThread = NoThread
  NoMission = NoMission
  Missions <- AllMissions
  Types <- AllTypes
  Resources <- AllResources
  TypeOf <- TypeOfEach
  Needs <- NeedsOfEach
  Blocks <- NoBlocks
  Requires <- RescueNeedsSurvey
  Priority <- RescueFirst
  ConflictPolicy <- RescuePreempts
  PrerequisitePolicy <- QueueForPrerequisites
  Attempts <- RetryOnce
  Results <- EndByThemselves
  QueueTimeouts = {survey}
  MaxActive = 2
  MaxQueued = 1
  Clients = {c1}
  Commands = {"run", "start", "fail", "cancel", "unregister", "stop"}
  StopMayFail = TRUE
  MaxLaunches = 2
INVARIANTS
  IndexesAgree
  LatchCoversScheduler
PROPERTIES
  PrerequisitesMet
  KeepsContract
