SPECIFICATION Spec
CONSTANTS
  takeoff = takeoff
  camera = camera
  mapping = mapping
  watch = watch
  Unknown = Unknown
  Clients = {c1, c2}
  Scenarios <- OneInterference
  Configs <- WaitOrCancel
  Stages <- TakeoffThenInspect
  Parallel <- InspectIsParallel
  Background = watch
  Starts <- Watches
  MayQueue = {mapping}
INVARIANTS
  StageAfterStage
  ChainEnds
  BackgroundEndsWithOwner
