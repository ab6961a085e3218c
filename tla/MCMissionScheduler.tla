-------------------------- MODULE MCMissionScheduler --------------------------
EXTENDS MissionScheduler

CONSTANTS
  survey, rescue,    \* the missions
  Survey, Rescue,    \* their types
  motors, camera     \* the resources

AllMissions == {survey, rescue}
AllTypes == {Survey, Rescue}
AllResources == {motors, camera}

\* rescue takes the motors from survey, which waits for them.
TypeOfEach == [m \in Missions |-> IF m = survey THEN Survey ELSE Rescue]
NeedsOfEach ==
  [m \in Missions |-> IF m = survey THEN {motors, camera} ELSE {motors}]
RescueFirst == [m \in Missions |-> IF m = rescue THEN 1 ELSE 2]
RescuePreempts == [m \in Missions |-> IF m = survey THEN "QUEUE" ELSE "PREEMPT_LOWER"]
QueueForPrerequisites == [m \in Missions |-> "QUEUE"]

NoBlocks == [m \in Missions |-> {}]
NoPrerequisites == [m \in Missions |-> {}]
RescueNeedsSurvey == [m \in Missions |-> IF m = rescue THEN {Survey} ELSE {}]
EndByThemselves == {SUCCEEDED, FAILED}
SucceedOnly == {SUCCEEDED}
RetryOnce == [m \in Missions |-> 2]
NoRetry == [m \in Missions |-> 1]
==============================================================================
