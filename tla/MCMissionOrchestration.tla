------------------------ MODULE MCMissionOrchestration -------------------------
EXTENDS MissionOrchestration

CONSTANTS takeoff, camera, mapping, watch

\* A mission, and then two at once.
TakeoffThenInspect == <<{takeoff}, {camera, mapping}>>
InspectIsParallel == {2}

\* The chain goes on after a failure, or the siblings and the chain end with it.
WaitOrCancel ==
  {[stopOnFailure |-> FALSE, siblings |-> "wait"],
   [stopOnFailure |-> TRUE, siblings |-> CANCELLED]}

\* A chain that someone looks at or stops, at every point of its run, and one
\* with background missions beside it.
OneInterference ==
  {{"run_chain", other} :
     other \in {"look", "stop_chain", "cancel_chain", "stop_group", "cancel_group",
               "stop_engine", "background"}}

Start(owner, end, failure) == [owner |-> owner, end |-> end, failure |-> failure]
Watches ==
  {Start(<<"chain", 0>>, CANCELLED, "fail_owner"),
   Start(<<"parallel", 2>>, STOPPED, "stop_execution"),
   Start(<<"mission", camera>>, CANCELLED, "fail_owner")}
==============================================================================
