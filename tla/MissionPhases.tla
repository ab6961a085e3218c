---------------------------- MODULE MissionPhases ----------------------------
(***************************************************************************)
(* The phases of a mission and the table of the phase changes the engine   *)
(* accepts (mission/enums.py).  Every other mission module reads a phase   *)
(* through these definitions.                                              *)
(***************************************************************************)

REGISTERED == "registered"
QUEUED     == "queued"
STARTING   == "starting"
RUNNING    == "running"
PAUSING    == "pausing"
PAUSED     == "paused"
STOPPING   == "stopping"
STOPPED    == "stopped"
SUCCEEDED  == "succeeded"
FAILED     == "failed"
CANCELLED  == "cancelled"

\* MissionPhase.active: the phases in which a mission owns its resources.
Active == {STARTING, RUNNING, PAUSING, PAUSED, STOPPING}

\* MissionPhase.terminal: the outcomes of a mission.
Terminal == {STOPPED, SUCCEEDED, FAILED, CANCELLED}

Phases == {REGISTERED, QUEUED} \cup Active \cup Terminal

\* _TRANSITIONS, as the set of phases that may follow a phase.
Successors(phase) ==
  CASE phase = REGISTERED -> {QUEUED, STARTING, STOPPED, CANCELLED, FAILED}
    [] phase = QUEUED     -> {STARTING, CANCELLED, STOPPED, FAILED}
    [] phase = STARTING   -> {RUNNING, STOPPING, FAILED, CANCELLED}
    [] phase = RUNNING    -> {PAUSING, STOPPING, SUCCEEDED, FAILED, CANCELLED}
    [] phase = PAUSING    -> {PAUSED, STOPPING, FAILED, CANCELLED}
    [] phase = PAUSED     -> {RUNNING, STOPPING, FAILED, CANCELLED}
    [] phase = STOPPING   -> Terminal
    [] phase = STOPPED    -> {QUEUED, STARTING, CANCELLED}
    [] phase = FAILED     -> {QUEUED, STARTING, CANCELLED}
    [] OTHER              -> {QUEUED, STARTING}

\* ensure_mission_transition raises unless this holds.
MayFollow(previous, current) == current \in Successors(previous)
==============================================================================
