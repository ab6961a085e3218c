--------------------------- MODULE MissionContract ---------------------------
(***************************************************************************)
(* What a mission promises to the rest of the engine, whatever threads act *)
(* on it: it owns its resources exactly while its phase is active, it      *)
(* gives them back only when none of its callbacks is running, and the     *)
(* first outcome decided for a launch is the one it ends with.             *)
(***************************************************************************)
EXTENDS MissionPhases

VARIABLES
  phase,     \* the phase of the mission
  outcome,   \* the outcome decided and not yet reached, or Undecided
  busy       \* start(), tick(), pause() or resume() of the mission is running

vars == <<phase, outcome, busy>>

Undecided == REGISTERED

TypeOK ==
  /\ phase \in Phases
  /\ outcome \in Terminal \cup {Undecided}
  /\ busy \in BOOLEAN

Init ==
  /\ phase = REGISTERED
  /\ outcome = Undecided
  /\ busy = FALSE

\* A mission that is not active is launched, if no outcome is still pending.
Launch ==
  /\ phase \notin Active
  /\ outcome = Undecided
  /\ phase' = STARTING
  /\ UNCHANGED <<outcome, busy>>

\* It waits in the queue, or is given up there without having been active.
Wait ==
  /\ phase \notin Active
  /\ MayFollow(phase, phase')
  /\ phase' \notin Active
  /\ UNCHANGED <<outcome, busy>>

\* An active mission runs, pauses and resumes until an outcome is decided.
Proceed ==
  /\ phase \in Active \ {STOPPING}
  /\ MayFollow(phase, phase')
  /\ phase' \in Active \ {STOPPING}
  /\ UNCHANGED <<outcome, busy>>

\* The outcome of an active mission is decided once.
Decide ==
  /\ phase \in Active \ {STOPPING}
  /\ outcome = Undecided
  /\ phase' = STOPPING
  /\ outcome' \in Terminal
  /\ UNCHANGED busy

\* A mission that is not active can only be decided to fail.
DecideIdle ==
  /\ phase \in {REGISTERED, QUEUED}
  /\ outcome = Undecided
  /\ outcome' = FAILED
  /\ UNCHANGED <<phase, busy>>

\* Callbacks run one at a time, and start only in an undecided active mission.
Enter ==
  /\ phase \in {RUNNING, PAUSING, PAUSED}
  /\ ~busy
  /\ busy' = TRUE
  /\ UNCHANGED <<phase, outcome>>

Leave ==
  /\ busy
  /\ busy' = FALSE
  /\ UNCHANGED <<phase, outcome>>

\* The decided outcome is reached; a failure may queue the mission for a retry.
Settle ==
  /\ phase \in {STOPPING, REGISTERED, QUEUED}
  /\ outcome # Undecided
  /\ ~busy
  /\ phase' = outcome \/ (outcome = FAILED /\ phase' = QUEUED)
  /\ outcome' = Undecided
  /\ UNCHANGED busy

Next ==
  Launch \/ Wait \/ Proceed \/ Decide \/ DecideIdle \/ Enter \/ Leave \/ Settle

Spec == Init /\ [][Next]_vars
==============================================================================
