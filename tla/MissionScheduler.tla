--------------------------- MODULE MissionScheduler ---------------------------
(***************************************************************************)
(* A MissionEngine with several missions: admission, the queue, preemption *)
(* and the engine's own start, stop and close (mission/scheduler.py and    *)
(* mission/engine.py).                                                     *)
(*                                                                         *)
(* Each mission is reduced to what MissionContract promises of it: it      *)
(* proceeds, an outcome is decided, the outcome is reached.  An action is  *)
(* one section under the engine's condition; a thread that stops a mission *)
(* waits between two of them.                                              *)
(***************************************************************************)
EXTENDS Naturals, FiniteSets, MissionPhases

CONSTANTS
  Missions,
  Types,               \* the classes of the missions
  Resources,
  TypeOf,              \* type(mission)
  Needs,               \* mission.resources
  Blocks,              \* mission.blocks, a set of types
  Requires,            \* mission.prerequisites, a set of types
  Priority,            \* mission.priority: the lower number goes first
  ConflictPolicy,      \* "REJECT", "QUEUE" or "PREEMPT_LOWER"
  PrerequisitePolicy,  \* "REJECT" or "QUEUE"
  Attempts,            \* mission.retry.attempts
  QueueTimeouts,       \* the missions with queue_timeout_seconds
  MaxActive,           \* max_active_missions
  MaxQueued,           \* max_queued_missions
  Clients,             \* threads that use the engine
  Scheduler,           \* the thread of _scheduler_loop
  NoThread,
  NoMission,
  Commands,            \* what the application does with the engine
  Results,             \* the outcomes that missions decide by themselves
  StopMayFail,         \* whether stopping a mission may raise or time out
  MaxLaunches          \* bound: no run() or promotion after so many launches

Threads == Clients \cup {Scheduler}

ASSUME SchedulerAssumption ==
  /\ TypeOf \in [Missions -> Types]
  /\ Needs \in [Missions -> SUBSET Resources]
  /\ Blocks \in [Missions -> SUBSET Types]
  /\ Requires \in [Missions -> SUBSET Types]
  /\ Priority \in [Missions -> Nat]
  /\ ConflictPolicy \in [Missions -> {"REJECT", "QUEUE", "PREEMPT_LOWER"}]
  /\ PrerequisitePolicy \in [Missions -> {"REJECT", "QUEUE"}]
  /\ Attempts \in [Missions -> Nat \ {0}]
  /\ QueueTimeouts \subseteq Missions
  /\ MaxActive \in Nat /\ MaxQueued \in Nat /\ MaxLaunches \in Nat
  /\ Scheduler \notin Clients
  /\ NoThread \notin Threads
  /\ NoMission \notin Missions
  /\ StopMayFail \in BOOLEAN
  /\ Results \subseteq Terminal

VARIABLES
  registered,   \* the keys of _runtimes
  phase,        \* snapshot.phase of each mission
  outcome,      \* the terminal phase decided and not yet reached
  launches,     \* snapshot.attempt
  delayed,      \* the missions whose retry delay has not passed
  active,       \* _active_ids
  queued,       \* _queued_ids
  owners,       \* _resource_owners
  succeeded,    \* _succeeded_type_counts
  running, stopping, closed,
  runLock,      \* owner of each mission's run_lock
  pc,           \* what each thread is doing
  goal,         \* the mission it launches
  todo,         \* the missions it has yet to stop
  cancels,      \* the missions it then has to cancel
  awaits,       \* the mission whose end it waits for
  failed,       \* whether its engine.stop() met an error
  closes,       \* whether it is in close()
  late,         \* the missions unregistered while a fail() of them was under way
  strays,       \* history: the missions that such a fail() has queued
  joiners,      \* the threads that wait for the scheduler thread to end
  scan          \* what _promote_queued has left of its snapshot of the queue

lives   == <<phase, outcome, launches, delayed>>
indexes == <<active, queued, owners, succeeded>>
engine  == <<running, stopping, closed, registered, late, strays>>
stops   == <<todo, cancels, awaits, failed, closes>>
vars    == <<lives, indexes, engine, runLock, pc, goal, stops, joiners, scan>>

Undecided == REGISTERED
Interruptible == Active \ {STOPPING}

LaunchLabels == {"enter", "lock", "admit", "preempt", "start", "repreempt"}
StopLabels   == {"stop", "join", "finish", "close"}
Labels == {"idle", "off", "wait", "scan", "dead"} \cup LaunchLabels \cup StopLabels

TypeOK ==
  /\ registered \subseteq Missions
  /\ phase \in [Missions -> Phases]
  /\ outcome \in [Missions -> Terminal \cup {Undecided}]
  /\ launches \in [Missions -> Nat]
  /\ delayed \subseteq Missions
  /\ active \subseteq Missions
  /\ queued \subseteq Missions
  /\ owners \in [Resources -> SUBSET Missions]
  /\ succeeded \in [Types -> Nat]
  /\ running \in BOOLEAN /\ stopping \in BOOLEAN /\ closed \in BOOLEAN
  /\ runLock \in [Missions -> Threads \cup {NoThread}]
  /\ pc \in [Threads -> Labels]
  /\ goal \in [Threads -> Missions \cup {NoMission}]
  /\ todo \in [Threads -> SUBSET Missions]
  /\ cancels \in [Threads -> SUBSET Missions]
  /\ awaits \in [Threads -> Missions \cup {NoMission}]
  /\ failed \in [Threads -> BOOLEAN]
  /\ closes \in [Threads -> BOOLEAN]
  /\ joiners \subseteq Threads
  /\ scan \subseteq Missions
  /\ late \subseteq Missions /\ strays \subseteq Missions

Init ==
  /\ registered = {}
  /\ phase = [m \in Missions |-> REGISTERED]
  /\ outcome = [m \in Missions |-> Undecided]
  /\ launches = [m \in Missions |-> 0]
  /\ delayed = {}
  /\ active = {}
  /\ queued = {}
  /\ owners = [r \in Resources |-> {}]
  /\ succeeded = [k \in Types |-> 0]
  /\ running = FALSE /\ stopping = FALSE /\ closed = FALSE
  /\ runLock = [m \in Missions |-> NoThread]
  /\ pc = [t \in Threads |-> IF t = Scheduler THEN "off" ELSE "idle"]
  /\ goal = [t \in Threads |-> NoMission]
  /\ todo = [t \in Threads |-> {}]
  /\ cancels = [t \in Threads |-> {}]
  /\ awaits = [t \in Threads |-> NoMission]
  /\ failed = [t \in Threads |-> FALSE]
  /\ closes = [t \in Threads |-> FALSE]
  /\ joiners = {}
  /\ scan = {}
  /\ late = {} /\ strays = {}

------------------------------------------------------------------------------
\* Phases and indexes.

\* Fault: the resources of a released mission keep their owner.
ReindexKeepsOwners(m, previous, current) ==
  /\ active' = IF current \in Active THEN active \cup {m} ELSE active \ {m}
  /\ owners' = [r \in Resources |->
                  IF r \in Needs[m] /\ current \in Active /\ previous \notin Active
                  THEN owners[r] \cup {m} ELSE owners[r]]
  /\ queued' = IF current = QUEUED THEN queued \cup {m} ELSE queued \ {m}
  /\ succeeded' = [k \in Types |->
       IF k # TypeOf[m] THEN succeeded[k]
       ELSE CASE previous = SUCCEEDED /\ current # SUCCEEDED -> succeeded[k] - 1
              [] previous # SUCCEEDED /\ current = SUCCEEDED -> succeeded[k] + 1
              [] OTHER -> succeeded[k]]
  /\ scan' = IF previous = QUEUED THEN scan \ {m} ELSE scan

\* _update_phase_indexes_locked.  A queue entry that the scheduler has seen is
\* stale once the mission leaves the queue, even if it comes back.
Reindex(m, previous, current) ==
  /\ active' = IF previous \in Active /\ current \notin Active THEN active \ {m}
               ELSE IF current \in Active /\ previous \notin Active
                    THEN active \cup {m} ELSE active
  /\ owners' = [r \in Resources |->
       IF r \notin Needs[m] THEN owners[r]
       ELSE CASE previous \in Active /\ current \notin Active -> owners[r] \ {m}
              [] previous \notin Active /\ current \in Active -> owners[r] \cup {m}
              [] OTHER -> owners[r]]
  /\ queued' = IF current = QUEUED THEN queued \cup {m}
               ELSE IF previous = QUEUED THEN queued \ {m} ELSE queued
  /\ succeeded' = [k \in Types |->
       IF k # TypeOf[m] THEN succeeded[k]
       ELSE CASE previous = SUCCEEDED /\ current # SUCCEEDED -> succeeded[k] - 1
              [] previous # SUCCEEDED /\ current = SUCCEEDED -> succeeded[k] + 1
              [] OTHER -> succeeded[k]]
  /\ scan' = IF previous = QUEUED THEN scan \ {m} ELSE scan

\* _transition_locked.
Transition(m, next) ==
  /\ MayFollow(phase[m], next)
  /\ phase' = [phase EXCEPT ![m] = next]
  /\ Reindex(m, phase[m], next)

\* Fault: a success of any type will do.
MissingAnyType(m) == Requires[m] # {} /\ \A k \in Types : succeeded[k] = 0

\* _missing_prerequisites_locked.
Missing(m) == \E k \in Requires[m] : succeeded[k] = 0

AtCapacity == Cardinality(active) >= MaxActive

\* The indexes save a search of all active missions where nothing blocks.
Candidates(m) ==
  IF Blocks[m] # {} \/ \E n \in active : Blocks[n] # {}
  THEN active
  ELSE UNION {owners[r] : r \in Needs[m]}

Clash(m, n) ==
  \/ Needs[m] \cap Needs[n] # {}
  \/ TypeOf[n] \in Blocks[m]
  \/ TypeOf[m] \in Blocks[n]

\* _conflicts_locked.
Conflicts(m) ==
  {n \in Candidates(m) \ {m} : phase[n] \in Active /\ Clash(m, n)}

\* _admit_locked has four answers: queue, stop others first, refuse, start.
MustQueue(m, capacityFirst) ==
  IF Missing(m)
  THEN PrerequisitePolicy[m] = "QUEUE"
  ELSE \/ AtCapacity /\ (capacityFirst \/ Conflicts(m) = {})
       \/ Conflicts(m) # {} /\ ConflictPolicy[m] = "QUEUE"

MustPreempt(m, capacityFirst) ==
  /\ ~Missing(m)
  /\ ~MustQueue(m, capacityFirst)
  /\ Conflicts(m) # {}
  /\ ConflictPolicy[m] = "PREEMPT_LOWER"
  /\ \A n \in Conflicts(m) : Priority[m] < Priority[n]

MayStart(m, capacityFirst) ==
  /\ ~Missing(m)
  /\ ~MustQueue(m, capacityFirst)
  /\ Conflicts(m) = {}

\* _queue_locked, if it does not raise.
Queue(m) ==
  IF phase[m] = QUEUED
  THEN UNCHANGED <<phase, indexes, scan>>
  ELSE Cardinality(queued) < MaxQueued /\ Transition(m, QUEUED)

\* MissionConflictError: refused, or no place in the queue.
Refused(m, capacityFirst) ==
  /\ ~MustPreempt(m, capacityFirst)
  /\ ~MayStart(m, capacityFirst)
  /\ MustQueue(m, capacityFirst) =>
       phase[m] # QUEUED /\ Cardinality(queued) >= MaxQueued

------------------------------------------------------------------------------
\* Launching a mission: run(), and the scheduler for a queued one.

Goto(t, label) == pc' = [pc EXCEPT ![t] = label]

\* Fault: MissionConflictError ends the scheduler thread.
LeaveUncaught(t) ==
  /\ Goto(t, IF t = Scheduler THEN "dead" ELSE "idle")
  /\ goal' = [goal EXCEPT ![t] = NoMission]
  /\ UNCHANGED joiners

\* The scheduler goes on with its scan after a launch that returned or raised
\* MissionConflictError; any other error ends its thread.
Leave(t) ==
  /\ Goto(t, IF t = Scheduler THEN "scan" ELSE "idle")
  /\ goal' = [goal EXCEPT ![t] = NoMission]
  /\ UNCHANGED joiners

Raise(t) ==
  /\ Goto(t, IF t = Scheduler THEN "dead" ELSE "idle")
  /\ goal' = [goal EXCEPT ![t] = NoMission]
  /\ joiners' = IF t = Scheduler THEN {} ELSE joiners

\* Fault: run_lock is not released.
UnlockNever(t) == UNCHANGED runLock

\* run_lock is left; a mission registered anew has another lock.
Unlock(t) ==
  runLock' = [runLock EXCEPT ![goal[t]] = IF @ = t THEN NoThread ELSE @]

\* run() registers the mission when needed.
Run(t, m) ==
  /\ "run" \in Commands
  /\ t \in Clients /\ pc[t] = "idle"
  /\ launches[m] < MaxLaunches
  /\ ~closed /\ ~stopping
  /\ registered' = registered \cup {m}
  /\ goal' = [goal EXCEPT ![t] = m]
  /\ Goto(t, "enter")
  /\ UNCHANGED <<lives, indexes, running, stopping, closed, late, strays, runLock,
                 stops, joiners, scan>>

SchedulerAlive == pc[Scheduler] \notin {"off", "dead"}

\* start(): idempotent, and refused while the engine stops.  A second scheduler
\* thread beside one that has not ended (see LatchCoversScheduler) is not
\* modelled.
Started(t, label) ==
  /\ ~closed /\ ~stopping
  /\ running' = TRUE
  /\ pc' = [pc EXCEPT ![t] = label,
                     ![Scheduler] = IF running \/ SchedulerAlive THEN @ ELSE "wait"]

StartEngine(t) ==
  /\ "start" \in Commands
  /\ t \in Clients /\ pc[t] = "idle"
  /\ Started(t, "idle")
  /\ UNCHANGED <<lives, indexes, stopping, closed, registered, late, strays,
                 runLock, goal, stops, joiners, scan>>

\* _run_registered starts the engine first.
EnterLaunch(t) ==
  /\ pc[t] = "enter"
  /\ \/ Started(t, "lock") /\ UNCHANGED <<goal, joiners>>
     \/ (closed \/ stopping) /\ Raise(t) /\ UNCHANGED running
  /\ UNCHANGED <<lives, indexes, stopping, closed, registered, late, strays,
                 runLock, stops, scan>>

LockLaunch(t) ==
  /\ pc[t] = "lock"
  /\ \/ /\ goal[t] \in registered
        /\ runLock[goal[t]] = NoThread
        /\ runLock' = [runLock EXCEPT ![goal[t]] = t]
        /\ Goto(t, "admit")
        /\ UNCHANGED <<goal, joiners>>
     \/ /\ goal[t] \notin registered
        /\ Raise(t)
        /\ UNCHANGED runLock
  /\ UNCHANGED <<lives, indexes, engine, stops, scan>>

\* The first pass of _launch_serialized.
Admit(t) ==
  /\ pc[t] = "admit"
  /\ goal[t] \in registered
  /\ LET m == goal[t]
     IN \/ /\ phase[m] \in Active \/ Refused(m, FALSE)
           /\ Unlock(t)
           /\ Leave(t)
           /\ UNCHANGED <<phase, indexes, scan, todo>>
        \/ /\ phase[m] \notin Active /\ MustQueue(m, FALSE)
           /\ Queue(m)
           /\ Unlock(t)
           /\ Leave(t)
           /\ UNCHANGED todo
        \/ /\ phase[m] \notin Active
           /\ MustPreempt(m, FALSE)
           /\ todo' = [todo EXCEPT ![t] = Conflicts(m)]
           /\ Goto(t, "preempt")
           /\ UNCHANGED <<phase, indexes, scan, runLock, goal, joiners>>
        \/ /\ phase[m] \notin Active
           /\ MayStart(m, FALSE)
           /\ Goto(t, "start")
           /\ UNCHANGED <<phase, indexes, scan, runLock, goal, joiners, todo>>
  /\ UNCHANGED <<outcome, launches, delayed, engine, cancels, awaits, failed,
                 closes>>

\* Fault: the second pass trusts the first.
StartUnchecked(t) ==
  /\ pc[t] = "start"
  /\ goal[t] \in registered
  /\ outcome[goal[t]] = Undecided
  /\ Transition(goal[t], STARTING)
  /\ launches' = [launches EXCEPT ![goal[t]] = @ + 1]
  /\ delayed' = delayed \ {goal[t]}
  /\ Unlock(t)
  /\ Leave(t)
  /\ UNCHANGED <<outcome, engine, stops>>

\* The second pass, after the preemption, starts the mission.
Start(t) ==
  /\ pc[t] = "start"
  /\ goal[t] \in registered
  /\ MayStart(goal[t], TRUE)
  /\ outcome[goal[t]] = Undecided
  /\ Transition(goal[t], STARTING)
  /\ launches' = [launches EXCEPT ![goal[t]] = @ + 1]
  /\ delayed' = delayed \ {goal[t]}
  /\ Unlock(t)
  /\ Leave(t)
  /\ UNCHANGED <<outcome, engine, stops>>

\* The second pass queues or refuses the mission, or finds more to preempt.
DoNotStart(t) ==
  /\ pc[t] = "start"
  /\ goal[t] \in registered
  /\ LET m == goal[t]
     IN \/ /\ Refused(m, TRUE)
           /\ Unlock(t)
           /\ Leave(t)
           /\ UNCHANGED <<phase, indexes, scan, todo>>
        \/ /\ MustQueue(m, TRUE)
           /\ Queue(m)
           /\ Unlock(t)
           /\ Leave(t)
           /\ UNCHANGED todo
        \/ /\ MustPreempt(m, TRUE)
           /\ todo' = [todo EXCEPT ![t] = Conflicts(m)]
           /\ Goto(t, "repreempt")
           /\ UNCHANGED <<phase, indexes, scan, runLock, goal, joiners>>
  /\ UNCHANGED <<outcome, launches, delayed, engine, cancels, awaits, failed,
                 closes>>

\* An error that is no MissionConflictError: the mission is not registered any
\* more, has been launched by another thread, or has an outcome pending.
LaunchRaises(t) ==
  /\ pc[t] \in {"admit", "start"}
  /\ \/ goal[t] \notin registered
     \/ /\ pc[t] = "start"
        /\ phase[goal[t]] \in Active
        /\ ~Refused(goal[t], TRUE) /\ ~MustPreempt(goal[t], TRUE)
     \/ pc[t] = "start" /\ MayStart(goal[t], TRUE) /\ outcome[goal[t]] # Undecided
  /\ Unlock(t)
  /\ Raise(t)
  /\ UNCHANGED <<lives, indexes, engine, stops, scan>>

------------------------------------------------------------------------------
\* Stopping other missions: a preemption, or engine.stop().

Stopping(t) == pc[t] \in {"preempt", "repreempt", "stop"} /\ awaits[t] = NoMission

\* The active missions are stopped before the queued ones are cancelled.
NextToStop(t, m) == m \in todo[t] \/ (todo[t] = {} /\ m \in cancels[t])
Wanted(t, m) == IF m \in todo[t] THEN STOPPED ELSE CANCELLED

Drop(t, m) ==
  /\ todo' = [todo EXCEPT ![t] = @ \ {m}]
  /\ cancels' = [cancels EXCEPT ![t] = IF m \in todo[t] THEN @ ELSE @ \ {m}]

\* The error of one mission ends a preemption; engine.stop() collects it.
StopRaises(t) ==
  /\ awaits' = [awaits EXCEPT ![t] = NoMission]
  /\ IF pc[t] = "stop"
     THEN /\ failed' = [failed EXCEPT ![t] = TRUE]
          /\ UNCHANGED <<pc, goal, joiners, runLock>>
     ELSE /\ Unlock(t)
          /\ Raise(t)
          /\ UNCHANGED failed

\* stop_mission() and cancel() of a mission that is not active.
StopIdle(t, m) ==
  /\ Stopping(t) /\ NextToStop(t, m)
  /\ m \in registered
  /\ \/ /\ phase[m] \in Terminal
        /\ UNCHANGED <<phase, indexes, scan>>
     \/ /\ phase[m] \in {REGISTERED, QUEUED}
        /\ outcome[m] = Undecided
        /\ Transition(m, Wanted(t, m))
  /\ Drop(t, m)
  /\ UNCHANGED <<outcome, launches, delayed, engine, runLock, pc, goal, awaits,
                 failed, closes, joiners>>

\* Fault: a preemption replaces the outcome that is pending.
StopActiveOverrides(t, m) ==
  /\ Stopping(t) /\ NextToStop(t, m)
  /\ m \in registered
  /\ \/ /\ phase[m] \in Interruptible
        /\ Transition(m, STOPPING)
     \/ /\ phase[m] = STOPPING
        /\ UNCHANGED <<phase, indexes, scan>>
  /\ outcome' = [outcome EXCEPT ![m] = Wanted(t, m)]
  /\ awaits' = [awaits EXCEPT ![t] = m]
  /\ Drop(t, m)
  /\ UNCHANGED <<launches, delayed, engine, runLock, pc, goal, failed, closes,
                 joiners>>

\* The outcome of an active mission is decided, or has been decided the same
\* way; then the thread waits for its end.
StopActive(t, m) ==
  /\ Stopping(t) /\ NextToStop(t, m)
  /\ m \in registered
  /\ phase[m] \notin Terminal
  /\ \/ /\ phase[m] \in Interruptible
        /\ Transition(m, STOPPING)
        /\ outcome' = [outcome EXCEPT ![m] = Wanted(t, m)]
     \/ /\ outcome[m] = Wanted(t, m)
        /\ UNCHANGED <<phase, outcome, indexes, scan>>
  /\ awaits' = [awaits EXCEPT ![t] = m]
  /\ Drop(t, m)
  /\ UNCHANGED <<launches, delayed, engine, runLock, pc, goal, failed, closes,
                 joiners>>

\* Another outcome is pending, or the mission is not registered any more.
StopRejected(t, m) ==
  /\ Stopping(t) /\ NextToStop(t, m)
  /\ \/ m \notin registered
     \/ /\ phase[m] \notin Terminal \cup Interruptible
        /\ outcome[m] \notin {Undecided, Wanted(t, m)}
  /\ IF pc[t] = "stop"
     THEN Drop(t, m)
     ELSE todo' = [todo EXCEPT ![t] = {}] /\ UNCHANGED cancels
  /\ StopRaises(t)
  /\ UNCHANGED <<lives, indexes, engine, closes, scan>>

\* The mission does not end in stop_timeout, or its cleanup raises.
StopFails(t) ==
  /\ StopMayFail
  /\ awaits[t] # NoMission
  /\ todo' = IF pc[t] = "stop" THEN todo ELSE [todo EXCEPT ![t] = {}]
  /\ StopRaises(t)
  /\ UNCHANGED <<lives, indexes, engine, cancels, closes, scan>>

\* Everything is stopped.
Stopped(t) ==
  /\ Stopping(t)
  /\ todo[t] = {} /\ cancels[t] = {}
  /\ Goto(t, CASE pc[t] = "preempt" -> "start"
               [] pc[t] = "repreempt" -> "admit"
               [] OTHER -> "join")
  /\ UNCHANGED <<lives, indexes, engine, runLock, goal, stops, joiners, scan>>

------------------------------------------------------------------------------
\* The engine stops and closes.

\* stop() takes a snapshot of what it has to stop.
StopEngine(t, closing) ==
  /\ (IF closing THEN "close" ELSE "stop") \in Commands
  /\ t \in Clients /\ pc[t] = "idle"
  /\ ~closed
  /\ \/ /\ running \/ active # {} \/ queued # {} \/ SchedulerAlive
        /\ stopping' = TRUE
        /\ running' = FALSE
        /\ todo' = [todo EXCEPT ![t] = active]
        /\ cancels' = [cancels EXCEPT ![t] = queued]
        /\ joiners' = IF SchedulerAlive THEN joiners \cup {t} ELSE joiners
        /\ Goto(t, "stop")
        /\ closes' = [closes EXCEPT ![t] = closing]
     \/ /\ ~(running \/ active # {} \/ queued # {} \/ SchedulerAlive)
        /\ stopping' = FALSE
        /\ Goto(t, IF closing THEN "close" ELSE "idle")
        /\ UNCHANGED <<running, todo, cancels, joiners, closes>>
  /\ UNCHANGED <<lives, indexes, closed, registered, late, strays, runLock, goal,
                 awaits, failed, scan>>

\* The scheduler thread is joined.
JoinScheduler(t) ==
  /\ pc[t] = "join"
  /\ \/ t \notin joiners /\ UNCHANGED <<failed, joiners>>
     \/ /\ t \in joiners
        /\ StopMayFail
        /\ failed' = [failed EXCEPT ![t] = TRUE]
        /\ joiners' = joiners \ {t}
  /\ Goto(t, "finish")
  /\ UNCHANGED <<lives, indexes, engine, runLock, goal, todo, cancels, awaits,
                 closes, scan>>

\* Fault: stop() gives up its latch after an error.
FinishStopAlways(t) ==
  /\ pc[t] = "finish"
  /\ stopping' = FALSE
  /\ failed' = [failed EXCEPT ![t] = FALSE]
  /\ closes' = [closes EXCEPT ![t] = FALSE]
  /\ Goto(t, IF closes[t] /\ ~failed[t] THEN "close" ELSE "idle")
  /\ UNCHANGED <<lives, indexes, running, closed, registered, late, strays,
                 runLock, goal, todo, cancels, awaits, joiners, scan>>

\* The latch stays until a stop() meets no error.
FinishStop(t) ==
  /\ pc[t] = "finish"
  /\ stopping' = (stopping /\ failed[t])
  /\ failed' = [failed EXCEPT ![t] = FALSE]
  /\ closes' = [closes EXCEPT ![t] = FALSE]
  /\ Goto(t, IF closes[t] /\ ~failed[t] THEN "close" ELSE "idle")
  /\ UNCHANGED <<lives, indexes, running, closed, registered, late, strays,
                 runLock, goal, todo, cancels, awaits, joiners, scan>>

\* close() forgets the missions.
CloseEngine(t) ==
  /\ pc[t] = "close"
  /\ closed' = TRUE
  /\ registered' = {}
  /\ active' = {} /\ queued' = {} /\ scan' = {}
  /\ owners' = [r \in Resources |-> {}]
  /\ succeeded' = [k \in Types |-> 0]
  /\ Goto(t, "idle")
  /\ UNCHANGED <<lives, running, stopping, late, strays, runLock, goal, stops,
                 joiners>>

\* unregister(): not of an active or queued mission.  A fail() that is under way
\* keeps the runtime; of one that is terminal it changes nothing any more.
\* Bound: at most one such fail() of each mission.
Unregister(t, m) ==
  /\ "unregister" \in Commands
  /\ t \in Clients /\ pc[t] = "idle"
  /\ m \in registered
  /\ phase[m] \notin Active \cup {QUEUED}
  /\ \/ /\ phase[m] # REGISTERED \/ outcome[m] = Undecided
        /\ UNCHANGED late
     \/ /\ phase[m] = REGISTERED /\ outcome[m] # Undecided
        /\ m \notin late
        /\ late' = late \cup {m}
  /\ registered' = registered \ {m}
  /\ Reindex(m, phase[m], REGISTERED)
  /\ phase' = [phase EXCEPT ![m] = REGISTERED]
  /\ outcome' = [outcome EXCEPT ![m] = Undecided]
  /\ launches' = [launches EXCEPT ![m] = 0]
  /\ delayed' = delayed \ {m}
  /\ runLock' = [runLock EXCEPT ![m] = NoThread]
  /\ UNCHANGED <<running, stopping, closed, strays, pc, goal, stops, joiners>>

------------------------------------------------------------------------------
\* The scheduler thread (_scheduler_loop, _promote_queued).

\* A mission that is queued again after close() or unregister() may be in no
\* registry: the snapshot of the queue then raises in the scheduler thread.  An
\* entry of a mission that is not queued is skipped.
ScanQueue ==
  /\ pc[Scheduler] = "wait"
  /\ running
  /\ IF queued \subseteq registered
     THEN /\ Goto(Scheduler, "scan")
          /\ scan' = {m \in queued : phase[m] = QUEUED}
          /\ UNCHANGED joiners
     ELSE Goto(Scheduler, "dead") /\ joiners' = {} /\ UNCHANGED scan
  /\ UNCHANGED <<lives, indexes, engine, runLock, goal, stops>>

SchedulerEnds ==
  /\ pc[Scheduler] = "wait"
  /\ ~running
  /\ joiners' = {}
  /\ Goto(Scheduler, "off")
  /\ UNCHANGED <<lives, indexes, engine, runLock, goal, stops, scan>>

ScanEnds ==
  /\ pc[Scheduler] = "scan"
  /\ scan = {}
  /\ Goto(Scheduler, "wait")
  /\ UNCHANGED <<lives, indexes, engine, runLock, goal, stops, joiners, scan>>

\* The entry with the lowest priority number is next; equal ones are in the
\* order of their queueing, which is left open here.
Foremost(m) == m \in scan /\ \A n \in scan : Priority[m] <= Priority[n]

QueueTimesOut(m) ==
  /\ pc[Scheduler] = "scan"
  /\ Foremost(m)
  /\ m \in QueueTimeouts
  /\ Transition(m, FAILED)
  /\ UNCHANGED <<outcome, launches, delayed, engine, runLock, pc, goal, stops,
                 joiners>>

PromoteNext(m) ==
  /\ pc[Scheduler] = "scan"
  /\ Foremost(m)
  /\ scan' = scan \ {m}
  /\ IF m \in delayed \/ launches[m] >= MaxLaunches
     THEN UNCHANGED <<pc, goal>>
     ELSE /\ goal' = [goal EXCEPT ![Scheduler] = m]
          /\ Goto(Scheduler, "enter")
  /\ UNCHANGED <<lives, indexes, engine, runLock, stops, joiners>>

------------------------------------------------------------------------------
\* What the missions do, as MissionContract allows.

Unseen == <<engine, runLock, pc, goal, todo, cancels, failed, closes, joiners>>

Proceed(m) ==
  /\ m \in registered
  /\ phase[m] = STARTING
  /\ Transition(m, RUNNING)
  /\ UNCHANGED <<outcome, launches, delayed, awaits, Unseen>>

Decide(m, result) ==
  /\ m \in registered
  /\ phase[m] \in Interruptible
  /\ Transition(m, STOPPING)
  /\ outcome' = [outcome EXCEPT ![m] = result]
  /\ UNCHANGED <<launches, delayed, awaits, Unseen>>

\* fail() of a mission that is not active.
DecideIdle(m) ==
  /\ "fail" \in Commands
  /\ m \in registered
  /\ phase[m] \in {REGISTERED, QUEUED}
  /\ outcome[m] = Undecided
  /\ outcome' = [outcome EXCEPT ![m] = FAILED]
  /\ UNCHANGED <<phase, launches, delayed, indexes, scan, awaits, Unseen>>

\* stop() and cancel() of a mission that is not active.
Abandon(m, result) ==
  /\ "cancel" \in Commands
  /\ m \in registered
  /\ phase[m] \in {REGISTERED, QUEUED}
  /\ outcome[m] = Undecided
  /\ Transition(m, result)
  /\ UNCHANGED <<outcome, launches, delayed, awaits, Unseen>>

Settled(m) ==
  /\ outcome' = [outcome EXCEPT ![m] = Undecided]
  /\ awaits' = [t \in Threads |-> IF awaits[t] = m THEN NoMission ELSE awaits[t]]

\* The outcome is reached, even if the engine is closed meanwhile.
Settle(m) ==
  /\ outcome[m] # Undecided
  /\ phase[m] \in {STOPPING, REGISTERED, QUEUED}
  /\ Transition(m, outcome[m])
  /\ Settled(m)
  /\ UNCHANGED <<launches, delayed, Unseen>>

\* A retryable failure goes through FAILED to QUEUED in one section.
Retry(m) ==
  /\ outcome[m] = FAILED
  /\ phase[m] \in {STOPPING, REGISTERED, QUEUED}
  /\ launches[m] < Attempts[m]
  /\ Cardinality(IF phase[m] = QUEUED THEN queued \ {m} ELSE queued) < MaxQueued
  /\ phase' = [phase EXCEPT ![m] = QUEUED]
  /\ Reindex(m, phase[m], QUEUED)
  /\ Settled(m)
  /\ delayed' = delayed \cup {m}
  /\ UNCHANGED <<launches, Unseen>>

\* fail() ends after its mission was unregistered.  The mission has not been
\* launched, so that attempts are left, and a retry puts its id into the queue.
FailLate(m) ==
  /\ m \in late
  /\ late' = late \ {m}
  /\ \/ UNCHANGED <<queued, strays>>
     \/ /\ Cardinality(queued) < MaxQueued
        /\ queued' = queued \cup {m}
        /\ strays' = strays \cup {m}
  /\ UNCHANGED <<lives, active, owners, succeeded, running, stopping, closed,
                 registered, runLock, pc, goal, stops, joiners, scan>>

DelayPasses(m) ==
  /\ m \in delayed
  /\ delayed' = delayed \ {m}
  /\ UNCHANGED <<phase, outcome, launches, indexes, scan, awaits, Unseen>>

------------------------------------------------------------------------------
Launch(t) ==
  \/ EnterLaunch(t) \/ LockLaunch(t) \/ Admit(t) \/ Start(t) \/ DoNotStart(t)
  \/ LaunchRaises(t)

StopOthers(t) ==
  \/ \E m \in Missions : StopIdle(t, m) \/ StopActive(t, m) \/ StopRejected(t, m)
  \/ StopFails(t) \/ Stopped(t)

FinishEngine(t) == JoinScheduler(t) \/ FinishStop(t) \/ CloseEngine(t)

SchedulerStep ==
  \/ ScanQueue \/ SchedulerEnds \/ ScanEnds
  \/ \E m \in Missions : QueueTimesOut(m) \/ PromoteNext(m)

MissionStep(m) ==
  \/ Proceed(m) \/ DecideIdle(m) \/ Settle(m) \/ Retry(m) \/ FailLate(m)
  \/ DelayPasses(m)
  \/ \E result \in Results : Decide(m, result)
  \/ \E result \in {STOPPED, CANCELLED} : Abandon(m, result)

Next ==
  \/ \E t \in Clients :
       \/ StartEngine(t) \/ StopEngine(t, FALSE) \/ StopEngine(t, TRUE)
       \/ \E m \in Missions : Run(t, m) \/ Unregister(t, m)
  \/ \E t \in Threads : Launch(t) \/ StopOthers(t) \/ FinishEngine(t)
  \/ SchedulerStep
  \/ \E m \in Missions : MissionStep(m)

Spec == Init /\ [][Next]_vars

\* Threads inside a command go on, and so does the scheduler; a mission whose
\* outcome is decided reaches it (StoppingSettles of MissionLifecycle), and
\* time passes.  A thread that waits for a run_lock gets it if the lock is free
\* again and again.  No mission has to end by itself, no client has to act.
FairSpec ==
  /\ Spec
  /\ \A t \in Threads : WF_vars(Launch(t) \/ StopOthers(t) \/ FinishEngine(t))
  /\ \A t \in Threads : SF_vars(LockLaunch(t))
  /\ WF_vars(SchedulerStep)
  /\ \A m \in Missions : WF_vars(Settle(m) \/ Retry(m)) /\ WF_vars(DelayPasses(m))

------------------------------------------------------------------------------
\* Safety.

Running == {m \in registered : phase[m] \in Active}
Queued == {m \in registered : phase[m] = QUEUED}

\* Active missions share no resource, and none blocks the type of another,
\* however they were launched (_conflicts_locked).
NoConflict == \A m, n \in Running : m # n => ~Clash(m, n)

\* The engine's limits hold for launches, preemptions and retries alike.
WithinLimits ==
  /\ Cardinality(Running) <= MaxActive
  /\ Cardinality(Queued) <= MaxQueued

\* The indexes that replaced the scans of the registry (CHANGELOG: active,
\* queued, resource owner and successful-type indexes) tell the truth: those of
\* active missions and of owners exactly, and no queued mission is missing from
\* the queue.  The queue may name a mission that is not queued only if a fail()
\* was under way when the mission was unregistered, and has asked for a retry.
IndexesAgree == ~closed =>
  /\ active = Running
  /\ Queued \subseteq queued /\ queued \subseteq Queued \cup strays
  /\ \A r \in Resources : owners[r] = {m \in Running : r \in Needs[m]}

\* The count of each type is the number of missions that succeeded.
SuccessesAgree == ~closed =>
  \A k \in Types :
    succeeded[k] =
      Cardinality({m \in registered : TypeOf[m] = k /\ phase[m] = SUCCEEDED})

\* A mission starts only when a mission of every required type has succeeded
\* and has not been started again since.
PrerequisitesMet ==
  [][\A m \in Missions :
       phase[m] # STARTING /\ phase'[m] = STARTING =>
         \A k \in Requires[m] :
           \E n \in registered : TypeOf[n] = k /\ phase[n] = SUCCEEDED]_vars

\* Every mission under this engine keeps to the contract of MissionContract for
\* as long as it is registered, whatever the launches, preemptions, retries and
\* stops of the others do; its callbacks are not modelled here.
Contract(m) == INSTANCE MissionContract WITH
  phase <- phase[m], outcome <- outcome[m], busy <- FALSE
KeepsContract ==
  /\ \A m \in Missions : Contract(m)!Init
  /\ [][\A m \in Missions \ (registered \ registered') :
          Contract(m)!Next \/ UNCHANGED Contract(m)!vars]_vars

\* The stopping latch is given up only when the scheduler thread has ended
\* (docs/en/mission.md: "once mission and scheduler cleanup succeeds, the
\* stopping latch is cleared"), so that start() never finds an old one, even
\* after a stop() that met an error.  Two stop() calls that overlap can break
\* it: one clears the latch that the other still needs.
LatchCoversScheduler == ~running /\ ~stopping => ~SchedulerAlive

------------------------------------------------------------------------------
\* Liveness.

\* A queued mission that could start is not left in the queue for ever.
Startable(m) ==
  /\ m \in registered /\ phase[m] = QUEUED
  /\ outcome[m] = Undecided
  /\ launches[m] < MaxLaunches
  /\ MayStart(m, TRUE)
QueueIsServed == \A m \in Missions : ~<>[](running /\ Startable(m))

\* run(), stop() and close() return, whoever stops what: nobody waits in a
\* circle of run locks, ending missions and the scheduler thread.
CommandsReturn == \A t \in Clients : pc[t] # "idle" ~> pc[t] = "idle"

------------------------------------------------------------------------------
\* What the documentation promises and the code does not keep.

\* stop() says "Stop active work and the scheduler": when no thread is in it
\* any more, a stopped engine has no active mission.
StoppedIsIdle ==
  /\ ~running /\ ~stopping
  /\ \A t \in Threads : pc[t] \notin LaunchLabels \cup StopLabels
  => Running = {}

\* start() says "Start queue and retry scheduling; safe to call repeatedly": a
\* running engine has a scheduler thread.  Among others, an entry of the queue
\* whose mission is not registered (strays) ends it.
SchedulerSurvives == running => pc[Scheduler] # "dead"
==============================================================================
