-------------------------- MODULE MissionLifecycle ---------------------------
(***************************************************************************)
(* One mission of a MissionEngine under the threads that act on it: the    *)
(* callers of engine commands, the scheduler thread, and one worker thread *)
(* per launch (mission/lifecycle.py, and the launch path of                *)
(* mission/scheduler.py).                                                  *)
(*                                                                         *)
(* An action is one section under the engine's condition, one callback of  *)
(* the application's Mission object, or one wait for another thread.  The  *)
(* locks of MissionRuntime are variables, because callbacks run while they *)
(* are held and outside the condition.  A command that the code refuses,   *)
(* or answers without changing anything, is a stuttering step.             *)
(***************************************************************************)
EXTENDS Naturals, MissionPhases

CONSTANTS
  Clients,          \* threads of the application that issue commands
  Scheduler,        \* the engine's scheduler thread
  NoThread,         \* "None" where a thread is expected
  Commands,         \* the commands the application uses
  RetryAttempts,    \* MissionRetryPolicy.attempts of the mission
  CleanupMayFail,   \* whether Mission.stop() may raise
  SlowEngine,       \* whether stop_timeout may pass without a callback's help
  MaxGeneration,    \* bound: launches of the mission
  MaxDecisions      \* bound: intents before idle missions are left alone

Callers == Clients \cup {Scheduler}
Workers == 1..MaxGeneration          \* the worker thread of each launch
Threads == Callers \cup Workers

ASSUME LifecycleAssumption ==
  /\ Callers \cap Nat = {}
  /\ NoThread \notin Callers \cup Nat
  /\ Scheduler \notin Clients
  /\ RetryAttempts \in Nat \ {0}
  /\ CleanupMayFail \in BOOLEAN
  /\ SlowEngine \in BOOLEAN
  /\ MaxGeneration \in Nat
  /\ MaxDecisions \in Nat

VARIABLES
  phase,          \* snapshot.phase
  generation,     \* snapshot.generation, which snapshot.attempt always equals
  pending,        \* pending_terminal: the terminal intent not yet committed
  decisions,      \* number of intents created, so that each has an identity
  stopEvent,      \* stop_event
  cleaned,        \* cleaned: Mission.stop() has succeeded for this launch
  cleanupError,   \* cleanup_error is not None
  worker,         \* worker: the current worker thread, 0 for None
  callbackLock,   \* owner of callback_lock
  terminalLock,   \* owner of terminal_lock (cleanup_lock nests inside it)
  runLock,        \* owner of run_lock
  pc,             \* what each thread is doing
  held,           \* the intent each thread is finalizing
  target,         \* the worker a thread joins, or the generation it launched
  forced,         \* whether the thread finalizes with retry_cleanup=True
  view            \* what the Mission object has last been told to do

state   == <<phase, generation>>
intents == <<pending, decisions>>
flags   == <<stopEvent, cleaned, cleanupError>>
locks   == <<callbackLock, terminalLock, runLock>>
locals  == <<held, target, forced>>
vars    == <<state, intents, flags, worker, locks, pc, locals, view>>

Outcomes == Terminal

\* PendingTerminalIntent; the code compares intents by identity, kept in id.
Intent == [id : Nat \ {0}, gen : Nat, phase : Outcomes, retryable : BOOLEAN]
NoIntent == [id |-> 0, gen |-> 0, phase |-> REGISTERED, retryable |-> FALSE]

\* A thread at one of these is inside a callback of the Mission object, or
\* (w_recheck) holds callback_lock on the way into one.
UserCode     == {"in_start", "in_tick", "in_pause", "in_resume"}
HoldsCallback == UserCode \cup {"w_recheck", "in_stop"}
HoldsTerminal == {"clean", "clean_enter", "in_stop", "commit"}
HoldsRun      == {"run_start", "run_spawn"}

CallerLabels == {"idle", "raised", "pause_enter", "in_pause", "pause_commit",
                 "resume_enter", "in_resume", "resume_commit", "fail_after",
                 "run_enter", "run_start", "run_spawn", "retry", "dead"}
WorkerLabels == {"unborn", "w_begin", "w_recheck", "in_start", "loop",
                 "w_tick", "in_tick", "w_except", "final", "w_end", "done"}
FinalizeLabels == {"join", "joining", "terminal", "clean", "clean_enter",
                   "in_stop", "commit"}
Labels == CallerLabels \cup WorkerLabels \cup FinalizeLabels

TypeOK ==
  /\ phase \in Phases
  /\ generation \in 0..MaxGeneration
  /\ pending \in Intent \cup {NoIntent}
  /\ decisions \in Nat
  /\ stopEvent \in BOOLEAN
  /\ cleaned \in BOOLEAN
  /\ cleanupError \in BOOLEAN
  /\ worker \in 0..MaxGeneration
  /\ callbackLock \in Threads \cup {NoThread}
  /\ terminalLock \in Threads \cup {NoThread}
  /\ runLock \in Threads \cup {NoThread}
  /\ pc \in [Threads -> Labels]
  /\ held \in [Threads -> Intent \cup {NoIntent}]
  /\ target \in [Threads -> 0..MaxGeneration]
  /\ forced \in [Threads -> BOOLEAN]
  /\ view \in {"fresh", "live", "paused"}

Init ==
  /\ phase = REGISTERED
  /\ generation = 0
  /\ pending = NoIntent
  /\ decisions = 0
  /\ stopEvent = FALSE
  /\ cleaned = FALSE
  /\ cleanupError = FALSE
  /\ worker = 0
  /\ callbackLock = NoThread
  /\ terminalLock = NoThread
  /\ runLock = NoThread
  /\ pc = [t \in Threads |-> IF t \in Workers THEN "unborn" ELSE "idle"]
  /\ held = [t \in Threads |-> NoIntent]
  /\ target = [t \in Threads |-> 0]
  /\ forced = [t \in Threads |-> FALSE]
  /\ view = "fresh"

------------------------------------------------------------------------------
\* Building blocks.

Goto(t, label) == pc' = [pc EXCEPT ![t] = label]

\* A command is issued by a caller that is not inside another one.
Issues(t, command) ==
  /\ command \in Commands
  /\ t \in Clients
  /\ pc[t] \in {"idle", "raised"}

\* _transition_locked for a change that launches nothing.
Move(next) ==
  /\ MayFollow(phase, next)
  /\ phase' = next
  /\ UNCHANGED generation

\* Where a thread continues after _finalize_pending_terminal returned, raised
\* MissionCleanupError, or raised another error.  A worker swallows only the
\* cleanup error; another error skips the code that clears runtime.worker.
Returned(t)      == IF t \in Workers THEN "w_end" ELSE "idle"

\* Fault: a failed cleanup is reported to the caller as success.
CleanupRaisedQuietly(t) == Returned(t)

CleanupRaised(t) == IF t \in Workers THEN "w_end" ELSE "raised"
OtherRaised(t)   == IF t \in Workers THEN "done" ELSE "raised"

\* A new terminal intent, set in the section that requests the outcome.
NewIntent(outcome, retryable) ==
  [id |-> decisions + 1, gen |-> generation, phase |-> outcome,
   retryable |-> retryable]

\* _set_terminal_intent_locked.
Decide(outcome, retryable) ==
  /\ pending = NoIntent
  /\ pending' = NewIntent(outcome, retryable)
  /\ decisions' = decisions + 1
  /\ stopEvent' = TRUE

\* The phases from which a terminal command first moves to STOPPING.
Interruptible == Active \ {STOPPING}

\* The section of fail(): FAILED may be requested again, and in any phase that
\* is not terminal; a mission that is not active keeps its phase.
FailSection(retryable) ==
  /\ phase \notin Terminal
  /\ \/ /\ phase \in Interruptible
        /\ Move(STOPPING)
        /\ Decide(FAILED, retryable)
     \/ /\ phase \in {REGISTERED, QUEUED}
        /\ Decide(FAILED, retryable)
        /\ UNCHANGED state
     \/ /\ phase \notin Interruptible
        /\ pending.phase = FAILED
        /\ stopEvent' = TRUE
        /\ UNCHANGED <<state, intents>>

\* fail() goes no further than its section.
FailRefused ==
  \/ phase \in Terminal
  \/ phase = STOPPING /\ pending.phase # FAILED

------------------------------------------------------------------------------
\* Commands of the application's threads.

\* pause(): RUNNING becomes PAUSING before the callback is called.
PauseRequest(t) ==
  /\ Issues(t, "pause")
  /\ phase # PAUSED
  /\ Move(PAUSING)
  /\ Goto(t, "pause_enter")
  /\ UNCHANGED <<intents, flags, worker, locks, locals, view>>

\* resume(): the phase is only checked before the callback is called.
ResumeRequest(t) ==
  /\ Issues(t, "resume")
  /\ phase = PAUSED
  /\ Goto(t, "resume_enter")
  /\ UNCHANGED <<state, intents, flags, worker, locks, locals, view>>

\* _invoke_lifecycle_callback calls the callback only in this phase.
ExpectedPhase(label) == IF label = "pause_enter" THEN PAUSING ELSE PAUSED

EnterLifecycleCallback(t) ==
  /\ pc[t] \in {"pause_enter", "resume_enter"}
  /\ callbackLock = NoThread
  /\ LET pausing == pc[t] = "pause_enter"
     IN IF phase = ExpectedPhase(pc[t])
        THEN /\ callbackLock' = t
             /\ view' = IF pausing THEN "paused" ELSE "live"
             /\ Goto(t, IF pausing THEN "in_pause" ELSE "in_resume")
        ELSE /\ Goto(t, IF pausing THEN "pause_commit" ELSE "resume_commit")
             /\ UNCHANGED <<callbackLock, view>>
  /\ UNCHANGED <<state, intents, flags, worker, terminalLock, runLock, locals>>

\* Fault: callback_lock is not released.
LifecycleCallbackKeepsLock(t) ==
  /\ pc[t] \in {"in_pause", "in_resume"}
  /\ Goto(t, IF pc[t] = "in_pause" THEN "pause_commit" ELSE "resume_commit")
  /\ UNCHANGED <<state, intents, flags, worker, locks, locals, view>>

\* The pause or resume callback returns; callback_lock is released.
LifecycleCallbackReturns(t) ==
  /\ pc[t] \in {"in_pause", "in_resume"}
  /\ callbackLock' = NoThread
  /\ Goto(t, IF pc[t] = "in_pause" THEN "pause_commit" ELSE "resume_commit")
  /\ UNCHANGED <<state, intents, flags, worker, terminalLock, runLock, locals,
                 view>>

\* The callback raises an error, which pause() and resume() turn into fail().
LifecycleCallbackRaises(t) ==
  /\ pc[t] \in {"in_pause", "in_resume"}
  /\ callbackLock' = NoThread
  /\ Goto(t, "fail_after")
  /\ UNCHANGED <<state, intents, flags, worker, terminalLock, runLock, locals,
                 view>>

\* The callback is unwound by _MissionExit after it asked for an outcome.
LifecycleCallbackExits(t) ==
  /\ pc[t] \in {"in_pause", "in_resume"}
  /\ pending # NoIntent
  /\ callbackLock' = NoThread
  /\ held' = [held EXCEPT ![t] = pending]
  /\ Goto(t, "join")
  /\ UNCHANGED <<state, intents, flags, worker, terminalLock, runLock, target,
                 forced, view>>

\* The last section of pause() and resume(): commit unless the phase moved on.
CommitPauseResume(t) ==
  /\ pc[t] \in {"pause_commit", "resume_commit"}
  /\ LET pausing == pc[t] = "pause_commit"
     IN IF phase = IF pausing THEN PAUSING ELSE PAUSED
        THEN Move(IF pausing THEN PAUSED ELSE RUNNING)
        ELSE UNCHANGED state
  /\ Goto(t, "idle")
  /\ UNCHANGED <<intents, flags, worker, locks, locals, view>>

\* stop_mission() and cancel() (_finish_by_command).
FinishRequest(t, outcome) ==
  /\ Issues(t, IF outcome = STOPPED THEN "stop" ELSE "cancel")
  /\ phase \notin Terminal
  /\ pending = NoIntent \/ pending.phase = outcome
  /\ \/ /\ phase \in {REGISTERED, QUEUED}
        /\ pending = NoIntent
        /\ Move(outcome)
        /\ stopEvent' = TRUE
        /\ Goto(t, "idle")
        /\ UNCHANGED <<intents, held>>
     \/ /\ phase \in Interruptible
        /\ Move(STOPPING)
        /\ Decide(outcome, FALSE)
        /\ held' = [held EXCEPT ![t] = pending']
        /\ Goto(t, "join")
     \/ /\ pending # NoIntent
        /\ stopEvent' = TRUE
        /\ held' = [held EXCEPT ![t] = pending]
        /\ Goto(t, "join")
        /\ UNCHANGED <<state, intents>>
  /\ UNCHANGED <<cleaned, cleanupError, worker, locks, target, forced, view>>

\* complete() called from outside the mission's own callbacks.
CompleteRequest(t) ==
  /\ Issues(t, "complete")
  /\ \/ /\ phase = RUNNING
        /\ Move(STOPPING)
        /\ Decide(SUCCEEDED, FALSE)
        /\ held' = [held EXCEPT ![t] = pending']
        /\ Goto(t, "join")
     \/ /\ phase = STOPPING
        /\ pending.phase = SUCCEEDED
        /\ stopEvent' = TRUE
        /\ held' = [held EXCEPT ![t] = pending]
        /\ Goto(t, IF cleanupError THEN "retry" ELSE "join")
        /\ UNCHANGED <<state, intents>>
  /\ UNCHANGED <<cleaned, cleanupError, worker, locks, target, forced, view>>

\* fail(): a command of the application, of a caller whose callback raised, or
\* of the scheduler for a mission it saw timing out (_expire_timeouts).
FailRequest(t) ==
  /\ \E retryable \in BOOLEAN :
       /\ \/ /\ Issues(t, "fail")
             /\ phase \in Active \/ decisions < MaxDecisions
          \/ pc[t] = "fail_after" /\ (retryable <=> t = Scheduler)
       /\ FailSection(retryable)
  /\ held' = [held EXCEPT ![t] = pending']
  /\ Goto(t, "join")
  /\ UNCHANGED <<cleaned, cleanupError, worker, locks, target, forced, view>>

FailAfterRefused(t) ==
  /\ pc[t] = "fail_after"
  /\ FailRefused
  /\ Goto(t, "idle")
  /\ UNCHANGED <<state, intents, flags, worker, locks, locals, view>>

\* retry_cleanup(), as a command and as the end of a repeated complete().
RetryCleanup(t) ==
  /\ Issues(t, "retry_cleanup") \/ pc[t] = "retry"
  /\ IF phase = STOPPING /\ cleanupError /\ pending # NoIntent
     THEN /\ held' = [held EXCEPT ![t] = pending]
          /\ forced' = [forced EXCEPT ![t] = TRUE]
          /\ Goto(t, "join")
     ELSE /\ pc[t] = "retry"
          /\ held' = [held EXCEPT ![t] = NoIntent]
          /\ Goto(t, "raised")
          /\ UNCHANGED forced
  /\ UNCHANGED <<state, intents, flags, worker, locks, target, view>>

------------------------------------------------------------------------------
\* Launching: _promote_queued, _run_registered and _launch_serialized.  What
\* the other missions leave to this one is the environment's choice here; the
\* module MissionScheduler models it.

\* _queue_locked: a queued mission stays as it is.
Enqueue ==
  \/ phase = QUEUED /\ UNCHANGED state
  \/ Move(QUEUED) /\ (phase \in Terminal => decisions < MaxDecisions)

\* The first pass, under run_lock: already active, queued or refused, or admitted.
RunAdmit(t) ==
  /\ Issues(t, "run") \/ pc[t] = "run_enter"
  /\ runLock = NoThread
  /\ \/ /\ phase \in Active
        /\ Goto(t, "idle")
        /\ UNCHANGED <<state, runLock>>
     \/ /\ phase \notin Active
        /\ Enqueue \/ UNCHANGED state
        /\ Goto(t, "idle")
        /\ UNCHANGED runLock
     \/ /\ phase \notin Active
        /\ generation < MaxGeneration
        /\ runLock' = t
        /\ Goto(t, "run_start")
        /\ UNCHANGED state
  /\ UNCHANGED <<intents, flags, worker, callbackLock, terminalLock, locals,
                 view>>

\* Fault: a pending intent of the last launch is not noticed.
RunStartStale(t) ==
  /\ pc[t] = "run_start"
  /\ generation < MaxGeneration
  /\ MayFollow(phase, STARTING)
  /\ phase' = STARTING
  /\ generation' = generation + 1
  /\ stopEvent' = FALSE
  /\ cleaned' = FALSE
  /\ target' = [target EXCEPT ![t] = generation']
  /\ Goto(t, "run_spawn")
  /\ UNCHANGED <<intents, cleanupError, worker, locks, held, forced, view>>

\* The second pass starts the launch: a new generation without a worker yet.
RunStart(t) ==
  /\ pc[t] = "run_start"
  /\ pending = NoIntent
  /\ generation < MaxGeneration
  /\ MayFollow(phase, STARTING)
  /\ phase' = STARTING
  /\ generation' = generation + 1
  /\ stopEvent' = FALSE
  /\ cleaned' = FALSE
  /\ target' = [target EXCEPT ![t] = generation']
  /\ Goto(t, "run_spawn")
  /\ UNCHANGED <<intents, cleanupError, worker, locks, held, forced, view>>

\* The second pass finds the mission blocked again.
RunBlocked(t) ==
  /\ pc[t] = "run_start"
  /\ Enqueue \/ UNCHANGED state
  /\ runLock' = NoThread
  /\ Goto(t, "idle")
  /\ UNCHANGED <<intents, flags, worker, callbackLock, terminalLock, locals,
                 view>>

\* The second pass finds a terminal intent: a RuntimeError, which no caller of
\* the scheduler thread catches.
RunStale(t) ==
  /\ pc[t] = "run_start"
  /\ pending # NoIntent
  /\ runLock' = NoThread
  /\ Goto(t, IF t = Scheduler THEN "dead" ELSE "raised")
  /\ UNCHANGED <<state, intents, flags, worker, callbackLock, terminalLock,
                 locals, view>>

\* The last section creates the worker unless the launch was overtaken.
RunSpawn(t) ==
  /\ pc[t] = "run_spawn"
  /\ IF generation = target[t] /\ phase = STARTING
     THEN /\ worker' = generation
          /\ pc' = [pc EXCEPT ![t] = "idle", ![generation] = "w_begin"]
     ELSE /\ Goto(t, "idle")
          /\ UNCHANGED worker
  /\ runLock' = NoThread
  /\ target' = [target EXCEPT ![t] = 0]
  /\ UNCHANGED <<state, intents, flags, callbackLock, terminalLock, held,
                 forced, view>>

------------------------------------------------------------------------------
\* The scheduler thread.

SchedulerReady == pc[Scheduler] \in {"idle", "raised"}

\* _promote_queued: the phase is checked, then the condition is released.
PromoteQueued ==
  /\ "promote" \in Commands
  /\ SchedulerReady
  /\ phase = QUEUED
  /\ Goto(Scheduler, "run_enter")
  /\ UNCHANGED <<state, intents, flags, worker, locks, locals, view>>

\* _promote_queued: queue_timeout_seconds has passed.
QueueTimesOut ==
  /\ "queue_timeout" \in Commands
  /\ SchedulerReady
  /\ phase = QUEUED
  /\ Move(FAILED)
  /\ Goto(Scheduler, "idle")
  /\ UNCHANGED <<intents, flags, worker, locks, locals, view>>

\* _expire_timeouts: the mission is seen timing out, then failed.
NoticeTimeout ==
  /\ "timeout" \in Commands
  /\ SchedulerReady
  /\ phase \in {STARTING, RUNNING}
  /\ Goto(Scheduler, "fail_after")
  /\ UNCHANGED <<state, intents, flags, worker, locks, locals, view>>

------------------------------------------------------------------------------
\* The worker thread of launch w (_run_mission).

\* The worker takes callback_lock; the mission runs if it is still STARTING.
\* An activation guard may refuse, which cancels the mission.
WorkerBegin(w) ==
  /\ pc[w] = "w_begin"
  /\ callbackLock = NoThread
  /\ \/ /\ generation = w /\ phase = STARTING
        /\ Move(RUNNING)
        /\ callbackLock' = w
        /\ Goto(w, "w_recheck")
        /\ UNCHANGED <<intents, stopEvent>>
     \/ /\ generation = w /\ phase = STARTING
        /\ "guard" \in Commands
        /\ Move(STOPPING)
        /\ Decide(CANCELLED, FALSE)
        /\ Goto(w, "final")
        /\ UNCHANGED callbackLock
     \/ /\ generation # w \/ phase # STARTING
        /\ Goto(w, "final")
        /\ UNCHANGED <<state, intents, stopEvent, callbackLock>>
  /\ UNCHANGED <<cleaned, cleanupError, worker, terminalLock, runLock, locals,
                 view>>

\* The transition to RUNNING has been published; start() is called, with
\* callback_lock still held, unless the phase changed meanwhile.
WorkerRecheck(w) ==
  /\ pc[w] = "w_recheck"
  /\ IF generation = w /\ phase = RUNNING
     THEN /\ view' = "live"
          /\ Goto(w, "in_start")
          /\ UNCHANGED callbackLock
     ELSE /\ callbackLock' = NoThread
          /\ Goto(w, "final")
          /\ UNCHANGED view
  /\ UNCHANGED <<state, intents, flags, worker, terminalLock, runLock, locals>>

\* start() or tick() returns.
WorkerCallbackReturns(w) ==
  /\ pc[w] \in {"in_start", "in_tick"}
  /\ callbackLock' = NoThread
  /\ Goto(w, "loop")
  /\ UNCHANGED <<state, intents, flags, worker, terminalLock, runLock, locals,
                 view>>

\* start() or tick() raises an error.
WorkerCallbackRaises(w) ==
  /\ pc[w] \in {"in_start", "in_tick"}
  /\ callbackLock' = NoThread
  /\ Goto(w, "w_except")
  /\ UNCHANGED <<state, intents, flags, worker, terminalLock, runLock, locals,
                 view>>

\* start() or tick() is unwound by _MissionExit after it asked for an outcome.
WorkerCallbackExits(w) ==
  /\ pc[w] \in {"in_start", "in_tick"}
  /\ pending # NoIntent
  /\ callbackLock' = NoThread
  /\ Goto(w, "final")
  /\ UNCHANGED <<state, intents, flags, worker, terminalLock, runLock, locals,
                 view>>

\* A callback asks for an outcome of its own mission.  The thread stays in the
\* callback: it is unwound next, or goes on if the application swallows that.
CallbackDecides(t, outcome) ==
  /\ pc[t] \in UserCode
  /\ "callback" \in Commands
  /\ outcome = SUCCEEDED => phase = RUNNING /\ t \in Workers
  /\ phase \in Interruptible
  /\ Move(STOPPING)
  /\ \E retryable \in BOOLEAN :
       /\ retryable => outcome = FAILED
       /\ Decide(outcome, retryable)
  /\ UNCHANGED <<cleaned, cleanupError, worker, locks, pc, locals, view>>

\* The handler of an error, and of a timeout: fail(retryable=True) unless
\* another outcome is pending.
WorkerExcept(w) ==
  /\ pc[w] = "w_except"
  /\ IF pending = NoIntent /\ ~FailRefused
     THEN FailSection(TRUE)
     ELSE UNCHANGED <<state, intents, stopEvent>>
  /\ Goto(w, "final")
  /\ UNCHANGED <<cleaned, cleanupError, worker, locks, locals, view>>

\* The tick loop: stop_event and the generation end it, any phase but RUNNING
\* skips the tick, and the mission's own timeout fails it.
WorkerLoop(w) ==
  /\ pc[w] = "loop"
  /\ \/ /\ stopEvent \/ generation # w \/ phase \in Terminal
        /\ Goto(w, "final")
     \/ /\ ~stopEvent /\ generation = w /\ phase = RUNNING
        /\ Goto(w, "w_tick")
     \/ /\ ~stopEvent /\ generation = w /\ phase = RUNNING
        /\ "timeout" \in Commands
        /\ Goto(w, "w_except")
  /\ UNCHANGED <<state, intents, flags, worker, locks, locals, view>>

\* tick() is called if the mission is still RUNNING under callback_lock.
WorkerTick(w) ==
  /\ pc[w] = "w_tick"
  /\ callbackLock = NoThread
  /\ IF generation = w /\ phase = RUNNING
     THEN /\ callbackLock' = w
          /\ Goto(w, "in_tick")
     ELSE /\ Goto(w, "loop")
          /\ UNCHANGED callbackLock
  /\ UNCHANGED <<state, intents, flags, worker, terminalLock, runLock, locals,
                 view>>

\* Fault: the worker leaves the outcome to whoever asked for it.
WorkerFinalForgets(w) ==
  /\ pc[w] = "final"
  /\ Goto(w, "w_end")
  /\ UNCHANGED <<state, intents, flags, worker, locks, locals, view>>

\* The finally block: finalize whatever outcome is pending.
WorkerFinal(w) ==
  /\ pc[w] = "final"
  /\ held' = [held EXCEPT ![w] = pending]
  /\ Goto(w, IF pending = NoIntent THEN "w_end" ELSE "join")
  /\ UNCHANGED <<state, intents, flags, worker, locks, target, forced, view>>

WorkerEnd(w) ==
  /\ pc[w] = "w_end"
  /\ worker' = IF worker = w THEN 0 ELSE worker
  /\ Goto(w, "done")
  /\ UNCHANGED <<state, intents, flags, locks, locals, view>>

------------------------------------------------------------------------------
\* _finalize_pending_terminal, run by callers and workers alike.

\* A finished finalization leaves no local state behind.
ForgetLocals(t) ==
  /\ held' = [held EXCEPT ![t] = NoIntent]
  /\ target' = [target EXCEPT ![t] = 0]
  /\ forced' = [forced EXCEPT ![t] = FALSE]

\* Fault: the worker is not joined.
JoinSkipped(t) ==
  /\ pc[t] = "join"
  /\ Goto(t, "terminal")
  /\ UNCHANGED <<state, intents, flags, worker, locks, locals, view>>

\* _join_worker: the worker is read once, and joined unless it is the caller.
Join(t) ==
  /\ pc[t] = "join"
  /\ IF worker \in {0, t}
     THEN Goto(t, "terminal") /\ UNCHANGED target
     ELSE Goto(t, "joining") /\ target' = [target EXCEPT ![t] = worker]
  /\ UNCHANGED <<state, intents, flags, worker, locks, held, forced, view>>

Joined(t) ==
  /\ pc[t] = "joining"
  /\ pc[target[t]] = "done"
  /\ target' = [target EXCEPT ![t] = 0]
  /\ Goto(t, "terminal")
  /\ UNCHANGED <<state, intents, flags, worker, locks, held, forced, view>>

\* A worker that user code keeps from ending: its own callback, or a callback
\* or cleanup of another thread that holds the lock it needs.
HeldUp(w) ==
  \/ pc[w] \in HoldsCallback
  \/ pc[w] \in {"w_begin", "w_tick", "clean_enter"} /\ callbackLock # NoThread
  \/ pc[w] = "terminal" /\ terminalLock # NoThread
  \/ pc[w] = "joining"

\* stop_timeout passes first: MissionTimeoutError.
JoinTimesOut(t) ==
  /\ pc[t] = "joining"
  /\ pc[target[t]] # "done"
  /\ SlowEngine \/ HeldUp(target[t])
  /\ ForgetLocals(t)
  /\ Goto(t, OtherRaised(t))
  /\ UNCHANGED <<state, intents, flags, worker, locks, view>>

\* Under terminal_lock the intent is checked: another thread may have
\* committed it, cleanup may have failed for it.
EnterTerminal(t) ==
  /\ pc[t] = "terminal"
  /\ terminalLock = NoThread
  /\ \/ /\ pending = held[t]
        /\ ~cleanupError \/ forced[t]
        /\ terminalLock' = t
        /\ Goto(t, "clean")
        /\ UNCHANGED locals
     \/ /\ pending # held[t]
        /\ pending = NoIntent \/ generation # held[t].gen
        /\ Goto(t, Returned(t))
        /\ ForgetLocals(t)
        /\ UNCHANGED terminalLock
     \/ /\ pending # held[t] /\ pending # NoIntent /\ generation = held[t].gen
        /\ Goto(t, OtherRaised(t))
        /\ ForgetLocals(t)
        /\ UNCHANGED terminalLock
     \/ /\ pending = held[t]
        /\ cleanupError /\ ~forced[t]
        /\ Goto(t, CleanupRaised(t))
        /\ ForgetLocals(t)
        /\ UNCHANGED terminalLock
  /\ UNCHANGED <<state, intents, flags, worker, callbackLock, runLock, view>>

\* _cleanup_runtime: Mission.stop() is called once per launch.
Clean(t) ==
  /\ pc[t] = "clean"
  /\ cleanupError' = IF cleaned THEN FALSE ELSE cleanupError
  /\ Goto(t, IF cleaned THEN "commit" ELSE "clean_enter")
  /\ UNCHANGED <<state, intents, stopEvent, cleaned, worker, locks, locals,
                 view>>

\* Fault: Mission.stop() is called without callback_lock.
EnterCleanupUnlocked(t) ==
  /\ pc[t] = "clean_enter"
  /\ Goto(t, "in_stop")
  /\ UNCHANGED <<state, intents, flags, worker, locks, locals, view>>

EnterCleanup(t) ==
  /\ pc[t] = "clean_enter"
  /\ callbackLock = NoThread
  /\ callbackLock' = t
  /\ Goto(t, "in_stop")
  /\ UNCHANGED <<state, intents, flags, worker, terminalLock, runLock, locals,
                 view>>

CleanupSucceeds(t) ==
  /\ pc[t] = "in_stop"
  /\ callbackLock' = NoThread
  /\ cleaned' = TRUE
  /\ cleanupError' = FALSE
  /\ view' = "fresh"
  /\ Goto(t, "commit")
  /\ UNCHANGED <<state, intents, stopEvent, worker, terminalLock, runLock,
                 locals>>

\* Fault: an error of Mission.stop() does not keep the outcome back.
CleanupFailsUnnoticed(t) ==
  /\ pc[t] = "in_stop"
  /\ CleanupMayFail
  /\ callbackLock' = NoThread
  /\ cleanupError' = TRUE
  /\ Goto(t, "commit")
  /\ UNCHANGED <<state, intents, stopEvent, cleaned, worker, terminalLock,
                 runLock, locals, view>>

\* Mission.stop() raises: the intent stays pending.
CleanupFails(t) ==
  /\ pc[t] = "in_stop"
  /\ CleanupMayFail
  /\ callbackLock' = NoThread
  /\ terminalLock' = NoThread
  /\ cleanupError' = TRUE
  /\ ForgetLocals(t)
  /\ Goto(t, CleanupRaised(t))
  /\ UNCHANGED <<state, intents, stopEvent, cleaned, worker, runLock, view>>

\* The outcome a commit reaches: a retryable failure is queued again in the
\* same section while attempts and queue capacity last (_finish_failure).
MayRetry == generation < RetryAttempts

CommitOutcome(t) ==
  IF held[t].phase = FAILED /\ held[t].retryable /\ MayRetry
  THEN {FAILED, QUEUED}
  ELSE {held[t].phase}

\* The commit.  SUCCEEDED and FAILED find nothing to do in a terminal phase
\* and then leave the intent; an impossible change raises.
Commit(t) ==
  /\ pc[t] = "commit"
  /\ terminalLock' = NoThread
  /\ ForgetLocals(t)
  /\ \/ /\ held[t].phase \in {SUCCEEDED, FAILED}
        /\ phase \in Terminal
        /\ Goto(t, Returned(t))
        /\ UNCHANGED <<state, intents>>
     \/ /\ held[t].phase \in {SUCCEEDED, FAILED} => phase \notin Terminal
        /\ pending = held[t]
        /\ MayFollow(phase, held[t].phase)
        /\ phase' \in CommitOutcome(t)
        /\ pending' = NoIntent
        /\ Goto(t, Returned(t))
        /\ UNCHANGED <<generation, decisions>>
     \/ /\ held[t].phase \in {SUCCEEDED, FAILED} => phase \notin Terminal
        /\ pending # held[t] \/ ~MayFollow(phase, held[t].phase)
        /\ Goto(t, OtherRaised(t))
        /\ UNCHANGED <<state, intents>>
  /\ UNCHANGED <<flags, worker, callbackLock, runLock, view>>

------------------------------------------------------------------------------
Finalize(t) ==
  \/ Join(t) \/ Joined(t) \/ JoinTimesOut(t) \/ EnterTerminal(t)
  \/ Clean(t) \/ EnterCleanup(t) \/ CleanupSucceeds(t) \/ CleanupFails(t)
  \/ Commit(t)

Launch(t) ==
  RunAdmit(t) \/ RunStart(t) \/ RunBlocked(t) \/ RunStale(t) \/ RunSpawn(t)

Request(t) ==
  \/ PauseRequest(t) \/ ResumeRequest(t) \/ CompleteRequest(t)
  \/ FinishRequest(t, STOPPED) \/ FinishRequest(t, CANCELLED)
  \/ FailRequest(t) \/ FailAfterRefused(t) \/ RetryCleanup(t)

LifecycleCallback(t) ==
  \/ EnterLifecycleCallback(t) \/ LifecycleCallbackReturns(t)
  \/ LifecycleCallbackRaises(t) \/ LifecycleCallbackExits(t)
  \/ CommitPauseResume(t)

Work(w) ==
  \/ WorkerBegin(w) \/ WorkerRecheck(w) \/ WorkerCallbackReturns(w)
  \/ WorkerCallbackRaises(w) \/ WorkerCallbackExits(w) \/ WorkerExcept(w)
  \/ WorkerLoop(w) \/ WorkerTick(w) \/ WorkerFinal(w) \/ WorkerEnd(w)

Next ==
  \/ \E t \in Callers : Request(t) \/ LifecycleCallback(t) \/ Launch(t)
  \/ PromoteQueued \/ QueueTimesOut \/ NoticeTimeout
  \/ \E w \in Workers : Work(w)
  \/ \E t \in Threads : Finalize(t)
  \/ \E t \in Threads, outcome \in Outcomes : CallbackDecides(t, outcome)

Spec == Init /\ [][Next]_vars

\* Threads that are inside a command, a callback or the run loop keep going:
\* the operating system schedules them and callbacks return.  Nothing is
\* assumed of a caller that has no command in hand.
Continue(t) ==
  \/ /\ t \in Callers
     /\ pc[t] \notin {"idle", "raised"}
     /\ Request(t) \/ LifecycleCallback(t) \/ Launch(t)
  \/ t \in Workers /\ Work(t)
  \/ Finalize(t)

FairSpec == Spec /\ \A t \in Threads : WF_vars(Continue(t))
------------------------------------------------------------------------------
\* Safety.

\* Two threads are never inside callbacks of the Mission object at the same
\* time, cleanup included (CHANGELOG 1.2: callbacks of one mission are
\* serialized).
CallbacksExclusive ==
  \A t, u \in Threads :
    pc[t] \in UserCode \cup {"in_stop"} /\ pc[u] \in UserCode \cup {"in_stop"}
      => t = u

\* No callback other than cleanup is running, or about to, once the mission is
\* not active: resources are given up only after the callbacks unwound.
ReleasedAfterUnwinding ==
  phase \notin Active => \A t \in Threads : pc[t] \notin UserCode \cup {"w_recheck"}

\* A mission with a pending intent has its stop_event set, so that its worker
\* leaves the tick loop, and STOPPING always has an intent to be finalized.
IntentStopsWorker ==
  /\ pending # NoIntent => stopEvent
  /\ phase = STOPPING => pending # NoIntent

\* An active mission becomes inactive only after Mission.stop() succeeded for
\* this launch (_finalize_pending_terminal).
CleanedBeforeRelease ==
  [][(phase \in Active /\ phase' \notin Active) => cleaned /\ ~cleanupError]_vars

\* The first terminal intent wins: an intent is replaced by no other intent,
\* and it leaves only with the outcome it asked for, or with the retry of a
\* failure.
FirstIntentWins ==
  [][pending # NoIntent =>
       \/ pending' = pending
       \/ /\ pending' = NoIntent
          /\ phase' = pending.phase \/ (pending.phase = FAILED /\ phase' = QUEUED)
    ]_vars

\* A caller that comes back from finalizing an intent without an error finds
\* its launch settled: it never gets the intermediate STOPPING snapshot.
CommandSettles ==
  [][\A t \in Callers :
       held[t] # NoIntent /\ pc'[t] = "idle"
         => phase' # STOPPING \/ generation' # held[t].gen]_vars

\* At most one worker is in its run loop; a finished launch's worker can only
\* be on its way out when the next one exists.
OneRunningWorker ==
  \A v, w \in Workers :
    /\ pc[v] \in {"w_recheck", "in_start", "loop", "w_tick", "in_tick", "w_except"}
    /\ pc[w] \in {"w_recheck", "in_start", "loop", "w_tick", "in_tick", "w_except"}
    => v = w

------------------------------------------------------------------------------
\* Why the safety properties hold: the parts of an inductive invariant.

\* A thread that needs a lock for what it is doing owns it.
LocksHeld ==
  \A t \in Threads :
    /\ pc[t] \in HoldsCallback => callbackLock = t
    /\ pc[t] \in HoldsTerminal => terminalLock = t

\* A thread finalizes the intent it holds, and commits it after cleanup.
FinalizesPending ==
  \A t \in Threads :
    /\ pc[t] \in FinalizeLabels => held[t] # NoIntent
    /\ pc[t] \in HoldsTerminal => pending = held[t]
    /\ pc[t] = "commit" => cleaned /\ ~cleanupError

\* An intent keeps a mission from going on; only FAILED is decided outside of
\* STOPPING.
IntentBinds ==
  /\ pending # NoIntent => stopEvent /\ phase \notin Interruptible
  /\ phase = STOPPING => pending # NoIntent
  /\ pending.phase \in Terminal \ {FAILED} => phase = STOPPING

\* Mission.stop() has not run for a launch that goes on or is in a callback, and
\* a worker is in a callback only of its own launch.
CallbacksBeforeCleanup ==
  /\ phase \in Interruptible => ~cleaned
  /\ \A t \in Threads :
       pc[t] \in UserCode \cup {"w_recheck"} =>
         /\ phase \in Active
         /\ ~cleaned
         /\ t \in Workers => generation = t

\* No reachable state breaks the order decide, unwind, clean, commit.
OutcomeOrder ==
  LocksHeld /\ FinalizesPending /\ IntentBinds /\ CallbacksBeforeCleanup

\* run_lock admits one launch at a time, and its worker starts only once.
LaunchesOnce ==
  /\ \A t \in Threads : pc[t] \in HoldsRun => runLock = t
  /\ \A t \in Threads : pc[t] = "run_spawn" =>
       /\ target[t] = generation
       /\ generation \in Workers
       /\ pc[generation] = "unborn"
  /\ \A w \in Workers : w > generation => pc[w] = "unborn"

LifecycleInvariant == OutcomeOrder /\ LaunchesOnce

------------------------------------------------------------------------------
\* The mission implements its contract.
Busy == \E t \in Threads : pc[t] \in UserCode
Contract == INSTANCE MissionContract WITH outcome <- pending.phase, busy <- Busy
ImplementsContract == Contract!Spec
\* A decided outcome is reached if Mission.stop() succeeds, even when every
\* caller gave up waiting for the worker.
StoppingSettles == phase = STOPPING ~> phase # STOPPING

\* Every command returns or raises once it is past its first lock: no order of
\* the locks and of the waits for the worker leaves two threads waiting for each
\* other.  The first lock itself is not fair: a stream of other commands may
\* take it forever.
CommandsReturn ==
  \A t \in Callers :
    pc[t] \notin {"idle", "raised", "run_enter", "pause_enter", "resume_enter"}
      ~> pc[t] \in {"idle", "raised", "dead"}

------------------------------------------------------------------------------
\* What the documentation promises and the code does not keep.  Each is checked
\* by a run of its own, which ends in a counterexample.

\* "A mission worker executes start() and periodic tick() calls"
\* (docs/en/architecture.md): a RUNNING mission has a worker that will.
RunningHasWorker == phase = RUNNING => worker # 0

\* "Lifecycle commands are serialized" (docs/en/architecture.md): the last
\* thing a RUNNING mission was told is not to pause.
RunningIsNotPaused == phase = RUNNING => view # "paused"

\* "If stop() fails, the mission remains STOPPING" (docs/en/mission.md).
FailedCleanupStaysStopping ==
  cleanupError /\ pending # NoIntent => phase = STOPPING

\* PendingTerminalIntent is "retained until cleanup and transition commit
\* succeed" (runtime.py): a finished mission has none.
FinishedHasNoIntent ==
  /\ phase \in Terminal
  /\ \A t \in Threads : pc[t] \notin FinalizeLabels
  => pending = NoIntent

\* "Mission cannot start with a stale terminal intent" is an internal check
\* (scheduler.py); the scheduler thread does not run into it.
SchedulerSurvives == pc[Scheduler] # "dead"

\* CHANGELOG 1.3: stale queued snapshots do not promote a newer generation; the
\* scheduler launches only what is still queued.
PromotesOnlyQueued ==
  [][pc[Scheduler] = "run_start" /\ pc'[Scheduler] = "run_spawn"
       => phase = QUEUED]_vars
==============================================================================
