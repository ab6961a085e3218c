# Verification of vehicle-autonomy-core

TLA+ models of the concurrent core of `vehicle-autonomy-core` (Python), checked
with TLC and proved with TLAPS.  The package has four parts: a mission engine
(`mission/`), event buses (`events/`), a dependency container (`dependency/`)
and a MAVLink runtime (`mavlink/`).  All of them share one style: an object with
a condition or lock, threads of its own, user callbacks that run outside the lock,
and a start/stop/close lifetime that races with everything else.

## 1. Inventory

### Missions (`mission/`)

| part | state | operations | interacts with | hard behaviour |
|---|---|---|---|---|
| `lifecycle.py`, `runtime.py` | per mission: snapshot (phase, generation, attempt), `pending_terminal`, `stop_event`, `cleaned`, `cleanup_error`, `worker`, three locks | pause, resume, complete, fail, stop, cancel, retry_cleanup, the worker loop, finalization | callbacks of the `Mission` object, scheduler, publication of transitions | commands of several threads during callbacks, first outcome wins, cleanup before release, join timeouts |
| `enums.py` | table of legal phase changes | `ensure_mission_transition` | lifecycle | |
| `scheduler.py` | queue, wake flag, scheduler thread | admission (prerequisites, resources, capacity, preemption), promotion, timeouts | lifecycle, engine registry | check-then-act between the queue and the launch |
| `engine.py`, `controller.py`, `references.py` | registrations, phase indexes, running flag | start, stop, close, register, unregister, every mission command | scheduler, lifecycle | launch against stop, unregister against launch |
| `chain.py`, `parallel.py`, `background.py`, `orchestration.py` | child missions, stage, outcome of the whole | launch of stages, reaction to child transitions, termination | engine commands from transition subscribers | re-entrant transitions, orphan children |
| `execution.py` | subscriptions and helpers of one mission | waits, event scopes | event bus | lifetime tied to a launch |

What makes them correct: callbacks of a mission never overlap and end before
cleanup; an active mission is released only after its cleanup; the first decided
outcome is the final one; a command returns only when its outcome is settled; at
most one worker runs a mission; no two active missions conflict; a queued mission
is launched or given up; an orchestrator never leaves a child behind.

### Events (`events/`)

`EventBus` and `AsyncEventBus` keep subscriptions, a bounded history and timed
publications; `engine.py` gives them a lifetime.  Operations: subscribe (with
replay), unsubscribe, publish, publish after/every, close.  Hard: a replayed
event against one published meanwhile, a once-only subscription claimed by two
publishers, a schedule created while the bus closes, capacity checks in one section
and insertions in another.  Correct: a subscriber sees each event at most once, none
after it unsubscribed from its own callback, once-only runs once, close ends
every timer.

### Dependency container (`dependency/`)

Containers and scopes keep registrations, singleton instances and disposal tokens.
`InitializationGate` lets one thread create a singleton while others wait and
detects cycles of waiting threads.  Hard: shutdown during creation, two
singletons created in opposite orders by two threads, a failed creation.  Correct: one
creation per singleton, disposal once and in reverse order, no wait that never ends,
a cycle error only for a real cycle.

### MAVLink (`mavlink/`)

| part | state | operations | interacts with | hard behaviour |
|---|---|---|---|---|
| `connection.py`, `client.py` | raw connection, cancel event | connect, receive, close | router, runtime | stop during connect |
| `router.py` | reader thread, bounded histories and latest messages | start, stop, `wait_for`, publish | connection, filters, registry, histories | a message between a look and a sleep, stop from a callback |
| `vehicles.py`, `actions.py` | endpoints, times, selected autopilot, monitor thread | accept, expire, prune, remove | router, client | silence against a late heartbeat, actions told after the lock is released |
| `runtime.py`, `runtime_support.py` | lifecycle lock, running, pending cleanup, closed | start, stop, reconnect, close, `add_history` | every part below | callbacks that stop their own runtime, failures half-way |
| `application.py`, `channel.py` | assemblies, bytes, completed packets | send, accept, prune, clear | router, peer | lost, repeated, damaged fragments at the limits |
| `peer.py` | pending requests, transport state, monitor | request, send, probe, start, stop | channel | an answer against its timeout, loss of the transport |
| `dispatch.py`, `handlers.py` | capacity, generation, executor | dispatch, start, stop | peer, handlers | a handler that outlives its dispatcher |
| `delivery.py` | bounded queues, callback thread, failure latch | submit, `wait_idle`, stop | clients of the runtime | drop policies, restart against the previous thread |
| `history.py`, `recording.py` | queue, batch, counters, failure, rows | append, flush, query, clear, close | router through `add_history` | failed writes, joins that time out, crash |

Correct: delivery in order, limits kept, every waiter is answered or timed out, nothing is delivered
after stop, what stops leaves no thread and no connection behind, loss is reported.

`PROJECT.json` lists every part with its status, and the hazards line by line.

## 2. The modules

| modules | system | built on |
|---|---|---|
| `MissionPhases` | table of legal phase changes | |
| `MissionContract` | abstract: what one mission promises the rest of the engine | `MissionPhases` |
| `MissionLifecycle`, `_proofs` | one mission with its threads, locks and callbacks; implements `MissionContract` | `MissionPhases`, instance of `MissionContract` |
| `MissionScheduler`, `_proofs` | several missions that follow the contract: admission, preemption, queue, start, stop and close of the engine | `MissionPhases`, instance of `MissionContract` |
| `MissionOrchestration` | chains, parallel groups and background missions on top of missions that follow the contract | `MissionPhases` |
| `DependencyContainer`, `_proofs` | initialization gates, resolution, unregister, shutdown | |
| `CallbackWorker`, `_proofs` | bounded queues and callback thread of MAVLink | |
| `EventBus`, `_proofs` | subscriptions, replay, limited deliveries, timed publications, close | |
| `CallStacks` | threads as stacks of pending sections, with exceptions | |
| `MavlinkRouter`, `VehicleRegistry`, `MavlinkRuntime`, `_proofs` | connection and router, registry of vehicles, and the runtime that composes them | `CallStacks` |
| `ApplicationChannel`, `ApplicationPeer`, `ApplicationDispatcher`, `MavlinkExchange`, `_proofs` | fragments over a lossy link, requests and answers, bounded handlers, and two nodes that compose them | `CallStacks` |
| `MessageHistory`, `_proofs` | history writer, retention, restart, attachment to the runtime | |

`MCx` gives the constants of module `x` the values of its runs; each `MCx_run.cfg` is a run.

| run | properties |
|---|---|
| `lifecycle_safety` | `OneRunningWorker`, `CallbacksExclusive`, `CleanedBeforeRelease`, `CommandSettles`, `ImplementsContract` |
| `lifecycle_live` | `StoppingSettles`, `CommandsReturn` |
| `scheduler_safety` | `IndexesAgree`, `LatchCoversScheduler`, `PrerequisitesMet`, `KeepsContract` |
| `scheduler_live` | `NoConflict`, `CommandsReturn`, `QueueIsServed` |
| `container_cleanup` | `CreatorOwnsGate`, `CachedIsAlive`, `ClosesOnce`, `ClosedMeansDisposed`, `CallsReturn` |
| `worker_delivery` | `NoLostWakeup`, `QueuesInOrder`, `CallsReturn` |
| `bus_delivery` | `InOrder`, `NothingMissed`, `ClosedIsSilent`, `CallsReturn` |
| `orchestration_chain` | `StageAfterStage`, `ChainEnds`, `BackgroundEndsWithOwner` |
| `runtime_lifecycle` | `NewMessagesWake`, `SelectedIsLive`, `StoppedIsReleased` |
| `runtime_handler` | fails: `NobodyWaitsForWaiter` |
| `exchange_requests` | `LimitsAreExact`, `HandledOnce`, `NobodyIsLeftWaiting`, `StoppedIsSilent`, `AckMeansHandled` |
| `history_promises` | `SettledWhenPromised`, `OldestFirst`, `FailureEndsAttachment` |

The runs are few on purpose: each asks one question of one part.  Where the code departs
from what its documentation or its own comments lead one to expect, the departure is stated as a
property in the module and named below; only one of them has a run of its own.  Type invariants are
stated in every module; five of them are proved, and none is spent a run on.

Three models are scenarios rather than systems that go on for ever (`MissionOrchestration`,
`MavlinkRuntime`, `MavlinkExchange`): a set of calls is made, each once, in every order and at every
point.  No step of theirs leads back to an earlier state.  "Must happen at last" is then
"has happened when everybody is idle", and "no thread waits for ever" is the absence of deadlock:
`Terminating` stutters exactly when all calls have returned, so that TLC's deadlock check finds
any other end.

## 3. One mission: `MissionLifecycle`

`MissionPhases` is the table of `enums.py`.  `MissionLifecycle` is one mission with
any number of client threads, the scheduler thread, and one worker thread per
launch.  `MissionContract` is what that mission promises to the rest of the
engine: three variables and eight actions.

| model | code |
|---|---|
| `phase`, `generation` | `snapshot.phase`, `snapshot.generation` (`attempt` is always equal) |
| `pending`, `held[t]` | `runtime.pending_terminal` and the local that a finalizing thread compares it with by identity (`id`) |
| `stopEvent`, `cleaned`, `cleanupError`, `worker` | fields of `MissionRuntime` of the same names |
| `callbackLock`, `terminalLock`, `runLock` | owners of the three locks; `cleanup_lock` nests inside `terminal_lock` |
| `pc[t]`, `target[t]`, `forced[t]` | where a thread is, the worker it joins, `retry_cleanup=True` |
| `view` | what the application's object was last told: nothing, run, pause |

An action is one section under the engine's condition, one callback, or one wait for
another thread.  `CallbackDecides` is a callback that asks for an outcome of its
own mission; the callback may then be unwound (`...Exits`), return or raise.
Refused commands change nothing and are stuttering steps.

Left out on purpose: what other missions leave to this one (admission is a free
choice of the environment), the publication of transitions, a worker that calls
`pause()` on its own mission (the callback lock is re-entrant), cleanup called again from
inside cleanup (a no-op in the code), and `reset` of history and metadata.

### Runs

Two clients are enough for every race between commands: a third can only repeat what
one of them does, since a command reads nothing of another caller.  The
clients are interchangeable, and the safety run uses that symmetry.  Bounds:
`MaxGeneration` launches; `MaxDecisions` intents for a mission that is not active
(only these could be repeated for ever).  The system may always be used again, so
deadlock is checked.

* `lifecycle_safety`: the commands that race, from outside and from callbacks, with failing cleanup and
  joins that time out, and two launches: callbacks exclude each other, a mission is released only
  after its cleanup, commands return settled outcomes, nothing of the first launch
  leaks into the second, and `MissionContract` is implemented.
* `lifecycle_live`: the scheduler's steps, the mission's own timeout and the commands that end, pause or resume
  it, with one launch and callbacks that do not decide outcomes: commands return and STOPPING ends.

### Fairness

`FairSpec` has weak fairness for each thread while it is inside a command, a callback
or the run loop: the operating system runs it, callbacks return or raise.
Nothing obliges a client to issue a command or the scheduler to promote.
`CommandsReturn` does not promise that `run`, `pause` and `resume` get their
first lock: other commands may take it for ever.  Liveness is checked with
`SlowEngine = FALSE`: the join times out only when user code is what holds the worker up.
Callbacks that decide outcomes are left out of that run because of a known gap: after
a violation of `RunningHasWorker` (below) a RUNNING mission has no worker, and if one of its pause
callbacks then asks for an outcome and swallows the unwinding, no thread is left to
finalize it, and STOPPING does not end.

### Where the code does not keep what one would expect

These are stated at the end of the module; a run with the commands in question and one
property finds each trace in seconds:

* `RunningHasWorker`: a `pause()` between the transition to RUNNING and the worker's re-check makes the worker leave without `start()`; `resume()` then makes the mission RUNNING.
* `RunningIsNotPaused`: two `resume()` with a `pause()` between them leave the object paused in a RUNNING mission.
* `FailedCleanupStaysStopping`: `fail()` of a mission that is only registered does not go through STOPPING.
* `FinishedHasNoIntent`: the queue timeout overtakes `fail()`, whose intent stays.
* `SchedulerSurvives`: `fail()` of a queued mission meets its promotion; the scheduler thread ends with a `RuntimeError`.
* `PromotesOnlyQueued`: the mission is cancelled after the scheduler looked at the queue, and launched all the same.

### Proofs (`MissionLifecycle_proofs`)

For every set of clients, number of retries and bound, from `LifecycleAssumption`
only.  The safety properties are not inductive.  That callbacks are exclusive needs that a
thread in a callback owns `callback_lock` (`LocksHeld`); that an active mission is
released only after cleanup needs that a thread about to commit finalizes the intent
that is still pending (`FinalizesPending`), that only `fail()` can decide outside STOPPING
(`IntentBinds`), and that cleanup has not run while callbacks may
(`CallbacksBeforeCleanup`).  These four parts are `OutcomeOrder`; `LaunchesOnce` adds that
`run_lock` admits one launch.  Their conjunction with `TypeOK` is proved
inductive action by action, and from it follow `CallbacksExclusive`,
`ReleasedAfterUnwinding`, `IntentStopsWorker` (a part of the invariant, without a run of its own), the action properties
`CleanedBeforeRelease` and `FirstIntentWins`, and the refinement of
`MissionContract`.

`OneRunningWorker` needs a second invariant on top, `TurnInvariant`: a worker that is at
work is the one `runtime.worker` names, and none is at work while the mission is not active or a launch
is about to spawn its own (`WorkersInTurn`); a thread past its join that still holds the
pending intent has left no other worker at work (`JoinedInTime`), which a later intent cannot
borrow because its id is new (`IntentsAreFresh`).  So the commit that ends a launch finds
no worker, and the next launch starts alone.  `CommandSettles` needs that a thread holds an
intent only while it finalizes it (`HeldToFinalize`).

Only model-checked: liveness, which is out of the prover's reach.

## 4. Several missions: `MissionScheduler`

The engine with its registry, indexes and scheduler thread.  Each mission follows
`MissionContract`: it proceeds, an outcome is decided, the outcome is reached
(`Proceed`, `Decide`, `Abandon`, `Settle`, `Retry`).  `KeepsContract` states that the
scheduling adds nothing to that contract, so that the two modules meet.

| model | code |
|---|---|
| `registered`, `phase`, `outcome` | keys of `_runtimes`, `snapshot.phase`, outcome of the pending intent |
| `late` | a mission was unregistered while a `fail()` of it was cleaning up, which keeps its runtime (bound: one such `fail()` per mission) |
| `strays` | history: missions whose ids such a `fail()` has put into `_queued_ids` |
| `active`, `queued`, `owners`, `succeeded` | `_active_ids`, `_queued_ids`, `_resource_owners`, `_succeeded_type_counts` |
| `running`, `stopping`, `closed`, `pc[Scheduler]` | `_running`, the stop latch, `_closed`, the scheduler thread |
| `runLock` | `run_lock` of each mission |
| `todo`, `cancels`, `failed` | what a preempting launch, or `stop()`, still has to stop or cancel, and whether that failed |
| `scan` | the queue entries of one pass of the scheduler; a mission that leaves QUEUED drops out of it, which is what the comparison of generation and `queued_at` does |
| `delayed` | `next_retry_monotonic` lies in the future |

A launch is `EnterLaunch`, `LockLaunch`, `Admit` (first admission), the stopping of the
missions it preempts, `Start` (second admission and the change to STARTING); it may instead
queue, be refused or raise.  The scheduler does the same for each entry of its pass.
`stop()` cancels the queued and stops the active missions of its snapshot, joins the
scheduler and clears the latch.

Left out: pausing (an active mission is STARTING, RUNNING or STOPPING), ties by
queueing time (any order), the wake flag and polling interval (a pass may begin at any
time), `stop()` from the scheduler's own thread, errors of closing channels,
orchestrators.  The worker is created within `Start`, where `run_lock` is released too.
`Results` are the outcomes missions decide by themselves.  `MaxLaunches` bounds
launches: without it missions are launched for ever.

* `scheduler_safety`: two missions that share a resource, of which one needs the other to have
  succeeded and preempts it; both are launched twice, fail, are retried, time out in the queue,
  are cancelled and unregistered, while the engine is stopped with errors and restarted.  The
  queue has one place.  Every relation between missions occurs once; one client and the
  scheduler are two launching threads.
* `scheduler_live`: two clients and the scheduler launch, preempt and close at once: launches and
  `close()` return, a queued mission that stays startable is started, and no two missions
  that conflict are active.

`FairSpec` has weak fairness for each thread inside a call, the scheduler thread, the end of
decided missions and the passing of delays, and strong fairness for taking `run_lock`: a
thread that waits for a lock which is released again and again gets it at last, as with
the locks of CPython.  Missions are not obliged to end by themselves.

`LatchCoversScheduler` holds when `stop()` calls do not overlap (one client in its run).
With `Commands = {"start", "stop"}` and two clients TLC finds two overlapping calls of
which the second clears the latch while the scheduler thread lives.

`IndexesAgree` is exact for active missions and resource owners.  The queue index names every queued mission, and
may name others that are not: `unregister()` accepts a REGISTERED mission whose `fail()` is still
cleaning up (engine.py:591), and if that failure is retryable, it ends by queueing the mission it holds
(lifecycle.py:391), registered or not (`FailLate`).  Unless the mission is registered again, nothing takes such a stray id out.  It counts against
the queue limit, a cancellation of it raises, so that no later `stop()` succeeds, and the next pass of the
scheduler raises when it looks the id up (scheduler.py:364), which ends the thread (`ScanQueue`).

`SchedulerSurvives` is stated without a run.  It fails with such a stray id, and with three missions when a queued one
preempts another that is already ending.

**Proofs (`MissionScheduler_proofs`).**  For any missions, relations, limits and threads.
Every step is shown to be one of six changes: nothing, one mission moves from one phase to
another with its indexes (`Moved`), one is registered, one is unregistered, a late `fail()` queues one
(`Strays`), the engine closes.  `Bookkeeping` (indexes and counters agree with the phases, an unregistered
mission is REGISTERED and undecided, a closed engine has no registrations, the queue is finite) is
preserved by each of the six; `Limited` and `OneOutcome` follow with it.  From these come
`IndexesAgree`, `SuccessesAgree`, `NoConflict`, `WithinLimits`, `PrerequisitesMet` and
`KeepsContract`.  `NoConflict` needs the indexes: admission looks at `owners` and
`active` only, so a wrong index would admit a conflict.

`LatchCovers` proves `LatchCoversScheduler` for executions in which no two `stop()` or `close()` calls overlap
(`StopsOneByOne`), which is what it needs, as the counterexample above shows.  `LatchInv`: while the scheduler
thread outlives the engine the latch is closed, and whoever is in `stop()` has met an error or still has the thread to join
(`Covers`); so the one call that clears the latch has seen the thread end.  The code clears it only without an error,
and `Awaited` says whose errors these may be: whoever waits for the end of a mission is a
launch that preempts or such a `stop()`.  `LatchOfOneOwner` derives the property without that hypothesis for an engine that one
thread starts and stops.  Liveness is only model-checked.

Stated without a run: `StoppedIsIdle`.  `stop()` may return with an active mission: one that was
launched after its snapshot of the active missions.

## 5. One container: `DependencyContainer`

Singletons of one container, resolved by several threads while others register,
unregister and shut down.

| model | code |
|---|---|
| provider `<<token, n>>`, instance `<<provider, k>>` | the n-th registration of a token, its k-th creation |
| `owner`, `retired`, `waitsFor` | the `InitializationGate` of each provider, and the wait graph `_OWNER_WAITS_FOR` |
| `cached` | `provider.singleton` of each token |
| `tracked`, `disposing`, `disposed` | the `ResourceTracker`, and the instances whose `close()` has returned |
| `disposals`, `pending`, `shutter` | `_disposal_attempts`, `_pending_disposals`, the owner of `_shutdown_attempt` |
| `stack`, `target`, `toRetire`, `toClose`, `unclosed` | locals of a thread inside `resolve()`, `unregister()` or `shutdown()` |
| `awaits`, `error` | the disposals or the shutdown a thread waits for, whether one of them failed |

Resolution is: find the provider, look in the cache, claim the gate (or wait for it, or
report a cycle), resolve the parameters in order, create, store and release.
`unregister()` removes the provider, retires the gate, waits for a creation under way and
closes what was created; `shutdown()` does it for all.  A factory or `close()` may raise.

Left out: scoped and transient lifetimes, parents and scopes, asynchronous variants, shared
instances, `instance()`, a `close()` that calls the container, reactivation.  The order of
disposal is open.

`container_cleanup` checks that a gate has one creator (`CreatorOwnsGate`), that what a resolution may
return is alive (`CachedIsAlive`), that each instance is closed once (`ClosesOnce`), that a closed
container has nothing left (`ClosedMeansDisposed`) and that calls return (`CallsReturn`), while one
thread resolves, removes and shuts down and the other resolves and replaces.

**Proofs** (`DependencyContainer_proofs`): these four invariants and the types, for any tokens,
dependencies, threads and commands.  The inductive invariant `DInv` has a part for each
reason why they hold:

- `GatesOK`: a thread has a stack exactly while it resolves, with one frame per token, and
  owns the gates of the frames it creates for, and no others.
- `RolesOK`: a disposal and a shutdown have one owner, from the claim to the end.
- `InstancesOK`, `ClaimsOK`: an instance is tracked or disposed, not both; what is cached is the
  current registration's; who closes an instance has claimed it, and disposes of its token or shuts down.
- `RetiredOK`: a registration that was replaced has a retired gate without an owner, which
  nobody can claim again.
- `ShutdownOK`: a shutdown that closes, and a closed container, have no open gate left, so
  that nothing is created; what the shutdown has not claimed was closed before.

A step either resolves (`ResolvesOnly`: gates, stacks and at most one new instance) or cleans
up (gates and stacks stay), so that each part has two preservation lemmas.
`ClosedMeansDisposed` is the one that needs them all: a creation that is under way when its
provider is unregistered keeps the gate, which `unregister()` waits for.

Stated without a run: `CreatedOnce` and `CyclesAreReal`.  The cache is not read again after the
claim, so that one token and two threads that only resolve (`ResolveOnly`) create a singleton twice.  With a
third token that needs the other two and two threads that only resolve, TLC finds a cycle
reported where there is none: the edge of a waiter outlives the creation it waited for, and
the next creator takes it for a wait.

Bounds: two tokens of which one needs the other, two threads, one re-registration of the token the other needs: enough for a creation to meet
another creation, an unregister, a shutdown and a stale provider.  A closed container is
final, so deadlock is not checked there; `CallsReturn` takes its place.  It assumes that
threads inside a call run, that factories and `close()` return or raise, and that
creations do not fail for ever.

## 6. Callbacks of MAVLink: `CallbackWorker`

`mavlink/delivery.py`: callers submit events and actions, one thread runs the callbacks.

| model | code |
|---|---|
| `running`, `failure`, `busy`, `dropped` | fields of the same names |
| `actions`, `events` | `_actions`, `_queue`; an item is the life it was submitted in and its number |
| `thread` | which start created `_thread`; `pc[l]` is where the thread of the l-th start is |
| `pc[c]`, `joins[c]` | a caller inside `wait_idle()` or `stop()`, and the thread it joins |
| `accepted`, `begun`, `droppedBefore`, `reported` | history, for the properties only |

An action is one section under the condition.  `notify()` wakes any one thread that
sleeps on the condition, of whatever kind (the library wakes the oldest), `notify_all()` all.
A callback may return, raise, or call `stop()` (`StopFromCallback`, which does not join);
submitting and starting may be done by anyone, callbacks included.  The timeouts of
`wait_idle()` and of the join may come at any moment, and need not.  Left out: what
callbacks do, and `wait_idle()` inside a callback, which can only time out.

`worker_delivery` checks everything in one state space: two clients,
both capacities 2 and three items of each kind per life, so that events are dropped and
actions overflow; two lives, so that a restart meets the thread of the previous life.  One
life more, or one client more, adds no new kind of meeting: a thread can only overlap
with the next `start()`, which refuses.  `FairSpec`: the thread of each life runs (callbacks and
`on_failure` return), and a caller that was woken, or whose thread has ended, goes on.

**Proofs (`CallbackWorker_proofs`).**  For all capacities, clients and bounds.  The
invariant joins `TypeOK`, where each thread may be (`PlacesOK`), that `busy` means a
callback (`BusyOK`), that queues are empty when nobody accepts (`Emptied`), that a waiter
waits for something (`WaitersWait`), that a thread which ended with a
failure has reported it (`FailureKnown`), and the properties `NoLostWakeup` and `QueuesInOrder`.
The latter joins two: actions are executed in the order in which they were submitted and none is
lost while the worker lives, and of the events the newest are kept, in order, and the rest are counted.
`NoLostWakeup` is the interesting one: the single `notify()` of `submit()` is enough only
because a caller of `wait_idle()` never sleeps beside the sleeping thread, and
`WaitersWait` is what shows it.  `IdleMeansDelivered` is proved and has no run.  Liveness
(`CallsReturn`) is only model-checked.

## 7. One event bus: `EventBus`

`events/event_bus.py` with `Subscription` and the bounded history: any number of
subscribers, publications, timers and threads that clear or close the bus.  Events are
numbered in the order in which the bus recorded them; the number also stands for the call of
`publish()`, so that publications of several threads, of callbacks and of timers go on side by
side.  An action is one section under the lock of the bus, of a subscriber or of a subscription.

| model | code |
|---|---|
| `closed`, `published`, `schedules` | `_closed`, the number of recorded events, `_schedules` |
| `registered` | keys of `_subscribers` |
| `active` | the subscriptions, of subscribers and timers, whose `_active` is set |
| `replaying`, `remaining`, `limited`, `buffer` | `replaying`, `remaining` (and that it is not `None`), `pending` of `_Subscriber` |
| `place`, `past`, `batch` | where the caller of `subscribe()` or `wait_for()` is; what it has yet to replay of the history, and of what it took from `pending` |
| `toMatch`, `matched`, `calls` | per publication: `subscribers` still to look at, `matched` still to deliver to, callbacks under way |
| `received` | `received` of `wait_for()` |
| `timer`, `emits` | where `publish_every()` and then its thread is, the event it publishes |
| `pc`, `toStop`, `toJoin` | a caller of `clear()` or `close()`, the subscriptions it has yet to deactivate, the threads to join |
| `seen`, `boundary`, `before` | history, for the properties only: events in the order claimed, the last event before the subscription, the publications that had returned when an event was recorded |

`claim()` and the `_consume()` after the last delivery are one action, as are the two
sections of `cancel()`: between them only the own entry of the registry is left over.  A
publication looks at the subscribers in any order; without an executor it calls one after the
other, with an executor it claims all first.  A callback may raise: during replay that may end the
subscription.  A filter may raise too: for an event that is published it counts as no match
(`Matches` holds the events for which it returns true), and for an event of the history, which
`subscribe()` matches outside the lock, it fails the call (`SubscribeRaises`, any filter).  Left out: the hooks (`on_before`, `on_after`, `on_error`, `on_timeout`), the
counters of `stats`, a publication that waits for another made in its own callback, `close()` from a
timer's callback, custom histories.

`bus_delivery` checks, in one state space, that events keep the order of publications that did not
overlap (`InOrder`), that a registered subscriber misses nothing unless its `subscribe()` raised
(`NothingMissed`), that a closed bus falls
silent (`ClosedIsSilent`) and that all calls return (`CallsReturn`).  Bounds: one
subscriber, which may also wait; a limit of two deliveries; a replay of two from a history of
one, so that the history drops an event; a buffer of one, so that it overflows; two events, published
from outside or by the one timer; one thread that clears and closes.  Subscribers do not read each
other's state, so a second one multiplies states only; two events fill and overflow both the history
and the buffer, and more are covered by the proofs.  Each subscriber subscribes once and a closed bus is final, so deadlock is
not checked; `CallsReturn` takes its place.  `FairSpec`: callbacks return or raise, threads run,
intervals pass; the timeouts of `wait_for()` and `close()` may come at any moment, and need not.

Stated without a run, for they do not hold: `FailureLeavesNothing` and `SchedulesWithinLimit`.
When the filter raises in `subscribe()` (lines 200 to 202), the subscriber has been registered and set to
replay, and nothing takes that back.  Its events are buffered and never delivered; its caller has no
subscription to cancel, and it is there until the buffer overflows or the bus is cleared or closed.
It is the exception that `NothingMissed` names.  `publish_every()` compares the number of schedules
with the limit in one section and inserts its own in another; with two timers and a limit
of one TLC finds both inserted.

**Proofs (`EventBus_proofs`).**  For any subscribers, filters, limits, history and buffer
sizes, with and without an executor.  The properties speak of what was had; the invariant extends
them to what waits.  `LineOK`: what a subscriber has had, then what is left of its history,
of its batch and of its buffer, is one line without repetition in which nothing stands
behind an event that was published after it had returned; what publications still owe it
is not in that line.  `BeforeOK` (a complete publication stays complete) lets an owed
event join the end of the line.  `NumbersOK` separates history from the rest by the
boundary, `NoneLost` is `NothingMissed` with what is buffered for a subscriber whose `subscribe()`
raised, `EntryOK` shows that a subscriber that is replaying is owed nothing directly, and
`RegistryOK` that whoever is active is registered or about to be deactivated.  Each action
has its lemma; the sequences are handled by lemmas on `Append`, `Tail` and `Range`.  From the
invariant follow `InOrder`, `NothingMissed`, `ClosedIsSilent`, and `AtomicBoundary`, which has no run:
the section of `subscribe()` is one boundary, with the history before it and no event twice.
`CallsReturn` is only model-checked.

## 8. Chains, groups and background missions: `MissionOrchestration`

`mission/chain.py`, `parallel.py` and `background.py` are executors without threads: whoever finishes a
mission calls `after_terminal`, which stops, starts and waits for other missions, whose ends call
`after_terminal` again, in the same thread or another.  `todo[t]` is that call stack of thread
`t`: a list of sections, each under the engine's condition, with marks where an exception is caught.
Executing a section replaces it by the sections it calls, and `Settled` unwinds to the next mark.
A mission is what `MissionContract` promises; its worker is the thread of the same name.

| model | code |
|---|---|
| `phase`, `intent`, `guarded` | `snapshot.phase`, `pending_terminal`, `activation_guard` |
| `chain` | the run of the chain: state, `current_index`, `failed` |
| `group[i]` | the run of the i-th stage: outcome, phases of its missions, reason of failure, halted |
| `chainRuns`, `groupRuns`, `linked` | `_mission_runs` of both executors, `_chain_runs` |
| `bg` | `MissionBackgroundSnapshot` |
| `stopping` | the engine's stop latch |
| `left` | bound: the commands not issued yet |
| `refused`, `relaunched` | history, for the properties: a stop was refused or gave up waiting, a mission was launched after it had ended |

`orchestration_chain`: a chain of one mission and then a group of two, two combinations of failure policies, and one
command of another thread (stop or cancel of the chain or of the group, stop of the engine, a look at the
group, the start of a background mission whose owner is the chain, the group or one mission) at any
point; one of the missions may have to wait in the queue.  That is the
smallest chain in which a stage follows a stage, a group has a sibling, and an owner
ends inside another.  A second interfering command multiplies states only: what it could meet, the reporting of the
children, is there already.  `StageAfterStage`: when the chain is at a stage, no mission of an earlier one runs.  `ChainEnds`:
a chain ends, but for the orders named below.
`BackgroundEndsWithOwner`.  None of them is proved: `Settled` is a recursive operator, and the prover takes no
module that declares one.

What the properties except is what the code does not keep:

* `RunsInOrder`, `NoChainHangs`: `start()` of a group launches its missions one by one, and looks only
  at the group before each (parallel.py:89); if the first has already failed, its report ends the others,
  possibly between that look and their launch (parallel.py:92).  A sibling that was cancelled and is then launched may
  outlive the group, and its stage of the chain: `StageAfterStage` excepts the behaviours with such a
  launch (`relaunched`).  Or the launch comes before the group reads that the sibling had ended
  (parallel.py:239): the group takes it for running, but has forgotten it (parallel.py:299), so that
  nobody tells the group, nor the group the chain, when it ends at last.  `ReportedTooLate` describes
  this state, and `ChainEnds` excepts no other of the behaviours with a late launch.  TLC finds both with
  `RunsInOrder` and `NoChainHangs` as invariants; the run explores all behaviours, late launches included.
* `GroupStopped`: `stop()` of a group that is a stage of a chain takes the chain's link away before its last
  mission has reported (parallel.py:395), and nobody goes on with the chain.
* `refused`: the stop of a background mission that is refused leaves `_advance` by an exception before the
  chain is told (parallel.py:335).
* A chain that is stopped between the registration of a stage and its attachment leaves a mission behind (chain.py:324), and
  `_terminate` decides the outcome on a snapshot taken before it stopped the missions (chain.py:398).

Left out: the bounded memory of executions that have ended, failures of cleanup and retries, queue timeouts, groups
outside a chain, KEEP_RUNNING (it does nothing), a stopped engine that starts again.

## 9. The MAVLink runtime: `MavlinkRouter`, `VehicleRegistry`, `MavlinkRuntime`

`MavlinkRouter` is the connection and its only reader, `VehicleRegistry` the registry of vehicles with its
monitor, for one vehicle.  `MavlinkRuntime` composes them with the life of the runtime: `start()`, `stop()`,
reconnection and `close()`, called by clients and by callbacks on the threads of the reader, the monitor and an
application handler.  Again `todo[t]` is the call stack of a thread (`CallStacks`).

| model | code |
|---|---|
| `link`, `cancel` | the raw connection, `_connect_cancel` |
| `startLock`, `thread`, `stopEvent`, `reading` | the router's lock, `_thread`, `_stop_event`, `_running` |
| `inbox`, `sequence`, `history`, `latest`, `sources` | what may still be received, `_sequence`, `_history`, and the bounded dictionaries, least recently used first |
| `known`, `connected`, `lastSeen`, `observed`, `selected` | endpoints, their `_connected`, the times of the last heartbeat and message, the vehicle's `component_id` |
| `open`, `stopWatch`, `subscribed` | the registry's running flag, its monitor's event, its subscription |
| `running`, `cleanup`, `closed`, `closing`, `closer`, `closeError`, `owner` | fields of `MavlinkRuntime`, and who holds `_lifecycle_lock` |
| `started`, `dispatching` | what `start()` has started, the dispatcher's executor |
| `clock` | `time.monotonic()`, up to `Horizon` |

`runtime_lifecycle` runs seven scenarios (`MCPlans`): a wait for telemetry with a `stop()` from the monitor,
prune against remove, a stop from the reader against a reconnection, a lost link against a reconnection, a
stop from a handler, two closes, and a close from the reader against another.  The clock makes its second
tick, with which a vehicle may expire, only when no `close()` runs and no command is left to be called that
no timeout concerns (`ClockWaits`).  Each has at most three
calls, because a call meets at most the owner of the lock and one who waits for it.  Any part may fail to
start or to stop.  Two autopilots are enough for the selection to change; a history of one, two latest messages and
one source make every eviction happen.  `NewMessagesWake`: nobody sleeps in `wait_for` beside a
stored message that was numbered after his last look, nor after the router has stopped.  That is less than one may expect, see
`WaitMissesNothing` below.  `SelectedIsLive`: with a live autopilot, commands go to a live one.  `StoppedIsReleased`: a start that failed or a stop that did not
leaves nothing behind unless the runtime still asks for a cleanup, and a closed runtime keeps neither
threads nor a connection.

`runtime_handler` fails: `_lifecycle_operation` lets only the threads of the router, the monitor and the worker pass without waiting
(runtime.py:285), and its comment says "Never wait from a thread that a lifecycle operation may be
joining."  A handler on the dispatcher's executor that calls `stop()` while a client is in `stop()` waits for the
client, which waits for the handler without a timeout (dispatch.py:200).

Stated without a run, each false:

* `WaitMissesNothing`: the reader numbers a message in one section (router.py:392) and stores it in another, after the ingress
  filters.  A look in between notes the number without the message (router.py:354); once it is stored and
  notified, the woken caller looks only beyond that number, or, still awake, finds the number not exceeded and sleeps (router.py:369).
  So a match is passed over and the caller may time out beside it.  A message evicted before the look is missed too.
* `VehicleIsLive`: a message that waited behind a callback takes the vehicle's time back (vehicles.py:513-559), so that the vehicle is lost although a component is live.
* `MonitorWatches`: `prune()` removes what was silent when it was listed; a heartbeat in between makes `remove()` raise, and the monitor's thread ends (vehicles.py:577-602).

Seen while modelling, outside the modelled state: the actions of two heartbeats may be delivered in the other order (vehicles.py:524, 556); a
connection that fails to close does not publish `connection_changed(False)` (connection.py:332); `close()`
from an `on_start` or `on_stop` callback waits for its own caller (runtime.py:393-411).

**Proofs (`MavlinkRuntime_proofs`).**  For any threads, kinds of messages, endpoints, capacities and calls.
`CommandsReachLiveAutopilot` proves `SelectedIsLive`, with the invariant that what is connected is known and
finite (`RegistryInv`).  `NewMessagesWakeSleepers` proves `NewMessagesWake`.  Its invariant `WakeInv` speaks of whole call stacks, because a
frame may be at the top only many steps after it was pushed, and an exception may bring it there: every frame on
a stack is one that fits the last number given to a message (`Sound`, `Fits`), and a thread that sleeps does so on top of its
stack, with nobody asleep below, while the router runs and nothing is stored with a number above the one it noted at its last look (`Sleeps`).
The stacks are handled by lemmas about `CallStacks`: what is reached after a call, and what is left after an
exception, consists of frames that were there or were told of the exception (`ReachedType`, `UnwoundType`), so
that a step has only to show that the frames it pushes are sound (`DoesKeeps`), and that whoever stores, stops or
restarts wakes all who sleep.  TLC has checked `WakeInv` and `RegistryInv` on the instance of `runtime_lifecycle`.

`StoppedLeavesNothing` proves `StoppedIsReleased`.  What `start()`, `stop()`, its rollback and `close()` have still to do is on
a stack only, between callbacks that may call anything, and an exception may cut it off anywhere.  So the invariant `ReleaseInv`
describes whole stacks, read as words without an end (`Word`, `W`) whose place 1 is the next frame:

* a grammar of stacks (`Sane`): which frame may follow which (`Chain`), what may lie above a frame of the lifecycle (`Gate`),
  what its argument says (`Agrees`); whatever belongs to the lifecycle is above the end of its lock (`Placed`), a thread is
  in one `close()` at most (`Once`), and nothing lies under the reader's loop (`Bottom`);
* what holds while certain frames are on a stack (`StartStage`, `StopStage`): for instance, a start that has not
  reached the services has nothing running, and a report that was not told of an exception finds the connection, the registry and
  the dispatcher released, unless the frame that releases it is still on the stack;
* frames of the lifecycle are on the stack of the lock's owner only, and one thread closes at a time;
* while nothing runs, no cleanup is due and nothing is being started (`Stopped`), everything is released; the same
  once a `close()` has only to mark the runtime closed (`Due`), and when it is marked.

The proof has a lemma for every action or group of like actions.  Steps of other threads change only what is above the lifecycle's frames
(`Carries`, `LooseStep`); steps of the owner exchange a few frames at the top of the word (`LifecycleStep`), and the grammar says what
is then below (`StartingWord`, `LateWord`, `EndingWord`, `Upto`).  An exception goes to the first handler: `RaiseShape` lists the
places of the lifecycle at which it can arrive, and the stage of the stack says what is still
running there.  The proof needs that the clients, the reader, the monitor and the handler are different threads
(`RuntimeAssumption`).  TLC has checked `ReleaseInv`, with words of 24 places, on the instance of `runtime_lifecycle`.

Left out: the client's own start and stop apart from a lost link, the callback worker and the peer (modules of their
own), histories (section 11), the asynchronous runtime, error buses, statistics, the message cache; which messages a filter lets
through is open.

## 10. Requests between two nodes: `MavlinkExchange`

`ApplicationChannel` is the link, which loses, repeats, reorders and damages fragments, and the assembler of each
node; `ApplicationPeer` sends, waits for answers, pings, and starts and stops; `ApplicationDispatcher` admits requests to a
bounded executor on one node.  `MavlinkExchange` composes two nodes.

| model | code |
|---|---|
| `air`, `mishaps` | fragments under way; bound: what the link and time may still do |
| `parts`, `bytes`, `completed`, `listening` | assemblies, `_inflight_bytes`, `_completed`, the channel's subscription |
| `up`, `transport`, `alive`, `ready` | `_running` and the state of a peer, whether the transport is available |
| `pending`, `event`, `response`, `failed` | `_pending` and the fields of its entries |
| `halted` | the monitor's event |
| `serving`, `executing`, `generation`, `shut`, `queue`, `capacity`, `job` | the handlers' and the dispatcher's running flag, `_generation`, the executors, `_capacity`, the generation a worker works for |
| `forgotten`, `result`, `runs`, `pings`, `answers` | history and bounds |

`exchange_requests` runs nine scenarios (`MCPlans`): two callers at once, one of them with a type
nobody handles, one caller with three mishaps, and one caller against a stop and start of its own peer, of the
server, of the dispatcher from its own handler, against the monitor's round with one mishap and against a loss of the transport with two; and
such a round against a stop and start of its peer.  One mishap is what a
fault needs to show, three are what it takes to forget a request and repeat it.  Requests have two fragments, so that an
assembly can stay incomplete; each node has one assembly, two fragments and one remembered packet; the
dispatcher has one place and one worker.  More workers would only add handlers that do not wait for each other.
A peer is started and stopped by one thread at a time, under the runtime's lifecycle lock.  `start()` refuses while the last
monitor is alive (peer.py:143-146); in the model `stop()` ends only with the monitor, and `Watch`, which begins the next one,
waits for it to be gone, which the run never has to.  The timeout of that join is left out.

`HandledOnce`: a request is handled once for every time the assembler could remember it.  `NobodyIsLeftWaiting`: who
waits for an answer is pending with a peer that runs and takes the transport to be available, or is about to be woken with an
error, by `stop()` or by whoever has seen that the transport is lost.  `AckMeansHandled`: a caller is told that its request was handled only
if it was.  `LimitsAreExact`: bytes, assemblies and places are counted exactly.  `StoppedIsSilent`: no worker answers
for a dispatcher whose `stop()` has returned.

Known and outside these properties: `send()` sets `transport_available` again after a `stop()` (peer.py:262).  An answer that the
queue is full is not guarded by the generation (dispatch.py:243).

**Proofs (`MavlinkExchange_proofs`).**  For any nodes, threads, callers, limits and plans; assumed are a node for
every thread, callers that are threads, receivers that belong to their node and are no workers, and monitors that are
neither and make nothing but rounds (who is told of a change on the monitor's thread is taken not to call back).  Again the invariants speak of whole call stacks.

`OnlyHandledIsAcknowledged` proves `AckMeansHandled`.  An acknowledgement is honest if a handler has run for its
request; `AckInv`: those on any stack, in the air and in what callers have got are honest.  Handlers run
more and more often, so that an honest one stays honest (`SoundKept`), whatever the link repeats or delays.

`LimitsAreCounted` proves `LimitsAreExact`.  For the assemblers, `BytesInv` adds to the property that the sets are finite, and that what
is given up is taken off once (`CountedLess`, `CountedMore`).  For the dispatcher, a place is with whoever is about to submit a job, with a job in an
executor's queue, or with a worker that is not idle.  That it stays with the worker until it is given back once is a property of the
worker's stack (`Shape`): its last frame, and no other, is the one that gives the place back, and every frame above that may
raise has a `swallow` below it (`OnWorker`), so that no exception and no call of a handler skips or repeats that frame
(`ShapePush`, `ShapeUnwound`).  A place is asked for only on top of a receiver's stack.
The rest is counting: a job that is queued, taken or cancelled adds or removes what it says (`WaitingMore`, `WaitingLess`,
`WaitingNone`).  `capacity`, a semaphore in the code, never gets below zero or above `MaxPending`.

`RequestsAreHandledOnce` proves `HandledOnce`.  A request on its way is in one place: with the one thread that brings it
(`Bringers`; only the frame at the top of a stack can, `AtTopOnly`), or with a job in a queue (`JobsIn`).  `OnceInv`: the runs
of its handler, who brings it and the jobs that wait with it are together no more than the times it has left the
assembler (`Delivered`), which are those it has forgotten and the one it may remember.  The assembler hands a packet on only
when it begins to remember it (`AcceptOnce`, with the sequences of `BytesInv`), and every later step passes it on or
drops it: publishing, `admit`, `submit`, cancelling, `work`, `handle`.  Two facts come from the other invariants: a
request that the dispatcher is given is the one its caller has sent (`Honest` in `AckInv`), and a job goes into the queue of a
generation that exists (`Allowed` in `PlacesInv`).  TLC has checked these invariants, and the next two, on the instance of
`exchange_requests`.

`WaitersAreAnswerable` proves `NobodyIsLeftWaiting`.  `WaitInv` is about `stop()`: whoever has a wait on its stack, and not only at
the top, is pending with a peer that runs, or some thread's next frame is the `halt` that wakes it (`Halts`).  It needs two facts
about stacks.  While a request is on a stack, only sending is above it (`Over`, `Ordered`), so that it is not called twice on one
thread, and nothing that stops a peer or replaces the stack can be above it.  The monitor, whose stack `start()` replaces, makes only
rounds (`Rounds`): it neither waits nor is about to wake anybody.  The steps that could leave somebody behind are
then `stop()`, whose `halt` is at the top of its stack with exactly those it has taken out (`PeerStopWaits`, `BecomesHead`), and an exception, which
leaves the end of the request on the stack (`UnwoundFrames`; that no stack here has another handler comes from `PlacesInv`).
`LossInv` is about the loss of the transport, which leaves its callers pending: whose next frame is the wait has a node that takes the
transport to be available, or some thread's next frame is the `fail` that wakes it (`Fails`).  A caller that registers
after the loss has been seen is failed by nobody, but it sends before it waits, which makes the transport available again; so the
invariant has to say from where a wait is reached.  Directly above one is only what sends the packet (`Near`, `Tight`): `sent`, which sets `transport_available`, is what
comes back to it, and an exception leaves it (`TightUnwound`).  The loss puts a `fail` for all who are pending at the top (`SetTransportLoss`),
which only its own execution takes away: the monitor's stack is replaced when it is empty.

`StoppedAnswersNothing` proves `StoppedIsSilent` when no handler stops the dispatcher that runs it (`StopsOutside`: no plan has
"down" or "dispatcher_stop" as a call of a worker).  Without this hypothesis it does not hold for several workers: `stop()` from a handler does
not wait for the other handlers (dispatch.py:200), one of which may be sending its answer.  The one plan of the run where a handler stops the
dispatcher, with one worker, stays with TLC.  The invariant `SilentInv` speaks of each executor: it is kept while it is the one of the
dispatcher or its `shutdown` is next on some stack (`Kept`).  A job is brought only to one that is kept or has been shut down,
which refuses it; jobs wait only in one that is kept; and workers are at work only for one that is kept or that
somebody waits for (`Drains`).  So `shutdown`, which empties the queue, leaves nobody but those who are at work, and the `drain` that follows
ends only when there are none.  Which frames are on top of a stack comes from `OnceInv`, `PlacesInv` and `WaitInv`.  TLC has checked `SilentInv` on
the instance of `exchange_requests` without that one plan.

Left out: the round-trip bookkeeping of pings, sources other than the two nodes, the content of packets, identifiers that collide, joins that
time out, a channel that fails to start, asynchronous handlers, a handler that raises once it has run (its caller then gets an error for
a request that was handled, of which no property speaks).  Timeouts come at any time.

## 11. Message histories: `MessageHistory`

A history attached to a running router: the router's thread records each envelope, a writer thread stores
batches, clients flush, query, clear, close, attach and detach.  It may be in memory, in memory
behind a writer, or a database.

| model | code |
|---|---|
| `stored`, `closed` | `_records` or the rows, `_closed` of the history |
| `queue`, `batch`, `accepted`, `processed`, `failure`, `stopping`, `writer` | `_queue`, the batch taken, `_submitted` (its length), `_processed`, `failure`, `_closed`, and the thread of `HistoryWriter` |
| `recorder`, `recording`, `attachments`, `attached` | `record()` of `add_history()` on the router's thread, what each call of `add_history()` made, `_histories` |
| `pc`, `call`, `boundary` | a client inside an operation, what `_submitted` was when its flush began |
| `written`, `cleared` | history, for the properties: records stored since the last `clear()`, records it deleted |

Faults: a batch that cannot be encoded or written, a full queue, a join or flush that times out, and the end of the
process at any moment, after which the database is opened again with what was committed.

`history_promises`: two clients (interchangeable), a queue and a limit of one, two envelopes, two attachments and one
reopening: the queue overflows with the second envelope, the limit trims, and an
attachment follows a failed one.  Envelopes, attachments and processes run out, so deadlock is not checked.  `SettledWhenPromised`: a flush that passed
leaves nothing behind that was appended before it began, and a closed history has no writer that
still holds records.  `OldestFirst`: the history holds the newest records, each once, in the order in
which they were received, over a restart too.  `FailureEndsAttachment`: a failed `append()` is reported once and ends the
attachment, also when it comes before `add_history()` has returned or while the owner cancels it.

docs/en/mavlink.md:363 says that after a failure "Storage [...] may still be inspected"; `query()` raises, because it
flushes and flush reports the failure (history.py:157, recording.py:127).

**Proofs (`MessageHistory_proofs`).**  For any clients, capacities and limits.  `HInv`: what `append()` took is, in this
order, worked through, in the writer's hands, or queued (`InLine`); where the writer's thread is tells what it may hold
(`WriterHolds`); what was worked through is stored or was cleared, unless the failure says otherwise
(`ProcessedIsSettled`); a history is closed only after its writer has ended (`ClosedAfterWriter`).  The lemma
`SettledKept` carries a prefix of settled records over every step, because records are only added at the end and
stored ones only become cleared ones.  `PromisesKept` is `SettledWhenPromised`; `LossReported` says
that what is missing is reported.

`HistoryInOrder` proves `OldestFirst`.  What was accepted and what was written grow, and whatever is still to be
stored is newer than all that is (`InOrder`); together with "the history is what `Trim()` leaves of what was written"
(`KeepsNewest`) the order survives retention, failed batches and the end of the process.  `FailureDetaches` proves
`FailureEndsAttachment` by an invariant about who may change the attachment: only the last attachment can be
subscribed (`OneSubscription`), one client at a time attaches or detaches it (`ChangesLast`), the router's thread detaches it
only after it has ended it (`DetachesLast`), and its place says whether the failure has been reported (`ReportsOnce`).

Left out: which rows a query selects, encoding and statistics, appends by other threads than the
router's, the second flush of a query of the database, WAL.

## 12. Not modelled, not proved

`AsyncEventBus`, the event engine with its channels, the asynchronous runtime, and the scoped, transient and asynchronous
parts of the container: they have the structure of the synchronous parts that are modelled, on one event loop
or over several containers, and would need modules of their own.  `mission/models`, `mission/execution`,
`events/callbacks`, `dependency/resolution`, the value objects of MAVLink and the developer tools keep no shared
state.  `pymavlink`, the operating system's sockets and the file system are outside.

Nothing is proved about liveness, which is beyond the prover and checked by TLC on the instances above, nor
about `MissionOrchestration`, whose recursive operator the prover does not take.  The safety properties of the other modules
that a run expects to pass are all proved, `StoppedIsSilent` for the plans that section 10 names.
