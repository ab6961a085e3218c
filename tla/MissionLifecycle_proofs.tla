----------------------- MODULE MissionLifecycle_proofs -----------------------
(***************************************************************************)
(* Theorems about MissionLifecycle, for any number of threads, launches    *)
(* and decisions.                                                          *)
(***************************************************************************)
EXTENDS MissionLifecycle, TLAPS

\* The initial state is well typed.
LEMMA InitType == Init => TypeOK
<1> SUFFICES ASSUME Init PROVE TypeOK
  OBVIOUS
<1>1. phase \in Phases /\ view \in {"fresh", "live", "paused"}
  BY DEF Init, Phases
<1>2. pc \in [Threads -> Labels]
  <2>1. "unborn" \in Labels /\ "idle" \in Labels
    BY DEF Labels, CallerLabels, WorkerLabels
  <2> QED
    BY <2>1 DEF Init
<1>3. 0 \in 0..MaxGeneration
  BY LifecycleAssumption
<1>4. held \in [Threads -> Intent \cup {NoIntent}] /\ pending \in Intent \cup {NoIntent}
  BY DEF Init
<1> QED
  BY <1>1, <1>2, <1>3, <1>4 DEF Init, TypeOK

\* An intent built from the mission's own state is well typed.
LEMMA NewIntentType ==
  ASSUME TypeOK, NEW outcome \in Outcomes, NEW retryable \in BOOLEAN
  PROVE  NewIntent(outcome, retryable) \in Intent
  BY LifecycleAssumption DEF TypeOK, NewIntent, Intent

\* So are the variables a decision changes.
LEMMA DecideType ==
  ASSUME TypeOK, NEW outcome \in Outcomes, NEW retryable \in BOOLEAN,
         Decide(outcome, retryable)
  PROVE  /\ pending' \in Intent \cup {NoIntent}
         /\ decisions' \in Nat
         /\ stopEvent' \in BOOLEAN
  BY NewIntentType DEF TypeOK, Decide

\* The section of fail() keeps the types, whichever way it goes.
LEMMA FailSectionType ==
  ASSUME TypeOK, NEW retryable \in BOOLEAN, FailSection(retryable)
  PROVE  /\ phase' \in Phases /\ generation' = generation
         /\ pending' \in Intent \cup {NoIntent} /\ decisions' \in Nat
         /\ stopEvent' \in BOOLEAN
<1> FAILED \in Outcomes /\ STOPPING \in Phases
  BY DEF Outcomes, Terminal, Phases, Active
<1>1. phase' \in Phases /\ generation' = generation
  BY DEF FailSection, Move, TypeOK, state
<1>2. CASE Decide(FAILED, retryable)
  BY <1>1, <1>2, DecideType
<1>3. CASE stopEvent' = TRUE /\ UNCHANGED intents
  BY <1>1, <1>3 DEF TypeOK, intents
<1> QED
  BY <1>2, <1>3 DEF FailSection

\* Pausing and resuming keep the types.
LEMMA TypeLifecycleCallback ==
  ASSUME TypeOK, NEW t \in Callers, LifecycleCallback(t)
  PROVE  TypeOK'
<1> USE LifecycleAssumption
    DEF TypeOK, Goto, Labels, CallerLabels, WorkerLabels, FinalizeLabels,
        state, intents, flags, locks, locals
<1>0. t \in Threads
  BY DEF Threads
<1>1. CASE EnterLifecycleCallback(t)
  BY <1>0, <1>1 DEF EnterLifecycleCallback
<1>2. CASE LifecycleCallbackReturns(t)
  BY <1>0, <1>2 DEF LifecycleCallbackReturns
<1>3. CASE LifecycleCallbackRaises(t)
  BY <1>0, <1>3 DEF LifecycleCallbackRaises
<1>4. CASE LifecycleCallbackExits(t)
  BY <1>0, <1>4 DEF LifecycleCallbackExits
<1>5. CASE CommitPauseResume(t)
  BY <1>0, <1>5 DEF CommitPauseResume, Move, Phases, Active
<1> QED
  BY <1>1, <1>2, <1>3, <1>4, <1>5 DEF LifecycleCallback

\* Launching keeps the types.
LEMMA TypeLaunch ==
  ASSUME TypeOK, NEW t \in Callers, Launch(t)
  PROVE  TypeOK'
<1> USE LifecycleAssumption
    DEF TypeOK, Goto, Labels, CallerLabels, WorkerLabels, FinalizeLabels,
        state, intents, flags, locks, locals
<1>0. t \in Threads
  BY DEF Threads
<1>1. CASE RunAdmit(t)
  BY <1>0, <1>1 DEF RunAdmit, Enqueue, Move, Phases
<1>2. CASE RunStart(t)
  <2>1. phase' \in Phases /\ generation' \in 0..MaxGeneration
    BY <1>2 DEF RunStart, Phases, Active
  <2>2. target' \in [Threads -> 0..MaxGeneration]
    BY <1>2, <2>1 DEF RunStart
  <2>3. pc' \in [Threads -> Labels] /\ stopEvent' \in BOOLEAN /\ cleaned' \in BOOLEAN
    BY <1>2 DEF RunStart
  <2> QED
    BY <1>2, <2>1, <2>2, <2>3 DEF RunStart
<1>3. CASE RunBlocked(t)
  BY <1>0, <1>3 DEF RunBlocked, Enqueue, Move, Phases
<1>4. CASE RunStale(t)
  BY <1>0, <1>4 DEF RunStale
<1>5. CASE RunSpawn(t)
  BY <1>0, <1>5 DEF RunSpawn
<1> QED
  BY <1>1, <1>2, <1>3, <1>4, <1>5 DEF Launch

\* The worker keeps the types.
LEMMA TypeWork ==
  ASSUME TypeOK, NEW w \in Workers, Work(w)
  PROVE  TypeOK'
<1> USE LifecycleAssumption
    DEF TypeOK, Goto, Labels, CallerLabels, WorkerLabels, FinalizeLabels,
        state, intents, flags, locks, locals
<1>0. w \in Threads
  BY DEF Threads
<1>1. CASE WorkerBegin(w)
  <2>1. phase' \in Phases /\ generation' = generation
    BY <1>1 DEF WorkerBegin, Move, Phases, Active
  <2>2. /\ pending' \in Intent \cup {NoIntent}
        /\ decisions' \in Nat
        /\ stopEvent' \in BOOLEAN
    BY <1>1, DecideType DEF WorkerBegin, Outcomes, Terminal
  <2>3. callbackLock' \in Threads \cup {NoThread} /\ pc' \in [Threads -> Labels]
    BY <1>1, <1>0 DEF WorkerBegin
  <2> QED
    BY <1>1, <2>1, <2>2, <2>3 DEF WorkerBegin
<1>2. CASE WorkerRecheck(w)
  BY <1>0, <1>2 DEF WorkerRecheck
<1>3. CASE WorkerCallbackReturns(w)
  BY <1>0, <1>3 DEF WorkerCallbackReturns
<1>4. CASE WorkerCallbackRaises(w)
  BY <1>0, <1>4 DEF WorkerCallbackRaises
<1>5. CASE WorkerCallbackExits(w)
  BY <1>0, <1>5 DEF WorkerCallbackExits
<1>6. CASE WorkerExcept(w)
  <2>1. /\ phase' \in Phases /\ generation' = generation
        /\ pending' \in Intent \cup {NoIntent}
        /\ decisions' \in Nat
        /\ stopEvent' \in BOOLEAN
    BY <1>6, FailSectionType DEF WorkerExcept
  <2> QED
    BY <1>6, <1>0, <2>1 DEF WorkerExcept
<1>7. CASE WorkerLoop(w)
  BY <1>0, <1>7 DEF WorkerLoop
<1>8. CASE WorkerTick(w)
  BY <1>0, <1>8 DEF WorkerTick
<1>9. CASE WorkerFinal(w)
  BY <1>0, <1>9 DEF WorkerFinal
<1>10. CASE WorkerEnd(w)
  BY <1>0, <1>10 DEF WorkerEnd
<1> QED
  BY <1>1, <1>2, <1>3, <1>4, <1>5, <1>6, <1>7, <1>8, <1>9, <1>10 DEF Work

\* Finalizing keeps the types.
LEMMA TypeFinalize ==
  ASSUME TypeOK, NEW t \in Threads, Finalize(t)
  PROVE  TypeOK'
<1> USE LifecycleAssumption
    DEF TypeOK, Goto, Labels, CallerLabels, WorkerLabels, FinalizeLabels,
        state, intents, flags, locks, locals
<1>1. CASE Join(t)
  BY <1>1 DEF Join
<1>2. CASE Joined(t)
  BY <1>2 DEF Joined
<1>3. CASE JoinTimesOut(t)
  BY <1>3 DEF JoinTimesOut, ForgetLocals, OtherRaised
<1>4. CASE EnterTerminal(t)
  <2>1. pc' \in [Threads -> Labels]
    BY <1>4 DEF EnterTerminal, Returned, OtherRaised, CleanupRaised
  <2>2. /\ held' \in [Threads -> Intent \cup {NoIntent}]
        /\ target' \in [Threads -> 0..MaxGeneration]
        /\ forced' \in [Threads -> BOOLEAN]
    <3>1. CASE ForgetLocals(t)
      BY <3>1 DEF ForgetLocals
    <3>2. CASE UNCHANGED locals
      BY <3>2
    <3> QED
      BY <1>4, <3>1, <3>2 DEF EnterTerminal
  <2>3. terminalLock' \in Threads \cup {NoThread}
    BY <1>4 DEF EnterTerminal
  <2> QED
    BY <1>4, <2>1, <2>2, <2>3 DEF EnterTerminal
<1>5. CASE Clean(t)
  BY <1>5 DEF Clean
<1>6. CASE EnterCleanup(t)
  BY <1>6 DEF EnterCleanup
<1>7. CASE CleanupSucceeds(t)
  BY <1>7 DEF CleanupSucceeds
<1>8. CASE CleanupFails(t)
  BY <1>8 DEF CleanupFails, ForgetLocals, CleanupRaised
<1>9. CASE Commit(t)
  <2>1. pc' \in [Threads -> Labels]
    BY <1>9 DEF Commit, Returned, OtherRaised
  <2>2. /\ held' \in [Threads -> Intent \cup {NoIntent}]
        /\ target' \in [Threads -> 0..MaxGeneration]
        /\ forced' \in [Threads -> BOOLEAN]
    BY <1>9 DEF Commit, ForgetLocals
  <2>3. phase' \in Phases /\ pending' \in Intent \cup {NoIntent}
    BY <1>9 DEF Commit, CommitOutcome, MayFollow, Successors, Phases, Terminal,
        Active
  <2> QED
    BY <1>9, <2>1, <2>2, <2>3 DEF Commit
<1> QED
  BY <1>1, <1>2, <1>3, <1>4, <1>5, <1>6, <1>7, <1>8, <1>9 DEF Finalize

\* Requests keep the types.
LEMMA TypeRequest ==
  ASSUME TypeOK, NEW t \in Callers, Request(t)
  PROVE  TypeOK'
<1> USE LifecycleAssumption
    DEF TypeOK, Goto, Labels, CallerLabels, WorkerLabels, FinalizeLabels,
        state, intents, flags, locks, locals
<1>0. t \in Threads
  BY DEF Threads
<1>1. CASE PauseRequest(t)
  BY <1>0, <1>1 DEF PauseRequest, Move, Phases, Active
<1>2. CASE ResumeRequest(t)
  BY <1>0, <1>2 DEF ResumeRequest
<1>3. CASE CompleteRequest(t)
  <2>1. phase' \in Phases /\ generation' = generation
    BY <1>3 DEF CompleteRequest, Move, Phases, Active, Terminal
  <2>2. /\ pending' \in Intent \cup {NoIntent}
        /\ decisions' \in Nat
        /\ stopEvent' \in BOOLEAN
    BY <1>3, DecideType DEF CompleteRequest, Outcomes, Terminal
  <2>3. held' \in [Threads -> Intent \cup {NoIntent}]
    BY <1>3, <1>0, <2>2 DEF CompleteRequest
  <2>4. pc' \in [Threads -> Labels]
    BY <1>3 DEF CompleteRequest
  <2> QED
    BY <1>3, <2>1, <2>2, <2>3, <2>4 DEF CompleteRequest
<1>4. CASE FinishRequest(t, STOPPED)
  <2>1. phase' \in Phases /\ generation' = generation
    BY <1>4 DEF FinishRequest, Move, Phases, Active, Terminal
  <2>2. /\ pending' \in Intent \cup {NoIntent}
        /\ decisions' \in Nat
        /\ stopEvent' \in BOOLEAN
    BY <1>4, DecideType DEF FinishRequest, Outcomes, Terminal
  <2>3. \/ held' = held
        \/ held' = [held EXCEPT ![t] = pending']
        \/ held' = [held EXCEPT ![t] = pending]
    BY <1>4 DEF FinishRequest
  <2>4. held' \in [Threads -> Intent \cup {NoIntent}]
    BY <1>0, <2>2, <2>3
  <2>5. \E label \in {"idle", "join"} : pc' = [pc EXCEPT ![t] = label]
    BY <1>4 DEF FinishRequest
  <2>6. pc' \in [Threads -> Labels]
    BY <1>0, <2>5
  <2> QED
    BY <1>4, <2>1, <2>2, <2>4, <2>6 DEF FinishRequest
<1>5. CASE FinishRequest(t, CANCELLED)
  <2>1. phase' \in Phases /\ generation' = generation
    BY <1>5 DEF FinishRequest, Move, Phases, Active, Terminal
  <2>2. /\ pending' \in Intent \cup {NoIntent}
        /\ decisions' \in Nat
        /\ stopEvent' \in BOOLEAN
    BY <1>5, DecideType DEF FinishRequest, Outcomes, Terminal
  <2>3. \/ held' = held
        \/ held' = [held EXCEPT ![t] = pending']
        \/ held' = [held EXCEPT ![t] = pending]
    BY <1>5 DEF FinishRequest
  <2>4. held' \in [Threads -> Intent \cup {NoIntent}]
    BY <1>0, <2>2, <2>3
  <2>5. \E label \in {"idle", "join"} : pc' = [pc EXCEPT ![t] = label]
    BY <1>5 DEF FinishRequest
  <2>6. pc' \in [Threads -> Labels]
    BY <1>0, <2>5
  <2> QED
    BY <1>5, <2>1, <2>2, <2>4, <2>6 DEF FinishRequest
<1>6. CASE FailRequest(t)
  <2>1. /\ phase' \in Phases /\ generation' = generation
        /\ pending' \in Intent \cup {NoIntent}
        /\ decisions' \in Nat
        /\ stopEvent' \in BOOLEAN
    BY <1>6, FailSectionType DEF FailRequest
  <2> QED
    BY <1>6, <1>0, <2>1 DEF FailRequest
<1>7. CASE FailAfterRefused(t)
  BY <1>0, <1>7 DEF FailAfterRefused
<1>8. CASE RetryCleanup(t)
  <2>1. held' \in [Threads -> Intent \cup {NoIntent}]
    BY <1>8 DEF RetryCleanup
  <2>2. forced' \in [Threads -> BOOLEAN]
    BY <1>8 DEF RetryCleanup
  <2>3. pc' \in [Threads -> Labels]
    BY <1>8 DEF RetryCleanup
  <2> QED
    BY <1>8, <2>1, <2>2, <2>3 DEF RetryCleanup
<1> QED
  BY <1>1, <1>2, <1>3, <1>4, <1>5, <1>6, <1>7, <1>8 DEF Request

\* Every step keeps the types.
LEMMA TypeStep == TypeOK /\ [Next]_vars => TypeOK'
<1> SUFFICES ASSUME TypeOK, [Next]_vars PROVE TypeOK'
  OBVIOUS
<1>1. ASSUME NEW t \in Callers, Request(t) PROVE TypeOK'
  BY <1>1, TypeRequest
<1>2. ASSUME NEW t \in Callers, LifecycleCallback(t) PROVE TypeOK'
  BY <1>2, TypeLifecycleCallback
<1>3. ASSUME NEW t \in Callers, Launch(t) PROVE TypeOK'
  BY <1>3, TypeLaunch
<1>4. CASE PromoteQueued
  BY <1>4 DEF PromoteQueued, TypeOK, Goto, Labels, CallerLabels, state, intents,
              flags, locks, locals
<1>5. CASE QueueTimesOut
  BY <1>5 DEF QueueTimesOut, Move, TypeOK, Goto, Labels, CallerLabels, Phases,
              Terminal, intents, flags, locks, locals
<1>6. CASE NoticeTimeout
  BY <1>6 DEF NoticeTimeout, TypeOK, Goto, Labels, CallerLabels, state, intents,
              flags, locks, locals
<1>7. ASSUME NEW w \in Workers, Work(w) PROVE TypeOK'
  BY <1>7, TypeWork
<1>8. ASSUME NEW t \in Threads, Finalize(t) PROVE TypeOK'
  BY <1>8, TypeFinalize
<1>9. ASSUME NEW t \in Threads, NEW outcome \in Outcomes, CallbackDecides(t, outcome)
      PROVE  TypeOK'
  <2>1. /\ pending' \in Intent \cup {NoIntent}
        /\ decisions' \in Nat
        /\ stopEvent' \in BOOLEAN
    BY <1>9, DecideType DEF CallbackDecides
  <2>2. phase' \in Phases /\ generation' = generation
    BY <1>9 DEF CallbackDecides, Move, Phases, Active
  <2> QED
    BY <1>9, <2>1, <2>2 DEF CallbackDecides, TypeOK, locks, locals
<1>10. CASE UNCHANGED vars
  BY <1>10 DEF vars, TypeOK, state, intents, flags, locks, locals
<1> QED
  BY <1>1, <1>2, <1>3, <1>4, <1>5, <1>6, <1>7, <1>8, <1>9, <1>10 DEF Next

\* Every variable keeps its type.
THEOREM TypeCorrect == Spec => []TypeOK
<1>1. Init => TypeOK
  BY InitType
<1>2. TypeOK /\ [Next]_vars => TypeOK'
  BY TypeStep
<1> QED
  BY <1>1, <1>2, PTL DEF Spec
------------------------------------------------------------------------------
\* The inductive invariant.

\* A lock without an owner is owned by no thread.
LEMMA NoThreadIsNone == NoThread \notin Threads
  BY LifecycleAssumption DEF Threads, Workers

\* Callers and workers are different threads.
LEMMA CallersAreNoWorkers == Callers \cap Workers = {}
  BY LifecycleAssumption DEF Workers

\* An intent is told from NoIntent by its phase as well as by its id.
LEMMA IntentFacts ==
  /\ \A i \in Intent : i # NoIntent /\ i.phase \in Terminal
  /\ NoIntent.phase \notin Terminal
  BY DEF Intent, NoIntent, Outcomes, Terminal, STOPPED, SUCCEEDED, FAILED,
      CANCELLED,
         REGISTERED

\* What a decision leaves behind.
LEMMA DecideFacts ==
  ASSUME TypeOK, NEW outcome \in Outcomes, NEW retryable \in BOOLEAN,
         Decide(outcome, retryable)
  PROVE  /\ pending = NoIntent
         /\ pending' # NoIntent
         /\ pending'.phase = outcome
         /\ stopEvent'
<1>1. NewIntent(outcome, retryable) # NoIntent
  BY NewIntentType, IntentFacts
<1>2. NewIntent(outcome, retryable).phase = outcome
  BY DEF NewIntent
<1> QED
  BY <1>1, <1>2 DEF Decide

\* Nothing is decided, locked or running at first.
LEMMA InitOrder == Init => OutcomeOrder
  BY DEF Init, OutcomeOrder, LocksHeld, FinalizesPending, IntentBinds,
         CallbacksBeforeCleanup, HoldsCallback, HoldsTerminal, FinalizeLabels,
         UserCode, Interruptible, Active, Terminal, NoIntent, REGISTERED,
         STARTING, RUNNING,
         PAUSING, PAUSED, STOPPING, STOPPED, SUCCEEDED, FAILED, CANCELLED

\* Pausing and resuming keep the order.
LEMMA OrderLifecycleCallback ==
  ASSUME TypeOK, OutcomeOrder, NEW t \in Callers, LifecycleCallback(t)
  PROVE  OutcomeOrder'
<1> USE NoThreadIsNone, CallersAreNoWorkers, IntentFacts
    DEF TypeOK, OutcomeOrder, LocksHeld, FinalizesPending, IntentBinds,
        CallbacksBeforeCleanup, HoldsCallback,
        HoldsTerminal, FinalizeLabels, UserCode, Interruptible, Active,
        Terminal, Goto, state, intents, flags,
        locks, locals, REGISTERED, QUEUED, STARTING, RUNNING, PAUSING, PAUSED,
        STOPPING, STOPPED, SUCCEEDED,
        FAILED, CANCELLED
<1>0. t \in Threads
  BY DEF Threads
<1>1. CASE EnterLifecycleCallback(t)
  BY <1>0, <1>1 DEF EnterLifecycleCallback, ExpectedPhase
<1>2. CASE LifecycleCallbackReturns(t)
  BY <1>0, <1>2 DEF LifecycleCallbackReturns
<1>3. CASE LifecycleCallbackRaises(t)
  BY <1>0, <1>3 DEF LifecycleCallbackRaises
<1>4. CASE LifecycleCallbackExits(t)
  BY <1>0, <1>4 DEF LifecycleCallbackExits
<1>5. CASE CommitPauseResume(t)
  BY <1>0, <1>5 DEF CommitPauseResume, Move, MayFollow, Successors
<1> QED
  BY <1>1, <1>2, <1>3, <1>4, <1>5 DEF LifecycleCallback

\* Launching keeps the order: only a mission without an intent is launched.
LEMMA OrderLaunch ==
  ASSUME TypeOK, OutcomeOrder, NEW t \in Callers, Launch(t)
  PROVE  OutcomeOrder'
<1> USE NoThreadIsNone, CallersAreNoWorkers, IntentFacts
    DEF TypeOK, OutcomeOrder, LocksHeld, FinalizesPending, IntentBinds,
        CallbacksBeforeCleanup, HoldsCallback,
        HoldsTerminal, FinalizeLabels, UserCode, Interruptible, Active,
        Terminal, Goto, state, intents, flags,
        locks, locals, REGISTERED, QUEUED, STARTING, RUNNING, PAUSING, PAUSED,
        STOPPING, STOPPED, SUCCEEDED,
        FAILED, CANCELLED
<1>0. t \in Threads
  BY DEF Threads
<1>1. CASE RunAdmit(t)
  BY <1>0, <1>1 DEF RunAdmit, Enqueue, Move, MayFollow, Successors
<1>2. CASE RunStart(t)
  BY <1>0, <1>2 DEF RunStart, MayFollow, Successors
<1>3. CASE RunBlocked(t)
  BY <1>0, <1>3 DEF RunBlocked, Enqueue, Move, MayFollow, Successors
<1>4. CASE RunStale(t)
  BY <1>0, <1>4 DEF RunStale
<1>5. CASE RunSpawn(t)
  BY <1>0, <1>5 DEF RunSpawn
<1> QED
  BY <1>1, <1>2, <1>3, <1>4, <1>5 DEF Launch

\* The worker keeps the order.
LEMMA OrderWork ==
  ASSUME TypeOK, OutcomeOrder, NEW w \in Workers, Work(w)
  PROVE  OutcomeOrder'
<1> USE NoThreadIsNone, CallersAreNoWorkers, IntentFacts
    DEF TypeOK, OutcomeOrder, LocksHeld, FinalizesPending, IntentBinds,
        CallbacksBeforeCleanup, HoldsCallback,
        HoldsTerminal, FinalizeLabels, UserCode, Interruptible, Active,
        Terminal, Goto, state, intents, flags,
        locks, locals, REGISTERED, QUEUED, STARTING, RUNNING, PAUSING, PAUSED,
        STOPPING, STOPPED, SUCCEEDED,
        FAILED, CANCELLED
<1>0. w \in Threads
  BY DEF Threads
<1>1. CASE WorkerBegin(w)
  <2>0. /\ pc[w] = "w_begin"
        /\ UNCHANGED <<cleaned, cleanupError, held, terminalLock, generation>>
    BY <1>1 DEF WorkerBegin, Move
  <2>1. CASE /\ generation = w /\ phase = STARTING
             /\ Move(RUNNING)
             /\ callbackLock' = w
             /\ Goto(w, "w_recheck")
             /\ UNCHANGED <<intents, stopEvent>>
    <3>1. phase' = RUNNING /\ pc' = [pc EXCEPT ![w] = "w_recheck"]
      BY <2>1 DEF Move
    <3>0. \A t \in Threads : pc[t] \notin HoldsCallback
      BY <1>1, NoThreadIsNone DEF WorkerBegin, LocksHeld
    <3>2. LocksHeld'
      <4>1. \A t \in Threads \ {w} : pc'[t] = pc[t]
        BY <3>1
      <4>2. pc'[w] = "w_recheck"
        BY <1>0, <3>1
      <4> QED
        BY <2>0, <2>1, <3>0, <4>1, <4>2
    <3>3. FinalizesPending'
      BY <1>0, <2>0, <2>1, <3>1
    <3>4. IntentBinds'
      BY <2>1, <3>1
    <3>5. CallbacksBeforeCleanup'
      BY <1>0, <2>0, <2>1, <3>1
    <3> QED
      BY <3>2, <3>3, <3>4, <3>5
  <2>2. CASE /\ generation = w /\ phase = STARTING
             /\ Move(STOPPING)
             /\ Decide(CANCELLED, FALSE)
             /\ Goto(w, "final")
             /\ UNCHANGED callbackLock
    <3>1. /\ pending = NoIntent /\ pending' # NoIntent
          /\ pending'.phase = CANCELLED /\ stopEvent'
      BY <2>2, DecideFacts DEF Outcomes
    <3>2. LocksHeld' /\ FinalizesPending'
      BY <1>0, <2>0, <2>2, <3>1
    <3>3. IntentBinds' /\ CallbacksBeforeCleanup'
      BY <1>0, <2>0, <2>2, <3>1 DEF Move
    <3> QED
      BY <3>2, <3>3
  <2>3. CASE /\ Goto(w, "final")
             /\ UNCHANGED <<state, intents, stopEvent, callbackLock>>
    BY <1>0, <2>0, <2>3
  <2> QED
    BY <1>1, <2>1, <2>2, <2>3 DEF WorkerBegin
<1>2. CASE WorkerRecheck(w)
  BY <1>0, <1>2 DEF WorkerRecheck
<1>3. CASE WorkerCallbackReturns(w)
  BY <1>0, <1>3 DEF WorkerCallbackReturns
<1>4. CASE WorkerCallbackRaises(w)
  BY <1>0, <1>4 DEF WorkerCallbackRaises
<1>5. CASE WorkerCallbackExits(w)
  BY <1>0, <1>5 DEF WorkerCallbackExits
<1>6. CASE WorkerExcept(w)
  <2>1. pc' = [pc EXCEPT ![w] = "final"] /\ pc[w] = "w_except"
        /\ UNCHANGED <<cleaned, cleanupError, locks, held, generation>>
    BY <1>6 DEF WorkerExcept, FailSection, Move
  <2>2. LocksHeld'
    BY <1>0, <2>1
  <2>3. CASE UNCHANGED <<phase, intents, stopEvent>>
    BY <1>0, <2>1, <2>2, <2>3
  <2>4. CASE /\ pending = NoIntent
             /\ phase \in Interruptible \cup {REGISTERED, QUEUED}
             /\ phase' = IF phase \in Interruptible THEN STOPPING ELSE phase
             /\ Decide(FAILED, TRUE)
    <3>1. pending' # NoIntent /\ pending'.phase = FAILED /\ stopEvent'
      BY <2>4, DecideFacts DEF Outcomes
    <3>2. FinalizesPending'
      BY <1>0, <2>1, <2>4, <3>1
    <3>3. IntentBinds'
      BY <2>4, <3>1
    <3>4. CallbacksBeforeCleanup'
      BY <1>0, <2>1, <2>4
    <3> QED
      BY <2>2, <3>2, <3>3, <3>4
  <2>5. pending = NoIntent \/ UNCHANGED <<phase, intents, stopEvent>>
    BY <1>6 DEF WorkerExcept
  <2>6. pending = NoIntent => pending.phase # FAILED
    BY DEF NoIntent
  <2> QED
    BY <1>6, <2>3, <2>4, <2>5, <2>6 DEF WorkerExcept, FailSection, Move
<1>7. CASE WorkerLoop(w)
  BY <1>0, <1>7 DEF WorkerLoop
<1>8. CASE WorkerTick(w)
  BY <1>0, <1>8 DEF WorkerTick
<1>9. CASE WorkerFinal(w)
  BY <1>0, <1>9 DEF WorkerFinal
<1>10. CASE WorkerEnd(w)
  BY <1>0, <1>10 DEF WorkerEnd
<1> QED
  BY <1>1, <1>2, <1>3, <1>4, <1>5, <1>6, <1>7, <1>8, <1>9, <1>10 DEF Work

\* Finalizing follows the order.
LEMMA OrderFinalize ==
  ASSUME TypeOK, OutcomeOrder, NEW t \in Threads, Finalize(t)
  PROVE  OutcomeOrder'
<1> USE NoThreadIsNone, CallersAreNoWorkers, IntentFacts
    DEF TypeOK, OutcomeOrder, LocksHeld, FinalizesPending, IntentBinds,
        CallbacksBeforeCleanup, HoldsCallback,
        HoldsTerminal, FinalizeLabels, UserCode, Interruptible, Active,
        Terminal, Goto, state, intents, flags,
        locks, locals, REGISTERED, QUEUED, STARTING, RUNNING, PAUSING, PAUSED,
        STOPPING, STOPPED, SUCCEEDED,
        FAILED, CANCELLED
<1>1. CASE Join(t)
  BY <1>1 DEF Join
<1>2. CASE Joined(t)
  BY <1>2 DEF Joined
<1>3. CASE JoinTimesOut(t)
  BY <1>3 DEF JoinTimesOut, ForgetLocals, OtherRaised
<1>4. CASE EnterTerminal(t)
  BY <1>4 DEF EnterTerminal, ForgetLocals, Returned, OtherRaised, CleanupRaised
<1>5. CASE Clean(t)
  BY <1>5 DEF Clean
<1>6. CASE EnterCleanup(t)
  BY <1>6 DEF EnterCleanup
<1>7. CASE CleanupSucceeds(t)
  BY <1>7 DEF CleanupSucceeds
<1>8. CASE CleanupFails(t)
  BY <1>8 DEF CleanupFails, ForgetLocals, CleanupRaised
<1>9. CASE Commit(t)
  BY <1>9 DEF Commit, ForgetLocals, Returned, OtherRaised, CommitOutcome
<1> QED
  BY <1>1, <1>2, <1>3, <1>4, <1>5, <1>6, <1>7, <1>8, <1>9 DEF Finalize

\* A caller that decides an outcome and goes on to finalize it keeps the order.
LEMMA OrderDecides ==
  ASSUME TypeOK, OutcomeOrder, NEW t \in Callers, NEW outcome \in Outcomes,
         pc[t] \in {"idle", "raised"},
         phase \in Interruptible, phase' = STOPPING, generation' = generation,
         Decide(outcome, FALSE),
         held' = [held EXCEPT ![t] = pending'], Goto(t, "join"),
         UNCHANGED <<cleaned, cleanupError, locks>>
  PROVE  OutcomeOrder'
<1> USE NoThreadIsNone, CallersAreNoWorkers, IntentFacts
    DEF TypeOK, OutcomeOrder, LocksHeld, FinalizesPending, IntentBinds,
        CallbacksBeforeCleanup, HoldsCallback,
        HoldsTerminal, FinalizeLabels, UserCode, Interruptible, Active,
        Terminal, Goto, state, intents, flags,
        locks, locals, REGISTERED, QUEUED, STARTING, RUNNING, PAUSING, PAUSED,
        STOPPING, STOPPED, SUCCEEDED,
        FAILED, CANCELLED
<1>0. t \in Threads
  BY DEF Threads
<1>1. pending = NoIntent /\ pending' # NoIntent /\ pending'.phase = outcome
      /\ stopEvent'
  BY DecideFacts
<1>2. LocksHeld'
  BY <1>0
<1>3. FinalizesPending'
  BY <1>0, <1>1
<1>4. IntentBinds'
  BY <1>1
<1>5. CallbacksBeforeCleanup'
  BY <1>0
<1> QED
  BY <1>2, <1>3, <1>4, <1>5

\* So does one that takes up the intent another command has decided.
LEMMA OrderTakesUp ==
  ASSUME TypeOK, OutcomeOrder, NEW t \in Callers,
         pc[t] \in {"idle", "raised"}, pending # NoIntent,
         held' = [held EXCEPT ![t] = pending],
         Goto(t, "join") \/ Goto(t, "retry"),
         stopEvent',
         UNCHANGED <<state, intents, cleaned, cleanupError, locks>>
  PROVE  OutcomeOrder'
<1> USE NoThreadIsNone, CallersAreNoWorkers, IntentFacts
    DEF TypeOK, OutcomeOrder, LocksHeld, FinalizesPending, IntentBinds,
        CallbacksBeforeCleanup, HoldsCallback,
        HoldsTerminal, FinalizeLabels, UserCode, Interruptible, Active,
        Terminal, Goto, state, intents, flags,
        locks, locals, REGISTERED, QUEUED, STARTING, RUNNING, PAUSING, PAUSED,
        STOPPING, STOPPED, SUCCEEDED,
        FAILED, CANCELLED
<1>0. t \in Threads
  BY DEF Threads
<1>1. LocksHeld'
  BY <1>0
<1>2. FinalizesPending'
  BY <1>0
<1>3. IntentBinds'
  OBVIOUS
<1>4. CallbacksBeforeCleanup'
  BY <1>0
<1> QED
  BY <1>1, <1>2, <1>3, <1>4

\* And so does a command on a mission that was never launched.
LEMMA OrderIdle ==
  ASSUME TypeOK, OutcomeOrder, NEW t \in Callers,
         pc[t] \in {"idle", "raised"}, phase \in {REGISTERED, QUEUED},
         phase' \in Terminal, generation' = generation,
         pending = NoIntent, stopEvent',
         Goto(t, "idle"),
         UNCHANGED <<intents, held, cleaned, cleanupError, locks>>
  PROVE  OutcomeOrder'
<1> USE NoThreadIsNone, CallersAreNoWorkers, IntentFacts
    DEF TypeOK, OutcomeOrder, LocksHeld, FinalizesPending, IntentBinds,
        CallbacksBeforeCleanup, HoldsCallback,
        HoldsTerminal, FinalizeLabels, UserCode, Interruptible, Active,
        Terminal, Goto, state, intents, flags,
        locks, locals, REGISTERED, QUEUED, STARTING, RUNNING, PAUSING, PAUSED,
        STOPPING, STOPPED, SUCCEEDED,
        FAILED, CANCELLED
<1>0. t \in Threads
  BY DEF Threads
<1>1. LocksHeld'
  BY <1>0
<1>2. FinalizesPending'
  BY <1>0
<1>3. IntentBinds'
  OBVIOUS
<1>4. CallbacksBeforeCleanup'
  BY <1>0
<1> QED
  BY <1>1, <1>2, <1>3, <1>4

\* stop_mission() and cancel() keep the order.
LEMMA OrderFinish ==
  ASSUME TypeOK, OutcomeOrder, NEW t \in Callers,
         NEW outcome \in {STOPPED, CANCELLED}, FinishRequest(t, outcome)
  PROVE  OutcomeOrder'
<1>0. /\ pc[t] \in {"idle", "raised"}
      /\ outcome \in Outcomes /\ outcome \in Terminal
      /\ UNCHANGED <<cleaned, cleanupError, locks>>
  BY DEF FinishRequest, Issues, Outcomes, Terminal
<1>1. CASE /\ phase \in {REGISTERED, QUEUED}
           /\ pending = NoIntent
           /\ Move(outcome)
           /\ stopEvent' = TRUE
           /\ Goto(t, "idle")
           /\ UNCHANGED <<intents, held>>
  BY <1>0, <1>1, OrderIdle DEF Move
<1>2. CASE /\ phase \in Interruptible
           /\ Move(STOPPING)
           /\ Decide(outcome, FALSE)
           /\ held' = [held EXCEPT ![t] = pending']
           /\ Goto(t, "join")
  BY <1>0, <1>2, OrderDecides DEF Move
<1>3. CASE /\ pending # NoIntent
           /\ stopEvent' = TRUE
           /\ held' = [held EXCEPT ![t] = pending]
           /\ Goto(t, "join")
           /\ UNCHANGED <<state, intents>>
  BY <1>0, <1>3, OrderTakesUp
<1> QED
  BY <1>1, <1>2, <1>3 DEF FinishRequest

\* complete() keeps the order.
LEMMA OrderComplete ==
  ASSUME TypeOK, OutcomeOrder, NEW t \in Callers, CompleteRequest(t)
  PROVE  OutcomeOrder'
<1>0. /\ pc[t] \in {"idle", "raised"}
      /\ SUCCEEDED \in Outcomes
      /\ UNCHANGED <<cleaned, cleanupError, locks>>
  BY DEF CompleteRequest, Issues, Outcomes, Terminal
<1>1. CASE /\ phase = RUNNING
           /\ Move(STOPPING)
           /\ Decide(SUCCEEDED, FALSE)
           /\ held' = [held EXCEPT ![t] = pending']
           /\ Goto(t, "join")
  <2>1. phase \in Interruptible
    BY <1>1 DEF Interruptible, Active, RUNNING, STOPPING
  <2> QED
    BY <1>0, <1>1, <2>1, OrderDecides DEF Move
<1>2. CASE /\ phase = STOPPING
           /\ pending.phase = SUCCEEDED
           /\ stopEvent' = TRUE
           /\ held' = [held EXCEPT ![t] = pending]
           /\ Goto(t, IF cleanupError THEN "retry" ELSE "join")
           /\ UNCHANGED <<state, intents>>
  <2>1. pending # NoIntent
    BY <1>2 DEF OutcomeOrder, IntentBinds
  <2> QED
    BY <1>0, <1>2, <2>1, OrderTakesUp
<1> QED
  BY <1>1, <1>2 DEF CompleteRequest

\* Requests keep the order.
LEMMA OrderRequest ==
  ASSUME TypeOK, OutcomeOrder, NEW t \in Callers, Request(t)
  PROVE  OutcomeOrder'
<1> USE NoThreadIsNone, CallersAreNoWorkers, IntentFacts
    DEF TypeOK, OutcomeOrder, LocksHeld, FinalizesPending, IntentBinds,
        CallbacksBeforeCleanup, HoldsCallback,
        HoldsTerminal, FinalizeLabels, UserCode, Interruptible, Active,
        Terminal, Goto, state, intents, flags,
        locks, locals, REGISTERED, QUEUED, STARTING, RUNNING, PAUSING, PAUSED,
        STOPPING, STOPPED, SUCCEEDED,
        FAILED, CANCELLED
<1>0. t \in Threads
  BY DEF Threads
<1>1. CASE PauseRequest(t)
  BY <1>0, <1>1 DEF PauseRequest, Issues, Move, MayFollow, Successors
<1>2. CASE ResumeRequest(t)
  BY <1>0, <1>2 DEF ResumeRequest, Issues
<1>3. CASE CompleteRequest(t)
  BY <1>3, OrderComplete
<1>4. CASE FinishRequest(t, STOPPED)
  BY <1>4, OrderFinish
<1>5. CASE FinishRequest(t, CANCELLED)
  BY <1>5, OrderFinish
<1>6. CASE FailRequest(t)
  BY <1>0, <1>6, DecideFacts DEF FailRequest, FailSection, Issues, Outcomes,
      Move, MayFollow, Successors
<1>7. CASE FailAfterRefused(t)
  BY <1>0, <1>7 DEF FailAfterRefused
<1>8. CASE RetryCleanup(t)
  BY <1>0, <1>8 DEF RetryCleanup, Issues
<1> QED
  BY <1>1, <1>2, <1>3, <1>4, <1>5, <1>6, <1>7, <1>8 DEF Request

\* The scheduler keeps the order.
LEMMA OrderScheduler ==
  ASSUME TypeOK, OutcomeOrder,
         PromoteQueued \/ QueueTimesOut \/ NoticeTimeout
  PROVE  OutcomeOrder'
<1> USE NoThreadIsNone, CallersAreNoWorkers, IntentFacts
    DEF TypeOK, OutcomeOrder, LocksHeld, FinalizesPending, IntentBinds,
        CallbacksBeforeCleanup, HoldsCallback,
        HoldsTerminal, FinalizeLabels, UserCode, Interruptible, Active,
        Terminal, Goto, state, intents, flags,
        locks, locals, REGISTERED, QUEUED, STARTING, RUNNING, PAUSING, PAUSED,
        STOPPING, STOPPED, SUCCEEDED,
        FAILED, CANCELLED
<1>0. Scheduler \in Threads
  BY DEF Threads, Callers
<1>1. CASE PromoteQueued
  BY <1>0, <1>1 DEF PromoteQueued, SchedulerReady
<1>2. CASE QueueTimesOut
  BY <1>0, <1>2 DEF QueueTimesOut, SchedulerReady, Move
<1>3. CASE NoticeTimeout
  BY <1>0, <1>3 DEF NoticeTimeout, SchedulerReady
<1> QED
  BY <1>1, <1>2, <1>3

\* A callback that decides an outcome keeps the order.
LEMMA OrderCallbackDecides ==
  ASSUME TypeOK, OutcomeOrder, NEW t \in Threads, NEW outcome \in Outcomes,
         CallbackDecides(t, outcome)
  PROVE  OutcomeOrder'
<1> USE NoThreadIsNone, CallersAreNoWorkers, IntentFacts
    DEF TypeOK, OutcomeOrder, LocksHeld, FinalizesPending, IntentBinds,
        CallbacksBeforeCleanup, HoldsCallback,
        HoldsTerminal, FinalizeLabels, UserCode, Interruptible, Active,
        Terminal, Goto, state, intents, flags,
        locks, locals, REGISTERED, QUEUED, STARTING, RUNNING, PAUSING, PAUSED,
        STOPPING, STOPPED, SUCCEEDED,
        FAILED, CANCELLED
<1> QED
  BY DecideFacts DEF CallbackDecides, Move

\* Every step keeps the order.
LEMMA OrderStep ==
  TypeOK /\ OutcomeOrder /\ [Next]_vars => OutcomeOrder'
<1> SUFFICES ASSUME TypeOK, OutcomeOrder, [Next]_vars
             PROVE  OutcomeOrder'
  OBVIOUS
<1>1. ASSUME NEW t \in Callers, Request(t) PROVE OutcomeOrder'
  BY <1>1, OrderRequest
<1>2. ASSUME NEW t \in Callers, LifecycleCallback(t) PROVE OutcomeOrder'
  BY <1>2, OrderLifecycleCallback
<1>3. ASSUME NEW t \in Callers, Launch(t) PROVE OutcomeOrder'
  BY <1>3, OrderLaunch
<1>4. ASSUME NEW w \in Workers, Work(w) PROVE OutcomeOrder'
  BY <1>4, OrderWork
<1>5. ASSUME NEW t \in Threads, Finalize(t) PROVE OutcomeOrder'
  BY <1>5, OrderFinalize
<1>6. ASSUME PromoteQueued \/ QueueTimesOut \/ NoticeTimeout
      PROVE  OutcomeOrder'
  BY <1>6, OrderScheduler
<1>7. ASSUME NEW t \in Threads, NEW outcome \in Outcomes, CallbackDecides(t, outcome)
      PROVE  OutcomeOrder'
  BY <1>7, OrderCallbackDecides
<1>8. CASE UNCHANGED vars
  BY <1>8 DEF vars, state, intents, flags, locks, locals, OutcomeOrder,
      LocksHeld,
              FinalizesPending, IntentBinds, CallbacksBeforeCleanup
<1> QED
  BY <1>1, <1>2, <1>3, <1>4, <1>5, <1>6, <1>7, <1>8 DEF Next

------------------------------------------------------------------------------
\* One launch at a time.

\* The workers are threads.
LEMMA WorkersAreThreads == Workers \subseteq Threads
  BY DEF Threads

\* No launch is under way at first.
LEMMA InitLaunches == Init => LaunchesOnce
  BY WorkersAreThreads DEF Init, LaunchesOnce, HoldsRun

\* A step that moves one thread outside of a launch disturbs no launch.
LEMMA LaunchesUndisturbed ==
  ASSUME TypeOK, LaunchesOnce, NEW t \in Threads,
         pc[t] # "unborn", pc'[t] \notin HoldsRun,
         \A u \in Threads \ {t} : pc'[u] = pc[u],
         UNCHANGED <<generation, runLock, target>>
  PROVE  LaunchesOnce'
  BY WorkersAreThreads DEF TypeOK, LaunchesOnce, HoldsRun

\* Pausing and resuming disturb no launch.
LEMMA LaunchesLifecycleCallback ==
  ASSUME TypeOK, LaunchesOnce, NEW t \in Callers, LifecycleCallback(t)
  PROVE  LaunchesOnce'
<1> USE LifecycleAssumption, NoThreadIsNone, CallersAreNoWorkers, WorkersAreThreads
    DEF TypeOK, LaunchesOnce, HoldsRun, Goto, state, locks, locals
<1>0. t \in Threads
  BY DEF Threads
<1>1. CASE EnterLifecycleCallback(t)
  BY <1>0, <1>1 DEF EnterLifecycleCallback
<1>2. CASE LifecycleCallbackReturns(t)
  BY <1>0, <1>2 DEF LifecycleCallbackReturns
<1>3. CASE LifecycleCallbackRaises(t)
  BY <1>0, <1>3 DEF LifecycleCallbackRaises
<1>4. CASE LifecycleCallbackExits(t)
  BY <1>0, <1>4 DEF LifecycleCallbackExits
<1>5. CASE CommitPauseResume(t)
  BY <1>0, <1>5 DEF CommitPauseResume, Move
<1> QED
  BY <1>1, <1>2, <1>3, <1>4, <1>5 DEF LifecycleCallback

\* A launch spawns a worker that has not run before.
LEMMA LaunchesLaunch ==
  ASSUME TypeOK, LaunchesOnce, NEW t \in Callers, Launch(t)
  PROVE  LaunchesOnce'
<1> USE LifecycleAssumption, NoThreadIsNone, CallersAreNoWorkers, WorkersAreThreads
    DEF TypeOK, LaunchesOnce, HoldsRun, Goto, state, locks, locals
<1>0. t \in Threads
  BY DEF Threads
<1>1. CASE RunAdmit(t)
  BY <1>0, <1>1 DEF RunAdmit, Issues, Enqueue, Move
<1>2. CASE RunStart(t)
  BY <1>0, <1>2 DEF RunStart, Workers
<1>3. CASE RunBlocked(t)
  BY <1>0, <1>3 DEF RunBlocked, Enqueue, Move
<1>4. CASE RunStale(t)
  BY <1>0, <1>4 DEF RunStale
<1>5. CASE RunSpawn(t)
  BY <1>0, <1>5 DEF RunSpawn
<1> QED
  BY <1>1, <1>2, <1>3, <1>4, <1>5 DEF Launch

\* A worker disturbs no launch.
LEMMA LaunchesWork ==
  ASSUME TypeOK, LaunchesOnce, NEW w \in Workers, Work(w)
  PROVE  LaunchesOnce'
<1> USE LifecycleAssumption, NoThreadIsNone, CallersAreNoWorkers, WorkersAreThreads
    DEF TypeOK, LaunchesOnce, HoldsRun, Goto, state, locks, locals
<1>0. w \in Threads
  BY DEF Threads
<1>1. CASE WorkerBegin(w)
  <2>1. UNCHANGED <<generation, runLock, target>>
    BY <1>1 DEF WorkerBegin, Move
  <2>2. /\ pc[w] # "unborn" /\ pc'[w] \notin HoldsRun
        /\ \A u \in Threads \ {w} : pc'[u] = pc[u]
    BY <1>1, <1>0 DEF WorkerBegin
  <2> QED
    BY <1>0, <2>1, <2>2, LaunchesUndisturbed
<1>2. CASE WorkerRecheck(w)
  BY <1>0, <1>2 DEF WorkerRecheck
<1>3. CASE WorkerCallbackReturns(w)
  BY <1>0, <1>3 DEF WorkerCallbackReturns
<1>4. CASE WorkerCallbackRaises(w)
  BY <1>0, <1>4 DEF WorkerCallbackRaises
<1>5. CASE WorkerCallbackExits(w)
  BY <1>0, <1>5 DEF WorkerCallbackExits
<1>6. CASE WorkerExcept(w)
  BY <1>0, <1>6 DEF WorkerExcept, FailSection, Move
<1>7. CASE WorkerLoop(w)
  BY <1>0, <1>7 DEF WorkerLoop
<1>8. CASE WorkerTick(w)
  BY <1>0, <1>8 DEF WorkerTick
<1>9. CASE WorkerFinal(w)
  BY <1>0, <1>9 DEF WorkerFinal
<1>10. CASE WorkerEnd(w)
  BY <1>0, <1>10 DEF WorkerEnd
<1> QED
  BY <1>1, <1>2, <1>3, <1>4, <1>5, <1>6, <1>7, <1>8, <1>9, <1>10 DEF Work

\* Finalizing disturbs no launch.
LEMMA LaunchesFinalize ==
  ASSUME TypeOK, LaunchesOnce, NEW t \in Threads, Finalize(t)
  PROVE  LaunchesOnce'
<1> USE LifecycleAssumption, NoThreadIsNone, CallersAreNoWorkers, WorkersAreThreads
    DEF TypeOK, LaunchesOnce, HoldsRun, Goto, state, locks, locals
<1>1. CASE Join(t)
  BY <1>1 DEF Join
<1>2. CASE Joined(t)
  BY <1>2 DEF Joined
<1>3. CASE JoinTimesOut(t)
  BY <1>3 DEF JoinTimesOut, ForgetLocals, OtherRaised
<1>4. CASE EnterTerminal(t)
  BY <1>4 DEF EnterTerminal, ForgetLocals, Returned, OtherRaised, CleanupRaised
<1>5. CASE Clean(t)
  BY <1>5 DEF Clean
<1>6. CASE EnterCleanup(t)
  BY <1>6 DEF EnterCleanup
<1>7. CASE CleanupSucceeds(t)
  BY <1>7 DEF CleanupSucceeds
<1>8. CASE CleanupFails(t)
  BY <1>8 DEF CleanupFails, ForgetLocals, CleanupRaised
<1>9. CASE Commit(t)
  BY <1>9 DEF Commit, ForgetLocals, Returned, OtherRaised
<1> QED
  BY <1>1, <1>2, <1>3, <1>4, <1>5, <1>6, <1>7, <1>8, <1>9 DEF Finalize

\* Requests disturb no launch.
LEMMA LaunchesRequest ==
  ASSUME TypeOK, LaunchesOnce, NEW t \in Callers, Request(t)
  PROVE  LaunchesOnce'
<1> USE LifecycleAssumption, NoThreadIsNone, CallersAreNoWorkers, WorkersAreThreads
    DEF TypeOK, LaunchesOnce, HoldsRun, Goto, state, locks, locals
<1>0. t \in Threads
  BY DEF Threads
<1>1. CASE PauseRequest(t)
  BY <1>0, <1>1 DEF PauseRequest, Issues, Move
<1>2. CASE ResumeRequest(t)
  BY <1>0, <1>2 DEF ResumeRequest, Issues
<1>3. CASE CompleteRequest(t)
  <2>1. UNCHANGED <<generation, runLock, target>>
    BY <1>3 DEF CompleteRequest, Move
  <2>2. /\ pc[t] # "unborn" /\ pc'[t] \notin HoldsRun
        /\ \A u \in Threads \ {t} : pc'[u] = pc[u]
    BY <1>3, <1>0 DEF CompleteRequest, Issues
  <2> QED
    BY <1>0, <2>1, <2>2, LaunchesUndisturbed
<1>4. CASE FinishRequest(t, STOPPED)
  <2>1. UNCHANGED <<generation, runLock, target>>
    BY <1>4 DEF FinishRequest, Move
  <2>2. /\ pc[t] # "unborn" /\ pc'[t] \notin HoldsRun
        /\ \A u \in Threads \ {t} : pc'[u] = pc[u]
    BY <1>4, <1>0 DEF FinishRequest, Issues
  <2> QED
    BY <1>0, <2>1, <2>2, LaunchesUndisturbed
<1>5. CASE FinishRequest(t, CANCELLED)
  <2>1. UNCHANGED <<generation, runLock, target>>
    BY <1>5 DEF FinishRequest, Move
  <2>2. /\ pc[t] # "unborn" /\ pc'[t] \notin HoldsRun
        /\ \A u \in Threads \ {t} : pc'[u] = pc[u]
    BY <1>5, <1>0 DEF FinishRequest, Issues
  <2> QED
    BY <1>0, <2>1, <2>2, LaunchesUndisturbed
<1>6. CASE FailRequest(t)
  BY <1>0, <1>6 DEF FailRequest, FailSection, Issues, Move
<1>7. CASE FailAfterRefused(t)
  BY <1>0, <1>7 DEF FailAfterRefused
<1>8. CASE RetryCleanup(t)
  BY <1>0, <1>8 DEF RetryCleanup, Issues
<1> QED
  BY <1>1, <1>2, <1>3, <1>4, <1>5, <1>6, <1>7, <1>8 DEF Request

\* The scheduler's own steps disturb no launch.
LEMMA LaunchesScheduler ==
  ASSUME TypeOK, LaunchesOnce,
         PromoteQueued \/ QueueTimesOut \/ NoticeTimeout
  PROVE  LaunchesOnce'
<1> USE LifecycleAssumption, NoThreadIsNone, CallersAreNoWorkers, WorkersAreThreads
    DEF TypeOK, LaunchesOnce, HoldsRun, Goto, state, locks, locals
<1>0. Scheduler \in Threads
  BY DEF Threads, Callers
<1>1. CASE PromoteQueued
  BY <1>0, <1>1 DEF PromoteQueued, SchedulerReady
<1>2. CASE QueueTimesOut
  BY <1>0, <1>2 DEF QueueTimesOut, SchedulerReady, Move
<1>3. CASE NoticeTimeout
  BY <1>0, <1>3 DEF NoticeTimeout, SchedulerReady
<1> QED
  BY <1>1, <1>2, <1>3

\* A callback that decides an outcome disturbs no launch.
LEMMA LaunchesCallbackDecides ==
  ASSUME TypeOK, LaunchesOnce, NEW t \in Threads, NEW outcome \in Outcomes,
         CallbackDecides(t, outcome)
  PROVE  LaunchesOnce'
<1> USE LifecycleAssumption, NoThreadIsNone, CallersAreNoWorkers, WorkersAreThreads
    DEF TypeOK, LaunchesOnce, HoldsRun, Goto, state, locks, locals
<1> QED
  BY DEF CallbackDecides, Move

\* Every step keeps launches apart.
LEMMA LaunchesStep ==
  TypeOK /\ LaunchesOnce /\ [Next]_vars => LaunchesOnce'
<1> SUFFICES ASSUME TypeOK, LaunchesOnce, [Next]_vars
             PROVE  LaunchesOnce'
  OBVIOUS
<1>1. ASSUME NEW t \in Callers, Request(t) PROVE LaunchesOnce'
  BY <1>1, LaunchesRequest
<1>2. ASSUME NEW t \in Callers, LifecycleCallback(t) PROVE LaunchesOnce'
  BY <1>2, LaunchesLifecycleCallback
<1>3. ASSUME NEW t \in Callers, Launch(t) PROVE LaunchesOnce'
  BY <1>3, LaunchesLaunch
<1>4. ASSUME NEW w \in Workers, Work(w) PROVE LaunchesOnce'
  BY <1>4, LaunchesWork
<1>5. ASSUME NEW t \in Threads, Finalize(t) PROVE LaunchesOnce'
  BY <1>5, LaunchesFinalize
<1>6. ASSUME PromoteQueued \/ QueueTimesOut \/ NoticeTimeout
      PROVE  LaunchesOnce'
  BY <1>6, LaunchesScheduler
<1>7. ASSUME NEW t \in Threads, NEW outcome \in Outcomes, CallbackDecides(t, outcome)
      PROVE  LaunchesOnce'
  BY <1>7, LaunchesCallbackDecides
<1>8. CASE UNCHANGED vars
  BY <1>8 DEF vars, state, intents, flags, locks, locals, LaunchesOnce
<1> QED
  BY <1>1, <1>2, <1>3, <1>4, <1>5, <1>6, <1>7, <1>8 DEF Next

\* The invariant holds in every reachable state.
THEOREM InvariantHolds == Spec => [](TypeOK /\ LifecycleInvariant)
<1>1. Init => TypeOK /\ LifecycleInvariant
  BY InitType, InitOrder, InitLaunches DEF LifecycleInvariant
<1>2. TypeOK /\ LifecycleInvariant /\ [Next]_vars => (TypeOK /\ LifecycleInvariant)'
  BY TypeStep, OrderStep, LaunchesStep DEF LifecycleInvariant
<1> QED
  BY <1>1, <1>2, PTL DEF Spec

------------------------------------------------------------------------------
\* What follows from it.

\* Callbacks of one mission never overlap, cleanup included: each of them runs
\* under callback_lock.
THEOREM CallbacksAreExclusive == Spec => []CallbacksExclusive
<1>1. LifecycleInvariant => CallbacksExclusive
  BY DEF LifecycleInvariant, OutcomeOrder, LocksHeld, CallbacksExclusive,
      HoldsCallback
<1> QED
  BY <1>1, InvariantHolds, PTL

\* Resources are given up only after every callback has unwound.
THEOREM ReleaseFollowsUnwinding == Spec => []ReleasedAfterUnwinding
<1>1. LifecycleInvariant => ReleasedAfterUnwinding
  BY DEF LifecycleInvariant, OutcomeOrder, CallbacksBeforeCleanup,
      ReleasedAfterUnwinding
<1> QED
  BY <1>1, InvariantHolds, PTL

\* A decided outcome always stops the worker and is never lost in STOPPING.
THEOREM IntentsStopWorkers == Spec => []IntentStopsWorker
<1>1. LifecycleInvariant => IntentStopsWorker
  BY DEF LifecycleInvariant, OutcomeOrder, IntentBinds, IntentStopsWorker
<1> QED
  BY <1>1, InvariantHolds, PTL

------------------------------------------------------------------------------
\* The mission implements its contract.

\* The steps of the contract, in terms of the mission.
LEMMA StuttersInContract ==
  ASSUME UNCHANGED <<phase, pending, Busy>>
  PROVE  [Contract!Next]_(Contract!vars)
  BY DEF Contract!vars

LEMMA WaitsInContract ==
  ASSUME phase \notin Active,
         phase' \notin Active,
         MayFollow(phase, phase'),
         UNCHANGED <<pending, Busy>>
  PROVE  [Contract!Next]_(Contract!vars)
  BY DEF Contract!Wait, Contract!Next, Contract!vars, Contract!Active,
      Contract!MayFollow,
         Contract!Successors, Contract!Terminal, Contract!Undecided,
         Contract!REGISTERED, Contract!QUEUED, Contract!STARTING,
         Contract!RUNNING, Contract!PAUSING, Contract!PAUSED,
         Contract!STOPPING, Contract!STOPPED, Contract!SUCCEEDED,
         Contract!FAILED, Contract!CANCELLED, MayFollow, Successors, Active,
         Terminal, Interruptible, REGISTERED, QUEUED, STARTING, RUNNING,
         PAUSING, PAUSED, STOPPING, STOPPED, SUCCEEDED, FAILED, CANCELLED

LEMMA ProceedsInContract ==
  ASSUME phase \in Interruptible,
         phase' \in Interruptible,
         MayFollow(phase, phase'),
         UNCHANGED <<pending, Busy>>
  PROVE  [Contract!Next]_(Contract!vars)
  BY DEF Contract!Proceed, Contract!Next, Contract!vars, Contract!Active,
      Contract!MayFollow,
         Contract!Successors, Contract!Terminal, Contract!Undecided,
         Contract!REGISTERED, Contract!QUEUED, Contract!STARTING,
         Contract!RUNNING, Contract!PAUSING, Contract!PAUSED,
         Contract!STOPPING, Contract!STOPPED, Contract!SUCCEEDED,
         Contract!FAILED, Contract!CANCELLED, MayFollow, Successors, Active,
         Terminal, Interruptible, REGISTERED, QUEUED, STARTING, RUNNING,
         PAUSING, PAUSED, STOPPING, STOPPED, SUCCEEDED, FAILED, CANCELLED

LEMMA LaunchesInContract ==
  ASSUME phase \notin Active,
         pending.phase = REGISTERED,
         phase' = STARTING,
         UNCHANGED <<pending, Busy>>
  PROVE  [Contract!Next]_(Contract!vars)
  BY DEF Contract!Launch, Contract!Next, Contract!vars, Contract!Active,
      Contract!MayFollow,
         Contract!Successors, Contract!Terminal, Contract!Undecided,
         Contract!REGISTERED, Contract!QUEUED, Contract!STARTING,
         Contract!RUNNING, Contract!PAUSING, Contract!PAUSED,
         Contract!STOPPING, Contract!STOPPED, Contract!SUCCEEDED,
         Contract!FAILED, Contract!CANCELLED, MayFollow, Successors, Active,
         Terminal, Interruptible, REGISTERED, QUEUED, STARTING, RUNNING,
         PAUSING, PAUSED, STOPPING, STOPPED, SUCCEEDED, FAILED, CANCELLED

LEMMA DecidesInContract ==
  ASSUME phase \in Interruptible,
         pending.phase = REGISTERED,
         phase' = STOPPING,
         pending'.phase \in Terminal,
         UNCHANGED Busy
  PROVE  [Contract!Next]_(Contract!vars)
  BY DEF Contract!Decide, Contract!Next, Contract!vars, Contract!Active,
      Contract!MayFollow,
         Contract!Successors, Contract!Terminal, Contract!Undecided,
         Contract!REGISTERED, Contract!QUEUED, Contract!STARTING,
         Contract!RUNNING, Contract!PAUSING, Contract!PAUSED,
         Contract!STOPPING, Contract!STOPPED, Contract!SUCCEEDED,
         Contract!FAILED, Contract!CANCELLED, MayFollow, Successors, Active,
         Terminal, Interruptible, REGISTERED, QUEUED, STARTING, RUNNING,
         PAUSING, PAUSED, STOPPING, STOPPED, SUCCEEDED, FAILED, CANCELLED

LEMMA DecidesIdleInContract ==
  ASSUME phase \in {REGISTERED, QUEUED},
         pending.phase = REGISTERED,
         pending'.phase = FAILED,
         UNCHANGED <<phase, Busy>>
  PROVE  [Contract!Next]_(Contract!vars)
  BY DEF Contract!DecideIdle, Contract!Next, Contract!vars, Contract!Active,
      Contract!MayFollow,
         Contract!Successors, Contract!Terminal, Contract!Undecided,
         Contract!REGISTERED, Contract!QUEUED, Contract!STARTING,
         Contract!RUNNING, Contract!PAUSING, Contract!PAUSED,
         Contract!STOPPING, Contract!STOPPED, Contract!SUCCEEDED,
         Contract!FAILED, Contract!CANCELLED, MayFollow, Successors, Active,
         Terminal, Interruptible, REGISTERED, QUEUED, STARTING, RUNNING,
         PAUSING, PAUSED, STOPPING, STOPPED, SUCCEEDED, FAILED, CANCELLED

LEMMA EntersInContract ==
  ASSUME phase \in {RUNNING, PAUSING, PAUSED},
         ~Busy,
         Busy' = TRUE,
         UNCHANGED <<phase, pending>>
  PROVE  [Contract!Next]_(Contract!vars)
  BY DEF Contract!Enter, Contract!Next, Contract!vars, Contract!Active,
      Contract!MayFollow,
         Contract!Successors, Contract!Terminal, Contract!Undecided,
         Contract!REGISTERED, Contract!QUEUED, Contract!STARTING,
         Contract!RUNNING, Contract!PAUSING, Contract!PAUSED,
         Contract!STOPPING, Contract!STOPPED, Contract!SUCCEEDED,
         Contract!FAILED, Contract!CANCELLED, MayFollow, Successors, Active,
         Terminal, Interruptible, REGISTERED, QUEUED, STARTING, RUNNING,
         PAUSING, PAUSED, STOPPING, STOPPED, SUCCEEDED, FAILED, CANCELLED

LEMMA LeavesInContract ==
  ASSUME Busy,
         Busy' = FALSE,
         UNCHANGED <<phase, pending>>
  PROVE  [Contract!Next]_(Contract!vars)
  BY DEF Contract!Leave, Contract!Next, Contract!vars, Contract!Active,
      Contract!MayFollow,
         Contract!Successors, Contract!Terminal, Contract!Undecided,
         Contract!REGISTERED, Contract!QUEUED, Contract!STARTING,
         Contract!RUNNING, Contract!PAUSING, Contract!PAUSED,
         Contract!STOPPING, Contract!STOPPED, Contract!SUCCEEDED,
         Contract!FAILED, Contract!CANCELLED, MayFollow, Successors, Active,
         Terminal, Interruptible, REGISTERED, QUEUED, STARTING, RUNNING,
         PAUSING, PAUSED, STOPPING, STOPPED, SUCCEEDED, FAILED, CANCELLED

LEMMA SettlesInContract ==
  ASSUME phase \in {STOPPING, REGISTERED, QUEUED},
         pending.phase # REGISTERED,
         ~Busy,
         phase' = pending.phase \/ (pending.phase = FAILED /\ phase' = QUEUED),
         pending'.phase = REGISTERED,
         UNCHANGED Busy
  PROVE  [Contract!Next]_(Contract!vars)
  BY DEF Contract!Settle, Contract!Next, Contract!vars, Contract!Active,
      Contract!MayFollow,
         Contract!Successors, Contract!Terminal, Contract!Undecided,
         Contract!REGISTERED, Contract!QUEUED, Contract!STARTING,
         Contract!RUNNING, Contract!PAUSING, Contract!PAUSED,
         Contract!STOPPING, Contract!STOPPED, Contract!SUCCEEDED,
         Contract!FAILED, Contract!CANCELLED, MayFollow, Successors, Active,
         Terminal, Interruptible, REGISTERED, QUEUED, STARTING, RUNNING,
         PAUSING, PAUSED, STOPPING, STOPPED, SUCCEEDED, FAILED, CANCELLED

\* How a step of one thread changes whether a callback is running.
LEMMA BusyFacts ==
  ASSUME TypeOK, LocksHeld, NEW t \in Threads,
         \A u \in Threads \ {t} : pc'[u] = pc[u]
  PROVE  /\ pc[t] \notin UserCode /\ pc'[t] \notin UserCode => Busy' = Busy
         /\ pc[t] \in UserCode /\ pc'[t] \notin UserCode => Busy = TRUE /\ Busy' = FALSE
         /\ /\ pc[t] \notin UserCode /\ pc'[t] \in UserCode
            /\ callbackLock \in {NoThread, t}
            => Busy = FALSE /\ Busy' = TRUE
<1>1. ASSUME callbackLock \in {NoThread, t}
      PROVE  \A u \in Threads \ {t} : pc[u] \notin UserCode
  BY <1>1, NoThreadIsNone DEF LocksHeld, HoldsCallback
<1>2. ASSUME pc[t] \in UserCode PROVE callbackLock = t
  BY <1>2 DEF LocksHeld, HoldsCallback
<1> QED
  BY <1>1, <1>2 DEF Busy

\* A decision from an active phase is the contract's Decide.
LEMMA ContractDecide ==
  ASSUME TypeOK, NEW outcome \in Outcomes, NEW retryable \in BOOLEAN,
         phase \in Interruptible, Move(STOPPING), Decide(outcome, retryable),
         Busy' = Busy
  PROVE  [Contract!Next]_(Contract!vars)
<1>1. pending.phase = REGISTERED /\ pending'.phase \in Terminal
  BY DecideFacts DEF NoIntent, Outcomes
<1> QED
  BY <1>1, DecidesInContract DEF Move

\* No callback is running when an outcome is committed.
LEMMA CommitFindsNoCallback ==
  ASSUME TypeOK, OutcomeOrder, NEW t \in Threads, pc[t] = "commit"
  PROVE  ~Busy
  BY DEF OutcomeOrder, FinalizesPending, CallbacksBeforeCleanup, Busy

\* A new worker is not in a callback yet.
LEMMA SpawnStartsNoCallback ==
  ASSUME TypeOK, LaunchesOnce, NEW t \in Threads, RunSpawn(t)
  PROVE  Busy' = Busy
<1>1. \A u \in Threads : pc'[u] \in UserCode <=> pc[u] \in UserCode
  BY WorkersAreThreads DEF TypeOK, LaunchesOnce, RunSpawn, Goto, UserCode
<1> QED
  BY <1>1 DEF Busy

\* The section of fail() decides, or repeats a decision.
LEMMA ContractFailSection ==
  ASSUME TypeOK, LifecycleInvariant, NEW retryable \in BOOLEAN,
         FailSection(retryable), Busy' = Busy
  PROVE  [Contract!Next]_(Contract!vars)
<1> FAILED \in Outcomes /\ FAILED \in Terminal /\ NoIntent.phase = REGISTERED
  BY DEF Outcomes, Terminal, NoIntent
<1>1. CASE phase \in Interruptible /\ Move(STOPPING) /\ Decide(FAILED, retryable)
  BY <1>1, ContractDecide
<1>2. CASE phase \in {REGISTERED, QUEUED} /\ Decide(FAILED, retryable) /\ UNCHANGED state
  BY <1>2, DecidesIdleInContract, DecideFacts DEF state
<1>3. CASE UNCHANGED <<state, intents>>
  BY <1>3, StuttersInContract DEF state, intents
<1> QED
  BY <1>1, <1>2, <1>3 DEF FailSection

\* Pausing and resuming are steps of the contract.
LEMMA ContractLifecycleCallback ==
  ASSUME TypeOK, LifecycleInvariant, NEW t \in Callers, LifecycleCallback(t)
  PROVE  [Contract!Next]_(Contract!vars)
<1> USE BusyFacts, NoThreadIsNone, IntentFacts
    DEF TypeOK, LifecycleInvariant, OutcomeOrder, IntentBinds, CallbacksBeforeCleanup,
        UserCode, Interruptible, Active, Terminal, Goto, state, intents, flags,
        locks, locals, REGISTERED, QUEUED, STARTING, RUNNING, PAUSING, PAUSED,
        STOPPING, STOPPED, SUCCEEDED,
        FAILED, CANCELLED
<1>0. t \in Threads
  BY DEF Threads
<1>1. CASE EnterLifecycleCallback(t)
  BY <1>0, <1>1, StuttersInContract, EntersInContract
      DEF EnterLifecycleCallback, ExpectedPhase
<1>2. CASE LifecycleCallbackReturns(t)
  BY <1>0, <1>2, StuttersInContract, LeavesInContract
      DEF LifecycleCallbackReturns
<1>3. CASE LifecycleCallbackRaises(t)
  BY <1>0, <1>3, StuttersInContract, LeavesInContract
      DEF LifecycleCallbackRaises
<1>4. CASE LifecycleCallbackExits(t)
  BY <1>0, <1>4, StuttersInContract, LeavesInContract DEF LifecycleCallbackExits
<1>5. CASE CommitPauseResume(t)
  BY <1>0, <1>5, StuttersInContract, ProceedsInContract DEF CommitPauseResume,
      Move, MayFollow, Successors
<1> QED
  BY <1>1, <1>2, <1>3, <1>4, <1>5 DEF LifecycleCallback

\* Launching is.
LEMMA ContractLaunch ==
  ASSUME TypeOK, LifecycleInvariant, NEW t \in Callers, Launch(t)
  PROVE  [Contract!Next]_(Contract!vars)
<1> USE BusyFacts, NoThreadIsNone, IntentFacts
    DEF TypeOK, LifecycleInvariant, OutcomeOrder, IntentBinds, CallbacksBeforeCleanup,
        UserCode, Interruptible, Active, Terminal, Goto, state, intents, flags,
        locks, locals, REGISTERED, QUEUED, STARTING, RUNNING, PAUSING, PAUSED,
        STOPPING, STOPPED, SUCCEEDED,
        FAILED, CANCELLED
<1>0. t \in Threads
  BY DEF Threads
<1>1. CASE RunAdmit(t)
  <2>1. Busy' = Busy
    BY <1>1, <1>0 DEF RunAdmit, Issues
  <2>2. CASE UNCHANGED <<phase, pending>>
    BY <2>1, <2>2, StuttersInContract
  <2>3. CASE phase \notin Active /\ Move(QUEUED) /\ UNCHANGED pending
    BY <2>1, <2>3, WaitsInContract DEF Move
  <2> QED
    BY <1>1, <2>2, <2>3 DEF RunAdmit, Enqueue, Move, MayFollow, Successors
<1>2. CASE RunStart(t)
  <2>1. Busy' = Busy
    BY <1>2, <1>0 DEF RunStart
  <2>2. phase \notin Active /\ pending.phase = REGISTERED /\ phase' = STARTING
    BY <1>2 DEF RunStart, MayFollow, Successors, NoIntent
  <2> QED
    BY <1>2, <2>1, <2>2, LaunchesInContract DEF RunStart
<1>3. CASE RunBlocked(t)
  <2>1. Busy' = Busy
    BY <1>3, <1>0 DEF RunBlocked, Issues
  <2>2. CASE UNCHANGED <<phase, pending>>
    BY <2>1, <2>2, StuttersInContract
  <2>3. CASE phase \notin Active /\ Move(QUEUED) /\ UNCHANGED pending
    BY <2>1, <2>3, WaitsInContract DEF Move
  <2> QED
    BY <1>3, <2>2, <2>3 DEF RunBlocked, Enqueue, Move, MayFollow, Successors
<1>4. CASE RunStale(t)
  BY <1>0, <1>4, StuttersInContract DEF RunStale
<1>5. CASE RunSpawn(t)
  <2>1. Busy' = Busy
    BY <1>5, <1>0, SpawnStartsNoCallback
  <2> QED
    BY <1>5, <2>1, StuttersInContract DEF RunSpawn
<1> QED
  BY <1>1, <1>2, <1>3, <1>4, <1>5 DEF Launch

\* So are the worker's steps: it enters and leaves callbacks.
LEMMA ContractWork ==
  ASSUME TypeOK, LifecycleInvariant, NEW w \in Workers, Work(w)
  PROVE  [Contract!Next]_(Contract!vars)
<1> USE BusyFacts, NoThreadIsNone, IntentFacts
    DEF TypeOK, LifecycleInvariant, OutcomeOrder, IntentBinds, CallbacksBeforeCleanup,
        UserCode, Interruptible, Active, Terminal, Goto, state, intents, flags,
        locks, locals, REGISTERED, QUEUED, STARTING, RUNNING, PAUSING, PAUSED,
        STOPPING, STOPPED, SUCCEEDED,
        FAILED, CANCELLED
<1>0. w \in Threads
  BY DEF Threads
<1>1. CASE WorkerBegin(w)
  <2>1. Busy' = Busy
    BY <1>1, <1>0 DEF WorkerBegin
  <2>2. CASE Move(RUNNING) /\ phase = STARTING /\ UNCHANGED pending
    BY <2>1, <2>2, ProceedsInContract DEF Move
  <2>3. CASE Move(STOPPING) /\ phase = STARTING /\ Decide(CANCELLED, FALSE)
    BY <2>1, <2>3, ContractDecide DEF Outcomes
  <2>4. CASE UNCHANGED <<phase, pending>>
    BY <2>1, <2>4, StuttersInContract
  <2> QED
    BY <1>1, <2>2, <2>3, <2>4 DEF WorkerBegin
<1>2. CASE WorkerRecheck(w)
  BY <1>0, <1>2, StuttersInContract, EntersInContract DEF WorkerRecheck,
      LocksHeld, HoldsCallback
<1>3. CASE WorkerCallbackReturns(w)
  BY <1>0, <1>3, StuttersInContract, LeavesInContract DEF WorkerCallbackReturns
<1>4. CASE WorkerCallbackRaises(w)
  BY <1>0, <1>4, StuttersInContract, LeavesInContract DEF WorkerCallbackRaises
<1>5. CASE WorkerCallbackExits(w)
  BY <1>0, <1>5, StuttersInContract, LeavesInContract DEF WorkerCallbackExits
<1>6. CASE WorkerExcept(w)
  <2>1. Busy' = Busy
    BY <1>6, <1>0 DEF WorkerExcept
  <2>2. CASE FailSection(TRUE)
    BY <2>1, <2>2, ContractFailSection
  <2>3. CASE UNCHANGED <<phase, pending>>
    BY <2>1, <2>3, StuttersInContract
  <2> QED
    BY <1>6, <2>2, <2>3 DEF WorkerExcept
<1>7. CASE WorkerLoop(w)
  BY <1>0, <1>7, StuttersInContract DEF WorkerLoop
<1>8. CASE WorkerTick(w)
  BY <1>0, <1>8, StuttersInContract, EntersInContract DEF WorkerTick
<1>9. CASE WorkerFinal(w)
  BY <1>0, <1>9, StuttersInContract DEF WorkerFinal
<1>10. CASE WorkerEnd(w)
  BY <1>0, <1>10, StuttersInContract DEF WorkerEnd
<1> QED
  BY <1>1, <1>2, <1>3, <1>4, <1>5, <1>6, <1>7, <1>8, <1>9, <1>10 DEF Work

\* Finalizing stutters until it settles the outcome.
LEMMA ContractFinalize ==
  ASSUME TypeOK, LifecycleInvariant, NEW t \in Threads, Finalize(t)
  PROVE  [Contract!Next]_(Contract!vars)
<1> USE BusyFacts, NoThreadIsNone, IntentFacts
    DEF TypeOK, LifecycleInvariant, OutcomeOrder, IntentBinds, CallbacksBeforeCleanup,
        UserCode, Interruptible, Active, Terminal, Goto, state, intents, flags,
        locks, locals, REGISTERED, QUEUED, STARTING, RUNNING, PAUSING, PAUSED,
        STOPPING, STOPPED, SUCCEEDED,
        FAILED, CANCELLED
<1>1. CASE Join(t)
  BY <1>1, StuttersInContract DEF Join
<1>2. CASE Joined(t)
  BY <1>2, StuttersInContract DEF Joined
<1>3. CASE JoinTimesOut(t)
  BY <1>3, StuttersInContract DEF JoinTimesOut, ForgetLocals, OtherRaised
<1>4. CASE EnterTerminal(t)
  BY <1>4, StuttersInContract DEF EnterTerminal, ForgetLocals, Returned,
      OtherRaised, CleanupRaised
<1>5. CASE Clean(t)
  BY <1>5, StuttersInContract DEF Clean
<1>6. CASE EnterCleanup(t)
  BY <1>6, StuttersInContract DEF EnterCleanup
<1>7. CASE CleanupSucceeds(t)
  BY <1>7, StuttersInContract DEF CleanupSucceeds
<1>8. CASE CleanupFails(t)
  BY <1>8, StuttersInContract DEF CleanupFails, ForgetLocals, CleanupRaised
<1>9. CASE Commit(t)
  <2>1. Busy' = Busy
    BY <1>9 DEF Commit, Returned, OtherRaised
  <2>2. ~Busy
    BY <1>9, CommitFindsNoCallback DEF Commit
  <2>3. CASE UNCHANGED <<phase, pending>>
    BY <2>1, <2>3, StuttersInContract
  <2>4. CASE /\ held[t].phase \in {SUCCEEDED, FAILED} => phase \notin Terminal
             /\ pending = held[t]
             /\ phase' \in CommitOutcome(t)
             /\ pending' = NoIntent
    <3>1. pending # NoIntent /\ pending.phase \in Terminal
      BY <1>9, <2>4 DEF FinalizesPending, FinalizeLabels, Commit
    <3>2. phase \in {STOPPING, REGISTERED, QUEUED}
      BY <2>4, <3>1 DEF Phases
    <3>3. phase' = pending.phase \/ (pending.phase = FAILED /\ phase' = QUEUED)
      BY <2>4 DEF CommitOutcome
    <3> QED
      BY <2>1, <2>2, <2>4, <3>1, <3>2, <3>3, SettlesInContract DEF NoIntent
  <2> QED
    BY <1>9, <2>3, <2>4 DEF Commit
<1> QED
  BY <1>1, <1>2, <1>3, <1>4, <1>5, <1>6, <1>7, <1>8, <1>9 DEF Finalize

\* Requests decide, wait or proceed.
LEMMA ContractRequest ==
  ASSUME TypeOK, LifecycleInvariant, NEW t \in Callers, Request(t)
  PROVE  [Contract!Next]_(Contract!vars)
<1> USE BusyFacts, NoThreadIsNone, IntentFacts
    DEF TypeOK, LifecycleInvariant, OutcomeOrder, IntentBinds, CallbacksBeforeCleanup,
        UserCode, Interruptible, Active, Terminal, Goto, state, intents, flags,
        locks, locals, REGISTERED, QUEUED, STARTING, RUNNING, PAUSING, PAUSED,
        STOPPING, STOPPED, SUCCEEDED,
        FAILED, CANCELLED
<1>0. t \in Threads
  BY DEF Threads
<1>1. CASE PauseRequest(t)
  BY <1>0, <1>1, StuttersInContract, ProceedsInContract DEF PauseRequest,
      Issues, Move, MayFollow, Successors
<1>2. CASE ResumeRequest(t)
  BY <1>0, <1>2, StuttersInContract DEF ResumeRequest, Issues
<1>3. CASE CompleteRequest(t)
  <2>1. Busy' = Busy
    BY <1>3, <1>0 DEF CompleteRequest, Issues
  <2>2. CASE phase = RUNNING /\ Move(STOPPING) /\ Decide(SUCCEEDED, FALSE)
    BY <2>1, <2>2, ContractDecide DEF Outcomes
  <2>3. CASE UNCHANGED <<phase, pending>>
    BY <2>1, <2>3, StuttersInContract
  <2> QED
    BY <1>3, <2>2, <2>3 DEF CompleteRequest
<1>4. CASE FinishRequest(t, STOPPED)
  <2>1. Busy' = Busy
    BY <1>4, <1>0 DEF FinishRequest, Issues
  <2>2. CASE phase \in {REGISTERED, QUEUED} /\ Move(STOPPED) /\ UNCHANGED pending
    BY <2>1, <2>2, WaitsInContract DEF Move
  <2>3. CASE phase \in Interruptible /\ Move(STOPPING) /\ Decide(STOPPED, FALSE)
    BY <2>1, <2>3, ContractDecide DEF Outcomes
  <2>4. CASE UNCHANGED <<phase, pending>>
    BY <2>1, <2>4, StuttersInContract
  <2> QED
    BY <1>4, <2>2, <2>3, <2>4 DEF FinishRequest
<1>5. CASE FinishRequest(t, CANCELLED)
  <2>1. Busy' = Busy
    BY <1>5, <1>0 DEF FinishRequest, Issues
  <2>2. CASE phase \in {REGISTERED, QUEUED} /\ Move(CANCELLED) /\ UNCHANGED pending
    BY <2>1, <2>2, WaitsInContract DEF Move
  <2>3. CASE phase \in Interruptible /\ Move(STOPPING) /\ Decide(CANCELLED, FALSE)
    BY <2>1, <2>3, ContractDecide DEF Outcomes
  <2>4. CASE UNCHANGED <<phase, pending>>
    BY <2>1, <2>4, StuttersInContract
  <2> QED
    BY <1>5, <2>2, <2>3, <2>4 DEF FinishRequest
<1>6. CASE FailRequest(t)
  <2>1. Busy' = Busy
    BY <1>6, <1>0 DEF FailRequest, Issues
  <2>2. PICK retryable \in BOOLEAN : FailSection(retryable)
    BY <1>6 DEF FailRequest
  <2> QED
    BY <2>1, <2>2, ContractFailSection
<1>7. CASE FailAfterRefused(t)
  BY <1>0, <1>7, StuttersInContract DEF FailAfterRefused
<1>8. CASE RetryCleanup(t)
  BY <1>0, <1>8, StuttersInContract DEF RetryCleanup, Issues
<1> QED
  BY <1>1, <1>2, <1>3, <1>4, <1>5, <1>6, <1>7, <1>8 DEF Request

\* The scheduler's own steps only let the mission wait.
LEMMA ContractScheduler ==
  ASSUME TypeOK, LifecycleInvariant,
         PromoteQueued \/ QueueTimesOut \/ NoticeTimeout
  PROVE  [Contract!Next]_(Contract!vars)
<1> USE BusyFacts, NoThreadIsNone, IntentFacts
    DEF TypeOK, LifecycleInvariant, OutcomeOrder, IntentBinds, CallbacksBeforeCleanup,
        UserCode, Interruptible, Active, Terminal, Goto, state, intents, flags,
        locks, locals, REGISTERED, QUEUED, STARTING, RUNNING, PAUSING, PAUSED,
        STOPPING, STOPPED, SUCCEEDED,
        FAILED, CANCELLED
<1>0. Scheduler \in Threads
  BY DEF Threads, Callers
<1>1. CASE PromoteQueued
  BY <1>0, <1>1, StuttersInContract DEF PromoteQueued, SchedulerReady
<1>2. CASE QueueTimesOut
  BY <1>0, <1>2, WaitsInContract DEF QueueTimesOut, SchedulerReady, Move
<1>3. CASE NoticeTimeout
  BY <1>0, <1>3, StuttersInContract DEF NoticeTimeout, SchedulerReady
<1> QED
  BY <1>1, <1>2, <1>3

\* Every step is a step of the contract, or none.
LEMMA ContractStep ==
  TypeOK /\ LifecycleInvariant /\ [Next]_vars => [Contract!Next]_(Contract!vars)
<1> SUFFICES ASSUME TypeOK, LifecycleInvariant, [Next]_vars
             PROVE  [Contract!Next]_(Contract!vars)
  OBVIOUS
<1>1. ASSUME NEW t \in Callers, Request(t) PROVE [Contract!Next]_(Contract!vars)
  BY <1>1, ContractRequest
<1>2. ASSUME NEW t \in Callers, LifecycleCallback(t)
      PROVE  [Contract!Next]_(Contract!vars)
  BY <1>2, ContractLifecycleCallback
<1>3. ASSUME NEW t \in Callers, Launch(t) PROVE [Contract!Next]_(Contract!vars)
  BY <1>3, ContractLaunch
<1>4. ASSUME NEW w \in Workers, Work(w) PROVE [Contract!Next]_(Contract!vars)
  BY <1>4, ContractWork
<1>5. ASSUME NEW t \in Threads, Finalize(t)
      PROVE  [Contract!Next]_(Contract!vars)
  BY <1>5, ContractFinalize
<1>6. ASSUME PromoteQueued \/ QueueTimesOut \/ NoticeTimeout
      PROVE  [Contract!Next]_(Contract!vars)
  BY <1>6, ContractScheduler
<1>7. ASSUME NEW t \in Threads, NEW outcome \in Outcomes, CallbackDecides(t, outcome)
      PROVE  [Contract!Next]_(Contract!vars)
  <2>1. Busy' = Busy
    BY <1>7 DEF CallbackDecides, Busy
  <2> QED
    BY <1>7, <2>1, ContractDecide DEF CallbackDecides
<1>8. CASE UNCHANGED vars
  BY <1>8, StuttersInContract DEF vars, state, intents, Busy
<1> QED
  BY <1>1, <1>2, <1>3, <1>4, <1>5, <1>6, <1>7, <1>8 DEF Next

\* The mission refines the contract: it is active exactly while it owns its
\* resources, callbacks run one at a time and only in an undecided or unwinding
\* mission, and the outcome it reaches is the first that was decided.
THEOREM RefinesContract == Spec => ImplementsContract
<1>1. Init => Contract!Init
  BY DEF Init, Busy, UserCode, NoIntent, REGISTERED, Contract!Init,
      Contract!REGISTERED,
         Contract!Undecided
<1>2. TypeOK /\ LifecycleInvariant /\ [Next]_vars => [Contract!Next]_(Contract!vars)
  BY ContractStep
<1> QED
  BY <1>1, <1>2, InvariantHolds, PTL DEF Spec, ImplementsContract, Contract!Spec
------------------------------------------------------------------------------
\* An active mission is released by a commit, and a commit follows the cleanup.

\* No request makes an active mission inactive.
LEMMA RequestKeepsActive ==
  ASSUME NEW t \in Callers, Request(t), phase \in Active
  PROVE  phase' \in Active
<1> USE DEF Active, Terminal, Interruptible, Move, MayFollow, Successors, FailSection,
      Enqueue, state, REGISTERED, QUEUED, STARTING, RUNNING, PAUSING, PAUSED,
      STOPPING, STOPPED, SUCCEEDED, FAILED, CANCELLED
<1>1. CASE PauseRequest(t) \/ ResumeRequest(t) \/ CompleteRequest(t)
  BY <1>1 DEF PauseRequest, ResumeRequest, CompleteRequest
<1>2. ASSUME NEW outcome, FinishRequest(t, outcome) PROVE phase' \in Active
  BY <1>2 DEF FinishRequest
<1>3. CASE FailRequest(t) \/ FailAfterRefused(t) \/ RetryCleanup(t)
  BY <1>3 DEF FailRequest, FailAfterRefused, RetryCleanup
<1> QED
  BY <1>1, <1>2, <1>3 DEF Request

\* Neither does any other step outside of finalizing.
LEMMA OthersKeepActive ==
  ASSUME phase \in Active,
         \/ \E t \in Callers : LifecycleCallback(t) \/ Launch(t)
         \/ PromoteQueued \/ QueueTimesOut \/ NoticeTimeout
         \/ \E w \in Workers : Work(w)
         \/ \E t \in Threads, outcome \in Outcomes : CallbackDecides(t, outcome)
  PROVE  phase' \in Active
<1> USE DEF Active, Terminal, Interruptible, Move, MayFollow, Successors, FailSection,
      Enqueue, state, REGISTERED, QUEUED, STARTING, RUNNING, PAUSING, PAUSED,
      STOPPING, STOPPED, SUCCEEDED, FAILED, CANCELLED
<1>1. ASSUME NEW t \in Callers, LifecycleCallback(t) PROVE phase' \in Active
  BY <1>1 DEF LifecycleCallback, EnterLifecycleCallback,
      LifecycleCallbackReturns,
              LifecycleCallbackRaises, LifecycleCallbackExits, CommitPauseResume
<1>2. ASSUME NEW t \in Callers, Launch(t) PROVE phase' \in Active
  BY <1>2 DEF Launch, RunAdmit, RunStart, RunBlocked, RunStale, RunSpawn
<1>3. CASE PromoteQueued \/ QueueTimesOut \/ NoticeTimeout
  BY <1>3 DEF PromoteQueued, QueueTimesOut, NoticeTimeout
<1>4. ASSUME NEW w \in Workers, Work(w) PROVE phase' \in Active
  BY <1>4 DEF Work, WorkerBegin, WorkerRecheck, WorkerCallbackReturns,
              WorkerCallbackRaises, WorkerCallbackExits, WorkerExcept, WorkerLoop,
              WorkerTick, WorkerFinal, WorkerEnd
<1>5. ASSUME NEW t \in Threads, NEW outcome \in Outcomes, CallbackDecides(t, outcome)
      PROVE  phase' \in Active
  BY <1>5 DEF CallbackDecides
<1> QED
  BY <1>1, <1>2, <1>3, <1>4, <1>5

\* Finalizing does, by a commit, which finds the cleanup done.
LEMMA FinalizeCleansFirst ==
  ASSUME TypeOK, LifecycleInvariant, NEW t \in Threads, Finalize(t),
         phase \in Active, phase' \notin Active
  PROVE  cleaned /\ ~cleanupError
<1>1. Commit(t)
  BY DEF Finalize, Join, Joined, JoinTimesOut, EnterTerminal, Clean,
      EnterCleanup,
         CleanupSucceeds, CleanupFails, state
<1> QED
  BY <1>1 DEF Commit, LifecycleInvariant, OutcomeOrder, FinalizesPending

\* Mission.stop() has succeeded for the launch whenever its resources are given
\* up, whichever thread commits the outcome.
THEOREM ReleaseFollowsCleanup == Spec => CleanedBeforeRelease
<1>1. TypeOK /\ LifecycleInvariant /\ [Next]_vars
        => [(phase \in Active /\ phase' \notin Active) => cleaned /\ ~cleanupError]_vars
  <2> SUFFICES ASSUME TypeOK, LifecycleInvariant, Next,
                      phase \in Active, phase' \notin Active
               PROVE  cleaned /\ ~cleanupError
    OBVIOUS
  <2>1. \E t \in Threads : Finalize(t)
    BY RequestKeepsActive, OthersKeepActive DEF Next
  <2> QED
    BY <2>1, FinalizeCleansFirst
<1> QED
  BY <1>1, InvariantHolds, PTL DEF Spec, CleanedBeforeRelease
------------------------------------------------------------------------------
\* A decided outcome leaves the mission only by its commit.

\* No request replaces an intent.
LEMMA RequestKeepsIntent ==
  ASSUME NEW t \in Callers, Request(t), pending # NoIntent
  PROVE  pending' = pending
<1> USE DEF Decide, FailSection, intents
<1>1. CASE PauseRequest(t) \/ ResumeRequest(t) \/ CompleteRequest(t)
  BY <1>1 DEF PauseRequest, ResumeRequest, CompleteRequest
<1>2. ASSUME NEW outcome, FinishRequest(t, outcome) PROVE pending' = pending
  BY <1>2 DEF FinishRequest
<1>3. CASE FailRequest(t) \/ FailAfterRefused(t) \/ RetryCleanup(t)
  BY <1>3 DEF FailRequest, FailAfterRefused, RetryCleanup
<1> QED
  BY <1>1, <1>2, <1>3 DEF Request

\* Neither does any other step outside of finalizing.
LEMMA OthersKeepIntent ==
  ASSUME pending # NoIntent,
         \/ \E t \in Callers : LifecycleCallback(t) \/ Launch(t)
         \/ PromoteQueued \/ QueueTimesOut \/ NoticeTimeout
         \/ \E w \in Workers : Work(w)
         \/ \E t \in Threads, outcome \in Outcomes : CallbackDecides(t, outcome)
  PROVE  pending' = pending
<1> USE DEF Decide, FailSection, intents
<1>1. ASSUME NEW t \in Callers, LifecycleCallback(t) PROVE pending' = pending
  BY <1>1 DEF LifecycleCallback, EnterLifecycleCallback,
      LifecycleCallbackReturns,
              LifecycleCallbackRaises, LifecycleCallbackExits, CommitPauseResume
<1>2. ASSUME NEW t \in Callers, Launch(t) PROVE pending' = pending
  BY <1>2 DEF Launch, RunAdmit, RunStart, RunBlocked, RunStale, RunSpawn
<1>3. CASE PromoteQueued \/ QueueTimesOut \/ NoticeTimeout
  BY <1>3 DEF PromoteQueued, QueueTimesOut, NoticeTimeout
<1>4. ASSUME NEW w \in Workers, Work(w) PROVE pending' = pending
  BY <1>4 DEF Work, WorkerBegin, WorkerRecheck, WorkerCallbackReturns,
              WorkerCallbackRaises, WorkerCallbackExits, WorkerExcept, WorkerLoop,
              WorkerTick, WorkerFinal, WorkerEnd
<1>5. ASSUME NEW t \in Threads, NEW outcome \in Outcomes, CallbackDecides(t, outcome)
      PROVE  pending' = pending
  BY <1>5 DEF CallbackDecides
<1> QED
  BY <1>1, <1>2, <1>3, <1>4, <1>5

\* Finalizing removes it with the outcome it asked for.
LEMMA FinalizeKeepsIntent ==
  ASSUME NEW t \in Threads, Finalize(t)
  PROVE  \/ pending' = pending
         \/ /\ pending' = NoIntent
            /\ phase' = pending.phase \/ (pending.phase = FAILED /\ phase' = QUEUED)
<1>1. CASE Commit(t)
  BY <1>1 DEF Commit, CommitOutcome, intents
<1>2. CASE ~Commit(t)
  BY <1>2 DEF Finalize, Join, Joined, JoinTimesOut, EnterTerminal, Clean,
              EnterCleanup, CleanupSucceeds, CleanupFails, intents
<1> QED
  BY <1>1, <1>2

\* The first terminal intent of a launch wins, whatever else is asked later.
THEOREM FirstIntentStays == Spec => FirstIntentWins
<1>1. [Next]_vars =>
        [pending # NoIntent =>
           \/ pending' = pending
           \/ /\ pending' = NoIntent
              /\ phase' = pending.phase \/ (pending.phase = FAILED /\ phase' = QUEUED)
        ]_vars
  <2> SUFFICES ASSUME Next, pending # NoIntent
               PROVE  \/ pending' = pending
                      \/ /\ pending' = NoIntent
                         /\ \/ phase' = pending.phase
                            \/ pending.phase = FAILED /\ phase' = QUEUED
    OBVIOUS
  <2>1. CASE \E t \in Threads : Finalize(t)
    BY <2>1, FinalizeKeepsIntent
  <2>2. CASE ~\E t \in Threads : Finalize(t)
    BY <2>2, RequestKeepsIntent, OthersKeepIntent DEF Next
  <2> QED
    BY <2>1, <2>2
<1> QED
  BY <1>1, PTL DEF Spec, FirstIntentWins
------------------------------------------------------------------------------
\* Workers take turns: why a launch finds the worker of the last one gone.

\* A worker between its creation and the end of its last finalization.
Working == {"w_begin", "w_recheck", "in_start", "loop", "w_tick", "in_tick",
            "w_except", "final"} \cup FinalizeLabels

\* A thread that has looked for a worker to join.
PastJoin == {"joining", "terminal"} \cup HoldsTerminal

\* A working worker is the current one, and none works between two launches.
WorkersInTurn ==
  /\ \A w \in Workers : pc[w] \in Working => worker = w
  /\ (phase \notin Active \/ \E t \in Threads : pc[t] = "run_spawn")
       => \A w \in Workers : pc[w] \notin Working

\* The id of the next intent is new.
IntentsAreFresh ==
  pending.id <= decisions /\ \A t \in Threads : held[t].id <= decisions

\* Who finalizes the pending intent has no worker left but the one it joins.
JoinedInTime ==
  \A t \in Threads : pc[t] \in PastJoin /\ held[t] = pending =>
    \A w \in Workers \ {t} :
      pc[w] \in Working => pc[t] = "joining" /\ target[t] = w

TurnInvariant == WorkersInTurn /\ IntentsAreFresh /\ JoinedInTime

\* Nobody works at first.
LEMMA InitTurn == Init => TurnInvariant
<1> SUFFICES ASSUME Init PROVE TurnInvariant
  OBVIOUS
<1>1. \A w \in Workers : pc[w] = "unborn"
  BY WorkersAreThreads DEF Init
<1>2. \A t \in Threads : pc[t] \in {"idle", "unborn"} /\ held[t] = NoIntent
  BY DEF Init
<1>3. WorkersInTurn /\ JoinedInTime
  BY <1>1, <1>2 DEF WorkersInTurn, JoinedInTime, Working, PastJoin, HoldsTerminal,
                    FinalizeLabels
<1>4. IntentsAreFresh
  BY <1>2 DEF Init, IntentsAreFresh, NoIntent
<1> QED
  BY <1>3, <1>4 DEF TurnInvariant

\* What a step may do to the intent: leave it, drop it, or decide a new one.
IntentSteps ==
  /\ decisions' \in Nat /\ decisions' >= decisions
  /\ \/ pending' \in {pending, NoIntent}
     \/ pending'.id = decisions + 1 /\ decisions' = decisions + 1

\* A step that leaves the intent alone is one of these.
LEMMA KeptIntentSteps ==
  ASSUME TypeOK, UNCHANGED intents
  PROVE  IntentSteps
  BY DEF TypeOK, IntentSteps, intents

\* So is a decision,
LEMMA DecideSteps ==
  ASSUME TypeOK, NEW outcome, NEW retryable, Decide(outcome, retryable)
  PROVE  IntentSteps
  BY DEF TypeOK, IntentSteps, Decide, NewIntent

\* and the section of fail().
LEMMA FailSectionSteps ==
  ASSUME TypeOK, NEW retryable, FailSection(retryable)
  PROVE  IntentSteps
  BY KeptIntentSteps, DecideSteps DEF FailSection

\* The ids of intents are numbers.
LEMMA IntentIds == \A i \in Intent \cup {NoIntent} : i.id \in Nat
  BY DEF Intent, NoIntent

\* Intents stay fresh when a thread takes up the pending one, keeps its own or
\* forgets it.
LEMMA FreshUndisturbed ==
  ASSUME TypeOK, TypeOK', IntentsAreFresh, IntentSteps, NEW t \in Threads,
         \A u \in Threads \ {t} : held'[u] = held[u],
         held'[t] \in {held[t], pending, pending', NoIntent}
  PROVE  IntentsAreFresh'
<1>1. decisions \in Nat /\ decisions' \in Nat /\ decisions <= decisions'
  BY DEF TypeOK, IntentSteps
<1>2. pending.id \in Nat /\ pending.id <= decisions /\ pending'.id \in Nat
  BY IntentIds DEF TypeOK, IntentsAreFresh
<1>3. NoIntent.id = 0
  BY DEF NoIntent
<1>4. pending'.id <= decisions'
  BY <1>1, <1>2, <1>3 DEF IntentSteps
<1>5. ASSUME NEW u \in Threads PROVE held'[u].id <= decisions'
  <2>1. held[u].id \in Nat /\ held[u].id <= decisions
    BY IntentIds DEF TypeOK, IntentsAreFresh
  <2>2. held'[u] \in {held[u], pending, pending', NoIntent}
    OBVIOUS
  <2> QED
    BY <1>1, <1>2, <1>3, <1>4, <2>1, <2>2
<1> QED
  BY <1>4, <1>5 DEF IntentsAreFresh

\* A thread past its join still finalizes the pending intent only if it did
\* before the step.
LEMMA FinalizesTheSame ==
  ASSUME TypeOK, LifecycleInvariant, IntentsAreFresh, IntentSteps,
         NEW u \in Threads, pc[u] \in PastJoin, held'[u] = held[u],
         held'[u] = pending'
  PROVE  held[u] = pending
<1>1. held[u] # NoIntent
  BY DEF LifecycleInvariant, OutcomeOrder, FinalizesPending, PastJoin,
         HoldsTerminal, FinalizeLabels
<1>2. held[u].id \in Nat /\ held[u].id <= decisions /\ decisions \in Nat
  BY IntentIds DEF TypeOK, IntentsAreFresh
<1>3. pending' = held[u]
  OBVIOUS
<1>4. \A n, d \in Nat : n <= d => n # d + 1
  OBVIOUS
<1>5. held[u].id # decisions + 1
  BY <1>2, <1>4
<1>6. pending'.id # decisions + 1
  BY <1>3, <1>5
<1> QED
  BY <1>1, <1>3, <1>6 DEF IntentSteps

\* A step that moves one thread, puts no worker to work, releases no mission
\* and takes no thread past its join.
LEMMA TurnUndisturbed ==
  ASSUME TypeOK, TypeOK', LifecycleInvariant, TurnInvariant, IntentSteps,
         NEW t \in Threads,
         \A u \in Threads \ {t} :
           pc'[u] = pc[u] /\ held'[u] = held[u] /\ target'[u] = target[u],
         held'[t] \in {held[t], pending, pending', NoIntent},
         t \in Workers /\ pc'[t] \in Working => pc[t] \in Working,
         pc'[t] # "run_spawn", pc'[t] \notin PastJoin,
         worker' = worker,
         phase \in Active => phase' \in Active
  PROVE  TurnInvariant'
<1>1. IntentsAreFresh'
  BY FreshUndisturbed DEF TurnInvariant
<1>2. \A w \in Workers : pc'[w] \in Working => pc[w] \in Working
  BY WorkersAreThreads
<1>3. WorkersInTurn'
  BY <1>2 DEF TurnInvariant, WorkersInTurn
<1>4. JoinedInTime'
  <2> SUFFICES ASSUME NEW u \in Threads, pc'[u] \in PastJoin, held'[u] = pending',
                      NEW w \in Workers \ {u}, pc'[w] \in Working
               PROVE  pc'[u] = "joining" /\ target'[u] = w
    BY DEF JoinedInTime
  <2>1. u # t /\ pc'[u] = pc[u] /\ held'[u] = held[u] /\ target'[u] = target[u]
    OBVIOUS
  <2>2. held[u] = pending
    BY <2>1, FinalizesTheSame DEF TurnInvariant
  <2> QED
    BY <1>2, <2>1, <2>2 DEF TurnInvariant, JoinedInTime
<1> QED
  BY <1>1, <1>3, <1>4 DEF TurnInvariant

\* Requests put nobody to work.
LEMMA TurnRequest ==
  ASSUME TypeOK, TypeOK', LifecycleInvariant, TurnInvariant,
         NEW t \in Callers, Request(t), phase \in Active => phase' \in Active
  PROVE  TurnInvariant'
<1>0. t \in Threads /\ t \notin Workers
  BY CallersAreNoWorkers DEF Threads
<1>1. IntentSteps
  <2>1. UNCHANGED intents \/ (\E outcome : Decide(outcome, FALSE))
          \/ (\E retryable : FailSection(retryable))
    BY DEF Request, PauseRequest, ResumeRequest, CompleteRequest, FinishRequest,
           FailRequest, FailAfterRefused, RetryCleanup
  <2> QED
    BY <2>1, KeptIntentSteps, DecideSteps, FailSectionSteps
<1>2. worker' = worker /\ UNCHANGED target
  BY DEF Request, PauseRequest, ResumeRequest, CompleteRequest, FinishRequest,
         FailRequest, FailAfterRefused, RetryCleanup, locals
<1>3. \E label \in {"pause_enter", "resume_enter", "idle", "join", "retry", "raised"} :
        pc' = [pc EXCEPT ![t] = label]
  BY DEF Request, PauseRequest, ResumeRequest, CompleteRequest, FinishRequest,
         FailRequest, FailAfterRefused, RetryCleanup, Goto
<1>4. held' = held \/ \E i \in {pending, pending', NoIntent} :
        held' = [held EXCEPT ![t] = i]
  BY DEF Request, PauseRequest, ResumeRequest, CompleteRequest, FinishRequest,
         FailRequest, FailAfterRefused, RetryCleanup, locals
<1>5. \A u \in Threads \ {t} : pc'[u] = pc[u] /\ held'[u] = held[u]
  BY <1>3, <1>4 DEF TypeOK
<1>6. held'[t] \in {held[t], pending, pending', NoIntent}
  BY <1>0, <1>4 DEF TypeOK
<1>7. pc'[t] # "run_spawn" /\ pc'[t] \notin PastJoin
  BY <1>0, <1>3 DEF TypeOK, PastJoin, HoldsTerminal
<1> QED
  BY <1>0, <1>1, <1>2, <1>5, <1>6, <1>7, TurnUndisturbed

\* Neither do pausing and resuming.
LEMMA TurnLifecycleCallback ==
  ASSUME TypeOK, TypeOK', LifecycleInvariant, TurnInvariant,
         NEW t \in Callers, LifecycleCallback(t), phase \in Active => phase' \in Active
  PROVE  TurnInvariant'
<1> USE DEF LifecycleCallback, EnterLifecycleCallback, LifecycleCallbackReturns,
            LifecycleCallbackRaises, LifecycleCallbackExits, CommitPauseResume
<1>0. t \in Threads /\ t \notin Workers
  BY CallersAreNoWorkers DEF Threads
<1>1. IntentSteps
  BY KeptIntentSteps
<1>2. worker' = worker /\ UNCHANGED target
  BY DEF locals
<1>3. \E label \in {"in_pause", "in_resume", "pause_commit", "resume_commit",
                    "fail_after", "join", "idle"} :
        pc' = [pc EXCEPT ![t] = label]
  BY DEF Goto
<1>4. held' = held \/ held' = [held EXCEPT ![t] = pending]
  BY DEF locals
<1>5. \A u \in Threads \ {t} : pc'[u] = pc[u] /\ held'[u] = held[u]
  BY <1>3, <1>4 DEF TypeOK
<1>6. held'[t] \in {held[t], pending, pending', NoIntent}
  BY <1>0, <1>4 DEF TypeOK
<1>7. pc'[t] # "run_spawn" /\ pc'[t] \notin PastJoin
  BY <1>0, <1>3 DEF TypeOK, PastJoin, HoldsTerminal
<1> QED
  BY <1>0, <1>1, <1>2, <1>5, <1>6, <1>7, TurnUndisturbed

\* The scheduler's own steps, likewise.
LEMMA TurnScheduler ==
  ASSUME TypeOK, TypeOK', LifecycleInvariant, TurnInvariant,
         PromoteQueued \/ QueueTimesOut \/ NoticeTimeout,
         phase \in Active => phase' \in Active
  PROVE  TurnInvariant'
<1> USE DEF PromoteQueued, QueueTimesOut, NoticeTimeout
<1>0. Scheduler \in Threads /\ Scheduler \notin Workers
  BY CallersAreNoWorkers DEF Threads, Callers
<1>1. IntentSteps
  BY KeptIntentSteps
<1>2. worker' = worker /\ UNCHANGED <<held, target>>
  BY DEF locals
<1>3. \E label \in {"run_enter", "idle", "fail_after"} :
        pc' = [pc EXCEPT ![Scheduler] = label]
  BY DEF Goto
<1>4. \A u \in Threads \ {Scheduler} : pc'[u] = pc[u]
  BY <1>3 DEF TypeOK
<1>5. pc'[Scheduler] # "run_spawn" /\ pc'[Scheduler] \notin PastJoin
  BY <1>0, <1>3 DEF TypeOK, PastJoin, HoldsTerminal
<1> QED
  BY <1>0, <1>1, <1>2, <1>4, <1>5, TurnUndisturbed

\* A callback that decides stays in its callback; nobody holds the new intent.
LEMMA TurnCallbackDecides ==
  ASSUME TypeOK, TypeOK', LifecycleInvariant, TurnInvariant,
         NEW t \in Threads, NEW outcome \in Outcomes, CallbackDecides(t, outcome),
         phase \in Active => phase' \in Active
  PROVE  TurnInvariant'
<1>1. IntentSteps
  BY DecideSteps DEF CallbackDecides
<1>2. UNCHANGED <<worker, pc, held, target>> /\ pc[t] \in UserCode
  BY DEF CallbackDecides, locals
<1>3. pc'[t] # "run_spawn" /\ pc'[t] \notin PastJoin
  BY <1>2 DEF UserCode, PastJoin, HoldsTerminal
<1> QED
  BY <1>1, <1>2, <1>3, TurnUndisturbed

\* A worker only goes on working, or ends.
LEMMA TurnWork ==
  ASSUME TypeOK, TypeOK', LifecycleInvariant, TurnInvariant,
         NEW w \in Workers, Work(w), phase \in Active => phase' \in Active
  PROVE  TurnInvariant'
<1>0. w \in Threads
  BY WorkersAreThreads
<1>1. CASE WorkerEnd(w)
  <2>1. /\ pc[w] = "w_end" /\ pc' = [pc EXCEPT ![w] = "done"]
        /\ worker' = IF worker = w THEN 0 ELSE worker
        /\ UNCHANGED <<phase, pending, decisions, held, target>>
    BY <1>1 DEF WorkerEnd, Goto, state, intents, locals
  <2>2. /\ \A u \in Threads \ {w} : pc'[u] = pc[u]
        /\ pc'[w] = "done"
    BY <1>0, <2>1 DEF TypeOK
  <2>3. pc[w] \notin Working /\ pc'[w] \notin Working \cup PastJoin
    BY <2>1, <2>2 DEF Working, PastJoin, HoldsTerminal, FinalizeLabels
  <2>4. \A v \in Workers : pc'[v] \in Working => v # w /\ pc[v] \in Working
    BY <2>2, <2>3, WorkersAreThreads
  <2>5. WorkersInTurn'
    BY <2>1, <2>2, <2>4 DEF TurnInvariant, WorkersInTurn
  <2>6. JoinedInTime'
    BY <2>1, <2>2, <2>3, <2>4 DEF TurnInvariant, JoinedInTime
  <2>7. IntentsAreFresh'
    BY <2>1 DEF TurnInvariant, IntentsAreFresh
  <2> QED
    BY <2>5, <2>6, <2>7 DEF TurnInvariant
<1>2. CASE ~WorkerEnd(w)
  <2> USE <1>2 DEF Work, WorkerBegin, WorkerRecheck, WorkerCallbackReturns,
              WorkerCallbackRaises, WorkerCallbackExits, WorkerExcept, WorkerLoop,
              WorkerTick, WorkerFinal
  <2>1. IntentSteps
    <3>1. UNCHANGED intents \/ Decide(CANCELLED, FALSE) \/ FailSection(TRUE)
      BY DEF intents
    <3> QED
      BY <3>1, KeptIntentSteps, DecideSteps, FailSectionSteps
  <2>2. worker' = worker /\ UNCHANGED target
    BY DEF locals
  <2>3. \E label \in {"w_recheck", "in_start", "loop", "w_tick", "in_tick",
                      "w_except", "final", "w_end", "join"} :
          pc' = [pc EXCEPT ![w] = label]
    BY DEF Goto
  <2>4. held' = held \/ held' = [held EXCEPT ![w] = pending]
    BY DEF locals
  <2>5. \A u \in Threads \ {w} : pc'[u] = pc[u] /\ held'[u] = held[u]
    BY <2>3, <2>4 DEF TypeOK
  <2>6. held'[w] \in {held[w], pending, pending', NoIntent}
    BY <1>0, <2>4 DEF TypeOK
  <2>7. pc'[w] # "run_spawn" /\ pc'[w] \notin PastJoin
    BY <1>0, <2>3 DEF TypeOK, PastJoin, HoldsTerminal
  <2>8. pc[w] \in Working
    BY DEF Working
  <2> QED
    BY <1>0, <2>1, <2>2, <2>5, <2>6, <2>7, <2>8, TurnUndisturbed
<1> QED
  BY <1>1, <1>2

\* A launch begins while nobody works, and its worker starts alone.
LEMMA TurnLaunch ==
  ASSUME TypeOK, TypeOK', LifecycleInvariant, TurnInvariant,
         NEW t \in Callers, Launch(t), phase \in Active => phase' \in Active
  PROVE  TurnInvariant'
<1>0. t \in Threads /\ t \notin Workers
  BY CallersAreNoWorkers DEF Threads
<1>1. CASE RunAdmit(t) \/ RunBlocked(t) \/ RunStale(t)
  <2>1. IntentSteps /\ UNCHANGED <<worker, held, target>>
    BY <1>1, KeptIntentSteps DEF RunAdmit, RunBlocked, RunStale, locals
  <2>2. \E label \in {"idle", "run_start", "dead", "raised"} :
          pc' = [pc EXCEPT ![t] = label]
    BY <1>1 DEF RunAdmit, RunBlocked, RunStale, Goto
  <2>3. \A u \in Threads \ {t} : pc'[u] = pc[u]
    BY <2>2 DEF TypeOK
  <2>4. pc'[t] # "run_spawn" /\ pc'[t] \notin PastJoin
    BY <1>0, <2>2 DEF TypeOK, PastJoin, HoldsTerminal
  <2> QED
    BY <1>0, <2>1, <2>3, <2>4, TurnUndisturbed
<1>2. CASE RunStart(t)
  <2>1. /\ pc[t] = "run_start" /\ pc' = [pc EXCEPT ![t] = "run_spawn"]
        /\ MayFollow(phase, STARTING) /\ phase' = STARTING
        /\ pending = NoIntent
        /\ UNCHANGED <<pending, decisions, worker, held>>
    BY <1>2 DEF RunStart, Goto, intents
  <2>2. phase \notin Active
    BY <2>1 DEF TypeOK, MayFollow, Successors, Phases, Active, Terminal, REGISTERED,
                QUEUED, STARTING, RUNNING, PAUSING, PAUSED, STOPPING, STOPPED,
                SUCCEEDED, FAILED, CANCELLED
  <2>3. /\ \A u \in Threads \ {t} : pc'[u] = pc[u]
        /\ pc'[t] = "run_spawn"
    BY <1>0, <2>1 DEF TypeOK
  <2>4. \A w \in Workers : pc'[w] \notin Working
    BY <1>0, <2>2, <2>3, WorkersAreThreads DEF TurnInvariant, WorkersInTurn
  <2>5. WorkersInTurn' /\ JoinedInTime'
    BY <2>4 DEF WorkersInTurn, JoinedInTime
  <2>6. IntentsAreFresh'
    BY <2>1 DEF TurnInvariant, IntentsAreFresh
  <2> QED
    BY <2>5, <2>6 DEF TurnInvariant
<1>3. CASE RunSpawn(t)
  <2>1. /\ pc[t] = "run_spawn"
        /\ UNCHANGED <<phase, pending, decisions, held>>
        /\ \A w \in Workers : pc[w] \notin Working
    BY <1>0, <1>3 DEF RunSpawn, state, intents, TurnInvariant, WorkersInTurn
  <2>2. IntentsAreFresh'
    BY <2>1 DEF TurnInvariant, IntentsAreFresh
  <2>3. \A u \in Threads \ {t} : pc[u] # "run_spawn"
    BY <1>0, <2>1 DEF LifecycleInvariant, LaunchesOnce, HoldsRun
  <2>4. CASE generation = target[t] /\ phase = STARTING
    <3>1. /\ worker' = generation /\ generation \in Workers
          /\ pc' = [pc EXCEPT ![t] = "idle", ![generation] = "w_begin"]
      BY <1>0, <1>3, <2>1, <2>4 DEF RunSpawn, LifecycleInvariant, LaunchesOnce
    <3>2. /\ pc'[t] = "idle" /\ pc'[generation] = "w_begin"
          /\ \A u \in Threads \ {t, generation} : pc'[u] = pc[u]
      BY <1>0, <3>1, WorkersAreThreads DEF TypeOK
    <3>3. \A w \in Workers : pc'[w] \in Working => w = generation
      BY <1>0, <2>1, <3>2, WorkersAreThreads
    <3>4. phase' \in Active
      BY <2>1, <2>4 DEF Active
    <3>5. \A u \in Threads : pc'[u] # "run_spawn"
      BY <2>3, <3>2
    <3>6. WorkersInTurn'
      BY <3>1, <3>3, <3>4, <3>5 DEF WorkersInTurn
    <3>7. pending = NoIntent
      BY <2>4 DEF LifecycleInvariant, OutcomeOrder, IntentBinds, Interruptible,
                  Active, STARTING, STOPPING
    <3>8. ASSUME NEW u \in Threads, pc'[u] \in PastJoin, held'[u] = pending'
          PROVE  FALSE
      <4>1. u \notin {t, generation}
        BY <3>2, <3>8 DEF PastJoin, HoldsTerminal
      <4>2. pc[u] \in FinalizeLabels /\ held[u] = NoIntent
        BY <2>1, <3>2, <3>7, <3>8, <4>1 DEF PastJoin, HoldsTerminal, FinalizeLabels
      <4> QED
        BY <4>2 DEF LifecycleInvariant, OutcomeOrder, FinalizesPending
    <3>9. JoinedInTime'
      BY <3>8 DEF JoinedInTime
    <3> QED
      BY <2>2, <3>6, <3>9 DEF TurnInvariant
  <2>5. CASE ~(generation = target[t] /\ phase = STARTING)
    <3>1. pc' = [pc EXCEPT ![t] = "idle"]
      BY <1>3, <2>5 DEF RunSpawn, Goto
    <3>2. \A w \in Workers : pc'[w] \notin Working
      BY <1>0, <2>1, <3>1, WorkersAreThreads DEF TypeOK
    <3> QED
      BY <2>2, <3>2 DEF TurnInvariant, WorkersInTurn, JoinedInTime
  <2> QED
    BY <2>4, <2>5
<1> QED
  BY <1>1, <1>2, <1>3 DEF Launch

\* A finalizing thread that goes on under terminal_lock finds nobody else at
\* work: it read the worker before, or joined it.
LEMMA TurnGoesOn ==
  ASSUME TypeOK, TypeOK', LifecycleInvariant, TurnInvariant, NEW t \in Threads,
         NEW label \in {"terminal", "clean", "clean_enter", "in_stop", "commit"},
         pc[t] \in FinalizeLabels, pc' = [pc EXCEPT ![t] = label],
         held[t] = pending =>
           \A w \in Workers \ {t} : pc[w] \notin Working,
         UNCHANGED <<phase, pending, decisions, worker, held>>,
         \A u \in Threads \ {t} : target'[u] = target[u]
  PROVE  TurnInvariant'
<1>1. /\ \A u \in Threads \ {t} : pc'[u] = pc[u]
      /\ pc'[t] = label
  BY DEF TypeOK
<1>2. pc[t] \in Working /\ pc'[t] \in FinalizeLabels /\ pc'[t] # "run_spawn"
  BY <1>1 DEF Working, FinalizeLabels
<1>3. \A w \in Workers : pc'[w] \in Working => pc[w] \in Working
  BY <1>1, <1>2, WorkersAreThreads
<1>4. WorkersInTurn'
  BY <1>1, <1>2, <1>3 DEF TurnInvariant, WorkersInTurn
<1>5. IntentsAreFresh'
  BY DEF TurnInvariant, IntentsAreFresh
<1>6. JoinedInTime'
  BY <1>1, <1>3 DEF TurnInvariant, JoinedInTime
<1> QED
  BY <1>4, <1>5, <1>6 DEF TurnInvariant

\* A finalizing thread that gives up only stops working.
LEMMA TurnGivesUp ==
  ASSUME TypeOK, TypeOK', LifecycleInvariant, TurnInvariant, NEW t \in Threads,
         NEW label \in {"idle", "raised", "w_end", "done"},
         pc' = [pc EXCEPT ![t] = label], ForgetLocals(t),
         UNCHANGED <<phase, pending, decisions, worker>>
  PROVE  TurnInvariant'
<1>1. \A u \in Threads \ {t} :
        pc'[u] = pc[u] /\ held'[u] = held[u] /\ target'[u] = target[u]
  BY DEF TypeOK, ForgetLocals
<1>2. held'[t] = NoIntent /\ pc'[t] = label
  BY DEF TypeOK, ForgetLocals
<1>3. pc'[t] \notin Working \cup PastJoin \cup {"run_spawn"}
  BY <1>2 DEF Working, PastJoin, HoldsTerminal, FinalizeLabels
<1>4. IntentSteps
  BY KeptIntentSteps DEF intents
<1> QED
  BY <1>1, <1>2, <1>3, <1>4, TurnUndisturbed

\* The commit releases the mission when nobody else is at work any more.
LEMMA TurnCommit ==
  ASSUME TypeOK, TypeOK', LifecycleInvariant, TurnInvariant, NEW t \in Threads,
         Commit(t)
  PROVE  TurnInvariant'
<1>1. /\ pc[t] = "commit" /\ held[t] = pending
      /\ \A w \in Workers \ {t} : pc[w] \notin Working
  BY DEF Commit, LifecycleInvariant, OutcomeOrder, FinalizesPending, HoldsTerminal,
         PastJoin, TurnInvariant, JoinedInTime
<1>2. \E label \in {"idle", "raised", "w_end", "done"} :
        pc' = [pc EXCEPT ![t] = label]
  BY DEF Commit, Goto, Returned, OtherRaised
<1>3. /\ \A u \in Threads \ {t} : pc'[u] = pc[u] /\ held'[u] = held[u]
      /\ held'[t] = NoIntent
  BY <1>2 DEF Commit, ForgetLocals, TypeOK
<1>4. pc'[t] \notin Working
  BY <1>2 DEF TypeOK, Working, FinalizeLabels
<1>5. \A w \in Workers : pc'[w] \notin Working
  BY <1>1, <1>3, <1>4, WorkersAreThreads
<1>6. WorkersInTurn' /\ JoinedInTime'
  BY <1>5 DEF WorkersInTurn, JoinedInTime
<1>7. IntentSteps
  BY KeptIntentSteps DEF Commit, IntentSteps, TypeOK, intents
<1>8. IntentsAreFresh'
  BY <1>3, <1>7, FreshUndisturbed DEF TurnInvariant
<1> QED
  BY <1>6, <1>8 DEF TurnInvariant

\* Finalizing keeps the turns.
LEMMA TurnFinalize ==
  ASSUME TypeOK, TypeOK', LifecycleInvariant, TurnInvariant, NEW t \in Threads,
         Finalize(t)
  PROVE  TurnInvariant'
<1>1. CASE Join(t)
  <2>1. /\ pc[t] = "join"
        /\ UNCHANGED <<phase, pending, decisions, worker, held>>
    BY <1>1 DEF Join, state, intents
  <2>2. CASE worker \in {0, t}
    <3>1. pc' = [pc EXCEPT ![t] = "terminal"] /\ UNCHANGED target
      BY <1>1, <2>2 DEF Join, Goto
    <3>2. \A w \in Workers \ {t} : pc[w] \notin Working
      BY <2>2 DEF TurnInvariant, WorkersInTurn, Workers
    <3> QED
      BY <2>1, <3>1, <3>2, TurnGoesOn DEF FinalizeLabels
  <2>3. CASE worker \notin {0, t}
    <3>1. /\ pc' = [pc EXCEPT ![t] = "joining"]
          /\ target' = [target EXCEPT ![t] = worker]
      BY <1>1, <2>3 DEF Join, Goto
    <3>2. /\ \A u \in Threads \ {t} : pc'[u] = pc[u] /\ target'[u] = target[u]
          /\ pc'[t] = "joining" /\ target'[t] = worker
      BY <3>1 DEF TypeOK
    <3>3. \A w \in Workers : pc'[w] \in Working => pc[w] \in Working
      BY <2>1, <3>2, WorkersAreThreads DEF Working, FinalizeLabels
    <3>4. WorkersInTurn'
      BY <2>1, <3>2, <3>3 DEF TurnInvariant, WorkersInTurn
    <3>5. IntentsAreFresh'
      BY <2>1 DEF TurnInvariant, IntentsAreFresh
    <3>6. JoinedInTime'
      BY <2>1, <3>2, <3>3 DEF TurnInvariant, JoinedInTime, WorkersInTurn
    <3> QED
      BY <3>4, <3>5, <3>6 DEF TurnInvariant
  <2> QED
    BY <2>2, <2>3
<1>2. CASE Joined(t)
  <2>1. /\ pc[t] = "joining" /\ pc[target[t]] = "done"
        /\ pc' = [pc EXCEPT ![t] = "terminal"]
        /\ target' = [target EXCEPT ![t] = 0]
        /\ UNCHANGED <<phase, pending, decisions, worker, held>>
    BY <1>2 DEF Joined, Goto, state, intents
  <2>2. \A u \in Threads \ {t} : target'[u] = target[u]
    BY <2>1 DEF TypeOK
  <2>3. held[t] = pending => \A w \in Workers \ {t} : pc[w] \notin Working
    BY <2>1 DEF TurnInvariant, JoinedInTime, PastJoin, Working, FinalizeLabels
  <2> QED
    BY <2>1, <2>2, <2>3, TurnGoesOn DEF FinalizeLabels
<1>3. CASE JoinTimesOut(t)
  BY <1>3, TurnGivesUp DEF JoinTimesOut, Goto, OtherRaised, state, intents
<1>4. CASE EnterTerminal(t)
  <2>1. /\ pc[t] = "terminal"
        /\ UNCHANGED <<phase, pending, decisions, worker>>
    BY <1>4 DEF EnterTerminal, state, intents
  <2>2. CASE Goto(t, "clean") /\ UNCHANGED locals
    <3>1. held[t] = pending => \A w \in Workers \ {t} : pc[w] \notin Working
      BY <2>1 DEF TurnInvariant, JoinedInTime, PastJoin
    <3> QED
      BY <2>1, <2>2, <3>1, TurnGoesOn DEF Goto, locals, FinalizeLabels
  <2>3. CASE /\ ForgetLocals(t)
             /\ Goto(t, Returned(t)) \/ Goto(t, OtherRaised(t)) \/ Goto(t, CleanupRaised(t))
    BY <2>1, <2>3, TurnGivesUp DEF Goto, Returned, OtherRaised, CleanupRaised
  <2> QED
    BY <1>4, <2>2, <2>3 DEF EnterTerminal
<1>5. CASE Clean(t) \/ EnterCleanup(t) \/ CleanupSucceeds(t)
  <2>1. /\ pc[t] \in {"clean", "clean_enter", "in_stop"}
        /\ UNCHANGED <<phase, pending, decisions, worker, held, target>>
    BY <1>5 DEF Clean, EnterCleanup, CleanupSucceeds, state, intents, locals
  <2>2. \E label \in {"clean_enter", "in_stop", "commit"} :
          pc' = [pc EXCEPT ![t] = label]
    BY <1>5 DEF Clean, EnterCleanup, CleanupSucceeds, Goto
  <2>3. held[t] = pending => \A w \in Workers \ {t} : pc[w] \notin Working
    BY <2>1 DEF TurnInvariant, JoinedInTime, PastJoin, HoldsTerminal
  <2> QED
    BY <2>1, <2>2, <2>3, TurnGoesOn DEF FinalizeLabels
<1>6. CASE CleanupFails(t)
  BY <1>6, TurnGivesUp DEF CleanupFails, Goto, CleanupRaised, state, intents
<1>7. CASE Commit(t)
  BY <1>7, TurnCommit
<1> QED
  BY <1>1, <1>2, <1>3, <1>4, <1>5, <1>6, <1>7 DEF Finalize

\* Every step keeps the turns.
LEMMA TurnStep ==
  TypeOK /\ LifecycleInvariant /\ TurnInvariant /\ [Next]_vars => TurnInvariant'
<1> SUFFICES ASSUME TypeOK, LifecycleInvariant, TurnInvariant, [Next]_vars
             PROVE  TurnInvariant'
  OBVIOUS
<1>0. TypeOK'
  BY TypeStep
<1>1. ASSUME NEW t \in Callers, Request(t) PROVE TurnInvariant'
  BY <1>0, <1>1, RequestKeepsActive, TurnRequest
<1>2. ASSUME NEW t \in Callers, LifecycleCallback(t) PROVE TurnInvariant'
  BY <1>0, <1>2, OthersKeepActive, TurnLifecycleCallback
<1>3. ASSUME NEW t \in Callers, Launch(t) PROVE TurnInvariant'
  BY <1>0, <1>3, OthersKeepActive, TurnLaunch
<1>4. CASE PromoteQueued \/ QueueTimesOut \/ NoticeTimeout
  BY <1>0, <1>4, OthersKeepActive, TurnScheduler
<1>5. ASSUME NEW w \in Workers, Work(w) PROVE TurnInvariant'
  BY <1>0, <1>5, OthersKeepActive, TurnWork
<1>6. ASSUME NEW t \in Threads, Finalize(t) PROVE TurnInvariant'
  BY <1>0, <1>6, TurnFinalize
<1>7. ASSUME NEW t \in Threads, NEW outcome \in Outcomes, CallbackDecides(t, outcome)
      PROVE  TurnInvariant'
  BY <1>0, <1>7, OthersKeepActive, TurnCallbackDecides
<1>8. CASE UNCHANGED vars
  <2> UNCHANGED <<phase, pending, decisions, worker, pc, held, target>>
    BY <1>8 DEF vars, state, intents, locals
  <2> QED
    BY DEF TurnInvariant, WorkersInTurn, IntentsAreFresh, JoinedInTime
<1> QED
  BY <1>1, <1>2, <1>3, <1>4, <1>5, <1>6, <1>7, <1>8 DEF Next

\* Two workers of one mission never run at the same time: a launch waits for
\* the commit of the last outcome, and whoever commits has joined its worker.
THEOREM WorkersTakeTurns == Spec => []OneRunningWorker
<1>1. Init => TurnInvariant
  BY InitTurn
<1>2. TypeOK /\ LifecycleInvariant /\ TurnInvariant /\ [Next]_vars => TurnInvariant'
  BY TurnStep
<1>3. TurnInvariant => OneRunningWorker
  BY DEF TurnInvariant, WorkersInTurn, OneRunningWorker, Working
<1> QED
  BY <1>1, <1>2, <1>3, InvariantHolds, PTL DEF Spec
------------------------------------------------------------------------------
\* A caller that comes back without an error finds its launch settled.

\* A thread holds an intent only while it finalizes it, or is about to again.
HeldToFinalize ==
  \A t \in Threads :
    pc[t] \notin FinalizeLabels \cup {"retry"} => held[t] = NoIntent

\* No step outside of finalizing takes a caller that holds an intent back.
NobodyReturns == \A c \in Callers : held[c] # NoIntent => pc'[c] # "idle"

\* Nobody holds an intent at first.
LEMMA InitHeld == Init => HeldToFinalize
  BY DEF Init, HeldToFinalize

\* A step that moves one thread, which gets or keeps an intent only to finalize
\* it, and goes idle only without one.
LEMMA HeldUndisturbed ==
  ASSUME HeldToFinalize, NEW t \in Threads,
         \A u \in Threads \ {t} : pc'[u] = pc[u] /\ held'[u] = held[u],
         pc'[t] \notin FinalizeLabels \cup {"retry"} => held'[t] = NoIntent,
         held[t] = NoIntent \/ pc'[t] # "idle"
  PROVE  HeldToFinalize' /\ NobodyReturns
<1>1. HeldToFinalize'
  BY DEF HeldToFinalize
<1>2. ASSUME NEW c \in Callers, held[c] # NoIntent PROVE pc'[c] # "idle"
  <2>1. c \in Threads
    BY DEF Threads
  <2>2. CASE c = t
    BY <1>2, <2>2
  <2>3. CASE c # t
    BY <1>2, <2>1, <2>3 DEF HeldToFinalize, FinalizeLabels
  <2> QED
    BY <2>2, <2>3
<1> QED
  BY <1>1, <1>2 DEF NobodyReturns

\* Requests either finalize the intent they take up or take up none.
LEMMA HeldRequest ==
  ASSUME TypeOK, HeldToFinalize, NEW t \in Callers, Request(t)
  PROVE  HeldToFinalize' /\ NobodyReturns
<1> USE DEF PauseRequest, ResumeRequest, CompleteRequest, FinishRequest,
            FailRequest, FailAfterRefused, RetryCleanup, Issues
<1>0. t \in Threads
  BY DEF Threads
<1>1. pc[t] \in {"idle", "raised", "fail_after", "retry"}
  BY DEF Request
<1>2. pc[t] # "retry" => held[t] = NoIntent
  BY <1>0, <1>1 DEF HeldToFinalize, FinalizeLabels
<1>3. \/ /\ pc[t] # "retry" /\ held' = held
         /\ \E label \in {"pause_enter", "resume_enter", "idle"} :
              pc' = [pc EXCEPT ![t] = label]
      \/ \E i \in {pending, pending', NoIntent} :
           /\ held' = [held EXCEPT ![t] = i]
           /\ \/ \E label \in {"join", "retry"} : pc' = [pc EXCEPT ![t] = label]
              \/ i = NoIntent /\ pc' = [pc EXCEPT ![t] = "raised"]
  BY DEF Request, Goto, locals
<1>4. \A u \in Threads \ {t} : pc'[u] = pc[u] /\ held'[u] = held[u]
  BY <1>3 DEF TypeOK
<1>5. /\ pc'[t] \notin FinalizeLabels \cup {"retry"} => held'[t] = NoIntent
      /\ held[t] = NoIntent \/ pc'[t] # "idle"
  BY <1>0, <1>2, <1>3 DEF TypeOK, FinalizeLabels
<1> QED
  BY <1>0, <1>4, <1>5, HeldUndisturbed

\* A callback of pause() or resume() that exits takes up the pending intent.
LEMMA HeldLifecycleCallback ==
  ASSUME TypeOK, HeldToFinalize, NEW t \in Callers, LifecycleCallback(t)
  PROVE  HeldToFinalize' /\ NobodyReturns
<1> USE DEF EnterLifecycleCallback, LifecycleCallbackReturns, LifecycleCallbackRaises,
            LifecycleCallbackExits, CommitPauseResume
<1>0. t \in Threads
  BY DEF Threads
<1>1. held[t] = NoIntent
  BY <1>0 DEF LifecycleCallback, HeldToFinalize, FinalizeLabels
<1>2. \/ /\ held' = held
         /\ \E label \in {"in_pause", "in_resume", "pause_commit", "resume_commit",
                          "fail_after", "idle"} : pc' = [pc EXCEPT ![t] = label]
      \/ /\ held' = [held EXCEPT ![t] = pending]
         /\ pc' = [pc EXCEPT ![t] = "join"]
  BY DEF LifecycleCallback, Goto, locals
<1>3. \A u \in Threads \ {t} : pc'[u] = pc[u] /\ held'[u] = held[u]
  BY <1>2 DEF TypeOK
<1>4. pc'[t] \notin FinalizeLabels \cup {"retry"} => held'[t] = NoIntent
  BY <1>0, <1>1, <1>2 DEF TypeOK, FinalizeLabels
<1> QED
  BY <1>0, <1>1, <1>3, <1>4, HeldUndisturbed

\* Launching takes up nothing.
LEMMA HeldLaunch ==
  ASSUME TypeOK, LifecycleInvariant, HeldToFinalize, NEW t \in Callers, Launch(t)
  PROVE  HeldToFinalize' /\ NobodyReturns
<1> USE DEF RunAdmit, RunStart, RunBlocked, RunStale, RunSpawn, Issues
<1>0. t \in Threads /\ t \notin Workers
  BY CallersAreNoWorkers DEF Threads
<1>1. held[t] = NoIntent /\ held' = held
  BY <1>0 DEF Launch, HeldToFinalize, FinalizeLabels, locals
<1>2. CASE \E label : pc' = [pc EXCEPT ![t] = label]
  <2>1. \A u \in Threads \ {t} : pc'[u] = pc[u]
    BY <1>2 DEF TypeOK
  <2> QED
    BY <1>0, <1>1, <2>1, HeldUndisturbed
<1>3. CASE RunSpawn(t) /\ pc' = [pc EXCEPT ![t] = "idle", ![generation] = "w_begin"]
  <2>1. generation \in Workers /\ pc[generation] = "unborn"
    BY <1>0, <1>3 DEF LifecycleInvariant, LaunchesOnce
  <2>2. held[generation] = NoIntent /\ generation \in Threads
    BY <2>1, WorkersAreThreads DEF HeldToFinalize, FinalizeLabels
  <2>3. \A u \in Threads \ {t, generation} : pc'[u] = pc[u]
    BY <1>3 DEF TypeOK
  <2>4. HeldToFinalize'
    BY <1>1, <2>2, <2>3 DEF HeldToFinalize
  <2>5. ASSUME NEW c \in Callers, held[c] # NoIntent PROVE pc'[c] # "idle"
    <3>1. c \in Threads /\ c \notin {t, generation}
      BY <1>1, <2>2, <2>5 DEF Threads
    <3> QED
      BY <2>3, <2>5, <3>1 DEF HeldToFinalize, FinalizeLabels
  <2> QED
    BY <2>4, <2>5 DEF NobodyReturns
<1>4. \/ \E label : pc' = [pc EXCEPT ![t] = label]
      \/ RunSpawn(t) /\ pc' = [pc EXCEPT ![t] = "idle", ![generation] = "w_begin"]
  BY DEF Launch, Goto
<1> QED
  BY <1>2, <1>3, <1>4

\* A worker takes up an intent at the end of its run.
LEMMA HeldWork ==
  ASSUME TypeOK, HeldToFinalize, NEW w \in Workers, Work(w)
  PROVE  HeldToFinalize' /\ NobodyReturns
<1> USE DEF WorkerBegin, WorkerRecheck, WorkerCallbackReturns, WorkerCallbackRaises,
            WorkerCallbackExits, WorkerExcept, WorkerLoop, WorkerTick, WorkerFinal,
            WorkerEnd
<1>0. w \in Threads
  BY WorkersAreThreads
<1>1. held[w] = NoIntent
  BY <1>0 DEF Work, HeldToFinalize, FinalizeLabels
<1>2. \/ /\ held' = held
         /\ \E label \in {"w_recheck", "in_start", "loop", "w_tick", "in_tick",
                          "w_except", "final", "done"} : pc' = [pc EXCEPT ![w] = label]
      \/ /\ held' = [held EXCEPT ![w] = pending]
         /\ pc' = [pc EXCEPT ![w] = IF pending = NoIntent THEN "w_end" ELSE "join"]
  BY DEF Work, Goto, locals
<1>3. \A u \in Threads \ {w} : pc'[u] = pc[u] /\ held'[u] = held[u]
  BY <1>2 DEF TypeOK
<1>4. pc'[w] \notin FinalizeLabels \cup {"retry"} => held'[w] = NoIntent
  BY <1>0, <1>1, <1>2 DEF TypeOK, FinalizeLabels
<1> QED
  BY <1>0, <1>1, <1>3, <1>4, HeldUndisturbed

\* The scheduler and a callback that decides take up nothing.
LEMMA HeldOthers ==
  ASSUME TypeOK, HeldToFinalize,
         \/ PromoteQueued \/ QueueTimesOut \/ NoticeTimeout
         \/ \E t \in Threads, outcome \in Outcomes : CallbackDecides(t, outcome)
  PROVE  HeldToFinalize' /\ NobodyReturns
<1>0. Scheduler \in Threads
  BY DEF Threads, Callers
<1>1. CASE PromoteQueued \/ QueueTimesOut \/ NoticeTimeout
  <2> USE DEF PromoteQueued, QueueTimesOut, NoticeTimeout, SchedulerReady
  <2>1. held[Scheduler] = NoIntent /\ held' = held
    BY <1>0, <1>1 DEF HeldToFinalize, FinalizeLabels, locals
  <2>2. \E label : pc' = [pc EXCEPT ![Scheduler] = label]
    BY <1>1 DEF Goto
  <2>3. \A u \in Threads \ {Scheduler} : pc'[u] = pc[u]
    BY <2>2 DEF TypeOK
  <2> QED
    BY <1>0, <2>1, <2>3, HeldUndisturbed
<1>2. CASE \E t \in Threads, outcome \in Outcomes : CallbackDecides(t, outcome)
  <2>1. UNCHANGED <<pc, held>>
    BY <1>2 DEF CallbackDecides, locals
  <2> QED
    BY <2>1 DEF HeldToFinalize, NobodyReturns, Threads, FinalizeLabels
<1> QED
  BY <1>1, <1>2

\* A finalizing thread keeps its intent until it forgets it, and comes back
\* without an error only from a settled launch.
LEMMA HeldFinalize ==
  ASSUME TypeOK, LifecycleInvariant, HeldToFinalize, NEW t \in Threads, Finalize(t)
  PROVE  /\ HeldToFinalize'
         /\ \A c \in Callers : held[c] # NoIntent /\ pc'[c] = "idle"
              => phase' # STOPPING \/ generation' # held[c].gen
<1> USE DEF Join, Joined, JoinTimesOut, EnterTerminal, Clean, EnterCleanup,
            CleanupSucceeds, CleanupFails, Commit
<1>1. \/ held' = held /\ \E label \in FinalizeLabels : pc' = [pc EXCEPT ![t] = label]
      \/ held' = [held EXCEPT ![t] = NoIntent] /\ \E label : pc' = [pc EXCEPT ![t] = label]
  BY DEF Finalize, Goto, ForgetLocals, locals, FinalizeLabels
<1>2. \A u \in Threads \ {t} : pc'[u] = pc[u] /\ held'[u] = held[u]
  BY <1>1 DEF TypeOK
<1>3. pc'[t] \notin FinalizeLabels => held'[t] = NoIntent
  BY <1>1 DEF TypeOK
<1>4. HeldToFinalize'
  BY <1>2, <1>3 DEF HeldToFinalize
<1>5. ASSUME NEW c \in Callers, held[c] # NoIntent, pc'[c] = "idle"
      PROVE  phase' # STOPPING \/ generation' # held[c].gen
  <2>1. c = t
    BY <1>2, <1>5 DEF HeldToFinalize, FinalizeLabels, Threads
  <2>2. \/ EnterTerminal(t) /\ Goto(t, Returned(t))
           /\ (pending = NoIntent \/ generation # held[t].gen)
        \/ Commit(t) /\ Goto(t, Returned(t))
    BY <1>5, <2>1, CallersAreNoWorkers
       DEF Finalize, Goto, TypeOK, OtherRaised, CleanupRaised, Returned
  <2>3. CASE EnterTerminal(t) /\ (pending = NoIntent \/ generation # held[t].gen)
    BY <2>1, <2>3 DEF LifecycleInvariant, OutcomeOrder, IntentBinds, state
  <2>4. CASE Commit(t) /\ Goto(t, Returned(t))
    <3>1. pc'[t] # "raised"
      BY <1>5, <2>1
    <3>2. CASE phase \in Terminal /\ UNCHANGED state
      BY <3>2 DEF state, Terminal, STOPPING, STOPPED, SUCCEEDED, FAILED, CANCELLED
    <3>3. CASE phase' \in CommitOutcome(t)
      <4>1. held[t].phase \in Terminal
        BY <1>5, <2>1, IntentFacts DEF TypeOK
      <4> QED
        BY <3>3, <4>1 DEF CommitOutcome, Terminal, QUEUED, STOPPING, STOPPED,
                          SUCCEEDED, FAILED, CANCELLED
    <3>4. CASE Goto(t, OtherRaised(t))
      BY <2>1, <3>1, <3>4, CallersAreNoWorkers DEF Goto, OtherRaised, TypeOK
    <3> QED
      BY <2>4, <3>2, <3>3, <3>4
  <2> QED
    BY <2>2, <2>3, <2>4
<1> QED
  BY <1>4, <1>5

\* stop_mission(), complete(), fail() and the others that return to their caller
\* never leave it with the intermediate STOPPING of its own launch.
THEOREM CommandsSettle == Spec => CommandSettles
<1>1. TypeOK /\ LifecycleInvariant /\ HeldToFinalize /\ [Next]_vars
        => /\ HeldToFinalize'
           /\ [\A t \in Callers :
                 held[t] # NoIntent /\ pc'[t] = "idle"
                   => phase' # STOPPING \/ generation' # held[t].gen]_vars
  <2> SUFFICES ASSUME TypeOK, LifecycleInvariant, HeldToFinalize, [Next]_vars
               PROVE  /\ HeldToFinalize'
                      /\ \/ UNCHANGED vars
                         \/ \A t \in Callers :
                              held[t] # NoIntent /\ pc'[t] = "idle"
                                => phase' # STOPPING \/ generation' # held[t].gen
    OBVIOUS
  <2>1. CASE UNCHANGED vars
    BY <2>1 DEF vars, locals, HeldToFinalize
  <2>2. CASE \E t \in Threads : Finalize(t)
    BY <2>2, HeldFinalize
  <2>3. CASE Next /\ ~ \E t \in Threads : Finalize(t)
    <3>1. HeldToFinalize' /\ NobodyReturns
      BY <2>3, HeldRequest, HeldLifecycleCallback, HeldLaunch, HeldWork, HeldOthers
         DEF Next
    <3> QED
      BY <3>1 DEF NobodyReturns
  <2> QED
    BY <2>1, <2>2, <2>3
<1> QED
  BY <1>1, InitHeld, InvariantHolds, PTL DEF Spec, CommandSettles
==============================================================================
