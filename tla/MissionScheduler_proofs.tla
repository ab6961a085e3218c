----------------------- MODULE MissionScheduler_proofs -----------------------
(***************************************************************************)
(* Theorems about MissionScheduler, for any missions, types, resources,    *)
(* policies, limits and threads.                                           *)
(*                                                                         *)
(* Of the many actions few touch the phases and the indexes, and they do   *)
(* so in six ways.  The first part sorts the actions into these ways, the *)
(* second shows that each way keeps the bookkeeping, the rest draws the    *)
(* conclusions.                                                            *)
(***************************************************************************)
EXTENDS MissionScheduler, FiniteSetTheorems, TLAPS

\* One mission changes its phase, and the indexes follow.
Moved(m, next) ==
  /\ phase' = [phase EXCEPT ![m] = next]
  /\ Reindex(m, phase[m], next)
  /\ UNCHANGED <<registered, closed, strays>>
  /\ next \in Phases
  /\ m \in registered \/ outcome[m] # Undecided
  /\ phase[m] = SUCCEEDED => m \in registered
  /\ next \in Active =>
       \/ phase[m] \in Active /\ next # STARTING
       \/ /\ phase[m] \notin Active /\ next = STARTING
          /\ m \in registered /\ MayStart(m, TRUE)
  /\ next = QUEUED =>
       Cardinality(IF phase[m] = QUEUED THEN queued \ {m} ELSE queued) < MaxQueued

\* Nothing changes, but the scheduler may look at its queue.
Still ==
  /\ UNCHANGED <<registered, closed, strays, phase, indexes>>
  /\ scan' \subseteq scan \cup (registered \cap {m \in queued : phase[m] = QUEUED})

\* An id comes into the queue beside the registry.
Strays(m) ==
  /\ Cardinality(queued) < MaxQueued
  /\ queued' = queued \cup {m}
  /\ strays' = strays \cup {m}
  /\ UNCHANGED <<registered, closed, phase, active, owners, succeeded, scan>>

Registers(m) ==
  /\ ~closed
  /\ registered' = registered \cup {m}
  /\ UNCHANGED <<closed, strays, phase, indexes, scan>>

Unregisters(m) ==
  /\ m \in registered
  /\ phase[m] \notin Active \cup {QUEUED}
  /\ registered' = registered \ {m}
  /\ Reindex(m, phase[m], REGISTERED)
  /\ phase' = [phase EXCEPT ![m] = REGISTERED]
  /\ UNCHANGED <<closed, strays>>

Closes ==
  /\ closed'
  /\ registered' = {}
  /\ active' = {} /\ queued' = {} /\ scan' = {}
  /\ owners' = [r \in Resources |-> {}]
  /\ succeeded' = [k \in Types |-> 0]
  /\ UNCHANGED <<phase, strays>>

Change ==
  \/ Still
  \/ Closes
  \/ \E m \in Missions :
       \/ Registers(m) \/ Unregisters(m) \/ Strays(m)
       \/ \E next \in Phases : Moved(m, next)

------------------------------------------------------------------------------
\* A launch leaves the phases alone, queues its mission, or starts it.
LEMMA LaunchChanges ==
  ASSUME TypeOK, NEW t \in Threads, Launch(t)
  PROVE  Change
<1> USE DEF engine, lives
<1>1. CASE EnterLaunch(t) \/ LockLaunch(t) \/ LaunchRaises(t)
  BY <1>1 DEF EnterLaunch, LockLaunch, LaunchRaises, Started, Change, Still, indexes
<1>2. ASSUME goal[t] \in registered, Queue(goal[t]),
             UNCHANGED <<registered, closed, strays>>
      PROVE  Change
  <2>1. CASE phase[goal[t]] = QUEUED
    BY <1>2, <2>1 DEF Queue, Change, Still, indexes
  <2>2. CASE phase[goal[t]] # QUEUED
    <3>1. goal[t] \in Missions /\ QUEUED \in Phases /\ QUEUED \notin Active
      BY <1>2 DEF TypeOK, Phases, Active, QUEUED, STARTING, RUNNING, PAUSING, PAUSED, STOPPING
    <3>2. Moved(goal[t], QUEUED)
      BY <1>2, <2>2, <3>1 DEF Queue, Transition, Moved
    <3> QED
      BY <3>1, <3>2 DEF Change
  <2> QED
    BY <2>1, <2>2
<1>3. CASE Admit(t)
  BY <1>2, <1>3 DEF Admit, Change, Still, indexes
<1>4. CASE DoNotStart(t)
  BY <1>2, <1>4 DEF DoNotStart, Change, Still, indexes
<1>5. CASE Start(t)
  <2>1. /\ goal[t] \in Missions /\ STARTING \in Phases /\ STARTING # QUEUED
        /\ goal[t] \in registered
    BY <1>5 DEF Start, TypeOK, Phases, Active, STARTING, QUEUED
  <2>2. phase[goal[t]] \notin Active
    BY <1>5 DEF Start, Transition, MayFollow, Successors, Active, Terminal,
        REGISTERED, QUEUED, STARTING, RUNNING, PAUSING, PAUSED, STOPPING,
        STOPPED, SUCCEEDED, FAILED, CANCELLED
  <2>3. Moved(goal[t], STARTING)
    BY <1>5, <2>1, <2>2 DEF Start, Transition, Moved
  <2> QED
    BY <2>1, <2>3 DEF Change
<1> QED
  BY <1>1, <1>3, <1>4, <1>5 DEF Launch

\* Phases have different names.
LEMMA PhaseNames ==
  /\ Active \subseteq Phases /\ Terminal \subseteq Phases
  /\ REGISTERED \in Phases /\ QUEUED \in Phases
  /\ Active \cap Terminal = {}
  /\ REGISTERED \notin Active \cup Terminal /\ QUEUED \notin Active \cup Terminal
  /\ REGISTERED # QUEUED
  /\ {STARTING, RUNNING, STOPPING} \subseteq Active
  /\ {STOPPED, SUCCEEDED, FAILED, CANCELLED} = Terminal
  /\ STARTING # RUNNING /\ STARTING # STOPPING /\ RUNNING # STOPPING
  BY DEF Phases, Active, Terminal, REGISTERED, QUEUED, STARTING, RUNNING,
      PAUSING, PAUSED, STOPPING, STOPPED, SUCCEEDED, FAILED, CANCELLED

\* Stopping the others ends idle missions and stops active ones.
LEMMA StopOthersChanges ==
  ASSUME TypeOK, NEW t \in Threads, StopOthers(t)
  PROVE  Change
<1> USE PhaseNames DEF engine, lives
<1>1. CASE StopFails(t) \/ Stopped(t) \/ \E m \in Missions : StopRejected(t, m)
  BY <1>1 DEF StopFails, Stopped, StopRejected, Change, Still, indexes
<1>2. ASSUME NEW m \in Missions, StopIdle(t, m) PROVE Change
  <2>1. CASE UNCHANGED <<phase, indexes, scan>>
    BY <1>2, <2>1 DEF StopIdle, Change, Still, indexes
  <2>2. CASE phase[m] \in {REGISTERED, QUEUED} /\ Transition(m, Wanted(t, m))
    <3>1. Wanted(t, m) \in Terminal
      BY DEF Wanted
    <3>2. Moved(m, Wanted(t, m))
      BY <1>2, <2>2, <3>1 DEF StopIdle, Transition, Moved
    <3> QED
      BY <3>1, <3>2 DEF Change
  <2> QED
    BY <1>2, <2>1, <2>2 DEF StopIdle
<1>3. ASSUME NEW m \in Missions, StopActive(t, m) PROVE Change
  <2>1. CASE UNCHANGED <<phase, outcome, indexes, scan>>
    BY <1>3, <2>1 DEF StopActive, Change, Still, indexes
  <2>2. CASE phase[m] \in Interruptible /\ Transition(m, STOPPING)
    <3>1. Moved(m, STOPPING)
      BY <1>3, <2>2 DEF StopActive, Transition, Moved, Interruptible
    <3> QED
      BY <3>1 DEF Change
  <2> QED
    BY <1>3, <2>1, <2>2 DEF StopActive
<1> QED
  BY <1>1, <1>2, <1>3 DEF StopOthers

\* Stopping and closing the engine.
LEMMA EngineChanges ==
  ASSUME TypeOK, NEW t \in Threads,
         \/ StartEngine(t) \/ FinishEngine(t)
         \/ \E closing \in BOOLEAN : StopEngine(t, closing)
  PROVE  Change
<1> USE DEF engine, lives, Change, Still, indexes
<1>1. CASE StartEngine(t) \/ JoinScheduler(t) \/ FinishStop(t)
  BY <1>1 DEF StartEngine, Started, JoinScheduler, FinishStop
<1>2. CASE CloseEngine(t)
  BY <1>2 DEF CloseEngine, Closes
<1>3. CASE \E closing \in BOOLEAN : StopEngine(t, closing)
  BY <1>3 DEF StopEngine
<1> QED
  BY <1>1, <1>2, <1>3 DEF FinishEngine

\* What the scheduler has left to look at is queued and registered.
ScanAgrees == \A m \in scan : m \in registered /\ phase[m] = QUEUED

\* The scheduler thread itself only lets queued missions time out.
LEMMA SchedulerChanges ==
  ASSUME TypeOK, ScanAgrees, SchedulerStep
  PROVE  Change
<1> USE PhaseNames DEF engine, lives
<1>1. CASE \/ ScanQueue \/ SchedulerEnds \/ ScanEnds
           \/ \E m \in Missions : PromoteNext(m)
  BY <1>1 DEF ScanQueue, SchedulerEnds, ScanEnds, PromoteNext, Change, Still,
      indexes
<1>2. ASSUME NEW m \in Missions, QueueTimesOut(m) PROVE Change
  <2>1. m \in registered /\ phase[m] = QUEUED
    BY <1>2 DEF QueueTimesOut, Foremost, ScanAgrees
  <2>2. Moved(m, FAILED)
    BY <1>2, <2>1 DEF QueueTimesOut, Transition, Moved
  <2> QED
    BY <2>2 DEF Change
<1> QED
  BY <1>1, <1>2 DEF SchedulerStep

\* The steps of a mission.
LEMMA MissionChanges ==
  ASSUME TypeOK, NEW m \in Missions, MissionStep(m)
  PROVE  Change
<1> USE PhaseNames, SchedulerAssumption DEF Unseen, engine
<1>1. CASE Proceed(m)
  <2>1. Moved(m, RUNNING)
    BY <1>1 DEF Proceed, Transition, Moved
  <2> QED
    BY <2>1 DEF Change
<1>2. CASE DecideIdle(m) \/ DelayPasses(m)
  BY <1>2 DEF DecideIdle, DelayPasses, Change, Still, indexes
<1>3. CASE Settle(m)
  <2>1. outcome[m] \in Terminal /\ outcome[m] # Undecided
    BY <1>3 DEF Settle, TypeOK
  <2>2. Moved(m, outcome[m])
    BY <1>3, <2>1 DEF Settle, Transition, Moved
  <2> QED
    BY <2>1, <2>2 DEF Change
<1>4. CASE Retry(m)
  <2>1. outcome[m] # Undecided
    BY <1>4 DEF Retry, Undecided
  <2>2. Moved(m, QUEUED)
    BY <1>4, <2>1 DEF Retry, Moved
  <2> QED
    BY <2>2 DEF Change
<1>5. ASSUME NEW result \in Results, Decide(m, result) PROVE Change
  <2>1. Moved(m, STOPPING)
    BY <1>5 DEF Decide, Transition, Moved, Interruptible
  <2> QED
    BY <2>1 DEF Change
<1>6. ASSUME NEW result \in {STOPPED, CANCELLED}, Abandon(m, result) PROVE Change
  <2>1. Moved(m, result)
    BY <1>6 DEF Abandon, Transition, Moved
  <2> QED
    BY <2>1 DEF Change
<1>7. CASE FailLate(m)
  BY <1>7 DEF FailLate, lives, indexes, Still, Strays, Change
<1> QED
  BY <1>1, <1>2, <1>3, <1>4, <1>5, <1>6, <1>7 DEF MissionStep

\* Every step is one of the six ways.
LEMMA StepChanges ==
  ASSUME TypeOK, ScanAgrees, [Next]_vars
  PROVE  Change
<1>1. ASSUME NEW t \in Clients, NEW m \in Missions, Run(t, m) \/ Unregister(t, m)
      PROVE  Change
  BY <1>1 DEF Run, Unregister, Registers, Unregisters, Change, lives
<1>2. CASE UNCHANGED vars
  BY <1>2 DEF vars, engine, lives, Change, Still
<1> QED
  BY <1>1, <1>2, LaunchChanges, StopOthersChanges, EngineChanges, SchedulerChanges,
     MissionChanges DEF Next, Threads

------------------------------------------------------------------------------
\* The bookkeeping.

\* Besides the indexes: the queue is finite, a closed engine has forgotten its
\* missions, and a mission that is not registered is as it was made.
Bookkeeping ==
  /\ closed => registered = {}
  /\ IsFiniteSet(registered)
  /\ IsFiniteSet(queued)
  /\ ~closed => \A m \in Missions \ registered :
                  phase[m] = REGISTERED /\ outcome[m] = Undecided
  /\ IndexesAgree
  /\ SuccessesAgree
  /\ ScanAgrees

\* The registered missions of type k that have succeeded.
Successes(k) == {m \in registered : TypeOf[m] = k /\ phase[m] = SUCCEEDED}

LEMMA SuccessesAreFinite ==
  ASSUME Bookkeeping, NEW k \in Types
  PROVE  /\ IsFiniteSet(Successes(k)) /\ Cardinality(Successes(k)) \in Nat
         /\ ~closed => succeeded[k] = Cardinality(Successes(k))
<1>1. Successes(k) \in SUBSET registered
  BY DEF Successes
<1>2. IsFiniteSet(Successes(k))
  BY <1>1, FS_Subset DEF Bookkeeping
<1> QED
  BY <1>2, FS_CardinalityType DEF Bookkeeping, SuccessesAgree, Successes

\* A move of a registered mission adds it to the successes of its type, takes it
\* away or leaves them alone.
LEMMA SuccessesFollow ==
  ASSUME TypeOK, Bookkeeping, NEW m \in registered, NEW next,
         phase' = [phase EXCEPT ![m] = next], NEW k \in Types,
         registered' \in {registered, registered \ {m}},
         registered' # registered => next # SUCCEEDED,
         Reindex(m, phase[m], next), ~closed
  PROVE  succeeded'[k] = Cardinality(Successes(k)') /\ succeeded'[k] \in Nat
<1> m \in Missions
  BY DEF TypeOK
<1>1. CASE k # TypeOf[m]
  <2>1. Successes(k)' = Successes(k)
    BY <1>1 DEF Successes, TypeOK
  <2> QED
    BY <1>1, <2>1, SuccessesAreFinite DEF Reindex, TypeOK
<1>2. CASE k = TypeOf[m] /\ phase[m] = SUCCEEDED /\ next # SUCCEEDED
  <2>1. Successes(k)' = Successes(k) \ {m} /\ m \in Successes(k)
    BY <1>2 DEF Successes, TypeOK
  <2>2. Cardinality(Successes(k)') = Cardinality(Successes(k)) - 1
    BY <2>1, SuccessesAreFinite, FS_RemoveElement
  <2>3. Cardinality(Successes(k)') \in Nat
    BY <2>1, SuccessesAreFinite, FS_RemoveElement, FS_CardinalityType
  <2>4. succeeded'[k] = succeeded[k] - 1
    BY <1>2 DEF Reindex
  <2> QED
    BY <2>2, <2>3, <2>4, SuccessesAreFinite
<1>3. CASE k = TypeOf[m] /\ phase[m] # SUCCEEDED /\ next = SUCCEEDED
  <2>1. Successes(k)' = Successes(k) \cup {m} /\ m \notin Successes(k)
    BY <1>3 DEF Successes, TypeOK
  <2>2. Cardinality(Successes(k)') = Cardinality(Successes(k)) + 1
    BY <2>1, SuccessesAreFinite, FS_AddElement
  <2>3. succeeded'[k] = succeeded[k] + 1
    BY <1>3 DEF Reindex
  <2> QED
    BY <2>2, <2>3, SuccessesAreFinite
<1>4. CASE k = TypeOf[m] /\ (phase[m] = SUCCEEDED <=> next = SUCCEEDED)
  <2>1. Successes(k)' = Successes(k)
    BY <1>4 DEF Successes, TypeOK
  <2>2. succeeded'[k] = succeeded[k]
    BY <1>4 DEF Reindex
  <2> QED
    BY <2>1, <2>2, SuccessesAreFinite
<1> QED
  BY <1>1, <1>2, <1>3, <1>4

\* The sets of the other indexes follow in the same way.
LEMMA IndexesFollow ==
  ASSUME TypeOK, Bookkeeping, NEW m \in registered, NEW next,
         phase' = [phase EXCEPT ![m] = next],
         \/ registered' = registered
         \/ registered' = registered \ {m} /\ next \notin Active \cup {QUEUED},
         Reindex(m, phase[m], next), ~closed, ~closed', UNCHANGED strays
  PROVE  IndexesAgree'
<1> m \in Missions
  BY DEF TypeOK
<1>1. active' = Running'
  BY PhaseNames DEF Bookkeeping, IndexesAgree, Running, Reindex, TypeOK
<1>2. Queued' \subseteq queued' /\ queued' \subseteq Queued' \cup strays'
  BY PhaseNames DEF Bookkeeping, IndexesAgree, Queued, Reindex, TypeOK
<1>3. ASSUME NEW r \in Resources PROVE owners'[r] = {n \in Running' : r \in Needs[n]}
  <2>1. owners[r] = {n \in Running : r \in Needs[n]}
    BY DEF Bookkeeping, IndexesAgree
  <2>2. CASE r \notin Needs[m]
    <3>1. owners'[r] = owners[r]
      BY <2>2 DEF Reindex
    <3> QED
      BY <2>1, <2>2, <3>1 DEF Running, TypeOK
  <2>3. CASE r \in Needs[m]
    BY <2>1, <2>3 DEF Running, Reindex, TypeOK
  <2> QED
    BY <2>2, <2>3
<1> QED
  BY <1>1, <1>2, <1>3 DEF IndexesAgree

\* An outcome is only decided for a registered mission, and forgotten with it.
LEMMA OutcomesOfRegistered ==
  ASSUME TypeOK, Next, NEW m \in Missions \ registered', ~closed'
  PROVE  outcome'[m] = Undecided \/ (m \notin registered /\ outcome'[m] = outcome[m])
<1> USE DEF TypeOK, lives, engine, Unseen
<1>1. CASE \E t \in Threads : Launch(t)
  BY <1>1 DEF Launch, EnterLaunch, LockLaunch, Admit, Start, DoNotStart, LaunchRaises
<1>2. CASE \E t \in Threads : StopOthers(t)
  BY <1>2 DEF StopOthers, StopIdle, StopActive, StopRejected, StopFails, Stopped
<1>3. CASE SchedulerStep
  BY <1>3 DEF SchedulerStep, ScanQueue, SchedulerEnds, ScanEnds, QueueTimesOut,
      PromoteNext
<1>4. CASE \E n \in Missions : MissionStep(n)
  BY <1>4 DEF MissionStep, Proceed, Decide, DecideIdle, Abandon, Settle, Settled,
      Retry, FailLate, DelayPasses
<1>5. CASE \E t \in Threads : FinishEngine(t)
  BY <1>5 DEF FinishEngine, JoinScheduler, FinishStop, CloseEngine
<1>6. CASE \E t \in Clients :
             \/ StartEngine(t) \/ StopEngine(t, FALSE) \/ StopEngine(t, TRUE)
             \/ \E n \in Missions : Run(t, n) \/ Unregister(t, n)
  BY <1>6 DEF StartEngine, Started, StopEngine, Run, Unregister
<1> QED
  BY <1>1, <1>2, <1>3, <1>4, <1>5, <1>6 DEF Next

\* A move is always the move of a registered mission, or of one that a closed
\* engine has forgotten.
LEMMA MovesAreRegistered ==
  ASSUME Bookkeeping, NEW m \in Missions, NEW next, Moved(m, next), ~closed
  PROVE  m \in registered
  BY DEF Bookkeeping, Moved

\* Every step keeps the bookkeeping.
LEMMA BookkeepingStep ==
  ASSUME TypeOK, Bookkeeping, [Next]_vars
  PROVE  Bookkeeping' /\ succeeded' \in [Types -> Nat]
<1>0. Change
  BY StepChanges DEF Bookkeeping
<1>1. ~closed' => \A m \in Missions \ registered' :
        outcome'[m] = Undecided \/ (m \notin registered /\ outcome'[m] = outcome[m])
  BY OutcomesOfRegistered DEF vars, lives, engine, Bookkeeping
<1>2. CASE Still
  <2>1. IndexesAgree' /\ SuccessesAgree'
    BY <1>2 DEF Still, indexes, Bookkeeping, IndexesAgree, SuccessesAgree, Running, Queued
  <2>2. ScanAgrees'
    BY <1>2 DEF Still, indexes, Bookkeeping, IndexesAgree, ScanAgrees
  <2> QED
    BY <1>1, <1>2, <2>1, <2>2 DEF Still, indexes, Bookkeeping, TypeOK
<1>3. CASE Closes
  <2>1. IsFiniteSet({})
    BY FS_EmptySet
  <2> QED
    BY <1>3, <2>1 DEF Closes, Bookkeeping, IndexesAgree, SuccessesAgree, ScanAgrees
<1>4. ASSUME NEW m \in Missions, Registers(m)
      PROVE  Bookkeeping' /\ succeeded' \in [Types -> Nat]
  <2>1. IsFiniteSet(registered')
    BY <1>4, FS_AddElement DEF Registers, Bookkeeping
  <2>2. m \in registered \/ phase[m] = REGISTERED
    BY <1>4 DEF Registers, Bookkeeping
  <2>3. Running' = Running /\ Queued' = Queued
    BY <1>4, <2>2, PhaseNames DEF Registers, Running, Queued
  <2>4. IndexesAgree'
    BY <1>4, <2>3 DEF Registers, Bookkeeping, IndexesAgree, indexes
  <2>5. SuccessesAgree'
    <3>1. REGISTERED # SUCCEEDED
      BY PhaseNames
    <3>2. \A k \in Types : Successes(k)' = Successes(k)
      BY <1>4, <2>2, <3>1 DEF Registers, Successes
    <3> QED
      BY <1>4, <3>2 DEF Registers, Bookkeeping, SuccessesAgree, Successes, indexes
  <2>6. ScanAgrees'
    BY <1>4 DEF Registers, Bookkeeping, ScanAgrees
  <2> QED
    BY <1>1, <1>4, <2>1, <2>4, <2>5, <2>6 DEF Registers, Bookkeeping, TypeOK, indexes
<1>5. ASSUME NEW m \in Missions, Unregisters(m)
      PROVE  Bookkeeping' /\ succeeded' \in [Types -> Nat]
  <2>1. /\ m \in registered /\ ~closed /\ ~closed'
        /\ REGISTERED # SUCCEEDED /\ REGISTERED \notin Active \cup {QUEUED}
    BY <1>5, PhaseNames DEF Unregisters, Bookkeeping
  <2>2. IsFiniteSet(registered') /\ IsFiniteSet(queued')
    <3>1. IsFiniteSet(registered \ {m}) /\ IsFiniteSet(queued \ {m})
      BY FS_RemoveElement DEF Bookkeeping
    <3> QED
      BY <1>5, <2>1, <3>1 DEF Unregisters, Reindex, Bookkeeping
  <2>3. IndexesAgree'
    BY <1>5, <2>1, IndexesFollow DEF Unregisters
  <2>4. \A k \in Types : succeeded'[k] = Cardinality(Successes(k)') /\ succeeded'[k] \in Nat
    BY <1>5, <2>1, SuccessesFollow DEF Unregisters
  <2>5. ScanAgrees'
    BY <1>5 DEF Unregisters, Reindex, Bookkeeping, ScanAgrees, TypeOK
  <2>6. phase' = [phase EXCEPT ![m] = REGISTERED] /\ registered' = registered \ {m}
    BY <1>5 DEF Unregisters
  <2>7. ASSUME NEW n \in Missions \ registered'
        PROVE  phase'[n] = REGISTERED /\ outcome'[n] = Undecided
    <3>1. outcome'[n] = Undecided \/ (n \notin registered /\ outcome'[n] = outcome[n])
      BY <1>1, <2>1, <2>7
    <3>2. CASE n = m
      BY <2>1, <2>6, <3>1, <3>2 DEF TypeOK
    <3>3. CASE n # m
      BY <2>1, <2>6, <2>7, <3>1, <3>3 DEF Bookkeeping, TypeOK
    <3> QED
      BY <3>2, <3>3
  <2>8. succeeded' \in [Types -> Nat] /\ SuccessesAgree'
    BY <1>5, <2>4 DEF Unregisters, Reindex, SuccessesAgree, Successes
  <2> QED
    BY <2>1, <2>2, <2>3, <2>5, <2>7, <2>8 DEF Bookkeeping
<1>7. ASSUME NEW m \in Missions, Strays(m)
      PROVE  Bookkeeping' /\ succeeded' \in [Types -> Nat]
  <2>1. IsFiniteSet(queued')
    BY <1>7, FS_AddElement DEF Strays, Bookkeeping
  <2>2. IndexesAgree' /\ SuccessesAgree' /\ ScanAgrees'
    BY <1>7 DEF Strays, Bookkeeping, IndexesAgree, SuccessesAgree, ScanAgrees, Running, Queued
  <2> QED
    BY <1>1, <1>7, <2>1, <2>2 DEF Strays, Bookkeeping, TypeOK
<1>6. ASSUME NEW m \in Missions, NEW next \in Phases, Moved(m, next)
      PROVE  Bookkeeping' /\ succeeded' \in [Types -> Nat]
  <2>0. IsFiniteSet(queued')
    <3>1. IsFiniteSet(queued \cup {m}) /\ IsFiniteSet(queued \ {m})
      BY FS_AddElement, FS_RemoveElement DEF Bookkeeping
    <3> QED
      BY <1>6, <3>1 DEF Moved, Reindex, Bookkeeping
  <2>1. CASE closed
    <3>1. registered = {}
      BY <2>1 DEF Bookkeeping
    <3>2. \A k \in Types : succeeded'[k] \in {succeeded[k], succeeded[k] + 1}
      BY <1>6, <3>1 DEF Moved, Reindex
    <3>3. ScanAgrees'
      BY <1>6, <3>1 DEF Moved, Reindex, Bookkeeping, ScanAgrees
    <3> QED
      BY <1>6, <2>0, <2>1, <3>1, <3>2, <3>3
         DEF Moved, Reindex, Bookkeeping, IndexesAgree, SuccessesAgree, TypeOK
  <2>2. CASE ~closed
    <3>1. m \in registered
      BY <1>6, <2>2, MovesAreRegistered
    <3>2. IndexesAgree'
      BY <1>6, <2>2, <3>1, IndexesFollow DEF Moved
    <3>3. \A k \in Types : succeeded'[k] = Cardinality(Successes(k)') /\ succeeded'[k] \in Nat
      BY <1>6, <2>2, <3>1, SuccessesFollow DEF Moved
    <3>4. ScanAgrees'
      BY <1>6 DEF Moved, Reindex, Bookkeeping, ScanAgrees, TypeOK
    <3> QED
      BY <1>1, <1>6, <2>0, <2>2, <3>1, <3>2, <3>3, <3>4
         DEF Moved, Reindex, Bookkeeping, SuccessesAgree, Successes, TypeOK
  <2> QED
    BY <2>1, <2>2
<1> QED
  BY <1>0, <1>2, <1>3, <1>4, <1>5, <1>6, <1>7 DEF Change

------------------------------------------------------------------------------
\* Types.

\* Reindexing keeps the types of the index sets.
LEMMA ReindexType ==
  ASSUME TypeOK, NEW m \in Missions, NEW previous, NEW current,
         Reindex(m, previous, current)
  PROVE  /\ active' \subseteq Missions /\ queued' \subseteq Missions
         /\ owners' \in [Resources -> SUBSET Missions] /\ scan' \subseteq Missions
  BY DEF TypeOK, Reindex

\* So does a transition, which leads to a phase.
LEMMA TransitionType ==
  ASSUME TypeOK, NEW m \in Missions, NEW next \in Phases, Transition(m, next)
  PROVE  /\ phase' \in [Missions -> Phases]
         /\ active' \subseteq Missions /\ queued' \subseteq Missions
         /\ owners' \in [Resources -> SUBSET Missions] /\ scan' \subseteq Missions
  BY ReindexType DEF TypeOK, Transition

\* And so does queueing.
LEMMA QueueType ==
  ASSUME TypeOK, NEW m \in Missions, Queue(m)
  PROVE  /\ phase' \in [Missions -> Phases]
         /\ active' \subseteq Missions /\ queued' \subseteq Missions
         /\ owners' \in [Resources -> SUBSET Missions] /\ scan' \subseteq Missions
  BY TransitionType, PhaseNames DEF TypeOK, Queue, indexes

\* The labels a thread may go to.
LEMMA LabelType ==
  {"idle", "off", "wait", "scan", "dead", "enter", "lock", "admit", "preempt",
   "start", "repreempt", "stop", "join", "finish", "close"} = Labels
  BY DEF Labels, LaunchLabels, StopLabels

\* Leaving a launch keeps the types.
LEMMA LeaveType ==
  ASSUME TypeOK, NEW t \in Threads, Leave(t) \/ Raise(t)
  PROVE  /\ pc' \in [Threads -> Labels]
         /\ goal' \in [Threads -> Missions \cup {NoMission}]
         /\ joiners' \subseteq Threads
  BY LabelType DEF TypeOK, Leave, Raise, Goto

LEMMA UnlockType ==
  ASSUME TypeOK, NEW t \in Threads, Unlock(t)
  PROVE  runLock' \in [Missions -> Threads \cup {NoThread}]
  BY DEF TypeOK, Unlock

LEMMA ConflictsType ==
  ASSUME TypeOK, NEW m \in Missions
  PROVE  Conflicts(m) \subseteq Missions
<1>1. \A r \in Needs[m] : owners[r] \subseteq Missions
  BY SchedulerAssumption DEF TypeOK
<1>2. Candidates(m) \subseteq Missions
  BY <1>1 DEF TypeOK, Candidates
<1> QED
  BY <1>2 DEF Conflicts

LEMMA SchedulerIsThread == Scheduler \in Threads
  BY DEF Threads

\* Launching keeps the types.
LEMMA LaunchType ==
  ASSUME TypeOK, succeeded' \in [Types -> Nat], NEW t \in Threads, Launch(t)
  PROVE  TypeOK'
<1> USE LabelType, LeaveType, UnlockType, QueueType
    DEF lives, indexes, engine, stops
<1>1. CASE EnterLaunch(t)
  <2>1. pc' \in [Threads -> Labels] /\ running' \in BOOLEAN
    BY <1>1, SchedulerIsThread DEF TypeOK, EnterLaunch, Started
  <2>2. goal' \in [Threads -> Missions \cup {NoMission}] /\ joiners' \subseteq Threads
    BY <1>1 DEF TypeOK, EnterLaunch
  <2> QED
    BY <1>1, <2>1, <2>2 DEF TypeOK, EnterLaunch
<1>2. CASE LockLaunch(t)
  BY <1>2 DEF TypeOK, LockLaunch, Goto
<1>3. CASE Admit(t)
  <2>1. goal[t] \in Missions
    BY <1>3 DEF TypeOK, Admit
  <2>2. todo' \in [Threads -> SUBSET Missions]
    <3>1. Conflicts(goal[t]) \in SUBSET Missions
      BY <2>1, ConflictsType
    <3>2. todo' = todo \/ todo' = [todo EXCEPT ![t] = Conflicts(goal[t])]
      BY <1>3 DEF Admit
    <3> QED
      BY <3>1, <3>2 DEF TypeOK
  <2>3. /\ pc' \in [Threads -> Labels]
        /\ goal' \in [Threads -> Missions \cup {NoMission}]
        /\ joiners' \subseteq Threads
        /\ runLock' \in [Missions -> Threads \cup {NoThread}]
    BY <1>3 DEF TypeOK, Admit, Goto
  <2>4. /\ phase' \in [Missions -> Phases]
        /\ active' \subseteq Missions /\ queued' \subseteq Missions
        /\ owners' \in [Resources -> SUBSET Missions] /\ scan' \subseteq Missions
    BY <1>3, <2>1 DEF TypeOK, Admit
  <2> QED
    BY <1>3, <2>2, <2>3, <2>4 DEF TypeOK, Admit
<1>4. CASE Start(t)
  <2>1. goal[t] \in Missions /\ STARTING \in Phases
    BY <1>4, PhaseNames DEF TypeOK, Start
  <2>2. /\ phase' \in [Missions -> Phases]
        /\ active' \subseteq Missions /\ queued' \subseteq Missions
        /\ owners' \in [Resources -> SUBSET Missions] /\ scan' \subseteq Missions
    BY <1>4, <2>1, TransitionType DEF Start
  <2>3. launches' \in [Missions -> Nat] /\ delayed' \subseteq Missions
    BY <1>4 DEF TypeOK, Start
  <2> QED
    BY <1>4, <2>2, <2>3 DEF TypeOK, Start
<1>5. CASE DoNotStart(t)
  <2>1. goal[t] \in Missions
    BY <1>5 DEF TypeOK, DoNotStart
  <2>2. todo' \in [Threads -> SUBSET Missions]
    <3>1. Conflicts(goal[t]) \in SUBSET Missions
      BY <2>1, ConflictsType
    <3>2. todo' = todo \/ todo' = [todo EXCEPT ![t] = Conflicts(goal[t])]
      BY <1>5 DEF DoNotStart
    <3> QED
      BY <3>1, <3>2 DEF TypeOK
  <2>3. /\ pc' \in [Threads -> Labels]
        /\ goal' \in [Threads -> Missions \cup {NoMission}]
        /\ joiners' \subseteq Threads
        /\ runLock' \in [Missions -> Threads \cup {NoThread}]
    BY <1>5 DEF TypeOK, DoNotStart, Goto
  <2>4. /\ phase' \in [Missions -> Phases]
        /\ active' \subseteq Missions /\ queued' \subseteq Missions
        /\ owners' \in [Resources -> SUBSET Missions] /\ scan' \subseteq Missions
    BY <1>5, <2>1 DEF TypeOK, DoNotStart
  <2> QED
    BY <1>5, <2>2, <2>3, <2>4 DEF TypeOK, DoNotStart
<1>6. CASE LaunchRaises(t)
  BY <1>6 DEF TypeOK, LaunchRaises
<1> QED
  BY <1>1, <1>2, <1>3, <1>4, <1>5, <1>6 DEF Launch

\* Stopping other missions keeps the types.
LEMMA StopOthersType ==
  ASSUME TypeOK, succeeded' \in [Types -> Nat], NEW t \in Threads, StopOthers(t)
  PROVE  TypeOK'
<1> USE LabelType DEF lives, indexes, engine, stops
<1>0. \A m \in Missions : Wanted(t, m) \in Terminal
  BY PhaseNames DEF Wanted
<1>1. ASSUME NEW m \in Missions, Drop(t, m)
      PROVE  todo' \in [Threads -> SUBSET Missions] /\ cancels' \in [Threads -> SUBSET Missions]
  BY <1>1 DEF TypeOK, Drop
<1>2. ASSUME NEW m \in Missions, StopIdle(t, m) PROVE TypeOK'
  <2>1. /\ phase' \in [Missions -> Phases]
        /\ active' \subseteq Missions /\ queued' \subseteq Missions
        /\ owners' \in [Resources -> SUBSET Missions] /\ scan' \subseteq Missions
    BY <1>2, <1>0, TransitionType, PhaseNames DEF TypeOK, StopIdle
  <2> QED
    BY <1>1, <1>2, <2>1 DEF TypeOK, StopIdle
<1>3. ASSUME NEW m \in Missions, StopActive(t, m) PROVE TypeOK'
  <2>1. /\ phase' \in [Missions -> Phases]
        /\ active' \subseteq Missions /\ queued' \subseteq Missions
        /\ owners' \in [Resources -> SUBSET Missions] /\ scan' \subseteq Missions
    BY <1>3, TransitionType, PhaseNames DEF TypeOK, StopActive
  <2>2. outcome' \in [Missions -> Terminal \cup {Undecided}]
    BY <1>0, <1>3 DEF TypeOK, StopActive
  <2>3. awaits' \in [Threads -> Missions \cup {NoMission}]
    BY <1>3 DEF TypeOK, StopActive
  <2> QED
    BY <1>1, <1>3, <2>1, <2>2, <2>3 DEF TypeOK, StopActive
<1>4. ASSUME StopRaises(t)
      PROVE  /\ awaits' \in [Threads -> Missions \cup {NoMission}]
             /\ failed' \in [Threads -> BOOLEAN]
             /\ pc' \in [Threads -> Labels]
             /\ goal' \in [Threads -> Missions \cup {NoMission}]
             /\ joiners' \subseteq Threads
             /\ runLock' \in [Missions -> Threads \cup {NoThread}]
  <2>1. awaits' \in [Threads -> Missions \cup {NoMission}]
    BY <1>4 DEF TypeOK, StopRaises
  <2>2. CASE pc[t] = "stop"
    BY <1>4, <2>1, <2>2 DEF TypeOK, StopRaises
  <2>3. CASE pc[t] # "stop"
    BY <1>4, <2>1, <2>3, LeaveType, UnlockType DEF TypeOK, StopRaises
  <2> QED
    BY <2>2, <2>3
<1>5. ASSUME NEW m \in Missions, StopRejected(t, m) PROVE TypeOK'
  <2>1. todo' \in [Threads -> SUBSET Missions] /\ cancels' \in [Threads -> SUBSET Missions]
    BY <1>1, <1>5 DEF TypeOK, StopRejected
  <2> QED
    BY <1>4, <1>5, <2>1 DEF TypeOK, StopRejected
<1>6. CASE StopFails(t)
  <2>1. todo' \in [Threads -> SUBSET Missions]
    BY <1>6 DEF TypeOK, StopFails
  <2> QED
    BY <1>4, <1>6, <2>1 DEF TypeOK, StopFails
<1>7. CASE Stopped(t)
  <2>1. pc' \in [Threads -> Labels]
    BY <1>7 DEF TypeOK, Stopped, Goto
  <2> QED
    BY <1>7, <2>1 DEF TypeOK, Stopped
<1> QED
  BY <1>2, <1>3, <1>5, <1>6, <1>7 DEF StopOthers

\* Starting, stopping and closing the engine keeps the types.
LEMMA EngineType ==
  ASSUME TypeOK, succeeded' \in [Types -> Nat], NEW t \in Threads,
         \/ StartEngine(t) \/ FinishEngine(t)
         \/ \E closing \in BOOLEAN : StopEngine(t, closing)
  PROVE  TypeOK'
<1> USE LabelType DEF lives, indexes, engine, stops
<1>1. CASE StartEngine(t)
  <2>1. pc' \in [Threads -> Labels] /\ running' \in BOOLEAN
    BY <1>1, SchedulerIsThread DEF TypeOK, StartEngine, Started
  <2> QED
    BY <1>1, <2>1 DEF TypeOK, StartEngine
<1>2. CASE JoinScheduler(t)
  BY <1>2 DEF TypeOK, JoinScheduler, Goto
<1>3. CASE FinishStop(t)
  BY <1>3 DEF TypeOK, FinishStop, Goto
<1>4. CASE CloseEngine(t)
  BY <1>4 DEF TypeOK, CloseEngine, Goto
<1>5. ASSUME NEW closing \in BOOLEAN, StopEngine(t, closing) PROVE TypeOK'
  <2>1. pc' \in [Threads -> Labels] /\ running' \in BOOLEAN /\ stopping' \in BOOLEAN
    BY <1>5 DEF TypeOK, StopEngine, Goto
  <2>2. /\ todo' \in [Threads -> SUBSET Missions]
        /\ cancels' \in [Threads -> SUBSET Missions]
        /\ closes' \in [Threads -> BOOLEAN] /\ joiners' \subseteq Threads
    BY <1>5 DEF TypeOK, StopEngine
  <2> QED
    BY <1>5, <2>1, <2>2 DEF TypeOK, StopEngine
<1> QED
  BY <1>1, <1>2, <1>3, <1>4, <1>5 DEF FinishEngine

\* So do the scheduler,
LEMMA SchedulerType ==
  ASSUME TypeOK, succeeded' \in [Types -> Nat], SchedulerStep
  PROVE  TypeOK'
<1> USE LabelType, SchedulerIsThread DEF lives, indexes, engine, stops
<1>1. CASE ScanQueue
  BY <1>1 DEF TypeOK, ScanQueue, Goto
<1>2. CASE SchedulerEnds \/ ScanEnds
  BY <1>2 DEF TypeOK, SchedulerEnds, ScanEnds, Goto
<1>3. ASSUME NEW m \in Missions, QueueTimesOut(m) PROVE TypeOK'
  BY <1>3, TransitionType, PhaseNames DEF TypeOK, QueueTimesOut
<1>4. ASSUME NEW m \in Missions, PromoteNext(m) PROVE TypeOK'
  BY <1>4 DEF TypeOK, PromoteNext, Goto
<1> QED
  BY <1>1, <1>2, <1>3, <1>4 DEF SchedulerStep

\* the missions,
LEMMA MissionType ==
  ASSUME TypeOK, succeeded' \in [Types -> Nat], NEW m \in Missions, MissionStep(m)
  PROVE  TypeOK'
<1> USE PhaseNames, SchedulerAssumption, TransitionType, ReindexType
    DEF Unseen, engine, indexes
<1>1. CASE Proceed(m)
  BY <1>1 DEF TypeOK, Proceed
<1>2. CASE DecideIdle(m) \/ DelayPasses(m)
  BY <1>2 DEF TypeOK, DecideIdle, DelayPasses
<1>3. ASSUME Settled(m)
      PROVE  /\ outcome' \in [Missions -> Terminal \cup {Undecided}]
             /\ awaits' \in [Threads -> Missions \cup {NoMission}]
  BY <1>3 DEF TypeOK, Settled
<1>4. CASE Settle(m)
  <2>1. outcome[m] \in Phases
    BY <1>4 DEF Settle, TypeOK
  <2> QED
    BY <1>3, <1>4, <2>1 DEF TypeOK, Settle
<1>5. CASE Retry(m)
  <2>1. phase' \in [Missions -> Phases] /\ delayed' \subseteq Missions
    BY <1>5 DEF TypeOK, Retry
  <2> QED
    BY <1>3, <1>5, <2>1 DEF TypeOK, Retry
<1>6. ASSUME NEW result \in Results, Decide(m, result) PROVE TypeOK'
  BY <1>6 DEF TypeOK, Decide
<1>7. ASSUME NEW result \in {STOPPED, CANCELLED}, Abandon(m, result) PROVE TypeOK'
  BY <1>7 DEF TypeOK, Abandon
<1>8. CASE FailLate(m)
  BY <1>8 DEF TypeOK, FailLate, lives, stops
<1> QED
  BY <1>1, <1>2, <1>4, <1>5, <1>6, <1>7, <1>8 DEF MissionStep

\* and registering and unregistering.
LEMMA RegistryType ==
  ASSUME TypeOK, succeeded' \in [Types -> Nat], NEW t \in Clients, NEW m \in Missions,
         Run(t, m) \/ Unregister(t, m)
  PROVE  TypeOK'
<1> USE LabelType DEF lives, indexes, stops
<1>0. t \in Threads
  BY DEF Threads
<1>1. CASE Run(t, m)
  BY <1>0, <1>1 DEF TypeOK, Run, Goto
<1>2. CASE Unregister(t, m)
  <2>1. /\ active' \subseteq Missions /\ queued' \subseteq Missions
        /\ owners' \in [Resources -> SUBSET Missions] /\ scan' \subseteq Missions
    BY <1>2, ReindexType DEF Unregister
  <2>2. phase' \in [Missions -> Phases] /\ outcome' \in [Missions -> Terminal \cup {Undecided}]
    BY <1>2, PhaseNames DEF TypeOK, Unregister
  <2>3. /\ launches' \in [Missions -> Nat] /\ delayed' \subseteq Missions
        /\ runLock' \in [Missions -> Threads \cup {NoThread}]
        /\ registered' \subseteq Missions /\ late' \subseteq Missions
    BY <1>2 DEF TypeOK, Unregister
  <2> QED
    BY <1>2, <2>1, <2>2, <2>3 DEF TypeOK, Unregister
<1> QED
  BY <1>1, <1>2

LEMMA TypeStep ==
  ASSUME TypeOK, succeeded' \in [Types -> Nat], [Next]_vars
  PROVE  TypeOK'
<1>1. CASE UNCHANGED vars
  BY <1>1 DEF TypeOK, vars, lives, indexes, engine, stops
<1>2. Clients \subseteq Threads
  BY DEF Threads
<1> QED
  BY <1>1, <1>2, LaunchType, StopOthersType, EngineType, SchedulerType, MissionType,
     RegistryType DEF Next

------------------------------------------------------------------------------
\* The conclusions.

LEMMA InitType == Init => TypeOK
<1> SUFFICES ASSUME Init PROVE TypeOK
  OBVIOUS
<1>1. pc \in [Threads -> Labels]
  BY LabelType DEF Init
<1>2. /\ phase \in [Missions -> Phases]
      /\ outcome \in [Missions -> Terminal \cup {Undecided}]
  BY PhaseNames DEF Init
<1> QED
  BY <1>1, <1>2 DEF Init, TypeOK

LEMMA InitBookkeeping == Init => Bookkeeping
<1> SUFFICES ASSUME Init PROVE Bookkeeping
  OBVIOUS
<1>1. IsFiniteSet({}) /\ Cardinality({}) = 0
  BY FS_EmptySet
<1>2. IndexesAgree
  BY DEF Init, IndexesAgree, Running, Queued
<1>3. SuccessesAgree
  <2>1. \A k \in Types : Successes(k) = {}
    BY DEF Init, Successes
  <2> QED
    BY <1>1, <2>1 DEF Init, SuccessesAgree, Successes
<1> QED
  BY <1>1, <1>2, <1>3 DEF Init, Bookkeeping, ScanAgrees

\* The variables keep their types and the indexes keep up with the phases,
\* whatever threads launch, stop, unregister and close.
THEOREM Inductive == Spec => [](TypeOK /\ Bookkeeping)
<1>1. TypeOK /\ Bookkeeping /\ [Next]_vars => (TypeOK /\ Bookkeeping)'
  BY BookkeepingStep, TypeStep
<1> QED
  BY <1>1, InitType, InitBookkeeping, PTL DEF Spec

\* Type correctness.
THEOREM TypeCorrect == Spec => []TypeOK
  BY Inductive, PTL

\* The active, queue and resource indexes agree with the phases of the registry
\* whenever the engine is open (_update_phase_indexes_locked), but for entries of
\* the queue that a fail() under way during unregister() has left there.
THEOREM IndexesCorrect == Spec => []IndexesAgree
<1>1. Bookkeeping => IndexesAgree
  BY DEF Bookkeeping
<1> QED
  BY <1>1, Inductive, PTL

\* The success counters count the successful missions of each type.
THEOREM SuccessesCorrect == Spec => []SuccessesAgree
<1>1. Bookkeeping => SuccessesAgree
  BY DEF Bookkeeping
<1> QED
  BY <1>1, Inductive, PTL

\* Where nothing blocks, the owners of the needed resources are enough to find
\* every conflict (_conflicts_locked).
LEMMA NoConflictOverlooked ==
  ASSUME TypeOK, IndexesAgree, ~closed, NEW m \in Missions, Conflicts(m) = {},
         NEW n \in Running, n # m
  PROVE  ~Clash(m, n)
<1>1. n \in active /\ phase[n] \in Active
  BY DEF IndexesAgree, Running
<1>2. CASE Blocks[m] # {} \/ \E o \in active : Blocks[o] # {}
  BY <1>1, <1>2 DEF Conflicts, Candidates
<1>3. CASE Blocks[m] = {} /\ \A o \in active : Blocks[o] = {}
  <2>1. SUFFICES ASSUME NEW r \in Needs[m] \cap Needs[n] PROVE FALSE
    BY <1>1, <1>3 DEF Clash
  <2>2. r \in Resources
    BY SchedulerAssumption
  <2>3. n \in owners[r]
    BY <2>2 DEF IndexesAgree
  <2>4. n \in Conflicts(m)
    BY <1>1, <1>3, <2>3 DEF Conflicts, Candidates, Clash
  <2> QED
    BY <2>4
<1> QED
  BY <1>2, <1>3

LEMMA ClashIsSymmetric ==
  ASSUME NEW m, NEW n PROVE Clash(m, n) <=> Clash(n, m)
  BY DEF Clash

\* A step starts only a mission that clashes with none that runs.
LEMMA ConflictStep ==
  ASSUME TypeOK, Bookkeeping, NoConflict, [Next]_vars
  PROVE  NoConflict'
<1>0. Change
  BY StepChanges DEF Bookkeeping
<1>1. CASE Running' \subseteq Running
  BY <1>1 DEF NoConflict
<1>2. CASE Still \/ Closes
  <2>1. Running' \subseteq Running
    BY <1>2 DEF Still, Closes, Running
  <2> QED
    BY <1>1, <2>1
<1>3. ASSUME NEW m \in Missions, Registers(m) \/ Unregisters(m) \/ Strays(m)
      PROVE  NoConflict'
  <2>1. Running' \subseteq Running
    BY <1>3, PhaseNames DEF Registers, Unregisters, Strays, Running, Bookkeeping, TypeOK
  <2> QED
    BY <1>1, <2>1
<1>4. ASSUME NEW m \in Missions, NEW next \in Phases, Moved(m, next) PROVE NoConflict'
  <2>1. CASE next \notin Active \/ phase[m] \in Active
    <3>1. Running' \subseteq Running
      BY <1>4, <2>1 DEF Moved, Running, TypeOK
    <3> QED
      BY <1>1, <3>1
  <2>2. CASE next \in Active /\ phase[m] \notin Active
    <3>1. m \in registered /\ Conflicts(m) = {} /\ ~closed
      BY <1>4, <2>2 DEF Moved, MayStart, Bookkeeping
    <3>2. \A n \in Running : n # m => ~Clash(m, n)
      BY <3>1, NoConflictOverlooked DEF Bookkeeping
    <3>3. Running' = Running \cup {m}
      BY <1>4, <2>2, <3>1 DEF Moved, Running, TypeOK
    <3> QED
      BY <3>2, <3>3, ClashIsSymmetric DEF NoConflict
  <2> QED
    BY <2>1, <2>2
<1> QED
  BY <1>0, <1>2, <1>3, <1>4 DEF Change

\* Two missions that conflict are never active together, however they came to be
\* launched: the second admission and the start are one section.
THEOREM ConflictsExcluded == Spec => []NoConflict
<1>1. Init => NoConflict
  BY DEF Init, NoConflict, Running
<1>2. TypeOK /\ Bookkeeping /\ NoConflict /\ [Next]_vars => NoConflict'
  BY ConflictStep
<1> QED
  BY <1>1, <1>2, Inductive, PTL DEF Spec

------------------------------------------------------------------------------
\* The limits.

LEMMA IndexesAreFinite ==
  ASSUME Bookkeeping, ~closed
  PROVE  /\ IsFiniteSet(active) /\ Cardinality(active) \in Nat
         /\ IsFiniteSet(queued) /\ Cardinality(queued) \in Nat
<1>1. active \in SUBSET registered
  BY DEF Bookkeeping, IndexesAgree, Running
<1>2. IsFiniteSet(active) /\ IsFiniteSet(queued)
  BY <1>1, FS_Subset DEF Bookkeeping
<1> QED
  BY <1>2, FS_CardinalityType

\* The limits, of the indexes that the code counts.
Limited ==
  /\ Cardinality(active) <= MaxActive
  /\ Cardinality(queued) <= MaxQueued

\* A move adds to the active or to the queued missions only below the limit.
LEMMA MoveWithinLimits ==
  ASSUME TypeOK, Bookkeeping, Limited, ~closed,
         NEW m \in Missions, NEW next \in Phases, Moved(m, next)
  PROVE  Limited'
<1> USE SchedulerAssumption, IndexesAreFinite
<1>1. Cardinality(active') <= MaxActive
  <2>1. CASE active' \in SUBSET active
    <3>1. Cardinality(active') <= Cardinality(active) /\ Cardinality(active') \in Nat
      BY <2>1, FS_Subset, FS_CardinalityType
    <3> QED
      BY <3>1 DEF Limited
  <2>2. CASE active' = active \cup {m} /\ next \in Active /\ phase[m] \notin Active
    <3>1. MayStart(m, TRUE)
      BY <2>2 DEF Moved
    <3>2. ~(Cardinality(active) >= MaxActive)
      BY <3>1 DEF MayStart, MustQueue, AtCapacity
    <3>3. Cardinality(active') = Cardinality(active) + 1
      <4>1. m \notin active
        BY <2>2 DEF Bookkeeping, IndexesAgree, Running
      <4> QED
        BY <2>2, <4>1, FS_AddElement
    <3>4. Cardinality(active') \in Nat
      BY <2>2, FS_AddElement, FS_CardinalityType
    <3> QED
      BY <3>2, <3>3, <3>4
  <2> QED
    BY <2>1, <2>2 DEF Moved, Reindex
<1>2. Cardinality(queued') <= MaxQueued
  <2>1. CASE queued' \in SUBSET queued
    <3>1. Cardinality(queued') <= Cardinality(queued) /\ Cardinality(queued') \in Nat
      BY <2>1, FS_Subset, FS_CardinalityType
    <3> QED
      BY <3>1 DEF Limited
  <2>2. CASE queued' = queued \cup {m} /\ m \notin queued /\ next = QUEUED
    <3>1. (IF phase[m] = QUEUED THEN queued \ {m} ELSE queued) = queued
      BY <2>2
    <3>2. Cardinality(queued) < MaxQueued
      BY <2>2, <3>1 DEF Moved
    <3>3. Cardinality(queued') = Cardinality(queued) + 1
      BY <2>2, FS_AddElement
    <3> QED
      BY <3>2, <3>3
  <2>3. queued' \in SUBSET queued \/ (queued' = queued \cup {m} /\ m \notin queued /\ next = QUEUED)
    BY DEF Moved, Reindex
  <2> QED
    BY <2>1, <2>2, <2>3
<1> QED
  BY <1>1, <1>2 DEF Limited

LEMMA LimitStep ==
  ASSUME TypeOK, Bookkeeping, ~closed => Limited, [Next]_vars, ~closed'
  PROVE  Limited'
<1>0. Change
  BY StepChanges DEF Bookkeeping
<1>1. CASE Still \/ \E m \in Missions : Registers(m)
  BY <1>1 DEF Still, Registers, Limited, indexes
<1>2. ASSUME NEW m \in Missions, Unregisters(m) PROVE Limited'
  <2>1. ~closed /\ active' \subseteq active /\ queued' \subseteq queued
    BY <1>2, PhaseNames DEF Unregisters, Reindex, Bookkeeping
  <2>2. /\ Cardinality(active') <= Cardinality(active) /\ Cardinality(active') \in Nat
        /\ Cardinality(queued') <= Cardinality(queued) /\ Cardinality(queued') \in Nat
    BY <2>1, IndexesAreFinite, FS_Subset, FS_CardinalityType
  <2> QED
    BY <2>1, <2>2, IndexesAreFinite, SchedulerAssumption DEF Limited
<1>3. ASSUME NEW m \in Missions, NEW next \in Phases, Moved(m, next) PROVE Limited'
  BY <1>3, MoveWithinLimits DEF Moved
<1>4. ASSUME NEW m \in Missions, Strays(m) PROVE Limited'
  <2>1. ~closed /\ active' = active /\ Cardinality(queued) < MaxQueued
    BY <1>4 DEF Strays
  <2>2. Cardinality(queued') <= Cardinality(queued) + 1 /\ Cardinality(queued') \in Nat
    <3>1. queued' = queued \cup {m} /\ IsFiniteSet(queued) /\ Cardinality(queued) \in Nat
      BY <1>4, <2>1, IndexesAreFinite DEF Strays
    <3>2. /\ IsFiniteSet(queued \cup {m})
          /\ Cardinality(queued \cup {m}) \in {Cardinality(queued), Cardinality(queued) + 1}
      BY <3>1, FS_AddElement
    <3> QED
      BY <3>1, <3>2
  <2> QED
    BY <2>1, <2>2, IndexesAreFinite, SchedulerAssumption DEF Limited
<1>5. ~Closes
  BY DEF Closes
<1> QED
  BY <1>0, <1>1, <1>2, <1>3, <1>4, <1>5 DEF Change

\* A closed engine has no registered missions, an open one counts its indexes.
LEMMA LimitedIsEnough ==
  ASSUME Bookkeeping, ~closed => Limited
  PROVE  WithinLimits
<1>1. CASE closed
  <2>1. Running = {} /\ Queued = {}
    BY <1>1 DEF Bookkeeping, Running, Queued
  <2>2. Cardinality(Running) = 0 /\ Cardinality(Queued) = 0
    BY <2>1, FS_EmptySet
  <2> QED
    BY <2>2, SchedulerAssumption DEF WithinLimits
<1>2. CASE ~closed
  <2>1. active = Running /\ Queued \subseteq queued
    BY <1>2 DEF Bookkeeping, IndexesAgree
  <2>2. Cardinality(Queued) <= Cardinality(queued) /\ Cardinality(Queued) \in Nat
    BY <1>2, <2>1, IndexesAreFinite, FS_Subset, FS_CardinalityType
  <2> QED
    BY <1>2, <2>1, <2>2, IndexesAreFinite, SchedulerAssumption DEF Limited, WithinLimits
<1> QED
  BY <1>1, <1>2

\* Launches, preemptions, the queue and retries keep both limits of the engine.
THEOREM LimitsKept == Spec => []WithinLimits
<1> DEFINE OpenLimited == ~closed => Limited
<1>1. Init => OpenLimited
  BY FS_EmptySet, SchedulerAssumption DEF Init, Limited
<1>2. TypeOK /\ Bookkeeping /\ OpenLimited /\ [Next]_vars => OpenLimited'
  BY LimitStep
<1>3. Bookkeeping /\ OpenLimited => WithinLimits
  BY LimitedIsEnough
<1> HIDE DEF OpenLimited
<1> QED
  BY <1>1, <1>2, <1>3, Inductive, PTL DEF Spec

------------------------------------------------------------------------------
\* Prerequisites.

\* A step that makes a mission STARTING finds a success of every required type.
LEMMA StartStep ==
  ASSUME TypeOK, Bookkeeping, Next, NEW m \in Missions,
         phase[m] # STARTING, phase'[m] = STARTING, NEW k \in Requires[m]
  PROVE  \E n \in registered : TypeOf[n] = k /\ phase[n] = SUCCEEDED
<1>1. PICK o \in Missions, next \in Phases :
        Moved(o, next) /\ phase'[m] # phase[m] /\ ~closed
        /\ o = m /\ next = STARTING
  <2>1. Change
    BY StepChanges DEF Bookkeeping
  <2>2. ~Still /\ ~Closes /\ ~\E o \in Missions : Registers(o) \/ Strays(o)
    BY DEF Still, Closes, Registers, Strays
  <2>3. ~\E o \in Missions : Unregisters(o)
    BY PhaseNames DEF Unregisters, TypeOK
  <2>4. PICK o \in Missions, next \in Phases : Moved(o, next)
    BY <2>1, <2>2, <2>3 DEF Change
  <2>5. o = m /\ next = STARTING
    BY <2>4 DEF Moved, TypeOK
  <2>6. m \in registered
    BY <2>4, <2>5, PhaseNames DEF Moved
  <2> QED
    BY <2>4, <2>5, <2>6 DEF Bookkeeping
<1>2. MayStart(m, TRUE)
  BY <1>1, PhaseNames DEF Moved
<1>3. k \in Types /\ succeeded[k] # 0
  BY <1>2, SchedulerAssumption DEF MayStart, Missing
<1>4. Cardinality(Successes(k)) # 0 /\ IsFiniteSet(Successes(k))
  BY <1>1, <1>3, SuccessesAreFinite
<1>5. Successes(k) # {}
  BY <1>4, FS_EmptySet
<1> QED
  BY <1>5 DEF Successes

\* A mission is never started on the strength of a success that has been taken
\* back or unregistered since.
THEOREM PrerequisitesHold == Spec => PrerequisitesMet
<1>1. TypeOK /\ Bookkeeping /\ [Next]_vars =>
        [\A m \in Missions :
           phase[m] # STARTING /\ phase'[m] = STARTING =>
             \A k \in Requires[m] :
               \E n \in registered : TypeOf[n] = k /\ phase[n] = SUCCEEDED]_vars
  BY StartStep
<1> QED
  BY <1>1, Inductive, PTL DEF Spec, PrerequisitesMet

------------------------------------------------------------------------------
\* The contract of each mission.

\* No outcome is decided while a mission may still decide one.
OneOutcome == \A m \in Missions : phase[m] \in Interruptible => outcome[m] = Undecided

InContract(m) == Contract(m)!Next \/ UNCHANGED Contract(m)!vars
AllInContract ==
  \A m \in Missions :
    InContract(m) \/ (m \in registered \ registered' /\ phase'[m] = REGISTERED)

\* A mission that is left alone is in its contract.
LEMMA StaysInContract ==
  ASSUME NEW m \in Missions, phase'[m] = phase[m], outcome'[m] = outcome[m]
  PROVE  InContract(m)
  BY DEF InContract, Contract!vars

\* The contract and the engine speak of the same phases.
LEMMA SamePhases ==
  ASSUME NEW m
  PROVE  /\ Contract(m)!Active = Active /\ Contract(m)!Terminal = Terminal
         /\ Contract(m)!Undecided = Undecided
         /\ Contract(m)!REGISTERED = REGISTERED /\ Contract(m)!QUEUED = QUEUED
         /\ Contract(m)!STARTING = STARTING /\ Contract(m)!STOPPING = STOPPING
         /\ Contract(m)!FAILED = FAILED
         /\ \A p, n : Contract(m)!MayFollow(p, n) <=> MayFollow(p, n)
<1> USE DEF Contract!REGISTERED, Contract!QUEUED, Contract!STARTING,
      Contract!RUNNING, Contract!PAUSING, Contract!PAUSED, Contract!STOPPING,
      Contract!STOPPED, Contract!SUCCEEDED, Contract!FAILED, Contract!CANCELLED,
      REGISTERED, QUEUED, STARTING, RUNNING, PAUSING, PAUSED, STOPPING, STOPPED,
      SUCCEEDED, FAILED, CANCELLED
<1>1. Contract(m)!Active = Active /\ Contract(m)!Terminal = Terminal
  BY DEF Contract!Active, Contract!Terminal, Active, Terminal
<1>2. Contract(m)!Undecided = Undecided
  BY DEF Contract!Undecided, Undecided
<1>3. \A p, n : Contract(m)!MayFollow(p, n) <=> MayFollow(p, n)
  BY <1>1 DEF Contract!MayFollow, Contract!Successors, MayFollow, Successors
<1> QED
  BY <1>1, <1>2, <1>3

\* A mission that is not active waits.
LEMMA WaitsInContract ==
  ASSUME TypeOK, NEW o \in Missions, NEW next, Transition(o, next), UNCHANGED outcome,
         phase[o] \notin Active, next \notin Active
  PROVE  AllInContract
<1>1. Contract(o)!Wait
  BY SamePhases DEF Contract!Wait, Transition, TypeOK
<1> QED
  BY <1>1, StaysInContract DEF AllInContract, InContract, Contract!Next, Transition, TypeOK

\* It is launched when no outcome is pending.
LEMMA LaunchesInContract ==
  ASSUME TypeOK, NEW o \in Missions, Transition(o, STARTING), UNCHANGED outcome,
         outcome[o] = Undecided
  PROVE  AllInContract
<1>1. phase[o] \notin Active
  BY DEF Transition, MayFollow, Successors, Active, Terminal, REGISTERED, QUEUED,
      STARTING, RUNNING, PAUSING, PAUSED, STOPPING, STOPPED, SUCCEEDED, FAILED,
      CANCELLED
<1>2. Contract(o)!Launch
  BY <1>1, SamePhases DEF Contract!Launch, Transition, TypeOK
<1> QED
  BY <1>2, StaysInContract DEF AllInContract, InContract, Contract!Next, Transition, TypeOK

\* Its outcome is decided while it is active and nothing is decided.
LEMMA DecidesInContract ==
  ASSUME TypeOK, OneOutcome, NEW o \in Missions, NEW result \in Terminal,
         phase[o] \in Interruptible, Transition(o, STOPPING),
         outcome' = [outcome EXCEPT ![o] = result]
  PROVE  AllInContract
<1>1. Contract(o)!Decide
  BY SamePhases DEF Contract!Decide, Transition, TypeOK, OneOutcome, Interruptible
<1> QED
  BY <1>1, StaysInContract DEF AllInContract, InContract, Contract!Next, Transition, TypeOK

\* Launching keeps the contract,
LEMMA LaunchInContract ==
  ASSUME TypeOK, OneOutcome, NEW t \in Threads, Launch(t)
  PROVE  AllInContract
<1> USE PhaseNames DEF lives
<1>1. CASE UNCHANGED <<phase, outcome>>
  BY <1>1, StaysInContract DEF AllInContract
<1>2. ASSUME goal[t] \in registered, phase[goal[t]] \notin Active, Queue(goal[t]),
             UNCHANGED outcome
      PROVE  AllInContract
  <2>1. goal[t] \in Missions
    BY <1>2 DEF TypeOK
  <2> QED
    BY <1>1, <1>2, <2>1, WaitsInContract DEF Queue
<1>3. ASSUME goal[t] \in registered, phase[goal[t]] \in Active, Queue(goal[t])
      PROVE  UNCHANGED phase
  BY <1>3 DEF Queue, Transition, MayFollow, Successors, Active, Terminal, REGISTERED,
      QUEUED, STARTING, RUNNING, PAUSING, PAUSED, STOPPING, STOPPED, SUCCEEDED,
      FAILED, CANCELLED
<1>4. CASE EnterLaunch(t) \/ LockLaunch(t) \/ LaunchRaises(t)
  BY <1>1, <1>4 DEF EnterLaunch, LockLaunch, LaunchRaises
<1>5. CASE Admit(t)
  BY <1>1, <1>2, <1>5 DEF Admit
<1>6. CASE DoNotStart(t)
  BY <1>1, <1>2, <1>3, <1>6 DEF DoNotStart
<1>7. CASE Start(t)
  <2>1. goal[t] \in Missions
    BY <1>7 DEF TypeOK, Start
  <2> QED
    BY <1>7, <2>1, LaunchesInContract DEF Start
<1> QED
  BY <1>4, <1>5, <1>6, <1>7 DEF Launch

\* stopping others does,
LEMMA StopOthersInContract ==
  ASSUME TypeOK, OneOutcome, NEW t \in Threads, StopOthers(t)
  PROVE  AllInContract
<1> USE PhaseNames DEF lives
<1>1. CASE UNCHANGED <<phase, outcome>>
  BY <1>1, StaysInContract DEF AllInContract
<1>2. \A m \in Missions : Wanted(t, m) \in Terminal
  BY DEF Wanted
<1>3. ASSUME NEW m \in Missions, StopIdle(t, m) PROVE AllInContract
  BY <1>1, <1>2, <1>3, WaitsInContract DEF StopIdle
<1>4. ASSUME NEW m \in Missions, StopActive(t, m) PROVE AllInContract
  BY <1>1, <1>2, <1>4, DecidesInContract DEF StopActive
<1>5. CASE StopFails(t) \/ Stopped(t) \/ \E m \in Missions : StopRejected(t, m)
  BY <1>1, <1>5 DEF StopFails, Stopped, StopRejected
<1> QED
  BY <1>3, <1>4, <1>5 DEF StopOthers

\* and so do the missions themselves.
LEMMA MissionInContract ==
  ASSUME TypeOK, OneOutcome, NEW m \in Missions, MissionStep(m)
  PROVE  AllInContract
<1> USE PhaseNames, SamePhases, SchedulerAssumption
<1>1. CASE Proceed(m)
  <2>1. Contract(m)!Proceed
    BY <1>1 DEF Contract!Proceed, Proceed, Transition, TypeOK
  <2> QED
    BY <1>1, <2>1, StaysInContract
       DEF AllInContract, InContract, Contract!Next, Proceed, Transition, TypeOK
<1>2. CASE DecideIdle(m)
  <2>1. Contract(m)!DecideIdle
    BY <1>2 DEF Contract!DecideIdle, DecideIdle, TypeOK
  <2> QED
    BY <1>2, <2>1, StaysInContract
       DEF AllInContract, InContract, Contract!Next, DecideIdle, TypeOK
<1>3. CASE Settle(m)
  <2>1. Contract(m)!Settle
    BY <1>3 DEF Contract!Settle, Settle, Settled, Transition, TypeOK
  <2> QED
    BY <1>3, <2>1, StaysInContract
       DEF AllInContract, InContract, Contract!Next, Settle, Settled, Transition, TypeOK
<1>4. CASE Retry(m)
  <2>1. Contract(m)!Settle
    <3>1. outcome[m] = FAILED /\ FAILED # Undecided /\ phase'[m] = QUEUED
      BY <1>4 DEF Retry, TypeOK, Undecided
    <3> QED
      BY <1>4, <3>1 DEF Contract!Settle, Retry, Settled, TypeOK
  <2> QED
    BY <1>4, <2>1, StaysInContract
       DEF AllInContract, InContract, Contract!Next, Retry, Settled, TypeOK
<1>5. CASE DelayPasses(m)
  BY <1>5, StaysInContract DEF AllInContract, DelayPasses
<1>6. ASSUME NEW result \in Results, Decide(m, result) PROVE AllInContract
  BY <1>6, DecidesInContract DEF Decide
<1>7. ASSUME NEW result \in {STOPPED, CANCELLED}, Abandon(m, result) PROVE AllInContract
  BY <1>7, WaitsInContract DEF Abandon
<1>8. CASE FailLate(m)
  BY <1>8, StaysInContract DEF AllInContract, FailLate, lives
<1> QED
  BY <1>1, <1>2, <1>3, <1>4, <1>5, <1>6, <1>7, <1>8 DEF MissionStep

LEMMA ContractStep ==
  ASSUME TypeOK, OneOutcome, ScanAgrees, Next
  PROVE  AllInContract
<1> USE PhaseNames DEF lives, engine
<1>1. CASE UNCHANGED <<phase, outcome>>
  BY <1>1, StaysInContract DEF AllInContract
<1>2. CASE SchedulerStep
  <2>1. ASSUME NEW m \in Missions, QueueTimesOut(m) PROVE AllInContract
    <3>1. phase[m] = QUEUED
      BY <2>1 DEF QueueTimesOut, Foremost, ScanAgrees
    <3> QED
      BY <2>1, <3>1, WaitsInContract DEF QueueTimesOut
  <2> QED
    BY <1>1, <1>2, <2>1 DEF SchedulerStep, ScanQueue, SchedulerEnds, ScanEnds, PromoteNext
<1>3. ASSUME NEW t \in Clients, NEW m \in Missions, Unregister(t, m) PROVE AllInContract
  <2>1. m \in registered \ registered' /\ phase'[m] = REGISTERED
    BY <1>3 DEF Unregister, TypeOK
  <2>2. \A n \in Missions \ {m} : phase'[n] = phase[n] /\ outcome'[n] = outcome[n]
    BY <1>3 DEF Unregister, TypeOK
  <2> QED
    BY <2>1, <2>2, StaysInContract DEF AllInContract
<1>4. CASE \/ \E t \in Threads : FinishEngine(t)
           \/ \E t \in Clients : \/ StartEngine(t) \/ StopEngine(t, FALSE)
                               \/ StopEngine(t, TRUE) \/ \E m \in Missions : Run(t, m)
  BY <1>1, <1>4 DEF FinishEngine, JoinScheduler, FinishStop, CloseEngine, StartEngine,
      StopEngine, Run
<1> QED
  BY <1>2, <1>3, <1>4, LaunchInContract, StopOthersInContract, MissionInContract DEF Next

\* A contract step keeps OneOutcome.
LEMMA OneOutcomeStep ==
  ASSUME TypeOK, OneOutcome, ScanAgrees, [Next]_vars
  PROVE  OneOutcome'
<1>1. CASE UNCHANGED vars
  BY <1>1 DEF OneOutcome, vars, lives
<1>2. CASE Next
  <2> SUFFICES ASSUME NEW m \in Missions, phase'[m] \in Interruptible
               PROVE  outcome'[m] = Undecided
    BY DEF OneOutcome
  <2>1. InContract(m)
    BY <1>2, ContractStep, PhaseNames DEF AllInContract, Interruptible
  <2> QED
    BY <2>1, SamePhases, PhaseNames
       DEF InContract, Contract!Next, Contract!vars, Contract!Launch, Contract!Wait,
           Contract!Proceed, Contract!Decide, Contract!DecideIdle, Contract!Enter,
           Contract!Leave, Contract!Settle, OneOutcome, Interruptible, TypeOK
<1> QED
  BY <1>1, <1>2

\* Whatever the engine does with the other missions, every mission keeps the
\* contract that the detailed lifecycle of one mission has been shown to keep
\* (RefinesContract in MissionLifecycle_proofs): the two levels fit together.
THEOREM ContractKept == Spec => KeepsContract
<1>1. Init => OneOutcome /\ \A m \in Missions : Contract(m)!Init
  BY SamePhases DEF Init, OneOutcome, Contract!Init, Undecided
<1>2. TypeOK /\ Bookkeeping /\ OneOutcome /\ [Next]_vars => OneOutcome'
  BY OneOutcomeStep DEF Bookkeeping
<1>3. TypeOK /\ Bookkeeping /\ OneOutcome /\ [Next]_vars =>
        [\A m \in Missions \ (registered \ registered') :
           Contract(m)!Next \/ UNCHANGED Contract(m)!vars]_vars
  BY ContractStep DEF Bookkeeping, AllInContract, InContract
<1> QED
  BY <1>1, <1>2, <1>3, Inductive, PTL DEF Spec, KeepsContract

------------------------------------------------------------------------------
\* The stopping latch.

InStop(t) == pc[t] \in {"stop", "join", "finish"}

\* No two stop() or close() calls overlap, after the section that decides what
\* there is to stop.
StopsOneByOne == \A t, u \in Threads : InStop(t) /\ InStop(u) => t = u

\* A stop() that may still find out about the scheduler thread, or has found
\* out that it does not end.
Covers(t) == failed[t] \/ (t \in joiners /\ pc[t] \in {"stop", "join"})

\* While the scheduler thread outlives the engine, the latch is closed and
\* nobody in stop() is about to open it.
LatchInv ==
  ~running /\ SchedulerAlive =>
    stopping /\ \A t \in Threads : InStop(t) => Covers(t)

\* What most steps do: they neither begin a stop() nor lose what one knows.
Uncovers == \E t \in Threads : InStop(t)' /\ ~(InStop(t) /\ (Covers(t) => Covers(t)'))
LatchLeft ==
  /\ UNCHANGED <<running, stopping>>
  /\ SchedulerAlive' => SchedulerAlive /\ ~Uncovers

\* A step that leaves the latch alone keeps the invariant.
LEMMA LeftIsKept ==
  ASSUME LatchInv, LatchLeft
  PROVE  LatchInv'
  BY DEF LatchInv, LatchLeft, Uncovers

\* Nothing that the latch depends on changes.
LEMMA NothingMoves ==
  ASSUME UNCHANGED <<running, stopping, pc, failed, joiners>>
  PROVE  LatchLeft
  BY DEF LatchLeft, Uncovers, InStop, Covers, SchedulerAlive

\* A thread goes on outside stop(); only an end of the scheduler frees those who
\* join it.
LEMMA GoesOn ==
  ASSUME TypeOK, NEW t \in Threads, NEW label, Goto(t, label),
         pc[t] \notin {"off", "dead"}, label \notin {"stop", "join", "finish"},
         UNCHANGED <<running, stopping, failed>>,
         joiners' = joiners \/ (t = Scheduler /\ label \in {"off", "dead"})
  PROVE  LatchLeft
<1>1. pc' = [pc EXCEPT ![t] = label] /\ DOMAIN pc = Threads
  BY DEF Goto, TypeOK
<1>2. SchedulerAlive' => SchedulerAlive /\ joiners' = joiners
  BY <1>1, SchedulerIsThread DEF SchedulerAlive
<1>3. ASSUME NEW u \in Threads, InStop(u)', joiners' = joiners
      PROVE  InStop(u) /\ (Covers(u) => Covers(u)')
  BY <1>1, <1>3 DEF InStop, Covers
<1> QED
  BY <1>2, <1>3 DEF LatchLeft, Uncovers

\* The same for the two ways in which a launch ends.
LEMMA LaunchEnds ==
  ASSUME TypeOK, NEW t \in Threads, Leave(t) \/ Raise(t), pc[t] \notin {"off", "dead"},
         UNCHANGED <<running, stopping, failed>>
  PROVE  LatchLeft
<1>1. CASE Leave(t)
  BY <1>1, GoesOn DEF Leave
<1>2. CASE Raise(t)
  BY <1>2, GoesOn DEF Raise
<1> QED
  BY <1>1, <1>2

\* Launches leave the latch alone, but for the start of the engine.
LEMMA LaunchLatch ==
  ASSUME TypeOK, NEW t \in Threads, Launch(t)
  PROVE  LatchLeft \/ running'
<1> USE DEF engine, stops
<1>1. CASE EnterLaunch(t)
  <2>1. CASE Started(t, "lock")
    BY <2>1 DEF Started
  <2>2. CASE Raise(t) /\ UNCHANGED running
    BY <1>1, <2>2, LaunchEnds DEF EnterLaunch
  <2> QED
    BY <1>1, <2>1, <2>2 DEF EnterLaunch
<1>2. CASE LockLaunch(t)
  <2>1. CASE Goto(t, "admit") /\ UNCHANGED joiners
    BY <1>2, <2>1, GoesOn DEF LockLaunch
  <2>2. CASE Raise(t)
    BY <1>2, <2>2, LaunchEnds DEF LockLaunch
  <2> QED
    BY <1>2, <2>1, <2>2 DEF LockLaunch
<1>3. CASE Admit(t)
  <2>1. UNCHANGED <<running, stopping, failed>> /\ pc[t] = "admit"
    BY <1>3 DEF Admit
  <2>2. \/ Leave(t)
        \/ Goto(t, "preempt") /\ UNCHANGED joiners
        \/ Goto(t, "start") /\ UNCHANGED joiners
    BY <1>3, Zenon DEF Admit
  <2> QED
    BY <2>1, <2>2, GoesOn, LaunchEnds
<1>4. CASE Start(t)
  BY <1>4, LaunchEnds DEF Start
<1>5. CASE DoNotStart(t)
  <2>1. UNCHANGED <<running, stopping, failed>> /\ pc[t] = "start"
    BY <1>5 DEF DoNotStart
  <2>2. Leave(t) \/ (Goto(t, "repreempt") /\ UNCHANGED joiners)
    BY <1>5, Zenon DEF DoNotStart
  <2> QED
    BY <2>1, <2>2, GoesOn, LaunchEnds
<1>6. CASE LaunchRaises(t)
  BY <1>6, LaunchEnds DEF LaunchRaises
<1> QED
  BY <1>1, <1>2, <1>3, <1>4, <1>5, <1>6 DEF Launch

\* An error in engine.stop() is remembered, one in a preemption ends the launch.
LEMMA RaisesLatch ==
  ASSUME TypeOK, NEW t \in Threads, StopRaises(t), pc[t] \in {"preempt", "repreempt", "stop"},
         UNCHANGED <<running, stopping>>
  PROVE  LatchLeft
<1>1. CASE pc[t] = "stop"
  <2>1. /\ failed' = [failed EXCEPT ![t] = TRUE] /\ DOMAIN failed = Threads
        /\ pc' = pc /\ joiners' = joiners
    BY <1>1 DEF StopRaises, TypeOK
  <2> QED
    BY <2>1 DEF LatchLeft, Uncovers, InStop, Covers, SchedulerAlive
<1>2. CASE pc[t] # "stop"
  BY <1>2, LaunchEnds DEF StopRaises
<1> QED
  BY <1>1, <1>2

\* Who waits for the end of a mission is about to stop others.
Stoppers == {"preempt", "repreempt", "stop"}
Awaited == \A t \in Threads : awaits[t] # NoMission => pc[t] \in Stoppers

\* Whoever stops the others leaves the latch alone.
LEMMA StopOthersLatch ==
  ASSUME TypeOK, Awaited, NEW t \in Threads, StopOthers(t)
  PROVE  LatchLeft
<1> USE DEF engine, stops, Awaited, Stoppers
<1>1. CASE \E m \in Missions : StopIdle(t, m) \/ StopActive(t, m)
  BY <1>1, NothingMoves DEF StopIdle, StopActive
<1>2. CASE \E m \in Missions : StopRejected(t, m)
  BY <1>2, RaisesLatch DEF StopRejected, Stopping
<1>3. CASE StopFails(t)
  BY <1>3, RaisesLatch DEF StopFails
<1>4. CASE Stopped(t)
  <2>1. UNCHANGED <<running, stopping, failed, joiners>> /\ pc[t] \in {"preempt", "repreempt", "stop"}
    BY <1>4 DEF Stopped, Stopping
  <2>2. CASE pc[t] # "stop"
    <3>1. Goto(t, "start") \/ Goto(t, "admit")
      BY <1>4, <2>1, <2>2 DEF Stopped
    <3> QED
      BY <2>1, <3>1, GoesOn
  <2>3. CASE pc[t] = "stop"
    <3>1. pc' = [pc EXCEPT ![t] = "join"] /\ DOMAIN pc = Threads
      BY <1>4, <2>3 DEF Stopped, Goto, TypeOK
    <3> QED
      BY <2>1, <2>3, <3>1 DEF LatchLeft, Uncovers, InStop, Covers, SchedulerAlive
  <2> QED
    BY <2>1, <2>2, <2>3
<1> QED
  BY <1>1, <1>2, <1>3, <1>4 DEF StopOthers

\* What most steps do with those who wait: nobody begins to, and who does stays
\* where it is.
AwaitsLeft ==
  \A u \in Threads :
    awaits[u]' # NoMission =>
      awaits[u] # NoMission /\ (pc[u] \in Stoppers => pc[u]' = pc[u])

LEMMA AwaitedFollows ==
  ASSUME Awaited, AwaitsLeft
  PROVE  Awaited'
  BY DEF Awaited, AwaitsLeft

\* A thread that is not about to stop others goes on without waiting.
LEMMA GoesOnAwaited ==
  ASSUME TypeOK, UNCHANGED awaits, NEW t \in Threads, pc[t] \notin Stoppers,
         \A u \in Threads \ {t} : pc[u] \in Stoppers => pc[u]' = pc[u]
  PROVE  AwaitsLeft
  BY DEF AwaitsLeft

\* Only a thread's own step, or the start of the scheduler thread, changes where
\* it is.
LEMMA OthersStay ==
  ASSUME TypeOK, NEW t \in Threads, NEW label,
         Goto(t, label) \/ Leave(t) \/ Raise(t) \/ Started(t, label)
  PROVE  \A u \in Threads \ {t} : pc[u] \in Stoppers => pc[u]' = pc[u]
<1>0. DOMAIN pc = Threads
  BY DEF TypeOK
<1>1. CASE Goto(t, label) \/ Leave(t) \/ Raise(t)
  BY <1>0, <1>1 DEF Goto, Leave, Raise
<1>2. CASE Started(t, label)
  BY <1>0, <1>2 DEF Started, SchedulerAlive, Stoppers
<1> QED
  BY <1>1, <1>2

LEMMA LaunchAwaits ==
  ASSUME TypeOK, NEW t \in Threads, Launch(t)
  PROVE  AwaitsLeft
<1>1. UNCHANGED awaits /\ pc[t] \in LaunchLabels \ Stoppers
  <2> USE DEF stops, LaunchLabels, Stoppers
  <2>1. CASE EnterLaunch(t) \/ LockLaunch(t) \/ LaunchRaises(t)
    BY <2>1 DEF EnterLaunch, LockLaunch, LaunchRaises
  <2>2. CASE Admit(t)
    BY <2>2, Zenon DEF Admit
  <2>3. CASE Start(t) \/ DoNotStart(t)
    BY <2>3 DEF Start, DoNotStart
  <2> QED
    BY <2>1, <2>2, <2>3 DEF Launch
<1>2. \E label : Goto(t, label) \/ Leave(t) \/ Raise(t) \/ Started(t, label)
  <2>1. CASE EnterLaunch(t) \/ LockLaunch(t) \/ LaunchRaises(t)
    BY <2>1 DEF EnterLaunch, LockLaunch, LaunchRaises
  <2>2. CASE Admit(t)
    BY <2>2, Zenon DEF Admit
  <2>3. CASE Start(t) \/ DoNotStart(t)
    BY <2>3, Zenon DEF Start, DoNotStart
  <2> QED
    BY <2>1, <2>2, <2>3 DEF Launch
<1> QED
  BY <1>1, <1>2, OthersStay, GoesOnAwaited

LEMMA StopOthersAwaits ==
  ASSUME TypeOK, Awaited, NEW t \in Threads, StopOthers(t)
  PROVE  Awaited'
<1> USE DEF engine, stops
<1>0. DOMAIN pc = Threads /\ DOMAIN awaits = Threads
  BY DEF TypeOK
<1>1. CASE \E m \in Missions : StopIdle(t, m)
  BY <1>1 DEF StopIdle, Awaited
<1>2. CASE \E m \in Missions : StopActive(t, m)
  BY <1>0, <1>2 DEF StopActive, Stopping, Awaited, Stoppers
<1>3. ASSUME StopRaises(t) PROVE Awaited'
  <2>1. awaits' = [awaits EXCEPT ![t] = NoMission]
    BY <1>3 DEF StopRaises
  <2>2. UNCHANGED pc \/ Raise(t)
    BY <1>3 DEF StopRaises
  <2>3. \A u \in Threads \ {t} : pc[u] \in Stoppers => pc[u]' = pc[u]
    BY <2>2, OthersStay
  <2> QED
    BY <1>0, <2>1, <2>3 DEF Awaited
<1>4. CASE StopFails(t) \/ \E m \in Missions : StopRejected(t, m)
  BY <1>3, <1>4 DEF StopFails, StopRejected
<1>5. CASE Stopped(t)
  <2>1. awaits[t] = NoMission /\ UNCHANGED awaits
    BY <1>5 DEF Stopped, Stopping
  <2>2. \A u \in Threads \ {t} : pc[u] \in Stoppers => pc[u]' = pc[u]
    BY <1>5, OthersStay DEF Stopped
  <2> QED
    BY <2>1, <2>2 DEF Awaited
<1> QED
  BY <1>1, <1>2, <1>4, <1>5 DEF StopOthers

\* The engine's own commands and its scheduler thread.
LEMMA EngineAwaits ==
  ASSUME TypeOK, NEW t \in Threads,
         \/ StartEngine(t) \/ StopEngine(t, FALSE) \/ StopEngine(t, TRUE)
         \/ FinishEngine(t)
         \/ \E m \in Missions : Run(t, m) \/ Unregister(t, m)
  PROVE  AwaitsLeft
<1>1. UNCHANGED awaits /\ pc[t] \in {"idle", "join", "finish", "close"}
  BY DEF StartEngine, FinishEngine, JoinScheduler, FinishStop, CloseEngine, Run,
      Unregister, StopEngine, stops
<1>2. UNCHANGED pc \/ \E label : Goto(t, label) \/ Started(t, label)
  <2>1. CASE StartEngine(t) \/ \E m \in Missions : Run(t, m) \/ Unregister(t, m)
    BY <2>1 DEF StartEngine, Run, Unregister
  <2>2. CASE FinishEngine(t)
    BY <2>2 DEF FinishEngine, JoinScheduler, FinishStop, CloseEngine
  <2>3. CASE StopEngine(t, FALSE) \/ StopEngine(t, TRUE)
    BY <2>3, Zenon DEF StopEngine
  <2> QED
    BY <2>1, <2>2, <2>3
<1>3. \A u \in Threads \ {t} : pc[u] \in Stoppers => pc[u]' = pc[u]
  BY <1>2, OthersStay
<1> QED
  BY <1>1, <1>3, GoesOnAwaited DEF Stoppers

LEMMA SchedulerAwaits ==
  ASSUME TypeOK, SchedulerStep
  PROVE  AwaitsLeft
<1>1. UNCHANGED awaits /\ pc[Scheduler] \in {"wait", "scan"}
  BY DEF SchedulerStep, ScanQueue, SchedulerEnds, ScanEnds, QueueTimesOut, PromoteNext,
      stops
<1>2. UNCHANGED pc \/ \E label : Goto(Scheduler, label)
  BY DEF SchedulerStep, ScanQueue, SchedulerEnds, ScanEnds, QueueTimesOut, PromoteNext
<1>3. \A u \in Threads \ {Scheduler} : pc[u] \in Stoppers => pc[u]' = pc[u]
  BY <1>2, SchedulerIsThread, OthersStay
<1> QED
  BY <1>1, <1>3, SchedulerIsThread, GoesOnAwaited DEF Stoppers

LEMMA MissionAwaits ==
  ASSUME TypeOK, NEW m \in Missions, MissionStep(m)
  PROVE  AwaitsLeft
<1>1. UNCHANGED pc /\ (UNCHANGED awaits \/ Settled(m))
  BY DEF MissionStep, Proceed, Decide, DecideIdle, Abandon, Settle, Retry, FailLate,
      DelayPasses, Unseen, stops
<1> QED
  BY <1>1 DEF AwaitsLeft, Settled

LEMMA AwaitStep ==
  ASSUME TypeOK, Awaited, [Next]_vars
  PROVE  Awaited'
<1>1. CASE UNCHANGED vars
  BY <1>1 DEF vars, stops, Awaited
<1>2. Clients \subseteq Threads
  BY DEF Threads
<1> QED
  BY <1>1, <1>2, LaunchAwaits, StopOthersAwaits, EngineAwaits, SchedulerAwaits,
     MissionAwaits, AwaitedFollows DEF Next

\* The steps of the engine itself.  A stop() that begins is the only one, and
\* joins the scheduler thread if there is one.
LEMMA StopLatch ==
  ASSUME TypeOK, LatchInv, NEW t \in Threads, NEW closing, StopEngine(t, closing),
         StopsOneByOne'
  PROVE  LatchInv'
<1>0. pc[t] = "idle" /\ UNCHANGED failed /\ DOMAIN pc = Threads
  BY DEF StopEngine, TypeOK
<1>1. CASE /\ stopping' = TRUE
           /\ joiners' = (IF SchedulerAlive THEN joiners \cup {t} ELSE joiners)
           /\ Goto(t, "stop")
  <2>1. pc' = [pc EXCEPT ![t] = "stop"]
    BY <1>1 DEF Goto
  <2>2. \A u \in Threads : InStop(u)' => u = t
    BY <1>0, <2>1 DEF StopsOneByOne, InStop
  <2>3. SchedulerAlive' => SchedulerAlive \/ t = Scheduler
    BY <1>0, <2>1, SchedulerIsThread DEF SchedulerAlive
  <2>4. SchedulerAlive' => Covers(t)'
    BY <1>0, <1>1, <2>1, <2>3 DEF SchedulerAlive, Covers
  <2> QED
    BY <1>1, <2>2, <2>4 DEF LatchInv
<1>2. CASE ~running /\ ~SchedulerAlive /\ \E label \in {"close", "idle"} : Goto(t, label)
  <2>1. ~SchedulerAlive'
    BY <1>0, <1>2, SchedulerIsThread DEF SchedulerAlive, Goto
  <2> QED
    BY <2>1 DEF LatchInv
<1> QED
  BY <1>1, <1>2 DEF StopEngine

\* The end of a stop() opens the latch only if its scheduler thread has ended.
LEMMA FinishLatch ==
  ASSUME TypeOK, LatchInv, NEW t \in Threads, FinishEngine(t)
  PROVE  LatchInv'
<1>0. DOMAIN pc = Threads /\ DOMAIN failed = Threads
  BY DEF TypeOK
<1>1. CASE JoinScheduler(t)
  <2>1. /\ UNCHANGED <<running, stopping>> /\ pc[t] = "join"
        /\ pc' = [pc EXCEPT ![t] = "finish"]
    BY <1>1 DEF JoinScheduler, Goto, engine
  <2>2. \/ t \notin joiners /\ UNCHANGED <<failed, joiners>>
        \/ failed' = [failed EXCEPT ![t] = TRUE] /\ joiners' = joiners \ {t}
    BY <1>1 DEF JoinScheduler
  <2>3. ~Uncovers
    BY <1>0, <2>1, <2>2 DEF Uncovers, InStop, Covers
  <2>4. SchedulerAlive' => SchedulerAlive
    BY <1>0, <2>1 DEF SchedulerAlive
  <2> QED
    BY <2>1, <2>3, <2>4, LeftIsKept DEF LatchLeft
<1>2. CASE FinishStop(t)
  <2>1. /\ pc[t] = "finish" /\ stopping' = (stopping /\ failed[t])
        /\ failed' = [failed EXCEPT ![t] = FALSE] /\ UNCHANGED <<running, joiners>>
        /\ \E label \in {"close", "idle"} : pc' = [pc EXCEPT ![t] = label]
    BY <1>2 DEF FinishStop, Goto
  <2>2. SchedulerAlive' => SchedulerAlive
    BY <1>0, <2>1 DEF SchedulerAlive
  <2> SUFFICES ASSUME ~running', SchedulerAlive' PROVE LatchInv'
    BY DEF LatchInv
  <2>3. stopping /\ \A u \in Threads : InStop(u) => Covers(u)
    BY <2>1, <2>2 DEF LatchInv
  <2>4. failed[t]
    BY <2>1, <2>3 DEF InStop, Covers
  <2>5. \A u \in Threads : InStop(u)' => u # t /\ InStop(u)
    BY <1>0, <2>1 DEF InStop
  <2>6. \A u \in Threads \ {t} : InStop(u) /\ Covers(u) => Covers(u)'
    BY <1>0, <2>1 DEF InStop, Covers
  <2> QED
    BY <2>1, <2>3, <2>4, <2>5, <2>6 DEF LatchInv
<1>3. CASE CloseEngine(t)
  BY <1>3, GoesOn, LeftIsKept DEF CloseEngine, stops
<1> QED
  BY <1>1, <1>2, <1>3 DEF FinishEngine

LEMMA SchedulerLatch ==
  ASSUME TypeOK, SchedulerStep
  PROVE  LatchLeft
<1> USE SchedulerIsThread DEF engine, stops
<1>1. CASE ScanQueue
  <2>1. UNCHANGED <<running, stopping, failed>> /\ pc[Scheduler] = "wait"
    BY <1>1 DEF ScanQueue
  <2>2. (Goto(Scheduler, "scan") /\ UNCHANGED joiners) \/ Goto(Scheduler, "dead")
    BY <1>1 DEF ScanQueue
  <2> QED
    BY <2>1, <2>2, GoesOn
<1>2. CASE SchedulerEnds
  BY <1>2, GoesOn DEF SchedulerEnds
<1>3. CASE ScanEnds
  BY <1>3, GoesOn DEF ScanEnds
<1>4. CASE \E m \in Missions : QueueTimesOut(m)
  BY <1>4, NothingMoves DEF QueueTimesOut
<1>5. ASSUME NEW m \in Missions, PromoteNext(m) PROVE LatchLeft
  <2>1. UNCHANGED <<running, stopping, failed, joiners>> /\ pc[Scheduler] = "scan"
    BY <1>5 DEF PromoteNext
  <2>2. UNCHANGED pc \/ Goto(Scheduler, "enter")
    BY <1>5 DEF PromoteNext
  <2> QED
    BY <2>1, <2>2, GoesOn, NothingMoves
<1> QED
  BY <1>1, <1>2, <1>3, <1>4, <1>5 DEF SchedulerStep

LEMMA LatchStep ==
  ASSUME TypeOK, Awaited, LatchInv, StopsOneByOne', [Next]_vars
  PROVE  LatchInv'
<1>0. Clients \subseteq Threads
  BY DEF Threads
<1>1. CASE UNCHANGED vars
  BY <1>1, NothingMoves, LeftIsKept DEF vars, engine, stops
<1>2. CASE \E t \in Threads : Launch(t)
  BY <1>2, LaunchLatch, LeftIsKept DEF LatchInv
<1>3. CASE \E t \in Threads : StopOthers(t)
  BY <1>3, StopOthersLatch, LeftIsKept
<1>4. CASE \E m \in Missions : MissionStep(m)
  <2>1. UNCHANGED <<running, stopping, pc, failed, joiners>>
    BY <1>4 DEF MissionStep, Proceed, Decide, DecideIdle, Abandon, Settle, Retry,
        FailLate, DelayPasses, Unseen, engine, stops
  <2> QED
    BY <2>1, NothingMoves, LeftIsKept
<1>5. ASSUME NEW t \in Clients, StartEngine(t) PROVE LatchInv'
  BY <1>5 DEF StartEngine, Started, LatchInv
<1>6. ASSUME NEW t \in Clients, NEW m \in Missions, Run(t, m) PROVE LatchInv'
  BY <1>0, <1>6, GoesOn, LeftIsKept DEF Run, stops
<1>7. ASSUME NEW t \in Clients, NEW m \in Missions, Unregister(t, m) PROVE LatchInv'
  BY <1>7, NothingMoves, LeftIsKept DEF Unregister, stops
<1> QED
  BY <1>0, <1>1, <1>2, <1>3, <1>4, <1>5, <1>6, <1>7, StopLatch, FinishLatch,
     SchedulerLatch, LeftIsKept DEF Next

\* Provided that stop() calls do not overlap, no start() finds a scheduler thread of
\* an earlier one behind an open latch, also after a stop() that met errors or
\* whose join timed out, and with any number of threads that run, stop and close.
THEOREM LatchCovers == Spec /\ []StopsOneByOne => []LatchCoversScheduler
<1>1. Init => Awaited /\ LatchInv
  BY SchedulerIsThread DEF Init, Awaited, LatchInv, SchedulerAlive
<1>2. TypeOK /\ Awaited /\ [Next]_vars => Awaited'
  BY AwaitStep
<1>3. TypeOK /\ Awaited /\ LatchInv /\ StopsOneByOne' /\ [Next]_vars => LatchInv'
  BY LatchStep
<1>4. LatchInv => LatchCoversScheduler
  BY DEF LatchInv, LatchCoversScheduler
<1> QED
  BY <1>1, <1>2, <1>3, <1>4, TypeCorrect, PTL DEF Spec

\* The scheduler thread does not call stop().
LEMMA SchedulerStopsNothing ==
  ASSUME TypeOK, ~InStop(Scheduler), [Next]_vars
  PROVE  ~InStop(Scheduler)'
<1> USE SchedulerIsThread
<1>0. DOMAIN pc = Threads /\ Scheduler \notin Clients
  BY SchedulerAssumption DEF TypeOK
<1>1. CASE \E t \in Clients :
             \/ StartEngine(t) \/ StopEngine(t, FALSE) \/ StopEngine(t, TRUE)
             \/ \E m \in Missions : Run(t, m) \/ Unregister(t, m)
  BY <1>0, <1>1 DEF InStop, StartEngine, Started, StopEngine, Run, Unregister, Goto
<1>2. ASSUME NEW t \in Threads, Launch(t) PROVE ~InStop(Scheduler)'
  <2>1. \E label \in {"lock", "admit", "preempt", "start", "repreempt"} :
          Goto(t, label) \/ Leave(t) \/ Raise(t) \/ Started(t, label)
    <3>1. CASE EnterLaunch(t) \/ LockLaunch(t) \/ LaunchRaises(t)
      BY <3>1 DEF EnterLaunch, LockLaunch, LaunchRaises
    <3>2. CASE Admit(t)
      BY <3>2, Zenon DEF Admit
    <3>3. CASE Start(t) \/ DoNotStart(t)
      BY <3>3, Zenon DEF Start, DoNotStart
    <3> QED
      BY <1>2, <3>1, <3>2, <3>3 DEF Launch
  <2> QED
    BY <1>0, <2>1 DEF InStop, Goto, Leave, Raise, Started
<1>3. ASSUME NEW t \in Threads, StopOthers(t) PROVE ~InStop(Scheduler)'
  <2>1. CASE \E m \in Missions : StopIdle(t, m) \/ StopActive(t, m)
    BY <2>1 DEF StopIdle, StopActive, InStop
  <2>2. CASE StopFails(t) \/ \E m \in Missions : StopRejected(t, m)
    BY <1>0, <2>2 DEF StopFails, StopRejected, StopRaises, Raise, Goto, InStop
  <2>3. CASE Stopped(t)
    BY <1>0, <2>3 DEF Stopped, Stopping, Goto, InStop
  <2> QED
    BY <1>3, <2>1, <2>2, <2>3 DEF StopOthers
<1>4. CASE \E t \in Threads : FinishEngine(t)
  BY <1>0, <1>4 DEF FinishEngine, JoinScheduler, FinishStop, CloseEngine, Goto, InStop
<1>5. CASE SchedulerStep
  BY <1>0, <1>5 DEF SchedulerStep, ScanQueue, SchedulerEnds, ScanEnds, QueueTimesOut,
      PromoteNext, Goto, InStop
<1>6. CASE \E m \in Missions : MissionStep(m)
  BY <1>6 DEF MissionStep, Proceed, Decide, DecideIdle, Abandon, Settle, Retry,
      FailLate, DelayPasses, Unseen, stops, InStop
<1>7. CASE UNCHANGED vars
  BY <1>7 DEF vars, InStop
<1> QED
  BY <1>1, <1>2, <1>3, <1>4, <1>5, <1>6, <1>7 DEF Next

\* An engine that one thread owns keeps its latch in every execution.
THEOREM LatchOfOneOwner ==
  ASSUME \A t, u \in Clients : t = u
  PROVE  Spec => []LatchCoversScheduler
<1>1. Init => ~InStop(Scheduler)
  BY SchedulerIsThread DEF Init, InStop
<1>2. TypeOK /\ ~InStop(Scheduler) /\ [Next]_vars => ~InStop(Scheduler)'
  BY SchedulerStopsNothing
<1>3. ~InStop(Scheduler) => StopsOneByOne
  BY DEF StopsOneByOne, Threads
<1> QED
  BY <1>1, <1>2, <1>3, TypeCorrect, LatchCovers, PTL DEF Spec
==============================================================================
