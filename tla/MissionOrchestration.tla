------------------------ MODULE MissionOrchestration -------------------------
(***************************************************************************)
(* A chain of missions and parallel stages, and one background mission that *)
(* an owner takes along when it ends (mission/orchestration.py, chain.py,   *)
(* parallel.py, background.py).                                            *)
(*                                                                         *)
(* Whoever finishes a mission calls after_terminal, which calls the chain, *)
(* the group and the background executor, which stop, start and wait for   *)
(* other missions, whose ends call after_terminal again in the same or in  *)
(* another thread.  todo[t] is that call stack: the sections, each under   *)
(* the engine's condition, that thread t still has to execute.  A mission  *)
(* itself is what MissionContract promises; its worker is the thread of    *)
(* the same name.                                                          *)
(***************************************************************************)
EXTENDS Naturals, Sequences, FiniteSets, SequencesExt, MissionPhases

CONSTANTS
  Clients,      \* threads of the application
  Scenarios,    \* the commands they use, each at most once: some of these sets
  Configs,      \* the failure policies of the chain and of its groups
  Stages,       \* the stages of the chain: sets of missions, in their order
  Parallel,     \* the stages that are groups; every other has one mission
  Background,   \* the background mission
  Starts,       \* how it is started: its owner (<<"chain", 0>>, <<"parallel",
                \*   stage>> or <<"mission", mission>>) and its policies
  MayQueue,     \* the missions that may have to wait for others
  Unknown       \* the phase of a mission that is not registered

Missions == UNION {Stages[i] : i \in DOMAIN Stages} \cup {Background}
Threads == Clients \cup Missions

ASSUME OrchestrationAssumption ==
  /\ Parallel \subseteq DOMAIN Stages
  /\ \A i \in DOMAIN Stages : i \notin Parallel => Cardinality(Stages[i]) = 1
  /\ Clients \cap Missions = {}
  /\ Unknown \notin Phases

VARIABLES
  config,     \* stop_on_failure of the chain, failure_policy of its groups
  phase,      \* phase of each mission
  intent,     \* terminal intent of each mission, or Unknown
  guarded,    \* activation_guard of the background mission is set
  chain,      \* the run: whether and how it ended, current_index, failed
  group,      \* the run of each parallel stage: its outcome, phases, reason
  chainRuns,  \* missions in MissionChainExecutor._mission_runs
  groupRuns,  \* missions in MissionParallelExecutor._mission_runs
  linked,     \* groups in MissionParallelExecutor._chain_runs
  bg,         \* MissionBackgroundSnapshot: active, owner and policies
  stopping,   \* the engine is stopping
  todo,       \* what each thread still has to do
  left,       \* the commands not issued yet
  refused,    \* a stop or cancel was refused, or gave up waiting
  relaunched  \* a mission was launched after it had ended

runs == <<chain, group, chainRuns, groupRuns, linked>>
vars == <<config, phase, intent, guarded, runs, bg, stopping, todo, left, refused, relaunched>>

StageOf(m) == CHOOSE i \in DOMAIN Stages : m \in Stages[i]
IsPending(m) == phase[m] \in Active \cup {REGISTERED, QUEUED}

\* A terminal intent is pending exactly while a mission is stopping.
TypeOK ==
  /\ phase \in [Missions -> Phases \cup {Unknown}]
  /\ intent \in [Missions -> Terminal \cup {Unknown}]
  /\ \A m \in Missions : intent[m] # Unknown <=> phase[m] = STOPPING
  /\ chain.state \in Terminal \cup {"none", "active"} /\ chain.index \in 0..Len(Stages)
  /\ \A i \in Parallel : group[i].state \in Terminal \cup {"none", "active"}
  /\ chainRuns \cup groupRuns \subseteq Missions /\ linked \subseteq Parallel
  /\ bg.state \in {"none", "active", "ended"}

Init ==
  /\ config \in Configs
  /\ phase = [m \in Missions |-> Unknown]
  /\ intent = [m \in Missions |-> Unknown]
  /\ guarded = FALSE
  /\ chain = [state |-> "none", index |-> 0, failed |-> FALSE]
  /\ group = [i \in Parallel |->
       [state |-> "none", reason |-> FALSE, halted |-> FALSE,
        phases |-> [m \in Stages[i] |-> REGISTERED]]]
  /\ chainRuns = {} /\ groupRuns = {} /\ linked = {}
  /\ bg = [owner |-> <<"none", 0>>, end |-> STOPPED, failure |-> "ignore",
           state |-> "none"]
  /\ stopping = FALSE
  /\ todo = [t \in Threads |-> <<>>]
  /\ left \in Scenarios
  /\ refused = FALSE
  /\ relaunched = FALSE

------------------------------------------------------------------------------
\* The call stack.  "try" marks where an exception is handled, and by what;
\* "caught" where run_all keeps an error, which "report" raises at its end.

At(t, op) == todo[t] # <<>> /\ Head(todo[t])[1] = op
Arg(t) == Head(todo[t])[2]

Marks == {"try", "caught", "report"}

\* The stack from its first section on: marks are passed, an exception goes to
\* the next "try", or to the "report" that follows a "caught".
RECURSIVE Settled(_)
Settled(stack) ==
  LET i == SelectInSeq(stack, LAMBDA frame : frame[1] \notin Marks)
      j == SelectInSeq(stack, LAMBDA frame : frame[1] \in {"try", "caught"})
      k == SelectInSeq(stack, LAMBDA frame : frame[1] = "report")
  IN CASE i = 0 -> <<>>
       [] i > 1 -> Settled(SubSeq(stack, i, Len(stack)))
       [] i = 1 /\ stack[1][1] # "raise" -> stack
       [] OTHER ->
            IF j = 0 THEN <<>>
            ELSE IF stack[j][1] = "try"
                 THEN Settled(stack[j][2] \o SubSeq(stack, j + 1, Len(stack)))
                 ELSE Settled(SubSeq([stack EXCEPT ![k] = <<"raise">>], j + 1, Len(stack)))

Does(t, ops) == todo' = [todo EXCEPT ![t] = Settled(ops \o Tail(@))]
Raises(t) == Does(t, <<<<"raise">>>>)

\* run_all of the lifecycle commands that end each mission with an outcome.
FinishEach(ends) ==
  LET order == SetToSeq(ends)
  IN IF ends = {} THEN <<>>
     ELSE FlattenSeq([k \in DOMAIN order |-> <<<<"finish", order[k]>>, <<"caught">>>>])
          \o <<<<"report">>>>

FinishAll(missions, outcome) == FinishEach({<<m, outcome>> : m \in missions})

\* owner_terminated is of interest to the background mission of this owner only;
\* none is attached to an owner that has ended.
OwnerEnds(kind, id, outcome) ==
  IF bg.owner = <<kind, id>> THEN <<<<"owner_ends", outcome>>>> ELSE <<>>
FailChain == <<"fail_chain">>

------------------------------------------------------------------------------
\* Missions: registration, launch, the worker, and the commands that end them.

\* register() of all missions of an entry; unregister() if the engine refuses.
Register(t) ==
  /\ At(t, "register")
  /\ IF stopping \/ \E m \in Arg(t) : phase[m] # Unknown
     THEN Raises(t) /\ UNCHANGED phase
     ELSE /\ phase' = [m \in Missions |-> IF m \in Arg(t) THEN REGISTERED ELSE phase[m]]
          /\ Does(t, <<>>)
  /\ UNCHANGED <<config, intent, guarded, runs, bg, stopping, left, refused, relaunched>>

\* run(): a mission that is not active is started, queued or refused, one that
\* has ended in the meantime too.
Run(t) ==
  /\ At(t, "run")
  /\ LET m == Arg(t)
     IN \/ /\ phase[m] \in Active
           /\ ~stopping
           /\ Does(t, <<>>)
           /\ UNCHANGED <<phase, relaunched>>
        \/ /\ phase[m] \in {REGISTERED, QUEUED} \cup Terminal
           /\ ~stopping
           /\ \E launched \in {STARTING} \cup (IF m \in MayQueue THEN {QUEUED} ELSE {}) :
                phase' = [phase EXCEPT ![m] = launched]
           /\ relaunched' = (relaunched \/ phase[m] \in Terminal)
           /\ Does(t, <<>>)
        \/ /\ phase[m] \notin Active \/ stopping
           /\ Raises(t)
           /\ UNCHANGED <<phase, relaunched>>
  /\ UNCHANGED <<config, intent, guarded, runs, bg, stopping, left, refused>>

\* A chain stage that could not be run is taken back.
Unregister(t) ==
  /\ At(t, "unregister")
  /\ chainRuns' = chainRuns \ {Arg(t)}
  /\ phase' = [phase EXCEPT ![Arg(t)] =
                 IF @ \in Active \cup {QUEUED} THEN @ ELSE Unknown]
  /\ Raises(t)
  /\ UNCHANGED <<config, intent, guarded, chain, group, groupRuns, linked, bg,
                 stopping, left, refused, relaunched>>

OwnerIsActive(owner) ==
  CASE owner[1] = "mission" -> phase[owner[2]] \in Active
    [] owner[1] = "chain"   -> chain.state = "active"
    [] OTHER                -> group[owner[2]].state = "active"

Promote(m) ==
  /\ phase[m] = QUEUED /\ ~stopping /\ todo[m] = <<>>
  /\ phase' = [phase EXCEPT ![m] = STARTING]
  /\ UNCHANGED <<config, intent, guarded, runs, bg, stopping, todo, left, refused, relaunched>>

\* The worker begins: a background mission whose owner has ended is cancelled.
Begin(m) ==
  /\ phase[m] = STARTING /\ todo[m] = <<>>
  /\ LET rejected == m = Background /\ guarded /\ ~OwnerIsActive(bg.owner)
     IN /\ phase' = [phase EXCEPT ![m] = IF rejected THEN STOPPING ELSE RUNNING]
        /\ intent' = [intent EXCEPT ![m] = IF rejected THEN CANCELLED ELSE @]
  /\ guarded' = (guarded /\ m # Background)
  /\ UNCHANGED <<config, runs, bg, stopping, todo, left, refused, relaunched>>

\* The mission completes or fails by itself.
End(m) ==
  /\ phase[m] = RUNNING /\ todo[m] = <<>>
  /\ phase' = [phase EXCEPT ![m] = STOPPING]
  /\ \E outcome \in {SUCCEEDED, FAILED} : intent' = [intent EXCEPT ![m] = outcome]
  /\ UNCHANGED <<config, guarded, runs, bg, stopping, todo, left, refused, relaunched>>

\* The worker, out of its callbacks, commits the outcome.
Commit(m) ==
  /\ phase[m] = STOPPING /\ todo[m] = <<>>
  /\ phase' = [phase EXCEPT ![m] = intent[m]]
  /\ intent' = [intent EXCEPT ![m] = Unknown]
  /\ todo' = [todo EXCEPT ![m] = <<<<"after", m>>>>]
  /\ UNCHANGED <<config, guarded, runs, bg, stopping, left, refused, relaunched>>

\* stop_mission(), cancel() and fail(): nothing to do for one that has ended,
\* refused for one that is ending otherwise, or that is not registered.
Finish(t) ==
  /\ At(t, "finish")
  /\ LET m == Arg(t)[1] outcome == Arg(t)[2]
     IN \/ /\ phase[m] \in Terminal
           /\ Does(t, <<>>)
           /\ UNCHANGED <<phase, intent, refused>>
        \/ /\ phase[m] \in {REGISTERED, QUEUED}
           /\ phase' = [phase EXCEPT ![m] = outcome]
           /\ Does(t, <<<<"after", m>>>>)
           /\ UNCHANGED <<intent, refused>>
        \/ /\ phase[m] \in Active /\ intent[m] \in {Unknown, outcome}
           /\ phase' = [phase EXCEPT ![m] = STOPPING]
           /\ intent' = [intent EXCEPT ![m] = outcome]
           /\ Does(t, <<<<"join", m>>>>)
           /\ UNCHANGED refused
        \/ /\ phase[m] = Unknown \/ intent[m] \notin {Unknown, outcome}
           /\ Raises(t)
           /\ refused' = TRUE
           /\ UNCHANGED <<phase, intent>>
  /\ UNCHANGED <<config, guarded, runs, bg, stopping, left, relaunched>>

\* _join_worker: it gives up on a worker that waits for another one itself.
Join(t) ==
  /\ At(t, "join")
  /\ LET m == Arg(t)
     IN \/ /\ phase[m] \notin Active /\ todo[m] = <<>>
           /\ Does(t, <<>>)
           /\ UNCHANGED refused
        \/ /\ At(m, "join")
           /\ Raises(t)
           /\ refused' = TRUE
  /\ UNCHANGED <<config, phase, intent, guarded, runs, bg, stopping, left, relaunched>>

\* Fault: the background missions of a mission's owner run on.
AfterWithoutOwner(t) ==
  /\ At(t, "after")
  /\ LET m == Arg(t)
     IN /\ chainRuns' = chainRuns \ {m}
        /\ Does(t, IF m \in chainRuns THEN <<<<"chain_after", m>>>>
                   ELSE IF m \in groupRuns THEN <<<<"group_after", m>>>>
                   ELSE IF m = Background THEN <<<<"bg_after", phase[m]>>>> ELSE <<>>)
  /\ UNCHANGED <<config, phase, intent, guarded, chain, group, groupRuns, linked,
                 bg, stopping, left, refused, relaunched>>

\* MissionOrchestrator.after_terminal.
After(t) ==
  /\ At(t, "after")
  /\ LET m == Arg(t)
         on(condition, op) == IF condition THEN <<op>> ELSE <<>>
     IN /\ chainRuns' = chainRuns \ {m}
        /\ Does(t, on(m \in chainRuns, <<"chain_after", m>>)
                   \o on(m \in groupRuns, <<"group_after", m>>)
                   \o on(m = Background /\ bg.state # "none", <<"bg_after", phase[m]>>)
                   \o OwnerEnds("mission", m, phase[m]))
  /\ UNCHANGED <<config, phase, intent, guarded, chain, group, groupRuns, linked,
                 bg, stopping, left, refused, relaunched>>

------------------------------------------------------------------------------
\* Chains.

\* _launch_stage: only the first section asks whether the chain is active.
LaunchStage(t) ==
  /\ At(t, "launch")
  /\ LET i == chain.index + 1
         m == CHOOSE m \in Stages[i] : TRUE
         order == SetToSeq(Stages[i])
     IN Does(t, CASE chain.state # "active" -> <<>>
                  [] chain.state = "active" /\ i \in Parallel ->
                       <<<<"register", Stages[i]>>, <<"attach_group", i>>>>
                       \o [k \in DOMAIN order |-> <<"run_child", order[k]>>]
                       \o <<<<"try", <<<<"fail_group", i>>, <<"raise">>>>>>>>
                  [] OTHER ->
                       <<<<"register", {m}>>, <<"attach_chain", m>>, <<"run", m>>,
                         <<"try", <<<<"unregister", m>>>>>>>>)
  /\ UNCHANGED <<config, phase, intent, guarded, runs, bg, stopping, left, refused, relaunched>>

AttachToChain(t) ==
  /\ At(t, "attach_chain")
  /\ chainRuns' = chainRuns \cup {Arg(t)}
  /\ Does(t, <<>>)
  /\ UNCHANGED <<config, phase, intent, guarded, chain, group, groupRuns, linked,
                 bg, stopping, left, refused, relaunched>>

\* Fault: the end of the engine is left to others.
ChainAfterUnlessStopping(t) ==
  /\ At(t, "chain_after")
  /\ IF phase[Arg(t)] = Unknown
     THEN Raises(t)
     ELSE Does(t, IF stopping THEN <<>> ELSE <<<<"advance", phase[Arg(t)]>>>>)
  /\ UNCHANGED <<config, phase, intent, guarded, runs, bg, stopping, left, refused, relaunched>>

\* _advance_mission reads the mission again.
ChainAfter(t) ==
  /\ At(t, "chain_after")
  /\ IF phase[Arg(t)] = Unknown
     THEN Raises(t)
     ELSE Does(t, <<IF stopping THEN FailChain ELSE <<"advance", phase[Arg(t)]>>>>)
  /\ UNCHANGED <<config, phase, intent, guarded, runs, bg, stopping, left, refused, relaunched>>

Ended(outcome) == OwnerEnds("chain", 0, outcome)

\* A stage has ended: the chain ends with it, or goes on to the next.
Advance(t) ==
  /\ At(t, "advance")
  /\ LET outcome == Arg(t)
         failed == chain.failed \/ outcome # SUCCEEDED
         last == chain.index + 1 = Len(Stages)
         final == IF failed THEN FAILED ELSE SUCCEEDED
     IN \/ /\ chain.state # "active"
           /\ Does(t, <<>>)
           /\ UNCHANGED chain
        \/ /\ chain.state = "active"
           /\ \/ outcome \in {STOPPED, CANCELLED}
              \/ outcome # SUCCEEDED /\ config.stopOnFailure
           /\ chain' = [chain EXCEPT !.state = outcome]
           /\ Does(t, Ended(outcome))
        \/ /\ chain.state = "active"
           /\ \/ outcome = SUCCEEDED
              \/ outcome \notin {STOPPED, CANCELLED} /\ ~config.stopOnFailure
           /\ chain' = [state |-> IF last THEN final ELSE "active",
                        index |-> chain.index + 1, failed |-> failed]
           /\ Does(t, IF last THEN Ended(final)
                      ELSE <<<<"launch">>, <<"try", <<FailChain>>>>>>)
  /\ UNCHANGED <<config, phase, intent, guarded, group, chainRuns, groupRuns, linked,
                 bg, stopping, left, refused, relaunched>>

\* _active_children_locked.
ActiveChildren ==
  {m \in chainRuns \cup UNION {Stages[i] : i \in linked} : IsPending(m)}

ChainFails(t) ==
  /\ At(t, "fail_chain")
  /\ IF chain.state = "active"
     THEN /\ chain' = [chain EXCEPT !.state = FAILED, !.failed = TRUE]
          /\ Does(t, FinishAll(ActiveChildren, STOPPED) \o Ended(FAILED))
     ELSE Does(t, <<>>) /\ UNCHANGED chain
  /\ UNCHANGED <<config, phase, intent, guarded, group, chainRuns, groupRuns, linked,
                 bg, stopping, left, refused, relaunched>>

\* _terminate: the outcome of the chain is written after the children, of which
\* only those known at first are stopped.
TerminateChain(t) ==
  /\ At(t, "terminate_chain")
  /\ Does(t, IF chain.state = "active"
             THEN FinishAll(ActiveChildren, Arg(t)) \o <<<<"terminated_chain", Arg(t)>>>>
             ELSE <<>>)
  /\ UNCHANGED <<config, phase, intent, guarded, runs, bg, stopping, left, refused, relaunched>>

ChainTerminated(t) ==
  /\ At(t, "terminated_chain")
  /\ chain' = [chain EXCEPT !.state = Arg(t)]
  /\ Does(t, Ended(Arg(t)))
  /\ UNCHANGED <<config, phase, intent, guarded, group, chainRuns, groupRuns, linked,
                 bg, stopping, left, refused, relaunched>>

------------------------------------------------------------------------------
\* Parallel stages.

AttachGroup(t) ==
  /\ At(t, "attach_group")
  /\ LET i == Arg(t)
     IN /\ group' = [group EXCEPT ![i].state = "active"]
        /\ groupRuns' = groupRuns \cup Stages[i]
        /\ linked' = linked \cup {i}
  /\ Does(t, <<>>)
  /\ UNCHANGED <<config, phase, intent, guarded, chain, chainRuns, bg, stopping,
                 left, refused, relaunched>>

\* The loop of start() leaves off once the group has ended.
RunChild(t) ==
  /\ At(t, "run_child")
  /\ Does(t, IF group[StageOf(Arg(t))].state = "active" THEN <<<<"run", Arg(t)>>>>
             ELSE <<>>)
  /\ UNCHANGED <<config, phase, intent, guarded, runs, bg, stopping, left, refused, relaunched>>

Outcome(phases) ==
  CASE \A m \in DOMAIN phases : phases[m] = SUCCEEDED -> SUCCEEDED
    [] \E m \in DOMAIN phases : phases[m] = FAILED    -> FAILED
    [] (\A m \in DOMAIN phases : phases[m] # FAILED)
       /\ \E m \in DOMAIN phases : phases[m] = CANCELLED -> CANCELLED
    [] OTHER -> STOPPED

\* Fault: the group has ended when its last mission has failed or succeeded,
\* whatever the others do.
GroupAfterAny(t) ==
  /\ At(t, "group_after")
  /\ LET m == Arg(t)
         i == StageOf(m)
         phases == [group[i].phases EXCEPT ![m] = phase[m]]
         advance == IF i \in linked THEN <<<<"advance", SUCCEEDED>>>> ELSE <<>>
     IN /\ group' = [group EXCEPT ![i].phases = phases, ![i].state = SUCCEEDED]
        /\ linked' = linked \ {i}
        /\ groupRuns' = groupRuns \ {m}
        /\ Does(t, OwnerEnds("parallel", i, SUCCEEDED) \o advance)
  /\ UNCHANGED <<config, phase, intent, guarded, chain, chainRuns, bg, stopping,
                 left, refused, relaunched>>

\* _advance: a failure ends the siblings once, the last end the group, and the
\* group the stage of the chain it is linked to.
GroupAfter(t) ==
  /\ At(t, "group_after")
  /\ LET m == Arg(t)
         i == StageOf(m)
         phases == [group[i].phases EXCEPT ![m] = phase[m]]
         remaining == {n \in Stages[i] \ {m} : IsPending(n)}
         blames == /\ phase[m] = FAILED /\ remaining # {} /\ ~group[i].reason
                   /\ config.siblings # "wait"
         over == \A n \in Stages[i] : phases[n] \in Terminal
         outcome == Outcome(phases)
         advance == IF i \in linked THEN <<<<"advance", outcome>>>> ELSE <<>>
     IN /\ group' = [group EXCEPT ![i] =
                       [state |-> IF over THEN outcome ELSE @.state,
                        reason |-> @.reason \/ blames, halted |-> @.halted,
                        phases |-> phases]]
        /\ linked' = IF over THEN linked \ {i} ELSE linked
        /\ groupRuns' = groupRuns \ {m}
        /\ Does(t, (IF blames THEN FinishAll(remaining, config.siblings) ELSE <<>>)
                   \o (IF over THEN OwnerEnds("parallel", i, outcome) \o advance
                       ELSE <<>>))
  /\ UNCHANGED <<config, phase, intent, guarded, chain, chainRuns, bg, stopping,
                 left, refused, relaunched>>

\* fail(): the group is no longer active, but its missions still report to it.
GroupFails(t) ==
  /\ At(t, "fail_group")
  /\ LET i == Arg(t)
         children == {m \in Stages[i] : IsPending(m)}
     IN IF group[i].state = "active"
        THEN /\ group' = [group EXCEPT ![i].state = FAILED,
                                       ![i].reason = TRUE]
             /\ linked' = linked \ {i}
             /\ Does(t, FinishAll(children, STOPPED) \o OwnerEnds("parallel", i, FAILED)
                        \o (IF i \in linked THEN <<FailChain>> ELSE <<>>))
        ELSE Does(t, <<>>) /\ UNCHANGED <<group, linked>>
  /\ UNCHANGED <<config, phase, intent, guarded, chain, chainRuns, groupRuns, bg,
                 stopping, left, refused, relaunched>>

\* snapshot() of an active group takes over the phases of its missions, which
\* have possibly not reported yet.
Seen(i) ==
  IF group[i].state = "active"
  THEN [group EXCEPT ![i].phases = [m \in Stages[i] |-> phase[m]]]
  ELSE group

TerminateGroup(t) ==
  /\ At(t, "terminate_group")
  /\ LET i == Arg(t)[1] outcome == Arg(t)[2]
         children == {m \in Stages[i] : IsPending(m)}
     IN /\ group' = Seen(i)
        /\ Does(t, IF group[i].state = "active"
                   THEN FinishAll(children, outcome) \o <<<<"terminated_group", Arg(t)>>>>
                   ELSE <<>>)
  /\ UNCHANGED <<config, phase, intent, guarded, chain, chainRuns, groupRuns, linked,
                 bg, stopping, left, refused, relaunched>>

GroupTerminated(t) ==
  /\ At(t, "terminated_group")
  /\ LET i == Arg(t)[1] outcome == Arg(t)[2]
     IN /\ group' = [group EXCEPT ![i].state = outcome, ![i].reason = TRUE,
                                    ![i].halted = TRUE]
        /\ linked' = linked \ {i}
        /\ Does(t, OwnerEnds("parallel", i, outcome))
  /\ UNCHANGED <<config, phase, intent, guarded, chain, chainRuns, groupRuns, bg,
                 stopping, left, refused, relaunched>>

------------------------------------------------------------------------------
\* Background missions.

\* start(): the owner is looked at before and after the registration, the
\* mission itself before and after it is run.
StartBackground(t) ==
  /\ At(t, "background")
  /\ LET owner == Arg(t).owner
     IN IF OwnerIsActive(owner)
        THEN Does(t, <<<<"register", {Background}>>, <<"attach_background", Arg(t)>>>>)
        ELSE Raises(t)
  /\ UNCHANGED <<config, phase, intent, guarded, runs, bg, stopping, left, refused, relaunched>>

AttachBackground(t) ==
  /\ At(t, "attach_background")
  /\ IF OwnerIsActive(Arg(t).owner)
     THEN /\ bg' = [state |-> "active"] @@ Arg(t)
          /\ guarded' = TRUE
          /\ Does(t, <<<<"run_background">>>>)
          /\ UNCHANGED phase
     ELSE /\ phase' = [phase EXCEPT ![Background] = Unknown]
          /\ Raises(t)
          /\ UNCHANGED <<bg, guarded, relaunched>>
  /\ UNCHANGED <<config, intent, runs, stopping, left, refused, relaunched>>

RunBackground(t) ==
  /\ At(t, "run_background")
  /\ Does(t, IF bg.state = "active"
             THEN <<<<"run", Background>>, <<"try", <<<<"drop_background">>>>>>,
                    <<"recheck_background">>>>
             ELSE <<>>)
  /\ UNCHANGED <<config, phase, intent, guarded, runs, bg, stopping, left, refused, relaunched>>

DropBackground(t) ==
  /\ At(t, "drop_background")
  /\ bg' = [bg EXCEPT !.state = "ended"]
  /\ todo' = [todo EXCEPT ![t] = <<>>]
  /\ UNCHANGED <<config, phase, intent, guarded, runs, stopping, left, refused, relaunched>>

RecheckBackground(t) ==
  /\ At(t, "recheck_background")
  /\ Does(t, IF bg.state = "ended" /\ phase[Background] \notin Terminal
             THEN <<<<"finish", <<Background, STOPPED>>>>>> ELSE <<>>)
  /\ UNCHANGED <<config, phase, intent, guarded, runs, bg, stopping, left, refused, relaunched>>

\* What a failed background mission does to its owner (_apply_failure).
OwnerFails ==
  LET fails == bg.failure = "fail_owner"
      id == bg.owner[2]
  IN CASE bg.owner[1] = "mission" ->
            IF phase[id] \notin Active THEN <<>>
            ELSE <<<<"finish", <<id, IF fails THEN FAILED ELSE STOPPED>>>>>>
       [] bg.owner[1] = "chain" ->
            IF fails THEN <<FailChain>> ELSE <<<<"terminate_chain", STOPPED>>>>
       [] OTHER ->
            IF fails THEN <<<<"fail_group", id>>>> ELSE <<<<"terminate_group", <<id, STOPPED>>>>>>

BackgroundAfter(t) ==
  /\ At(t, "bg_after")
  /\ bg' = [bg EXCEPT !.state = "ended"]
  /\ Does(t, IF Arg(t) = FAILED /\ bg.failure # "ignore" THEN OwnerFails ELSE <<>>)
  /\ UNCHANGED <<config, phase, intent, guarded, runs, stopping, left, refused, relaunched>>

\* owner_terminated: CANCEL_WITH_OWNER cancels only with a failed or cancelled
\* owner.
OwnerEnded(t) ==
  /\ At(t, "owner_ends")
  /\ LET outcome == IF bg.end = CANCELLED /\ Arg(t) \in {CANCELLED, FAILED}
                    THEN CANCELLED ELSE STOPPED
     IN Does(t, IF bg.state = "active" THEN FinishAll({Background}, outcome) ELSE <<>>)
  /\ UNCHANGED <<config, phase, intent, guarded, runs, bg, stopping, left, refused, relaunched>>

------------------------------------------------------------------------------
\* Commands of the application.

Issue(c, command, ops) ==
  /\ command \in left
  /\ todo[c] = <<>>
  /\ left' = left \ {command}
  /\ todo' = [todo EXCEPT ![c] = Settled(ops)]

RunChain(c) ==
  /\ Issue(c, "run_chain", <<<<"launch">>, <<"try", <<FailChain>>>>>>)
  /\ chain' = [chain EXCEPT !.state = "active"]
  /\ UNCHANGED <<config, phase, intent, guarded, group, chainRuns, groupRuns, linked,
                 bg, stopping, refused, relaunched>>

StopChain(c) ==
  /\ chain.state # "none"
  /\ \/ Issue(c, "stop_chain", <<<<"terminate_chain", STOPPED>>>>)
     \/ Issue(c, "cancel_chain", <<<<"terminate_chain", CANCELLED>>>>)
  /\ UNCHANGED <<config, phase, intent, guarded, runs, bg, stopping, refused, relaunched>>

StopGroup(c) ==
  /\ \E i \in Parallel :
       /\ group[i].state # "none"
       /\ \/ Issue(c, "stop_group", <<<<"terminate_group", <<i, STOPPED>>>>>>)
          \/ Issue(c, "cancel_group", <<<<"terminate_group", <<i, CANCELLED>>>>>>)
  /\ UNCHANGED <<config, phase, intent, guarded, runs, bg, stopping, refused, relaunched>>

LookAtGroup(c) ==
  /\ \E i \in Parallel : Issue(c, "look", <<>>) /\ group' = Seen(i)
  /\ UNCHANGED <<config, phase, intent, guarded, chain, chainRuns, groupRuns, linked,
                 bg, stopping, refused, relaunched>>

StartsBackground(c) ==
  /\ \E start \in Starts : Issue(c, "background", <<<<"background", start>>>>)
  /\ UNCHANGED <<config, phase, intent, guarded, runs, bg, stopping, refused, relaunched>>

\* The first section of stop(), and the commands that follow it.
StopEngine(c) ==
  /\ Issue(c, "stop_engine",
           FinishEach({<<m, IF phase[m] = QUEUED THEN CANCELLED ELSE STOPPED>> :
                         m \in {m \in Missions : phase[m] \in Active \cup {QUEUED}}}))
  /\ stopping' = TRUE
  /\ UNCHANGED <<config, phase, intent, guarded, runs, bg, refused, relaunched>>

Call(t) ==
  \/ Register(t) \/ Run(t) \/ Unregister(t) \/ Finish(t) \/ Join(t)
  \/ After(t) \/ LaunchStage(t) \/ AttachToChain(t) \/ ChainAfter(t) \/ Advance(t)
  \/ ChainFails(t) \/ TerminateChain(t) \/ ChainTerminated(t)
  \/ AttachGroup(t) \/ RunChild(t) \/ GroupAfter(t) \/ GroupFails(t)
  \/ TerminateGroup(t) \/ GroupTerminated(t)
  \/ StartBackground(t) \/ AttachBackground(t) \/ RunBackground(t)
  \/ DropBackground(t) \/ RecheckBackground(t) \/ BackgroundAfter(t) \/ OwnerEnded(t)

Work(m) == Begin(m) \/ Commit(m) \/ Promote(m) \/ End(m)

\* Nothing is left to do but what the application may still ask for; only the
\* background mission may run on.
Quiet ==
  /\ \A t \in Threads : todo[t] = <<>>
  /\ \A m \in Missions :
       \/ phase[m] \in Terminal \cup {REGISTERED, Unknown}
       \/ phase[m] = QUEUED /\ stopping
       \/ phase[m] = RUNNING /\ m = Background

Terminating == Quiet /\ UNCHANGED vars

Next ==
  \/ \E t \in Threads : Call(t)
  \/ \E m \in Missions : Work(m)
  \/ \E c \in Clients :
       RunChain(c) \/ StopChain(c) \/ StopGroup(c) \/ LookAtGroup(c)
       \/ StartsBackground(c) \/ StopEngine(c)
  \/ Terminating

Spec == Init /\ [][Next]_vars

------------------------------------------------------------------------------
\* Properties.  No step leads back to an earlier state, so that what must
\* happen at last has happened when everything is quiet; that no thread waits
\* forever is the absence of deadlock.

\* "MissionChain(chain_id, stages, stop_on_failure=True) runs configured
\* instances in order" (docs/en/mission.md): when the chain is at a stage, no
\* mission of an earlier one runs or is about to.
RunsInOrder ==
  \A i \in 1..chain.index : \A m \in Stages[i] : phase[m] \notin Active \cup {QUEUED}

\* So it is, unless a mission was launched after it had been ended.
StageAfterStage == relaunched \/ RunsInOrder

\* stop() on a group takes the chain from it before its missions have reported:
\* nobody goes on with the chain.
GroupStopped == \E i \in Parallel : i = chain.index + 1 /\ group[i].halted

\* A chain ends (wait_chain returns): unless its group was stopped, or a stop was
\* refused, which keeps the thread that reports from going on.
NoChainHangs == Quiet /\ ~GroupStopped /\ ~refused => chain.state # "active"

\* A sibling that was ended before its launch, and launched after it, is running when
\* its group hears of its end: the group has had all reports and is still active.
ReportedTooLate ==
  relaunched /\ \E i \in Parallel :
    group[i].state = "active" /\ Stages[i] \cap groupRuns = {}

\* In whatever other order missions end and threads report it, a chain ends.
ChainEnds == ReportedTooLate \/ NoChainHangs

\* A background mission does not outlive its owner, unless a stop was refused
\* (_owner_is_active, owner_terminated, activation_guard).
BackgroundEndsWithOwner ==
  Quiet /\ bg.state # "none" /\ ~OwnerIsActive(bg.owner) /\ ~refused =>
    phase[Background] \notin Active \cup {QUEUED}
==============================================================================
