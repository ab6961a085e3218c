--------------------------- MODULE MavlinkRuntime ----------------------------
(***************************************************************************)
(* The synchronous MAVLink runtime (mavlink/runtime.py): it starts, stops  *)
(* and closes the router with its connection, the dispatcher of the        *)
(* application handlers and the registry of vehicles, on the threads of    *)
(* clients and of its own parts, whose callbacks may call it.              *)
(***************************************************************************)
EXTENDS MavlinkRouter, VehicleRegistry

CONSTANTS
  Clients,    \* threads of the application
  Handler,    \* the thread of the dispatcher's executor
  Plans,      \* sets of <<thread, command>>, each issued at most once
  IsHeartbeat(_),
  Greeting    \* the kind of the heartbeat that connected the transport

None == "none"

ASSUME RuntimeAssumption ==
  /\ Threads = Clients \cup {Reader, Monitor, Handler}
  /\ Clients \cap {Reader, Monitor, Handler} = {}
  /\ Reader # Monitor /\ Handler \notin {Reader, Monitor}
  /\ None \notin Threads
  /\ \A k \in Kinds : Source(k) \in Components

VARIABLES
  running, cleanup, closed,  \* _running, _cleanup_pending, _closed
  closing, closer,           \* _closing, _close_owner
  closeError,                \* _close_error is set
  owner,                     \* who holds _lifecycle_lock
  started,                   \* what start() has started so far
  dispatching,               \* the dispatcher has an executor
  wrapped,                   \* when the message that the reader is at arrived
  calls                      \* what is still to be called

lifecycle == <<running, cleanup, closed, closing, closer, closeError, owner, started, dispatching>>
runtimeVars == <<lifecycle, calls, wrapped>>
vars == <<todo, routerVars, registryVars, runtimeVars>>

TypeOK ==
  /\ RouterTypeOK /\ RegistryTypeOK
  /\ {running, cleanup, closed, closing, closeError, dispatching} \subseteq BOOLEAN
  /\ {owner, closer} \subseteq Threads \cup {None}
  /\ started \subseteq {"client", "dispatcher"}
  /\ wrapped \in 0..Horizon

Init ==
  /\ RouterInit /\ RegistryInit
  /\ todo = [t \in Threads |-> <<>>]
  /\ running = FALSE /\ cleanup = FALSE /\ closed = FALSE
  /\ closing = FALSE /\ closer = None /\ closeError = FALSE
  /\ owner = None /\ started = {} /\ dispatching = FALSE /\ wrapped = 0
  /\ calls \in Plans

------------------------------------------------------------------------------
\* Who calls what.

Command(name) ==
  CASE name = "start" -> <<<<"enter", "start">>>>
    [] name = "stop" -> <<<<"enter", "stop">>>>
    [] name = "reconnect" -> <<<<"enter", "stop">>, <<"enter", "start">>>>
    [] name = "close" -> <<<<"close">>>>
    [] name = "disconnect" -> <<<<"disconnect">>>>
    [] name = "prune" -> <<<<"prune", <<clock, 0>>>>>>
    [] name = "remove" -> <<<<"remove", Vehicle>>>>
    [] OTHER -> <<<<"wait_for", name>>>>

\* A client calls when it is idle; every thread may from a callback, which
\* swallows what the call raises.
Call(t) ==
  \E call \in calls :
    /\ call[1] = t
    /\ calls' = calls \ {call}
    /\ \/ /\ t \in Clients /\ Idle(t)
          /\ todo' = [todo EXCEPT ![t] = Command(call[2])]
       \/ /\ At(t, "user")
          /\ todo' = [todo EXCEPT ![t] = Command(call[2]) \o <<<<"swallow">>>> \o @]
    /\ UNCHANGED <<lifecycle, wrapped, routerVars, registryVars>>

\* The end of a callback.
Leave(t) ==
  /\ At(t, "user")
  /\ Does(t, <<>>)
  /\ UNCHANGED <<runtimeVars, routerVars, registryVars>>

\* A packet reaches an application handler that is going to call the runtime.
Handle ==
  /\ dispatching /\ Idle(Handler)
  /\ \E call \in calls : call[1] = Handler
  /\ todo' = [todo EXCEPT ![Handler] = <<<<"user">>>>]
  /\ UNCHANGED <<runtimeVars, routerVars, registryVars>>

\* A message is wrapped into an envelope, with the time, as it is received.
Wrapped == wrapped' = IF sequence' # sequence THEN clock ELSE wrapped

\* The registry subscribes to the envelopes that the router publishes.
Published ==
  /\ At(Reader, "published")
  /\ LET kind == Arg(Reader)[2]
     IN Does(Reader, IF subscribed
                     THEN <<<<"registry_accept", <<Source(kind), IsHeartbeat(kind), wrapped>>>>>>
                     ELSE <<>>)
  /\ wrapped' = 0
  /\ UNCHANGED <<lifecycle, calls, routerVars, registryVars>>

------------------------------------------------------------------------------
\* _lifecycle_operation: one at a time.  The threads that the runtime joins do
\* not wait for another one, nor does any thread for its own.

Owned(t) == (t = Reader /\ thread) \/ t = Monitor

Enter(t) ==
  /\ At(t, "enter")
  /\ \/ owner = None /\ owner' = t /\ Does(t, <<<<Arg(t)>>, <<"exit", FALSE>>>>)
     \/ owner = t /\ Raises(t) /\ UNCHANGED owner
     \/ owner \notin {None, t} /\ Owned(t) /\ Raises(t) /\ UNCHANGED owner
  /\ UNCHANGED <<running, cleanup, closed, closing, closer, closeError, started, dispatching, calls, wrapped>>
  /\ UNCHANGED <<routerVars, registryVars>>

Exit(t) ==
  /\ At(t, "exit")
  /\ owner' = None
  /\ Does(t, <<>>)
  /\ UNCHANGED <<running, cleanup, closed, closing, closer, closeError, started, dispatching, calls, wrapped>>
  /\ UNCHANGED <<routerVars, registryVars>>

------------------------------------------------------------------------------
\* start()

Start(t) ==
  /\ At(t, "start")
  /\ IF closed \/ closing \/ cleanup THEN Raises(t) /\ UNCHANGED started
     ELSE IF running THEN Does(t, <<>>) /\ UNCHANGED started
     ELSE /\ started' = {}
          /\ Does(t, <<<<"router_start">>, <<"services_start">>, <<"registry_start">>,
                       <<"start_end", FALSE>>>>)
  /\ UNCHANGED <<running, cleanup, closed, closing, closer, closeError, owner, dispatching, calls, wrapped>>
  /\ UNCHANGED <<routerVars, registryVars>>

\* The application peer, which may refuse, and the dispatcher.
ServicesStart(t) ==
  /\ At(t, "services_start")
  /\ \/ /\ started' = {"client"}
        /\ Raises(t)
        /\ UNCHANGED <<running, dispatching>>
     \/ /\ started' = {"client", "dispatcher"}
        /\ dispatching' = TRUE
        /\ running' = TRUE
        /\ Does(t, <<>>)
  /\ UNCHANGED <<cleanup, closed, closing, closer, closeError, owner, calls, wrapped>>
  /\ UNCHANGED <<routerVars, registryVars>>

\* Callbacks of on_start and the first heartbeat, or the rollback of what has
\* been started, in reverse order.
StartEnd(t) ==
  /\ At(t, "start_end")
  /\ Does(t, IF ~Arg(t)
             THEN <<<<"user">>, <<"swallow">>,
                    <<"registry_accept", <<Source(Greeting), TRUE, clock>>>>>>
             ELSE (IF "dispatcher" \in started
                   THEN <<<<"dispatcher_stop">>, <<"caught">>>> ELSE <<>>)
                  \o (IF "client" \in started
                      THEN <<<<"router_stop">>, <<"caught">>>> ELSE <<>>)
                  \o <<<<"rolled", FALSE>>>>)
  /\ UNCHANGED <<runtimeVars, routerVars, registryVars>>

Rolled(t) ==
  /\ At(t, "rolled")
  /\ cleanup' = Arg(t)
  /\ running' = FALSE
  /\ Does(t, <<>>)
  /\ UNCHANGED <<closed, closing, closer, closeError, owner, started, dispatching, calls, wrapped>>
  /\ UNCHANGED <<routerVars, registryVars>>

------------------------------------------------------------------------------
\* stop()

\* Every part is stopped, whatever the others raise.
Stop(t) ==
  /\ At(t, "stop")
  /\ IF ~running /\ ~cleanup
     THEN Does(t, <<>>) /\ UNCHANGED <<running, cleanup>>
     ELSE /\ running' = FALSE
          /\ cleanup' = TRUE
          /\ Does(t, <<<<"registry_stop">>, <<"caught">>, <<"dispatcher_stop">>, <<"caught">>,
                       <<"router_stop">>, <<"caught">>, <<"report", FALSE>>>>)
  /\ UNCHANGED <<closed, closing, closer, closeError, owner, started, dispatching, calls, wrapped>>
  /\ UNCHANGED <<routerVars, registryVars>>

\* stop() of the dispatcher waits for the handler, without a timeout, but for
\* the executor that it finds only.
DispatcherStop(t) ==
  /\ At(t, "dispatcher_stop")
  /\ dispatching' = FALSE
  /\ Does(t, IF dispatching /\ t # Handler THEN <<<<"handler_join">>>> ELSE <<>>)
  /\ UNCHANGED <<running, cleanup, closed, closing, closer, closeError, owner, started, calls, wrapped>>
  /\ UNCHANGED <<routerVars, registryVars>>

JoinHandler(t) ==
  /\ At(t, "handler_join")
  /\ Idle(Handler)
  /\ Does(t, <<>>)
  /\ UNCHANGED <<runtimeVars, routerVars, registryVars>>

\* Fault: nothing is left to be cleaned up, whatever has failed.
ReportClean(t) ==
  /\ At(t, "report")
  /\ cleanup' = FALSE
  /\ IF Arg(t) THEN Raises(t) ELSE Does(t, <<<<"user">>, <<"swallow">>>>)
  /\ UNCHANGED <<running, closed, closing, closer, closeError, owner, started, dispatching, calls, wrapped>>
  /\ UNCHANGED <<routerVars, registryVars>>

\* Callbacks of on_stop after a stop() without an error.
Report(t) ==
  /\ At(t, "report")
  /\ cleanup' = Arg(t)
  /\ IF Arg(t) THEN Raises(t) ELSE Does(t, <<<<"user">>, <<"swallow">>>>)
  /\ UNCHANGED <<running, closed, closing, closer, closeError, owner, started, dispatching, calls, wrapped>>
  /\ UNCHANGED <<routerVars, registryVars>>

------------------------------------------------------------------------------
\* close()

\* The first to close: stops the runtime, then the registry for good.
Closes(t) ==
  /\ closing' = TRUE /\ closer' = t /\ closeError' = FALSE
  /\ Does(t, <<<<"enter", "stop">>, <<"registry_stop">>, <<"closed">>, <<"close_end", FALSE>>>>)

Close(t) ==
  /\ At(t, "close")
  /\ IF closing /\ closer # t /\ ~Owned(t)
     THEN Does(t, <<<<"close_wait">>>>) /\ UNCHANGED <<closing, closer, closeError>>
     ELSE IF closing \/ closed
     THEN Does(t, <<>>) /\ UNCHANGED <<closing, closer, closeError>>
     ELSE Closes(t)
  /\ UNCHANGED <<running, cleanup, closed, owner, started, dispatching, calls, wrapped>>
  /\ UNCHANGED <<routerVars, registryVars>>

\* Another thread waits for the first, and raises what that has raised.
CloseWait(t) ==
  /\ At(t, "close_wait")
  /\ ~closing
  /\ IF closeError THEN Raises(t) /\ UNCHANGED <<closing, closer, closeError>>
     ELSE IF closed THEN Does(t, <<>>) /\ UNCHANGED <<closing, closer, closeError>>
     ELSE Closes(t)
  /\ UNCHANGED <<running, cleanup, closed, owner, started, dispatching, calls, wrapped>>
  /\ UNCHANGED <<routerVars, registryVars>>

Closed(t) ==
  /\ At(t, "closed")
  /\ closed' = TRUE
  /\ Does(t, <<>>)
  /\ UNCHANGED <<running, cleanup, closing, closer, closeError, owner, started, dispatching, calls, wrapped>>
  /\ UNCHANGED <<routerVars, registryVars>>

CloseEnd(t) ==
  /\ At(t, "close_end")
  /\ closing' = FALSE /\ closer' = None /\ closeError' = Arg(t)
  /\ Does(t, <<>>)
  /\ UNCHANGED <<running, cleanup, closed, owner, started, dispatching, calls, wrapped>>
  /\ UNCHANGED <<routerVars, registryVars>>

------------------------------------------------------------------------------
Unwinds(t) == Unwind(t) /\ UNCHANGED <<runtimeVars, routerVars, registryVars>>

RuntimeNext ==
  \/ Handle \/ Published
  \/ \E t \in Threads :
       \/ Call(t) \/ Leave(t) \/ Enter(t) \/ Exit(t) \/ Unwinds(t)
       \/ Start(t) \/ ServicesStart(t) \/ StartEnd(t) \/ Rolled(t)
       \/ Stop(t) \/ DispatcherStop(t) \/ JoinHandler(t) \/ Report(t)
       \/ Close(t) \/ CloseWait(t) \/ Closed(t) \/ CloseEnd(t)

\* Everybody has returned; the parts of a running runtime wait for messages.
Quiet ==
  /\ \A call \in calls : call[1] \notin Clients
  /\ \A t \in Clients \cup {Handler} : Idle(t)
Terminating == Quiet /\ UNCHANGED vars

Next ==
  \/ RouterNext /\ Wrapped /\ UNCHANGED <<registryVars, lifecycle, calls>>
  \/ RegistryNext /\ UNCHANGED <<routerVars, runtimeVars>>
  \/ RuntimeNext
  \/ Terminating

Spec == Init /\ [][Next]_vars

------------------------------------------------------------------------------
\* Properties

\* Nobody sleeps in wait_for beside a stored message that was numbered after his last
\* look, nor after the router has stopped: neither gets lost between the look and the
\* sleep (router.py:349-371).  The number noted at the look counts messages that are
\* not stored yet; of those it says nothing (see WaitMissesNothing).
NewMessagesWake ==
  \A t \in Threads :
    At(t, "asleep") => reading /\ \A i \in DOMAIN history : history[i][1] <= Seen(t)

\* A message that wait_for has left behind as seen is not what it waits for: it
\* returns the first one numbered after the call (router.py:331-371).  The code does
\* not keep this: a message may be numbered before a look and stored after it, and
\* neither that look nor the next, nor the waking, concerns it then.
WaitMissesNothing ==
  \A t \in Threads :
    At(t, "asleep") =>
      ~\E i \in After(Wanted(t), From(t)) : history[i][1] <= Seen(t)

\* With a live autopilot, commands to the vehicle go to a live autopilot, whatever
\* was lost, pruned and seen again (vehicles.py:509-516, 550, 604-611, 621-622).
SelectedIsLive ==
  connected \cap Autopilots # {} => selected \in connected \cap Autopilots

\* A vehicle with a live component is live.  The code does not keep this: a
\* message that waited behind a callback takes the vehicle's time back.
VehicleIsLive == connected \cap Components # {} => Vehicle \in connected

\* While the registry runs somebody watches for silent endpoints
\* (vehicles.py:600-602).
MonitorWatches == open /\ owner = None => ~Idle(Monitor)

\* Nobody who waits for the lifecycle lock is being waited for by its owner
\* (runtime.py:280-289).
NobodyWaitsForWaiter ==
  \A t \in Threads : At(t, "handler_join") => ~(At(Handler, "enter") /\ owner = t)

Released ==
  /\ ~link /\ ~reading /\ Idle(Reader)
  /\ ~open /\ connected = {} /\ (stopWatch \/ Idle(Monitor))
  /\ ~dispatching

\* A start() that failed, or a stop() that did not, leaves nothing behind unless
\* the runtime still asks for a cleanup (runtime.py:334-346, 379-389); once
\* closed, a runtime stays without threads and connection (runtime.py:412-437).
StoppedIsReleased ==
  /\ owner = None /\ ~running /\ ~cleanup => Released
  /\ closed => ~running /\ Released
==============================================================================
