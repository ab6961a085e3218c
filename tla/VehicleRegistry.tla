--------------------------- MODULE VehicleRegistry ---------------------------
(***************************************************************************)
(* The registry of vehicles and components (mavlink/vehicles.py), for one  *)
(* vehicle.  The reader's thread adds and connects endpoints as messages   *)
(* come in; the monitor disconnects and removes those that have been       *)
(* silent; clients remove and prune.  What has changed is told to the      *)
(* application after the registry's condition has been released.           *)
(***************************************************************************)
EXTENDS CallStacks, FiniteSets, FiniteSetsExt

CONSTANTS
  Monitor,       \* the thread mavlink-vehicles
  Components,    \* component identifiers
  Autopilots,    \* those whose heartbeats are an autopilot's
  Vehicle,       \* the vehicle as an endpoint
  Nobody,        \* no component
  Timeout,       \* heartbeat_timeout
  Retentions,    \* values of state_retention, Forever for None
  Forever,
  Horizon        \* bound of the clock

Endpoints == Components \cup {Vehicle}

ASSUME RegistryAssumption ==
  /\ Monitor \in Threads
  /\ Components \subseteq Nat \ {0} /\ Autopilots \subseteq Components
  /\ Vehicle \notin Components /\ Nobody \notin Components
  /\ Timeout \in Nat \ {0} /\ Horizon \in Nat \ {0}
  /\ Retentions \subseteq Nat \cup {Forever} /\ Forever \notin Nat

VARIABLES
  retention,  \* state_retention
  open,       \* the registry's running
  stopWatch,  \* the monitor is told to end
  subscribed, \* accept() is subscribed to the router's envelopes
  known,      \* endpoints in the collections
  connected,  \* endpoints whose _connected is set
  lastSeen,   \* time of the last heartbeat accepted, 0 for none
  observed,   \* time of the last message accepted, 0 for none
  selected,   \* the vehicle's component_id
  clock       \* time.monotonic()

endpoints == <<known, connected, lastSeen, observed, selected>>
registryVars == <<retention, open, stopWatch, subscribed, endpoints, clock>>

RegistryTypeOK ==
  /\ retention \in Retentions
  /\ {open, stopWatch, subscribed} \subseteq BOOLEAN
  /\ known \subseteq Endpoints /\ connected \subseteq known
  /\ {lastSeen, observed} \subseteq [Endpoints -> 0..Horizon]
  /\ selected \in Components \cup {Nobody}
  /\ clock \in 1..Horizon

RegistryInit ==
  /\ retention \in Retentions
  /\ open = FALSE /\ stopWatch = FALSE /\ subscribed = FALSE
  /\ known = {} /\ connected = {}
  /\ lastSeen = [e \in Endpoints |-> 0] /\ observed = [e \in Endpoints |-> 0]
  /\ selected = Nobody
  /\ clock = 1

Tick ==
  /\ clock < Horizon
  /\ clock' = clock + 1
  /\ UNCHANGED <<todo, retention, open, stopWatch, subscribed, endpoints>>

\* _select_autopilot_locked: the present choice while it is live, or the live
\* autopilot with the lowest identifier.
Selection(current, live) ==
  LET pilots == live \cap Autopilots
  IN IF current \in pilots THEN current
     ELSE IF pilots = {} THEN Nobody ELSE Min(pilots)

Set(times, which, time) == [e \in Endpoints |-> IF e \in which THEN time ELSE times[e]]

\* What the actions of some endpoints call in the application.
Tells(which) == IF which = {} THEN <<>> ELSE <<<<"user">>, <<"swallow">>>>

------------------------------------------------------------------------------
\* start() and stop().

RegistryStart(t) ==
  /\ At(t, "registry_start")
  /\ IF open THEN Does(t, <<>>) /\ UNCHANGED <<open, stopWatch, subscribed>>
     ELSE IF ~Idle(Monitor) THEN Raises(t) /\ UNCHANGED <<open, stopWatch, subscribed>>
     ELSE /\ open' = TRUE /\ stopWatch' = FALSE /\ subscribed' = TRUE
          /\ todo' = [todo EXCEPT ![t] = Becomes(t, <<>>), ![Monitor] = <<<<"watch">>>>]
  /\ UNCHANGED <<retention, endpoints, clock>>

RegistryStop(t) ==
  /\ At(t, "registry_stop")
  /\ open' = FALSE /\ stopWatch' = TRUE /\ subscribed' = FALSE
  /\ Does(t, (IF t = Monitor THEN <<>> ELSE <<<<"monitor_join">>>>)
             \o <<<<"disconnect_all">>>>)
  /\ UNCHANGED <<retention, endpoints, clock>>

\* join with a timeout: only a callback of the application (on_disconnected,
\* on_removed) can keep the monitor that long.
JoinMonitor(t) ==
  /\ At(t, "monitor_join")
  /\ \/ Idle(Monitor) /\ Does(t, <<>>)
     \/ At(Monitor, "user") /\ Raises(t)
  /\ UNCHANGED registryVars

DisconnectAll(t) ==
  /\ At(t, "disconnect_all")
  /\ connected' = {}
  /\ Does(t, Tells(connected))
  /\ UNCHANGED <<retention, open, stopWatch, subscribed, known, lastSeen, observed, selected, clock>>

------------------------------------------------------------------------------
\* Messages.  A frame carries the component, whether this is a heartbeat, and
\* when it was received.

\* Only an autopilot's heartbeat makes a vehicle known; any heartbeat connects
\* its component and the vehicle, any message makes its component known.  The
\* times are those of the message, whatever has been seen since.
AcceptEnvelope(t) ==
  /\ At(t, "registry_accept")
  /\ LET component == Arg(t)[1]
         heartbeat == Arg(t)[2]
         received == Arg(t)[3]
         seen == {Vehicle, component}
     IN IF open /\ (Vehicle \in known \/ (heartbeat /\ component \in Autopilots))
        THEN /\ known' = known \cup seen
             /\ observed' = Set(observed, seen, received)
             /\ IF heartbeat
                THEN /\ connected' = connected \cup seen
                     /\ lastSeen' = Set(lastSeen, seen, received)
                     /\ selected' = Selection(selected, connected')
                ELSE UNCHANGED <<connected, lastSeen, selected>>
        ELSE UNCHANGED endpoints
  /\ Does(t, <<>>)
  /\ UNCHANGED <<retention, open, stopWatch, subscribed, clock>>

------------------------------------------------------------------------------
\* The monitor.

MonitorEnds ==
  /\ At(Monitor, "watch")
  /\ stopWatch
  /\ Does(Monitor, <<>>)
  /\ UNCHANGED registryVars

Lost == {e \in connected : clock - lastSeen[e] >= Timeout}

\* Endpoints that have been disconnected and silent for as long as this.
Outdated(now, age) == {e \in known \ connected : now - observed[e] >= age}

\* Fault: the choice of the autopilot is not made again.
ExpireKeepingSelection ==
  /\ At(Monitor, "watch")
  /\ ~stopWatch /\ Lost # {}
  /\ connected' = connected \ Lost
  /\ UNCHANGED <<todo, retention, open, stopWatch, subscribed, known, lastSeen, observed, selected, clock>>

\* One pass; one that has nothing to do is left out.
Expire ==
  /\ At(Monitor, "watch")
  /\ ~stopWatch
  /\ LET pruning == retention # Forever /\ Outdated(clock, retention) # {}
     IN /\ Lost # {} \/ pruning
        /\ connected' = connected \ Lost
        /\ selected' = Selection(selected, connected')
        /\ Does(Monitor, Tells(Lost)
                         \o (IF retention # Forever
                             THEN <<<<"prune", <<clock, retention>>>>>> ELSE <<>>)
                         \o <<<<"watch">>>>)
  /\ UNCHANGED <<retention, open, stopWatch, subscribed, known, lastSeen, observed, clock>>

\* prune(): the outdated components are listed under the condition and removed
\* one by one, then the vehicle if nothing is left of it.
Prune(t) ==
  /\ At(t, "prune")
  /\ LET now == Arg(t)[1]
         age == Arg(t)[2]
         gone == SetToSeq(Outdated(now, age) \ {Vehicle})
     IN Does(t, [i \in DOMAIN gone |-> <<"remove", gone[i]>>]
                \o <<<<"prune_vehicle", <<now, age>>>>>>)
  /\ UNCHANGED registryVars

PruneVehicle(t) ==
  /\ At(t, "prune_vehicle")
  /\ Does(t, IF known = {Vehicle} /\ Vehicle \in Outdated(Arg(t)[1], Arg(t)[2])
             THEN <<<<"remove", Vehicle>>>> ELSE <<>>)
  /\ UNCHANGED registryVars

\* remove(): refused for what is connected; a vehicle takes its components along.
RemoveEndpoint(t) ==
  /\ At(t, "remove")
  /\ LET gone == IF Arg(t) = Vehicle THEN known ELSE {Arg(t)}
     IN IF Arg(t) \notin known THEN Does(t, <<>>) /\ UNCHANGED endpoints
        ELSE IF gone \cap connected # {} THEN Raises(t) /\ UNCHANGED endpoints
        ELSE /\ known' = known \ gone
             /\ lastSeen' = Set(lastSeen, gone, 0)
             /\ observed' = Set(observed, gone, 0)
             /\ selected' = IF Arg(t) = Vehicle THEN Nobody ELSE Selection(selected, connected)
             /\ UNCHANGED connected
             /\ Does(t, <<<<"user">>, <<"swallow">>>>)
  /\ UNCHANGED <<retention, open, stopWatch, subscribed, clock>>

RegistryNext ==
  \/ Tick \/ MonitorEnds \/ Expire
  \/ \E t \in Threads :
       \/ RegistryStart(t) \/ RegistryStop(t) \/ JoinMonitor(t) \/ DisconnectAll(t)
       \/ AcceptEnvelope(t) \/ Prune(t) \/ PruneVehicle(t) \/ RemoveEndpoint(t)
==============================================================================
