--------------------------- MODULE MavlinkExchange ---------------------------
(***************************************************************************)
(* Requests from one node to another over the application channel: the     *)
(* peers of both, the link between their assemblers and the dispatcher of  *)
(* the server, while each node's runtime stops and starts its parts.       *)
(***************************************************************************)
EXTENDS ApplicationDispatcher

CONSTANTS
  Plans  \* what happens: sets of <<thread, command>>, each issued at most
         \* once, with the number of mishaps

Commands == {"request", "down", "up", "stop", "start", "round", "refresh", "dispatcher_stop"}

\* A monitor's thread makes rounds only: nobody who is told of a change on it
\* calls back.
ASSUME PlansAssumption ==
  \A plan \in Plans :
    /\ plan[1] \subseteq Threads \X Commands /\ plan[2] \in Nat
    /\ \A call \in plan[1], n \in Nodes : call[1] = Monitor(n) => call[2] = "round"

VARIABLE calls  \* what is still to be called

vars == <<todo, channelVars, peerVars, dispatcherVars, calls>>

TypeOK == ChannelTypeOK /\ PeerTypeOK /\ DispatcherTypeOK /\ calls \subseteq Threads \X Commands

Init ==
  /\ ChannelInit /\ PeerInit /\ DispatcherInit
  /\ todo = [t \in Threads |->
       IF \E n \in Nodes : t = Monitor(n) THEN <<<<"asleep">>>> ELSE <<>>]
  /\ \E plan \in Plans : calls = plan[1] /\ mishaps = plan[2]

\* The parts of a node in the order in which its runtime stops and starts them.
Command(name) ==
  CASE name = "request" -> <<<<"register">>>>
    [] name = "down" -> <<<<"unserve">>, <<"dispatcher_stop">>, <<"peer_stop">>>>
    [] name = "up" -> <<<<"peer_start">>, <<"serve">>, <<"dispatcher_start">>>>
    [] name = "stop" -> <<<<"peer_stop">>>>
    [] name = "start" -> <<<<"peer_start">>>>
    [] name = "round" -> <<<<"monitor">>>>
    [] name = "refresh" -> <<<<"refresh">>>>
    [] name = "dispatcher_stop" -> <<<<"dispatcher_stop">>>>

\* Callers and owners call when they are idle, workers from a handler; a monitor
\* begins a round when it has slept.
Call(t) ==
  \E call \in calls :
    /\ call[1] = t
    /\ calls' = calls \ {call}
    /\ IF t \in Workers
       THEN At(t, "user") /\ todo' = [todo EXCEPT ![t] = Command(call[2]) \o @]
       ELSE /\ Idle(t) \/ At(t, "asleep")
            /\ todo' = [todo EXCEPT ![t] = Command(call[2])]
    /\ UNCHANGED <<channelVars, peerVars, dispatcherVars>>

\* The end of a handler.
Leave(t) ==
  /\ At(t, "user")
  /\ Does(t, <<>>)
  /\ UNCHANGED <<channelVars, peerVars, dispatcherVars, calls>>

\* The channel publishes a packet to the peer, if that is still subscribed.
Published(t) ==
  /\ At(t, "published")
  /\ Does(t, IF NodeOf(t) \in listening THEN <<<<"on_packet", Arg(t)>>>> ELSE <<>>)
  /\ UNCHANGED <<channelVars, peerVars, dispatcherVars, calls>>

ChannelNext ==
  \/ Lose \/ Damage \/ Unheard
  \/ \E n \in Nodes : Prune(n) \/ Accept(n)
  \/ \E t \in Threads, n \in Nodes :
       n = NodeOf(t) /\ (Listen(t, n) \/ Unlisten(t, n) \/ Clear(t, n))

\* Everybody has returned and nothing is on its way.
Quiet ==
  /\ air = {} /\ ToSet(queue) \subseteq {<<>>}
  /\ \A call \in calls : call[1] \in Workers \cup {Monitor(n) : n \in Nodes}
  /\ \A t \in Threads : Idle(t) \/ At(t, "asleep")
Terminating == Quiet /\ UNCHANGED vars

Next ==
  \/ ChannelNext /\ UNCHANGED <<peerVars, dispatcherVars, calls>>
  \/ PeerNext /\ UNCHANGED <<dispatcherVars, calls>>
  \/ DispatcherNext /\ UNCHANGED calls
  \/ \E t \in Threads : Call(t) \/ Leave(t) \/ Published(t)
  \/ \E t \in Threads : Unwind(t) /\ UNCHANGED <<channelVars, peerVars, dispatcherVars, calls>>
  \/ Terminating

Spec == Init /\ [][Next]_vars

------------------------------------------------------------------------------
\* Properties

Doing(t, name) == \E i \in DOMAIN todo[t] : todo[t][i][1] = name

\* The bytes of the assemblies are counted exactly, and within their limits,
\* whatever is repeated, damaged, given up or cleared (application.py:291-329).
BytesAreExact ==
  \A n \in Nodes :
    /\ bytes[n] = Cardinality(parts[n]) /\ bytes[n] <= MaxBytes
    /\ Cardinality(PacketsIn(parts[n])) <= MaxAssemblies
    /\ PacketsIn(parts[n]) \cap ToSet(completed[n]) = {}

\* A handler runs once for a request, however often its fragments arrive, as
\* long as the assembler remembers it (application.py:292-294, 326-328).
HandledOnce == \A c \in Callers : runs[c] <= 1 + forgotten[c]

\* Who waits for an answer is pending with a peer that runs and takes the transport
\* to be available, or is about to be woken with an error: neither stop() nor the
\* loss of the transport leaves anybody behind (peer.py:178-213, 310-344, 497-517).
NobodyIsLeftWaiting ==
  /\ \A c \in Callers : At(c, "wait") /\ c \notin event =>
       \/ c \in pending /\ NodeOf(c) \in up \cap transport
       \/ \E t \in Threads : (At(t, "halt") \/ At(t, "fail")) /\ c \in Arg(t)
  /\ \A c \in pending : Doing(c, "settled")

\* The jobs that wait in the executors.
Waiting == UNION {{g} \X DOMAIN queue[g] : g \in DOMAIN queue}

\* The places of the dispatcher are neither lost nor given back twice, whatever
\* is refused, cancelled or still running when it stops (dispatch.py:230-256).
PlacesAreExact ==
  capacity + Cardinality(Waiting) + Cardinality({w \in Workers : ~Idle(w)})
    + Cardinality({t \in Threads : At(t, "submit")}) = MaxPending

\* What counts against a limit is counted exactly, in the assemblers of both
\* nodes and in the dispatcher (application.py:291-329, dispatch.py:230-256).
LimitsAreExact == BytesAreExact /\ PlacesAreExact

\* No worker answers for a dispatcher whose stop() has returned
\* (dispatch.py:187-203, 296-304).
StoppedIsSilent ==
  \A w \in Workers :
    Doing(w, "send") \/ Doing(w, "transmit") =>
      \/ Active(job[w])
      \/ \E t \in Threads : Doing(t, "shutdown") \/ At(t, "drain")

\* A caller is told that its request was handled only if it was: answers are
\* matched to requests, not to whoever waits (peer.py:399-406).
AckMeansHandled == \A c \in Callers : result[c] = "ack" => runs[c] > 0
==============================================================================
