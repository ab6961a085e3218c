--------------------------- MODULE ApplicationPeer ---------------------------
(***************************************************************************)
(* The application peer of each node (mavlink/peer.py): requests that wait *)
(* for their answer, the monitor that watches the transport and pings, and *)
(* start and stop.  The state is guarded by a lock; the events of those    *)
(* who wait are set after the lock has been released.                      *)
(***************************************************************************)
EXTENDS ApplicationChannel

CONSTANTS
  NodeOf(_),   \* the node of a thread
  Monitor(_)   \* the monitor of a node

ASSUME PeerAssumption ==
  /\ \A t \in Threads : NodeOf(t) \in Nodes
  /\ Callers \subseteq Threads
  /\ \A m, n \in Nodes : Monitor(m) # Receiver(n)
  /\ \A n \in Nodes : NodeOf(Receiver(n)) = n

VARIABLES
  up,         \* nodes whose peer is running
  transport,  \* nodes whose state says transport_available
  alive,      \* nodes whose state says alive
  ready,      \* nodes whose transport is available
  pending,    \* callers in _pending
  event,      \* callers whose event is set
  response,   \* the response of a caller's pending request
  failed,     \* callers whose pending request has an error
  result,     \* what request() has returned or raised
  halted,     \* nodes whose monitor is told to end
  pings, answers  \* how many there have been

requests == <<pending, event, response, failed, result>>
counters == <<pings, answers>>
peerVars == <<up, transport, alive, ready, requests, halted, counters>>

Results == {"none", "ack", "error", "failed", "timeout"}

PeerTypeOK ==
  /\ {up, transport, alive, ready, halted} \subseteq SUBSET Nodes
  /\ pending \subseteq Callers /\ event \subseteq Callers /\ failed \subseteq Callers
  /\ response \in [Callers -> {"none", "ack", "error"}]
  /\ result \in [Callers -> Results]

PeerInit ==
  /\ up = Nodes /\ transport = Nodes /\ alive = {} /\ ready = Nodes
  /\ pending = {} /\ event = {} /\ failed = {} /\ halted = {}
  /\ response = [c \in Callers |-> "none"] /\ result = [c \in Callers |-> "none"]
  /\ pings = 0
  /\ answers = [a \in Callers \cup 1..MaxPings |-> 0]

\* The transport comes and goes.
Toggle(n) ==
  /\ Mishap
  /\ ready' = IF n \in ready THEN ready \ {n} ELSE ready \cup {n}
  /\ UNCHANGED <<todo, air, listening, parts, bytes, completed, forgotten>>
  /\ UNCHANGED <<up, transport, alive, requests, halted, counters>>

Flag(nodes, n, value) == IF value THEN nodes \cup {n} ELSE nodes \ {n}

------------------------------------------------------------------------------
\* send()

Send(t) ==
  /\ At(t, "send")
  /\ IF NodeOf(t) \in up THEN Does(t, <<<<"transmit", Arg(t)>>, <<"sent">>>>) ELSE Raises(t)
  /\ UNCHANGED <<channelVars, peerVars>>

\* The fragments one by one; the link may fail after any of them.
Transmit(t) ==
  /\ At(t, "transmit")
  /\ LET n == NodeOf(t)
         Sent(count) == air' = air \cup Fragments(Peer(n), Arg(t), count)
     IN \/ /\ n \notin ready
           /\ Does(t, <<<<"refresh">>, <<"raise">>>>)
           /\ UNCHANGED <<air, mishaps>>
        \/ n \in ready /\ Sent(Parts(Arg(t)[1])) /\ Does(t, <<>>) /\ UNCHANGED mishaps
        \/ /\ n \in ready /\ Mishap
           /\ \E count \in 0..Parts(Arg(t)[1]) - 1 : Sent(count)
           /\ Raises(t)
  /\ UNCHANGED <<listening, parts, bytes, completed, forgotten, peerVars>>

SentPacket(t) ==
  /\ At(t, "sent")
  /\ transport' = transport \cup {NodeOf(t)}
  /\ Does(t, <<>>)
  /\ UNCHANGED <<channelVars, up, alive, ready, requests, halted, counters>>

------------------------------------------------------------------------------
\* request()

Register(t) ==
  /\ At(t, "register")
  /\ IF NodeOf(t) \in up
     THEN /\ pending' = pending \cup {t}
          /\ Does(t, <<<<"send", RequestOf(t)>>, <<"wait">>, <<"settled", FALSE>>>>)
     ELSE Raises(t) /\ UNCHANGED pending
  /\ UNCHANGED <<channelVars, up, transport, alive, ready, event, response, failed, result, halted, counters>>

\* The event, or the end of the timeout; an error comes before a response.
Wait(t) ==
  /\ At(t, "wait")
  /\ \/ /\ t \in event
        /\ result' = [result EXCEPT ![t] = IF t \in failed THEN "failed" ELSE response[t]]
     \/ /\ t \notin event
        /\ result' = [result EXCEPT ![t] = "timeout"]
  /\ Does(t, <<>>)
  /\ UNCHANGED <<channelVars, up, transport, alive, ready, pending, event, response, failed, halted, counters>>

Settled(t) ==
  /\ At(t, "settled")
  /\ pending' = pending \ {t}
  /\ result' = IF Arg(t) THEN [result EXCEPT ![t] = "failed"] ELSE result
  /\ Does(t, <<>>)
  /\ UNCHANGED <<channelVars, up, transport, alive, ready, event, response, failed, halted, counters>>

------------------------------------------------------------------------------
\* _on_packet

\* The answer to a packet gets an identifier of its own.
Answer(kind, packet) == <<kind, packet[2], answers[packet[2]] + 1>>
Answers(packet) == answers' = [answers EXCEPT ![packet[2]] = @ + 1]

\* Fault: any answer is taken for the answer to any request.
OnPacketAnyRequest(t) ==
  /\ At(t, "on_packet")
  /\ LET kind == Arg(t)[1]
         answered == IF kind \in {"ack", "error"} THEN pending ELSE {}
     IN /\ response' = [c \in Callers |-> IF c \in answered THEN kind ELSE response[c]]
        /\ event' = event \cup answered
  /\ Does(t, <<<<"handed", Arg(t)>>>>)
  /\ UNCHANGED <<channelVars, up, transport, alive, ready, pending, failed, result, halted, counters>>

\* Liveness and the request that the packet answers, under the lock; then the
\* packet is published, and a ping is answered.
OnPacket(t) ==
  /\ At(t, "on_packet")
  /\ LET n == NodeOf(t)
         kind == Arg(t)[1]
         answered == {c \in pending : kind \in {"ack", "error"} /\ NodeOf(c) = n /\ c = Arg(t)[2]}
     IN IF n \notin up
        THEN Does(t, <<>>) /\ UNCHANGED <<transport, alive, response, event, answers>>
        ELSE /\ transport' = transport \cup {n}
             /\ alive' = Flag(alive, n, n \in alive \/ kind \in {"ping", "pong"})
             /\ response' = [c \in Callers |-> IF c \in answered THEN kind ELSE response[c]]
             /\ event' = event \cup answered
             /\ IF kind = "ping" /\ answers[Arg(t)[2]] < MaxAnswers
                THEN /\ Answers(Arg(t))
                     /\ Does(t, <<<<"handed", Arg(t)>>, <<"send", Answer("pong", Arg(t))>>>>)
                ELSE Does(t, <<<<"handed", Arg(t)>>>>) /\ UNCHANGED answers
  /\ UNCHANGED <<channelVars, up, ready, pending, failed, result, halted, pings>>

------------------------------------------------------------------------------
\* The state of the transport.

Refresh(t) ==
  /\ At(t, "refresh")
  /\ Does(t, <<<<"set", NodeOf(t) \in ready>>>>)
  /\ UNCHANGED <<channelVars, peerVars>>

\* Fault: nobody is told that the transport is lost.
SetTransportQuietly(t) ==
  /\ At(t, "set")
  /\ LET n == NodeOf(t)
     IN IF n \notin up THEN UNCHANGED <<transport, alive>>
        ELSE /\ transport' = Flag(transport, n, Arg(t))
             /\ alive' = Flag(alive, n, Arg(t) /\ n \in alive)
  /\ Does(t, <<>>)
  /\ UNCHANGED <<channelVars, up, ready, requests, halted, counters>>

\* _set_transport_state with what has been seen: a loss fails those who wait.
SetTransport(t) ==
  /\ At(t, "set")
  /\ LET n == NodeOf(t)
         same == (n \in transport) = Arg(t) /\ (Arg(t) \/ n \notin alive)
         mine == {c \in pending : NodeOf(c) = n}
     IN IF n \notin up \/ same
        THEN Does(t, <<>>) /\ UNCHANGED <<transport, alive>>
        ELSE /\ transport' = Flag(transport, n, Arg(t))
             /\ alive' = Flag(alive, n, Arg(t) /\ n \in alive)
             /\ Does(t, IF Arg(t) THEN <<>> ELSE <<<<"fail", mine>>>>)
  /\ UNCHANGED <<channelVars, up, ready, requests, halted, counters>>

Fail(t) ==
  /\ At(t, "fail")
  /\ failed' = failed \cup Arg(t)
  /\ event' = event \cup Arg(t)
  /\ Does(t, <<>>)
  /\ UNCHANGED <<channelVars, up, transport, alive, ready, pending, response, result, halted, counters>>

------------------------------------------------------------------------------
\* The monitor.

\* probe(): the monitor goes on if it cannot be sent.
Probe(number) == <<<<"send", <<"ping", number, 0>>>>, <<"swallow">>>>

\* One round: the transport, a ping when one is due, the age of the last sign
\* of life.
Round(t) ==
  /\ At(t, "monitor")
  /\ LET n == NodeOf(t)
         look == <<<<"set", n \in ready>>>>
         rest == <<<<"expire">>, <<"asleep">>>>
     IN IF n \in halted THEN Does(t, <<>>) /\ UNCHANGED pings
        ELSE \/ Does(t, look \o rest) /\ UNCHANGED pings
             \/ /\ n \in ready /\ pings < MaxPings
                /\ pings' = pings + 1
                /\ Does(t, look \o Probe(pings + 1) \o rest)
  /\ UNCHANGED <<channelVars, up, transport, alive, ready, requests, halted, answers>>

\* No sign of life for too long.
Expire(t) ==
  /\ At(t, "expire")
  /\ \/ alive' = alive \ {NodeOf(t)}
     \/ NodeOf(t) \in transport /\ UNCHANGED alive
  /\ Does(t, <<>>)
  /\ UNCHANGED <<channelVars, up, transport, ready, requests, halted, counters>>

\* The monitor sleeps until its next round; stop() wakes it.
Wake(t) ==
  /\ At(t, "asleep")
  /\ NodeOf(t) \in halted
  /\ Does(t, <<<<"monitor">>>>)
  /\ UNCHANGED <<channelVars, peerVars>>

------------------------------------------------------------------------------
\* start() and stop(), one at a time (the runtime's lifecycle lock).

PeerStart(t) ==
  /\ At(t, "peer_start")
  /\ LET n == NodeOf(t)
     IN IF n \in up THEN Does(t, <<>>) /\ UNCHANGED <<up, transport>>
        ELSE /\ up' = up \cup {n}
             /\ transport' = Flag(transport, n, n \in ready)
             /\ Does(t, <<<<"listen">>, <<"watch">>>>)
  /\ UNCHANGED <<channelVars, alive, ready, requests, halted, counters>>

\* start() goes on only when the last monitor has ended (peer.py:143-146), and no
\* other start() begins one in between.
Watch(t) ==
  /\ At(t, "watch")
  /\ Idle(Monitor(NodeOf(t)))
  /\ halted' = halted \ {NodeOf(t)}
  /\ todo' = [todo EXCEPT ![t] = Becomes(t, <<>>), ![Monitor(NodeOf(t))] = <<<<"monitor">>>>]
  /\ UNCHANGED <<channelVars, up, transport, alive, ready, requests, counters>>

\* Fault: those who wait are left waiting.
PeerStopQuietly(t) ==
  /\ At(t, "peer_stop")
  /\ up' = up \ {NodeOf(t)} /\ transport' = transport \ {NodeOf(t)} /\ alive' = alive \ {NodeOf(t)}
  /\ pending' = {c \in pending : NodeOf(c) # NodeOf(t)}
  /\ Does(t, <<<<"halt", {}>>, <<"unlisten">>, <<"clear">>, <<"join">>>>)
  /\ UNCHANGED <<channelVars, ready, event, response, failed, result, halted, counters>>

PeerStop(t) ==
  /\ At(t, "peer_stop")
  /\ LET n == NodeOf(t)
         mine == {c \in pending : NodeOf(c) = n}
     IN IF n \notin up THEN Does(t, <<>>) /\ UNCHANGED <<up, transport, alive, pending>>
        ELSE /\ up' = up \ {n} /\ transport' = transport \ {n} /\ alive' = alive \ {n}
             /\ pending' = pending \ mine
             /\ Does(t, <<<<"halt", mine>>, <<"unlisten">>, <<"clear">>, <<"join">>>>)
  /\ UNCHANGED <<channelVars, ready, event, response, failed, result, halted, counters>>

Halt(t) ==
  /\ At(t, "halt")
  /\ halted' = halted \cup {NodeOf(t)}
  /\ failed' = failed \cup Arg(t)
  /\ event' = event \cup Arg(t)
  /\ Does(t, <<>>)
  /\ UNCHANGED <<channelVars, up, transport, alive, ready, pending, response, result, counters>>

\* The monitor ends at its next look at _stop.
Join(t) ==
  /\ At(t, "join")
  /\ Idle(Monitor(NodeOf(t)))
  /\ Does(t, <<>>)
  /\ UNCHANGED <<channelVars, peerVars>>

PeerNext ==
  \/ \E n \in Nodes : Toggle(n)
  \/ \E t \in Threads :
       \/ Send(t) \/ Transmit(t) \/ SentPacket(t)
       \/ Register(t) \/ Wait(t) \/ Settled(t) \/ OnPacket(t)
       \/ Refresh(t) \/ SetTransport(t) \/ Fail(t)
       \/ Round(t) \/ Expire(t) \/ Wake(t)
       \/ PeerStart(t) \/ Watch(t) \/ PeerStop(t) \/ Halt(t) \/ Join(t)
==============================================================================
