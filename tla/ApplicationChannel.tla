-------------------------- MODULE ApplicationChannel --------------------------
(***************************************************************************)
(* The application channel (mavlink/application.py): packets cut into      *)
(* fragments, a link that loses, repeats, reorders and damages fragments,  *)
(* and the assembler of each node.                                         *)
(*                                                                         *)
(* A packet is <<kind, about, n>>: a request of a caller, an answer about  *)
(* a caller's request, a ping or the pong about it.  Its identifier, drawn *)
(* at random from 32 bits, is taken to be unique.                          *)
(***************************************************************************)
EXTENDS CallStacks, FiniteSets

CONSTANTS
  Nodes,
  Receiver(_),    \* the thread of a node that receives
  Peer(_),        \* the other node
  Callers,        \* threads that send requests
  MaxPings, MaxAnswers,  \* bounds: pings sent, answers to a request or ping
  Parts(_),       \* number of fragments of a kind of packet
  MaxAssemblies,  \* max_inflight_assemblies
  MaxBytes,       \* max_inflight_bytes, in fragments
  MaxCompleted    \* max_completed_packets

Kinds == {"request", "ack", "error", "ping", "pong"}
Packets == Kinds \X (Callers \cup 1..MaxPings) \X (0..MaxAnswers)
RequestOf(c) == <<"request", c, 0>>

ASSUME ChannelAssumption ==
  /\ {MaxAssemblies, MaxBytes, MaxCompleted} \subseteq Nat \ {0}
  /\ \A k \in Kinds : Parts(k) \in Nat \ {0}
  /\ \A n \in Nodes : Receiver(n) \in Threads /\ Peer(n) \in Nodes

VARIABLES
  air,        \* fragments on their way
  mishaps,    \* bound: what the link and time may still do
  listening,  \* nodes whose channel is subscribed to the router
  parts,      \* fragments in the assemblies of a node
  bytes,      \* its _inflight_bytes
  completed,  \* its _completed, the oldest first
  forgotten   \* how often a request has left _completed

channelVars == <<air, mishaps, listening, parts, bytes, completed, forgotten>>

ChannelTypeOK ==
  /\ mishaps \in Nat /\ listening \subseteq Nodes
  /\ \A n \in Nodes :
       /\ \A f \in parts[n] : f.packet \in Packets /\ f.index \in 1..Parts(f.packet[1])
       /\ bytes[n] \in Nat
       /\ Len(completed[n]) <= MaxCompleted

ChannelInit ==
  /\ air = {} /\ listening = Nodes
  /\ parts = [n \in Nodes |-> {}] /\ bytes = [n \in Nodes |-> 0]
  /\ completed = [n \in Nodes |-> <<>>]
  /\ forgotten = [c \in Callers |-> 0]

Mishap == mishaps > 0 /\ mishaps' = mishaps - 1

\* The first fragments of a packet on their way to a node.
Fragments(to, packet, count) ==
  [to : {to}, packet : {packet}, index : 1..count, intact : {TRUE}]

------------------------------------------------------------------------------
\* The link.

Lose ==
  /\ Mishap
  /\ \E f \in air : air' = air \ {f}
  /\ UNCHANGED <<todo, listening, parts, bytes, completed, forgotten>>

Damage ==
  /\ Mishap
  /\ \E f \in air : f.intact /\ air' = (air \ {f}) \cup {[f EXCEPT !.intact = FALSE]}
  /\ UNCHANGED <<todo, listening, parts, bytes, completed, forgotten>>

\* A fragment arrives; once more if it has been repeated.
Arrives(f) ==
  \/ air' = air \ {f} /\ UNCHANGED mishaps
  \/ Mishap /\ UNCHANGED air

------------------------------------------------------------------------------
\* The assembler.

PacketsIn(fragments) == {f.packet : f \in fragments}

\* Requests that a node no longer knows to be complete.
Forgets(gone) ==
  forgotten' = [c \in Callers |-> forgotten[c] + (IF RequestOf(c) \in gone THEN 1 ELSE 0)]

\* _prune: what is old is dropped, of the completed ones the first.
Prune(n) ==
  /\ Mishap
  /\ n \in listening /\ Idle(Receiver(n)) /\ \E f \in air : f.to = n
  /\ \E old \in SUBSET PacketsIn(parts[n]), k \in 0..Len(completed[n]) :
       LET dropped == {f \in parts[n] : f.packet \in old}
       IN /\ old # {} \/ k > 0
          /\ parts' = [parts EXCEPT ![n] = @ \ dropped]
          /\ bytes' = [bytes EXCEPT ![n] = @ - Cardinality(dropped)]
          /\ completed' = [completed EXCEPT ![n] = SubSeq(@, k + 1, Len(@))]
          /\ Forgets(ToSet(SubSeq(completed[n], 1, k)))
  /\ UNCHANGED <<todo, air, listening>>

\* Fault: the bytes of what is dropped are not taken off.
AssembliesUncounted(n, fragments, count) ==
  /\ parts' = [parts EXCEPT ![n] = fragments]
  /\ bytes' = [bytes EXCEPT ![n] = IF count > @ THEN count ELSE @]

\* The assemblies of a node afterwards.
Assemblies(n, fragments, count) ==
  /\ parts' = [parts EXCEPT ![n] = fragments]
  /\ bytes' = [bytes EXCEPT ![n] = count]

\* Fault: a complete packet is not recorded.
CompletesUnrecorded(n, packet) == UNCHANGED <<completed, forgotten>>

\* A complete packet is remembered, for as long as there is room.
Completes(n, packet) ==
  LET all == Append(completed[n], packet)
      first == IF Len(all) > MaxCompleted THEN 2 ELSE 1
  IN /\ completed' = [completed EXCEPT ![n] = SubSeq(all, first, Len(all))]
     /\ Forgets(ToSet(SubSeq(all, 1, first - 1)))

\* accept() of a fragment: ignored once its packet is complete, refused when
\* there are too many assemblies or bytes, dropped with all that it
\* contradicts; the last one completes the packet if nothing of it is damaged.
Assemble(n, g) ==
  LET f == [packet |-> g.packet, index |-> g.index, intact |-> g.intact]
      mine == {p \in parts[n] : p.packet = f.packet}
      dropped == bytes[n] - Cardinality(mine)
      Ignored == UNCHANGED <<todo, parts, bytes, completed, forgotten>>
      Discarded == /\ Assemblies(n, parts[n] \ mine, dropped)
                   /\ UNCHANGED <<todo, completed, forgotten>>
  IN IF \/ Contains(completed[n], f.packet)
        \/ mine = {} /\ Cardinality(PacketsIn(parts[n])) >= MaxAssemblies
     THEN Ignored
     ELSE IF \/ [f EXCEPT !.intact = ~@] \in mine
             \/ f \notin mine /\ bytes[n] + 1 > MaxBytes
     THEN Discarded
     ELSE IF Cardinality(mine \cup {f}) < Parts(f.packet[1])
     THEN /\ Assemblies(n, parts[n] \cup {f}, bytes[n] + (IF f \in mine THEN 0 ELSE 1))
          /\ UNCHANGED <<todo, completed, forgotten>>
     ELSE IF \E p \in mine \cup {f} : ~p.intact
     THEN Discarded
     ELSE /\ Assemblies(n, parts[n] \ mine, dropped)
          /\ Completes(n, f.packet)
          /\ todo' = [todo EXCEPT ![Receiver(n)] = <<<<"published", f.packet>>, <<"swallow">>>>]

Accept(n) ==
  /\ n \in listening /\ Idle(Receiver(n))
  /\ \E f \in air : f.to = n /\ Arrives(f) /\ Assemble(n, f)
  /\ UNCHANGED listening

------------------------------------------------------------------------------
\* start() and stop() of the channel of a node.

Listen(t, n) ==
  /\ At(t, "listen")
  /\ listening' = listening \cup {n}
  /\ Does(t, <<>>)
  /\ UNCHANGED <<air, mishaps, parts, bytes, completed, forgotten>>

Unlisten(t, n) ==
  /\ At(t, "unlisten")
  /\ listening' = listening \ {n}
  /\ Does(t, <<>>)
  /\ UNCHANGED <<air, mishaps, parts, bytes, completed, forgotten>>

Clear(t, n) ==
  /\ At(t, "clear")
  /\ Assemblies(n, {}, 0)
  /\ completed' = [completed EXCEPT ![n] = <<>>]
  /\ Forgets(ToSet(completed[n]))
  /\ Does(t, <<>>)
  /\ UNCHANGED <<air, mishaps, listening>>

\* What nobody listens to is lost.
Unheard ==
  /\ \E f \in air : f.to \notin listening /\ air' = air \ {f}
  /\ UNCHANGED <<todo, mishaps, listening, parts, bytes, completed, forgotten>>
==============================================================================
