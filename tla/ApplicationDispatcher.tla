------------------------ MODULE ApplicationDispatcher ------------------------
(***************************************************************************)
(* The dispatcher of application packets (mavlink/dispatch.py) with the    *)
(* runtime's handlers (mavlink/handlers.py), on one node: the receiving    *)
(* thread admits a packet to a bounded executor, whose worker runs the     *)
(* handler and answers, unless the dispatcher has been stopped since.      *)
(* Each start() makes an executor, named by its generation.                *)
(***************************************************************************)
EXTENDS ApplicationPeer

CONSTANTS
  Server,      \* the node
  Workers,     \* threads of its executors
  Width,       \* workers of an executor
  MaxPending,  \* max_pending
  Routed       \* callers whose request has a handler

ASSUME DispatcherAssumption ==
  /\ Server \in Nodes /\ Workers \subseteq Threads
  /\ \A n \in Nodes : Monitor(n) \notin Workers /\ Receiver(n) \notin Workers
  /\ Width \in Nat \ {0} /\ MaxPending \in Nat \ {0} /\ Routed \subseteq Callers

VARIABLES
  serving,     \* ApplicationHandlers._running
  executing,   \* there is an _executor and a _subscription
  generation,  \* _generation
  shut,        \* generations whose executor has been shut down
  queue,       \* the packets that wait in the executor of each generation
  capacity,    \* what is left of _capacity
  job,         \* the generation that a worker has last worked for
  runs         \* how often the handler has run for a request

dispatcherVars == <<serving, executing, generation, shut, queue, capacity, job, runs>>

DispatcherTypeOK ==
  /\ {serving, executing} \subseteq BOOLEAN
  /\ generation \in Nat /\ shut \subseteq 1..generation
  /\ capacity \in 0..MaxPending
  /\ queue \in Seq(Seq(Packets)) /\ Len(queue) = generation
  /\ job \in [Workers -> 0..generation]

DispatcherInit ==
  /\ serving = TRUE /\ executing = TRUE /\ generation = 1 /\ shut = {}
  /\ queue = <<<<>>>> /\ capacity = MaxPending
  /\ job = [w \in Workers |-> 0] /\ runs = [c \in Callers |-> 0]

Active(g) == executing /\ generation = g

\* An answer about a packet, if it expects one; none once they are too many.
Respond(kind, packet) ==
  IF packet[1] = "request" /\ answers[packet[2]] < MaxAnswers
  THEN <<<<"send", Answer(kind, packet)>>, <<"swallow">>>> ELSE <<>>
Responded(packet) ==
  IF Respond("ack", packet) # <<>> THEN Answers(packet) ELSE UNCHANGED answers

peerRest == <<up, transport, alive, ready, requests, halted, pings>>

------------------------------------------------------------------------------
\* On the receiving thread.

\* The peer's packets are published to the dispatcher of the node that has one;
\* the types of answers and signs of life are reserved.
Dispatch(t) ==
  /\ At(t, "handed")
  /\ Does(t, IF NodeOf(t) = Server /\ executing /\ Arg(t)[1] = "request"
             THEN <<<<"admit", <<Arg(t), generation>>>>>> ELSE <<>>)
  /\ UNCHANGED <<channelVars, peerVars, dispatcherVars>>

\* Without a handler, or when all places are taken, it is answered at once; only
\* the former looks whether the dispatcher has been stopped meanwhile.
Admit(t) ==
  /\ At(t, "admit")
  /\ LET packet == Arg(t)[1]
         g == Arg(t)[2]
     IN IF packet[2] \notin Routed
        THEN /\ Does(t, IF Active(g) THEN Respond("error", packet) ELSE <<>>)
             /\ IF Active(g) THEN Responded(packet) ELSE UNCHANGED answers
             /\ UNCHANGED capacity
        ELSE IF capacity = 0
        THEN Does(t, Respond("error", packet)) /\ Responded(packet) /\ UNCHANGED capacity
        ELSE /\ capacity' = capacity - 1
             /\ Does(t, <<<<"submit", <<packet, g>>>>>>)
             /\ UNCHANGED answers
  /\ UNCHANGED <<channelVars, peerRest, serving, executing, generation, shut, queue, job, runs>>

\* The executor found before may have been shut down: it refuses.
Submit(t) ==
  /\ At(t, "submit")
  /\ LET packet == Arg(t)[1]
         g == Arg(t)[2]
     IN IF g \in shut
        THEN capacity' = capacity + 1 /\ UNCHANGED queue
        ELSE queue' = [queue EXCEPT ![g] = Append(@, packet)] /\ UNCHANGED capacity
  /\ Does(t, <<>>)
  /\ UNCHANGED <<channelVars, peerVars, serving, executing, generation, shut, job, runs>>

------------------------------------------------------------------------------
\* On a worker.

Busy(g) == {w \in Workers : ~Idle(w) /\ job[w] = g}

Work(w) ==
  /\ Idle(w)
  /\ \E g \in DOMAIN queue :
       /\ queue[g] # <<>> /\ Cardinality(Busy(g)) < Width
       /\ job' = [job EXCEPT ![w] = g]
       /\ todo' = [todo EXCEPT ![w] = <<<<"handle", Head(queue[g])>>, <<"free">>>>]
       /\ queue' = [queue EXCEPT ![g] = Tail(@)]
  /\ UNCHANGED <<channelVars, peerVars, serving, executing, generation, shut, capacity, runs>>

\* The application's handler, which may call the dispatcher; stopped handlers
\* raise, which is an error for the caller.
Handle(t) ==
  /\ At(t, "handle")
  /\ IF serving
     THEN /\ runs' = [runs EXCEPT ![Arg(t)[2]] = @ + 1]
          /\ Does(t, <<<<"user">>, <<"swallow">>, <<"answer", <<"ack", Arg(t)>>>>>>)
     ELSE Does(t, <<<<"answer", <<"error", Arg(t)>>>>>>) /\ UNCHANGED runs
  /\ UNCHANGED <<channelVars, peerVars, serving, executing, generation, shut, queue, capacity, job>>

\* Fault: the answer is sent whatever has happened to the dispatcher.
AnswerAlways(t) ==
  /\ At(t, "answer")
  /\ Does(t, Respond(Arg(t)[1], Arg(t)[2]))
  /\ Responded(Arg(t)[2])
  /\ UNCHANGED <<channelVars, peerRest, dispatcherVars>>

\* What a stopped dispatcher has still been doing is not answered.
AnswerRequest(t) ==
  /\ At(t, "answer")
  /\ IF Active(job[t])
     THEN Does(t, Respond(Arg(t)[1], Arg(t)[2])) /\ Responded(Arg(t)[2])
     ELSE Does(t, <<>>) /\ UNCHANGED answers
  /\ UNCHANGED <<channelVars, peerRest, dispatcherVars>>

Free(t) ==
  /\ At(t, "free")
  /\ capacity' = capacity + 1
  /\ Does(t, <<>>)
  /\ UNCHANGED <<channelVars, peerVars, serving, executing, generation, shut, queue, job, runs>>

------------------------------------------------------------------------------
\* start() and stop() of the handlers and of the dispatcher.

Serve(t) ==
  /\ At(t, "serve") \/ At(t, "unserve")
  /\ serving' = At(t, "serve")
  /\ Does(t, <<>>)
  /\ UNCHANGED <<channelVars, peerVars, executing, generation, shut, queue, capacity, job, runs>>

\* A generation begins, with nothing in its executor.
NextGeneration ==
  /\ generation' = generation + 1
  /\ queue' = Append(queue, <<>>)

DispatcherStart(t) ==
  /\ At(t, "dispatcher_start")
  /\ executing' = TRUE
  /\ IF executing THEN UNCHANGED <<generation, queue>> ELSE NextGeneration
  /\ Does(t, <<>>)
  /\ UNCHANGED <<channelVars, peerVars, serving, shut, capacity, job, runs>>

DispatcherStop(t) ==
  /\ At(t, "dispatcher_stop")
  /\ executing' = FALSE
  /\ NextGeneration
  /\ Does(t, IF executing THEN <<<<"shutdown", generation>>>> ELSE <<>>)
  /\ UNCHANGED <<channelVars, peerVars, serving, shut, capacity, job, runs>>

\* The jobs that wait are cancelled, which frees their places; a worker does not
\* wait for itself.
Shutdown(t) ==
  /\ At(t, "shutdown")
  /\ LET g == Arg(t)
     IN /\ shut' = shut \cup {g}
        /\ capacity' = capacity + Len(queue[g])
        /\ queue' = [queue EXCEPT ![g] = <<>>]
        /\ Does(t, IF t \in Workers THEN <<>> ELSE <<<<"drain", g>>>>)
  /\ UNCHANGED <<channelVars, peerVars, serving, executing, generation, job, runs>>

Drain(t) ==
  /\ At(t, "drain")
  /\ Busy(Arg(t)) = {}
  /\ Does(t, <<>>)
  /\ UNCHANGED <<channelVars, peerVars, dispatcherVars>>

DispatcherNext ==
  \E t \in Threads :
    \/ Dispatch(t) \/ Admit(t) \/ Submit(t)
    \/ t \in Workers /\ Work(t)
    \/ Handle(t) \/ AnswerRequest(t) \/ Free(t)
    \/ Serve(t) \/ DispatcherStart(t) \/ DispatcherStop(t) \/ Shutdown(t) \/ Drain(t)
==============================================================================
