---------------------------- MODULE MavlinkRouter ----------------------------
(***************************************************************************)
(* The MAVLink connection (mavlink/connection.py) and the router, the only *)
(* reader of it (mavlink/router.py).                                       *)
(*                                                                         *)
(* The reader numbers each message, lets the ingress filters look at it,   *)
(* stores it and then publishes it, in sections of their own; a caller of  *)
(* wait_for looks at what is stored, outside the lock, and sleeps.         *)
(***************************************************************************)
EXTENDS CallStacks, FiniteSets

CONSTANTS
  Reader,         \* the thread MavlinkRouter
  Kinds,          \* message types of a source
  Source(_),      \* the source of a kind
  Inboxes,        \* what may arrive: sequences of kinds
  HistoryLimit,   \* history_limit
  StateCapacity,  \* state_capacity
  SourceCapacity  \* source_capacity

ASSUME RouterAssumption ==
  /\ Reader \in Threads
  /\ \A inbox \in Inboxes : inbox \in Seq(Kinds)
  /\ {HistoryLimit, StateCapacity, SourceCapacity} \subseteq Nat \ {0}

VARIABLES
  link,        \* a raw connection is open and held by the connection
  cancel,      \* _connect_cancel is set
  startLock,   \* the router's lifecycle lock is held by a start()
  thread,      \* the router has a _thread
  stopEvent,   \* its _stop_event is set
  reading,     \* the router's _running
  inbox,       \* what has not been received yet
  sequence,    \* _sequence
  history,     \* _history: the envelopes, as <<number, kind>>
  latest,      \* keys of _latest, the least recently used one first
  sources      \* keys of _source_message_state, in the same order

store == <<inbox, sequence, history, latest, sources>>
connection == <<link, cancel>>
routerVars == <<connection, startLock, thread, stopEvent, reading, store>>

Envelopes == (Nat \ {0}) \X Kinds
SourcesOf(kinds) == {Source(k) : k \in kinds}

RouterTypeOK ==
  /\ {link, cancel, startLock, thread, stopEvent, reading} \subseteq BOOLEAN
  /\ sequence \in Nat
  /\ history \in Seq(Envelopes) /\ Len(history) <= HistoryLimit
  /\ latest \in Seq(Kinds) /\ Len(latest) <= StateCapacity
  /\ sources \in Seq(SourcesOf(Kinds)) /\ Len(sources) <= SourceCapacity

RouterInit ==
  /\ link = FALSE /\ cancel = FALSE
  /\ startLock = FALSE /\ thread = FALSE /\ stopEvent = FALSE /\ reading = FALSE
  /\ inbox \in Inboxes
  /\ sequence = 0 /\ history = <<>> /\ latest = <<>> /\ sources = <<>>

------------------------------------------------------------------------------
\* The connection.

\* connect(), up to the attempt: the last stop() is forgotten.  Only one start()
\* at a time gets here, so that no attempt finds another one (_connecting).
Connect(t) ==
  /\ At(t, "connect")
  /\ IF link
     THEN Does(t, <<>>) /\ UNCHANGED connection
     ELSE /\ cancel' = FALSE
          /\ Does(t, <<<<"heartbeat">>>>)
          /\ UNCHANGED link
  /\ UNCHANGED <<startLock, thread, stopEvent, reading, store>>

\* The heartbeat of a vehicle controller arrives and the connection is kept,
\* unless stop() has been called since.
Connected(t) ==
  /\ At(t, "heartbeat")
  /\ ~cancel
  /\ link' = TRUE
  /\ Does(t, <<>>)
  /\ UNCHANGED <<cancel, startLock, thread, stopEvent, reading, store>>

\* No heartbeat in time, no transport, or cancelled: the transport is closed.
NotConnected(t) ==
  /\ At(t, "heartbeat")
  /\ Raises(t)
  /\ UNCHANGED <<connection, startLock, thread, stopEvent, reading, store>>

\* stop() of the connection: an attempt is cancelled before the locks are taken.
CancelConnect(t) ==
  /\ At(t, "disconnect")
  /\ cancel' = TRUE
  /\ Does(t, <<<<"release">>>>)
  /\ UNCHANGED <<link, startLock, thread, stopEvent, reading, store>>

\* The connection is given up even if closing the transport fails.
Release(t) ==
  /\ At(t, "release")
  /\ link' = FALSE
  /\ \/ Does(t, <<>>)
     \/ link /\ Raises(t)
  /\ UNCHANGED <<cancel, startLock, thread, stopEvent, reading, store>>

------------------------------------------------------------------------------
\* start() and stop() of the router.

\* The lifecycle lock is held until the connection is up.
RouterStart(t) ==
  /\ At(t, "router_start")
  /\ ~startLock
  /\ IF thread /\ ~Idle(Reader)
     THEN /\ IF stopEvent THEN Raises(t) ELSE Does(t, <<>>)
          /\ UNCHANGED startLock
     ELSE /\ startLock' = TRUE
          /\ Does(t, <<<<"connect">>, <<"router_run">>, <<"router_exit", FALSE>>>>)
  /\ UNCHANGED <<connection, thread, stopEvent, reading, store>>

\* The memory of the last connection is cleared; the numbers go on.
RouterRun(t) ==
  /\ At(t, "router_run")
  /\ stopEvent' = FALSE
  /\ history' = <<>> /\ latest' = <<>> /\ sources' = <<>>
  /\ reading' = TRUE
  /\ thread' = TRUE
  /\ todo' = [todo EXCEPT ![t] = Becomes(t, <<>>), ![Reader] = <<<<"read">>>>]
  /\ UNCHANGED <<connection, startLock, inbox, sequence>>

RouterExit(t) ==
  /\ At(t, "router_exit")
  /\ startLock' = FALSE
  /\ Does(t, <<>>)
  /\ UNCHANGED <<connection, thread, stopEvent, reading, store>>

Disconnect == <<<<"disconnect">>, <<"router_stopped", FALSE>>>>

RouterStop(t) ==
  /\ At(t, "router_stop")
  /\ ~startLock
  /\ stopEvent' = TRUE
  /\ IF t = Reader THEN Raises(t)
     ELSE Does(t, IF thread THEN <<<<"reader_join">>>> ELSE Disconnect)
  /\ UNCHANGED <<connection, startLock, thread, reading, store>>

\* join with a timeout: the reader ends at its next look at stop_event, unless
\* a callback keeps it; the connection then stays open.
JoinReader(t) ==
  /\ At(t, "reader_join")
  /\ \/ Idle(Reader) /\ Does(t, Disconnect)
     \/ At(Reader, "user") /\ Raises(t)
  /\ UNCHANGED routerVars

\* Everybody who sleeps in wait_for looks again.
Awake(stacks) ==
  [t \in Threads |->
     IF stacks[t] # <<>> /\ Head(stacks[t])[1] = "asleep"
     THEN <<[Head(stacks[t]) EXCEPT ![1] = "look"]>> \o Tail(stacks[t])
     ELSE stacks[t]]

RouterStopped(t) ==
  /\ At(t, "router_stopped")
  /\ thread' = FALSE
  /\ reading' = FALSE
  /\ todo' = Awake([todo EXCEPT ![t] = Becomes(t, <<>>)])
  /\ UNCHANGED <<connection, startLock, stopEvent, store>>

------------------------------------------------------------------------------
\* The reader.

ReaderEnds ==
  /\ At(Reader, "read")
  /\ stopEvent
  /\ reading' = FALSE
  /\ todo' = Awake([todo EXCEPT ![Reader] = <<>>])
  /\ UNCHANGED <<connection, startLock, thread, stopEvent, store>>

\* A message arrives and gets its number.
Receive ==
  /\ At(Reader, "read")
  /\ ~stopEvent /\ link /\ inbox # <<>>
  /\ inbox' = Tail(inbox)
  /\ sequence' = sequence + 1
  /\ Does(Reader, <<<<"accept", <<sequence + 1, Head(inbox)>>>>>>)
  /\ UNCHANGED <<connection, startLock, thread, stopEvent, reading, history, latest, sources>>

\* The ingress filters let it pass, or drop it.
Accept ==
  /\ At(Reader, "accept")
  /\ \/ Does(Reader, <<<<"store", Arg(Reader)>>>>)
     \/ Does(Reader, <<<<"read">>>>)
  /\ UNCHANGED routerVars

\* The key of an entry just used goes to the end.
Used(order, key) == Append(SelectSeq(order, LAMBDA k : k # key), key)

\* The least recently used entry makes room for a new one.
Room(order, key, capacity) ==
  IF ~Contains(order, key) /\ Len(order) >= capacity THEN Tail(order) ELSE order

\* A source that is dropped takes its entries of _latest along.
Kept(keys, dropped) == SelectSeq(keys, LAMBDA k : Source(k) \notin dropped)

\* The envelope is kept in the bounded history and as the latest of its kind,
\* and who sleeps is woken, in one section; then it is published.
Store ==
  /\ At(Reader, "store")
  /\ LET kind == Arg(Reader)[2]
         room == Room(sources, Source(kind), SourceCapacity)
         dropped == {s \in SourcesOf(Kinds) : Contains(sources, s) /\ ~Contains(room, s)}
         all == Append(history, Arg(Reader))
     IN /\ history' = IF Len(all) > HistoryLimit THEN Tail(all) ELSE all
        /\ latest' = Kept(Used(Room(latest, kind, StateCapacity), kind), dropped)
        /\ sources' = Used(room, Source(kind))
        /\ todo' = Awake([todo EXCEPT ![Reader] =
             <<<<"published", Arg(Reader)>>, <<"swallow">>, <<"user">>, <<"swallow">>, <<"read">>>>])
  /\ UNCHANGED <<connection, startLock, thread, stopEvent, reading, inbox, sequence>>

------------------------------------------------------------------------------
\* wait_for.  Its frames carry <<what is wanted, the number it waits from,
\* the last number it has seen, whether its time is over>>.

Wanted(t) == Arg(t)[1]
From(t) == Arg(t)[2]
Seen(t) == Arg(t)[3]
Late(t) == Arg(t)[4]

WaitFor(t) ==
  /\ At(t, "wait_for")
  /\ IF reading
     THEN Does(t, <<<<"look", <<Arg(t), sequence, sequence, FALSE>>>>>>)
     ELSE Raises(t)
  /\ UNCHANGED routerVars

\* Stored envelopes of the wanted kind after a number.
After(kind, number) ==
  {i \in DOMAIN history : history[i][1] > number /\ history[i][2] = kind}

\* One look at what has been stored since the last one, and at the number
\* from which to look the next time.
Look(t) ==
  /\ At(t, "look")
  /\ IF After(Wanted(t), Seen(t)) # {} THEN Does(t, <<>>)
     ELSE IF Late(t) THEN Raises(t)
     ELSE Does(t, <<<<"check", <<Wanted(t), From(t), sequence, FALSE>>>>>>)
  /\ UNCHANGED routerVars

\* Fault: it goes to sleep without looking for new numbers.
CheckBlindly(t) ==
  /\ At(t, "check")
  /\ IF reading THEN Does(t, <<<<"asleep", Arg(t)>>>>) ELSE Raises(t)
  /\ UNCHANGED routerVars

\* It sleeps unless there are new numbers or the router has stopped; time may
\* be over before and while it does.
Check(t) ==
  /\ At(t, "check")
  /\ \/ Raises(t)
     \/ IF sequence > Seen(t) THEN Does(t, <<<<"look", Arg(t)>>>>)
        ELSE IF ~reading THEN Raises(t)
        ELSE Does(t, <<<<"asleep", Arg(t)>>>>)
  /\ UNCHANGED routerVars

TimeOut(t) ==
  /\ At(t, "asleep")
  /\ Does(t, <<<<"look", [Arg(t) EXCEPT ![4] = TRUE]>>>>)
  /\ UNCHANGED routerVars

RouterNext ==
  \/ ReaderEnds \/ Receive \/ Accept \/ Store
  \/ \E t \in Threads :
       \/ Connect(t) \/ Connected(t) \/ NotConnected(t)
       \/ CancelConnect(t) \/ Release(t)
       \/ RouterStart(t) \/ RouterRun(t) \/ RouterExit(t)
       \/ RouterStop(t) \/ JoinReader(t) \/ RouterStopped(t)
       \/ WaitFor(t) \/ Look(t) \/ Check(t) \/ TimeOut(t)
==============================================================================
