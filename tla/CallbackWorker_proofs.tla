-------------------------- MODULE CallbackWorker_proofs --------------------------
(***************************************************************************)
(* The invariants of CallbackWorker hold for every number of clients, both *)
(* capacities and both bounds, and what a step may never do follows from   *)
(* them.                                                                   *)
(***************************************************************************)
EXTENDS CallbackWorker, TLAPS

\* Threads of earlier lives are dead and later ones unborn, because start() waits
\* for the previous thread to end.
PlacesOK ==
  /\ \A c \in Clients : pc[c] \in {"idle", "check", "asleep", "join"}
  /\ \A l \in Lives :
       /\ pc[l] \in {"unborn", "check", "asleep", "callback", "finally", "report", "dead"}
       /\ l > thread => pc[l] = "unborn"
       /\ l < thread => pc[l] = "dead"
       /\ l = thread => pc[l] # "unborn"

\* _busy tells whether the thread is in a callback.
BusyOK ==
  /\ thread = 0 => busy = FALSE
  /\ \A l \in Lives : l = thread =>
       IF pc[l] \in {"callback", "finally"} THEN busy = TRUE ELSE busy = FALSE

\* Nothing is queued for a worker that is stopped, or whose thread has left its loop:
\* what start() finds is empty.
Emptied ==
  /\ thread = 0 => ~running
  /\ ~running => actions = <<>> /\ events = <<>>
  /\ \A l \in Lives : l = thread /\ pc[l] \in {"report", "dead"} =>
       ~Open /\ actions = <<>> /\ events = <<>>

\* Whoever made the queues empty and the worker idle woke the callers of
\* wait_idle().
WaitersWait == \A c \in Clients : pc[c] = "asleep" => ~Settled

\* A thread that ended with a failure has reported it.
FailureKnown ==
  /\ thread = 0 => failure = "none"
  /\ \A l \in Lives : l = thread =>
       /\ pc[l] = "report" => failure # "none"
       /\ pc[l] = "dead" /\ failure # "none" => l \in reported

\* The inductive invariant.
IInv ==
  /\ TypeOK /\ PlacesOK /\ BusyOK /\ Emptied /\ NoLostWakeup /\ WaitersWait
  /\ ActionsInOrder /\ NewestEventsKept /\ FailureKnown

\* What notify() and notify_all() do to the threads.
Woken ==
  /\ pc' \in [Threads -> Labels]
  /\ \A t \in Threads : \/ pc'[t] = pc[t]
                        \/ pc[t] = "asleep" /\ pc'[t] = "check"
  /\ \A t \in Threads : Asleep = {t} => pc'[t] = "check"

\* notify() wakes at most one sleeper and, if there is only one, that one.
LEMMA NotifyWakes == TypeOK /\ Notify => Woken
<1> SUFFICES ASSUME TypeOK, Notify PROVE Woken
  OBVIOUS
<1> USE DEF TypeOK, Woken, Asleep
<1>1. CASE Asleep = {} /\ UNCHANGED pc
  BY <1>1
<1>2. ASSUME NEW t \in Asleep, pc' = [pc EXCEPT ![t] = "check"] PROVE Woken
  BY <1>2 DEF Labels
<1>3. QED
  BY <1>1, <1>2 DEF Notify

\* append() and popleft() on a queue.
LEMMA AppendFacts ==
  ASSUME NEW S, NEW s \in Seq(S), NEW e \in S
  PROVE  /\ Append(s, e) \in Seq(S) /\ Len(Append(s, e)) = Len(s) + 1
         /\ \A i \in 1..(Len(s) + 1) :
              Append(s, e)[i] = IF i <= Len(s) THEN s[i] ELSE e
  OBVIOUS

\* What remains after popleft().
LEMMA TailFacts ==
  ASSUME NEW S, NEW s \in Seq(S), s # <<>>
  PROVE  /\ Tail(s) \in Seq(S) /\ Len(Tail(s)) = Len(s) - 1
         /\ \A i \in 1..(Len(s) - 1) : Tail(s)[i] = s[i + 1]
  OBVIOUS

\* Every section keeps the invariant.
LEMMA Step == IInv /\ Next => IInv'
<1> SUFFICES ASSUME IInv, Next PROVE IInv'
  OBVIOUS
<1> USE WorkerAssumption DEF IInv, Threads, Lives, Kinds, queues, history
<1>1. CASE Start
  <2>1. TypeOK'
    BY <1>1 DEF Start, Items, Labels, TypeOK
  <2>2. PlacesOK'
    BY <1>1 DEF Start, TypeOK, PlacesOK
  <2>3. BusyOK'
    BY <1>1 DEF Start, TypeOK, PlacesOK, BusyOK
  <2>4. Emptied'
    BY <1>1 DEF Start, TypeOK, PlacesOK, Emptied, Open
  <2>5. NoLostWakeup'
    BY <1>1 DEF Start, TypeOK, PlacesOK, BusyOK, NoLostWakeup, WaitersWait, Asleep,
       Open, Settled
  <2>6. WaitersWait'
    BY <1>1 DEF Start, TypeOK, PlacesOK, WaitersWait, Settled
  <2>7. ActionsInOrder'
    BY <1>1 DEF Start, TypeOK, Emptied, ActionsInOrder, Open
  <2>8. NewestEventsKept'
    BY <1>1 DEF Start, TypeOK, Emptied, NewestEventsKept, Open
  <2>9. FailureKnown'
    BY <1>1 DEF Start, TypeOK, PlacesOK, Emptied, FailureKnown, Open
  <2>10. QED
    BY <2>1, <2>2, <2>3, <2>4, <2>5, <2>6, <2>7, <2>8, <2>9
<1>2. CASE SubmitAction
  <2>1. Woken
    BY <1>2, NotifyWakes DEF SubmitAction
  <2>2. NewItem("action") \in Items
    BY <1>2 DEF SubmitAction, NewItem, Items, TypeOK, Emptied, Open
  <2>3. /\ actions' \in Seq(Items) /\ Len(actions') = Len(actions) + 1
        /\ \A i \in 1..Len(actions') :
             actions'[i] = IF i <= Len(actions) THEN actions[i] ELSE NewItem("action")
    BY <1>2, <2>2, AppendFacts DEF SubmitAction, TypeOK
  <2>4. /\ accepted' \in [Kinds -> Nat]
        /\ accepted'["action"] = accepted["action"] + 1
        /\ accepted'["event"] = accepted["event"]
    BY <1>2 DEF SubmitAction, Accept, TypeOK
  <2>5. TypeOK'
    BY <1>2, <2>1, <2>3, <2>4 DEF SubmitAction, Woken, TypeOK
  <2>6. PlacesOK'
    BY <1>2, <2>1 DEF SubmitAction, Woken, PlacesOK
  <2>7. NoLostWakeup'
    BY <1>2, <2>1 DEF SubmitAction, Woken, TypeOK, NoLostWakeup, Asleep, Open, Settled
  <2>8. WaitersWait'
    BY <1>2, <2>1, <2>3, SMTT(30) DEF SubmitAction, Woken, TypeOK, WaitersWait, Settled
  <2>9. ActionsInOrder'
    BY <1>2, <2>3, <2>4, SMTT(30) DEF SubmitAction, TypeOK, ActionsInOrder, Open, NewItem
  <2>10. BusyOK' /\ Emptied' /\ NewestEventsKept' /\ FailureKnown'
    BY <1>2, <2>1, <2>4 DEF SubmitAction, Woken, TypeOK, BusyOK, Emptied, Open,
       NewestEventsKept, FailureKnown
  <2>11. QED
    BY <2>5, <2>6, <2>7, <2>8, <2>9, <2>10
<1>3. CASE ActionOverflows
  <2>1. pc' \in [Threads -> Labels]
    BY <1>3 DEF ActionOverflows, NotifyAll, TypeOK, Labels
  <2>2. TypeOK'
    BY <1>3, <2>1 DEF ActionOverflows, Items, TypeOK
  <2>3. PlacesOK'
    BY <1>3, <2>1 DEF ActionOverflows, NotifyAll, TypeOK, PlacesOK
  <2>4. NoLostWakeup'
    BY <1>3, <2>1 DEF ActionOverflows, NotifyAll, TypeOK, PlacesOK, BusyOK,
       NoLostWakeup, WaitersWait, Asleep, Open, Settled
  <2>5. FailureKnown'
    BY <1>3, <2>1 DEF ActionOverflows, NotifyAll, TypeOK, PlacesOK, Emptied,
       FailureKnown, Open
  <2>6. BusyOK' /\ Emptied' /\ WaitersWait' /\ ActionsInOrder' /\ NewestEventsKept'
    BY <1>3, <2>1 DEF ActionOverflows, NotifyAll, TypeOK, PlacesOK, BusyOK, Emptied,
       Open, WaitersWait, Settled, ActionsInOrder, NewestEventsKept
  <2>7. QED
    BY <2>2, <2>3, <2>4, <2>5, <2>6
<1>4. CASE SubmitEvent
  <2>1. Woken
    BY <1>4, NotifyWakes DEF SubmitEvent
  <2>2. NewItem("event") \in Items
    BY <1>4, SMTT(30) DEF SubmitEvent, NewItem, Items, TypeOK, Emptied, Open
  <2>3. /\ accepted' \in [Kinds -> Nat]
        /\ accepted'["event"] = accepted["event"] + 1
        /\ accepted'["action"] = accepted["action"]
        /\ Open
        /\ UNCHANGED <<running, failure, busy, actions, thread, joins, begun,
                       droppedBefore, reported>>
    BY <1>4 DEF SubmitEvent, Accept, TypeOK
  <2>4. /\ TypeOK' /\ NewestEventsKept' /\ events' # <<>>
    <3>1. CASE Len(events) # Capacity
      <4>1. /\ events' = Append(events, NewItem("event")) /\ dropped' = dropped
        BY <1>4, <3>1 DEF SubmitEvent
      <4>2. /\ events' \in Seq(Items) /\ Len(events') = Len(events) + 1
            /\ \A i \in 1..Len(events') :
                 events'[i] = IF i <= Len(events) THEN events[i] ELSE NewItem("event")
        BY <2>2, <4>1, AppendFacts DEF TypeOK
      <4>3. TypeOK'
        <5>1. running' \in BOOLEAN /\ busy' \in BOOLEAN
          BY <2>1, <2>3, <3>1, <4>1, <4>2 DEF Woken, TypeOK
        <5>2. actions' \in Seq(Items) /\ Len(actions') <= ActionCapacity
          BY <2>1, <2>3, <3>1, <4>1, <4>2 DEF Woken, TypeOK
        <5>3. events' \in Seq(Items) /\ Len(events') <= Capacity
          BY <2>1, <2>3, <3>1, <4>1, <4>2 DEF Woken, TypeOK
        <5>4. QED
          BY <2>1, <2>3, <3>1, <4>1, <4>2, <5>1, <5>2, <5>3 DEF Woken, TypeOK
      <4>4. NewestEventsKept'
        <5>1. ASSUME NEW i \in 1..Len(events')
              PROVE  events'[i] = <<thread, (accepted["event"] + 1) - Len(events') + i>>
          <6>1. CASE i <= Len(events)
            <7>1. /\ i \in 1..Len(events)
                  /\ (accepted["event"] + 1) - Len(events') + i
                      = accepted["event"] - Len(events) + i
              BY <4>2, <6>1 DEF TypeOK
            <7>2. QED
              BY <2>3, <4>2, <6>1, <7>1 DEF NewestEventsKept
          <6>2. CASE i > Len(events)
            <7>1. /\ i = Len(events')
                  /\ (accepted["event"] + 1) - Len(events') + i = accepted["event"] + 1
              BY <4>2, <6>2 DEF TypeOK
            <7>2. QED
              BY <4>2, <6>2, <7>1 DEF NewItem
          <6>3. QED
            BY <4>2, <6>1, <6>2 DEF TypeOK
        <5>2. accepted["event"] + 1 =
                begun["event"] + Len(events') + (dropped - droppedBefore)
          BY <2>3, <4>2 DEF TypeOK, NewestEventsKept
        <5>3. QED
          BY <2>3, <4>1, <5>1, <5>2 DEF NewestEventsKept
      <4>5. QED
        BY <4>2, <4>3, <4>4, SMTT(30) DEF TypeOK
    <3>2. CASE Len(events) = Capacity
      <4>1. /\ events' = Append(Tail(events), NewItem("event")) /\ dropped' = dropped + 1
        BY <1>4, <3>2 DEF SubmitEvent
      <4>2. /\ Tail(events) \in Seq(Items) /\ Len(Tail(events)) = Len(events) - 1
            /\ \A i \in 1..(Len(events) - 1) : Tail(events)[i] = events[i + 1]
        BY <3>2, TailFacts DEF TypeOK
      <4>3. /\ events' \in Seq(Items) /\ Len(events') = Len(events)
            /\ \A i \in 1..Len(events') :
                 events'[i] = IF i < Len(events) THEN events[i + 1] ELSE NewItem("event")
        <5> DEFINE s == Tail(events)
        <5>1. /\ Append(s, NewItem("event")) \in Seq(Items)
              /\ Len(Append(s, NewItem("event"))) = Len(s) + 1
              /\ \A i \in 1..(Len(s) + 1) :
                   Append(s, NewItem("event"))[i] =
                     IF i <= Len(s) THEN s[i] ELSE NewItem("event")
          BY <2>2, <4>2, AppendFacts
        <5>2. Len(events) \in Nat
          BY DEF TypeOK
        <5>3. Len(s) + 1 = Len(events) /\ Len(s) = Len(events) - 1
          BY <4>2, <5>2
        <5>4. ASSUME NEW i \in 1..Len(events)
              PROVE  Append(s, NewItem("event"))[i] =
                       IF i < Len(events) THEN events[i + 1] ELSE NewItem("event")
          <6>1. i <= Len(s) <=> i < Len(events)
            BY <5>2, <5>3
          <6>2. i < Len(events) => i \in 1..(Len(events) - 1)
            BY <5>2
          <6>3. QED
            BY <4>2, <5>1, <5>3, <6>1, <6>2
        <5>5. QED
          BY <4>1, <5>1, <5>3, <5>4
      <4>4. TypeOK'
        <5>1. running' \in BOOLEAN /\ busy' \in BOOLEAN
          BY <2>1, <2>3, <3>2, <4>1, <4>3 DEF Woken, TypeOK
        <5>2. actions' \in Seq(Items) /\ Len(actions') <= ActionCapacity
          BY <2>1, <2>3, <3>2, <4>1, <4>3 DEF Woken, TypeOK
        <5>3. events' \in Seq(Items) /\ Len(events') <= Capacity
          BY <2>1, <2>3, <3>2, <4>1, <4>3 DEF Woken, TypeOK
        <5>4. QED
          BY <2>1, <2>3, <3>2, <4>1, <4>3, <5>1, <5>2, <5>3 DEF Woken, TypeOK
      <4>5. NewestEventsKept'
        <5>1. ASSUME NEW i \in 1..Len(events')
              PROVE  events'[i] = <<thread, (accepted["event"] + 1) - Len(events') + i>>
          <6>1. CASE i < Len(events)
            <7>1. /\ i + 1 \in 1..Len(events)
                  /\ (accepted["event"] + 1) - Len(events') + i
                       = accepted["event"] - Len(events) + (i + 1)
              <8>1. PICK n \in Nat, a \in Nat : n = Len(events) /\ a = accepted["event"]
                BY DEF TypeOK
              <8>2. Len(events') = n /\ i \in 1..n
                BY <4>3, <8>1
              <8>3. i + 1 \in 1..n /\ (a + 1) - n + i = a - n + (i + 1)
                BY <6>1, <8>1, <8>2
              <8>4. QED
                BY <8>1, <8>2, <8>3
            <7>2. QED
              BY <2>3, <4>3, <6>1, <7>1 DEF NewestEventsKept
          <6>2. CASE i >= Len(events)
            <7>1. /\ i = Len(events')
                  /\ (accepted["event"] + 1) - Len(events') + i = accepted["event"] + 1
              BY <4>3, <6>2 DEF TypeOK
            <7>2. QED
              BY <4>3, <6>2, <7>1 DEF NewItem
          <6>3. QED
            BY <4>3, <6>1, <6>2 DEF TypeOK
        <5>2. accepted["event"] + 1 =
                begun["event"] + Len(events') + ((dropped + 1) - droppedBefore)
          BY <2>3, <4>3 DEF TypeOK, NewestEventsKept
        <5>3. QED
          BY <2>3, <4>1, <5>1, <5>2 DEF NewestEventsKept
      <4>6. QED
        BY <3>2, <4>3, <4>4, <4>5 DEF TypeOK
    <3>3. QED
      BY <3>1, <3>2
  <2>5. PlacesOK'
    BY <1>4, <2>1 DEF SubmitEvent, Woken, PlacesOK
  <2>6. NoLostWakeup'
    BY <1>4, <2>1 DEF SubmitEvent, Woken, TypeOK, NoLostWakeup, Asleep, Open, Settled
  <2>7. WaitersWait'
    BY <1>4, <2>1, <2>4 DEF SubmitEvent, Woken, TypeOK, WaitersWait, Settled
  <2>8. BusyOK' /\ Emptied' /\ ActionsInOrder' /\ FailureKnown'
    BY <2>1, <2>3 DEF Woken, TypeOK, BusyOK, Emptied, Open, ActionsInOrder,
       FailureKnown
  <2>9. QED
    BY <2>4, <2>5, <2>6, <2>7, <2>8
<1>5. ASSUME NEW l \in Lives, Take(l) PROVE IInv'
  <2>1. /\ Open /\ l = thread /\ pc[l] = "check" /\ busy' = TRUE
        /\ pc' = [pc EXCEPT ![l] = "callback"] /\ pc' \in [Threads -> Labels]
        /\ UNCHANGED <<running, failure, dropped, thread, joins, accepted, droppedBefore,
                       reported>>
    BY <1>5 DEF Take, Begin, TypeOK, PlacesOK, Labels
  <2>2. /\ TypeOK' /\ ActionsInOrder' /\ NewestEventsKept'
    <3>1. CASE /\ actions # <<>> /\ actions' = Tail(actions) /\ Begin(l, "action")
               /\ UNCHANGED events
      <4>1. /\ actions' \in Seq(Items) /\ Len(actions') = Len(actions) - 1
            /\ \A i \in 1..Len(actions') : actions'[i] = actions[i + 1]
        BY <3>1, TailFacts DEF TypeOK
      <4>2. /\ begun' \in [Kinds -> Nat] /\ begun'["action"] = begun["action"] + 1
            /\ begun'["event"] = begun["event"] /\ events' = events
        BY <3>1 DEF Begin, TypeOK
      <4>3. TypeOK'
        <5>1. running' \in BOOLEAN /\ busy' \in BOOLEAN
          BY <2>1, <4>1, <4>2 DEF TypeOK
        <5>2. actions' \in Seq(Items) /\ Len(actions') <= ActionCapacity
          BY <2>1, <4>1, <4>2 DEF TypeOK
        <5>3. events' \in Seq(Items) /\ Len(events') <= Capacity
          BY <2>1, <4>1, <4>2 DEF TypeOK
        <5>4. QED
          BY <2>1, <4>1, <4>2, <5>1, <5>2, <5>3 DEF TypeOK
      <4>4. ActionsInOrder' /\ NewestEventsKept'
        <5>1. ASSUME NEW i \in 1..Len(actions')
              PROVE  actions'[i] = <<thread, (begun["action"] + 1) + i>>
          <6>1. /\ i + 1 \in 1..Len(actions)
                /\ begun["action"] + (i + 1) = (begun["action"] + 1) + i
            BY <4>1 DEF TypeOK
          <6>2. QED
            BY <2>1, <4>1, <6>1 DEF ActionsInOrder
        <5>2. accepted["action"] = (begun["action"] + 1) + Len(actions')
          BY <2>1, <4>1 DEF TypeOK, ActionsInOrder
        <5>3. ActionsInOrder'
          BY <2>1, <4>2, <5>1, <5>2 DEF ActionsInOrder
        <5>4. NewestEventsKept'
          BY <2>1, <4>2 DEF NewestEventsKept, Open
        <5>5. QED
          BY <5>3, <5>4
      <4>5. QED
        BY <4>3, <4>4
    <3>2. CASE /\ actions = <<>> /\ events # <<>> /\ events' = Tail(events)
               /\ Begin(l, "event") /\ UNCHANGED actions
      <4>1. /\ events' \in Seq(Items) /\ Len(events') = Len(events) - 1
            /\ \A i \in 1..Len(events') : events'[i] = events[i + 1]
        BY <3>2, TailFacts DEF TypeOK
      <4>2. /\ begun' \in [Kinds -> Nat] /\ begun'["event"] = begun["event"] + 1
            /\ begun'["action"] = begun["action"] /\ actions' = actions
        BY <3>2 DEF Begin, TypeOK
      <4>3. TypeOK'
        <5>1. running' \in BOOLEAN /\ busy' \in BOOLEAN
          BY <2>1, <4>1, <4>2 DEF TypeOK
        <5>2. actions' \in Seq(Items) /\ Len(actions') <= ActionCapacity
          BY <2>1, <4>1, <4>2 DEF TypeOK
        <5>3. events' \in Seq(Items) /\ Len(events') <= Capacity
          BY <2>1, <4>1, <4>2 DEF TypeOK
        <5>4. QED
          BY <2>1, <4>1, <4>2, <5>1, <5>2, <5>3 DEF TypeOK
      <4>4. ActionsInOrder' /\ NewestEventsKept'
        <5>1. ASSUME NEW i \in 1..Len(events')
              PROVE  events'[i] = <<thread, accepted["event"] - Len(events') + i>>
          <6>1. /\ i + 1 \in 1..Len(events)
                /\ accepted["event"] - Len(events) + (i + 1)
                    = accepted["event"] - Len(events') + i
            BY <4>1 DEF TypeOK
          <6>2. QED
            BY <2>1, <4>1, <6>1 DEF NewestEventsKept
        <5>2. accepted["event"] =
                (begun["event"] + 1) + Len(events') + (dropped - droppedBefore)
          BY <2>1, <4>1 DEF TypeOK, NewestEventsKept
        <5>3. NewestEventsKept'
          BY <2>1, <4>2, <5>1, <5>2 DEF NewestEventsKept
        <5>4. ActionsInOrder'
          BY <2>1, <4>2 DEF ActionsInOrder, Open
        <5>5. QED
          BY <5>3, <5>4
      <4>5. QED
        BY <4>3, <4>4
    <3>3. QED
      BY <1>5, <3>1, <3>2 DEF Take
  <2>3. PlacesOK'
    BY <2>1 DEF TypeOK, PlacesOK
  <2>4. BusyOK'
    BY <2>1 DEF TypeOK, PlacesOK, BusyOK
  <2>5. NoLostWakeup'
    BY <2>1 DEF TypeOK, PlacesOK, NoLostWakeup
  <2>6. Emptied' /\ WaitersWait' /\ FailureKnown'
    BY <2>1 DEF TypeOK, PlacesOK, Emptied, Open, WaitersWait, Settled, FailureKnown
  <2>7. QED
    BY <2>2, <2>3, <2>4, <2>5, <2>6
<1>6. ASSUME NEW l \in Lives, Sleep(l) PROVE IInv'
  <2>1. TypeOK'
    BY <1>6 DEF Sleep, Items, Labels, TypeOK
  <2>2. PlacesOK'
    BY <1>6 DEF Sleep, TypeOK, PlacesOK
  <2>3. NoLostWakeup'
    BY <1>6 DEF Sleep, TypeOK, PlacesOK, BusyOK, NoLostWakeup, WaitersWait, Asleep,
       Open, Settled
  <2>4. /\ BusyOK' /\ Emptied' /\ WaitersWait' /\ ActionsInOrder'
        /\ NewestEventsKept' /\ FailureKnown'
    BY <1>6 DEF Sleep, TypeOK, PlacesOK, BusyOK, Emptied, Open, WaitersWait,
       Settled, ActionsInOrder, NewestEventsKept, FailureKnown
  <2>5. QED
    BY <2>1, <2>2, <2>3, <2>4
<1>7. ASSUME NEW l \in Lives, End(l) PROVE IInv'
  <2>1. pc' \in [Threads -> Labels]
    BY <1>7 DEF End, NotifyAll, TypeOK, Labels
  <2>2. TypeOK'
    BY <1>7, <2>1 DEF End, Items, TypeOK
  <2>3. PlacesOK'
    BY <1>7, <2>1 DEF End, NotifyAll, TypeOK, PlacesOK
  <2>4. Emptied'
    BY <1>7, <2>1 DEF End, NotifyAll, TypeOK, PlacesOK, Emptied, Open
  <2>5. NoLostWakeup'
    BY <1>7, <2>1 DEF End, NotifyAll, TypeOK, PlacesOK, BusyOK, NoLostWakeup,
       WaitersWait, Asleep, Open, Settled
  <2>6. FailureKnown'
    BY <1>7, <2>1 DEF End, NotifyAll, TypeOK, PlacesOK, Emptied, FailureKnown, Open
  <2>7. BusyOK' /\ WaitersWait' /\ ActionsInOrder' /\ NewestEventsKept'
    BY <1>7, <2>1 DEF End, NotifyAll, TypeOK, PlacesOK, BusyOK, WaitersWait,
       Settled, Emptied, ActionsInOrder, Open, NewestEventsKept
  <2>8. QED
    BY <2>2, <2>3, <2>4, <2>5, <2>6, <2>7
<1>8. ASSUME NEW l \in Lives, Report(l) PROVE IInv'
  <2>1. TypeOK'
    BY <1>8 DEF Report, Items, Labels, TypeOK
  <2>2. PlacesOK'
    BY <1>8 DEF Report, TypeOK, PlacesOK
  <2>3. FailureKnown'
    BY <1>8 DEF Report, TypeOK, PlacesOK, Emptied, FailureKnown, Open
  <2>4. /\ BusyOK' /\ Emptied' /\ NoLostWakeup' /\ WaitersWait' /\ ActionsInOrder'
        /\ NewestEventsKept'
    BY <1>8 DEF Report, TypeOK, PlacesOK, BusyOK, Emptied, Open, NoLostWakeup,
       WaitersWait, Asleep, Settled, ActionsInOrder, NewestEventsKept
  <2>5. QED
    BY <2>1, <2>2, <2>3, <2>4
<1>9. ASSUME NEW l \in Lives, Finish(l) PROVE IInv'
  <2>1. pc' \in [Threads -> Labels]
    BY <1>9 DEF Finish, NotifyAll, TypeOK, Labels
  <2>2. TypeOK'
    BY <1>9, <2>1 DEF Finish, Items, TypeOK
  <2>3. PlacesOK'
    BY <1>9, <2>1 DEF Finish, NotifyAll, TypeOK, PlacesOK
  <2>4. BusyOK'
    BY <1>9, <2>1 DEF Finish, NotifyAll, TypeOK, PlacesOK, BusyOK
  <2>5. NoLostWakeup'
    BY <1>9, <2>1 DEF Finish, NotifyAll, TypeOK, PlacesOK, BusyOK, NoLostWakeup,
       WaitersWait, Asleep, Open, Settled
  <2>6. WaitersWait'
    BY <1>9, <2>1 DEF Finish, NotifyAll, TypeOK, PlacesOK, WaitersWait, Settled
  <2>7. Emptied' /\ ActionsInOrder' /\ NewestEventsKept' /\ FailureKnown'
    BY <1>9, <2>1 DEF Finish, NotifyAll, TypeOK, PlacesOK, Emptied, Open,
       ActionsInOrder, NewestEventsKept, FailureKnown
  <2>8. QED
    BY <2>2, <2>3, <2>4, <2>5, <2>6, <2>7
<1>10. ASSUME NEW l \in Lives, CallbackRaises(l) PROVE IInv'
  <2>1. TypeOK'
    BY <1>10 DEF CallbackRaises, Items, Labels, TypeOK
  <2>2. PlacesOK'
    BY <1>10 DEF CallbackRaises, TypeOK, PlacesOK
  <2>3. NoLostWakeup'
    BY <1>10 DEF CallbackRaises, TypeOK, PlacesOK, BusyOK, NoLostWakeup,
       WaitersWait, Asleep, Open, Settled
  <2>4. FailureKnown'
    BY <1>10 DEF CallbackRaises, TypeOK, PlacesOK, Emptied, FailureKnown, Open
  <2>5. BusyOK' /\ Emptied' /\ WaitersWait' /\ ActionsInOrder' /\ NewestEventsKept'
    BY <1>10 DEF CallbackRaises, TypeOK, PlacesOK, BusyOK, Emptied, Open,
       WaitersWait, Settled, ActionsInOrder, NewestEventsKept
  <2>6. QED
    BY <2>1, <2>2, <2>3, <2>4, <2>5
<1>11. ASSUME NEW l \in Lives, StopFromCallback(l) PROVE IInv'
  <2>1. /\ pc' \in [Threads -> Labels] /\ running' = FALSE /\ actions' = <<>>
        /\ events' = <<>>
        /\ UNCHANGED <<failure, busy, dropped, thread, history>>
        /\ joins' \in [Clients -> Lives \cup {0}]
    BY <1>11 DEF StopFromCallback, Clear, NotifyAll, TypeOK, Labels
  <2>2. TypeOK'
    <3>1. running' \in BOOLEAN /\ busy' \in BOOLEAN
      BY <2>1 DEF TypeOK
    <3>2. actions' \in Seq(Items) /\ Len(actions') <= ActionCapacity
      BY <2>1 DEF TypeOK
    <3>3. events' \in Seq(Items) /\ Len(events') <= Capacity
      BY <2>1 DEF TypeOK
    <3>4. QED
      BY <2>1, <3>1, <3>2, <3>3 DEF TypeOK
  <2>3. PlacesOK'
    BY <1>11, <2>1 DEF StopFromCallback, Clear, NotifyAll, TypeOK, PlacesOK
  <2>4. Emptied'
    BY <1>11, <2>1 DEF StopFromCallback, Clear, NotifyAll, TypeOK, PlacesOK,
       Emptied, Open
  <2>5. NoLostWakeup'
    BY <1>11, <2>1 DEF StopFromCallback, Clear, NotifyAll, TypeOK, PlacesOK, BusyOK,
       NoLostWakeup, WaitersWait, Asleep, Open, Settled
  <2>6. WaitersWait'
    BY <1>11, <2>1 DEF StopFromCallback, Clear, NotifyAll, TypeOK, PlacesOK,
       WaitersWait, Settled
  <2>7. BusyOK' /\ ActionsInOrder' /\ NewestEventsKept' /\ FailureKnown'
    BY <1>11, <2>1 DEF StopFromCallback, Clear, NotifyAll, TypeOK, PlacesOK, BusyOK,
       Emptied, ActionsInOrder, Open, NewestEventsKept, FailureKnown
  <2>8. QED
    BY <2>2, <2>3, <2>4, <2>5, <2>6, <2>7
<1>12. ASSUME NEW c \in Clients, WaitIdle(c) PROVE IInv'
  <2>1. TypeOK'
    BY <1>12 DEF WaitIdle, Items, Labels, TypeOK
  <2>2. PlacesOK'
    BY <1>12 DEF WaitIdle, TypeOK, PlacesOK
  <2>3. NoLostWakeup'
    BY <1>12 DEF WaitIdle, TypeOK, PlacesOK, BusyOK, NoLostWakeup, WaitersWait,
       Asleep, Open, Settled
  <2>4. /\ BusyOK' /\ Emptied' /\ WaitersWait' /\ ActionsInOrder'
        /\ NewestEventsKept' /\ FailureKnown'
    BY <1>12 DEF WaitIdle, TypeOK, PlacesOK, BusyOK, Emptied, Open, WaitersWait,
       Settled, ActionsInOrder, NewestEventsKept, FailureKnown
  <2>5. QED
    BY <2>1, <2>2, <2>3, <2>4
<1>13. ASSUME NEW c \in Clients, WaitChecks(c) PROVE IInv'
  <2>1. TypeOK'
    BY <1>13 DEF WaitChecks, Items, Labels, TypeOK
  <2>2. PlacesOK'
    BY <1>13 DEF WaitChecks, TypeOK, PlacesOK
  <2>3. NoLostWakeup'
    BY <1>13 DEF WaitChecks, TypeOK, PlacesOK, BusyOK, NoLostWakeup, WaitersWait,
       Asleep, Open, Settled
  <2>4. WaitersWait'
    BY <1>13 DEF WaitChecks, TypeOK, PlacesOK, WaitersWait, Settled
  <2>5. BusyOK' /\ Emptied' /\ ActionsInOrder' /\ NewestEventsKept' /\ FailureKnown'
    BY <1>13 DEF WaitChecks, TypeOK, PlacesOK, BusyOK, Emptied, Open,
       ActionsInOrder, NewestEventsKept, FailureKnown
  <2>6. QED
    BY <2>1, <2>2, <2>3, <2>4, <2>5
<1>14. ASSUME NEW c \in Clients, WaitTimesOut(c) PROVE IInv'
  <2>1. TypeOK'
    BY <1>14 DEF WaitTimesOut, Items, Labels, TypeOK
  <2>2. PlacesOK'
    BY <1>14 DEF WaitTimesOut, TypeOK, PlacesOK
  <2>3. NoLostWakeup'
    BY <1>14 DEF WaitTimesOut, TypeOK, PlacesOK, BusyOK, NoLostWakeup, WaitersWait,
       Asleep, Open, Settled
  <2>4. /\ BusyOK' /\ Emptied' /\ WaitersWait' /\ ActionsInOrder'
        /\ NewestEventsKept' /\ FailureKnown'
    BY <1>14 DEF WaitTimesOut, TypeOK, PlacesOK, BusyOK, Emptied, Open, WaitersWait,
       Settled, ActionsInOrder, NewestEventsKept, FailureKnown
  <2>5. QED
    BY <2>1, <2>2, <2>3, <2>4
<1>15. ASSUME NEW c \in Clients, Stop(c) PROVE IInv'
  <2>1. /\ pc' \in [Threads -> Labels] /\ running' = FALSE /\ actions' = <<>>
        /\ events' = <<>>
        /\ UNCHANGED <<failure, busy, dropped, thread, history>>
        /\ joins' \in [Clients -> Lives \cup {0}]
    BY <1>15 DEF Stop, Clear, NotifyAll, TypeOK, Labels
  <2>2. TypeOK'
    <3>1. running' \in BOOLEAN /\ busy' \in BOOLEAN
      BY <2>1 DEF TypeOK
    <3>2. actions' \in Seq(Items) /\ Len(actions') <= ActionCapacity
      BY <2>1 DEF TypeOK
    <3>3. events' \in Seq(Items) /\ Len(events') <= Capacity
      BY <2>1 DEF TypeOK
    <3>4. QED
      BY <2>1, <3>1, <3>2, <3>3 DEF TypeOK
  <2>3. PlacesOK'
    BY <1>15, <2>1 DEF Stop, Clear, NotifyAll, TypeOK, PlacesOK
  <2>4. Emptied'
    BY <1>15, <2>1 DEF Stop, Clear, NotifyAll, TypeOK, PlacesOK, Emptied, Open
  <2>5. NoLostWakeup'
    BY <1>15, <2>1 DEF Stop, Clear, NotifyAll, TypeOK, PlacesOK, BusyOK,
       NoLostWakeup, WaitersWait, Asleep, Open, Settled
  <2>6. WaitersWait'
    BY <1>15, <2>1 DEF Stop, Clear, NotifyAll, TypeOK, PlacesOK, WaitersWait,
       Settled
  <2>7. BusyOK' /\ ActionsInOrder' /\ NewestEventsKept' /\ FailureKnown'
    BY <1>15, <2>1 DEF Stop, Clear, NotifyAll, TypeOK, PlacesOK, BusyOK, Emptied,
       ActionsInOrder, Open, NewestEventsKept, FailureKnown
  <2>8. QED
    BY <2>2, <2>3, <2>4, <2>5, <2>6, <2>7
<1>16. ASSUME NEW c \in Clients, JoinReturns(c) PROVE IInv'
  <2>1. TypeOK'
    BY <1>16 DEF JoinReturns, Items, Labels, TypeOK
  <2>2. PlacesOK'
    BY <1>16 DEF JoinReturns, TypeOK, PlacesOK
  <2>3. NoLostWakeup'
    BY <1>16 DEF JoinReturns, TypeOK, PlacesOK, BusyOK, NoLostWakeup, WaitersWait,
       Asleep, Open, Settled
  <2>4. /\ BusyOK' /\ Emptied' /\ WaitersWait' /\ ActionsInOrder'
        /\ NewestEventsKept' /\ FailureKnown'
    BY <1>16 DEF JoinReturns, TypeOK, PlacesOK, BusyOK, Emptied, Open, WaitersWait,
       Settled, ActionsInOrder, NewestEventsKept, FailureKnown
  <2>5. QED
    BY <2>1, <2>2, <2>3, <2>4
<1>17. ASSUME NEW c \in Clients, JoinTimesOut(c) PROVE IInv'
  <2>1. TypeOK'
    BY <1>17 DEF JoinTimesOut, Items, Labels, TypeOK
  <2>2. PlacesOK'
    BY <1>17 DEF JoinTimesOut, TypeOK, PlacesOK
  <2>3. NoLostWakeup'
    BY <1>17 DEF JoinTimesOut, TypeOK, PlacesOK, BusyOK, NoLostWakeup, WaitersWait,
       Asleep, Open, Settled
  <2>4. /\ BusyOK' /\ Emptied' /\ WaitersWait' /\ ActionsInOrder'
        /\ NewestEventsKept' /\ FailureKnown'
    BY <1>17 DEF JoinTimesOut, TypeOK, PlacesOK, BusyOK, Emptied, Open, WaitersWait,
       Settled, ActionsInOrder, NewestEventsKept, FailureKnown
  <2>5. QED
    BY <2>1, <2>2, <2>3, <2>4
<1>18. QED
  BY <1>1, <1>2, <1>3, <1>4, <1>5, <1>6, <1>7, <1>8, <1>9, <1>10, <1>11, <1>12, <1>13,
     <1>14, <1>15, <1>16, <1>17 DEF Next, ThreadRuns

\* A worker that was never started satisfies the invariant.
LEMMA Initially == Init => IInv
<1> SUFFICES ASSUME Init PROVE IInv
  OBVIOUS
<1> USE WorkerAssumption DEF Init, Threads, Lives
<1>1. TypeOK
  <2>1. pc \in [Threads -> Labels]
    BY DEF Labels
  <2>2. /\ actions \in Seq(Items) /\ events \in Seq(Items) /\ Len(actions) = 0
        /\ Len(events) = 0
    OBVIOUS
  <2>3. accepted \in [Kinds -> Nat] /\ begun \in [Kinds -> Nat]
    OBVIOUS
  <2>4. joins \in [Clients -> Lives \cup {0}] /\ reported \subseteq Lives
    OBVIOUS
  <2>5. /\ running \in BOOLEAN /\ busy \in BOOLEAN
        /\ failure \in {"none", "overflow", "raised"}
        /\ dropped \in Nat /\ droppedBefore \in Nat /\ thread \in Lives \cup {0}
    OBVIOUS
  <2>6. Len(actions) <= ActionCapacity /\ Len(events) <= Capacity
    BY <2>2
  <2>7. QED
    BY <2>1, <2>2, <2>3, <2>4, <2>5, <2>6, Zenon DEF TypeOK
<1>2. PlacesOK
  <2>1. ASSUME NEW c \in Clients PROVE pc[c] = "idle"
    OBVIOUS
  <2>2. ASSUME NEW l \in Lives PROVE pc[l] = "unborn" /\ l > thread
    OBVIOUS
  <2>3. ASSUME NEW l \in Lives PROVE ~(l < thread) /\ l # thread
    OBVIOUS
  <2>4. QED
    BY <2>1, <2>2, <2>3 DEF PlacesOK
<1>3. BusyOK /\ Emptied /\ WaitersWait /\ FailureKnown
  BY DEF BusyOK, Emptied, WaitersWait, FailureKnown
<1>4. NoLostWakeup /\ ActionsInOrder /\ NewestEventsKept
  BY DEF NoLostWakeup, ActionsInOrder, NewestEventsKept, Open
<1>5. QED
  BY <1>1, <1>2, <1>3, <1>4 DEF IInv

\* A step that changes nothing keeps the invariant.
LEMMA Stutter == IInv /\ UNCHANGED vars => IInv'
<1> SUFFICES ASSUME IInv, UNCHANGED vars PROVE IInv'
  OBVIOUS
<1> USE DEF IInv, vars, queues, history
<1>1. TypeOK' /\ PlacesOK' /\ BusyOK' /\ Emptied'
  BY DEF TypeOK, PlacesOK, BusyOK, Emptied, Open
<1>2. NoLostWakeup' /\ WaitersWait' /\ FailureKnown'
  BY DEF NoLostWakeup, WaitersWait, FailureKnown, Open, Settled, Asleep
<1>3. ActionsInOrder' /\ NewestEventsKept'
  BY DEF ActionsInOrder, NewestEventsKept, Open
<1>4. QED
  BY <1>1, <1>2, <1>3

\* IInv holds in every reachable state.
THEOREM Inductive == Spec => []IInv
<1>1. IInv /\ [Next]_vars => IInv'
  BY Step, Stutter
<1>2. QED
  BY Initially, <1>1, PTL DEF Spec

\* Type correctness, with both capacities kept.
THEOREM TypeCorrect == Spec => []TypeOK
<1>1. IInv => TypeOK
  BY DEF IInv
<1>2. QED
  BY <1>1, Inductive, PTL

\* At most one thread of the worker is alive, that of the present life.
THEOREM ThreadsExclusive == Spec => []OneThread
<1>1. IInv => OneThread
  <2> SUFFICES ASSUME IInv, NEW l \in Lives, Alive(l) PROVE l = thread
    BY DEF OneThread
  <2>1. thread \in Nat /\ l \in Nat
    BY WorkerAssumption DEF IInv, TypeOK, Lives
  <2>2. ~(l > thread) /\ ~(l < thread)
    BY DEF IInv, PlacesOK, Alive
  <2>3. QED
    BY <2>1, <2>2
<1>2. QED
  BY <1>1, Inductive, PTL

\* A notify() is never spent on the wrong waiter.
THEOREM WakeupsKept == Spec => []NoLostWakeup
<1>1. IInv => NoLostWakeup
  BY DEF IInv
<1>2. QED
  BY <1>1, Inductive, PTL

\* No accepted action is lost, repeated or overtaken before a stop or a failure.
THEOREM ActionsKept == Spec => []ActionsInOrder
<1>1. IInv => ActionsInOrder
  BY DEF IInv
<1>2. QED
  BY <1>1, Inductive, PTL

\* Events give way oldest first, and each that does is counted.
THEOREM EventsKept == Spec => []NewestEventsKept
<1>1. IInv => NewestEventsKept
  BY DEF IInv
<1>2. QED
  BY <1>1, Inductive, PTL

\* Both queues tell the truth at their limits.
THEOREM QueuesKept == Spec => []QueuesInOrder
<1>1. IInv => QueuesInOrder
  BY DEF IInv, QueuesInOrder
<1>2. QED
  BY <1>1, Inductive, PTL

\* No callback begins after a stop or a failure, or for an item of an earlier life.
THEOREM NothingBeginsLate == Spec => BeginsWhileOpen
<1> DEFINE Begins(l) ==
      pc[l] # "callback" /\ pc'[l] = "callback" =>
        /\ Open /\ l = thread
        /\ Head(IF actions # <<>> THEN actions ELSE events)[1] = l
<1>1. ASSUME IInv, Next, NEW l \in Lives, pc[l] # "callback", pc'[l] = "callback"
      PROVE  Take(l)
  BY <1>1, NotifyWakes, WorkerAssumption
     DEF Next, ThreadRuns, IInv, TypeOK, Woken, Threads, Start, SubmitAction,
         ActionOverflows, SubmitEvent, Take, Begin, Sleep, End, Report, Finish,
         CallbackRaises, StopFromCallback, Clear, NotifyAll, WaitIdle, WaitChecks,
         WaitTimesOut, Stop, JoinReturns, JoinTimesOut
<1>2. ASSUME IInv, NEW l \in Lives, Take(l)
      PROVE  Begins(l)
  <2>1. Open /\ l = thread
    BY <1>2, WorkerAssumption DEF Take, IInv, TypeOK, PlacesOK, Lives
  <2>2. ASSUME NEW s \in Seq(Items), s # <<>>
        PROVE  Head(s) = s[1] /\ 1 \in 1..Len(s)
    BY <2>2
  <2>3. CASE actions # <<>>
    <3>1. actions[1] = <<thread, begun["action"] + 1>> /\ Head(actions) = actions[1]
      BY <1>2, <2>1, <2>2, <2>3 DEF IInv, TypeOK, ActionsInOrder
    <3>2. QED
      BY <2>1, <2>3, <3>1
  <2>4. CASE actions = <<>> /\ events # <<>>
    <3>1. /\ events[1] = <<thread, accepted["event"] - Len(events) + 1>>
          /\ Head(events) = events[1]
      BY <1>2, <2>1, <2>2, <2>4 DEF IInv, TypeOK, NewestEventsKept
    <3>2. QED
      BY <2>1, <2>4, <3>1
  <2>5. QED
    BY <1>2, <2>3, <2>4 DEF Take
<1>3. IInv /\ [Next]_vars => [\A l \in Lives : Begins(l)]_vars
  BY <1>1, <1>2
<1>4. QED
  BY <1>3, Inductive, PTL DEF Spec, BeginsWhileOpen

\* wait_idle() succeeds only while no callback is under way.
THEOREM IdleIsIdle == Spec => IdleMeansDelivered
<1> DEFINE Idles(c) ==
      pc[c] = "check" /\ pc'[c] = "idle" =>
        \A l \in Lives : pc[l] \notin {"callback", "finally"}
<1>1. ASSUME IInv, Next, NEW c \in Clients, pc[c] = "check", pc'[c] = "idle"
      PROVE  Settled
  BY <1>1, NotifyWakes, WorkerAssumption
     DEF Next, ThreadRuns, IInv, TypeOK, Woken, Threads, Start, SubmitAction,
         ActionOverflows, SubmitEvent, Take, Begin, Sleep, End, Report, Finish,
         CallbackRaises, StopFromCallback, Clear, NotifyAll, WaitIdle, WaitChecks,
         WaitTimesOut, Stop, JoinReturns, JoinTimesOut
<1>2. ASSUME IInv, Settled, NEW l \in Lives
      PROVE  pc[l] \notin {"callback", "finally"}
  BY <1>2, WorkerAssumption DEF IInv, TypeOK, PlacesOK, BusyOK, Settled, Lives
<1>3. IInv /\ [Next]_vars => [\A c \in Clients : Idles(c)]_vars
  BY <1>1, <1>2
<1>4. QED
  BY <1>3, Inductive, PTL DEF Spec, IdleMeansDelivered

\* A failure is reported before a restart forgets it.
THEOREM FailuresReported == Spec => ReportsBeforeRestart
<1>1. ASSUME IInv, Next, failure # "none", failure' = "none"
      PROVE  Start
  BY <1>1
     DEF Next, ThreadRuns, SubmitAction, ActionOverflows, SubmitEvent, Take, Sleep,
         End, Report, Finish, CallbackRaises, StopFromCallback, Clear, WaitIdle,
         WaitChecks, WaitTimesOut, Stop, JoinReturns, JoinTimesOut
<1>2. ASSUME IInv, Start, failure # "none"
      PROVE  thread \in reported
  BY <1>2 DEF IInv, TypeOK, FailureKnown, Start
<1>3. IInv /\ [Next]_vars =>
        [failure # "none" /\ failure' = "none" => thread \in reported]_vars
  BY <1>1, <1>2
<1>4. QED
  BY <1>3, Inductive, PTL DEF Spec, ReportsBeforeRestart
==============================================================================
