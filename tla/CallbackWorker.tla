----------------------------- MODULE CallbackWorker -----------------------------
(***************************************************************************)
(* The CallbackWorker of a MAVLink runtime (mavlink/delivery.py): one      *)
(* thread that calls back for queued lifecycle actions and telemetry       *)
(* events.  Events give way when their queue is full; a full queue of      *)
(* actions, or a callback that raises, is a failure that ends the thread.  *)
(* The worker can be stopped and started again, each time with a new       *)
(* thread.                                                                 *)
(*                                                                         *)
(* An action is one section under the condition.  A thread that waits for  *)
(* the condition is asleep until somebody notifies it.                     *)
(***************************************************************************)
EXTENDS Naturals, Sequences

CONSTANTS
  Clients,          \* the threads that call wait_idle() and stop()
  Capacity,
  ActionCapacity,
  MaxLives,         \* bound: how often the worker is started
  MaxItems          \* bound: items of each kind accepted in one life

Lives == 1..MaxLives

ASSUME WorkerAssumption ==
  /\ Capacity \in Nat \ {0} /\ ActionCapacity \in Nat \ {0}
  /\ MaxLives \in Nat /\ MaxItems \in Nat
  /\ Clients \cap Lives = {}

Threads == Clients \cup Lives
Kinds == {"action", "event"}

VARIABLES
  running, failure, busy, dropped,
  actions, events,   \* _actions and _queue: <<life, number>> of each item
  thread,            \* _thread: the life it belongs to, or 0
  pc,                \* where each client, and the thread of each life, is
  joins,             \* the thread that a client's stop() waits for, or 0
  accepted, begun,   \* history: the items of each kind in this life
  droppedBefore,     \* history: dropped when this life began
  reported           \* history: the lives whose on_failure was called

queues  == <<actions, events, dropped>>
history == <<accepted, begun, droppedBefore, reported>>
vars == <<running, failure, busy, queues, thread, pc, joins, history>>

Items == Lives \X (Nat \ {0})
Labels ==
  {"idle", "check", "asleep", "join", "unborn", "callback", "finally", "report",
   "dead"}

TypeOK ==
  /\ running \in BOOLEAN /\ busy \in BOOLEAN
  /\ failure \in {"none", "overflow", "raised"}
  /\ dropped \in Nat /\ droppedBefore \in Nat
  /\ actions \in Seq(Items) /\ Len(actions) <= ActionCapacity
  /\ events \in Seq(Items) /\ Len(events) <= Capacity
  /\ thread \in Lives \cup {0}
  /\ pc \in [Threads -> Labels]
  /\ joins \in [Clients -> Lives \cup {0}]
  /\ accepted \in [Kinds -> Nat] /\ begun \in [Kinds -> Nat]
  /\ reported \subseteq Lives

Init ==
  /\ running = FALSE /\ failure = "none" /\ busy = FALSE
  /\ actions = <<>> /\ events = <<>> /\ dropped = 0
  /\ thread = 0
  /\ pc = [t \in Threads |-> IF t \in Clients THEN "idle" ELSE "unborn"]
  /\ joins = [c \in Clients |-> 0]
  /\ accepted = [k \in Kinds |-> 0] /\ begun = [k \in Kinds |-> 0]
  /\ droppedBefore = 0
  /\ reported = {}

Asleep == {t \in Threads : pc[t] = "asleep"}

\* notify_all(), when the threads have otherwise come to `at`.
NotifyAll(at) ==
  pc' = [t \in Threads |-> IF at[t] = "asleep" THEN "check" ELSE at[t]]

\* notify() wakes one thread, whichever it is.
Notify ==
  \/ Asleep = {} /\ UNCHANGED pc
  \/ \E t \in Asleep : pc' = [pc EXCEPT ![t] = "check"]

------------------------------------------------------------------------------
\* start() and submit() are one section each.

\* While the worker runs, start() changes nothing, and while the previous
\* thread is alive it raises.
Start ==
  /\ ~running
  /\ thread # 0 => pc[thread] = "dead"
  /\ thread < MaxLives
  /\ running' = TRUE /\ failure' = "none"
  /\ thread' = thread + 1
  /\ pc' = [pc EXCEPT ![thread + 1] = "check"]
  /\ accepted' = [k \in Kinds |-> 0] /\ begun' = [k \in Kinds |-> 0]
  /\ droppedBefore' = dropped
  /\ UNCHANGED <<busy, queues, joins, reported>>

\* Otherwise submit() drops the item without a trace.
Open == running /\ failure = "none"

NewItem(kind) == <<thread, accepted[kind] + 1>>

Accept(kind) ==
  /\ accepted[kind] < MaxItems
  /\ accepted' = [accepted EXCEPT ![kind] = @ + 1]

SubmitAction ==
  /\ Open /\ Len(actions) < ActionCapacity
  /\ Accept("action")
  /\ actions' = Append(actions, NewItem("action"))
  /\ Notify
  /\ UNCHANGED <<running, failure, busy, events, dropped, thread, joins, begun,
                 droppedBefore, reported>>

ActionOverflows ==
  /\ Open /\ Len(actions) = ActionCapacity
  /\ failure' = "overflow"
  /\ NotifyAll(pc)
  /\ UNCHANGED <<running, busy, queues, thread, joins, history>>

\* Fault: the new event is the one that is dropped.
SubmitEventDropsNew ==
  /\ Open
  /\ Accept("event")
  /\ LET full == Len(events) = Capacity
     IN /\ events' = IF full THEN events ELSE Append(events, NewItem("event"))
        /\ dropped' = IF full THEN dropped + 1 ELSE dropped
  /\ Notify
  /\ UNCHANGED <<running, failure, busy, actions, thread, joins, begun,
                 droppedBefore, reported>>

SubmitEvent ==
  /\ Open
  /\ Accept("event")
  /\ LET full == Len(events) = Capacity
     IN /\ events' = Append(IF full THEN Tail(events) ELSE events, NewItem("event"))
        /\ dropped' = IF full THEN dropped + 1 ELSE dropped
  /\ Notify
  /\ UNCHANGED <<running, failure, busy, actions, thread, joins, begun,
                 droppedBefore, reported>>

------------------------------------------------------------------------------
\* The thread of a life.

Begin(l, kind) ==
  /\ busy' = TRUE
  /\ begun' = [begun EXCEPT ![kind] = @ + 1]
  /\ pc' = [pc EXCEPT ![l] = "callback"]

\* Actions come first.
Take(l) ==
  /\ pc[l] = "check" /\ Open
  /\ \/ /\ actions # <<>>
        /\ actions' = Tail(actions) /\ Begin(l, "action")
        /\ UNCHANGED events
     \/ /\ actions = <<>> /\ events # <<>>
        /\ events' = Tail(events) /\ Begin(l, "event")
        /\ UNCHANGED actions
  /\ UNCHANGED <<running, failure, dropped, thread, joins, accepted, droppedBefore,
                 reported>>

Sleep(l) ==
  /\ pc[l] = "check" /\ Open
  /\ actions = <<>> /\ events = <<>>
  /\ pc' = [pc EXCEPT ![l] = "asleep"]
  /\ UNCHANGED <<running, failure, busy, queues, thread, joins, history>>

\* Fault: who waits for the queues to be empty is not told.
EndQuietly(l) ==
  /\ pc[l] = "check" /\ ~Open
  /\ actions' = <<>> /\ events' = <<>>
  /\ pc' = [pc EXCEPT ![l] = IF failure = "none" THEN "dead" ELSE "report"]
  /\ UNCHANGED <<running, failure, busy, dropped, thread, joins, history>>

\* The loop ends; nobody changes the failure before _run() reads it.
End(l) ==
  /\ pc[l] = "check" /\ ~Open
  /\ actions' = <<>> /\ events' = <<>>
  /\ NotifyAll([pc EXCEPT ![l] = IF failure = "none" THEN "dead" ELSE "report"])
  /\ UNCHANGED <<running, failure, busy, dropped, thread, joins, history>>

\* on_failure has been called and has returned or raised.
Report(l) ==
  /\ pc[l] = "report"
  /\ reported' = reported \cup {l}
  /\ pc' = [pc EXCEPT ![l] = "dead"]
  /\ UNCHANGED <<running, failure, busy, queues, thread, joins, accepted, begun,
                 droppedBefore>>

\* The failure of an overflow meanwhile is overwritten.
CallbackRaises(l) ==
  /\ pc[l] = "callback"
  /\ failure' = "raised"
  /\ pc' = [pc EXCEPT ![l] = "finally"]
  /\ UNCHANGED <<running, busy, queues, thread, joins, history>>

\* Fault: nobody is notified.
FinishQuietly(l) ==
  /\ pc[l] \in {"callback", "finally"}
  /\ busy' = FALSE
  /\ pc' = [pc EXCEPT ![l] = "check"]
  /\ UNCHANGED <<running, failure, queues, thread, joins, history>>

\* The callback has returned, or its exception has been kept.
Finish(l) ==
  /\ pc[l] \in {"callback", "finally"}
  /\ busy' = FALSE
  /\ NotifyAll([pc EXCEPT ![l] = "check"])
  /\ UNCHANGED <<running, failure, queues, thread, joins, history>>

------------------------------------------------------------------------------
\* wait_idle() and stop().

WaitIdle(c) ==
  /\ pc[c] = "idle"
  /\ pc' = [pc EXCEPT ![c] = "check"]
  /\ UNCHANGED <<running, failure, busy, queues, thread, joins, history>>

Settled == ~busy /\ actions = <<>> /\ events = <<>>

WaitChecks(c) ==
  /\ pc[c] = "check"
  /\ pc' = [pc EXCEPT ![c] = IF Settled THEN "idle" ELSE "asleep"]
  /\ UNCHANGED <<running, failure, busy, queues, thread, joins, history>>

WaitTimesOut(c) ==
  /\ pc[c] = "asleep"
  /\ pc' = [pc EXCEPT ![c] = "idle"]
  /\ UNCHANGED <<running, failure, busy, queues, thread, joins, history>>

Clear(at) ==
  /\ running' = FALSE
  /\ actions' = <<>> /\ events' = <<>>
  /\ NotifyAll(at)
  /\ UNCHANGED <<failure, busy, dropped, thread, history>>

Stop(c) ==
  /\ pc[c] = "idle"
  /\ Clear([pc EXCEPT ![c] = IF thread # 0 THEN "join" ELSE "idle"])
  /\ joins' = [joins EXCEPT ![c] = thread]

\* A callback or on_failure calls stop(), which does not join its own thread.
StopFromCallback(l) ==
  /\ pc[l] \in {"callback", "report"}
  /\ Clear(pc)
  /\ UNCHANGED joins

\* join() returns: the thread has ended, or two seconds have passed and
\* stop() raises.
JoinReturns(c) ==
  /\ pc[c] = "join" /\ pc[joins[c]] = "dead"
  /\ pc' = [pc EXCEPT ![c] = "idle"]
  /\ joins' = [joins EXCEPT ![c] = 0]
  /\ UNCHANGED <<running, failure, busy, queues, thread, history>>

JoinTimesOut(c) ==
  /\ pc[c] = "join" /\ pc[joins[c]] # "dead"
  /\ pc' = [pc EXCEPT ![c] = "idle"]
  /\ joins' = [joins EXCEPT ![c] = 0]
  /\ UNCHANGED <<running, failure, busy, queues, thread, history>>

------------------------------------------------------------------------------
ThreadRuns(l) ==
  Take(l) \/ Sleep(l) \/ End(l) \/ Report(l) \/ Finish(l)

Next ==
  \/ Start \/ SubmitAction \/ ActionOverflows \/ SubmitEvent
  \/ \E l \in Lives : ThreadRuns(l) \/ CallbackRaises(l) \/ StopFromCallback(l)
  \/ \E c \in Clients :
       WaitIdle(c) \/ WaitChecks(c) \/ WaitTimesOut(c)
       \/ Stop(c) \/ JoinReturns(c) \/ JoinTimesOut(c)

Spec == Init /\ [][Next]_vars

\* Threads run, and callbacks and on_failure return.  Timeouts need not come.
FairSpec ==
  /\ Spec
  /\ \A l \in Lives : WF_vars(ThreadRuns(l))
  /\ \A c \in Clients : WF_vars(WaitChecks(c)) /\ WF_vars(JoinReturns(c))

------------------------------------------------------------------------------
\* Properties.

Alive(l) == pc[l] \notin {"unborn", "dead"}

\* Only the thread of the present life is alive, whatever callbacks stop and
\* restart the worker, and whatever stop() gave up waiting for.
OneThread == \A l \in Lives : Alive(l) => l = thread

\* The thread never sleeps while there is something to do: submit() notifies one
\* waiter only, and that must not be a caller of wait_idle().
NoLostWakeup ==
  \A l \in Lives : pc[l] = "asleep" => Open /\ Settled /\ Asleep = {l}

\* Until the worker is stopped or fails, the actions begun and the actions queued
\* are those it accepted, in their order.
ActionsInOrder ==
  Open => /\ accepted["action"] = begun["action"] + Len(actions)
          /\ \A i \in 1..Len(actions) : actions[i] = <<thread, begun["action"] + i>>

\* Likewise the newest events are queued, and every other was begun or counted.
NewestEventsKept ==
  Open => /\ accepted["event"] = begun["event"] + Len(events) + (dropped - droppedBefore)
          /\ \A i \in 1..Len(events) :
               events[i] = <<thread, accepted["event"] - Len(events) + i>>

\* Both bounded queues tell the truth at their limits (delivery.py:53-88).
QueuesInOrder == ActionsInOrder /\ NewestEventsKept

\* A callback begins only in a life that was not stopped and did not fail, and for
\* an item submitted in that life.
BeginsWhileOpen ==
  [][\A l \in Lives :
       pc[l] # "callback" /\ pc'[l] = "callback" =>
         /\ Open /\ l = thread
         /\ Head(IF actions # <<>> THEN actions ELSE events)[1] = l]_vars

\* wait_idle() does not report success while a callback is under way.
IdleMeansDelivered ==
  [][\A c \in Clients :
       pc[c] = "check" /\ pc'[c] = "idle" =>
         \A l \in Lives : pc[l] \notin {"callback", "finally"}]_vars

\* start() forgets a failure only after on_failure was called for it.
ReportsBeforeRestart ==
  [][failure # "none" /\ failure' = "none" => thread \in reported]_vars

\* A caller of wait_idle() is woken, and stop() returns, without a timeout.
CallsReturn == \A c \in Clients : pc[c] \in {"asleep", "join"} ~> pc[c] \in {"check", "idle"}
==============================================================================
