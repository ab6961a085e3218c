-------------------------------- MODULE EventBus --------------------------------
(***************************************************************************)
(* An EventBus (events/event_bus.py): subscriptions with replay and a      *)
(* limited number of deliveries, publications of many threads, waiters,    *)
(* periodic publications, clear() and close().                             *)
(*                                                                         *)
(* Events are numbered in the order in which they were recorded; the event *)
(* also names its publication, so that each publication goes on by itself, *)
(* whatever thread, callback or timer it belongs to.  An action is one     *)
(* section under the lock of the bus, of a subscriber or of a subscription.*)
(***************************************************************************)
EXTENDS Naturals, Sequences, FiniteSets, Functions

CONSTANTS
  Subscribers,
  Waiters,        \* those that wait_for() may subscribe
  Timers,         \* the calls of publish_every()
  Closers,        \* the threads that call clear() and close()
  Matches,        \* the events for which the filter of each subscriber returns true
  Times,          \* values of `times`; 0 stands for None
  Replays,        \* values of `replay`
  HistorySize,    \* capacity of the history, 0 without one
  BufferSize,     \* replay_buffer_limit
  MaxSchedules,
  Executor,       \* whether callbacks run in an executor
  RaiseErrors,    \* error_policy is RAISE
  MaxEvents       \* bound: events published

Events == 1..MaxEvents

ASSUME BusAssumption ==
  /\ Waiters \subseteq Subscribers
  /\ Subscribers \cap Timers = {}
  /\ Matches \in [Subscribers -> SUBSET Events]
  /\ Times \subseteq Nat /\ Replays \subseteq Nat
  /\ HistorySize \in Nat /\ BufferSize \in Nat \ {0} /\ MaxSchedules \in Nat \ {0}
  /\ Executor \in BOOLEAN /\ RaiseErrors \in BOOLEAN
  /\ MaxEvents \in Nat

VARIABLES
  closed,
  published,    \* the last event recorded
  registered,   \* _subscribers
  active,       \* the subscriptions, of subscribers and timers, with _active
  replaying,    \* the subscribers whose `replaying` is set
  remaining,    \* `remaining` of each subscriber with a limit
  limited,      \* the subscribers with a limit
  buffer,       \* `pending` of each subscriber
  place,        \* where the caller of subscribe() or wait_for() is
  past,         \* the events of the history that subscribe() has yet to replay
  batch,        \* what it has taken from the buffer and has yet to deliver
  toMatch,      \* the subscribers each publication has yet to match
  matched,      \* those it has yet to deliver to
  calls,        \* those whose callback it runs
  received,     \* the waiters that have captured an event
  schedules,    \* _schedules
  timer,        \* where each publish_every(), then its thread, is
  emits,        \* the event that a timer's thread is publishing
  pc,           \* where each closer is
  toStop,       \* the subscriptions it has yet to deactivate
  toJoin,       \* the timers whose threads it has yet to join
  seen,         \* history: the events each subscriber has claimed
  boundary,     \* history: the last event recorded before it subscribed
  before        \* history: the publications complete when an event was recorded

subs   == <<registered, replaying, remaining, limited, buffer, place, past, batch>>
pubs   == <<toMatch, matched, calls>>
timers == <<schedules, timer, emits>>
closes == <<pc, toStop, toJoin>>
\* What the steps of a subscription leave alone.
elsewhere == <<closed, published, received, timers, closes, boundary, before>>
vars   == <<closed, published, active, subs, pubs, received, timers, closes, seen,
            boundary, before>>

TypeOK ==
  /\ closed \in BOOLEAN
  /\ published \in 0..MaxEvents
  /\ registered \subseteq Subscribers /\ replaying \subseteq Subscribers
  /\ active \subseteq Subscribers \cup Timers
  /\ remaining \in [Subscribers -> Nat] /\ limited \subseteq Subscribers
  /\ buffer \in [Subscribers -> Seq(Events)]
  /\ \A s \in Subscribers : Len(buffer[s]) <= BufferSize
  /\ place \in [Subscribers -> {"none", "replay", "callback", "wait", "done",
                           "failed"}]
  /\ past \in [Subscribers -> SUBSET Events]
  /\ batch \in [Subscribers -> Seq(Events)]
  /\ toMatch \in [Events -> SUBSET Subscribers]
  /\ matched \in [Events -> SUBSET Subscribers]
  /\ calls \in [Events -> SUBSET Subscribers]
  /\ received \subseteq Subscribers
  /\ schedules \subseteq Timers
  /\ timer \in [Timers -> {"none", "checked", "loop", "publish", "publishing",
                           "wait", "finally", "dead"}]
  /\ emits \in [Timers -> Events \cup {0}]
  /\ pc \in [Closers -> {"idle", "clear", "close"}]
  /\ toStop \in [Closers -> SUBSET (Subscribers \cup Timers)]
  /\ toJoin \in [Closers -> SUBSET Timers]
  /\ seen \in [Subscribers -> Seq(Events)]
  /\ boundary \in [Subscribers -> 0..MaxEvents]
  /\ before \in [Events -> SUBSET Events]

Init ==
  /\ closed = FALSE
  /\ published = 0
  /\ registered = {} /\ active = {} /\ replaying = {} /\ limited = {}
  /\ remaining = [s \in Subscribers |-> 0]
  /\ buffer = [s \in Subscribers |-> <<>>] /\ batch = [s \in Subscribers |-> <<>>]
  /\ place = [s \in Subscribers |-> "none"]
  /\ past = [s \in Subscribers |-> {}]
  /\ toMatch = [e \in Events |-> {}] /\ matched = [e \in Events |-> {}]
  /\ calls = [e \in Events |-> {}]
  /\ received = {}
  /\ schedules = {}
  /\ timer = [t \in Timers |-> "none"] /\ emits = [t \in Timers |-> 0]
  /\ pc = [c \in Closers |-> "idle"]
  /\ toStop = [c \in Closers |-> {}] /\ toJoin = [c \in Closers |-> {}]
  /\ seen = [s \in Subscribers |-> <<>>]
  /\ boundary = [s \in Subscribers |-> 0]
  /\ before = [e \in Events |-> {}]

------------------------------------------------------------------------------
\* Subscriptions.

\* Subscription.cancel() of the subscribers S.
Cancel(S) ==
  /\ active' = active \ S
  /\ registered' = registered \ S

\* claim(), for a subscriber with something left, and _consume() if it was the last.
Claims(s) == s \in active /\ (s \in limited => remaining[s] > 0)

Claim(s, e) ==
  /\ Claims(s)
  /\ seen' = [seen EXCEPT ![s] = Append(@, e)]
  /\ remaining' = [remaining EXCEPT ![s] = IF s \in limited THEN @ - 1 ELSE @]
  /\ Cancel(IF s \in limited /\ remaining[s] = 1 THEN {s} ELSE {})

\* The last k events of the history that match the filter of s.
Recent(s) == {e \in Events : e <= published /\ e + HistorySize > published} \cap Matches[s]
Replayed(s, k) ==
  {e \in Recent(s) : Cardinality({f \in Recent(s) : f > e}) < k}

\* The section of subscribe().
Enrol(s, times, k, next) ==
  /\ place[s] = "none"
  /\ registered' = registered \cup {s}
  /\ active' = active \cup {s}
  /\ limited' = IF times = 0 THEN limited ELSE limited \cup {s}
  /\ remaining' = [remaining EXCEPT ![s] = times]
  /\ replaying' = IF k > 0 /\ HistorySize > 0 THEN replaying \cup {s} ELSE replaying
  /\ past' = [past EXCEPT ![s] = IF next = "replay" THEN Replayed(s, k) ELSE {}]
  /\ place' = [place EXCEPT ![s] = next]
  /\ boundary' = [boundary EXCEPT ![s] = published]
  /\ UNCHANGED <<closed, published, buffer, batch, pubs, received, timers, closes,
                 seen, before>>

\* Fault: a closed bus accepts subscriptions.
SubscribeLate(s, times, k) ==
  /\ Enrol(s, times, k, IF k > 0 /\ HistorySize > 0 THEN "replay" ELSE "done")

Subscribe(s, times, k) ==
  /\ ~closed
  /\ Enrol(s, times, k, IF k > 0 /\ HistorySize > 0 THEN "replay" ELSE "done")

\* The filter raises for an event of the history, outside the lock: the subscriber
\* stays registered, and nobody replays to it.  (In publish() an event for which a
\* filter raises does not match.)
SubscribeRaises(s, times, k) ==
  /\ ~closed
  /\ k > 0 /\ HistorySize > 0 /\ published > 0
  /\ Enrol(s, times, k, "failed")

\* The next event to replay: the history first, in its order.
NextToReplay(s, e) ==
  IF past[s] # {}
  THEN e \in past[s] /\ \A f \in past[s] : e <= f
  ELSE batch[s] # <<>> /\ e = Head(batch[s])

ReplayOne(s, e) ==
  /\ place[s] = "replay"
  /\ NextToReplay(s, e)
  /\ Claim(s, e)
  /\ IF past[s] # {}
     THEN past' = [past EXCEPT ![s] = @ \ {e}] /\ UNCHANGED batch
     ELSE batch' = [batch EXCEPT ![s] = Tail(@)] /\ UNCHANGED past
  /\ place' = [place EXCEPT ![s] = "callback"]
  /\ UNCHANGED <<elsewhere, replaying, limited, buffer, pubs>>

\* A subscriber that was cancelled, or has had its last event, gets no more.
ReplayStops(s) ==
  /\ place[s] = "replay"
  /\ past[s] # {} \/ batch[s] # <<>>
  /\ ~Claims(s)
  /\ past' = [past EXCEPT ![s] = {}]
  /\ batch' = [batch EXCEPT ![s] = <<>>]
  /\ UNCHANGED <<elsewhere, active, registered, replaying, remaining, limited,
                 buffer, place, pubs, seen>>

ReplayReturns(s) ==
  /\ place[s] = "callback"
  /\ place' = [place EXCEPT ![s] = "replay"]
  /\ UNCHANGED <<elsewhere, active, registered, replaying, remaining, limited,
                 buffer, past, batch, pubs, seen>>

\* A callback that raises ends the subscription if errors are raised.
ReplayRaises(s) ==
  /\ place[s] = "callback"
  /\ RaiseErrors
  /\ Cancel({s})
  /\ place' = [place EXCEPT ![s] = "done"]
  /\ UNCHANGED <<elsewhere, replaying, remaining, limited, buffer, past, batch,
                 pubs, seen>>

ReplayedAll(s) == place[s] = "replay" /\ past[s] = {} /\ batch[s] = <<>>

\* Fault: the subscriber goes live before it has had what was buffered.
FinishReplayEarly(s) ==
  /\ ReplayedAll(s)
  /\ IF buffer[s] # <<>>
     THEN /\ batch' = [batch EXCEPT ![s] = buffer[s]]
          /\ buffer' = [buffer EXCEPT ![s] = <<>>]
          /\ UNCHANGED place
     ELSE place' = [place EXCEPT ![s] = "done"] /\ UNCHANGED <<buffer, batch>>
  /\ replaying' = replaying \ {s}
  /\ UNCHANGED <<elsewhere, active, registered, remaining, limited, past, pubs,
                 seen>>

\* Fault: the buffer is not looked at again.
FinishReplayOnce(s) ==
  /\ ReplayedAll(s)
  /\ replaying' = replaying \ {s}
  /\ place' = [place EXCEPT ![s] = "done"]
  /\ UNCHANGED <<elsewhere, active, registered, remaining, limited, buffer, batch,
                 past, pubs, seen>>

\* finish_replay().
FinishReplay(s) ==
  /\ ReplayedAll(s)
  /\ IF buffer[s] # <<>>
     THEN /\ batch' = [batch EXCEPT ![s] = buffer[s]]
          /\ buffer' = [buffer EXCEPT ![s] = <<>>]
          /\ UNCHANGED <<replaying, place>>
     ELSE /\ replaying' = replaying \ {s}
          /\ place' = [place EXCEPT ![s] = "done"]
          /\ UNCHANGED <<buffer, batch>>
  /\ UNCHANGED <<elsewhere, active, registered, remaining, limited, past, pubs,
                 seen>>

\* cancel() of the subscription that subscribe() returned.
Unsubscribe(s) ==
  /\ s \in active /\ place[s] = "done"
  /\ Cancel({s})
  /\ UNCHANGED <<elsewhere, replaying, remaining, limited, buffer, place, past,
                 batch, pubs, seen>>

------------------------------------------------------------------------------
\* wait_for(): a subscription for one event.

WaitFor(w) ==
  /\ ~closed
  /\ w \in Waiters
  /\ Enrol(w, 1, 0, "wait")

StopWaiting(w) ==
  /\ place[w] = "wait"
  /\ Cancel({w})
  /\ place' = [place EXCEPT ![w] = "done"]
  /\ UNCHANGED <<elsewhere, replaying, remaining, limited, buffer, past, batch,
                 pubs, seen>>

\* Fault: close() does not end the wait.
WaitReturnsOpen(w) == w \in received /\ StopWaiting(w)

WaitReturns(w) == (w \in received \/ closed) /\ StopWaiting(w)

WaitTimesOut(w) == w \notin received /\ ~closed /\ StopWaiting(w)

------------------------------------------------------------------------------
\* publish().

Done(e) == e <= published /\ toMatch[e] = {} /\ matched[e] = {} /\ calls[e] = {}

\* The first section.
Record(e) ==
  /\ ~closed
  /\ e = published + 1 /\ e <= MaxEvents
  /\ published' = e
  /\ toMatch' = [toMatch EXCEPT ![e] = registered]
  /\ before' = [before EXCEPT ![e] = {f \in Events : Done(f)}]

Publish(e) ==
  /\ Record(e)
  /\ UNCHANGED <<closed, active, subs, matched, calls, received, timers, closes,
                 seen, boundary>>

\* A subscriber that is inactive, or whose filter the event does not match.
Skip(e, s) ==
  /\ s \in toMatch[e]
  /\ s \notin active \/ e \notin Matches[s]
  /\ toMatch' = [toMatch EXCEPT ![e] = @ \ {s}]
  /\ UNCHANGED <<elsewhere, active, subs, matched, calls, seen>>

Wanted(e, s) ==
  /\ s \in toMatch[e] /\ s \in active /\ e \in Matches[s]
  /\ toMatch' = [toMatch EXCEPT ![e] = @ \ {s}]

\* buffer_if_replaying().
Buffer(e, s) ==
  /\ Wanted(e, s)
  /\ s \in replaying
  /\ Len(buffer[s]) < BufferSize
  /\ buffer' = [buffer EXCEPT ![s] = Append(@, e)]
  /\ UNCHANGED <<elsewhere, active, registered, replaying, remaining, limited,
                 place, past, batch, matched, calls, seen>>

BufferOverflows(e, s) ==
  /\ Wanted(e, s)
  /\ s \in replaying
  /\ Len(buffer[s]) = BufferSize
  /\ Cancel({s})
  /\ UNCHANGED <<elsewhere, replaying, remaining, limited, buffer, place, past,
                 batch, matched, calls, seen>>

Match(e, s) ==
  /\ Wanted(e, s)
  /\ s \notin replaying
  /\ matched' = [matched EXCEPT ![e] = @ \cup {s}]
  /\ UNCHANGED <<elsewhere, active, subs, calls, seen>>

\* The publisher calls back one subscriber after the other; an executor is given
\* them all.
TakesTurn(e, s) ==
  /\ s \in matched[e] /\ toMatch[e] = {}
  /\ calls[e] = {} \/ Executor
  /\ matched' = [matched EXCEPT ![e] = @ \ {s}]

Deliver(e, s) ==
  /\ TakesTurn(e, s)
  /\ Claim(s, e)
  /\ calls' = [calls EXCEPT ![e] = @ \cup {s}]
  /\ UNCHANGED <<elsewhere, replaying, limited, buffer, place, past, batch,
                 toMatch>>

DeliverNothing(e, s) ==
  /\ TakesTurn(e, s)
  /\ ~Claims(s)
  /\ UNCHANGED <<elsewhere, active, subs, toMatch, calls, seen>>

\* The callback returns or raises; that of wait_for() captures the event.
CallbackEnds(e, s) ==
  /\ s \in calls[e]
  /\ calls' = [calls EXCEPT ![e] = @ \ {s}]
  /\ received' = received \cup (IF place[s] = "wait" THEN {s} ELSE {})
  /\ UNCHANGED <<closed, published, active, subs, toMatch, matched, timers, closes,
                 seen, boundary, before>>

------------------------------------------------------------------------------
\* publish_every().

Others == <<closed, published, subs, pubs, received, closes, seen, boundary, before>>

TimerGoes(t, from, to) ==
  /\ timer[t] = from
  /\ timer' = [timer EXCEPT ![t] = to]

\* The first section checks ...
Schedule(t) ==
  /\ ~closed /\ Cardinality(schedules) < MaxSchedules
  /\ TimerGoes(t, "none", "checked")
  /\ UNCHANGED <<active, schedules, emits, Others>>

\* ... and the second starts the thread, whose first event may be due at once.
StartTimer(t) ==
  /\ \E to \in {"loop", "wait"} : TimerGoes(t, "checked", to)
  /\ schedules' = schedules \cup {t}
  /\ active' = active \cup {t}
  /\ UNCHANGED <<emits, Others>>

TimerChecks(t) ==
  /\ TimerGoes(t, "loop", IF t \in active /\ ~closed THEN "publish" ELSE "finally")
  /\ UNCHANGED <<active, schedules, emits, Others>>

TimerPublishes(t) ==
  \E e \in Events :
    /\ Record(e)
    /\ TimerGoes(t, "publish", "publishing")
    /\ emits' = [emits EXCEPT ![t] = e]
    /\ UNCHANGED <<closed, active, subs, matched, calls, received, schedules, closes,
                   seen, boundary>>

\* The bus was closed after the check.
TimerRejected(t) ==
  /\ closed
  /\ \/ t \in active /\ ~RaiseErrors /\ TimerGoes(t, "publish", "wait")
     \/ TimerGoes(t, "publish", "finally")
  /\ UNCHANGED <<active, schedules, emits, Others>>

\* After its publication the timer waits, unless it was cancelled, has published
\* its number of times, or an error is raised.
TimerPublished(t) ==
  /\ timer[t] = "publishing" /\ Done(emits[t])
  /\ \/ t \in active /\ TimerGoes(t, "publishing", "wait")
     \/ TimerGoes(t, "publishing", "finally")
  /\ emits' = [emits EXCEPT ![t] = 0]
  /\ UNCHANGED <<active, schedules, Others>>

TimerWakes(t) ==
  /\ t \in active
  /\ TimerGoes(t, "wait", "loop")
  /\ UNCHANGED <<active, schedules, emits, Others>>

TimerStopped(t) ==
  /\ t \notin active
  /\ TimerGoes(t, "wait", "finally")
  /\ UNCHANGED <<active, schedules, emits, Others>>

TimerEnds(t) ==
  /\ TimerGoes(t, "finally", "dead")
  /\ active' = active \ {t}
  /\ schedules' = schedules \ {t}
  /\ UNCHANGED <<emits, Others>>

\* cancel() of the subscription that publish_every() returned.
CancelTimer(t) ==
  /\ t \in active /\ t \in Timers
  /\ active' = active \ {t}
  /\ schedules' = IF closed THEN schedules ELSE schedules \ {t}
  /\ UNCHANGED <<timer, emits, Others>>

------------------------------------------------------------------------------
\* clear() and close().

\* With nobody registered clear() changes nothing.
Clear(c) ==
  /\ pc[c] = "idle" /\ registered # {}
  /\ pc' = [pc EXCEPT ![c] = "clear"]
  /\ toStop' = [toStop EXCEPT ![c] = registered]
  /\ registered' = {}
  /\ UNCHANGED <<closed, published, active, replaying, remaining, limited, buffer,
                 place, past, batch, pubs, received, timers, toJoin, seen, boundary,
                 before>>

Close(c) ==
  /\ pc[c] = "idle"
  /\ ~closed \/ schedules # {}
  /\ pc' = [pc EXCEPT ![c] = "close"]
  /\ closed' = TRUE
  /\ toStop' = [toStop EXCEPT ![c] = registered \cup schedules]
  /\ toJoin' = [toJoin EXCEPT ![c] = schedules]
  /\ registered' = {}
  /\ UNCHANGED <<published, active, replaying, remaining, limited, buffer, place,
                 past, batch, pubs, received, timers, seen, boundary, before>>

\* One subscription after the other is deactivated, the timers last.
Deactivate(c, x) ==
  /\ x \in toStop[c]
  /\ x \in Timers => toStop[c] \subseteq Timers
  /\ active' = active \ {x}
  /\ toStop' = [toStop EXCEPT ![c] = @ \ {x}]
  /\ UNCHANGED <<closed, published, subs, pubs, received, timers, pc, toJoin, seen,
                 boundary, before>>

ClearReturns(c) ==
  /\ pc[c] = "clear" /\ toStop[c] = {}
  /\ pc' = [pc EXCEPT ![c] = "idle"]
  /\ UNCHANGED <<closed, published, active, subs, pubs, received, timers, toStop,
                 toJoin, seen, boundary, before>>

Ended(t) == timer[t] = "dead"

LeaveClose(c) ==
  /\ pc[c] = "close" /\ toStop[c] = {}
  /\ schedules' = {t \in schedules : ~Ended(t)}
  /\ pc' = [pc EXCEPT ![c] = "idle"]
  /\ toJoin' = [toJoin EXCEPT ![c] = {}]
  /\ UNCHANGED <<closed, published, active, subs, pubs, received, timer, emits, toStop,
                 seen, boundary, before>>

CloseReturns(c) == (\A t \in toJoin[c] : Ended(t)) /\ LeaveClose(c)

\* The threads that still run remain in _schedules, for another close().
CloseTimesOut(c) == (\E t \in toJoin[c] : ~Ended(t)) /\ LeaveClose(c)

------------------------------------------------------------------------------
Replay(s) ==
  \/ \E e \in Events : ReplayOne(s, e)
  \/ ReplayStops(s) \/ ReplayReturns(s) \/ ReplayRaises(s) \/ FinishReplay(s)

Proceed(e) ==
  \E s \in Subscribers :
    \/ Skip(e, s) \/ Buffer(e, s) \/ BufferOverflows(e, s) \/ Match(e, s)
    \/ Deliver(e, s) \/ DeliverNothing(e, s) \/ CallbackEnds(e, s)

TimerRuns(t) ==
  \/ StartTimer(t) \/ TimerChecks(t) \/ TimerPublishes(t) \/ TimerRejected(t)
  \/ TimerPublished(t) \/ TimerWakes(t) \/ TimerStopped(t) \/ TimerEnds(t)

Finish(c) ==
  \/ \E x \in Subscribers \cup Timers : Deactivate(c, x)
  \/ ClearReturns(c) \/ CloseReturns(c)

Next ==
  \/ \E s \in Subscribers :
       \/ \E times \in Times, k \in Replays :
            Subscribe(s, times, k) \/ SubscribeRaises(s, times, k)
       \/ Replay(s) \/ Unsubscribe(s)
       \/ WaitFor(s) \/ WaitReturns(s) \/ WaitTimesOut(s)
  \/ \E e \in Events : Publish(e) \/ Proceed(e)
  \/ \E t \in Timers : Schedule(t) \/ TimerRuns(t) \/ CancelTimer(t)
  \/ \E c \in Closers : Clear(c) \/ Close(c) \/ Finish(c) \/ CloseTimesOut(c)

Spec == Init /\ [][Next]_vars

\* Threads run, callbacks return and intervals pass.  Timeouts need not come.
FairSpec ==
  /\ Spec
  /\ \A s \in Subscribers : WF_vars(Replay(s)) /\ WF_vars(WaitReturns(s))
  /\ \A e \in Events : WF_vars(Proceed(e))
  /\ \A t \in Timers : WF_vars(TimerRuns(t))
  /\ \A c \in Closers : WF_vars(Finish(c))

------------------------------------------------------------------------------
\* Properties.

\* subscribe() is one boundary: the history is replayed first and in its order, and
\* no event is had twice, from the history, the buffer or a publication.
AtomicBoundary ==
  \A s \in Subscribers : \A j \in 1..Len(seen[s]) : \A i \in 1..(j - 1) :
    /\ seen[s][i] # seen[s][j]
    /\ seen[s][j] <= boundary[s] => seen[s][i] < seen[s][j]

\* An event published after publish() of another had returned is never had before
\* that other, also when a replay was under way.
InOrder ==
  \A s \in Subscribers : \A j \in 1..Len(seen[s]) : \A i \in 1..(j - 1) :
    seen[s][j] \notin before[seen[s][i]]

Seen(s) == Range(seen[s])
Buffered(s) == Range(buffer[s]) \cup Range(batch[s])

\* A subscriber that is registered has had, or will have, every event recorded since,
\* unless subscribe() raised before it replayed: such a subscriber stays, and what is
\* buffered for it is never delivered.
NothingMissed ==
  \A s \in registered : \A e \in Matches[s] :
    boundary[s] < e /\ e <= published =>
      \/ e \in Seen(s)
      \/ s \in toMatch[e] \cup matched[e]
      \/ place[s] \in {"replay", "callback"} /\ e \in Buffered(s)
      \/ place[s] = "failed"

\* After close() no subscriber claims an event, unless a clear() is still about to
\* deactivate it.
ClosedIsSilent ==
  closed /\ (\A c \in Closers : toStop[c] = {}) => active \cap Subscribers = {}

\* subscribe(), publish() and close() return, and wait_for() does for its event and
\* when the bus is closed.
CallsReturn ==
  /\ \A s \in Subscribers : place[s] \in {"replay", "callback"} ~> place[s] = "done"
  /\ \A e \in Events : e <= published ~> Done(e)
  /\ \A c \in Closers : pc[c] # "idle" ~> pc[c] = "idle"
  /\ \A w \in Waiters : (seen[w] # <<>> \/ closed) /\ place[w] = "wait" ~> place[w] = "done"

\* A subscribe() that raises leaves no subscription behind.  That holds for a callback
\* that raises in the replay, not for a filter that does (SubscribeRaises).
FailureLeavesNothing ==
  \A s \in Subscribers : place[s] = "failed" => s \notin registered

\* docs/en/events.md: max_schedules is the maximum of active publish_every()
\* schedules.  Two callers that pass the first section together exceed it.
SchedulesWithinLimit == Cardinality(schedules) <= MaxSchedules
=============================================================================
