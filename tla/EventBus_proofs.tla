---------------------------- MODULE EventBus_proofs ----------------------------
(***************************************************************************)
(* The invariants of EventBus hold for any subscribers, filters, limits,   *)
(* timers and threads, with and without an executor.                       *)
(***************************************************************************)
EXTENDS EventBus, TLAPS

\* The events of q differ, and none was published before an earlier one of them
\* by a call that had returned.
InLine(q, earlier) ==
  \A j \in 1..Len(q) : \A i \in 1..(j - 1) :
    q[i] # q[j] /\ q[j] \notin earlier[q[i]]

\* The same of every event of X and every event of Y after it.
Ahead(X, Y, earlier) == \A x \in X, y \in Y : x # y /\ y \notin earlier[x]

\* What a subscriber is in each stage of its subscription.
Entry(s) ==
  /\ place[s] = "none" =>
       /\ s \notin registered \cup active \cup replaying \cup limited
       /\ seen[s] = <<>>
       /\ \A c \in Closers : s \notin toStop[c]
       /\ \A e \in Events : s \notin toMatch[e] \cup matched[e]
  /\ place[s] \in {"replay", "callback", "failed"} => s \in replaying
  /\ s \in replaying /\ s \in active => place[s] \in {"replay", "callback", "failed"}
  /\ s \in replaying => \A e \in Events : s \notin matched[e]
  /\ s \notin replaying => past[s] = {} /\ batch[s] = <<>> /\ buffer[s] = <<>>
  /\ past[s] # {} => batch[s] = <<>>
  /\ s \in active /\ s \in limited => remaining[s] > 0
EntryOK == \A s \in Subscribers : Entry(s)

\* A subscriber is active as long as it is registered, or until clear() or close()
\* comes to it.
RegistryOK ==
  /\ registered \subseteq active
  /\ \A c \in Closers : toStop[c] \cap registered = {}
  /\ \A c \in Closers : pc[c] = "idle" => toStop[c] = {}
  /\ \A s \in Subscribers : s \in active =>
       s \in registered \/ \E c \in Closers : s \in toStop[c]
  /\ closed => registered = {}

\* The boundary parts the events to replay from those to publish or buffer.
Numbers(s) ==
  /\ boundary[s] <= published
  /\ \A e \in Seen(s) : e <= published
  /\ \A e \in past[s] : e <= boundary[s]
  /\ \A e \in Buffered(s) : boundary[s] < e /\ e <= published
  /\ \A e \in Events : s \in toMatch[e] \cup matched[e] => boundary[s] < e
NumbersOK ==
  /\ \A s \in Subscribers : Numbers(s)
  /\ \A e \in Events : e > published => toMatch[e] = {} /\ matched[e] = {}

\* A publication that was complete stays complete.
BeforeOK == \A e \in Events : \A f \in before[e] : f < e /\ Done(f)

\* What a subscriber has had and what waits for it, in this order.
Line(s) ==
  /\ InLine(seen[s], before) /\ InLine(batch[s], before) /\ InLine(buffer[s], before)
  /\ Ahead(Seen(s), past[s] \cup Buffered(s), before)
  /\ Ahead(Range(batch[s]), Range(buffer[s]), before)
  /\ \A e \in Events :
       /\ s \in toMatch[e] => s \notin matched[e]
       /\ s \in toMatch[e] \cup matched[e] => e \notin Seen(s) \cup Buffered(s)
LineOK == \A s \in Subscribers : Line(s)

\* The history comes first, in its order.
HistoryFirst(s) ==
  /\ \A x \in Seen(s), y \in past[s] : x < y
  /\ \A j \in 1..Len(seen[s]) : \A i \in 1..(j - 1) :
       seen[s][j] <= boundary[s] => seen[s][i] < seen[s][j]
PastFirst == \A s \in Subscribers : HistoryFirst(s)

\* A subscriber that is registered has had, or waits for, every event recorded since;
\* what is buffered for one whose subscribe() raised stays where it is.
NoneLost ==
  \A s \in registered : \A e \in Matches[s] :
    boundary[s] < e /\ e <= published =>
      \/ e \in Seen(s)
      \/ s \in toMatch[e] \cup matched[e]
      \/ place[s] \in {"replay", "callback", "failed"} /\ e \in Buffered(s)

\* The inductive invariant.
Parts ==
  /\ EntryOK /\ RegistryOK /\ NumbersOK /\ BeforeOK /\ LineOK /\ PastFirst
  /\ NoneLost
IInv == TypeOK /\ Parts

\* A step that concerns no subscriber.
Quiet ==
  /\ UNCHANGED <<closed, published, subs, toMatch, matched, seen, boundary, before, toStop>>
  /\ \A s \in Subscribers : s \in active' <=> s \in active
  /\ \A e \in Events : calls'[e] \subseteq calls[e]
  /\ \A c \in Closers : pc'[c] = "idle" => toStop[c] = {}

------------------------------------------------------------------------------
\* Lemmas about sequences.

LEMMA EmptyRange == Range(<<>>) = {}
BY DEF Range

\* Append adds one element to the range.
LEMMA AppendRange ==
  ASSUME NEW S, NEW q \in Seq(S), NEW x \in S
  PROVE  Range(Append(q, x)) = Range(q) \cup {x}
<1> DEFINE r == Append(q, x)
<1>1. DOMAIN q = 1..Len(q) /\ DOMAIN r = 1..(Len(q) + 1) /\ Len(q) \in Nat
  OBVIOUS
<1>2. (\A i \in 1..Len(q) : r[i] = q[i]) /\ r[Len(q) + 1] = x
  OBVIOUS
<1>3. \A i \in DOMAIN r : i \in DOMAIN q \/ i = Len(q) + 1
  BY <1>1
<1> QED  BY <1>1, <1>2, <1>3, SMT DEF Range

\* The head and the tail make up the range.
LEMMA TailRange ==
  ASSUME NEW S, NEW q \in Seq(S), q # <<>>
  PROVE  Head(q) \in S /\ Range(q) = {Head(q)} \cup Range(Tail(q))
<1> DEFINE r == Tail(q)
<1>1. /\ Len(q) \in Nat /\ Len(q) > 0
      /\ DOMAIN q = 1..Len(q) /\ DOMAIN r = 1..(Len(q) - 1)
  OBVIOUS
<1>2. Head(q) = q[1] /\ \A i \in 1..(Len(q) - 1) : r[i] = q[i + 1]
  OBVIOUS
<1>3. \A i \in DOMAIN q : i = 1 \/ (i - 1 \in DOMAIN r /\ q[i] = r[i - 1])
  BY <1>1, <1>2
<1>4. \A i \in DOMAIN r : i + 1 \in DOMAIN q /\ r[i] = q[i + 1]
  BY <1>1, <1>2
<1>5. Range(q) \subseteq {Head(q)} \cup Range(r)
  BY <1>2, <1>3 DEF Range
<1>6. Range(r) \subseteq Range(q)
  BY <1>4 DEF Range
<1>7. Head(q) \in Range(q) /\ Head(q) \in S
  BY <1>1, <1>2 DEF Range
<1> QED  BY <1>5, <1>6, <1>7

\* What joins the end of the line must be behind the rest.
LEMMA AppendInLine ==
  ASSUME NEW S, NEW q \in Seq(S), NEW x \in S, NEW earlier,
         InLine(q, earlier), Ahead(Range(q), {x}, earlier)
  PROVE  InLine(Append(q, x), earlier)
<1> DEFINE r == Append(q, x)
<1>1. Len(q) \in Nat /\ Len(r) = Len(q) + 1 /\ r[Len(q) + 1] = x
  OBVIOUS
<1>2. \A i \in 1..Len(q) : r[i] = q[i] /\ q[i] \in Range(q)
  BY DEF Range
<1> SUFFICES ASSUME NEW j \in 1..Len(r), NEW i \in 1..(j - 1)
             PROVE  r[i] # r[j] /\ r[j] \notin earlier[r[i]]
  BY DEF InLine
<1>3. i \in 1..Len(q)
  BY <1>1
<1>4. CASE j = Len(q) + 1
  BY <1>1, <1>2, <1>3, <1>4 DEF Ahead
<1>5. CASE j \in 1..Len(q)
  BY <1>2, <1>3, <1>5 DEF InLine
<1> QED  BY <1>1, <1>4, <1>5

\* The head is ahead of the tail.
LEMMA TailInLine ==
  ASSUME NEW S, NEW q \in Seq(S), q # <<>>, NEW earlier, InLine(q, earlier)
  PROVE  InLine(Tail(q), earlier) /\ Ahead({Head(q)}, Range(Tail(q)), earlier)
<1> DEFINE r == Tail(q)
<1>1. /\ Len(q) \in Nat /\ Len(q) > 0 /\ Len(r) = Len(q) - 1 /\ DOMAIN r = 1..(Len(q) - 1)
      /\ Head(q) = q[1]
  OBVIOUS
<1>2. \A i \in 1..(Len(q) - 1) : r[i] = q[i + 1]
  OBVIOUS
<1>3. InLine(r, earlier)
  <2> SUFFICES ASSUME NEW j \in 1..Len(r), NEW i \in 1..(j - 1)
               PROVE  r[i] # r[j] /\ r[j] \notin earlier[r[i]]
    BY DEF InLine
  <2>1. r[i] = q[i + 1] /\ r[j] = q[j + 1] /\ j + 1 \in 1..Len(q) /\ i + 1 \in 1..(j + 1 - 1)
    BY <1>1, <1>2
  <2> QED  BY <2>1 DEF InLine
<1>4. \A y \in Range(r) : \E j \in 1..Len(q) : y = q[j] /\ 1 \in 1..(j - 1)
  <2> SUFFICES ASSUME NEW i \in DOMAIN r PROVE \E j \in 1..Len(q) : r[i] = q[j] /\ 1 \in 1..(j - 1)
    BY DEF Range
  <2>1. i + 1 \in 1..Len(q) /\ r[i] = q[i + 1] /\ 1 \in 1..(i + 1 - 1)
    BY <1>1, <1>2
  <2> QED  BY <2>1
<1> QED  BY <1>1, <1>3, <1>4 DEF InLine, Ahead

\* Nobody is out of line in an empty line.
LEMMA EmptyInLine == ASSUME NEW earlier PROVE InLine(<<>>, earlier)
BY DEF InLine

\* Only the publications that are in line matter.
LEMMA SameLine ==
  ASSUME NEW S, NEW q \in Seq(S), NEW earlier, NEW later, InLine(q, earlier),
         \A x \in Range(q) : later[x] = earlier[x]
  PROVE  InLine(q, later)
<1>1. \A j \in 1..Len(q) : \A i \in 1..(j - 1) : q[i] \in Range(q)
  BY DEF Range
<1> QED  BY <1>1 DEF InLine

------------------------------------------------------------------------------
\* The invariant is inductive.

LEMMA TypeInductive == TypeOK /\ [Next]_vars => TypeOK'
<1> SUFFICES ASSUME TypeOK, [Next]_vars PROVE TypeOK'
  OBVIOUS
<1> USE DEF TypeOK, subs, pubs, timers, closes, elsewhere
<1>1. ASSUME NEW s \in Subscribers, NEW times \in Times, NEW k \in Replays,
             Subscribe(s, times, k) \/ SubscribeRaises(s, times, k)
      PROVE  TypeOK'
  <2>1. PICK next \in {"replay", "done", "failed"} : Enrol(s, times, k, next)
    BY <1>1 DEF Subscribe, SubscribeRaises
  <2>2. Replayed(s, k) \in SUBSET Events
    BY DEF Replayed, Recent
  <2>3. times \in Nat /\ boundary' \in [Subscribers -> 0..MaxEvents]
    BY <2>1, BusAssumption DEF Enrol
  <2>4. past' \in [Subscribers -> SUBSET Events]
    BY <2>1, <2>2 DEF Enrol
  <2> QED  BY <2>1, <2>3, <2>4 DEF Enrol
<1>2. ASSUME NEW s \in Subscribers, \E e \in Events : ReplayOne(s, e) PROVE TypeOK'
  <2>1. PICK e \in Events : ReplayOne(s, e)
    BY <1>2
  <2>2. batch' \in [Subscribers -> Seq(Events)] /\ past' \in [Subscribers -> SUBSET Events]
    <3>1. CASE past[s] # {}
      <4>1. batch' = batch /\ past' = [past EXCEPT ![s] = @ \ {e}]
        BY <2>1, <3>1 DEF ReplayOne
      <4> QED  BY <4>1
    <3>2. CASE past[s] = {}
      <4>1. batch[s] # <<>> /\ batch[s] \in Seq(Events)
        BY <2>1, <3>2 DEF ReplayOne, NextToReplay
      <4>2. Tail(batch[s]) \in Seq(Events)
        BY <4>1
      <4>3. past' = past /\ batch' = [batch EXCEPT ![s] = Tail(@)]
        BY <2>1, <3>2 DEF ReplayOne
      <4> QED  BY <4>2, <4>3
    <3> QED  BY <3>1, <3>2
  <2>3. seen' \in [Subscribers -> Seq(Events)]
    <3>1. Append(seen[s], e) \in Seq(Events)
      OBVIOUS
    <3> QED  BY <2>1, <3>1 DEF ReplayOne, Claim
  <2>4. remaining' \in [Subscribers -> Nat]
    BY <2>1 DEF ReplayOne, Claim, Claims
  <2>5. buffer' = buffer
    BY <2>1 DEF ReplayOne
  <2>6. /\ registered' \subseteq Subscribers /\ active' \subseteq Subscribers \cup Timers
        /\ place' \in [Subscribers -> {"none", "replay", "callback", "wait", "done", "failed"}]
    BY <2>1 DEF ReplayOne, Claim, Cancel
  <2> QED  BY <2>1, <2>2, <2>3, <2>4, <2>5, <2>6 DEF ReplayOne
<1>3. ASSUME NEW s \in Subscribers, ReplayStops(s) PROVE TypeOK'
  <2>1. <<>> \in Seq(Events)
    OBVIOUS
  <2>2. batch' \in [Subscribers -> Seq(Events)] /\ past' \in [Subscribers -> SUBSET Events]
    BY <1>3, <2>1 DEF ReplayStops
  <2> QED  BY <1>3, <2>2 DEF ReplayStops
<1>4. ASSUME NEW s \in Subscribers, ReplayReturns(s) PROVE TypeOK'
  BY <1>4 DEF ReplayReturns
<1>5. ASSUME NEW s \in Subscribers, ReplayRaises(s) PROVE TypeOK'
  BY <1>5 DEF ReplayRaises, Cancel
<1>6. ASSUME NEW s \in Subscribers, FinishReplay(s) PROVE TypeOK'
  <2>1. <<>> \in Seq(Events) /\ Len(<<>>) <= BufferSize
    BY BusAssumption
  <2>2. /\ batch' \in [Subscribers -> Seq(Events)] /\ buffer' \in [Subscribers -> Seq(Events)]
        /\ \A r \in Subscribers : Len(buffer'[r]) <= BufferSize
    <3>1. CASE buffer[s] # <<>>
      BY <1>6, <2>1, <3>1 DEF FinishReplay
    <3>2. CASE buffer[s] = <<>>
      BY <1>6, <3>2 DEF FinishReplay
    <3> QED  BY <3>1, <3>2
  <2>3. /\ replaying' \subseteq Subscribers
        /\ place' \in [Subscribers -> {"none", "replay", "callback", "wait", "done", "failed"}]
    BY <1>6 DEF FinishReplay
  <2> QED  BY <1>6, <2>2, <2>3 DEF FinishReplay
<1>7. ASSUME NEW s \in Subscribers, Unsubscribe(s) PROVE TypeOK'
  BY <1>7 DEF Unsubscribe, Cancel
<1>8. ASSUME NEW s \in Subscribers, WaitFor(s) PROVE TypeOK'
  BY <1>8, BusAssumption DEF WaitFor, Enrol
<1>9. ASSUME NEW s \in Subscribers, WaitReturns(s) \/ WaitTimesOut(s) PROVE TypeOK'
  <2>1. StopWaiting(s)
    BY <1>9 DEF WaitReturns, WaitTimesOut
  <2> QED  BY <2>1 DEF StopWaiting, Cancel
<1>10. ASSUME NEW e \in Events, Publish(e) PROVE TypeOK'
  BY <1>10, BusAssumption DEF Publish, Record, Events
<1>11. ASSUME NEW e \in Events, NEW s \in Subscribers, Skip(e, s) PROVE TypeOK'
  BY <1>11 DEF Skip
<1>12. ASSUME NEW e \in Events, NEW s \in Subscribers, Buffer(e, s) PROVE TypeOK'
  <2>1. Append(buffer[s], e) \in Seq(Events) /\ Len(Append(buffer[s], e)) = Len(buffer[s]) + 1
    OBVIOUS
  <2>2. /\ buffer' \in [Subscribers -> Seq(Events)]
        /\ \A r \in Subscribers : Len(buffer'[r]) <= BufferSize
    BY <1>12, <2>1, BusAssumption DEF Buffer
  <2>3. toMatch' \in [Events -> SUBSET Subscribers]
    BY <1>12 DEF Buffer, Wanted
  <2> QED  BY <1>12, <2>2, <2>3 DEF Buffer
<1>13. ASSUME NEW e \in Events, NEW s \in Subscribers, BufferOverflows(e, s) PROVE TypeOK'
  BY <1>13 DEF BufferOverflows, Wanted, Cancel
<1>14. ASSUME NEW e \in Events, NEW s \in Subscribers, Match(e, s) PROVE TypeOK'
  BY <1>14 DEF Match, Wanted
<1>15. ASSUME NEW e \in Events, NEW s \in Subscribers, Deliver(e, s) PROVE TypeOK'
  <2>1. seen' \in [Subscribers -> Seq(Events)]
    <3>1. Append(seen[s], e) \in Seq(Events)
      OBVIOUS
    <3> QED  BY <1>15, <3>1 DEF Deliver, Claim
  <2>2. remaining' \in [Subscribers -> Nat]
    BY <1>15 DEF Deliver, Claim, Claims
  <2>3. registered' \subseteq Subscribers /\ active' \subseteq Subscribers \cup Timers
    BY <1>15 DEF Deliver, Claim, Cancel
  <2>4. matched' \in [Events -> SUBSET Subscribers] /\ calls' \in [Events -> SUBSET Subscribers]
    BY <1>15 DEF Deliver, TakesTurn
  <2> QED  BY <1>15, <2>1, <2>2, <2>3, <2>4 DEF Deliver
<1>16. ASSUME NEW e \in Events, NEW s \in Subscribers, DeliverNothing(e, s) PROVE TypeOK'
  BY <1>16 DEF DeliverNothing, TakesTurn, Claims
<1>17. ASSUME NEW e \in Events, NEW s \in Subscribers, CallbackEnds(e, s) PROVE TypeOK'
  BY <1>17 DEF CallbackEnds
<1>18. ASSUME NEW t \in Timers, Schedule(t) PROVE TypeOK'
  BY <1>18 DEF Schedule, TimerGoes, Others
<1>19. ASSUME NEW t \in Timers, StartTimer(t) PROVE TypeOK'
  BY <1>19 DEF StartTimer, TimerGoes, Others
<1>20. ASSUME NEW t \in Timers, TimerChecks(t) PROVE TypeOK'
  BY <1>20 DEF TimerChecks, TimerGoes, Others
<1>21. ASSUME NEW t \in Timers, TimerPublishes(t) PROVE TypeOK'
  <2>1. PICK e \in Events : Record(e) /\ emits' = [emits EXCEPT ![t] = e]
    BY <1>21 DEF TimerPublishes
  <2>2. published' \in 0..MaxEvents
    BY <2>1, BusAssumption DEF Record, Events
  <2> QED  BY <1>21, <2>1, <2>2 DEF TimerPublishes, TimerGoes, Record
<1>22. ASSUME NEW t \in Timers, TimerRejected(t) PROVE TypeOK'
  BY <1>22 DEF TimerRejected, TimerGoes, Others
<1>23. ASSUME NEW t \in Timers, TimerPublished(t) PROVE TypeOK'
  BY <1>23 DEF TimerPublished, TimerGoes, Others
<1>24. ASSUME NEW t \in Timers, TimerWakes(t) PROVE TypeOK'
  BY <1>24 DEF TimerWakes, TimerGoes, Others
<1>25. ASSUME NEW t \in Timers, TimerStopped(t) PROVE TypeOK'
  BY <1>25 DEF TimerStopped, TimerGoes, Others
<1>26. ASSUME NEW t \in Timers, TimerEnds(t) PROVE TypeOK'
  BY <1>26 DEF TimerEnds, TimerGoes, Others
<1>27. ASSUME NEW t \in Timers, CancelTimer(t) PROVE TypeOK'
  BY <1>27 DEF CancelTimer, Others
<1>28. ASSUME NEW c \in Closers, Clear(c) PROVE TypeOK'
  BY <1>28 DEF Clear
<1>29. ASSUME NEW c \in Closers, Close(c) PROVE TypeOK'
  BY <1>29 DEF Close
<1>30. ASSUME NEW c \in Closers, \E x \in Subscribers \cup Timers : Deactivate(c, x) PROVE TypeOK'
  BY <1>30 DEF Deactivate
<1>31. ASSUME NEW c \in Closers, ClearReturns(c) PROVE TypeOK'
  BY <1>31 DEF ClearReturns
<1>32. ASSUME NEW c \in Closers, CloseReturns(c) \/ CloseTimesOut(c) PROVE TypeOK'
  BY <1>32 DEF CloseReturns, CloseTimesOut, LeaveClose
<1>33. CASE UNCHANGED vars
  BY <1>33 DEF vars
<1> QED
  BY <1>1, <1>2, <1>3, <1>4, <1>5, <1>6, <1>7, <1>8, <1>9, <1>10, <1>11, <1>12, <1>13, <1>14, <1>15,
     <1>16, <1>17, <1>18, <1>19, <1>20, <1>21, <1>22, <1>23, <1>24, <1>25, <1>26, <1>27, <1>28, <1>29, <1>30,
     <1>31, <1>32, <1>33
  DEF Next, Replay, Proceed, TimerRuns, Finish

\* A subscriber whose events only become fewer stays in line.
LEMMA LineKept ==
  ASSUME NEW r \in Subscribers, Line(r), before' = before,
         seen'[r] = seen[r], batch'[r] = batch[r], buffer'[r] = buffer[r],
         past'[r] \subseteq past[r],
         \A e \in Events :
           /\ r \in toMatch'[e] => r \notin matched'[e]
           /\ r \in toMatch'[e] \cup matched'[e] => r \in toMatch[e] \cup matched[e]
  PROVE  Line(r)'
BY DEF Line, Ahead, Seen, Buffered

\* And it keeps its numbers.
LEMMA NumbersKept ==
  ASSUME NEW r \in Subscribers, Numbers(r), boundary'[r] = boundary[r],
         published' = published,
         seen'[r] = seen[r], batch'[r] = batch[r], buffer'[r] = buffer[r],
         past'[r] \subseteq past[r],
         \A e \in Events : r \in toMatch'[e] \cup matched'[e] => r \in toMatch[e] \cup matched[e]
  PROVE  Numbers(r)'
BY DEF Numbers, Seen, Buffered

\* subscribe() and wait_for() begin with nothing.
LEMMA EnrolStep ==
  ASSUME IInv, TypeOK', ~closed,
         NEW s \in Subscribers, NEW times \in Nat, NEW k \in Nat, NEW next,
         Enrol(s, times, k, next), next \in {"replay", "done", "wait", "failed"},
         next \in {"replay", "failed"} <=> (k > 0 /\ HistorySize > 0)
  PROVE  Parts'
<1> USE DEF IInv, Parts, TypeOK, subs, pubs, timers, closes, elsewhere
<1>1. /\ s \notin registered \cup active \cup replaying \cup limited
      /\ seen[s] = <<>> /\ past[s] = {} /\ batch[s] = <<>> /\ buffer[s] = <<>>
      /\ \A c \in Closers : s \notin toStop[c]
      /\ \A e \in Events : s \notin toMatch[e] \cup matched[e]
  BY DEF Enrol, EntryOK, Entry
<1>2. /\ UNCHANGED <<closed, published, batch, buffer, toMatch, matched, calls, pc, toStop, seen, before>>
      /\ registered' = registered \cup {s} /\ active' = active \cup {s}
      /\ place'[s] = next /\ boundary'[s] = published /\ remaining'[s] = times
      /\ limited' = IF times = 0 THEN limited ELSE limited \cup {s}
      /\ replaying' = IF next \in {"replay", "failed"} THEN replaying \cup {s} ELSE replaying
      /\ \A r \in Subscribers \ {s} : /\ place'[r] = place[r] /\ past'[r] = past[r]
                                      /\ boundary'[r] = boundary[r] /\ remaining'[r] = remaining[r]
  BY DEF Enrol
<1>3. /\ \A e \in past'[s] : e \in Events /\ e <= published
      /\ past'[s] # {} => next = "replay"
  <2>1. past'[s] = IF next = "replay" THEN Replayed(s, k) ELSE {}
    BY DEF Enrol
  <2>2. \A e \in Replayed(s, k) : e \in Events /\ e <= published /\ e + HistorySize > published
    BY DEF Replayed, Recent
  <2>3. HistorySize = 0 => Replayed(s, k) = {}
    <3> SUFFICES ASSUME HistorySize = 0, NEW e \in Replayed(s, k) PROVE FALSE
      OBVIOUS
    <3>1. e \in Nat /\ published \in Nat
      BY <2>2 DEF Events, TypeOK
    <3> QED  BY <2>2, <3>1
  <2> QED  BY <2>1, <2>2, <2>3, BusAssumption
<1>4. EntryOK'
  BY <1>1, <1>2, <1>3 DEF EntryOK, Entry
<1>5. RegistryOK'
  BY <1>1, <1>2 DEF RegistryOK
<1>6. NumbersOK'
  <2>1. Numbers(s)'
    BY <1>1, <1>2, <1>3, EmptyRange DEF Numbers, Seen, Buffered
  <2>2. \A r \in Subscribers \ {s} : Numbers(r)'
    BY <1>2, NumbersKept DEF NumbersOK
  <2> QED  BY <1>2, <2>1, <2>2 DEF NumbersOK
<1>7. BeforeOK'
  BY <1>2 DEF BeforeOK, Done
<1>8. LineOK'
  <2>1. Line(s)'
    BY <1>1, <1>2, EmptyRange, EmptyInLine DEF Line, Ahead, Seen, Buffered
  <2>2. \A r \in Subscribers \ {s} : Line(r)'
    BY <1>2, LineKept DEF LineOK, Line
  <2> QED  BY <2>1, <2>2 DEF LineOK
<1>9. PastFirst'
  <2> SUFFICES ASSUME NEW r \in Subscribers PROVE HistoryFirst(r)'
    BY DEF PastFirst
  <2>1. CASE r = s
    BY <1>1, <1>2, <2>1, EmptyRange DEF HistoryFirst, Seen
  <2>2. CASE r # s
    BY <1>2, <2>2 DEF PastFirst, HistoryFirst, Seen
  <2> QED  BY <2>1, <2>2
<1>10. NoneLost'
  <2> SUFFICES ASSUME NEW r \in registered', NEW e \in Matches[r],
                      boundary'[r] < e, e <= published
               PROVE  \/ e \in Seen(r)
                      \/ r \in toMatch[e] \cup matched[e]
                      \/ place'[r] \in {"replay", "callback", "failed"} /\ e \in Buffered(r)
    BY <1>2 DEF NoneLost, Seen, Buffered
  <2>1. r # s
    <3>1. e \in Nat /\ published \in Nat
      BY BusAssumption DEF Events
    <3> QED  BY <1>2, <3>1
  <2> QED  BY <1>2, <2>1 DEF NoneLost
<1> QED  BY <1>4, <1>5, <1>6, <1>7, <1>8, <1>9, <1>10

\* A publication is owed to those registered at the time, and comes after all
\* that are complete.
LEMMA RecordStep ==
  ASSUME IInv, TypeOK', NEW e \in Events, Record(e),
         UNCHANGED <<closed, active, subs, matched, calls, seen, boundary, toStop, pc>>
  PROVE  Parts'
<1> USE DEF IInv, Parts, TypeOK, subs, elsewhere
<1>1. /\ e = published + 1 /\ published' = e
      /\ toMatch'[e] = registered /\ matched'[e] = {} /\ before'[e] = {f \in Events : Done(f)}
      /\ \A f \in Events \ {e} : toMatch'[f] = toMatch[f] /\ before'[f] = before[f]
  BY DEF Record, NumbersOK
<1>2. \A f \in Events : (f <= published => f # e /\ f <= published') /\ (Done(f) => Done(f)')
  BY <1>1 DEF Done, Events
<1>3. EntryOK'
  BY <1>1 DEF EntryOK, Entry
<1>4. RegistryOK'
  BY DEF RegistryOK
<1>5. NumbersOK'
  <2>1. ASSUME NEW s \in Subscribers PROVE Numbers(s)'
    <3>1. Numbers(s)
      BY DEF NumbersOK
    <3>2. Seen(s) \subseteq Events /\ Buffered(s) \subseteq Events
      BY DEF Seen, Buffered, Range
    <3>3. \A f \in Seen(s) \cup Buffered(s) : f <= published'
      BY <1>2, <3>1, <3>2 DEF Numbers
    <3>4. boundary[s] <= published' /\ boundary[s] < e
      BY <1>1, <3>1, BusAssumption DEF Numbers, Events
    <3> QED  BY <1>1, <3>1, <3>3, <3>4 DEF Numbers, Seen, Buffered
  <2>2. \A f \in Events : f > published' => toMatch'[f] = {} /\ matched'[f] = {}
    BY <1>1 DEF NumbersOK, Events
  <2> QED  BY <2>1, <2>2 DEF NumbersOK
<1>6. BeforeOK'
  <2> SUFFICES ASSUME NEW x \in Events, NEW f \in before'[x] PROVE f < x /\ Done(f)'
    BY DEF BeforeOK
  <2>1. CASE x = e
    <3>1. f \in Events /\ Done(f)
      BY <1>1, <2>1
    <3>2. f < e
      BY <1>1, <3>1 DEF Done, Events
    <3> QED  BY <1>2, <2>1, <3>1, <3>2
  <2>2. CASE x # e
    <3>1. f \in before[x] /\ f \in Events
      BY <1>1, <2>2
    <3> QED  BY <1>2, <3>1 DEF BeforeOK
  <2> QED  BY <2>1, <2>2
<1>7. LineOK'
  <2> SUFFICES ASSUME NEW s \in Subscribers PROVE Line(s)'
    BY DEF LineOK
  <2>1. Line(s) /\ Numbers(s)
    BY DEF LineOK, NumbersOK
  <2>2. Seen(s) \subseteq Events /\ Range(batch[s]) \subseteq Events /\ Range(buffer[s]) \subseteq Events
    BY DEF Seen, Range
  <2>3. \A f \in Seen(s) \cup Buffered(s) : f \in Events /\ f # e
    BY <1>1, <2>1, <2>2 DEF Numbers, Buffered, Events
  <2>4. \A f \in Seen(s) \cup Buffered(s) : before'[f] = before[f]
    BY <1>1, <2>3
  <2>5. InLine(seen[s], before') /\ InLine(batch[s], before') /\ InLine(buffer[s], before')
    <3>1. \A q \in {seen[s], batch[s], buffer[s]} :
            /\ q \in Seq(Events) /\ InLine(q, before)
            /\ \A f \in Range(q) : before'[f] = before[f]
      BY <2>1, <2>4 DEF Line, Seen, Buffered
    <3>2. \A q \in {seen[s], batch[s], buffer[s]} : InLine(q, before')
      BY <3>1, SameLine
    <3> QED  BY <3>2
  <2>6. /\ Ahead(Seen(s), past[s] \cup Buffered(s), before')
        /\ Ahead(Range(batch[s]), Range(buffer[s]), before')
    BY <2>1, <2>4 DEF Line, Ahead, Buffered
  <2>7. \A f \in Events :
          /\ s \in toMatch'[f] => s \notin matched[f]
          /\ s \in toMatch'[f] \cup matched[f] => f \notin Seen(s) \cup Buffered(s)
    BY <1>1, <2>1, <2>3 DEF Line
  <2> QED  BY <2>5, <2>6, <2>7 DEF Line, Seen, Buffered
<1>8. PastFirst'
  BY DEF PastFirst, HistoryFirst, Seen
<1>9. NoneLost'
  <2> SUFFICES ASSUME NEW s \in registered, NEW f \in Matches[s], boundary[s] < f, f <= e
               PROVE  \/ f \in Seen(s)
                      \/ s \in toMatch'[f] \cup matched[f]
                      \/ place[s] \in {"replay", "callback", "failed"} /\ f \in Buffered(s)
    BY <1>1 DEF NoneLost, Seen, Buffered
  <2>1. f \in Events
    BY BusAssumption
  <2>2. CASE f = e
    BY <1>1, <2>2
  <2>3. CASE f # e
    <3>1. f <= published
      BY <1>1, <2>1, <2>3 DEF Events
    <3> QED  BY <1>1, <2>1, <2>3, <3>1 DEF NoneLost
  <2> QED  BY <2>2, <2>3
<1> QED  BY <1>3, <1>4, <1>5, <1>6, <1>7, <1>8, <1>9

\* What a publication owes to a subscriber comes after all that it has or waits for.
LEMMA Latest ==
  ASSUME IInv, NEW e \in Events, NEW s \in Subscribers, s \in toMatch[e] \cup matched[e]
  PROVE  /\ e <= published /\ boundary[s] < e
         /\ e \notin Seen(s) \cup Buffered(s)
         /\ \A X \in SUBSET Events : e \notin X => Ahead(X, {e}, before)
<1> USE DEF IInv, Parts, TypeOK
<1>1. Numbers(s) /\ Line(s) /\ (e > published => toMatch[e] = {} /\ matched[e] = {})
  BY DEF NumbersOK, LineOK
<1>2. e <= published
  BY <1>1, BusAssumption DEF Events
<1>3. \A x \in Events : e \notin before[x]
  BY DEF BeforeOK, Done
<1> QED  BY <1>1, <1>2, <1>3 DEF Numbers, Line, Ahead

\* subscribe() replays one event.
LEMMA ReplayOneStep ==
  ASSUME IInv, TypeOK', NEW e \in Events, NEW s \in Subscribers, ReplayOne(s, e)
  PROVE  Parts'
<1> USE DEF IInv, Parts, TypeOK, subs, pubs, closes, elsewhere
<1>1. /\ place[s] = "replay" /\ s \in replaying /\ Claims(s)
      /\ \A f \in Events : s \notin matched[f]
      /\ Line(s) /\ Numbers(s)
  BY DEF ReplayOne, Claim, EntryOK, Entry, LineOK, NumbersOK
<1>2. /\ UNCHANGED <<closed, published, replaying, limited, buffer, toMatch, matched, calls,
                     pc, toStop, boundary, before>>
      /\ seen'[s] = Append(seen[s], e) /\ place'[s] = "callback"
      /\ \A r \in Subscribers \ {s} :
           /\ seen'[r] = seen[r] /\ place'[r] = place[r] /\ remaining'[r] = remaining[r]
           /\ past'[r] = past[r] /\ batch'[r] = batch[r]
  <2>1. \A r \in Subscribers \ {s} : past'[r] = past[r] /\ batch'[r] = batch[r]
    <3>1. CASE past[s] # {}
      BY <3>1 DEF ReplayOne
    <3>2. CASE past[s] = {}
      BY <3>2 DEF ReplayOne
    <3> QED  BY <3>1, <3>2
  <2>2. /\ seen' = [seen EXCEPT ![s] = Append(@, e)]
        /\ place' = [place EXCEPT ![s] = "callback"]
        /\ \A r \in Subscribers \ {s} : remaining'[r] = remaining[r]
    BY DEF ReplayOne, Claim
  <2>3. UNCHANGED <<closed, published, replaying, limited, buffer, toMatch, matched, calls,
                    pc, toStop, boundary, before>>
    BY DEF ReplayOne
  <2> QED  BY <2>1, <2>2, <2>3
<1>3. /\ \/ active' = active /\ registered' = registered
         \/ active' = active \ {s} /\ registered' = registered \ {s}
      /\ s \in active' /\ s \in limited => remaining'[s] > 0
  <2>1. CASE s \in limited /\ remaining[s] = 1
    BY <2>1 DEF ReplayOne, Claim, Cancel
  <2>2. CASE ~(s \in limited /\ remaining[s] = 1)
    <3>1. active' = active \ {} /\ registered' = registered \ {}
      BY <2>2 DEF ReplayOne, Claim, Cancel
    <3>2. active' = active /\ registered' = registered
      BY <3>1
    <3>3. s \in limited => remaining'[s] = remaining[s] - 1 /\ remaining[s] > 0 /\ remaining[s] \in Nat
      BY DEF ReplayOne, Claim, Claims
    <3>4. s \in limited => remaining'[s] > 0
      <4> HIDE DEF IInv, TypeOK
      <4> QED  BY <2>2, <3>3
    <3> QED  BY <3>2, <3>4
  <2> QED  BY <2>1, <2>2
<1>4. \/ /\ past[s] # {} /\ batch[s] = <<>> /\ batch'[s] = <<>>
         /\ e \in past[s] /\ \A f \in past[s] : e <= f
         /\ past'[s] = past[s] \ {e}
      \/ /\ past[s] = {} /\ past'[s] = {}
         /\ batch[s] # <<>> /\ e = Head(batch[s]) /\ batch'[s] = Tail(batch[s])
  <2>1. CASE past[s] # {}
    <3>1. batch[s] = <<>>
      BY <2>1 DEF EntryOK, Entry
    <3>2. /\ e \in past[s] /\ \A f \in past[s] : e <= f
          /\ past' = [past EXCEPT ![s] = @ \ {e}] /\ batch' = batch
      BY <2>1 DEF ReplayOne, NextToReplay
    <3> QED  BY <2>1, <3>1, <3>2
  <2>2. CASE past[s] = {}
    <3>1. /\ batch[s] # <<>> /\ e = Head(batch[s])
          /\ batch' = [batch EXCEPT ![s] = Tail(@)] /\ past' = past
      BY <2>2 DEF ReplayOne, NextToReplay
    <3> QED  BY <2>2, <3>1
  <2> QED  BY <2>1, <2>2
<1>5. /\ Range(batch[s]) \subseteq Range(batch'[s]) \cup {e}
      /\ Range(batch'[s]) \subseteq Range(batch[s])
      /\ InLine(batch'[s], before) /\ Ahead({e}, Range(batch'[s]), before)
      /\ past[s] = {} => e \in Range(batch[s])
  <2>1. CASE past[s] # {}
    BY <1>4, <2>1, EmptyRange, EmptyInLine DEF Ahead
  <2>2. CASE past[s] = {}
    <3>1. batch[s] \in Seq(Events) /\ InLine(batch[s], before)
      BY <1>1 DEF Line
    <3>2. Range(batch[s]) = {e} \cup Range(batch'[s])
      BY <1>4, <2>2, <3>1, TailRange
    <3>3. InLine(Tail(batch[s]), before) /\ Ahead({Head(batch[s])}, Range(Tail(batch[s])), before)
      BY <1>4, <2>2, <3>1, TailInLine
    <3> QED  BY <1>4, <2>2, <3>2, <3>3
  <2> QED  BY <2>1, <2>2
<1>6. /\ Seen(s)' = Seen(s) \cup {e}
      /\ Seen(s) \in SUBSET Events /\ past[s] \in SUBSET Events
      /\ Range(batch[s]) \in SUBSET Events /\ Range(buffer[s]) \in SUBSET Events
  <2>1. Seen(s)' = Seen(s) \cup {e}
    BY <1>2, AppendRange DEF Seen
  <2>2. \A q \in Seq(Events) : Range(q) \in SUBSET Events
    BY DEF Range
  <2> QED  BY <2>1, <2>2 DEF Seen
<1>20. /\ e <= published
       /\ past[s] # {} => e \in past[s] /\ e <= boundary[s]
       /\ past[s] = {} => e \in Range(batch[s]) /\ boundary[s] < e
       /\ past[s] # {} => \A y \in Range(buffer[s]) : e < y
  <2>1. CASE past[s] # {}
    <3>1. e \in past[s] /\ e <= boundary[s] /\ boundary[s] <= published
      BY <1>1, <1>4, <2>1 DEF Numbers
    <3>2. e \in Nat /\ boundary[s] \in Nat /\ published \in Nat
      BY <1>6, <3>1 DEF Events, TypeOK
    <3>3. \A y \in Range(buffer[s]) : boundary[s] < y /\ y \in Nat
      BY <1>1, <1>6 DEF Numbers, Buffered, Events
    <3> QED  BY <2>1, <3>1, <3>2, <3>3
  <2>2. CASE past[s] = {}
    BY <1>1, <1>5, <2>2 DEF Numbers, Buffered
  <2> QED  BY <2>1, <2>2
<1>7. Ahead({e}, past'[s] \cup Range(buffer[s]), before)
  <2>1. \A y \in past'[s] : e # y /\ y \notin before[e]
    BY <1>4, <1>6 DEF BeforeOK, Events
  <2>2. \A y \in Range(buffer[s]) : e # y /\ y \notin before[e]
    <3>1. CASE past[s] # {}
      <4>1. \A y \in Range(buffer[s]) : e < y
        BY <1>20, <3>1
      <4> QED  BY <1>6, <4>1 DEF BeforeOK, Events
    <3>2. CASE past[s] = {}
      BY <1>1, <1>5, <3>2 DEF Line, Ahead
    <3> QED  BY <3>1, <3>2
  <2> QED  BY <2>1, <2>2 DEF Ahead
<1>8. EntryOK'
  <2>1. past'[s] # {} => batch'[s] = <<>>
    BY <1>4
  <2> SUFFICES ASSUME NEW r \in Subscribers PROVE Entry(r)'
    BY DEF EntryOK
  <2>2. CASE r = s
    BY <1>1, <1>2, <1>3, <2>1, <2>2 DEF Entry
  <2>3. CASE r # s
    BY <1>2, <1>3, <2>3 DEF EntryOK, Entry
  <2> QED  BY <2>2, <2>3
<1>9. RegistryOK'
  BY <1>2, <1>3 DEF RegistryOK
<1>10. NumbersOK'
  <2>1. Numbers(s)'
    <3>1. past'[s] \subseteq past[s]
      BY <1>4
    <3> QED  BY <1>1, <1>2, <1>5, <1>6, <1>20, <3>1 DEF Numbers, Seen, Buffered
  <2>2. \A r \in Subscribers \ {s} : Numbers(r)'
    BY <1>2, NumbersKept DEF NumbersOK
  <2> QED  BY <1>2, <2>1, <2>2 DEF NumbersOK
<1>11. BeforeOK'
  BY <1>2 DEF BeforeOK, Done
<1>12. LineOK'
  <2>1. InLine(seen'[s], before)
    <3>1. Ahead(Range(seen[s]), {e}, before)
      BY <1>1, <1>4, <1>5 DEF Line, Ahead, Seen, Buffered
    <3> QED  BY <1>1, <1>2, <3>1, AppendInLine DEF Line
  <2>2. Ahead(Seen(s)', past'[s] \cup Buffered(s)', before)
    BY <1>1, <1>2, <1>4, <1>5, <1>6, <1>7 DEF Line, Ahead, Buffered
  <2>3. Ahead(Range(batch'[s]), Range(buffer[s]), before)
    BY <1>1, <1>5 DEF Line, Ahead
  <2>4. \A f \in Events : s \in toMatch[f] \cup matched[f] => f \notin Seen(s)' \cup Buffered(s)'
    <3> SUFFICES ASSUME NEW f \in Events, s \in toMatch[f] \cup matched[f]
                 PROVE  f \notin Seen(s)' \cup Buffered(s)'
      OBVIOUS
    <3>1. f \notin Seen(s) \cup Buffered(s) /\ boundary[s] < f
      BY Latest
    <3>2. f # e
      <4>1. CASE past[s] # {}
        <5>1. e \in Nat /\ boundary[s] \in Nat /\ e <= boundary[s]
          BY <1>6, <1>20, <4>1 DEF Events, TypeOK
        <5> QED  BY <3>1, <5>1
      <4>2. CASE past[s] = {}
        <5>1. e \in Buffered(s)
          BY <1>20, <4>2 DEF Buffered
        <5> QED  BY <3>1, <5>1
      <4> QED  BY <4>1, <4>2
    <3> QED  BY <1>2, <1>5, <1>6, <3>1, <3>2 DEF Buffered
  <2>5. Line(s)'
    BY <1>1, <1>2, <1>5, <2>1, <2>2, <2>3, <2>4 DEF Line
  <2>6. \A r \in Subscribers \ {s} : Line(r)'
    BY <1>2, LineKept DEF LineOK, Line
  <2> QED  BY <2>5, <2>6 DEF LineOK
<1>13. PastFirst'
  <2>1. \A r \in Subscribers \ {s} : seen'[r] = seen[r] /\ past'[r] = past[r]
    BY <1>2
  <2>2. \A x \in Seen(s), y \in past[s] : x < y
    BY DEF PastFirst, HistoryFirst
  <2>3. \A x \in Seen(s)', y \in past'[s] : x < y
    <3>1. \A x \in Seen(s)', y \in past'[s] : x = e \/ (x < y)
      BY <1>4, <1>6, <2>2
    <3>2. ASSUME NEW y \in past'[s] PROVE e < y
      <4>1. y \in past[s] /\ y # e /\ e <= y /\ e \in past[s]
        BY <1>4, <3>2
      <4>2. e \in Nat /\ y \in Nat
        BY <1>6, <4>1 DEF Events
      <4> QED  BY <4>1, <4>2
    <3> QED  BY <3>1, <3>2
  <2>4. ASSUME NEW j \in 1..Len(seen'[s]), NEW i \in 1..(j - 1), seen'[s][j] <= boundary[s]
        PROVE  seen'[s][i] < seen'[s][j]
    <3>1. /\ Len(seen[s]) \in Nat /\ Len(seen'[s]) = Len(seen[s]) + 1
          /\ seen'[s][Len(seen[s]) + 1] = e
          /\ \A m \in 1..Len(seen[s]) : seen'[s][m] = seen[s][m] /\ seen[s][m] \in Seen(s)
      BY <1>2 DEF Seen, Range
    <3>5. j = Len(seen[s]) + 1 \/ j \in 1..Len(seen[s])
      <4> HIDE DEF IInv, TypeOK
      <4> QED  BY <3>1
    <3>2. i \in 1..Len(seen[s])
      BY <3>1
    <3>3. CASE j = Len(seen[s]) + 1
      <4>1. e \in past[s]
        <5>1. e \in Nat /\ boundary[s] \in Nat /\ e <= boundary[s]
          BY <1>6, <1>20, <2>4, <3>1, <3>3 DEF Events, TypeOK
        <5> QED  BY <1>20, <5>1
      <4> QED  BY <2>2, <3>1, <3>2, <3>3, <4>1
    <3>4. CASE j \in 1..Len(seen[s])
      BY <2>4, <3>1, <3>2, <3>4 DEF PastFirst, HistoryFirst
    <3> QED  BY <3>3, <3>4, <3>5
  <2> QED  BY <1>2, <2>1, <2>3, <2>4 DEF PastFirst, HistoryFirst, Seen
<1>14. NoneLost'
  <2> SUFFICES ASSUME NEW r \in registered', NEW f \in Matches[r], boundary[r] < f, f <= published
               PROVE  \/ f \in Seen(r)'
                      \/ r \in toMatch[f] \cup matched[f]
                      \/ place'[r] \in {"replay", "callback", "failed"} /\ f \in Buffered(r)'
    BY <1>2 DEF NoneLost
  <2>1. r \in registered /\ \/ f \in Seen(r)
                            \/ r \in toMatch[f] \cup matched[f]
                            \/ place[r] \in {"replay", "callback", "failed"} /\ f \in Buffered(r)
    BY <1>3 DEF NoneLost
  <2>2. CASE r = s
    BY <1>2, <1>5, <1>6, <2>1, <2>2 DEF Buffered
  <2>3. CASE r # s
    BY <1>2, <2>1, <2>3 DEF Seen, Buffered
  <2> QED  BY <2>2, <2>3
<1> QED  BY <1>8, <1>9, <1>10, <1>11, <1>12, <1>13, <1>14

\* Where nothing is added to what a subscriber has, or waits for, its order stays.
LEMMA OrderKept ==
  ASSUME IInv, TypeOK', UNCHANGED <<published, buffer, seen, boundary, before>>,
         \A r \in Subscribers : past'[r] \subseteq past[r] /\ batch'[r] \in {batch[r], <<>>},
         \A f \in Events :
           /\ toMatch'[f] \cup matched'[f] \subseteq toMatch[f] \cup matched[f]
           /\ toMatch'[f] \cap matched'[f] = {}
           /\ calls'[f] \subseteq calls[f]
  PROVE  (NumbersOK /\ BeforeOK /\ LineOK /\ PastFirst)'
<1> USE DEF IInv, Parts
<1>1. ASSUME NEW r \in Subscribers
      PROVE  /\ Range(batch'[r]) \subseteq Range(batch[r])
             /\ InLine(batch[r], before) => InLine(batch'[r], before)
  BY EmptyRange, EmptyInLine
<1>2. NumbersOK'
  <2>1. ASSUME NEW r \in Subscribers PROVE Numbers(r)'
    BY <1>1 DEF NumbersOK, Numbers, Seen, Buffered
  <2> QED  BY <2>1 DEF NumbersOK
<1>3. BeforeOK'
  <2> SUFFICES ASSUME NEW e \in Events, NEW f \in before[e] PROVE f < e /\ Done(f)'
    BY DEF BeforeOK
  <2>1. f \in Events /\ f < e /\ Done(f)
    BY DEF BeforeOK, TypeOK
  <2> QED  BY <2>1 DEF Done
<1>4. LineOK'
  <2>1. ASSUME NEW r \in Subscribers PROVE Line(r)'
    BY <1>1 DEF LineOK, Line, Ahead, Seen, Buffered
  <2> QED  BY <2>1 DEF LineOK
<1>5. PastFirst'
  BY DEF PastFirst, HistoryFirst, Seen
<1> QED  BY <1>2, <1>3, <1>4, <1>5

\* A subscriber matches an event or waits to have it, never both.
LEMMA OneStage == ASSUME IInv, NEW f \in Events PROVE toMatch[f] \cap matched[f] = {}
BY DEF IInv, Parts, TypeOK, LineOK, Line

\* The rest of replay, and the steps that end subscriptions.
LEMMA LeavingSteps ==
  ASSUME IInv, TypeOK', NEW s \in Subscribers,
         \/ ReplayStops(s) \/ ReplayReturns(s) \/ ReplayRaises(s)
         \/ Unsubscribe(s) \/ StopWaiting(s)
  PROVE  Parts'
<1> USE DEF subs, pubs, closes, elsewhere
<1>1. /\ UNCHANGED <<closed, published, replaying, remaining, limited, buffer, toMatch,
                     matched, calls, pc, toStop, seen, boundary, before>>
      /\ \A r \in Subscribers \ {s} : place'[r] = place[r] /\ past'[r] = past[r] /\ batch'[r] = batch[r]
      /\ \/ past'[s] = past[s] /\ batch'[s] = batch[s]
         \/ past'[s] = {} /\ batch'[s] = <<>> /\ ~Claims(s)
      /\ \/ active' = active /\ registered' = registered
         \/ active' = active \ {s} /\ registered' = registered \ {s}
      /\ \/ place'[s] = place[s]
         \/ place[s] \in {"replay", "callback", "failed"} /\ place'[s] \in {"replay", "callback", "failed"}
         \/ place[s] # "none" /\ place'[s] = "done" /\ s \notin active'
  <2> USE DEF IInv, TypeOK
  <2>1. CASE ReplayStops(s)
    BY <2>1 DEF ReplayStops
  <2>2. CASE ReplayReturns(s)
    BY <2>2 DEF ReplayReturns
  <2>3. CASE ReplayRaises(s)
    BY <2>3 DEF ReplayRaises, Cancel
  <2>4. CASE Unsubscribe(s)
    BY <2>4 DEF Unsubscribe, Cancel
  <2>5. CASE StopWaiting(s)
    BY <2>5 DEF StopWaiting, Cancel
  <2> QED  BY <2>1, <2>2, <2>3, <2>4, <2>5
<1> USE DEF IInv, Parts, TypeOK
<1>2. past'[s] # past[s] \/ batch'[s] # batch[s] => s \notin active
  BY <1>1 DEF Claims, EntryOK, Entry
<1>3. EntryOK'
  <2> SUFFICES ASSUME NEW r \in Subscribers PROVE Entry(r)'
    BY DEF EntryOK
  <2>1. Entry(r) /\ (past'[r] # {} => batch'[r] = <<>>)
    BY <1>1 DEF EntryOK, Entry
  <2>2. CASE r = s
    BY <1>1, <2>1, <2>2 DEF Entry
  <2>3. CASE r # s
    BY <1>1, <2>1, <2>3 DEF Entry
  <2> QED  BY <2>2, <2>3
<1>4. RegistryOK'
  BY <1>1 DEF RegistryOK
<1>5. (NumbersOK /\ BeforeOK /\ LineOK /\ PastFirst)'
  <2>1. \A r \in Subscribers : past'[r] \subseteq past[r] /\ batch'[r] \in {batch[r], <<>>}
    BY <1>1
  <2> QED  BY <1>1, <2>1, OneStage, OrderKept
<1>6. NoneLost'
  <2> SUFFICES ASSUME NEW r \in registered', NEW f \in Matches[r], boundary[r] < f, f <= published
               PROVE  \/ f \in Seen(r)
                      \/ r \in toMatch[f] \cup matched[f]
                      \/ place'[r] \in {"replay", "callback", "failed"} /\ f \in Buffered(r)'
    BY <1>1 DEF NoneLost, Seen
  <2>1. r \in registered /\ r \in active'
    BY <1>1 DEF RegistryOK
  <2>2. Buffered(r)' = Buffered(r)
    BY <1>1, <1>2, <2>1 DEF Buffered, RegistryOK
  <2>3. place[r] \in {"replay", "callback", "failed"} => place'[r] \in {"replay", "callback", "failed"}
    BY <1>1, <2>1
  <2>4. \/ f \in Seen(r)
        \/ r \in toMatch[f] \cup matched[f]
        \/ place[r] \in {"replay", "callback", "failed"} /\ f \in Buffered(r)
    <3> HIDE DEF TypeOK
    <3> QED  BY <2>1 DEF NoneLost
  <2> QED  BY <2>2, <2>3, <2>4
<1> QED  BY <1>3, <1>4, <1>5, <1>6

\* finish_replay() takes the buffer over or goes live.
LEMMA FinishReplayStep ==
  ASSUME IInv, TypeOK', NEW s \in Subscribers, FinishReplay(s)
  PROVE  Parts'
<1> USE DEF IInv, Parts, TypeOK, subs, pubs, closes, elsewhere
<1>1. /\ UNCHANGED <<closed, published, active, registered, remaining, limited, past, toMatch,
                     matched, calls, pc, toStop, seen, boundary, before>>
      /\ place[s] = "replay" /\ past[s] = {} /\ batch[s] = <<>>
      /\ batch'[s] = buffer[s] /\ buffer'[s] = <<>>
      /\ \/ replaying' = replaying /\ place' = place
         \/ replaying' = replaying \ {s} /\ place'[s] = "done" /\ buffer[s] = <<>>
      /\ \A r \in Subscribers \ {s} :
           place'[r] = place[r] /\ batch'[r] = batch[r] /\ buffer'[r] = buffer[r]
  <2>1. CASE buffer[s] = <<>>
    BY <2>1 DEF FinishReplay, ReplayedAll
  <2>2. CASE buffer[s] # <<>>
    BY <2>2 DEF FinishReplay, ReplayedAll
  <2> QED  BY <2>1, <2>2
<1>2. ASSUME NEW r \in Subscribers PROVE Buffered(r)' = Buffered(r)
  <2>1. CASE r = s
    BY <1>1, <2>1, EmptyRange DEF Buffered
  <2>2. CASE r # s
    BY <1>1, <2>2 DEF Buffered
  <2> QED  BY <2>1, <2>2
<1>3. EntryOK'
  <2> SUFFICES ASSUME NEW r \in Subscribers PROVE Entry(r)'
    BY DEF EntryOK
  <2>1. CASE r = s
    BY <1>1, <2>1 DEF EntryOK, Entry
  <2>2. CASE r # s
    BY <1>1, <2>2 DEF EntryOK, Entry
  <2> QED  BY <2>1, <2>2
<1>4. RegistryOK'
  BY <1>1 DEF RegistryOK
<1>5. NumbersOK'
  BY <1>1, <1>2 DEF NumbersOK, Numbers, Seen
<1>6. BeforeOK'
  BY <1>1 DEF BeforeOK, Done
<1>7. LineOK'
  <2> SUFFICES ASSUME NEW r \in Subscribers PROVE Line(r)'
    BY DEF LineOK
  <2>1. CASE r = s
    BY <1>1, <1>2, <2>1, EmptyRange, EmptyInLine DEF LineOK, Line, Ahead, Seen
  <2>2. CASE r # s
    BY <1>1, <1>2, <2>2 DEF LineOK, Line, Seen
  <2> QED  BY <2>1, <2>2
<1>8. PastFirst'
  BY <1>1 DEF PastFirst, HistoryFirst, Seen
<1>9. NoneLost'
  <2> SUFFICES ASSUME NEW r \in registered, NEW f \in Matches[r], boundary[r] < f, f <= published
               PROVE  \/ f \in Seen(r)
                      \/ r \in toMatch[f] \cup matched[f]
                      \/ place'[r] \in {"replay", "callback", "failed"} /\ f \in Buffered(r)
    BY <1>1, <1>2 DEF NoneLost, Seen
  <2>1. CASE place'[r] = place[r]
    BY <2>1 DEF NoneLost
  <2>2. CASE place'[r] # place[r]
    <3>1. Buffered(r) = {}
      BY <1>1, <2>2, EmptyRange DEF Buffered
    <3> QED  BY <3>1 DEF NoneLost
  <2> QED  BY <2>1, <2>2
<1> QED  BY <1>3, <1>4, <1>5, <1>6, <1>7, <1>8, <1>9

\* The steps of publish() that deliver nothing.
LEMMA MatchingSteps ==
  ASSUME IInv, TypeOK', NEW e \in Events, NEW s \in Subscribers,
         Skip(e, s) \/ BufferOverflows(e, s) \/ Match(e, s) \/ DeliverNothing(e, s)
  PROVE  Parts'
<1> USE DEF subs, pubs, closes, elsewhere
<1>1. /\ UNCHANGED <<closed, published, replaying, remaining, limited, buffer, place, past, batch,
                     calls, pc, toStop, seen, boundary, before>>
      /\ \A f \in Events \ {e} : toMatch'[f] = toMatch[f] /\ matched'[f] = matched[f]
      /\ \/ active' = active /\ registered' = registered
         \/ active' = active \ {s} /\ registered' = registered \ {s}
      /\ \/ /\ toMatch'[e] = toMatch[e] \ {s} /\ matched'[e] = matched[e]
            /\ s \notin active' \/ e \notin Matches[s]
         \/ /\ s \in toMatch[e] /\ s \notin replaying
            /\ toMatch'[e] = toMatch[e] \ {s} /\ matched'[e] = matched[e] \cup {s}
         \/ toMatch'[e] = toMatch[e] /\ matched'[e] = matched[e] \ {s} /\ ~Claims(s)
  <2> USE DEF IInv, TypeOK
  <2>1. CASE Skip(e, s)
    BY <2>1 DEF Skip
  <2>2. CASE BufferOverflows(e, s)
    BY <2>2 DEF BufferOverflows, Wanted, Cancel
  <2>3. CASE Match(e, s)
    BY <2>3 DEF Match, Wanted
  <2>4. CASE DeliverNothing(e, s)
    BY <2>4 DEF DeliverNothing, TakesTurn
  <2> QED  BY <2>1, <2>2, <2>3, <2>4
<1> USE DEF IInv, Parts, TypeOK
<1>2. EntryOK'
  <2> SUFFICES ASSUME NEW r \in Subscribers PROVE Entry(r)'
    BY DEF EntryOK
  <2>1. Entry(r)
    BY DEF EntryOK
  <2>2. ASSUME NEW f \in Events
        PROVE  /\ r \in toMatch'[f] \cup matched'[f] => r \in toMatch[f] \cup matched[f]
               /\ r \in matched'[f] => r \in matched[f] \/ r \notin replaying
    <3>1. CASE f = e
      BY <1>1, <3>1
    <3>2. CASE f # e
      BY <1>1, <3>2
    <3> QED  BY <3>1, <3>2
  <2> QED  BY <1>1, <2>1, <2>2 DEF Entry
<1>3. RegistryOK'
  BY <1>1 DEF RegistryOK
<1>4. (NumbersOK /\ BeforeOK /\ LineOK /\ PastFirst)'
  <2>1. ASSUME NEW f \in Events
        PROVE  /\ toMatch'[f] \cup matched'[f] \subseteq toMatch[f] \cup matched[f]
               /\ toMatch'[f] \cap matched'[f] = {}
    <3>1. toMatch[f] \cap matched[f] = {}
      BY OneStage
    <3>2. CASE f = e
      BY <1>1, <3>1, <3>2
    <3>3. CASE f # e
      BY <1>1, <3>1, <3>3
    <3> QED  BY <3>2, <3>3
  <2> QED  BY <1>1, <2>1, OrderKept
<1>5. NoneLost'
  <2> SUFFICES ASSUME NEW r \in registered', NEW f \in Matches[r], boundary[r] < f, f <= published,
                      f \notin Seen(r), ~(place[r] \in {"replay", "callback", "failed"} /\ f \in Buffered(r))
               PROVE  r \in toMatch'[f] \cup matched'[f]
    BY <1>1 DEF NoneLost, Seen, Buffered
  <2>1. r \in registered /\ r \in active' /\ f \in Events /\ r \in toMatch[f] \cup matched[f]
    BY <1>1, BusAssumption DEF RegistryOK, NoneLost
  <2>2. r \in active => Claims(r)
    BY <2>1 DEF Claims, EntryOK, Entry
  <2>3. r \in active
    BY <2>1 DEF RegistryOK
  <2>4. CASE f = e
    BY <1>1, <2>1, <2>2, <2>3, <2>4
  <2>5. CASE f # e
    BY <1>1, <2>1, <2>5
  <2> QED  BY <2>4, <2>5
<1> QED  BY <1>2, <1>3, <1>4, <1>5

\* publish() gives an event to a subscriber that is replaying.
LEMMA BufferStep ==
  ASSUME IInv, TypeOK', NEW e \in Events, NEW s \in Subscribers, Buffer(e, s)
  PROVE  Parts'
<1> USE DEF IInv, Parts, TypeOK, pubs, closes, elsewhere
<1>1. /\ UNCHANGED <<closed, published, active, registered, replaying, remaining, limited, place, past,
                     batch, matched, calls, pc, toStop, seen, boundary, before>>
      /\ s \in toMatch[e] /\ s \in active /\ s \in replaying
      /\ toMatch'[e] = toMatch[e] \ {s} /\ \A f \in Events \ {e} : toMatch'[f] = toMatch[f]
      /\ buffer'[s] = Append(buffer[s], e) /\ \A r \in Subscribers \ {s} : buffer'[r] = buffer[r]
  BY DEF Buffer, Wanted
<1>2. Range(buffer'[s]) = Range(buffer[s]) \cup {e}
  BY <1>1, AppendRange
<1>3. /\ e <= published /\ boundary[s] < e
      /\ e \notin Seen(s) \cup Buffered(s)
      /\ \A X \in SUBSET Events : e \notin X => Ahead(X, {e}, before)
  BY <1>1, Latest
<1>4. \A f \in Events : toMatch'[f] \subseteq toMatch[f]
  BY <1>1
<1>5. EntryOK'
  <2> SUFFICES ASSUME NEW r \in Subscribers PROVE Entry(r)'
    BY DEF EntryOK
  <2>1. CASE r = s
    BY <1>1, <1>4, <2>1 DEF EntryOK, Entry
  <2>2. CASE r # s
    BY <1>1, <1>4, <2>2 DEF EntryOK, Entry
  <2> QED  BY <2>1, <2>2
<1>6. RegistryOK'
  BY <1>1 DEF RegistryOK
<1>7. NumbersOK'
  <2>1. Numbers(s)'
    BY <1>1, <1>2, <1>3, <1>4 DEF NumbersOK, Numbers, Seen, Buffered
  <2>2. ASSUME NEW r \in Subscribers \ {s} PROVE Numbers(r)'
    BY <1>1, <1>4, NumbersKept DEF NumbersOK
  <2> QED  BY <1>1, <1>4, <2>1, <2>2 DEF NumbersOK
<1>8. BeforeOK'
  <2> SUFFICES ASSUME NEW x \in Events, NEW f \in before[x] PROVE f < x /\ Done(f)'
    BY <1>1 DEF BeforeOK
  <2>1. f \in Events /\ f < x /\ Done(f)
    BY DEF BeforeOK
  <2> QED  BY <1>1, <1>4, <2>1 DEF Done
<1>9. LineOK'
  <2>1. Line(s) /\ Seen(s) \in SUBSET Events /\ Range(batch[s]) \in SUBSET Events
        /\ Range(buffer[s]) \in SUBSET Events
    BY DEF LineOK, Seen, Range
  <2>2. Ahead(Seen(s), {e}, before) /\ Ahead(Range(batch[s]), {e}, before)
        /\ Ahead(Range(buffer[s]), {e}, before)
    BY <1>3, <2>1 DEF Buffered
  <2>3. InLine(buffer'[s], before)
    BY <1>1, <2>1, <2>2, AppendInLine DEF Line
  <2>4. /\ Ahead(Seen(s), past[s] \cup Buffered(s)', before)
        /\ Ahead(Range(batch[s]), Range(buffer'[s]), before)
    BY <1>1, <1>2, <2>1, <2>2 DEF Line, Ahead, Buffered
  <2>5. ASSUME NEW f \in Events
        PROVE  /\ s \in toMatch'[f] => s \notin matched[f]
               /\ s \in toMatch'[f] \cup matched[f] => f \notin Seen(s) \cup Buffered(s)'
    <3>1. f = e => s \notin toMatch'[f] \cup matched[f]
      BY <1>1, <2>1 DEF Line
    <3> QED  BY <1>1, <1>2, <1>4, <2>1, <3>1 DEF Line, Buffered
  <2>6. Line(s)'
    BY <1>1, <2>1, <2>3, <2>4, <2>5 DEF Line, Seen
  <2>7. ASSUME NEW r \in Subscribers \ {s} PROVE Line(r)'
    BY <1>1, <1>4, LineKept DEF LineOK, Line
  <2> QED  BY <2>6, <2>7 DEF LineOK
<1>10. PastFirst'
  BY <1>1 DEF PastFirst, HistoryFirst, Seen
<1>11. NoneLost'
  <2> SUFFICES ASSUME NEW r \in registered, NEW f \in Matches[r], boundary[r] < f, f <= published
               PROVE  \/ f \in Seen(r)
                      \/ r \in toMatch'[f] \cup matched[f]
                      \/ place[r] \in {"replay", "callback", "failed"} /\ f \in Buffered(r)'
    BY <1>1 DEF NoneLost, Seen
  <2>1. \/ f \in Seen(r)
        \/ r \in toMatch[f] \cup matched[f]
        \/ place[r] \in {"replay", "callback", "failed"} /\ f \in Buffered(r)
    BY DEF NoneLost
  <2>2. Buffered(r) \subseteq Buffered(r)'
    <3>1. CASE r = s
      BY <1>1, <1>2, <3>1 DEF Buffered
    <3>2. CASE r # s
      BY <1>1, <3>2 DEF Buffered
    <3> QED  BY <3>1, <3>2
  <2>3. f \in Events
    BY BusAssumption
  <2>4. CASE r = s /\ f = e
    <3>1. e \in Buffered(s)' /\ place[s] \in {"replay", "callback", "failed"}
      BY <1>1, <1>2 DEF Buffered, EntryOK, Entry
    <3> QED  BY <2>4, <3>1
  <2>5. CASE ~(r = s /\ f = e)
    <3>1. r \in toMatch[f] => r \in toMatch'[f]
      BY <1>1, <2>3, <2>5
    <3> QED  BY <2>1, <2>2, <3>1
  <2> QED  BY <2>4, <2>5
<1> QED  BY <1>5, <1>6, <1>7, <1>8, <1>9, <1>10, <1>11

\* publish() delivers to a subscriber whose replay is over.
LEMMA DeliverStep ==
  ASSUME IInv, TypeOK', NEW e \in Events, NEW s \in Subscribers, Deliver(e, s)
  PROVE  Parts'
<1> USE DEF IInv, Parts, TypeOK, subs, pubs, closes, elsewhere
<1>1. /\ UNCHANGED <<closed, published, replaying, limited, buffer, place, past, batch, toMatch,
                     pc, toStop, boundary, before>>
      /\ s \in matched[e] /\ Claims(s)
      /\ matched'[e] = matched[e] \ {s} /\ \A f \in Events \ {e} : matched'[f] = matched[f]
      /\ seen'[s] = Append(seen[s], e)
      /\ \A r \in Subscribers \ {s} : seen'[r] = seen[r] /\ remaining'[r] = remaining[r]
      /\ toMatch[e] = {} /\ calls'[e] = calls[e] \cup {s} /\ \A f \in Events \ {e} : calls'[f] = calls[f]
  BY DEF Deliver, TakesTurn, Claim
<1>2. /\ \/ active' = active /\ registered' = registered
         \/ active' = active \ {s} /\ registered' = registered \ {s}
      /\ s \in active' /\ s \in limited => remaining'[s] > 0
  <2>1. CASE s \in limited /\ remaining[s] = 1
    BY <2>1 DEF Deliver, Claim, Cancel
  <2>2. CASE ~(s \in limited /\ remaining[s] = 1)
    <3>1. active' = active \ {} /\ registered' = registered \ {}
      BY <2>2 DEF Deliver, Claim, Cancel
    <3>2. active' = active /\ registered' = registered
      BY <3>1
    <3>3. s \in limited => remaining'[s] = remaining[s] - 1 /\ remaining[s] > 0 /\ remaining[s] \in Nat
      BY DEF Deliver, Claim, Claims
    <3>4. s \in limited => remaining'[s] > 0
      <4> HIDE DEF IInv, TypeOK
      <4> QED  BY <2>2, <3>3
    <3> QED  BY <3>2, <3>4
  <2> QED  BY <2>1, <2>2
<1>3. /\ s \notin replaying /\ past[s] = {} /\ Buffered(s) = {} /\ batch[s] = <<>> /\ buffer[s] = <<>>
      /\ place[s] # "none"
  BY <1>1, EmptyRange DEF EntryOK, Entry, Buffered
<1>4. /\ Seen(s)' = Seen(s) \cup {e} /\ Seen(s) \in SUBSET Events
  <2>1. Seen(s)' = Seen(s) \cup {e}
    BY <1>1, AppendRange DEF Seen
  <2>2. \A q \in Seq(Events) : Range(q) \in SUBSET Events
    BY DEF Range
  <2> QED  BY <2>1, <2>2 DEF Seen
<1>5. /\ e <= published /\ boundary[s] < e /\ e \notin Seen(s)
      /\ Ahead(Seen(s), {e}, before)
  BY <1>1, <1>4, Latest
<1>6. \A f \in Events : matched'[f] \subseteq matched[f]
  BY <1>1
<1>7. EntryOK'
  <2> SUFFICES ASSUME NEW r \in Subscribers PROVE Entry(r)'
    BY DEF EntryOK
  <2>1. CASE r = s
    BY <1>1, <1>2, <1>3, <1>6, <2>1 DEF EntryOK, Entry
  <2>2. CASE r # s
    BY <1>1, <1>2, <1>6, <2>2 DEF EntryOK, Entry
  <2> QED  BY <2>1, <2>2
<1>8. RegistryOK'
  BY <1>1, <1>2 DEF RegistryOK
<1>9. NumbersOK'
  <2>1. Numbers(s)'
    BY <1>1, <1>3, <1>4, <1>5, <1>6 DEF NumbersOK, Numbers, Buffered
  <2>2. ASSUME NEW r \in Subscribers \ {s} PROVE Numbers(r)'
    BY <1>1, <1>6, NumbersKept DEF NumbersOK
  <2> QED  BY <1>1, <1>6, <2>1, <2>2 DEF NumbersOK
<1>10. BeforeOK'
  <2> SUFFICES ASSUME NEW x \in Events, NEW f \in before[x] PROVE f < x /\ Done(f)'
    BY <1>1 DEF BeforeOK
  <2>1. f \in Events /\ f < x /\ Done(f)
    BY DEF BeforeOK
  <2>2. f # e
    BY <1>1, <2>1 DEF Done
  <2> QED  BY <1>1, <1>6, <2>1, <2>2 DEF Done
<1>11. LineOK'
  <2>1. Line(s)
    BY DEF LineOK
  <2>2. InLine(seen'[s], before)
    BY <1>1, <1>5, <2>1, AppendInLine DEF Line, Seen
  <2>3. Ahead(Seen(s)', past[s] \cup Buffered(s), before)
    BY <1>3 DEF Ahead
  <2>4. ASSUME NEW f \in Events
        PROVE  /\ s \in toMatch[f] => s \notin matched'[f]
               /\ s \in toMatch[f] \cup matched'[f] => f \notin Seen(s)' \cup Buffered(s)
    <3>1. f = e => s \notin toMatch[f] \cup matched'[f]
      BY <1>1
    <3> QED  BY <1>4, <1>6, <2>1, <3>1 DEF Line
  <2>5. Line(s)'
    BY <1>1, <2>1, <2>2, <2>3, <2>4 DEF Line, Buffered
  <2>6. ASSUME NEW r \in Subscribers \ {s} PROVE Line(r)'
    BY <1>1, <1>6, LineKept DEF LineOK, Line
  <2> QED  BY <2>5, <2>6 DEF LineOK
<1>12. PastFirst'
  <2>1. HistoryFirst(s)'
    <3> SUFFICES ASSUME NEW j \in 1..Len(seen'[s]), NEW i \in 1..(j - 1), seen'[s][j] <= boundary[s]
                 PROVE  seen'[s][i] < seen'[s][j]
      BY <1>1, <1>3 DEF HistoryFirst
    <3>1. /\ Len(seen[s]) \in Nat /\ Len(seen'[s]) = Len(seen[s]) + 1
          /\ seen'[s][Len(seen[s]) + 1] = e
          /\ \A m \in 1..Len(seen[s]) : seen'[s][m] = seen[s][m]
      BY <1>1
    <3>2. j \in 1..Len(seen[s]) \/ j = Len(seen[s]) + 1
      <4> HIDE DEF IInv, TypeOK
      <4> QED  BY <3>1
    <3>3. j # Len(seen[s]) + 1
      BY <1>5, <3>1 DEF Events
    <3>4. i \in 1..Len(seen[s])
      <4> HIDE DEF IInv, TypeOK
      <4> QED  BY <3>1
    <3> QED  BY <3>1, <3>2, <3>3, <3>4 DEF PastFirst, HistoryFirst
  <2>2. ASSUME NEW r \in Subscribers \ {s} PROVE HistoryFirst(r)'
    BY <1>1 DEF PastFirst, HistoryFirst, Seen
  <2> QED  BY <2>1, <2>2 DEF PastFirst
<1>13. NoneLost'
  <2> SUFFICES ASSUME NEW r \in registered', NEW f \in Matches[r], boundary[r] < f, f <= published
               PROVE  \/ f \in Seen(r)'
                      \/ r \in toMatch[f] \cup matched'[f]
                      \/ place[r] \in {"replay", "callback", "failed"} /\ f \in Buffered(r)
    BY <1>1 DEF NoneLost, Buffered
  <2>1. /\ f \in Events /\ r \in Subscribers
        /\ \/ f \in Seen(r)
           \/ r \in toMatch[f] \cup matched[f]
           \/ place[r] \in {"replay", "callback", "failed"} /\ f \in Buffered(r)
    <3>1. r \in registered
      BY <1>2
    <3>2. r \in Subscribers
      BY <3>1
    <3>3. f \in Events
      <4> HIDE DEF IInv, TypeOK
      <4> QED  BY <3>2, BusAssumption
    <3> HIDE DEF TypeOK
    <3> QED  BY <3>1, <3>2, <3>3 DEF NoneLost
  <2>2. CASE r = s
    <3>1. CASE f = e
      BY <1>4, <2>2, <3>1
    <3>2. CASE f # e
      BY <1>1, <1>4, <2>1, <2>2, <3>2
    <3> QED  BY <3>1, <3>2
  <2>3. CASE r # s
    <3>1. r \in matched[f] => r \in matched'[f]
      BY <1>1, <2>1, <2>3
    <3>2. Seen(r)' = Seen(r)
      BY <1>1, <2>1, <2>3 DEF Seen
    <3> QED  BY <2>1, <3>1, <3>2
  <2> QED  BY <2>2, <2>3
<1> QED  BY <1>7, <1>8, <1>9, <1>10, <1>11, <1>12, <1>13

\* clear() and close(), and the steps that concern no subscriber.
LEMMA ClosingSteps ==
  ASSUME IInv, TypeOK', NEW c \in Closers,
         Clear(c) \/ Close(c) \/ \E x \in Subscribers \cup Timers : Deactivate(c, x)
  PROVE  Parts'
<1> USE DEF subs, pubs, elsewhere
<1>1. /\ UNCHANGED <<published, replaying, remaining, limited, buffer, place, past, batch, toMatch,
                     matched, calls, seen, boundary, before>>
      /\ active' \subseteq active /\ registered' \subseteq registered
      /\ \A s \in registered' : s \in active'
      /\ \A b \in Closers \ {c} : toStop'[b] = toStop[b] /\ pc'[b] = pc[b]
      /\ pc'[c] = "idle" => toStop'[c] = {}
      /\ \A s \in Subscribers : s \in active' =>
           \/ s \in registered' \/ s \in toStop'[c]
           \/ s \notin registered /\ s \notin toStop[c]
      /\ toStop'[c] \cap registered' = {}
      /\ \A s \in Subscribers : s \in toStop'[c] => s \in registered \cup toStop[c]
      /\ closed' => registered' = {}
  <2> USE DEF IInv, Parts, TypeOK, RegistryOK
  <2>1. CASE Clear(c)
    BY <2>1 DEF Clear
  <2>2. CASE Close(c)
    BY <2>2, BusAssumption DEF Close
  <2>3. CASE \E x \in Subscribers \cup Timers : Deactivate(c, x)
    BY <2>3 DEF Deactivate
  <2> QED  BY <2>1, <2>2, <2>3
<1> USE DEF IInv, Parts, TypeOK
<1>2. EntryOK'
  <2> SUFFICES ASSUME NEW r \in Subscribers PROVE Entry(r)'
    BY DEF EntryOK
  <2>1. Entry(r) /\ \A b \in Closers : r \in toStop'[b] => r \in registered \cup toStop[b]
    BY <1>1 DEF EntryOK
  <2> QED  BY <1>1, <2>1 DEF Entry
<1>3. RegistryOK'
  <2>1. ASSUME NEW b \in Closers PROVE toStop'[b] \cap registered' = {}
    <3>1. CASE b = c
      BY <1>1, <3>1 DEF RegistryOK
    <3>2. CASE b # c
      BY <1>1, <3>2 DEF RegistryOK
    <3> QED  BY <3>1, <3>2
  <2>2. \A b \in Closers : pc'[b] = "idle" => toStop'[b] = {}
    BY <1>1 DEF RegistryOK
  <2>3. ASSUME NEW s \in Subscribers, s \in active'
        PROVE  s \in registered' \/ \E b \in Closers : s \in toStop'[b]
    BY <1>1, <2>3 DEF RegistryOK
  <2> QED  BY <1>1, <2>1, <2>2, <2>3 DEF RegistryOK
<1>4. (NumbersOK /\ BeforeOK /\ LineOK /\ PastFirst)'
  BY <1>1, OneStage, OrderKept
<1>5. NoneLost'
  BY <1>1 DEF NoneLost, Seen, Buffered
<1> QED  BY <1>2, <1>3, <1>4, <1>5

LEMMA QuietStep == ASSUME IInv, TypeOK', Quiet PROVE Parts'
<1> USE DEF IInv, Parts, TypeOK, Quiet, subs, elsewhere
<1>1. EntryOK'
  BY DEF EntryOK, Entry
<1>2. RegistryOK'
  BY DEF RegistryOK
<1>3. (NumbersOK /\ BeforeOK /\ LineOK /\ PastFirst)'
  BY OneStage, OrderKept
<1>4. NoneLost'
  BY DEF NoneLost, Seen, Buffered
<1> QED  BY <1>1, <1>2, <1>3, <1>4

LEMMA Initially == Init => IInv
<1> SUFFICES ASSUME Init PROVE IInv
  OBVIOUS
<1> USE BusAssumption DEF Init
<1>1. TypeOK
  <2>1. <<>> \in Seq(Events) /\ Len(<<>>) = 0
    OBVIOUS
  <2>2. /\ buffer \in [Subscribers -> Seq(Events)] /\ batch \in [Subscribers -> Seq(Events)]
        /\ seen \in [Subscribers -> Seq(Events)]
        /\ \A s \in Subscribers : Len(buffer[s]) <= BufferSize
    BY <2>1
  <2>3. published \in 0..MaxEvents /\ boundary \in [Subscribers -> 0..MaxEvents]
    BY DEF Events
  <2> QED  BY <2>2, <2>3 DEF TypeOK
<1>2. Range(<<>>) = {} /\ \A earlier : InLine(<<>>, earlier)
  BY EmptyRange, EmptyInLine
<1>3. EntryOK /\ RegistryOK
  BY DEF EntryOK, Entry, RegistryOK
<1>4. NumbersOK
  BY <1>2 DEF NumbersOK, Numbers, Seen, Buffered
<1>5. BeforeOK
  BY DEF BeforeOK
<1>6. LineOK
  BY <1>2 DEF LineOK, Line, Ahead, Seen, Buffered
<1>7. PastFirst
  BY <1>2 DEF PastFirst, HistoryFirst, Seen
<1>8. NoneLost
  BY DEF NoneLost
<1> QED  BY <1>1, <1>3, <1>4, <1>5, <1>6, <1>7, <1>8 DEF IInv, Parts

LEMMA Inductive == IInv /\ [Next]_vars => IInv'
<1> SUFFICES ASSUME IInv, [Next]_vars PROVE IInv'
  OBVIOUS
<1>1. TypeOK'
  BY TypeInductive DEF IInv
<1> SUFFICES Parts'
  BY <1>1 DEF IInv
<1>2. ASSUME NEW s \in Subscribers, NEW times \in Times, NEW k \in Replays,
             Subscribe(s, times, k)
      PROVE  Parts'
  <2>1. /\ times \in Nat /\ k \in Nat /\ ~closed /\ HistorySize \in Nat
        /\ Enrol(s, times, k, IF k > 0 /\ HistorySize > 0 THEN "replay" ELSE "done")
    BY <1>2, BusAssumption DEF Subscribe
  <2> QED  BY <1>1, <2>1, EnrolStep
<1>3. ASSUME NEW s \in Subscribers, WaitFor(s) PROVE Parts'
  <2>1. ~closed /\ Enrol(s, 1, 0, "wait")
    BY <1>3 DEF WaitFor
  <2> QED  BY <1>1, <2>1, EnrolStep
<1>13. ASSUME NEW s \in Subscribers, NEW times \in Times, NEW k \in Replays,
              SubscribeRaises(s, times, k)
       PROVE  Parts'
  <2>1. /\ times \in Nat /\ k \in Nat /\ ~closed /\ k > 0 /\ HistorySize > 0
        /\ Enrol(s, times, k, "failed")
    BY <1>13, BusAssumption DEF SubscribeRaises
  <2> QED  BY <1>1, <2>1, EnrolStep
<1>4. ASSUME NEW s \in Subscribers, Replay(s) PROVE Parts'
  BY <1>1, <1>4, ReplayOneStep, LeavingSteps, FinishReplayStep DEF Replay
<1>5. ASSUME NEW s \in Subscribers, Unsubscribe(s) \/ WaitReturns(s) \/ WaitTimesOut(s)
      PROVE  Parts'
  BY <1>1, <1>5, LeavingSteps DEF WaitReturns, WaitTimesOut
<1>6. ASSUME NEW e \in Events, Publish(e) PROVE Parts'
  <2>1. Record(e) /\ UNCHANGED <<closed, active, subs, matched, calls, seen, boundary, toStop, pc>>
    BY <1>6 DEF Publish, closes
  <2> QED  BY <1>1, <2>1, RecordStep
<1>7. ASSUME NEW t \in Timers, TimerPublishes(t) PROVE Parts'
  <2>1. PICK e \in Events :
          Record(e) /\ UNCHANGED <<closed, active, subs, matched, calls, seen, boundary, toStop, pc>>
    BY <1>7 DEF TimerPublishes, closes
  <2> QED  BY <1>1, <2>1, RecordStep
<1>8. ASSUME NEW e \in Events, Proceed(e) PROVE Parts'
  <2>1. PICK s \in Subscribers :
          \/ Skip(e, s) \/ Buffer(e, s) \/ BufferOverflows(e, s) \/ Match(e, s)
          \/ Deliver(e, s) \/ DeliverNothing(e, s) \/ CallbackEnds(e, s)
    BY <1>8 DEF Proceed
  <2>2. CASE CallbackEnds(e, s)
    <3>1. Quiet
      BY <2>2 DEF CallbackEnds, Quiet, subs, closes, IInv, Parts, RegistryOK, TypeOK
    <3> QED  BY <1>1, <3>1, QuietStep
  <2> QED  BY <1>1, <2>1, <2>2, MatchingSteps, BufferStep, DeliverStep
<1>9. ASSUME NEW t \in Timers,
             \/ Schedule(t) \/ StartTimer(t) \/ TimerChecks(t) \/ TimerRejected(t)
             \/ TimerPublished(t) \/ TimerWakes(t) \/ TimerStopped(t) \/ TimerEnds(t)
             \/ CancelTimer(t)
      PROVE  Parts'
  <2>1. Others' = Others /\ \A s \in Subscribers : s # t
    BY <1>9, BusAssumption DEF Schedule, StartTimer, TimerChecks, TimerRejected, TimerPublished,
      TimerWakes, TimerStopped, TimerEnds, CancelTimer
  <2>2. active' = active \/ active' = active \cup {t} \/ active' = active \ {t}
    BY <1>9 DEF Schedule, StartTimer, TimerChecks, TimerRejected, TimerPublished,
      TimerWakes, TimerStopped, TimerEnds, CancelTimer
  <2>3. Quiet
    BY <2>1, <2>2 DEF Others, Quiet, subs, pubs, closes, IInv, Parts, RegistryOK, TypeOK
  <2> QED  BY <1>1, <2>3, QuietStep
<1>10. ASSUME NEW c \in Closers,
              \/ Clear(c) \/ Close(c) \/ \E x \in Subscribers \cup Timers : Deactivate(c, x)
       PROVE  Parts'
  BY <1>1, <1>10, ClosingSteps
<1>11. ASSUME NEW c \in Closers, ClearReturns(c) \/ CloseReturns(c) \/ CloseTimesOut(c)
       PROVE  Parts'
  <2>1. Quiet
    BY <1>11 DEF ClearReturns, CloseReturns, CloseTimesOut, LeaveClose, Quiet, subs, pubs,
      IInv, Parts, RegistryOK, TypeOK
  <2> QED  BY <1>1, <2>1, QuietStep
<1>12. CASE UNCHANGED vars
  <2>1. Quiet
    BY <1>12 DEF vars, Quiet, subs, pubs, closes, IInv, Parts, RegistryOK
  <2> QED  BY <1>1, <2>1, QuietStep
<1> QED  BY <1>2, <1>3, <1>4, <1>5, <1>6, <1>7, <1>8, <1>9, <1>10, <1>11, <1>12, <1>13
  DEF Next, TimerRuns, Finish

------------------------------------------------------------------------------
\* The theorems.

\* The invariant holds for any subscribers, timers, threads and limits.
THEOREM InvariantHolds == Spec => []IInv
BY Initially, Inductive, PTL DEF Spec

\* Every variable keeps its type, and no replay buffer exceeds its limit.
THEOREM TypeCorrect == Spec => []TypeOK
<1>1. IInv => TypeOK
  BY DEF IInv
<1> QED  BY <1>1, InvariantHolds, PTL

\* The section of subscribe() is one boundary: a subscriber never claims an event
\* twice, and its history comes first, in order.
THEOREM ReplayIsAtomic == Spec => []AtomicBoundary
<1>1. IInv => AtomicBoundary
  BY DEF IInv, Parts, LineOK, Line, InLine, PastFirst, HistoryFirst, AtomicBoundary
<1> QED  BY <1>1, InvariantHolds, PTL

\* No event overtakes one whose publish() had returned before.
THEOREM OrderIsKept == Spec => []InOrder
<1>1. IInv => InOrder
  BY DEF IInv, Parts, LineOK, Line, InLine, InOrder
<1> QED  BY <1>1, InvariantHolds, PTL

\* Between the boundary and the end of its subscription a subscriber misses nothing,
\* unless its subscribe() raised before it replayed.
THEOREM NothingIsMissed == Spec => []NothingMissed
<1>1. IInv => NothingMissed
  BY DEF IInv, Parts, NoneLost, NothingMissed
<1> QED  BY <1>1, InvariantHolds, PTL

\* A bus that was closed, and whose close() has deactivated the subscriptions, has no
\* subscriber left.
THEOREM ClosedBusIsSilent == Spec => []ClosedIsSilent
<1>1. IInv => ClosedIsSilent
  BY DEF IInv, Parts, RegistryOK, ClosedIsSilent
<1> QED  BY <1>1, InvariantHolds, PTL

================================================================================
