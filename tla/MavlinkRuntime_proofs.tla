------------------------ MODULE MavlinkRuntime_proofs ------------------------
(***************************************************************************)
(* What the runtime keeps for any threads, kinds of messages, endpoints    *)
(* and commands: the vehicle's commands go to a live autopilot, nobody     *)
(* sleeps in wait_for over a message that is there, and what has stopped   *)
(* has left nothing behind.                                                *)
(***************************************************************************)
EXTENDS MavlinkRuntime, SequenceTheorems, FiniteSetTheorems, WellFoundedInduction, TLAPS

-------------------------------------------------------------------------------
\* Least elements, and what is left of a stack.

\* A set of numbers that is not empty has a least one.
LEMMA MinExists ==
  ASSUME NEW S \in SUBSET Nat, S # {}
  PROVE  Min(S) \in S /\ \A n \in S : Min(S) <= n
<1> DEFINE R == {ss \in Nat \X Nat : ss[1] < ss[2]}
<1>1. IsWellFoundedOn(R, Nat)
  BY NatLessThanWellFounded DEF OpToRel
<1>2. PICK least \in S : \A n \in S : ~(<<n, least>> \in R)
  BY <1>1, WFMin
<1>3. ASSUME NEW n \in S PROVE least <= n
  <2>1. n \in Nat /\ least \in Nat
    OBVIOUS
  <2>2. ~(<<n, least>> \in R)
    BY <1>2
  <2>3. QED
    BY <2>1, <2>2
<1>4. QED
  BY <1>3 DEF Min

LEMMA SuffixType ==
  ASSUME NEW S, NEW stack \in Seq(S), NEW i \in 1..Len(stack)
  PROVE  SubSeq(stack, i, Len(stack)) \in Seq(S)
<1>1. Len(stack) \in Nat /\ DOMAIN stack = 1..Len(stack)
  OBVIOUS
<1>2. \A j \in i..Len(stack) : stack[j] \in S
  BY <1>1, ElementOfSeq
<1>3. QED
  BY <1>1, <1>2, SubSeqProperties

\* The marks that are dropped leave frames that were there.
LEMMA ReachedType ==
  ASSUME NEW S, NEW stack \in Seq(S)
  PROVE  Reached(stack) \in Seq(S)
<1> DEFINE places == {j \in 1..Len(stack) : stack[j][1] \notin Marks}
           i == IF places # {} THEN Min(places) ELSE 0
<1>1. Reached(stack) = IF i = 0 THEN <<>> ELSE SubSeq(stack, i, Len(stack))
  BY DEF Reached, SelectInSeq
<1>2. places \in SUBSET Nat /\ (places # {} => Min(places) \in places)
  <2>1. places \in SUBSET Nat
    OBVIOUS
  <2>2. QED
    BY <2>1, MinExists
<1>3. i = 0 \/ i \in 1..Len(stack)
  BY <1>2
<1> HIDE DEF i
<1>4. QED
  BY <1>1, <1>3, SuffixType

\* Unwinding leaves frames that were there, some told of the exception.
LEMMA UnwoundType ==
  ASSUME NEW S, NEW stack \in Seq(S), <<"raise">> \in S,
         \A name \in Reports \cup Finally : <<name, TRUE>> \in S
  PROVE  Unwound(stack) \in Seq(S)
<1> DEFINE places == {k \in 1..Len(stack) : stack[k][1] \in Marks \cup Finally}
           i == IF places # {} THEN Min(places) ELSE 0
           above == SubSeq(stack, i + 1, Len(stack))
           reports == {k \in 1..Len(above) : above[k][1] \in Reports}
           j == IF reports # {} THEN Min(reports) ELSE 0
<1>1. Unwound(stack) =
        CASE i = 0 -> <<>>
          [] i > 0 /\ stack[i][1] = "swallow" -> Reached(above)
          [] i > 0 /\ stack[i][1] = "caught" ->
               Reached([above EXCEPT ![j] = Told(above[j])])
          [] OTHER -> <<Told(stack[i]), <<"raise">>>> \o above
  BY DEF Unwound, SelectInSeq
<1>2. /\ Len(stack) \in Nat
      /\ i = 0 \/ (i \in 1..Len(stack) /\ stack[i][1] \in Marks \cup Finally)
  <2>1. places \in SUBSET Nat
    OBVIOUS
  <2>2. places # {} => Min(places) \in places
    BY <2>1, MinExists
  <2>3. QED
    BY <2>2
<1> HIDE DEF i
<1>3. i > 0 => i \in 1..Len(stack) /\ stack[i][1] \in Marks \cup Finally
  BY <1>2
<1>4. above \in Seq(S)
  <2>1. \A k \in (i + 1)..Len(stack) : stack[k] \in S
    BY <1>2, ElementOfSeq
  <2>2. QED
    BY <1>2, <2>1, SubSeqProperties
<1> HIDE DEF above
<1>5. j = 0 \/ (j \in 1..Len(above) /\ above[j][1] \in Reports)
  <2>1. reports \in SUBSET Nat
    BY <1>4
  <2>2. reports # {} => Min(reports) \in reports
    BY <2>1, MinExists
  <2>3. QED
    BY <2>2
<1> HIDE DEF j
<1>6. [above EXCEPT ![j] = Told(above[j])] \in Seq(S)
  <2>1. CASE j = 0
    <3>1. [above EXCEPT ![j] = Told(above[j])] = above
      BY <1>4, <2>1
    <3>2. QED
      BY <1>4, <3>1
  <2>2. CASE j \in 1..Len(above) /\ above[j][1] \in Reports
    BY <1>4, <2>2, ExceptSeq DEF Told
  <2>3. QED
    BY <1>5, <2>1, <2>2
<1>7. i > 0 /\ stack[i][1] \notin Marks => <<Told(stack[i]), <<"raise">>>> \o above \in Seq(S)
  <2>1. SUFFICES ASSUME i > 0, stack[i][1] \notin Marks
                 PROVE  <<Told(stack[i]), <<"raise">>>> \o above \in Seq(S)
    OBVIOUS
  <2>2. Told(stack[i]) \in S
    BY <1>3, <2>1 DEF Told
  <2>3. <<Told(stack[i]), <<"raise">>>> \in Seq(S)
    BY <2>2
  <2>4. QED
    BY <1>4, <2>3, ConcatProperties
<1>8. CASE i = 0
  BY <1>1, <1>8
<1>9. CASE i > 0 /\ stack[i][1] = "swallow"
  <2>1. Unwound(stack) = Reached(above)
    BY <1>1, <1>9
  <2>2. QED
    BY <1>4, <2>1, ReachedType
<1>10. CASE i > 0 /\ stack[i][1] = "caught"
  <2> DEFINE told == [above EXCEPT ![j] = Told(above[j])]
  <2>1. Unwound(stack) = Reached(told)
    BY <1>1, <1>10
  <2>2. told \in Seq(S)
    BY <1>6
  <2> HIDE DEF told
  <2>3. QED
    BY <2>1, <2>2, ReachedType
<1>11. CASE i > 0 /\ stack[i][1] \notin Marks
  BY <1>1, <1>7, <1>11 DEF Marks
<1>12. QED
  BY <1>2, <1>8, <1>9, <1>10, <1>11 DEF Marks

-------------------------------------------------------------------------------
\* The choice of the autopilot.

LEMMA SelectionIsLive ==
  ASSUME NEW current, NEW live, live \cap Autopilots # {}
  PROVE  Selection(current, live) \in live \cap Autopilots
<1>1. live \cap Autopilots \in SUBSET Nat
  BY RegistryAssumption
<1>2. QED
  BY <1>1, MinExists DEF Selection

\* The inductive invariant of the registry: what is connected is known, and the
\* commands go to a live autopilot.
RegistryInv ==
  /\ IsFiniteSet(known)
  /\ connected \subseteq known
  /\ SelectedIsLive

LEMMA RegistryKept ==
  ASSUME RegistryInv, UNCHANGED <<known, connected, selected>> PROVE RegistryInv'
  BY DEF RegistryInv, SelectedIsLive

LEMMA RegistryStep ==
  ASSUME RegistryInv, [Next]_vars PROVE RegistryInv'
<1>1. CASE UNCHANGED <<known, connected, selected>>
  BY <1>1, RegistryKept
<1>2. ASSUME NEW t \in Threads, AcceptEnvelope(t) PROVE RegistryInv'
  <2> DEFINE seen == {Vehicle, Arg(t)[1]}
  <2>0. IsFiniteSet(known \cup seen)
    <3>1. IsFiniteSet((known \cup {Vehicle}) \cup {Arg(t)[1]})
      BY FS_AddElement DEF RegistryInv
    <3>2. (known \cup {Vehicle}) \cup {Arg(t)[1]} = known \cup seen
      OBVIOUS
    <3>3. QED
      BY <3>1, <3>2
  <2>1. CASE UNCHANGED endpoints
    BY <2>1, <1>1 DEF endpoints
  <2>2. CASE /\ known' = known \cup seen
             /\ connected' = connected \cup seen
             /\ selected' = Selection(selected, connected')
    <3>1. IsFiniteSet(known') /\ connected' \subseteq known'
      BY <2>0, <2>2 DEF RegistryInv
    <3>2. QED
      BY <2>2, <3>1, SelectionIsLive DEF RegistryInv, SelectedIsLive
  <2>3. CASE known' = known \cup seen /\ UNCHANGED <<connected, selected>>
    <3>1. IsFiniteSet(known')
      BY <2>0, <2>3 DEF RegistryInv
    <3>2. QED
      BY <2>3, <3>1 DEF RegistryInv, SelectedIsLive
  <2>4. QED
    BY <1>2, <2>1, <2>2, <2>3 DEF AcceptEnvelope
<1>3. CASE Expire
  <2>1. /\ known' = known /\ connected' = connected \ Lost
        /\ selected' = Selection(selected, connected')
    BY <1>3 DEF Expire
  <2>2. QED
    BY <2>1, SelectionIsLive DEF RegistryInv, SelectedIsLive
<1>4. ASSUME NEW t \in Threads, DisconnectAll(t) PROVE RegistryInv'
  BY <1>4 DEF DisconnectAll, RegistryInv, SelectedIsLive
<1>5. ASSUME NEW t \in Threads, RemoveEndpoint(t) PROVE RegistryInv'
  <2> DEFINE gone == IF Arg(t) = Vehicle THEN known ELSE {Arg(t)}
  <2>1. CASE UNCHANGED endpoints
    BY <2>1, <1>1 DEF endpoints
  <2>2. CASE /\ gone \cap connected = {}
             /\ known' = known \ gone /\ connected' = connected
             /\ selected' = IF Arg(t) = Vehicle THEN Nobody
                            ELSE Selection(selected, connected)
    <3>1. IsFiniteSet(known') /\ connected' \subseteq known'
      BY <2>2, FS_Subset DEF RegistryInv
    <3>2. SelectedIsLive'
      <4>1. CASE Arg(t) = Vehicle
        BY <2>2, <4>1 DEF RegistryInv, SelectedIsLive
      <4>2. CASE Arg(t) # Vehicle
        BY <2>2, <4>2, SelectionIsLive DEF SelectedIsLive
      <4>3. QED
        BY <4>1, <4>2
    <3>3. QED
      BY <3>1, <3>2 DEF RegistryInv
  <2>3. QED
    BY <1>5, <2>1, <2>2 DEF RemoveEndpoint
<1>6. CASE RegistryNext
  <2>1. CASE Tick \/ MonitorEnds
    BY <1>1, <2>1 DEF Tick, MonitorEnds, registryVars, endpoints
  <2>2. ASSUME NEW t \in Threads, RegistryStart(t) \/ RegistryStop(t) \/ JoinMonitor(t)
                                  \/ Prune(t) \/ PruneVehicle(t)
        PROVE  RegistryInv'
    BY <1>1, <2>2 DEF RegistryStart, RegistryStop, JoinMonitor, Prune, PruneVehicle,
       registryVars, endpoints
  <2>3. QED
    BY <1>2, <1>3, <1>4, <1>5, <1>6, <2>1, <2>2 DEF RegistryNext
<1>7. CASE RuntimeNext
  <2>1. UNCHANGED registryVars
    BY <1>7 DEF RuntimeNext, Handle, Published, Call, Leave, Enter, Exit, Unwinds, Start,
       ServicesStart, StartEnd, Rolled, Stop, DispatcherStop, JoinHandler, Report,
       Close, CloseWait, Closed, CloseEnd
  <2>2. QED
    BY <1>1, <2>1 DEF registryVars, endpoints
<1>8. QED
  BY <1>1, <1>6, <1>7 DEF Next, Terminating, vars, registryVars, endpoints

\* With a live autopilot, the vehicle's commands go to a live one, for any
\* components, time-outs and retention (vehicles.py:509-516, 604-611, 621-622).
THEOREM CommandsReachLiveAutopilot == Spec => []SelectedIsLive
<1>1. Init => RegistryInv
  BY FS_EmptySet DEF Init, RegistryInit, RegistryInv, SelectedIsLive
<1>2. RegistryInv /\ [Next]_vars => RegistryInv'
  BY RegistryStep
<1>3. RegistryInv => SelectedIsLive
  BY DEF RegistryInv
<1>4. QED
  BY <1>1, <1>2, <1>3, PTL DEF Spec

-------------------------------------------------------------------------------
\* What a thread has still to do when it may go to sleep.

\* A call of wait_for: what is wanted, two numbers and whether its time is over.
WaitFrame(f) ==
  /\ f = <<f[1], <<f[2][1], f[2][2], f[2][3], f[2][4]>>>>
  /\ f[2][3] \in Nat

\* What may be on a stack while the last message has this number.
Fits(f, last) ==
  /\ f[1] # "asleep"
  /\ f[1] \in {"look", "check"} => WaitFrame(f)
  /\ f[1] \in {"accept", "store"} => f[2] \in (1..last) \X Kinds
  /\ f[1] = "enter" => f[2] \in {"start", "stop"}

Sound(stack, last) ==
  /\ stack \in Seq(ToSet(stack))
  /\ \A f \in ToSet(stack) : Fits(f, last)

\* A thread sleeps in wait_for while nothing is stored that has a number above the
\* one it noted at its last look.
Sleeps(t) ==
  /\ todo[t] \in Seq(ToSet(todo[t])) /\ todo[t] # <<>>
  /\ Head(todo[t])[1] = "asleep" /\ WaitFrame(Head(todo[t]))
  /\ Sound(Tail(todo[t]), sequence)
  /\ reading
  /\ \A i \in DOMAIN history : history[i][1] <= Head(todo[t])[2][3]

\* The inductive invariant: nobody sleeps but on top of his stack, over nothing.
WakeInv ==
  /\ sequence \in Nat /\ inbox \in Seq(Kinds)
  /\ history \in Seq((1..sequence) \X Kinds)
  /\ todo = [t \in Threads |-> todo[t]]
  /\ \A t \in Threads : Sound(todo[t], sequence) \/ Sleeps(t)

LEMMA SeqWider ==
  ASSUME NEW S, NEW T, S \subseteq T, NEW stack \in Seq(S) PROVE stack \in Seq(T)
<1>1. \A i \in 1..Len(stack) : stack[i] \in T
  BY ElementOfSeq
<1>2. stack \in [1..Len(stack) -> T] /\ Len(stack) \in Nat
  BY <1>1
<1>3. QED
  BY <1>2

LEMMA SoundFrom ==
  ASSUME NEW S, NEW stack \in Seq(S), NEW last, \A f \in S : Fits(f, last)
  PROVE  Sound(stack, last)
<1>1. ToSet(stack) \subseteq S
  BY ElementOfSeq DEF ToSet
<1>2. stack \in Seq(ToSet(stack))
  <2>1. stack \in [1..Len(stack) -> ToSet(stack)] /\ Len(stack) \in Nat
    BY DEF ToSet
  <2>2. QED
    BY <2>1
<1>3. QED
  BY <1>1, <1>2 DEF Sound

LEMMA SoundConcat ==
  ASSUME NEW a, NEW b, NEW last, Sound(a, last), Sound(b, last)
  PROVE  Sound(a \o b, last)
<1> DEFINE S == ToSet(a) \cup ToSet(b)
<1>1. a \in Seq(S) /\ b \in Seq(S)
  BY DEF Sound
<1>2. a \o b \in Seq(S)
  BY <1>1, ConcatProperties
<1>3. \A f \in S : Fits(f, last)
  BY DEF Sound
<1> HIDE DEF S
<1>4. QED
  BY <1>2, <1>3, SoundFrom

LEMMA SoundOne ==
  ASSUME NEW f, NEW last, Fits(f, last) PROVE Sound(<<f>>, last)
<1> DEFINE S == {f}
<1>1. <<f>> \in Seq(S) /\ \A g \in S : Fits(g, last)
  OBVIOUS
<1> HIDE DEF S
<1>2. QED
  BY <1>1, SoundFrom

LEMMA SoundEmpty == ASSUME NEW last PROVE Sound(<<>>, last)
<1> DEFINE S == {}
<1>1. <<>> \in Seq(S) /\ \A f \in S : Fits(f, last)
  OBVIOUS
<1> HIDE DEF S
<1>2. QED
  BY <1>1, SoundFrom

LEMMA SoundReached ==
  ASSUME NEW stack, NEW last, Sound(stack, last) PROVE Sound(Reached(stack), last)
  BY SoundFrom, ReachedType DEF Sound

LEMMA SoundUnwound ==
  ASSUME NEW stack, NEW last, Sound(stack, last) PROVE Sound(Unwound(stack), last)
<1> DEFINE S == ToSet(stack) \cup {<<"raise">>}
                \cup {<<name, TRUE>> : name \in Reports \cup Finally}
<1>1. stack \in Seq(S)
  BY SeqWider DEF Sound
<1>2. <<"raise">> \in S /\ \A name \in Reports \cup Finally : <<name, TRUE>> \in S
  OBVIOUS
<1>3. \A f \in S : Fits(f, last)
  <2>1. Fits(<<"raise">>, last)
    BY DEF Fits
  <2>2. ASSUME NEW name \in Reports \cup Finally PROVE Fits(<<name, TRUE>>, last)
    BY DEF Fits, Reports, Finally
  <2>3. QED
    BY <2>1, <2>2 DEF Sound
<1> HIDE DEF S
<1>4. QED
  BY <1>1, <1>2, <1>3, UnwoundType, SoundFrom

LEMMA SoundTail ==
  ASSUME NEW stack, NEW last, Sound(stack, last), stack # <<>>
  PROVE  Sound(Tail(stack), last)
<1>1. Tail(stack) \in Seq(ToSet(stack))
  BY HeadTailProperties DEF Sound
<1>2. QED
  BY <1>1, SoundFrom DEF Sound

\* What is on the stack of a thread below what it is at.
LEMMA Below ==
  ASSUME WakeInv, NEW t \in Threads, todo[t] # <<>>
  PROVE  Sound(Tail(todo[t]), sequence)
  BY SoundTail DEF WakeInv, Sleeps

LEMMA AtTop ==
  ASSUME WakeInv, NEW t \in Threads, todo[t] # <<>>, ~At(t, "asleep")
  PROVE  Fits(Head(todo[t]), sequence) /\ Sound(todo[t], sequence)
<1>1. Sound(todo[t], sequence)
  BY DEF WakeInv, Sleeps, At
<1>2. Head(todo[t]) \in ToSet(todo[t])
  BY <1>1 DEF Sound, ToSet
<1>3. QED
  BY <1>1, <1>2 DEF Sound

LEMMA SoundList ==
  ASSUME NEW last
  PROVE  /\ \A a, b : Fits(a, last) /\ Fits(b, last) => Sound(<<a, b>>, last)
         /\ \A a, b, c : Fits(a, last) /\ Fits(b, last) /\ Fits(c, last)
              => Sound(<<a, b, c>>, last)
         /\ \A a, b, c, d : Fits(a, last) /\ Fits(b, last) /\ Fits(c, last) /\ Fits(d, last)
              => Sound(<<a, b, c, d>>, last)
<1>1. ASSUME NEW a, NEW b, Fits(a, last), Fits(b, last) PROVE Sound(<<a, b>>, last)
  <2> DEFINE S == {a, b}
  <2>1. <<a, b>> \in Seq(S) /\ \A g \in S : Fits(g, last)
    BY <1>1
  <2> HIDE DEF S
  <2>2. QED
    BY <2>1, SoundFrom
<1>2. ASSUME NEW a, NEW b, NEW c, Fits(a, last), Fits(b, last), Fits(c, last)
      PROVE  Sound(<<a, b, c>>, last)
  <2> DEFINE S == {a, b, c}
  <2>1. <<a, b, c>> \in Seq(S) /\ \A g \in S : Fits(g, last)
    BY <1>2
  <2> HIDE DEF S
  <2>2. QED
    BY <2>1, SoundFrom
<1>3. ASSUME NEW a, NEW b, NEW c, NEW d,
             Fits(a, last), Fits(b, last), Fits(c, last), Fits(d, last)
      PROVE  Sound(<<a, b, c, d>>, last)
  <2> DEFINE S == {a, b, c, d}
  <2>1. <<a, b, c, d>> \in Seq(S) /\ \A g \in S : Fits(g, last)
    BY <1>3
  <2> HIDE DEF S
  <2>2. QED
    BY <2>1, SoundFrom
<1>4. QED
  BY <1>1, <1>2, <1>3

\* Nobody is put to sleep and nothing is stored.
LEMMA StacksKept ==
  ASSUME WakeInv, UNCHANGED <<sequence, inbox, history, reading>>,
         todo' = [t \in Threads |-> todo'[t]],
         \A t \in Threads : todo'[t] = todo[t] \/ Sound(todo'[t], sequence)
  PROVE  WakeInv'
<1>1. ASSUME NEW t \in Threads, todo'[t] = todo[t], Sleeps(t) PROVE Sleeps(t)'
  BY <1>1 DEF Sleeps
<1>2. QED
  BY <1>1 DEF WakeInv

LEMMA DoesSound ==
  ASSUME WakeInv, NEW t \in Threads, todo[t] # <<>>, NEW frames, Sound(frames, sequence)
  PROVE  Sound(Becomes(t, frames), sequence)
  BY Below, SoundConcat, SoundReached DEF Becomes

LEMMA DoesKeeps ==
  ASSUME WakeInv, UNCHANGED <<sequence, inbox, history, reading>>,
         NEW t \in Threads, todo[t] # <<>>,
         NEW frames, Sound(frames, sequence), Does(t, frames)
  PROVE  WakeInv'
<1>1. Sound(Becomes(t, frames), sequence)
  BY DoesSound
<1>2. /\ todo' = [u \in Threads |-> todo'[u]]
      /\ \A u \in Threads : todo'[u] = todo[u] \/ Sound(todo'[u], sequence)
  BY <1>1 DEF Does, WakeInv
<1>3. QED
  BY <1>2, StacksKept

\* The frames that only have a name, and those that carry a truth value.
LEMMA PlainFits ==
  ASSUME NEW last
  PROVE  /\ \A name : name \notin {"asleep", "look", "check", "accept", "store", "enter"} =>
              /\ Fits(<<name>>, last)
              /\ \A argument : Fits(<<name, argument>>, last)
         /\ Fits(<<"enter", "start">>, last) /\ Fits(<<"enter", "stop">>, last)
  BY DEF Fits

memory == <<sequence, inbox, history, reading>>

\* The steps that touch neither what is stored nor the router's running.
LEMMA LifecycleKeeps ==
  ASSUME WakeInv, NEW t \in Threads,
         \/ Enter(t) \/ Exit(t) \/ Start(t) \/ ServicesStart(t) \/ StartEnd(t) \/ Rolled(t)
         \/ Stop(t) \/ DispatcherStop(t) \/ JoinHandler(t) \/ Report(t)
         \/ Close(t) \/ CloseWait(t) \/ Closed(t) \/ CloseEnd(t) \/ Leave(t)
  PROVE  WakeInv'
<1>1. UNCHANGED memory /\ todo[t] # <<>>
  BY DEF Enter, Exit, Start, ServicesStart, StartEnd, Rolled, Stop, DispatcherStop,
     JoinHandler, Report, Close, CloseWait, Closed, CloseEnd, Leave, At, memory,
     routerVars, store
<1>2. ASSUME NEW frames, Does(t, frames), Sound(frames, sequence) PROVE WakeInv'
  BY <1>1, <1>2, DoesKeeps DEF memory
<1>3. Sound(<<>>, sequence) /\ Sound(<<<<"raise">>>>, sequence)
  BY SoundEmpty, SoundOne, PlainFits
<1>4. CASE Enter(t)
  <2>1. Arg(t) \in {"start", "stop"}
    BY <1>4, AtTop DEF Enter, At, Arg, Fits
  <2>2. Sound(<<<<Arg(t)>>, <<"exit", FALSE>>>>, sequence)
    BY <2>1, SoundList, PlainFits
  <2>3. QED
    BY <1>2, <1>3, <1>4, <2>2 DEF Enter, Raises
<1>5. CASE Exit(t) \/ Rolled(t) \/ JoinHandler(t) \/ Closed(t) \/ CloseEnd(t) \/ Leave(t)
  BY <1>2, <1>3, <1>5 DEF Exit, Rolled, JoinHandler, Closed, CloseEnd, Leave
<1>6. CASE Start(t)
  <2>1. Sound(<<<<"router_start">>, <<"services_start">>, <<"registry_start">>,
                <<"start_end", FALSE>>>>, sequence)
    BY SoundList, PlainFits
  <2>2. QED
    BY <1>2, <1>3, <1>6, <2>1 DEF Start, Raises
<1>7. CASE ServicesStart(t)
  BY <1>2, <1>3, <1>7 DEF ServicesStart, Raises
<1>8. CASE StartEnd(t)
  <2>1. Sound(<<<<"user">>, <<"swallow">>,
                <<"registry_accept", <<Source(Greeting), TRUE, clock>>>>>>, sequence)
    BY SoundList, PlainFits
  <2>2. /\ Sound(<<<<"dispatcher_stop">>, <<"caught">>>>, sequence)
        /\ Sound(<<<<"router_stop">>, <<"caught">>>>, sequence)
        /\ Sound(<<<<"rolled", FALSE>>>>, sequence)
    BY SoundOne, SoundList, PlainFits
  <2>3. ASSUME NEW a, NEW b, Sound(a, sequence), Sound(b, sequence)
        PROVE  Sound((a \o b) \o <<<<"rolled", FALSE>>>>, sequence)
    BY <2>2, <2>3, SoundConcat
  <2>4. QED
    BY <1>2, <1>3, <1>8, <2>1, <2>2, <2>3 DEF StartEnd
<1>9. CASE Stop(t)
  <2> DEFINE parts == <<<<"registry_stop">>, <<"caught">>, <<"dispatcher_stop">>, <<"caught">>,
                        <<"router_stop">>, <<"caught">>, <<"report", FALSE>>>>
             S == {<<"registry_stop">>, <<"caught">>, <<"dispatcher_stop">>,
                   <<"router_stop">>, <<"report", FALSE>>}
  <2>1. parts \in Seq(S)
    OBVIOUS
  <2>2. \A f \in S : Fits(f, sequence)
    BY PlainFits
  <2> HIDE DEF S
  <2>3. Sound(parts, sequence)
    BY <2>1, <2>2, SoundFrom
  <2>4. QED
    BY <1>2, <1>3, <1>9, <2>3 DEF Stop
<1>10. CASE DispatcherStop(t)
  <2>1. Sound(<<<<"handler_join">>>>, sequence)
    BY SoundOne, PlainFits
  <2>2. QED
    BY <1>2, <1>3, <1>10, <2>1 DEF DispatcherStop
<1>11. CASE Report(t)
  <2>1. Sound(<<<<"user">>, <<"swallow">>>>, sequence)
    BY SoundList, PlainFits
  <2>2. QED
    BY <1>2, <1>3, <1>11, <2>1 DEF Report, Raises
<1>12. CASE Close(t) \/ CloseWait(t)
  <2>1. Sound(<<<<"enter", "stop">>, <<"registry_stop">>, <<"closed">>,
                <<"close_end", FALSE>>>>, sequence)
    BY SoundList, PlainFits
  <2>2. Sound(<<<<"close_wait">>>>, sequence)
    BY SoundOne, PlainFits
  <2>3. QED
    BY <1>2, <1>3, <1>12, <2>1, <2>2 DEF Close, CloseWait, Closes, Raises
<1>13. QED
  BY <1>4, <1>5, <1>6, <1>7, <1>8, <1>9, <1>10, <1>11, <1>12

LEMMA CallsKeep ==
  ASSUME WakeInv, Handle \/ Published \/ \E t \in Threads : Call(t) \/ Unwinds(t)
  PROVE  WakeInv'
<1>1. /\ UNCHANGED <<sequence, inbox, history, reading>>
      /\ todo' = [t \in Threads |-> todo'[t]]
  BY DEF Handle, Published, Call, Unwinds, Unwind, Does, routerVars, store, WakeInv
<1>2. CASE Handle
  <2>1. Sound(<<<<"user">>>>, sequence)
    BY SoundOne, PlainFits
  <2>2. \A t \in Threads : todo'[t] = todo[t] \/ Sound(todo'[t], sequence)
    BY <1>2, <2>1 DEF Handle, WakeInv
  <2>3. QED
    BY <1>1, <2>2, StacksKept
<1>3. CASE Published
  <2>1. Reader \in Threads /\ todo[Reader] # <<>>
    BY <1>3, RouterAssumption DEF Published, At
  <2>2. PICK frames : Does(Reader, frames)
                      /\ (frames = <<>> \/ \E a : frames = <<<<"registry_accept", a>>>>)
    BY <1>3 DEF Published
  <2>3. Sound(frames, sequence)
    BY <2>2, SoundEmpty, SoundOne, PlainFits
  <2>4. QED
    BY <1>1, <2>1, <2>2, <2>3, DoesKeeps
<1>4. ASSUME NEW t \in Threads, Unwinds(t) PROVE WakeInv'
  <2>1. Sound(Unwound(Tail(todo[t])), sequence)
    BY <1>4, Below, SoundUnwound DEF Unwinds, Unwind, At
  <2>2. \A u \in Threads : todo'[u] = todo[u] \/ Sound(todo'[u], sequence)
    BY <1>4, <2>1 DEF Unwinds, Unwind, WakeInv
  <2>3. QED
    BY <1>1, <2>2, StacksKept
<1>5. ASSUME NEW name PROVE Sound(Command(name), sequence)
  <2>1. /\ Sound(<<<<"enter", "start">>>>, sequence)
        /\ Sound(<<<<"enter", "stop">>>>, sequence)
        /\ Sound(<<<<"enter", "stop">>, <<"enter", "start">>>>, sequence)
        /\ Sound(<<<<"close">>>>, sequence)
        /\ Sound(<<<<"disconnect">>>>, sequence)
        /\ Sound(<<<<"prune", <<clock, 0>>>>>>, sequence)
        /\ Sound(<<<<"remove", Vehicle>>>>, sequence)
        /\ Sound(<<<<"wait_for", name>>>>, sequence)
    BY SoundOne, SoundList, PlainFits
  <2>2. QED
    BY <2>1 DEF Command
<1>6. ASSUME NEW t \in Threads, Call(t) PROVE WakeInv'
  <2>1. PICK call \in calls :
          \/ todo' = [todo EXCEPT ![t] = Command(call[2])]
          \/ /\ At(t, "user")
             /\ todo' = [todo EXCEPT ![t] = Command(call[2]) \o <<<<"swallow">>>> \o @]
    BY <1>6 DEF Call
  <2>2. ASSUME At(t, "user")
        PROVE  Sound(Command(call[2]) \o <<<<"swallow">>>> \o todo[t], sequence)
    <3>1. Sound(todo[t], sequence)
      BY <2>2, AtTop DEF At
    <3>2. Sound(<<<<"swallow">>>>, sequence)
      BY SoundOne, PlainFits
    <3>3. QED
      BY <1>5, <3>1, <3>2, SoundConcat
  <2>3. \A u \in Threads : todo'[u] = todo[u] \/ Sound(todo'[u], sequence)
    BY <1>5, <2>1, <2>2 DEF WakeInv
  <2>4. QED
    BY <1>1, <2>3, StacksKept
<1>7. QED
  BY <1>2, <1>3, <1>4, <1>6

\* The listed endpoints are removed one by one.
LEMMA ListedSound ==
  ASSUME NEW S, IsFiniteSet(S), NEW last
  PROVE  Sound([i \in DOMAIN SetToSeq(S) |-> <<"remove", SetToSeq(S)[i]>>], last)
<1> DEFINE listed == [i \in DOMAIN SetToSeq(S) |-> <<"remove", SetToSeq(S)[i]>>]
           F == {<<"remove", e>> : e \in S}
<1>1. Cardinality(S) \in Nat /\ ExistsBijection(1..Cardinality(S), S)
  BY FS_CardinalityType
<1>2. \E f \in [1..Cardinality(S) -> S] : IsInjective(f)
  BY <1>1 DEF ExistsBijection, Bijection, Injection, IsInjective
<1>3. SetToSeq(S) \in [1..Cardinality(S) -> S]
  BY <1>2 DEF SetToSeq
<1>4. listed \in [1..Cardinality(S) -> F]
  BY <1>3
<1>5. listed \in Seq(F)
  BY <1>1, <1>4
<1>6. \A f \in F : Fits(f, last)
  BY PlainFits
<1> HIDE DEF F, listed
<1>7. Sound(listed, last)
  BY <1>5, <1>6, SoundFrom
<1>8. QED
  BY <1>7 DEF listed

LEMMA RegistryKeepsStacks ==
  ASSUME WakeInv, RegistryInv, RegistryNext, UNCHANGED <<routerVars, runtimeVars>>
  PROVE  WakeInv'
<1>1. UNCHANGED <<sequence, inbox, history, reading>> /\ Monitor \in Threads
  BY RegistryAssumption DEF routerVars, store
<1>2. ASSUME NEW t \in Threads, todo[t] # <<>>, NEW frames, Does(t, frames),
             Sound(frames, sequence)
      PROVE  WakeInv'
  BY <1>1, <1>2, DoesKeeps
<1>3. ASSUME NEW which PROVE Sound(Tells(which), sequence)
  BY SoundEmpty, SoundList, PlainFits DEF Tells
<1>4. Sound(<<>>, sequence) /\ Sound(<<<<"raise">>>>, sequence)
  BY SoundEmpty, SoundOne, PlainFits
<1>5. CASE Tick
  BY <1>1, <1>5, StacksKept DEF Tick, WakeInv
<1>6. CASE MonitorEnds
  BY <1>1, <1>2, <1>4, <1>6 DEF MonitorEnds, At
<1>7. CASE Expire
  <2>1. Sound(IF retention # Forever THEN <<<<"prune", <<clock, retention>>>>>> ELSE <<>>,
              sequence)
    BY SoundEmpty, SoundOne, PlainFits
  <2>2. Sound(<<<<"watch">>>>, sequence)
    BY SoundOne, PlainFits
  <2>3. Sound(Tells(Lost) \o (IF retention # Forever
                              THEN <<<<"prune", <<clock, retention>>>>>> ELSE <<>>)
                          \o <<<<"watch">>>>, sequence)
    BY <1>3, <2>1, <2>2, SoundConcat
  <2>4. QED
    BY <1>1, <1>2, <1>7, <2>3 DEF Expire, At
<1>8. ASSUME NEW t \in Threads, RegistryStart(t) PROVE WakeInv'
  <2>1. todo[t] # <<>>
    BY <1>8 DEF RegistryStart, At
  <2>2. CASE Does(t, <<>>) \/ Raises(t)
    BY <1>2, <1>4, <2>1, <2>2 DEF Raises
  <2>3. CASE todo' = [todo EXCEPT ![t] = Becomes(t, <<>>), ![Monitor] = <<<<"watch">>>>]
    <3>1. Sound(Becomes(t, <<>>), sequence) /\ Sound(<<<<"watch">>>>, sequence)
      BY <1>4, <2>1, DoesSound, SoundOne, PlainFits
    <3>2. /\ todo' = [u \in Threads |-> todo'[u]]
          /\ \A u \in Threads : todo'[u] = todo[u] \/ Sound(todo'[u], sequence)
      BY <1>1, <2>3, <3>1 DEF WakeInv
    <3>3. QED
      BY <1>1, <3>2, StacksKept
  <2>4. QED
    BY <1>8, <2>2, <2>3 DEF RegistryStart
<1>9. ASSUME NEW t \in Threads, RegistryStop(t) PROVE WakeInv'
  <2>1. /\ Sound(IF t = Monitor THEN <<>> ELSE <<<<"monitor_join">>>>, sequence)
        /\ Sound(<<<<"disconnect_all">>>>, sequence)
    BY <1>4, SoundOne, PlainFits
  <2>2. Sound((IF t = Monitor THEN <<>> ELSE <<<<"monitor_join">>>>)
              \o <<<<"disconnect_all">>>>, sequence)
    BY <2>1, SoundConcat
  <2>3. QED
    BY <1>2, <1>9, <2>2 DEF RegistryStop, At
<1>10. ASSUME NEW t \in Threads, JoinMonitor(t) \/ DisconnectAll(t) \/ AcceptEnvelope(t)
       PROVE  WakeInv'
  BY <1>2, <1>3, <1>4, <1>10 DEF JoinMonitor, DisconnectAll, AcceptEnvelope, At, Raises
<1>11. ASSUME NEW t \in Threads, Prune(t) PROVE WakeInv'
  <2> DEFINE gone == Outdated(Arg(t)[1], Arg(t)[2]) \ {Vehicle}
             listed == [i \in DOMAIN SetToSeq(gone) |-> <<"remove", SetToSeq(gone)[i]>>]
             last == <<<<"prune_vehicle", <<Arg(t)[1], Arg(t)[2]>>>>>>
  <2>1. IsFiniteSet(gone)
    BY FS_Subset DEF Outdated, RegistryInv
  <2>2. Sound(listed, sequence)
    BY <2>1, ListedSound
  <2>3. Sound(last, sequence)
    BY SoundOne, PlainFits
  <2>4. Does(t, listed \o last) /\ todo[t] # <<>>
    BY <1>11 DEF Prune, At
  <2> HIDE DEF listed, last
  <2>5. QED
    BY <1>2, <2>2, <2>3, <2>4, SoundConcat
<1>12. ASSUME NEW t \in Threads, PruneVehicle(t) PROVE WakeInv'
  <2>1. Sound(<<<<"remove", Vehicle>>>>, sequence)
    BY SoundOne, PlainFits
  <2>2. QED
    BY <1>2, <1>4, <1>12, <2>1 DEF PruneVehicle, At
<1>13. ASSUME NEW t \in Threads, RemoveEndpoint(t) PROVE WakeInv'
  <2>1. Sound(<<<<"user">>, <<"swallow">>>>, sequence)
    BY SoundList, PlainFits
  <2>2. QED
    BY <1>2, <1>4, <1>13, <2>1 DEF RemoveEndpoint, At, Raises
<1>14. QED
  BY <1>5, <1>6, <1>7, <1>8, <1>9, <1>10, <1>11, <1>12, <1>13 DEF RegistryNext

-------------------------------------------------------------------------------
\* The router: what is stored, and who is woken.

LEMMA LaterFits ==
  ASSUME NEW last \in Nat, NEW stack, Sound(stack, last) PROVE Sound(stack, last + 1)
<1>1. ASSUME NEW f, Fits(f, last) PROVE Fits(f, last + 1)
  <2>1. \A x \in (1..last) \X Kinds : x \in (1..(last + 1)) \X Kinds
    OBVIOUS
  <2>2. QED
    BY <1>1, <2>1 DEF Fits
<1>2. QED
  BY <1>1 DEF Sound

\* Waking those who sleep leaves nobody asleep.
LEMMA AllAwake ==
  ASSUME WakeInv, NEW stacks,
         \A t \in Threads : stacks[t] = todo[t] \/ Sound(stacks[t], sequence)
  PROVE  \A t \in Threads : Sound(Awake(stacks)[t], sequence)
<1>1. SUFFICES ASSUME NEW t \in Threads PROVE Sound(Awake(stacks)[t], sequence)
  OBVIOUS
<1> DEFINE head == Head(stacks[t])
<1>2. Awake(stacks)[t] = IF stacks[t] # <<>> /\ head[1] = "asleep"
                         THEN <<[head EXCEPT ![1] = "look"]>> \o Tail(stacks[t])
                         ELSE stacks[t]
  BY DEF Awake
<1>3. CASE stacks[t] # <<>> /\ head[1] = "asleep"
  <2>1. ~Sound(stacks[t], sequence)
    <3>1. ASSUME Sound(stacks[t], sequence) PROVE FALSE
      <4>1. head \in ToSet(stacks[t])
        BY <1>3, <3>1 DEF Sound, ToSet
      <4>2. QED
        BY <1>3, <3>1, <4>1 DEF Sound, Fits
    <3>2. QED
      BY <3>1
  <2>2. stacks[t] = todo[t] /\ Sleeps(t)
    BY <2>1 DEF WakeInv
  <2>3. WaitFrame(head) /\ Sound(Tail(stacks[t]), sequence)
    BY <2>2 DEF Sleeps
  <2>4. [head EXCEPT ![1] = "look"]
          = <<"look", <<head[2][1], head[2][2], head[2][3], head[2][4]>>>>
    BY <2>3 DEF WaitFrame
  <2>5. Fits([head EXCEPT ![1] = "look"], sequence)
    BY <2>3, <2>4 DEF Fits, WaitFrame
  <2>6. QED
    BY <1>2, <1>3, <2>3, <2>5, SoundOne, SoundConcat
<1>4. CASE ~(stacks[t] # <<>> /\ head[1] = "asleep")
  <2>1. CASE Sound(stacks[t], sequence)
    BY <1>2, <1>4, <2>1
  <2>2. CASE stacks[t] = todo[t] /\ Sleeps(t)
    BY <1>4, <2>2 DEF Sleeps
  <2>3. QED
    BY <2>1, <2>2 DEF WakeInv
<1>5. QED
  BY <1>3, <1>4

\* The router stops, or stores: everybody looks again.
LEMMA WakingKeeps ==
  ASSUME WakeInv, UNCHANGED <<sequence, inbox>>, history' \in Seq((1..sequence) \X Kinds),
         NEW stacks, todo' = Awake(stacks),
         \A t \in Threads : stacks[t] = todo[t] \/ Sound(stacks[t], sequence)
  PROVE  WakeInv'
<1>1. \A t \in Threads : Sound(todo'[t], sequence)
  BY AllAwake
<1>2. todo' = [t \in Threads |-> todo'[t]]
  BY DEF Awake
<1>3. QED
  BY <1>1, <1>2 DEF WakeInv

LEMMA ConnectionKeeps ==
  ASSUME WakeInv, NEW t \in Threads,
         \/ Connect(t) \/ Connected(t) \/ NotConnected(t) \/ CancelConnect(t) \/ Release(t)
         \/ RouterStart(t) \/ RouterExit(t) \/ RouterStop(t) \/ JoinReader(t)
  PROVE  WakeInv'
<1>1. UNCHANGED <<sequence, inbox, history, reading>> /\ todo[t] # <<>>
  BY DEF Connect, Connected, NotConnected, CancelConnect, Release, RouterStart, RouterExit,
     RouterStop, JoinReader, At, routerVars, store
<1>2. ASSUME NEW frames, Does(t, frames), Sound(frames, sequence) PROVE WakeInv'
  BY <1>1, <1>2, DoesKeeps
<1>3. /\ Sound(<<>>, sequence) /\ Sound(<<<<"raise">>>>, sequence)
      /\ Sound(<<<<"heartbeat">>>>, sequence) /\ Sound(<<<<"release">>>>, sequence)
      /\ Sound(<<<<"reader_join">>>>, sequence)
      /\ Sound(<<<<"connect">>, <<"router_run">>, <<"router_exit", FALSE>>>>, sequence)
      /\ Sound(<<<<"disconnect">>, <<"router_stopped", FALSE>>>>, sequence)
  BY SoundEmpty, SoundOne, SoundList, PlainFits
<1>4. CASE Connect(t) \/ Connected(t) \/ NotConnected(t) \/ CancelConnect(t) \/ Release(t)
  BY <1>2, <1>3, <1>4 DEF Connect, Connected, NotConnected, CancelConnect, Release, Raises
<1>5. CASE RouterStart(t) \/ RouterExit(t)
  BY <1>2, <1>3, <1>5 DEF RouterStart, RouterExit, Raises
<1>6. CASE RouterStop(t) \/ JoinReader(t)
  BY <1>2, <1>3, <1>6 DEF RouterStop, JoinReader, Disconnect, Raises
<1>7. QED
  BY <1>4, <1>5, <1>6

LEMMA RunKeeps ==
  ASSUME WakeInv, NEW t \in Threads, RouterRun(t) \/ RouterStopped(t) PROVE WakeInv'
<1>0. todo[t] # <<>> /\ Reader \in Threads
  BY RouterAssumption DEF RouterRun, RouterStopped, At
<1>1. Sound(Becomes(t, <<>>), sequence) /\ Sound(<<<<"read">>>>, sequence)
  BY <1>0, DoesSound, SoundEmpty, SoundOne, PlainFits
<1>2. CASE RouterRun(t)
  <2>1. /\ reading' = TRUE /\ history' = <<>> /\ UNCHANGED <<sequence, inbox>>
        /\ todo' = [todo EXCEPT ![t] = Becomes(t, <<>>), ![Reader] = <<<<"read">>>>]
    BY <1>2 DEF RouterRun
  <2>2. /\ todo' = [u \in Threads |-> todo'[u]]
        /\ \A u \in Threads : todo'[u] = todo[u] \/ Sound(todo'[u], sequence)
    BY <1>0, <1>1, <2>1 DEF WakeInv
  <2>3. ASSUME NEW u \in Threads, todo'[u] = todo[u], Sleeps(u) PROVE Sleeps(u)'
    BY <2>1, <2>3 DEF Sleeps
  <2>4. history' \in Seq((1..sequence) \X Kinds)
    BY <2>1
  <2>5. QED
    BY <2>1, <2>2, <2>3, <2>4 DEF WakeInv
<1>3. CASE RouterStopped(t)
  <2> DEFINE stacks == [todo EXCEPT ![t] = Becomes(t, <<>>)]
  <2>1. \A u \in Threads : stacks[u] = todo[u] \/ Sound(stacks[u], sequence)
    BY <1>1 DEF WakeInv
  <2>2. /\ todo' = Awake(stacks) /\ UNCHANGED <<sequence, inbox>>
        /\ history' \in Seq((1..sequence) \X Kinds)
    BY <1>3 DEF RouterStopped, store, WakeInv
  <2> HIDE DEF stacks
  <2>3. QED
    BY <2>1, <2>2, WakingKeeps
<1>4. QED
  BY <1>2, <1>3

\* The reader takes, filters and stores a message.
LEMMA ReaderKeeps ==
  ASSUME WakeInv, ReaderEnds \/ Receive \/ Accept \/ Store PROVE WakeInv'
<1>0. todo[Reader] # <<>> /\ Reader \in Threads /\ ~At(Reader, "asleep")
  BY RouterAssumption DEF ReaderEnds, Receive, Accept, Store, At
<1>1. CASE ReaderEnds
  <2> DEFINE stacks == [todo EXCEPT ![Reader] = <<>>]
  <2>1. \A u \in Threads : stacks[u] = todo[u] \/ Sound(stacks[u], sequence)
    BY SoundEmpty DEF WakeInv
  <2>2. /\ todo' = Awake(stacks) /\ UNCHANGED <<sequence, inbox>>
        /\ history' \in Seq((1..sequence) \X Kinds)
    BY <1>1 DEF ReaderEnds, store, WakeInv
  <2> HIDE DEF stacks
  <2>3. QED
    BY <2>1, <2>2, WakingKeeps
<1>2. CASE Receive
  <2>1. /\ inbox # <<>> /\ inbox' = Tail(inbox) /\ sequence' = sequence + 1
        /\ history' = history /\ reading' = reading
        /\ Does(Reader, <<<<"accept", <<sequence + 1, Head(inbox)>>>>>>)
    BY <1>2 DEF Receive
  <2>2. sequence \in Nat /\ inbox \in Seq(Kinds)
    BY DEF WakeInv
  <2>3. inbox' \in Seq(Kinds) /\ Head(inbox) \in Kinds
    BY <2>1, <2>2
  <2>4. Fits(<<"accept", <<sequence + 1, Head(inbox)>>>>, sequence + 1)
    BY <2>2, <2>3 DEF Fits
  <2>5. Sound(Becomes(Reader, <<<<"accept", <<sequence + 1, Head(inbox)>>>>>>), sequence + 1)
    <3>1. Sound(Tail(todo[Reader]), sequence + 1)
      BY <1>0, <2>2, Below, LaterFits
    <3>2. QED
      BY <2>4, <3>1, SoundOne, SoundConcat, SoundReached DEF Becomes
  <2>6. /\ todo' = [u \in Threads |-> todo'[u]]
        /\ \A u \in Threads : todo'[u] = todo[u] \/ Sound(todo'[u], sequence')
    BY <1>0, <2>1, <2>5 DEF Does, WakeInv
  <2>7. ASSUME NEW u \in Threads, todo'[u] = todo[u]
        PROVE  (Sound(todo[u], sequence) \/ Sleeps(u))'
    <3>1. CASE Sound(todo[u], sequence)
      BY <2>1, <2>2, <2>7, <3>1, LaterFits
    <3>2. CASE Sleeps(u)
      <4>1. Sound(Tail(todo[u]), sequence')
        BY <2>1, <2>2, <3>2, LaterFits DEF Sleeps
      <4>2. QED
        BY <2>1, <2>7, <3>2, <4>1 DEF Sleeps
    <3>3. QED
      BY <3>1, <3>2 DEF WakeInv
  <2>8. history' \in Seq((1..sequence') \X Kinds)
    <3>1. (1..sequence) \X Kinds \subseteq (1..sequence') \X Kinds
      BY <2>1, <2>2
    <3>2. history \in Seq((1..sequence) \X Kinds)
      BY DEF WakeInv
    <3>3. QED
      BY <2>1, <3>1, <3>2, SeqWider
  <2>9. QED
    BY <2>1, <2>2, <2>3, <2>6, <2>7, <2>8 DEF WakeInv
<1>3. CASE Accept
  <2>1. Head(todo[Reader])[1] = "accept" /\ Arg(Reader) \in (1..sequence) \X Kinds
    BY <1>0, <1>3, AtTop DEF Accept, At, Arg, Fits
  <2>2. Fits(<<"store", Arg(Reader)>>, sequence)
    BY <2>1 DEF Fits
  <2>3. Sound(<<<<"store", Arg(Reader)>>>>, sequence) /\ Sound(<<<<"read">>>>, sequence)
    BY <2>2, SoundOne, PlainFits
  <2>4. QED
    BY <1>0, <1>3, <2>3, DoesKeeps DEF Accept, routerVars, store
<1>4. CASE Store
  <2> DEFINE frames == <<<<"published", Arg(Reader)>>, <<"swallow">>, <<"user">>,
                         <<"swallow">>, <<"read">>>>
             F == {<<"published", Arg(Reader)>>, <<"swallow">>, <<"user">>, <<"read">>}
             stacks == [todo EXCEPT ![Reader] = frames]
             all == Append(history, Arg(Reader))
  <2>1. Arg(Reader) \in (1..sequence) \X Kinds
    BY <1>0, <1>4, AtTop DEF Store, At, Arg, Fits
  <2>2. history' = IF Len(all) > HistoryLimit THEN Tail(all) ELSE all
    BY <1>4 DEF Store
  <2>3. history' \in Seq((1..sequence) \X Kinds)
    <3>1. PICK T : T = (1..sequence) \X Kinds
      OBVIOUS
    <3>2. history \in Seq(T) /\ Arg(Reader) \in T
      BY <2>1, <3>1 DEF WakeInv
    <3>3. all \in Seq(T) /\ all # <<>>
      BY <3>2, AppendProperties
    <3>4. history' \in Seq(T)
      BY <2>2, <3>3, HeadTailProperties
    <3>5. QED
      BY <3>1, <3>4
  <2>4. Sound(frames, sequence)
    <3>1. frames \in Seq(F)
      OBVIOUS
    <3>2. \A f \in F : Fits(f, sequence)
      BY PlainFits
    <3> HIDE DEF F, frames
    <3>3. QED
      BY <3>1, <3>2, SoundFrom
  <2>5. todo' = Awake(stacks) /\ UNCHANGED <<sequence, inbox>>
    BY <1>4 DEF Store
  <2> HIDE DEF frames
  <2>6. \A u \in Threads : stacks[u] = todo[u] \/ Sound(stacks[u], sequence)
    BY <2>4 DEF WakeInv
  <2> HIDE DEF stacks
  <2>7. QED
    BY <2>3, <2>5, <2>6, WakingKeeps
<1>5. QED
  BY <1>1, <1>2, <1>3, <1>4

\* A frame that is no mark is reached at once.
LEMMA ReachedAtOnce ==
  ASSUME NEW S, NEW f \in S, f[1] \notin Marks, NEW rest \in Seq(S)
  PROVE  Reached(<<f>> \o rest) = <<f>> \o rest
<1> DEFINE stack == <<f>> \o rest
           places == {j \in 1..Len(stack) : stack[j][1] \notin Marks}
           i == IF places # {} THEN Min(places) ELSE 0
<1>1. /\ stack \in Seq(S) /\ Len(stack) \in Nat /\ Len(stack) >= 1
      /\ stack[1] = f
  <2>1. <<f>> \in Seq(S) /\ Len(<<f>>) = 1 /\ Len(rest) \in Nat
    OBVIOUS
  <2>2. /\ stack \in Seq(S) /\ Len(stack) = 1 + Len(rest)
        /\ \A j \in 1..(1 + Len(rest)) :
             stack[j] = IF j <= 1 THEN <<f>>[j] ELSE rest[j - 1]
    BY <2>1, ConcatProperties
  <2>3. QED
    BY <2>1, <2>2
<1>2. Reached(stack) = IF i = 0 THEN <<>> ELSE SubSeq(stack, i, Len(stack))
  BY DEF Reached, SelectInSeq
<1> HIDE DEF stack
<1>3. 1 \in places
  BY <1>1
<1>4. places \in SUBSET Nat
  OBVIOUS
<1>5. Min(places) \in places /\ Min(places) <= 1
  BY <1>3, <1>4, MinExists
<1>6. Min(places) = 1
  <2>1. Min(places) \in 1..Len(stack)
    BY <1>5
  <2>2. QED
    BY <1>1, <1>5, <2>1
<1>7. i = 1
  BY <1>3, <1>6
<1>8. SubSeq(stack, 1, Len(stack)) = stack
  BY <1>1
<1>9. Reached(stack) = stack
  <2> HIDE DEF i, places
  <2>1. QED
    BY <1>2, <1>7, <1>8
<1>10. QED
  BY <1>9 DEF stack

\* A sequence is one over its own elements.
LEMMA OverItself ==
  ASSUME NEW S, NEW s \in Seq(S)
  PROVE  s \in Seq(ToSet(s))
<1>1. s \in [1..Len(s) -> ToSet(s)] /\ Len(s) \in Nat
  BY DEF ToSet
<1>2. QED
  BY <1>1

\* What is raised in a wait that times out: the fourth part of its frame.
LEMMA FourthSet ==
  ASSUME NEW a, NEW b, NEW c, NEW d
  PROVE  [<<a, b, c, d>> EXCEPT ![4] = TRUE] = <<a, b, c, TRUE>>
<1> DEFINE s == <<a, b, c, d>>
           e == [s EXCEPT ![4] = TRUE]
           r == <<a, b, c, TRUE>>
<1>1. /\ DOMAIN s = 1..4 /\ s[1] = a /\ s[2] = b /\ s[3] = c
      /\ DOMAIN r = 1..4 /\ r[1] = a /\ r[2] = b /\ r[3] = c /\ r[4] = TRUE
  OBVIOUS
<1>2. e = [i \in DOMAIN s |-> IF i = 4 THEN TRUE ELSE s[i]]
  OBVIOUS
<1>3. r = [i \in 1..4 |-> r[i]]
  OBVIOUS
<1> HIDE DEF s, r, e
<1>4. e = [i \in 1..4 |-> e[i]]
  BY <1>1, <1>2
<1>5. ASSUME NEW i \in 1..4 PROVE e[i] = r[i]
  <2>1. e[i] = IF i = 4 THEN TRUE ELSE s[i]
    BY <1>1, <1>2
  <2>2. i = 1 \/ i = 2 \/ i = 3 \/ i = 4
    OBVIOUS
  <2>3. QED
    BY <1>1, <2>1, <2>2
<1>6. e = r
  BY <1>3, <1>4, <1>5
<1>7. QED
  BY <1>6 DEF e, r, s

LEMMA WaitKeeps ==
  ASSUME WakeInv, NEW t \in Threads, WaitFor(t) \/ Look(t) \/ Check(t) \/ TimeOut(t)
  PROVE  WakeInv'
<1>1. UNCHANGED <<sequence, inbox, history, reading>> /\ todo[t] # <<>>
      /\ sequence \in Nat
  BY DEF WaitFor, Look, Check, TimeOut, At, routerVars, store, WakeInv
<1>2. ASSUME NEW frames, Does(t, frames), Sound(frames, sequence) PROVE WakeInv'
  BY <1>1, <1>2, DoesKeeps
<1>3. Sound(<<>>, sequence) /\ Sound(<<<<"raise">>>>, sequence)
  BY SoundEmpty, SoundOne, PlainFits
<1>4. ASSUME NEW name \in {"look", "check"}, NEW a, NEW b, NEW c \in Nat, NEW d
      PROVE  Sound(<<<<name, <<a, b, c, d>>>>>>, sequence)
  <2>1. Fits(<<name, <<a, b, c, d>>>>, sequence)
    BY DEF Fits, WaitFrame
  <2>2. QED
    BY <2>1, SoundOne
<1>5. CASE WaitFor(t)
  BY <1>1, <1>2, <1>3, <1>4, <1>5 DEF WaitFor, Raises
<1>6. CASE Look(t)
  BY <1>1, <1>2, <1>3, <1>4, <1>6 DEF Look, Raises
<1>7. CASE Check(t)
  <2>1. /\ Head(todo[t])[1] = "check" /\ ~At(t, "asleep")
    BY <1>7 DEF Check, At
  <2>2. WaitFrame(Head(todo[t]))
    BY <1>1, <2>1, AtTop DEF Fits
  <2>3. /\ Arg(t) = <<Arg(t)[1], Arg(t)[2], Arg(t)[3], Arg(t)[4]>> /\ Arg(t)[3] \in Nat
    BY <2>2 DEF WaitFrame, Arg
  <2>4. CASE Raises(t)
    BY <1>2, <1>3, <2>4 DEF Raises
  <2>5. CASE Does(t, <<<<"look", Arg(t)>>>>)
    <3>1. Sound(<<<<"look", Arg(t)>>>>, sequence)
      BY <1>4, <2>3
    <3>2. QED
      BY <1>2, <2>5, <3>1
  <2>6. CASE ~(sequence > Seen(t)) /\ reading /\ Does(t, <<<<"asleep", Arg(t)>>>>)
    <3> DEFINE f == <<"asleep", Arg(t)>>
               rest == Tail(todo[t])
               S == {f} \cup ToSet(rest)
    <3>1. Sound(rest, sequence)
      BY <1>1, Below
    <3>2. rest \in Seq(S) /\ f \in S /\ f[1] \notin Marks
      BY <3>1, SeqWider DEF Sound, Marks
    <3>3. Becomes(t, <<f>>) = <<f>> \o rest
      <4> HIDE DEF f, rest, S
      <4>1. Reached(<<f>> \o rest) = <<f>> \o rest
        BY <3>2, ReachedAtOnce
      <4>2. QED
        BY <4>1 DEF Becomes, rest
    <3>4. /\ <<f>> \o rest \in Seq(S) /\ <<f>> \o rest # <<>>
          /\ Head(<<f>> \o rest) = f /\ Tail(<<f>> \o rest) = rest
      <4> HIDE DEF f, rest, S
      <4>1. <<f>> \in Seq(S) /\ rest \in Seq(S)
        BY <3>2
      <4>2. QED
        BY <4>1, HeadTailProperties
    <3>5. /\ todo' = [u \in Threads |-> todo'[u]] /\ todo'[t] = <<f>> \o rest
          /\ \A u \in Threads : u # t => todo'[u] = todo[u]
      BY <2>6, <3>3 DEF Does, WakeInv
    <3>6. WaitFrame(f) /\ f[2][3] = Arg(t)[3] /\ f[1] = "asleep"
      BY <2>3 DEF WaitFrame
    <3>7. todo'[t] \in Seq(ToSet(todo'[t]))
      <4> HIDE DEF f, rest, S
      <4>1. <<f>> \o rest \in Seq(ToSet(<<f>> \o rest))
        BY <3>4, OverItself
      <4>2. QED
        BY <3>5, <4>1
    <3>8. \A i \in DOMAIN history : history[i][1] <= Arg(t)[3]
      <4>1. sequence <= Arg(t)[3]
        BY <1>1, <2>3, <2>6 DEF Seen
      <4>2. ASSUME NEW i \in DOMAIN history PROVE history[i][1] <= Arg(t)[3]
        <5>1. history[i] \in (1..sequence) \X Kinds
          BY DEF WakeInv
        <5>2. history[i][1] \in 1..sequence
          BY <5>1
        <5>3. QED
          BY <1>1, <2>3, <4>1, <5>2
      <4>3. QED
        BY <4>2
    <3> HIDE DEF f, rest, S
    <3>9. Sleeps(t)'
      BY <1>1, <2>6, <3>1, <3>4, <3>5, <3>6, <3>7, <3>8 DEF Sleeps
    <3>10. ASSUME NEW u \in Threads, u # t, Sleeps(u) PROVE Sleeps(u)'
      BY <1>1, <3>5, <3>10 DEF Sleeps
    <3>11. QED
      BY <1>1, <3>5, <3>9, <3>10 DEF WakeInv
  <2>7. QED
    BY <1>7, <2>4, <2>5, <2>6 DEF Check
<1>8. CASE TimeOut(t)
  <2>1. WaitFrame(Head(todo[t]))
    <3>1. Head(todo[t])[1] = "asleep"
      BY <1>8 DEF TimeOut, At
    <3>2. ~Sound(todo[t], sequence)
      <4>1. ASSUME Sound(todo[t], sequence) PROVE FALSE
        <5>1. Head(todo[t]) \in ToSet(todo[t])
          BY <1>1, <4>1 DEF Sound, ToSet
        <5>2. QED
          BY <3>1, <4>1, <5>1 DEF Sound, Fits
      <4>2. QED
        BY <4>1
    <3>3. QED
      BY <3>2 DEF WakeInv, Sleeps
  <2>2. /\ Arg(t) = <<Arg(t)[1], Arg(t)[2], Arg(t)[3], Arg(t)[4]>> /\ Arg(t)[3] \in Nat
    BY <2>1 DEF WaitFrame, Arg
  <2>3. [Arg(t) EXCEPT ![4] = TRUE] = <<Arg(t)[1], Arg(t)[2], Arg(t)[3], TRUE>>
    <3>1. [<<Arg(t)[1], Arg(t)[2], Arg(t)[3], Arg(t)[4]>> EXCEPT ![4] = TRUE]
            = <<Arg(t)[1], Arg(t)[2], Arg(t)[3], TRUE>>
      BY FourthSet
    <3>2. QED
      BY <2>2, <3>1
  <2>4. Sound(<<<<"look", [Arg(t) EXCEPT ![4] = TRUE]>>>>, sequence)
    BY <1>4, <2>2, <2>3
  <2>5. QED
    BY <1>2, <1>8, <2>4 DEF TimeOut
<1>9. QED
  BY <1>5, <1>6, <1>7, <1>8

LEMMA WakeStep ==
  ASSUME WakeInv, RegistryInv, [Next]_vars PROVE WakeInv'
<1>1. CASE RouterNext
  BY <1>1, ReaderKeeps, ConnectionKeeps, RunKeeps, WaitKeeps DEF RouterNext
<1>2. CASE RegistryNext /\ UNCHANGED <<routerVars, runtimeVars>>
  BY <1>2, RegistryKeepsStacks
<1>3. CASE RuntimeNext
  BY <1>3, CallsKeep, LifecycleKeeps DEF RuntimeNext
<1>4. CASE UNCHANGED vars
  BY <1>4, StacksKept DEF vars, routerVars, store, WakeInv
<1>5. QED
  BY <1>1, <1>2, <1>3, <1>4 DEF Next, Terminating

LEMMA WakeInit == Init => WakeInv /\ RegistryInv
<1>1. SUFFICES ASSUME Init PROVE WakeInv
  BY FS_EmptySet DEF Init, RegistryInit, RegistryInv, SelectedIsLive
<1>2. /\ todo = [t \in Threads |-> <<>>] /\ sequence = 0 /\ history = <<>>
      /\ inbox \in Seq(Kinds)
  BY <1>1, RouterAssumption DEF Init, RouterInit
<1>3. \A t \in Threads : Sound(todo[t], sequence)
  BY <1>2, SoundEmpty
<1>4. todo = [t \in Threads |-> todo[t]] /\ history \in Seq((1..sequence) \X Kinds)
  BY <1>2
<1>5. QED
  BY <1>2, <1>3, <1>4 DEF WakeInv

\* Whoever sleeps in wait_for sleeps beside no stored message that was numbered after
\* his last look, and while the router runs: no such message, no stop and no restart
\* gets lost between the look and the sleep, whatever the threads, the capacities
\* and the commands (router.py:331-371).
THEOREM NewMessagesWakeSleepers == Spec => []NewMessagesWake
<1>1. Init => WakeInv /\ RegistryInv
  BY WakeInit
<1>2. WakeInv /\ RegistryInv /\ [Next]_vars => (WakeInv /\ RegistryInv)'
  BY WakeStep, RegistryStep
<1>3. WakeInv => NewMessagesWake
  <2>1. SUFFICES ASSUME WakeInv, NEW t \in Threads, At(t, "asleep")
                 PROVE  reading /\ \A i \in DOMAIN history : history[i][1] <= Seen(t)
    BY DEF NewMessagesWake
  <2>2. Head(todo[t])[1] = "asleep" /\ todo[t] # <<>>
    BY <2>1 DEF At
  <2>3. ~Sound(todo[t], sequence)
    <3>1. ASSUME Sound(todo[t], sequence) PROVE FALSE
      <4>1. Head(todo[t]) \in ToSet(todo[t])
        BY <2>2, <3>1 DEF Sound, ToSet
      <4>2. QED
        BY <2>2, <3>1, <4>1 DEF Sound, Fits
    <3>2. QED
      BY <3>1
  <2>4. QED
    BY <2>1, <2>3 DEF WakeInv, Sleeps, Seen, Arg
<1>4. QED
  BY <1>1, <1>2, <1>3, PTL DEF Spec

-------------------------------------------------------------------------------
\* What is on a stack, by places: the word of a stack goes on without an end.

Places == Nat \ {0}
Word(stack) == [i \in Places |-> IF i \in 1..Len(stack) THEN stack[i] ELSE <<"end">>]

\* Frames that are on the stack of the thread with the lifecycle lock only.
Lifecycle ==
  {"start", "stop", "exit", "router_start", "connect", "heartbeat", "router_run", "router_exit",
   "services_start", "registry_start", "start_end", "rolled", "dispatcher_stop", "handler_join",
   "router_stop", "reader_join", "router_stopped", "report", "caught"}

\* What start() and stop() have still to do: the names of the two frames that follow the
\* frame n, which is at the top or below it.
Chain(n, m, k, top) ==
  /\ n \in {"start", "stop"} => top /\ m = "exit"
  /\ n = "router_start" => top /\ m = "services_start"
  /\ n \in {"connect", "heartbeat"} => top /\ m = "router_run"
  /\ n = "router_run" => m = "router_exit"
  /\ n = "router_exit" => m = "services_start" \/ (top /\ m = "raise" /\ k = "services_start")
  /\ n = "services_start" => m = "registry_start"
  /\ n = "registry_start" => m = "start_end"
  /\ n = "start_end" => m = "exit" \/ (top /\ m = "raise" /\ k = "exit")
  /\ n = "rolled" => m = "raise" /\ k = "exit"
  /\ n = "report" => m = "exit"
  /\ n \in {"dispatcher_stop", "handler_join"} => m = "caught" /\ k = "router_stop"
  /\ n \in {"router_stop", "reader_join"} => m = "caught" /\ k \in Reports
  /\ n = "router_stopped" =>
       (m = "caught" /\ k \in Reports) \/ (top /\ m = "raise" /\ k = "caught")
  /\ n = "caught" => m \in {"dispatcher_stop", "router_stop"} \cup Reports
  /\ n \in {"handler_join", "reader_join"} => top

\* What may be above these frames, and what they may be above.
Gate(n, m, k, top) ==
  /\ n = "exit" => m \notin Lifecycle
  /\ n = "monitor_join" => top /\ m = "disconnect_all"
  /\ n = "registry_stop" => m = "closed" \/ (top /\ m = "caught")
  /\ n = "closed" => m = "close_end"
  /\ m = "raise" => n = "rolled" \/ (top /\ n \in Finally)
  /\ m \in Lifecycle => n \in Lifecycle \cup {"raise", "swallow", "registry_accept",
       "registry_stop", "disconnect_all", "disconnect", "release"}
  /\ n = "raise" /\ m \in Lifecycle => m \in {"router_run", "services_start", "registry_start",
       "start_end", "caught", "router_stopped", "exit"}
  /\ n \in {"swallow", "registry_stop", "disconnect_all", "registry_accept"} /\ m \in Lifecycle =>
       \/ n \in {"swallow", "registry_accept"} /\ m = "exit"
       \/ n # "registry_accept" /\ m = "caught" /\ k = "dispatcher_stop"
  /\ n \in {"disconnect", "release"} /\ m \in Lifecycle => top /\ m = "router_stopped"
  /\ m = "registry_accept" => n = "swallow"
  /\ m = "disconnect_all" => top /\ n \in {"monitor_join", "raise"}
  /\ m = "swallow" /\ k \in {"caught", "exit"} => n = "user"
  /\ m = "exit" /\ k = "registry_stop" => n \in {"stop", "report", "swallow", "raise"}

\* What a frame has in its argument.
Agrees(f, m) ==
  /\ m = "registry_stop" => f[1] \in {"exit", "raise"} \/ (f[1] = "enter" /\ f[2] = "stop")
  /\ f[1] = "start_end" => f[2] = (m = "raise")
  /\ f[1] \in Reports => f[2] \in BOOLEAN

Linked(w, i) ==
  /\ Chain(w[i][1], w[i + 1][1], w[i + 2][1], i = 1)
  /\ Gate(w[i][1], w[i + 1][1], w[i + 2][1], i = 1)
  /\ Agrees(w[i], w[i + 1][1])

\* The frames of the lifecycle are above the end of its lock.
Placed(w) ==
  \A i, j \in Places : w[i][1] = "exit" /\ w[j][1] \in Lifecycle => j <= i

Once(w) == \A i, j \in Places : w[i][1] = "close_end" /\ w[j][1] = "close_end" => i = j

Receiving == {"read", "accept", "store"}
Bottom(w) == \A i, j \in Places : w[i][1] \in Receiving /\ i < j => w[j] = <<"end">>

Sane(w) == (\A i \in Places : Linked(w, i)) /\ Placed(w) /\ Once(w) /\ Bottom(w)

Has(w, name) == \E i \in Places : w[i][1] = name

\* A report that has not been told of an exception.
Untold(w) == \E i \in Places : w[i][1] \in Reports /\ w[i][2] = FALSE

\* A close() whose stop() has returned.
Awaits(w) ==
  \E i \in Places : /\ w[i][1] \in {"enter", "raise", "exit"}
                    /\ w[i + 1][1] = "registry_stop" /\ w[i + 2][1] = "closed"
Due(w) == Has(w, "closed") /\ ~Awaits(w)

\* The end of a stop() that close() has called.
Returns(w) == \E i \in Places : w[i][1] = "exit" /\ w[i + 1][1] = "registry_stop"

\* The registry is being stopped by stop().
Halting(w) ==
  \/ w[1][1] \in {"registry_stop", "disconnect_all"} /\ w[2][1] = "caught"
  \/ w[1][1] \in {"monitor_join", "raise"} /\ w[2][1] = "disconnect_all" /\ w[3][1] = "caught"

Unconnected == ~link /\ ~reading /\ Idle(Reader)
Unwatched == ~open /\ connected = {} /\ (stopWatch \/ Idle(Monitor))

StartStage(w) ==
  /\ Has(w, "start_end") =>
       /\ ~cleanup
       /\ Unwatched \/ (w[1][1] = "start_end" /\ w[2][1] = "exit")
       /\ dispatching => "dispatcher" \in started
       /\ Has(w, "services_start") \/ Unconnected \/ "client" \in started
  /\ w[1][1] = "registry_start" \/ (w[1][1] = "start_end" /\ w[2][1] = "exit") => running
  /\ Has(w, "services_start") =>
       /\ started = {} /\ ~dispatching /\ ~running
       /\ \/ Unconnected
          \/ w[1][1] \in {"router_run", "services_start"}
          \/ w[1][1] = "router_exit" /\ w[2][1] = "services_start"
  /\ Has(w, "router_run") => Idle(Reader)

StopStage(w) ==
  /\ Has(w, "rolled") => ~cleanup
  /\ Has(w, "report") => cleanup /\ ~running /\ ((~open /\ stopWatch) \/ w[1][1] = "registry_stop")
  /\ Untold(w) =>
       /\ dispatching => Has(w, "dispatcher_stop")
       /\ Unwatched \/ (Has(w, "report") /\ Halting(w))
       /\ Unconnected \/ Has(w, "caught")
  /\ Has(w, "router_stopped") =>
       Idle(Reader) /\ (~link \/ w[1][1] \in {"disconnect", "release"})
  /\ /\ Returns(w) /\ (\A a \in Lifecycle : Has(w, a) => a = "exit")
     /\ ~(w[1][1] = "raise" /\ w[2][1] = "exit")
     => ~running /\ ~cleanup

W(t) == Word(todo[t])

Starting == \E t \in Threads : Has(W(t), "start_end") \/ Has(W(t), "rolled")
Stopped == ~running /\ ~cleanup /\ ~Starting

\* The inductive invariant.
ReleaseInv ==
  /\ \A t \in Threads : Sane(W(t)) /\ StartStage(W(t)) /\ StopStage(W(t))
  /\ \A t \in Threads : \A a \in Lifecycle : Has(W(t), a) => t = owner
  /\ \A t, u \in Threads : Has(W(t), "close_end") /\ Has(W(u), "close_end") => t = u
  /\ \A t \in Threads : Has(W(t), "close_end") => closing
  /\ \A t \in Threads : Due(W(t)) => Stopped
  /\ ~thread => Idle(Reader)
  /\ "dispatcher" \in started => "client" \in started
  /\ Stopped => Unconnected /\ Unwatched /\ ~dispatching
  /\ closed => Stopped
-------------------------------------------------------------------------------
\* Stacks by their places.

\* This stack is the other one with its first d frames exchanged.
Swaps(new, stack, frames, d) ==
  /\ d \in 1..Len(stack)
  /\ {Len(new), Len(frames), Len(stack)} \subseteq Nat
  /\ Len(new) = Len(frames) + (Len(stack) - d)
  /\ \A i \in 1..Len(frames) : new[i] = frames[i]
  /\ \A i \in 1..(Len(stack) - d) : new[Len(frames) + i] = stack[d + i]

\* What Reached() leaves are the frames from the first that is no mark.
LEMMA ReachedIs ==
  ASSUME NEW S, NEW stack \in Seq(S)
  PROVE  \E e \in 0..Len(stack) :
           /\ Len(stack) \in Nat /\ Len(Reached(stack)) = Len(stack) - e
           /\ \A i \in 1..(Len(stack) - e) : Reached(stack)[i] = stack[e + i]
           /\ \A i \in 1..e : stack[i][1] \in Marks
           /\ e < Len(stack) => stack[e + 1][1] \notin Marks
<1> DEFINE places == {j \in 1..Len(stack) : stack[j][1] \notin Marks}
           i == IF places # {} THEN Min(places) ELSE 0
<1>1. Reached(stack) = IF i = 0 THEN <<>> ELSE SubSeq(stack, i, Len(stack))
  BY DEF Reached, SelectInSeq
<1>2. Len(stack) \in Nat /\ places \in SUBSET Nat
  OBVIOUS
<1>3. places # {} => Min(places) \in places /\ \A n \in places : Min(places) <= n
  BY <1>2, MinExists
<1>4. CASE places = {}
  <2>1. Reached(stack) = <<>>
    BY <1>1, <1>4
  <2>2. \A j \in 1..Len(stack) : stack[j][1] \in Marks
    BY <1>4
  <2>3. QED
    BY <1>2, <2>1, <2>2
<1>5. CASE places # {}
  <2>1. /\ i \in 1..Len(stack) /\ stack[i][1] \notin Marks
        /\ \A j \in 1..Len(stack) : stack[j][1] \notin Marks => i <= j
    BY <1>3, <1>5
  <2>2. Reached(stack) = SubSeq(stack, i, Len(stack))
    <3>1. i # 0
      BY <1>2, <2>1
    <3> HIDE DEF i, places
    <3>2. QED
      BY <1>1, <3>1
  <2> HIDE DEF i, places
  <2>3. \A j \in i..Len(stack) : stack[j] \in S
    BY <1>2, <2>1, ElementOfSeq
  <2>4. /\ Len(SubSeq(stack, i, Len(stack))) = Len(stack) - i + 1
        /\ \A j \in 1..(Len(stack) - i + 1) : SubSeq(stack, i, Len(stack))[j] = stack[i + j - 1]
    BY <1>2, <2>1
  <2> DEFINE e == i - 1
  <2>5. e \in 0..Len(stack) /\ e < Len(stack) /\ e + 1 = i /\ Len(stack) - e = Len(stack) - i + 1
    BY <1>2, <2>1
  <2>6. \A j \in 1..(Len(stack) - e) : Reached(stack)[j] = stack[e + j]
    <3>1. \A j \in 1..(Len(stack) - e) : i + j - 1 = e + j
      BY <1>2, <2>1
    <3>2. QED
      BY <2>2, <2>4, <2>5, <3>1
  <2>7. \A j \in 1..e : stack[j][1] \in Marks
    BY <1>2, <2>1
  <2>8. QED
    BY <1>2, <2>1, <2>2, <2>4, <2>5, <2>6, <2>7
<1>6. QED
  BY <1>4, <1>5

\* A frame has been executed and calls nothing.
LEMMA PopSwaps ==
  ASSUME NEW S, NEW stack \in Seq(S), stack # <<>>
  PROVE  \E d \in 1..Len(stack) :
           /\ Swaps(Reached(<<>> \o Tail(stack)), stack, <<>>, d)
           /\ \A i \in 2..d : stack[i][1] \in Marks
           /\ d < Len(stack) => stack[d + 1][1] \notin Marks
<1> DEFINE rest == Tail(stack)
<1>1. /\ Len(stack) \in Nat /\ Len(stack) >= 1 /\ rest \in Seq(S)
      /\ Len(rest) = Len(stack) - 1
      /\ \A i \in 1..(Len(stack) - 1) : rest[i] = stack[i + 1]
  OBVIOUS
<1>2. <<>> \o rest = rest
  BY <1>1
<1> HIDE DEF rest
<1>3. PICK e \in 0..Len(rest) :
        /\ Len(Reached(rest)) = Len(rest) - e
        /\ \A i \in 1..(Len(rest) - e) : Reached(rest)[i] = rest[e + i]
        /\ \A i \in 1..e : rest[i][1] \in Marks
        /\ e < Len(rest) => rest[e + 1][1] \notin Marks
  BY <1>1, ReachedIs
<1> DEFINE d == e + 1
<1>4. d \in 1..Len(stack) /\ Len(rest) - e = Len(stack) - d /\ Len(rest) - e \in Nat
  BY <1>1, <1>3
<1>5. \A i \in 1..(Len(stack) - d) : Reached(rest)[i] = stack[d + i]
  <2>1. ASSUME NEW i \in 1..(Len(stack) - d) PROVE Reached(rest)[i] = stack[d + i]
    <3>1. Reached(rest)[i] = rest[e + i]
      BY <1>3, <1>4
    <3>2. e + i \in 1..(Len(stack) - 1) /\ (e + i) + 1 = d + i
      BY <1>1, <1>4
    <3>3. QED
      BY <1>1, <3>1, <3>2
  <2>2. QED
    BY <2>1
<1>6. \A i \in 2..d : stack[i][1] \in Marks
  <2>1. ASSUME NEW i \in 2..d PROVE stack[i][1] \in Marks
    <3>1. i - 1 \in 1..e /\ i - 1 \in 1..(Len(stack) - 1) /\ (i - 1) + 1 = i
      BY <1>1, <1>3, <1>4
    <3>2. QED
      BY <1>1, <1>3, <3>1
  <2>2. QED
    BY <2>1
<1>7. d < Len(stack) => stack[d + 1][1] \notin Marks
  <2>1. SUFFICES ASSUME d < Len(stack) PROVE stack[d + 1][1] \notin Marks
    OBVIOUS
  <2>2. e < Len(rest) /\ d \in 1..(Len(stack) - 1) /\ rest[d] = stack[d + 1]
    BY <1>1, <1>4, <2>1
  <2>3. QED
    BY <1>3, <2>2
<1>8. Swaps(Reached(rest), stack, <<>>, d)
  <2>1. Len(<<>>) = 0 /\ \A i \in 1..(Len(stack) - d) : 0 + i = i
    BY <1>1, <1>4
  <2>2. Len(Reached(rest)) = 0 + (Len(stack) - d) /\ Len(Reached(rest)) \in Nat
    BY <1>3, <1>4
  <2> HIDE DEF d
  <2>3. QED
    BY <1>1, <1>4, <1>5, <2>1, <2>2 DEF Swaps
<1>9. QED
  BY <1>2, <1>4, <1>6, <1>7, <1>8 DEF rest

\* A frame has been executed and calls others.
LEMMA PushSwaps ==
  ASSUME NEW S, NEW stack \in Seq(S), stack # <<>>,
         NEW frames \in Seq(S), frames # <<>>, frames[1][1] \notin Marks
  PROVE  Swaps(Reached(frames \o Tail(stack)), stack, frames, 1)
<1> DEFINE rest == Tail(stack)
           all == frames \o rest
<1>1. /\ Len(stack) \in Nat /\ Len(stack) >= 1 /\ rest \in Seq(S)
      /\ Len(rest) = Len(stack) - 1
      /\ \A i \in 1..(Len(stack) - 1) : rest[i] = stack[1 + i]
  OBVIOUS
<1>2. Len(frames) \in Nat /\ Len(frames) >= 1
  OBVIOUS
<1> HIDE DEF rest
<1>3. /\ all \in Seq(S) /\ Len(all) = Len(frames) + Len(rest)
      /\ \A i \in 1..Len(frames) : all[i] = frames[i]
      /\ \A i \in 1..Len(rest) : all[Len(frames) + i] = rest[i]
  <2>1. /\ all \in Seq(S) /\ Len(all) = Len(frames) + Len(rest)
        /\ \A i \in 1..(Len(frames) + Len(rest)) :
             all[i] = IF i <= Len(frames) THEN frames[i] ELSE rest[i - Len(frames)]
    BY <1>1, ConcatProperties
  <2> HIDE DEF all
  <2>2. ASSUME NEW i \in 1..Len(frames) PROVE all[i] = frames[i]
    <3>1. i \in 1..(Len(frames) + Len(rest)) /\ i <= Len(frames)
      BY <1>1, <1>2
    <3>2. QED
      BY <2>1, <3>1
  <2>3. ASSUME NEW i \in 1..Len(rest) PROVE all[Len(frames) + i] = rest[i]
    <3>1. /\ Len(frames) + i \in 1..(Len(frames) + Len(rest)) /\ ~(Len(frames) + i <= Len(frames))
          /\ (Len(frames) + i) - Len(frames) = i
      BY <1>1, <1>2
    <3>2. QED
      BY <2>1, <3>1
  <2>4. QED
    BY <2>1, <2>2, <2>3
<1> HIDE DEF all
<1>4. PICK e \in 0..Len(all) :
        /\ Len(all) \in Nat /\ Len(Reached(all)) = Len(all) - e
        /\ \A i \in 1..(Len(all) - e) : Reached(all)[i] = all[e + i]
        /\ \A i \in 1..e : all[i][1] \in Marks
  BY <1>3, ReachedIs
<1>5. e = 0
  <2>1. all[1][1] \notin Marks
    BY <1>2, <1>3
  <2>2. QED
    BY <1>4, <2>1
<1>6. /\ Len(Reached(all)) = Len(frames) + (Len(stack) - 1)
      /\ \A i \in 1..Len(all) : Reached(all)[i] = all[i]
  <2>1. Len(all) - e = Len(all) /\ Len(all) = Len(frames) + (Len(stack) - 1)
    BY <1>1, <1>2, <1>3, <1>4, <1>5
  <2>2. ASSUME NEW i \in 1..Len(all) PROVE Reached(all)[i] = all[i]
    <3>1. e + i = i
      BY <1>4, <1>5
    <3>2. QED
      BY <1>4, <2>1, <3>1
  <2>3. QED
    BY <1>4, <2>1, <2>2
<1>7. \A i \in 1..(Len(stack) - 1) : Reached(all)[Len(frames) + i] = stack[1 + i]
  <2>1. ASSUME NEW i \in 1..(Len(stack) - 1) PROVE Reached(all)[Len(frames) + i] = stack[1 + i]
    <3>1. Len(frames) + i \in 1..Len(all) /\ i \in 1..Len(rest)
      BY <1>1, <1>2, <1>3
    <3>2. QED
      BY <1>1, <1>3, <1>6, <3>1
  <2>2. QED
    BY <2>1
<1>8. \A i \in 1..Len(frames) : Reached(all)[i] = frames[i]
  <2>1. \A i \in 1..Len(frames) : i \in 1..Len(all)
    BY <1>1, <1>2, <1>3
  <2>2. QED
    BY <1>3, <1>6, <2>1
<1>9. Swaps(Reached(all), stack, frames, 1)
  BY <1>1, <1>2, <1>6, <1>7, <1>8 DEF Swaps
<1>10. QED
  BY <1>9 DEF all, rest

\* The stack after an exception, of which the reports below the frame h that keeps it are told.
Warned(told, stack, h) ==
  /\ Len(told) = Len(stack)
  /\ \A i \in 1..Len(stack) :
       told[i] = stack[i] \/ (i > h /\ stack[i][1] \in Reports /\ told[i] = Told(stack[i]))
  /\ \A i \in 1..Len(stack) : i > h /\ stack[i][1] \in Reports =>
       \E j \in (h + 1)..i : stack[j][1] \in Reports /\ told[j] = Told(stack[j])

Handlers == Marks \cup Finally

\* An exception leaves the frames above the first that handles it.
LEMMA UnwindSwaps ==
  ASSUME NEW S, NEW stack \in Seq(S), stack # <<>>
  PROVE  \/ /\ Unwound(Tail(stack)) = <<>>
            /\ \A i \in 2..Len(stack) : stack[i][1] \notin Handlers
         \/ \E h \in 2..Len(stack) :
              /\ \A i \in 2..(h - 1) : stack[i][1] \notin Handlers
              /\ \/ /\ stack[h][1] \in Finally
                    /\ Swaps(Unwound(Tail(stack)), stack, <<Told(stack[h]), <<"raise">>>>, h)
                 \/ \E d \in h..Len(stack) : \E told :
                      /\ \/ stack[h][1] = "swallow" /\ told = stack
                         \/ stack[h][1] = "caught" /\ Warned(told, stack, h)
                      /\ Swaps(Unwound(Tail(stack)), told, <<>>, d)
                      /\ \A i \in h..d : stack[i][1] \in Marks
                      /\ d < Len(stack) => stack[d + 1][1] \notin Marks
<1> DEFINE rest == Tail(stack)
           places == {k \in 1..Len(rest) : rest[k][1] \in Marks \cup Finally}
           i == IF places # {} THEN Min(places) ELSE 0
           above == SubSeq(rest, i + 1, Len(rest))
           reports == {k \in 1..Len(above) : above[k][1] \in Reports}
           j == IF reports # {} THEN Min(reports) ELSE 0
<1>1. Unwound(rest) =
        CASE i = 0 -> <<>>
          [] i > 0 /\ rest[i][1] = "swallow" -> Reached(above)
          [] i > 0 /\ rest[i][1] = "caught" ->
               Reached([above EXCEPT ![j] = Told(above[j])])
          [] OTHER -> <<Told(rest[i]), <<"raise">>>> \o above
  BY DEF Unwound, SelectInSeq
<1>2. /\ Len(stack) \in Nat /\ Len(stack) >= 1 /\ rest \in Seq(S)
      /\ Len(rest) = Len(stack) - 1
      /\ \A n \in 1..(Len(stack) - 1) : rest[n] = stack[n + 1]
  OBVIOUS
<1>3. /\ places \in SUBSET Nat
      /\ places # {} => Min(places) \in places /\ \A n \in places : Min(places) <= n
  <2>1. places \in SUBSET Nat
    OBVIOUS
  <2>2. QED
    BY <2>1, MinExists
<1> HIDE DEF rest
<1>4. CASE places = {}
  <2>1. i = 0
    BY <1>4
  <2>2. Unwound(rest) = <<>>
    <3> HIDE DEF i, places, above, reports, j
    <3>1. QED
      BY <1>1, <2>1
  <2>3. \A n \in 2..Len(stack) : stack[n][1] \notin Handlers
    <3>1. ASSUME NEW n \in 2..Len(stack) PROVE stack[n][1] \notin Handlers
      <4>1. n - 1 \in 1..Len(rest) /\ n - 1 \in 1..(Len(stack) - 1) /\ (n - 1) + 1 = n
        BY <1>2
      <4>2. rest[n - 1] = stack[n]
        BY <1>2, <4>1
      <4>3. QED
        BY <1>4, <4>1, <4>2 DEF Handlers
    <3>2. QED
      BY <3>1
  <2>4. QED
    BY <2>2, <2>3 DEF rest
<1>5. CASE places # {}
  <2> DEFINE h == i + 1
  <2>1. /\ i \in 1..Len(rest) /\ rest[i][1] \in Handlers
        /\ \A n \in 1..Len(rest) : rest[n][1] \in Handlers => i <= n
    BY <1>3, <1>5 DEF Handlers
  <2>2. Unwound(rest) =
          CASE rest[i][1] = "swallow" -> Reached(above)
            [] rest[i][1] = "caught" -> Reached([above EXCEPT ![j] = Told(above[j])])
            [] OTHER -> <<Told(rest[i]), <<"raise">>>> \o above
    <3>1. i > 0 /\ i # 0
      BY <1>2, <2>1
    <3> HIDE DEF i, above, j, places
    <3>2. QED
      BY <1>1, <3>1
  <2> HIDE DEF i, places
  <2>3. h \in 2..Len(stack) /\ rest[i] = stack[h] /\ Len(rest) - i = Len(stack) - h
    BY <1>2, <2>1
  <2>4. \A n \in 2..(h - 1) : stack[n][1] \notin Handlers
    <3>1. ASSUME NEW n \in 2..(h - 1) PROVE stack[n][1] \notin Handlers
      <4>1. n - 1 \in 1..Len(rest) /\ n - 1 \in 1..(Len(stack) - 1) /\ (n - 1) + 1 = n /\ ~(i <= n - 1)
        BY <1>2, <2>1, <2>3
      <4>2. QED
        BY <1>2, <2>1, <4>1
    <3>2. QED
      BY <3>1
  <2>5. /\ above \in Seq(S) /\ Len(above) = Len(stack) - h /\ Len(above) \in Nat
        /\ \A n \in 1..(Len(stack) - h) : above[n] = stack[h + n]
    <3>1. \A n \in (i + 1)..Len(rest) : rest[n] \in S
      BY <1>2, <2>1, ElementOfSeq
    <3>2. above \in Seq(S)
      BY <1>2, <2>1, <3>1, SubSeqProperties
    <3>3. /\ Len(above) = Len(stack) - h
          /\ \A n \in 1..(Len(rest) - i) : above[n] = rest[i + n]
      BY <1>2, <2>1
    <3>4. \A n \in 1..(Len(stack) - h) :
            n \in 1..(Len(rest) - i) /\ i + n \in 1..(Len(stack) - 1) /\ (i + n) + 1 = h + n
      BY <1>2, <2>1
    <3>5. \A n \in 1..(Len(stack) - h) : above[n] = stack[h + n]
      <4> HIDE DEF above, h
      <4>1. QED
        BY <1>2, <2>3, <3>3, <3>4
    <3>6. QED
      BY <1>2, <2>3, <3>2, <3>3, <3>5
  <2>6. reports \in SUBSET Nat
    OBVIOUS
  <2> HIDE DEF above
  <2>7. \/ j = 0 /\ \A n \in 1..Len(above) : above[n][1] \notin Reports
        \/ /\ j \in 1..Len(above) /\ above[j][1] \in Reports
           /\ \A n \in 1..Len(above) : above[n][1] \in Reports => j <= n
    <3>1. reports # {} => Min(reports) \in reports /\ \A n \in reports : Min(reports) <= n
      BY <2>6, MinExists
    <3>2. QED
      BY <3>1
  <2> HIDE DEF j, h
  <2>8. CASE stack[h][1] = "swallow"
    <3>1. Unwound(rest) = Reached(above)
      BY <2>2, <2>3, <2>8
    <3>2. PICK e \in 0..Len(above) :
            /\ Len(Reached(above)) = Len(above) - e
            /\ \A n \in 1..(Len(above) - e) : Reached(above)[n] = above[e + n]
            /\ \A n \in 1..e : above[n][1] \in Marks
            /\ e < Len(above) => above[e + 1][1] \notin Marks
      BY <2>5, ReachedIs
    <3> DEFINE d == h + e
    <3>3. /\ d \in h..Len(stack) /\ d \in 1..Len(stack) /\ Len(above) - e = Len(stack) - d
          /\ Len(stack) - d \in Nat
      BY <1>2, <2>3, <2>5, <3>2
    <3>4. \A n \in 1..(Len(stack) - d) : Reached(above)[n] = stack[d + n]
      <4>1. ASSUME NEW n \in 1..(Len(stack) - d) PROVE Reached(above)[n] = stack[d + n]
        <5>1. e + n \in 1..(Len(stack) - h) /\ h + (e + n) = d + n /\ n \in 1..(Len(above) - e)
          BY <1>2, <2>3, <2>5, <3>2, <3>3
        <5>2. QED
          BY <2>5, <3>2, <5>1
      <4>2. QED
        BY <4>1
    <3>5. \A n \in h..d : stack[n][1] \in Marks
      <4>1. ASSUME NEW n \in h..d, n # h PROVE stack[n][1] \in Marks
        <5>1. n - h \in 1..e /\ n - h \in 1..(Len(stack) - h) /\ h + (n - h) = n
          BY <1>2, <2>3, <2>5, <3>2, <3>3, <4>1
        <5>2. QED
          BY <2>5, <3>2, <5>1
      <4>2. QED
        BY <2>8, <4>1 DEF Marks
    <3>6. d < Len(stack) => stack[d + 1][1] \notin Marks
      <4>1. SUFFICES ASSUME d < Len(stack) PROVE stack[d + 1][1] \notin Marks
        OBVIOUS
      <4>2. e < Len(above) /\ e + 1 \in 1..(Len(stack) - h) /\ h + (e + 1) = d + 1
        BY <1>2, <2>3, <2>5, <3>2, <3>3, <4>1
      <4>3. QED
        BY <2>5, <3>2, <4>2
    <3> HIDE DEF d
    <3>7. Swaps(Reached(above), stack, <<>>, d)
      <4>1. Len(<<>>) = 0 /\ \A n \in 1..(Len(stack) - d) : 0 + n = n
        BY <1>2, <3>3
      <4>2. Len(Reached(above)) = 0 + (Len(stack) - d) /\ Len(Reached(above)) \in Nat
        BY <3>2, <3>3
      <4>3. QED
        BY <1>2, <3>3, <3>4, <4>1, <4>2 DEF Swaps
    <3>8. QED
      BY <2>3, <2>4, <2>8, <3>1, <3>3, <3>5, <3>6, <3>7 DEF rest
  <2>9. CASE stack[h][1] = "caught"
    <3> DEFINE warned == [above EXCEPT ![j] = Told(above[j])]
               told == [n \in 1..Len(stack) |-> IF n > h THEN warned[n - h] ELSE stack[n]]
               T == S \cup {Told(f) : f \in S}
    <3>1. Unwound(rest) = Reached(warned)
      BY <2>2, <2>3, <2>9
    <3>2. /\ warned \in Seq(T) /\ Len(warned) = Len(above)
          /\ \A n \in 1..Len(above) : warned[n] = IF n = j THEN Told(above[n]) ELSE above[n]
      <4>1. above \in Seq(T) /\ \A n \in 1..Len(above) : above[n] \in S
        BY <2>5, SeqWider, ElementOfSeq
      <4>2. \A n \in 1..Len(above) : Told(above[n]) \in T
        BY <4>1
      <4> HIDE DEF T
      <4>3. CASE j = 0
        <5>1. warned = above
          <6>1. above \in [1..Len(above) -> S] /\ j \notin 1..Len(above)
            BY <2>5, <4>3
          <6>2. QED
            BY <6>1
        <5>2. \A n \in 1..Len(above) : n # j
          BY <2>5, <4>3
        <5> HIDE DEF warned
        <5>3. QED
          BY <4>1, <5>1, <5>2
      <4>4. CASE j \in 1..Len(above)
        <5>1. warned \in Seq(T) /\ Len(warned) = Len(above)
          BY <4>1, <4>2, <4>4, ExceptSeq
        <5>2. QED
          BY <2>5, <4>1, <4>4, <5>1
      <4>5. QED
        BY <2>7, <4>3, <4>4
    <3> HIDE DEF T, warned
    <3>3. PICK e \in 0..Len(above) :
            /\ Len(Reached(warned)) = Len(above) - e
            /\ \A n \in 1..(Len(above) - e) : Reached(warned)[n] = warned[e + n]
            /\ \A n \in 1..e : warned[n][1] \in Marks
            /\ e < Len(above) => warned[e + 1][1] \notin Marks
      BY <3>2, ReachedIs
    <3>4. \A n \in 1..Len(above) : warned[n][1] = above[n][1]
      <4>1. \A f : Told(f)[1] = f[1]
        BY DEF Told
      <4>2. QED
        BY <3>2, <4>1
    <3> DEFINE d == h + e
    <3>5. /\ d \in h..Len(stack) /\ d \in 1..Len(stack) /\ Len(above) - e = Len(stack) - d
          /\ Len(stack) - d \in Nat
      BY <1>2, <2>3, <2>5, <3>3
    <3>6. /\ told \in [1..Len(stack) -> T \cup S] /\ Len(told) = Len(stack)
          /\ \A n \in 1..(Len(stack) - h) : told[h + n] = warned[n]
          /\ \A n \in 1..h : told[n] = stack[n]
      <4>1. \A n \in 1..Len(stack) : n > h => n - h \in 1..Len(warned)
        BY <1>2, <2>3, <2>5, <3>2
      <4>2. \A n \in 1..Len(stack) : told[n] \in T \cup S
        BY <3>2, <4>1
      <4>3. told \in [1..Len(stack) -> T \cup S]
        BY <4>2
      <4>4. Len(told) = Len(stack)
        BY <1>2, <4>3
      <4>5. ASSUME NEW n \in 1..(Len(stack) - h) PROVE told[h + n] = warned[n]
        <5>1. h + n \in 1..Len(stack) /\ h + n > h /\ (h + n) - h = n
          BY <1>2, <2>3
        <5>2. QED
          BY <5>1
      <4>6. \A n \in 1..h : n \in 1..Len(stack) /\ ~(n > h)
        BY <1>2, <2>3
      <4>7. QED
        BY <4>3, <4>4, <4>5, <4>6
    <3> HIDE DEF told
    <3>7. Warned(told, stack, h)
      <4>1. ASSUME NEW n \in 1..Len(stack)
            PROVE  told[n] = stack[n] \/ (n > h /\ stack[n][1] \in Reports /\ told[n] = Told(stack[n]))
        <5>1. CASE n <= h
          BY <1>2, <2>3, <3>6, <5>1
        <5>2. CASE n > h
          <6>1. n - h \in 1..(Len(stack) - h) /\ h + (n - h) = n /\ n - h \in 1..Len(above)
            BY <1>2, <2>3, <2>5, <5>2
          <6>2. told[n] = warned[n - h] /\ above[n - h] = stack[n]
            BY <2>5, <3>6, <6>1
          <6>3. QED
            BY <2>7, <3>2, <5>2, <6>1, <6>2
        <5>3. QED
          BY <1>2, <2>3, <5>1, <5>2
      <4>2. ASSUME NEW n \in 1..Len(stack), n > h, stack[n][1] \in Reports
            PROVE  \E k \in (h + 1)..n : stack[k][1] \in Reports /\ told[k] = Told(stack[k])
        <5>1. n - h \in 1..(Len(stack) - h) /\ h + (n - h) = n /\ n - h \in 1..Len(above)
          BY <1>2, <2>3, <2>5, <4>2
        <5>2. above[n - h][1] \in Reports
          BY <2>5, <4>2, <5>1
        <5>3. j \in 1..Len(above) /\ above[j][1] \in Reports /\ j <= n - h
          BY <2>7, <5>1, <5>2
        <5>4. h + j \in (h + 1)..n /\ j \in 1..(Len(stack) - h)
          BY <1>2, <2>3, <2>5, <5>1, <5>3
        <5>5. told[h + j] = Told(stack[h + j]) /\ stack[h + j][1] \in Reports
          BY <2>5, <3>2, <3>6, <5>3, <5>4
        <5>6. QED
          BY <5>4, <5>5
      <4>3. QED
        BY <3>6, <4>1, <4>2 DEF Warned
    <3>8. \A n \in 1..(Len(stack) - d) : Reached(warned)[n] = told[d + n]
      <4>1. ASSUME NEW n \in 1..(Len(stack) - d) PROVE Reached(warned)[n] = told[d + n]
        <5>0. /\ h \in Nat /\ e \in Nat /\ Len(stack) \in Nat /\ n \in Nat /\ n >= 1
              /\ n <= Len(stack) - h - e /\ Len(above) = Len(stack) - h
          BY <1>2, <2>3, <2>5, <3>3, <3>5
        <5>1. e + n \in 1..(Len(stack) - h) /\ h + (e + n) = d + n /\ n \in 1..(Len(above) - e)
          BY <5>0
        <5>2. QED
          BY <3>3, <3>6, <5>1
      <4>2. QED
        BY <4>1
    <3>9. \A n \in h..d : stack[n][1] \in Marks
      <4>1. ASSUME NEW n \in h..d, n # h PROVE stack[n][1] \in Marks
        <5>0. h \in Nat /\ e \in Nat /\ Len(above) \in Nat /\ n \in Nat /\ h <= n /\ n <= h + e
              /\ e <= Len(above)
          BY <1>2, <2>3, <2>5, <3>3, <4>1
        <5>1. n - h \in 1..e /\ n - h \in 1..(Len(stack) - h) /\ h + (n - h) = n
              /\ n - h \in 1..Len(above)
          BY <2>5, <4>1, <5>0
        <5>2. QED
          BY <2>5, <3>3, <3>4, <5>1
      <4>2. QED
        BY <2>9, <4>1 DEF Marks
    <3>10. d < Len(stack) => stack[d + 1][1] \notin Marks
      <4>1. SUFFICES ASSUME d < Len(stack) PROVE stack[d + 1][1] \notin Marks
        OBVIOUS
      <4>2. e < Len(above) /\ e + 1 \in 1..(Len(stack) - h) /\ h + (e + 1) = d + 1
            /\ e + 1 \in 1..Len(above)
        BY <1>2, <2>3, <2>5, <3>3, <3>5, <4>1
      <4>3. QED
        BY <2>5, <3>3, <3>4, <4>2
    <3> HIDE DEF d
    <3>11. Swaps(Reached(warned), told, <<>>, d)
      <4>1. Len(<<>>) = 0 /\ \A n \in 1..(Len(stack) - d) : 0 + n = n
        BY <1>2, <3>5
      <4>2. Len(Reached(warned)) = 0 + (Len(stack) - d) /\ Len(Reached(warned)) \in Nat
        BY <3>3, <3>5
      <4>3. QED
        BY <1>2, <3>5, <3>6, <3>8, <4>1, <4>2 DEF Swaps
    <3>12. QED
      BY <2>3, <2>4, <2>9, <3>1, <3>5, <3>7, <3>9, <3>10, <3>11 DEF rest
  <2>10. CASE stack[h][1] \in Finally
    <3> DEFINE frames == <<Told(stack[h]), <<"raise">>>>
               T == S \cup {Told(stack[h]), <<"raise">>}
    <3>1. Unwound(rest) = frames \o above
      BY <2>2, <2>3, <2>10 DEF Finally
    <3>2. frames \in Seq(T) /\ Len(frames) = 2 /\ above \in Seq(T)
      <4>1. above \in Seq(T)
        BY <2>5, SeqWider
      <4>2. QED
        BY <4>1
    <3> HIDE DEF frames, T
    <3>3. /\ Len(frames \o above) = 2 + Len(above)
          /\ \A n \in 1..(2 + Len(above)) :
               (frames \o above)[n] = IF n <= 2 THEN frames[n] ELSE above[n - 2]
      <4>1. /\ Len(frames \o above) = Len(frames) + Len(above)
            /\ \A n \in 1..(Len(frames) + Len(above)) :
                 (frames \o above)[n] = IF n <= Len(frames) THEN frames[n]
                                        ELSE above[n - Len(frames)]
        BY <3>2, ConcatProperties
      <4>2. QED
        BY <3>2, <4>1
    <3>4. \A n \in 1..2 : (frames \o above)[n] = frames[n]
      BY <2>5, <3>3
    <3>5. \A n \in 1..(Len(stack) - h) : (frames \o above)[2 + n] = stack[h + n]
      <4>1. ASSUME NEW n \in 1..(Len(stack) - h)
            PROVE  (frames \o above)[2 + n] = stack[h + n]
        <5>1. 2 + n \in 1..(2 + Len(above)) /\ ~(2 + n <= 2) /\ (2 + n) - 2 = n
          BY <2>5
        <5>2. QED
          BY <2>5, <3>3, <5>1
      <4>2. QED
        BY <4>1
    <3>6. Swaps(Unwound(rest), stack, frames, h)
      <4>1. h \in 1..Len(stack) /\ Len(stack) - h \in Nat
        BY <1>2, <2>3
      <4>2. Len(frames \o above) = Len(frames) + (Len(stack) - h) /\ Len(frames \o above) \in Nat
        <5>1. Len(frames \o above) = 2 + (Len(stack) - h) /\ 2 + (Len(stack) - h) \in Nat
          BY <2>5, <3>3, <4>1
        <5>2. QED
          BY <3>2, <5>1
      <4>3. QED
        BY <1>2, <3>1, <3>2, <3>4, <3>5, <4>1, <4>2 DEF Swaps
    <3>7. QED
      BY <2>3, <2>4, <2>10, <3>6 DEF frames, rest
  <2>11. QED
    BY <2>1, <2>3, <2>8, <2>9, <2>10 DEF Handlers, Marks
<1>6. QED
  BY <1>4, <1>5
-------------------------------------------------------------------------------
\* Stacks as words.

\* The word x goes on after n frames as w does after d.
Splices(x, w, n, d) == \A j \in Places : x[n + j] = w[d + j]

LEMMA WordSwaps ==
  ASSUME NEW new, NEW stack, NEW frames, NEW d, Swaps(new, stack, frames, d)
  PROVE  /\ d \in Places
         /\ Splices(Word(new), Word(stack), Len(frames), d)
         /\ \A i \in 1..Len(frames) : Word(new)[i] = frames[i]
<1>1. /\ d \in 1..Len(stack) /\ Len(new) \in Nat /\ Len(frames) \in Nat /\ Len(stack) \in Nat
      /\ Len(new) = Len(frames) + (Len(stack) - d)
  BY DEF Swaps
<1>2. ASSUME NEW j \in Places PROVE Word(new)[Len(frames) + j] = Word(stack)[d + j]
  <2>1. j \in Nat /\ j >= 1 /\ Len(frames) + j \in Places /\ d + j \in Places
    BY <1>1 DEF Places
  <2>2. CASE j <= Len(stack) - d
    <3>1. j \in 1..(Len(stack) - d) /\ Len(frames) + j \in 1..Len(new) /\ d + j \in 1..Len(stack)
      BY <1>1, <2>1, <2>2
    <3>2. new[Len(frames) + j] = stack[d + j]
      BY <3>1 DEF Swaps
    <3>3. QED
      BY <2>1, <3>1, <3>2 DEF Word
  <2>3. CASE ~(j <= Len(stack) - d)
    <3>1. Len(frames) + j \notin 1..Len(new) /\ d + j \notin 1..Len(stack)
      BY <1>1, <2>1, <2>3
    <3>2. QED
      BY <2>1, <3>1 DEF Word
  <2>4. QED
    BY <2>2, <2>3
<1>3. ASSUME NEW i \in 1..Len(frames) PROVE Word(new)[i] = frames[i]
  <2>1. i \in Places /\ i \in 1..Len(new)
    BY <1>1 DEF Places
  <2>2. new[i] = frames[i]
    BY DEF Swaps
  <2>3. QED
    BY <2>1, <2>2 DEF Word
<1>4. QED
  BY <1>1, <1>2, <1>3 DEF Places, Splices

\* The stack of a thread is a sequence.
LEMMA IsSeq ==
  ASSUME WakeInv, NEW t \in Threads
  PROVE  /\ todo[t] \in Seq(ToSet(todo[t])) /\ Len(todo[t]) \in Nat
         /\ todo = [u \in Threads |-> todo[u]]
         /\ todo[t] # <<>> => W(t)[1] = Head(todo[t])
<1>1. todo[t] \in Seq(ToSet(todo[t])) /\ todo = [u \in Threads |-> todo[u]]
  BY DEF WakeInv, Sound, Sleeps
<1>2. ASSUME todo[t] # <<>> PROVE W(t)[1] = Head(todo[t])
  <2>1. 1 \in 1..Len(todo[t]) /\ Head(todo[t]) = todo[t][1]
    BY <1>1, <1>2
  <2>2. QED
    BY <2>1 DEF W, Word, Places
<1>3. QED
  BY <1>1, <1>2

LEMMA PopWord ==
  ASSUME WakeInv, NEW t \in Threads, todo[t] # <<>>
  PROVE  \E d \in Places :
           /\ Splices(Word(Becomes(t, <<>>)), W(t), 0, d)
           /\ \A i \in 2..d : W(t)[i][1] \in Marks
           /\ W(t)[d + 1][1] \notin Marks
<1>1. PICK S : S = ToSet(todo[t])
  OBVIOUS
<1>2. todo[t] \in Seq(S) /\ Len(todo[t]) \in Nat
  BY <1>1, IsSeq
<1>3. PICK d \in 1..Len(todo[t]) :
        /\ Swaps(Reached(<<>> \o Tail(todo[t])), todo[t], <<>>, d)
        /\ \A i \in 2..d : todo[t][i][1] \in Marks
        /\ d < Len(todo[t]) => todo[t][d + 1][1] \notin Marks
  BY <1>2, PopSwaps
<1>4. Splices(Word(Becomes(t, <<>>)), W(t), Len(<<>>), d) /\ d \in Places
  BY <1>3, WordSwaps DEF Becomes, W
<1>5. Len(<<>>) = 0
  OBVIOUS
<1>6. ASSUME NEW i \in 2..d PROVE W(t)[i][1] \in Marks
  <2>1. i \in Places /\ i \in 1..Len(todo[t])
    BY <1>2, <1>3 DEF Places
  <2>2. QED
    BY <1>3, <2>1 DEF W, Word
<1>7. W(t)[d + 1][1] \notin Marks
  <2>1. d + 1 \in Places /\ (d + 1 \in 1..Len(todo[t]) <=> d < Len(todo[t]))
    BY <1>2, <1>3 DEF Places
  <2>2. QED
    BY <1>3, <2>1 DEF W, Word, Marks
<1>8. QED
  BY <1>4, <1>5, <1>6, <1>7

LEMMA PushWord ==
  ASSUME WakeInv, NEW t \in Threads, todo[t] # <<>>,
         NEW T, NEW frames \in Seq(T), frames # <<>>, frames[1][1] \notin Marks
  PROVE  /\ Splices(Word(Becomes(t, frames)), W(t), Len(frames), 1)
         /\ \A i \in 1..Len(frames) : Word(Becomes(t, frames))[i] = frames[i]
<1>1. PICK S : S = T \cup ToSet(todo[t])
  OBVIOUS
<1>2. todo[t] \in Seq(S) /\ frames \in Seq(S)
  BY <1>1, IsSeq, SeqWider
<1>3. Swaps(Becomes(t, frames), todo[t], frames, 1)
  BY <1>2, PushSwaps DEF Becomes
<1>4. QED
  BY <1>3, WordSwaps DEF W

\* The word v is w with the first report after the place h told of an exception.
WarnedWord(v, w, h) ==
  /\ \A i \in Places : v[i] = w[i] \/ (i > h /\ w[i][1] \in Reports /\ v[i] = Told(w[i]))
  /\ \A i \in Places : i > h /\ w[i][1] \in Reports =>
       \E k \in Places : h < k /\ k <= i /\ w[k][1] \in Reports /\ v[k] = Told(w[k])

LEMMA UnwindWord ==
  ASSUME WakeInv, NEW t \in Threads, todo[t] # <<>>, NEW x, x = Word(Unwound(Tail(todo[t]))),
         NEW w, w = W(t)
  PROVE  \/ /\ \A i \in Places : x[i] = <<"end">>
            /\ \A i \in Places : i >= 2 => w[i][1] \notin Handlers
         \/ \E h \in Places :
              /\ h >= 2 /\ \A i \in 2..(h - 1) : w[i][1] \notin Handlers
              /\ \/ /\ w[h][1] \in Finally
                    /\ x[1] = Told(w[h]) /\ x[2] = <<"raise">> /\ Splices(x, w, 2, h)
                 \/ \E d \in Places : \E v :
                      /\ \/ w[h][1] = "swallow" /\ v = w
                         \/ w[h][1] = "caught" /\ WarnedWord(v, w, h)
                      /\ Splices(x, v, 0, d)
                      /\ d >= h /\ \A i \in h..d : w[i][1] \in Marks
                      /\ w[d + 1][1] \notin Marks
<1>1. PICK S, stack : S = ToSet(todo[t]) /\ stack = todo[t]
  OBVIOUS
<1>2. stack \in Seq(S) /\ stack # <<>> /\ Len(stack) \in Nat /\ Len(stack) >= 1
      /\ w = Word(stack) /\ x = Word(Unwound(Tail(stack)))
  BY <1>1, IsSeq DEF W
<1>3. \A i \in Places : w[i] = IF i \in 1..Len(stack) THEN stack[i] ELSE <<"end">>
  BY <1>2 DEF Word
<1>4. "end" \notin Handlers /\ Len(<<>>) = 0
  BY DEF Handlers, Marks, Finally
<1>5. CASE /\ Unwound(Tail(stack)) = <<>>
           /\ \A i \in 2..Len(stack) : stack[i][1] \notin Handlers
  <2>1. \A i \in Places : x[i] = <<"end">>
    BY <1>2, <1>4, <1>5 DEF Word
  <2>2. \A i \in Places : i >= 2 => w[i][1] \notin Handlers
    BY <1>2, <1>3, <1>4, <1>5 DEF Places
  <2>3. QED
    BY <2>1, <2>2
<1>6. ASSUME NEW h \in 2..Len(stack), \A i \in 2..(h - 1) : stack[i][1] \notin Handlers,
             \/ /\ stack[h][1] \in Finally
                /\ Swaps(Unwound(Tail(stack)), stack, <<Told(stack[h]), <<"raise">>>>, h)
             \/ \E d \in h..Len(stack) : \E told :
                  /\ \/ stack[h][1] = "swallow" /\ told = stack
                     \/ stack[h][1] = "caught" /\ Warned(told, stack, h)
                  /\ Swaps(Unwound(Tail(stack)), told, <<>>, d)
                  /\ \A i \in h..d : stack[i][1] \in Marks
                  /\ d < Len(stack) => stack[d + 1][1] \notin Marks
      PROVE  /\ h \in Places /\ h >= 2 /\ \A i \in 2..(h - 1) : w[i][1] \notin Handlers
             /\ \/ /\ w[h][1] \in Finally
                   /\ x[1] = Told(w[h]) /\ x[2] = <<"raise">> /\ Splices(x, w, 2, h)
                \/ \E d \in Places : \E v :
                     /\ \/ w[h][1] = "swallow" /\ v = w
                        \/ w[h][1] = "caught" /\ WarnedWord(v, w, h)
                     /\ Splices(x, v, 0, d)
                     /\ d >= h /\ \A i \in h..d : w[i][1] \in Marks
                     /\ w[d + 1][1] \notin Marks
  <2>1. /\ h \in Places /\ h >= 2 /\ w[h] = stack[h]
        /\ \A i \in 2..(h - 1) : w[i] = stack[i]
    BY <1>2, <1>3 DEF Places
  <2>2. CASE /\ stack[h][1] \in Finally
             /\ Swaps(Unwound(Tail(stack)), stack, <<Told(stack[h]), <<"raise">>>>, h)
    <3> DEFINE frames == <<Told(stack[h]), <<"raise">>>>
    <3>1. Swaps(Unwound(Tail(stack)), stack, frames, h)
      BY <2>2
    <3>2. Len(frames) = 2 /\ frames[1] = Told(stack[h]) /\ frames[2] = <<"raise">>
      OBVIOUS
    <3> HIDE DEF frames
    <3>3. /\ Splices(x, w, Len(frames), h)
          /\ \A i \in 1..Len(frames) : x[i] = frames[i]
      BY <1>2, <3>1, WordSwaps
    <3>4. x[1] = Told(w[h]) /\ x[2] = <<"raise">> /\ Splices(x, w, 2, h)
      BY <2>1, <3>2, <3>3
    <3>5. QED
      BY <1>6, <2>1, <2>2, <3>4
  <2>3. ASSUME NEW d \in h..Len(stack), NEW told,
               \/ stack[h][1] = "swallow" /\ told = stack
               \/ stack[h][1] = "caught" /\ Warned(told, stack, h),
               Swaps(Unwound(Tail(stack)), told, <<>>, d),
               \A i \in h..d : stack[i][1] \in Marks,
               d < Len(stack) => stack[d + 1][1] \notin Marks
        PROVE  \E v :
                 /\ \/ w[h][1] = "swallow" /\ v = w
                    \/ w[h][1] = "caught" /\ WarnedWord(v, w, h)
                 /\ Splices(x, v, 0, d)
                 /\ d \in Places /\ d >= h /\ \A i \in h..d : w[i][1] \in Marks
                 /\ w[d + 1][1] \notin Marks
    <3> DEFINE v == Word(told)
    <3>1. Splices(x, v, 0, d) /\ d \in Places
      BY <1>2, <1>4, <2>3, WordSwaps
    <3>2. d >= h /\ \A i \in h..d : w[i] = stack[i]
      BY <1>2, <1>3, <2>1 DEF Places
    <3>3. w[d + 1][1] \notin Marks
      <4>1. d + 1 \in Places /\ (d + 1 \in 1..Len(stack) <=> d < Len(stack))
        BY <1>2 DEF Places
      <4>2. QED
        BY <1>3, <1>4, <2>3, <4>1 DEF Handlers
    <3>4. CASE stack[h][1] = "swallow" /\ told = stack
      BY <1>2, <2>1, <2>3, <3>1, <3>2, <3>3, <3>4
    <3>5. CASE stack[h][1] = "caught" /\ Warned(told, stack, h)
      <4>1. \A i \in Places : v[i] = IF i \in 1..Len(stack) THEN told[i] ELSE <<"end">>
        BY <3>5 DEF Word, Warned
      <4> HIDE DEF v
      <4>2. ASSUME NEW i \in Places
            PROVE  v[i] = w[i] \/ (i > h /\ w[i][1] \in Reports /\ v[i] = Told(w[i]))
        <5>1. CASE i \in 1..Len(stack)
          BY <1>3, <3>5, <4>1, <5>1 DEF Warned
        <5>2. CASE i \notin 1..Len(stack)
          BY <1>3, <4>1, <5>2
        <5>3. QED
          BY <5>1, <5>2
      <4>3. ASSUME NEW i \in Places, i > h, w[i][1] \in Reports
            PROVE  \E k \in Places : h < k /\ k <= i /\ w[k][1] \in Reports /\ v[k] = Told(w[k])
        <5>1. i \in 1..Len(stack) /\ w[i] = stack[i]
          BY <1>3, <4>3 DEF Reports
        <5>2. PICK k \in (h + 1)..i : stack[k][1] \in Reports /\ told[k] = Told(stack[k])
          BY <3>5, <4>3, <5>1 DEF Warned
        <5>3. k \in Places /\ h < k /\ k <= i /\ k \in 1..Len(stack)
          BY <1>2, <2>1, <5>1 DEF Places
        <5>4. QED
          BY <1>3, <4>1, <5>2, <5>3
      <4>4. WarnedWord(v, w, h)
        BY <4>2, <4>3 DEF WarnedWord
      <4>5. QED
        BY <2>1, <2>3, <3>1, <3>2, <3>3, <3>5, <4>4
    <3>6. QED
      BY <2>3, <3>4, <3>5
  <2>4. QED
    BY <1>6, <2>1, <2>2, <2>3
<1>7. QED
  BY <1>2, <1>5, <1>6, UnwindSwaps
-------------------------------------------------------------------------------
\* What is exchanged at the top of a word.

\* A place of the new word is one of the new frames or one of the old word.
LEMMA PlaceIs ==
  ASSUME NEW n \in Nat, NEW i \in Places
  PROVE  i \in 1..n \/ (i - n \in Places /\ n + (i - n) = i)
  BY DEF Places

\* What holds of a frame below others holds of it at the top.
LEMMA Looser ==
  ASSUME NEW n, NEW m, NEW k, NEW top
  PROVE  /\ Chain(n, m, k, FALSE) => Chain(n, m, k, top)
         /\ Gate(n, m, k, FALSE) => Gate(n, m, k, top)
<1>1. Chain(n, m, k, FALSE) => Chain(n, m, k, top)
  BY DEF Chain
<1>2. Gate(n, m, k, FALSE) => Gate(n, m, k, top)
  BY DEF Gate
<1>3. QED
  BY <1>1, <1>2

LEMMA LinkedAfter ==
  ASSUME NEW w, \A i \in Places : Linked(w, i), NEW x, NEW n \in Nat, NEW d \in Places,
         Splices(x, w, n, d), \A i \in 1..n : Linked(x, i)
  PROVE  \A i \in Places : Linked(x, i)
<1>1. SUFFICES ASSUME NEW j \in Places PROVE Linked(x, n + j)
  BY PlaceIs
<1>2. /\ n + j \in Places /\ (n + j) + 1 = n + (j + 1) /\ (n + j) + 2 = n + (j + 2)
      /\ j + 1 \in Places /\ j + 2 \in Places
      /\ d + j \in Places /\ (d + j) + 1 = d + (j + 1) /\ (d + j) + 2 = d + (j + 2)
      /\ d + j # 1
  BY DEF Places
<1>3. /\ x[n + j] = w[d + j] /\ x[(n + j) + 1] = w[(d + j) + 1]
      /\ x[(n + j) + 2] = w[(d + j) + 2]
  BY <1>2 DEF Splices
<1>4. /\ Chain(w[d + j][1], w[(d + j) + 1][1], w[(d + j) + 2][1], FALSE)
      /\ Gate(w[d + j][1], w[(d + j) + 1][1], w[(d + j) + 2][1], FALSE)
      /\ Agrees(w[d + j], w[(d + j) + 1][1])
  <2>1. (d + j = 1) = FALSE
    BY <1>2
  <2>2. QED
    BY <1>2, <2>1 DEF Linked
<1>5. QED
  BY <1>3, <1>4, Looser DEF Linked

\* New frames above an old stack.
LEMMA SaneOver ==
  ASSUME NEW w, Sane(w), NEW x, NEW n \in Nat, NEW d \in Places, Splices(x, w, n, d),
         \A i \in 1..n : /\ Linked(x, i)
                         /\ x[i][1] \in Receiving =>
                              i = n /\ \A j \in Places : w[d + j] = <<"end">>,
         Placed(x), Once(x)
  PROVE  Sane(x)
<1>1. \A i \in Places : Linked(x, i)
  BY LinkedAfter DEF Sane
<1>2. \A j \in Places : d + j \in Places /\ n + j \in Places /\ x[n + j] = w[d + j]
  BY DEF Places, Splices
<1>3. Bottom(x)
  <2>1. SUFFICES ASSUME NEW i \in Places, NEW j \in Places, x[i][1] \in Receiving, i < j
                 PROVE  x[j] = <<"end">>
    BY DEF Bottom
  <2>2. CASE i \in 1..n
    <3>1. i = n /\ \A k \in Places : w[d + k] = <<"end">>
      BY <2>1, <2>2
    <3>2. j - n \in Places /\ n + (j - n) = j
      BY <2>1, <2>2, <3>1 DEF Places
    <3>3. QED
      BY <1>2, <3>1, <3>2
  <2>3. CASE i - n \in Places /\ n + (i - n) = i
    <3>1. j - n \in Places /\ n + (j - n) = j /\ d + (i - n) < d + (j - n)
      BY <2>1, <2>3 DEF Places
    <3>2. w[d + (i - n)][1] \in Receiving
      BY <1>2, <2>1, <2>3
    <3>3. w[d + (j - n)] = <<"end">>
      BY <1>2, <2>3, <3>1, <3>2 DEF Sane, Bottom
    <3>4. QED
      BY <1>2, <3>1, <3>3
  <2>4. QED
    BY <2>2, <2>3, PlaceIs
<1>4. QED
  BY <1>1, <1>3 DEF Sane

LEMMA SaneAfter ==
  ASSUME NEW w, Sane(w), NEW x, NEW n \in Nat, NEW d \in Places, Splices(x, w, n, d),
         \A i \in 1..n : /\ Linked(x, i) /\ x[i][1] \notin {"exit", "close_end"}
                         /\ x[i][1] \in Receiving =>
                              i = n /\ \A j \in Places : w[d + j] = <<"end">>
  PROVE  Sane(x)
<1>2. \A j \in Places : d + j \in Places /\ n + j \in Places /\ x[n + j] = w[d + j]
  BY DEF Places, Splices
<1>3. Placed(x)
  <2>1. SUFFICES ASSUME NEW i \in Places, NEW j \in Places, x[i][1] = "exit", x[j][1] \in Lifecycle
                 PROVE  j <= i
    BY DEF Placed
  <2>2. i - n \in Places /\ n + (i - n) = i
    BY <2>1, PlaceIs
  <2>3. CASE j \in 1..n
    BY <2>2, <2>3 DEF Places
  <2>4. CASE j - n \in Places /\ n + (j - n) = j
    <3>1. w[d + (i - n)][1] = "exit" /\ w[d + (j - n)][1] \in Lifecycle
      BY <1>2, <2>1, <2>2, <2>4
    <3>2. d + (j - n) <= d + (i - n)
      BY <1>2, <2>2, <2>4, <3>1 DEF Sane, Placed
    <3>3. QED
      BY <2>2, <2>4, <3>2 DEF Places
  <2>5. QED
    BY <2>3, <2>4, PlaceIs
<1>4. Once(x)
  <2>1. SUFFICES ASSUME NEW i \in Places, NEW j \in Places,
                        x[i][1] = "close_end", x[j][1] = "close_end"
                 PROVE  i = j
    BY DEF Once
  <2>2. i - n \in Places /\ n + (i - n) = i /\ j - n \in Places /\ n + (j - n) = j
    BY <2>1, PlaceIs
  <2>3. w[d + (i - n)][1] = "close_end" /\ w[d + (j - n)][1] = "close_end"
    BY <1>2, <2>1, <2>2
  <2>4. d + (i - n) = d + (j - n)
    BY <1>2, <2>2, <2>3 DEF Sane, Once
  <2>5. QED
    BY <2>2, <2>4 DEF Places
<1>5. QED
  BY <1>3, <1>4, SaneOver

\* The word x has the frames of the lifecycle that w has, and brings nothing on that w
\* has not.
Carries(x, w) ==
  /\ \A a \in Lifecycle : Has(x, a) <=> Has(w, a)
  /\ Untold(x) => Untold(w)
  /\ Due(x) => Due(w)
  /\ Returns(x) => Returns(w)
  /\ x[1][1] \notin {"registry_start", "start_end"}

\* It carries all of w, and closes nothing that w does not.
Keeps(x, w) == Sane(x) /\ Carries(x, w) /\ (Has(x, "close_end") => Has(w, "close_end"))

\* A stack at whose top there is nothing of the lifecycle.
Resting(w) ==
  /\ w[1][1] \notin Lifecycle \cup {"registry_stop", "monitor_join", "disconnect_all",
                                    "disconnect", "release"}
  /\ w[1][1] = "raise" => w[2][1] # "exit" /\ ~Halting(w)

LEMMA Below2 ==
  ASSUME NEW w, Sane(w), NEW i \in Places, i >= 2
  PROVE  /\ Chain(w[i][1], w[i + 1][1], w[i + 2][1], FALSE)
         /\ Gate(w[i][1], w[i + 1][1], w[i + 2][1], FALSE)
         /\ Agrees(w[i], w[i + 1][1])
<1>1. Linked(w, i) /\ (i = 1) = FALSE
  BY DEF Sane
<1>2. QED
  BY <1>1 DEF Linked

LEMMA AtOne ==
  ASSUME NEW w, Sane(w)
  PROVE  /\ Chain(w[1][1], w[2][1], w[3][1], TRUE) /\ Gate(w[1][1], w[2][1], w[3][1], TRUE)
         /\ Agrees(w[1], w[2][1])
<1>1. 1 \in Places /\ 1 + 1 = 2 /\ 1 + 2 = 3 /\ (1 = 1) = TRUE
  BY DEF Places
<1>2. Linked(w, 1)
  BY <1>1 DEF Sane
<1>3. QED
  BY <1>1, <1>2 DEF Linked

LEMMA GateAt ==
  ASSUME NEW w, Sane(w), NEW i \in Places
  PROVE  Gate(w[i][1], w[i + 1][1], w[i + 2][1], TRUE) /\ Chain(w[i][1], w[i + 1][1], w[i + 2][1], TRUE)
<1>1. CASE i = 1
  <2>1. 1 + 1 = 2 /\ 1 + 2 = 3
    OBVIOUS
  <2>2. QED
    BY <1>1, <2>1, AtOne
<1>2. CASE i # 1
  <2>1. i >= 2
    BY <1>2 DEF Places
  <2>2. QED
    BY <2>1, Below2, Looser
<1>3. QED
  BY <1>1, <1>2

\* Frames are left that are not of the lifecycle, with the marks below them.
LEMMA LoosePop ==
  ASSUME NEW w, Sane(w), NEW x, NEW d \in Places, Splices(x, w, 0, d), NEW c \in 1..d,
         \A i \in 1..c : w[i][1] \notin Lifecycle,
         \A i \in (c + 1)..d : w[i][1] \in Marks, w[d + 1][1] \notin Marks,
         \A i \in 1..d : ~(/\ w[i][1] \in {"enter", "raise", "exit"}
                           /\ w[i + 1][1] = "registry_stop" /\ w[i + 2][1] = "closed"),
         w[c][1] # "raise"
  PROVE  Keeps(x, w)
<1>0. d \in Nat /\ d >= 1 /\ c \in Nat /\ c >= 1 /\ c <= d
  BY DEF Places
<1>1. \A j \in Places : j \in Nat /\ d + j \in Places /\ x[j] = w[d + j]
  <2>1. \A j \in Places : j \in Nat /\ d + j \in Places /\ 0 + j = j
    BY DEF Places
  <2>2. QED
    BY <2>1 DEF Splices
<1>2. Sane(x)
  <2>1. 0 \in Nat /\ 1..0 = {}
    OBVIOUS
  <2>2. QED
    BY <2>1, SaneAfter
<1>3. \A i \in Places : i <= d \/ (i - d \in Places /\ d + (i - d) = i)
  BY <1>0 DEF Places
<1>4. ASSUME NEW i \in c..d, w[i + 1][1] \in Lifecycle
      PROVE  \/ w[i + 1][1] = "exit"
             \/ w[i + 1][1] = "caught" /\ w[i + 2][1] = "dispatcher_stop"
             \/ w[i + 1][1] = "router_stopped"
             \/ w[i][1] = "caught"
  <2>1. i \in Places
    BY <1>0 DEF Places
  <2>2. Gate(w[i][1], w[i + 1][1], w[i + 2][1], TRUE)
    BY <2>1, GateAt
  <2>3. CASE i = c
    <3>1. w[i][1] \notin Lifecycle /\ w[i][1] # "raise"
      BY <1>0, <2>3
    <3>2. w[i][1] \in {"swallow", "registry_accept", "registry_stop", "disconnect_all", "disconnect",
                       "release"}
      BY <1>4, <2>2, <3>1 DEF Gate
    <3>3. QED
      BY <1>4, <2>2, <3>2 DEF Gate
  <2>4. CASE i # c
    <3>1. w[i][1] \in Marks
      BY <1>0, <2>4
    <3>2. QED
      BY <1>4, <2>2, <3>1 DEF Gate, Marks
  <2>5. QED
    BY <2>3, <2>4
<1>5. ASSUME NEW i \in (c + 1)..d, w[i][1] = "caught"
      PROVE  i = d /\ w[d + 1][1] = "dispatcher_stop" /\ w[d + 2][1] = "caught"
  <2>1. /\ i - 1 \in c..d /\ (i - 1) + 1 = i /\ (i - 1) + 2 = i + 1 /\ i - 1 \in Places /\ i \in Places
        /\ d + 1 \in Places /\ (d + 1) + 1 = d + 2
    BY <1>0 DEF Places
  <2>2. w[i - 1][1] # "caught"
    <3>1. Chain(w[i - 1][1], w[i][1], w[i + 1][1], TRUE)
      BY <2>1, GateAt
    <3>2. QED
      BY <1>5, <3>1 DEF Chain, Reports
  <2>3. w[i + 1][1] = "dispatcher_stop"
    BY <1>4, <1>5, <2>1, <2>2 DEF Lifecycle
  <2>4. i = d
    <3>1. w[i + 1][1] \notin Marks
      BY <2>3 DEF Marks
    <3>2. i + 1 \notin (c + 1)..d
      BY <3>1
    <3>3. QED
      BY <1>0, <3>2
  <2>5. Chain(w[d + 1][1], w[d + 2][1], w[(d + 1) + 2][1], TRUE)
    BY <2>1, GateAt
  <2>6. QED
    BY <2>3, <2>4, <2>5 DEF Chain
<1>6. ASSUME NEW a \in Lifecycle PROVE Has(x, a) <=> Has(w, a)
  <2>1. Has(x, a) => Has(w, a)
    BY <1>1 DEF Has
  <2>2. ASSUME NEW i \in Places, w[i][1] = a PROVE Has(x, a)
    <3>1. CASE i - d \in Places /\ d + (i - d) = i
      BY <1>1, <2>2, <3>1 DEF Has
    <3>2. CASE i <= d
      <4>1. i \in (c + 1)..d
        <5>1. i \notin 1..c
          BY <2>2
        <5>2. QED
          BY <1>0, <3>2, <5>1 DEF Places
      <4>2. w[i][1] = "caught"
        BY <2>2, <4>1 DEF Marks, Lifecycle
      <4>3. w[d + 2][1] = "caught" /\ 2 \in Places
        BY <1>5, <4>1, <4>2 DEF Places
      <4>4. QED
        BY <1>1, <2>2, <4>2, <4>3 DEF Has
    <3>3. QED
      BY <1>3, <3>1, <3>2
  <2>3. QED
    BY <2>1, <2>2 DEF Has
<1>7. Untold(x) => Untold(w)
  BY <1>1 DEF Untold
<1>8. Returns(x) => Returns(w)
  <2>1. ASSUME NEW j \in Places, x[j][1] = "exit", x[j + 1][1] = "registry_stop"
        PROVE  Returns(w)
    <3>1. j + 1 \in Places /\ d + (j + 1) = (d + j) + 1
      BY <1>0, <1>1 DEF Places
    <3>2. QED
      BY <1>1, <2>1, <3>1 DEF Returns
  <2>2. QED
    BY <2>1 DEF Returns
<1>9. Due(x) => Due(w)
  <2>1. Has(x, "closed") => Has(w, "closed")
    BY <1>1 DEF Has
  <2>2. ASSUME NEW i \in Places, w[i][1] \in {"enter", "raise", "exit"},
               w[i + 1][1] = "registry_stop", w[i + 2][1] = "closed"
        PROVE  Awaits(x)
    <3>1. ~(i <= d)
      <4>1. i <= d => i \in 1..d
        BY <1>0 DEF Places
      <4>2. QED
        BY <2>2, <4>1
    <3>2. i - d \in Places /\ d + (i - d) = i
      BY <1>3, <3>1
    <3>3. /\ (i - d) + 1 \in Places /\ (i - d) + 2 \in Places
          /\ d + ((i - d) + 1) = i + 1 /\ d + ((i - d) + 2) = i + 2
      BY <1>0, <3>2 DEF Places
    <3>4. QED
      BY <1>1, <2>2, <3>2, <3>3 DEF Awaits
  <2>3. QED
    BY <2>1, <2>2 DEF Due, Awaits
<1>10. x[1][1] \notin {"registry_start", "start_end"}
  <2>1. x[1] = w[d + 1] /\ d \in c..d
    <3>1. 1 \in Places
      BY DEF Places
    <3>2. QED
      BY <1>0, <1>1, <3>1
  <2>2. ASSUME w[d][1] = "caught" PROVE w[d + 1][1] = "dispatcher_stop"
    <3>1. d # c
      BY <1>0, <2>2 DEF Lifecycle
    <3>2. d \in (c + 1)..d
      BY <1>0, <3>1
    <3>3. QED
      BY <1>5, <2>2, <3>2
  <2>3. QED
    BY <1>4, <2>1, <2>2 DEF Marks, Lifecycle
<1>11. Has(x, "close_end") => Has(w, "close_end")
  BY <1>1 DEF Has
<1>12. QED
  BY <1>2, <1>6, <1>7, <1>8, <1>9, <1>10, <1>11 DEF Carries, Keeps

\* A frame that is not of the lifecycle is exchanged for others that are not.
LEMMA CarriesOver ==
  ASSUME NEW w, NEW x, NEW n \in Nat, n >= 1, Splices(x, w, n, 1), w[1][1] \notin Lifecycle,
         \A i \in 1..n : x[i][1] \notin Lifecycle, Due(x) => Due(w)
  PROVE  Carries(x, w)
<1>0. 1 \in Places /\ "exit" \in Lifecycle
  BY DEF Places, Lifecycle
<1>1. \A j \in Places : j \in Nat /\ 1 + j \in Places /\ n + j \in Places /\ x[n + j] = w[1 + j]
  BY DEF Splices, Places
<1>2. \A i \in Places : i = 1 \/ (i - 1 \in Places /\ 1 + (i - 1) = i)
  BY DEF Places
<1>3. ASSUME NEW a \in Lifecycle PROVE Has(x, a) <=> Has(w, a)
  <2>1. ASSUME NEW i \in Places, x[i][1] = a PROVE Has(w, a)
    <3>1. i \notin 1..n
      BY <2>1
    <3>2. i - n \in Places /\ n + (i - n) = i
      BY <3>1, PlaceIs
    <3>3. QED
      BY <1>1, <2>1, <3>2 DEF Has
  <2>2. ASSUME NEW i \in Places, w[i][1] = a PROVE Has(x, a)
    <3>1. i - 1 \in Places /\ 1 + (i - 1) = i
      BY <1>2, <2>2
    <3>2. x[n + (i - 1)] = w[i] /\ n + (i - 1) \in Places
      BY <1>1, <3>1
    <3>3. QED
      BY <2>2, <3>2 DEF Has
  <2>3. QED
    BY <2>1, <2>2 DEF Has
<1>4. Untold(x) => Untold(w)
  <2>1. ASSUME NEW i \in Places, x[i][1] \in Reports, x[i][2] = FALSE PROVE Untold(w)
    <3>1. i \notin 1..n
      BY <2>1 DEF Reports, Lifecycle
    <3>2. i - n \in Places /\ n + (i - n) = i
      BY <3>1, PlaceIs
    <3>3. QED
      BY <1>1, <2>1, <3>2 DEF Untold
  <2>2. QED
    BY <2>1 DEF Untold
<1>5. Returns(x) => Returns(w)
  <2>1. ASSUME NEW i \in Places, x[i][1] = "exit", x[i + 1][1] = "registry_stop" PROVE Returns(w)
    <3>1. i \notin 1..n
      BY <1>0, <2>1
    <3>2. i - n \in Places /\ n + (i - n) = i
      BY <3>1, PlaceIs
    <3>3. /\ (i - n) + 1 \in Places /\ n + ((i - n) + 1) = i + 1
          /\ 1 + ((i - n) + 1) = (1 + (i - n)) + 1
      BY <3>2 DEF Places
    <3>4. QED
      BY <1>1, <2>1, <3>2, <3>3 DEF Returns
  <2>2. QED
    BY <2>1 DEF Returns
<1>6. x[1][1] \notin Lifecycle
  <2>1. 1 \in 1..n
    OBVIOUS
  <2>2. QED
    BY <2>1
<1>7. QED
  BY <1>3, <1>4, <1>5, <1>6 DEF Carries, Lifecycle

LEMMA LoosePush ==
  ASSUME NEW w, Sane(w), NEW x, NEW n \in Nat, n >= 1, Splices(x, w, n, 1),
         w[1][1] \notin Lifecycle,
         \A i \in 1..n : /\ Linked(x, i) /\ x[i][1] \notin Lifecycle \cup {"closed", "close_end"}
                         /\ x[i][1] \in Receiving =>
                              i = n /\ \A j \in Places : w[1 + j] = <<"end">>,
         w[1][1] \in {"enter", "raise"} => x[n][1] \in {"enter", "raise"}
  PROVE  Keeps(x, w)
<1>0. 1 \in Places /\ "exit" \in Lifecycle /\ "exit" # "closed"
  BY DEF Places, Lifecycle
<1>1. \A j \in Places : j \in Nat /\ 1 + j \in Places /\ n + j \in Places /\ x[n + j] = w[1 + j]
  BY DEF Splices, Places
<1>2. Sane(x)
  BY <1>0, SaneAfter
<1>3. \A i \in Places : i = 1 \/ (i - 1 \in Places /\ 1 + (i - 1) = i)
  BY DEF Places
<1>4. ASSUME NEW a \in {"closed", "close_end"} PROVE Has(x, a) => Has(w, a)
  <2>1. ASSUME NEW i \in Places, x[i][1] = a PROVE Has(w, a)
    <3>1. i \notin 1..n
      BY <2>1
    <3>2. i - n \in Places /\ n + (i - n) = i
      BY <3>1, PlaceIs
    <3>3. QED
      BY <1>1, <2>1, <3>2 DEF Has
  <2>2. QED
    BY <2>1 DEF Has
<1>5. Due(x) => Due(w)
  <2>1. Has(x, "closed") => Has(w, "closed")
    BY <1>4
  <2>2. ASSUME NEW i \in Places, w[i][1] \in {"enter", "raise", "exit"},
               w[i + 1][1] = "registry_stop", w[i + 2][1] = "closed"
        PROVE  Awaits(x)
    <3> DEFINE k == n + (i - 1)
    <3>1. /\ i \in Nat /\ i >= 1 /\ k \in Nat /\ k >= 1 /\ k \in Places
          /\ k + 1 = n + i /\ k + 2 = n + (i + 1) /\ i + 1 \in Places
          /\ 1 + i = i + 1 /\ 1 + (i + 1) = i + 2
      BY DEF Places
    <3>2. x[k + 1] = w[i + 1] /\ x[k + 2] = w[i + 2]
      BY <1>1, <3>1
    <3>3. x[k][1] \in {"enter", "raise", "exit"}
      <4>1. CASE i = 1
        <5>1. k = n /\ w[1][1] \in {"enter", "raise"}
          BY <1>0, <2>2, <4>1
        <5>2. QED
          BY <5>1
      <4>2. CASE i # 1
        BY <1>1, <1>3, <2>2, <4>2
      <4>3. QED
        BY <4>1, <4>2
    <3> HIDE DEF k
    <3>4. QED
      BY <2>2, <3>1, <3>2, <3>3 DEF Awaits
  <2>3. QED
    BY <2>1, <2>2 DEF Due, Awaits
<1>6. Carries(x, w)
  BY <1>5, CarriesOver
<1>7. Has(x, "close_end") => Has(w, "close_end")
  BY <1>4
<1>8. QED
  BY <1>2, <1>6, <1>7 DEF Keeps

\* The names of frames that may be put anywhere, and above what.
Free == {"raise", "user", "swallow", "look", "check", "asleep", "remove", "prune",
         "prune_vehicle", "watch", "registry_accept", "published", "close", "close_wait",
         "wait_for", "disconnect", "release", "enter"} \cup Receiving
Plain(m, k) ==
  /\ m \notin Lifecycle \cup {"raise", "registry_accept", "disconnect_all", "registry_stop"}
  /\ ~(m = "swallow" /\ k \in {"caught", "exit"})

LEMMA FreeLinked ==
  ASSUME NEW x, NEW n \in Nat,
         \A i \in 1..n : /\ x[i][1] \in Free
                         /\ i # 1 => x[i][1] \notin {"raise", "registry_accept"},
         Plain(x[n + 1][1], x[n + 2][1])
  PROVE  \A i \in 1..n : Linked(x, i) /\ x[i][1] \notin Lifecycle \cup {"closed", "close_end"}
<1>1. SUFFICES ASSUME NEW i \in 1..n PROVE Linked(x, i)
  BY DEF Free, Receiving, Lifecycle
<1>2. Plain(x[i + 1][1], x[i + 2][1])
  <2>1. CASE i = n
    BY <2>1
  <2>2. CASE i + 1 \in 1..n
    <3>1. /\ x[i + 1][1] \in Free \ {"raise", "registry_accept"}
      BY <2>2
    <3>2. x[i + 2][1] \notin {"caught", "exit"}
      <4>1. CASE i + 1 = n
        <5>1. i + 2 = n + 1
          BY <4>1
        <5>2. QED
          BY <5>1 DEF Plain, Lifecycle
      <4>2. CASE i + 2 \in 1..n
        BY <4>2 DEF Free, Receiving
      <4>3. QED
        BY <2>2, <4>1, <4>2
    <3>3. QED
      BY <3>1, <3>2 DEF Plain, Free, Receiving, Lifecycle
  <2>3. QED
    BY <2>1, <2>2
<1>3. x[i][1] \in Free
  OBVIOUS
<1>4. Chain(x[i][1], x[i + 1][1], x[i + 2][1], i = 1)
  BY <1>3 DEF Chain, Free, Receiving, Reports
<1>5. Gate(x[i][1], x[i + 1][1], x[i + 2][1], i = 1)
  BY <1>2, <1>3 DEF Gate, Plain, Free, Receiving, Lifecycle
<1>6. Agrees(x[i], x[i + 1][1])
  BY <1>2, <1>3 DEF Agrees, Plain, Free, Receiving, Reports
<1>7. QED
  BY <1>4, <1>5, <1>6 DEF Linked

\* The names of frames below which there is nothing special.
Low == {"wait_for", "look", "check", "asleep", "prune", "prune_vehicle", "remove", "published",
        "close", "close_wait", "watch", "end"} \cup Receiving

LEMMA PlainBelow ==
  ASSUME NEW w, Sane(w), w[1][1] \in Low PROVE Plain(w[2][1], w[3][1]) /\ w[1][1] \notin Lifecycle
<1>1. Gate(w[1][1], w[2][1], w[3][1], TRUE) /\ Agrees(w[1], w[2][1])
  BY AtOne
<1>2. QED
  BY <1>1 DEF Gate, Agrees, Plain, Low, Receiving, Lifecycle, Finally
-------------------------------------------------------------------------------
\* What the stages of start() and stop() ask for, and the steps of others.

CloserOK ==
  /\ \A t, u \in Threads : Has(W(t), "close_end") /\ Has(W(u), "close_end") => t = u
  /\ \A t \in Threads : Has(W(t), "close_end") => closing

\* What has been released stays released.
Easier ==
  /\ UNCHANGED <<running, cleanup, dispatching, started>>
  /\ Unconnected => Unconnected'
  /\ Unwatched => Unwatched'
  /\ ~open /\ stopWatch => ~open' /\ stopWatch'
  /\ Idle(Reader) => Idle(Reader)'
  /\ ~link => ~link'

LEMMA StageSame ==
  ASSUME NEW w, StartStage(w), StopStage(w), Easier
  PROVE  StartStage(w)' /\ StopStage(w)'
<1>1. StartStage(w)'
  BY DEF StartStage, Easier
<1>2. StopStage(w)'
  BY DEF StopStage, Easier
<1>3. QED
  BY <1>1, <1>2

\* The registry or the connection is released, by whoever does it.
Follows(w, x) ==
  /\ w[1][1] \notin Lifecycle
  /\ w[1][1] \in {"disconnect", "release"} => x[1][1] \in {"disconnect", "release"} \/ ~link'
  /\ w[1][1] = "registry_stop" => ~open' /\ stopWatch'
  /\ w[1][1] = "raise" => w[2][1] # "exit"
  /\ Halting(w) /\ Has(w, "report") => Halting(x) \/ Unwatched'

LEMMA RestingFollows ==
  ASSUME NEW w, NEW x, Resting(w) PROVE Follows(w, x)
<1>1. ~Halting(w)
  BY DEF Resting, Halting
<1>2. QED
  BY <1>1 DEF Resting, Follows

LEMMA StageKept ==
  ASSUME NEW w, NEW x, StartStage(w), StopStage(w), Carries(x, w), Follows(w, x), Easier
  PROVE  StartStage(x)' /\ StopStage(x)'
<1>1. \A a \in Lifecycle : Has(x, a) <=> Has(w, a)
  BY DEF Carries
<1>2. w[1][1] \notin Lifecycle /\ x[1][1] \notin {"registry_start", "start_end"}
  BY DEF Follows, Carries, Lifecycle
<1>3. StartStage(x)'
  <2>1. w[1][1] \notin {"start_end", "router_run", "services_start", "router_exit"}
    BY <1>2 DEF Lifecycle
  <2>2. /\ Has(x, "start_end") <=> Has(w, "start_end")
        /\ Has(x, "services_start") <=> Has(w, "services_start")
        /\ Has(x, "router_run") <=> Has(w, "router_run")
    BY <1>1 DEF Lifecycle
  <2>3. QED
    BY <1>2, <2>1, <2>2 DEF StartStage, Easier
<1>4. StopStage(x)'
  <2>1. ~(w[1][1] = "raise" /\ w[2][1] = "exit")
    BY DEF Follows
  <2>2. /\ Has(x, "rolled") <=> Has(w, "rolled")
        /\ Has(x, "report") <=> Has(w, "report")
        /\ Has(x, "dispatcher_stop") <=> Has(w, "dispatcher_stop")
        /\ Has(x, "caught") <=> Has(w, "caught")
        /\ Has(x, "router_stopped") <=> Has(w, "router_stopped")
    BY <1>1 DEF Lifecycle
  <2>3. (Untold(x) => Untold(w)) /\ (Returns(x) => Returns(w))
    BY DEF Carries
  <2>4. (\A a \in Lifecycle : Has(x, a) => a = "exit")
          => \A a \in Lifecycle : Has(w, a) => a = "exit"
    BY <1>1
  <2>5. Has(x, "report") => cleanup' /\ ~running' /\ ((~open' /\ stopWatch') \/ x[1][1] = "registry_stop")
    BY <2>2 DEF StopStage, Easier, Follows
  <2>6. Untold(x) =>
          /\ dispatching' => Has(x, "dispatcher_stop")
          /\ Unwatched' \/ (Has(x, "report") /\ Halting(x))
          /\ Unconnected' \/ Has(x, "caught")
    BY <2>2, <2>3 DEF StopStage, Easier, Follows
  <2>7. Has(x, "router_stopped") =>
          Idle(Reader)' /\ (~link' \/ x[1][1] \in {"disconnect", "release"})
    BY <2>2 DEF StopStage, Easier, Follows
  <2>8. /\ Returns(x) /\ (\A a \in Lifecycle : Has(x, a) => a = "exit")
        /\ ~(x[1][1] = "raise" /\ x[2][1] = "exit")
        => ~running' /\ ~cleanup'
    BY <2>1, <2>3, <2>4 DEF StopStage, Easier
  <2>9. Has(x, "rolled") => ~cleanup'
    BY <2>2 DEF StopStage, Easier
  <2>10. QED
    BY <2>5, <2>6, <2>7, <2>8, <2>9 DEF StopStage
<1>5. QED
  BY <1>3, <1>4

\* A stack without frames of the lifecycle is in no stage.
LEMMA StageNone ==
  ASSUME NEW w, \A a \in Lifecycle : ~Has(w, a)
  PROVE  StartStage(w)' /\ StopStage(w)'
<1>1. \A i \in Places : w[i][1] \notin Lifecycle
  BY DEF Has
<1>2. w[1][1] \notin Lifecycle
  BY <1>1 DEF Places
<1>3. ~Untold(w) /\ ~Returns(w)
  BY <1>1 DEF Untold, Returns, Reports, Lifecycle
<1>4. /\ ~Has(w, "start_end") /\ ~Has(w, "services_start") /\ ~Has(w, "router_run")
      /\ ~Has(w, "rolled") /\ ~Has(w, "report") /\ ~Has(w, "router_stopped")
  BY DEF Lifecycle
<1>5. StartStage(w)'
  BY <1>2, <1>4 DEF StartStage, Lifecycle
<1>6. StopStage(w)'
  BY <1>3, <1>4 DEF StopStage
<1>7. QED
  BY <1>5, <1>6

\* Who has to close the registry has still to end close().
LEMMA DueEnds ==
  ASSUME ReleaseInv, NEW t \in Threads, Due(W(t)) PROVE closing /\ Stopped
<1>1. PICK i \in Places : W(t)[i][1] = "closed"
  BY DEF Due, Has
<1>2. Gate(W(t)[i][1], W(t)[i + 1][1], W(t)[i + 2][1], TRUE) /\ i + 1 \in Places
  <2>1. PICK w : w = W(t)
    OBVIOUS
  <2>2. Sane(w)
    BY <2>1 DEF ReleaseInv
  <2>3. Gate(w[i][1], w[i + 1][1], w[i + 2][1], TRUE)
    BY <2>2, GateAt
  <2>4. i + 1 \in Places
    BY DEF Places
  <2>5. QED
    BY <2>1, <2>3, <2>4
<1>3. Has(W(t), "close_end")
  BY <1>1, <1>2 DEF Gate, Has
<1>4. QED
  BY <1>3 DEF ReleaseInv

\* A step that does not concern the lifecycle.
LEMMA LooseStep ==
  ASSUME ReleaseInv, Easier, UNCHANGED <<owner, thread>>, closed' => closed \/ Stopped, CloserOK',
         \A u \in Threads : \/ W(u)' = W(u)
                            \/ /\ Sane(W(u)') /\ Carries(W(u)', W(u))
                               /\ Resting(W(u)) \/ Follows(W(u), W(u)')
  PROVE  ReleaseInv'
<1>1. \A u \in Threads : \A a \in Lifecycle : Has(W(u)', a) <=> Has(W(u), a)
  BY DEF Carries
<1>2. ASSUME NEW u \in Threads
      PROVE  Sane(W(u)') /\ StartStage(W(u))' /\ StopStage(W(u))'
  <2>1. PICK w, x : w = W(u) /\ x = W(u)'
    OBVIOUS
  <2>2. Sane(w) /\ StartStage(w) /\ StopStage(w)
    BY <2>1 DEF ReleaseInv
  <2>3. Sane(x) /\ StartStage(x)' /\ StopStage(x)'
    <3>1. CASE x = w
      BY <2>2, <3>1, StageSame
    <3>2. CASE Sane(x) /\ Carries(x, w) /\ Follows(w, x)
      BY <2>2, <3>2, StageKept
    <3>3. CASE x # w
      <4>1. Sane(x) /\ Carries(x, w) /\ (Resting(w) \/ Follows(w, x))
        BY <2>1, <3>3
      <4>2. Follows(w, x)
        BY <4>1, RestingFollows
      <4>3. QED
        BY <3>2, <4>1, <4>2
    <3>4. QED
      BY <3>1, <3>3
  <2>4. StartStage(W(u))'
    BY <2>1, <2>3 DEF StartStage
  <2>5. StopStage(W(u))'
    BY <2>1, <2>3 DEF StopStage, Halting
  <2>6. QED
    BY <2>1, <2>3, <2>4, <2>5
<1>3. Stopped' <=> Stopped
  <2>1. Starting' <=> Starting
    BY <1>1 DEF Starting, Lifecycle
  <2>2. QED
    BY <2>1 DEF Stopped, Easier
<1>4. ASSUME NEW u \in Threads, Due(W(u)') PROVE Stopped'
  <2>1. Due(W(u))
    BY <1>4 DEF Carries
  <2>2. QED
    BY <1>3, <2>1 DEF ReleaseInv
<1>5. Stopped' => Unconnected' /\ Unwatched' /\ ~dispatching'
  BY <1>3 DEF ReleaseInv, Easier
<1>6. /\ ~thread' => Idle(Reader)'
      /\ "dispatcher" \in started' => "client" \in started'
      /\ closed' => Stopped'
  BY <1>3 DEF ReleaseInv, Easier
<1>7. \A u \in Threads : \A a \in Lifecycle : Has(W(u)', a) => u = owner'
  BY <1>1 DEF ReleaseInv
<1>8. QED
  BY <1>2, <1>4, <1>5, <1>6, <1>7 DEF ReleaseInv, CloserOK

\* Nothing is left to be done by the lifecycle.
Halts(w) == ~running /\ ~cleanup /\ ~Has(w, "start_end") /\ ~Has(w, "rolled")

\* A step of the thread with the lifecycle lock.
LEMMA LifecycleStep ==
  ASSUME ReleaseInv, NEW t \in Threads, NEW w, w = W(t), NEW x, x = W(t)',
         \A u \in Threads : u # t => \A a \in Lifecycle : ~Has(W(u), a),
         \A u \in Threads : u # t => \/ W(u)' = W(u)
                                     \/ Sane(W(u)') /\ Carries(W(u)', W(u)),
         Sane(x), StartStage(x)', StopStage(x)',
         \A a \in Lifecycle : Has(x, a) => t = owner',
         CloserOK', closed' = closed,
         Due(x) => Due(w) \/ Halts(x)',
         Halts(w) /\ (closed \/ closing) => Halts(x)',
         Halts(x)' => Unconnected' /\ Unwatched' /\ ~dispatching',
         ~thread' => Idle(Reader)',
         "dispatcher" \in started' => "client" \in started'
  PROVE  ReleaseInv'
<1>1. \A u \in Threads : u # t => \A a \in Lifecycle : ~Has(W(u)', a)
  BY DEF Carries
<1>2. ASSUME NEW u \in Threads
      PROVE  Sane(W(u)') /\ StartStage(W(u))' /\ StopStage(W(u))'
  <2>1. PICK y : y = W(u)'
    OBVIOUS
  <2>2. Sane(y) /\ StartStage(y)' /\ StopStage(y)'
    <3>1. CASE u = t
      BY <2>1, <3>1
    <3>2. CASE u # t
      <4>1. Sane(y) /\ \A a \in Lifecycle : ~Has(y, a)
        BY <1>1, <2>1, <3>2 DEF ReleaseInv
      <4>2. QED
        BY <4>1, StageNone
    <3>3. QED
      BY <3>1, <3>2
  <2>3. StartStage(W(u))'
    BY <2>1, <2>2 DEF StartStage
  <2>4. StopStage(W(u))'
    BY <2>1, <2>2 DEF StopStage, Halting
  <2>5. QED
    BY <2>1, <2>2, <2>3, <2>4
<1>3. Stopped <=> Halts(w)
  <2>1. Starting <=> Has(w, "start_end") \/ Has(w, "rolled")
    BY DEF Starting, Lifecycle
  <2>2. QED
    BY <2>1 DEF Stopped, Halts
<1>4. Stopped' <=> Halts(x)'
  <2>1. Starting' <=> Has(x, "start_end") \/ Has(x, "rolled")
    BY <1>1 DEF Starting, Lifecycle
  <2>2. QED
    BY <2>1 DEF Stopped, Halts
<1>5. ASSUME NEW u \in Threads, Due(W(u)') PROVE Stopped'
  <2>1. CASE Due(W(u))
    BY <1>3, <1>4, <2>1, DueEnds
  <2>2. CASE ~Due(W(u))
    <3>1. u = t
      BY <1>5, <2>2 DEF Carries
    <3>2. QED
      BY <1>4, <1>5, <2>2, <3>1
  <2>3. QED
    BY <2>1, <2>2
<1>6. \A u \in Threads : \A a \in Lifecycle : Has(W(u)', a) => u = owner'
  BY <1>1
<1>7. closed' => Stopped'
  BY <1>3, <1>4 DEF ReleaseInv
<1>8. Stopped' => Unconnected' /\ Unwatched' /\ ~dispatching'
  BY <1>4
<1>9. QED
  BY <1>2, <1>5, <1>6, <1>7, <1>8 DEF ReleaseInv, CloserOK
-------------------------------------------------------------------------------
\* Steps that do not concern the lifecycle.

LEMMA EasierIs ==
  ASSUME UNCHANGED <<running, cleanup, dispatching, started>>,
         link' => link, reading' => reading, open' => open, stopWatch => stopWatch',
         open \/ connected' \subseteq connected,
         Idle(Reader) => Idle(Reader)', Idle(Monitor) => Idle(Monitor)'
  PROVE  Easier
<1>1. Unconnected => Unconnected'
  BY DEF Unconnected
<1>2. Unwatched => Unwatched'
  BY DEF Unwatched
<1>3. QED
  BY <1>1, <1>2 DEF Easier

LEMMA DoesOnly ==
  ASSUME WakeInv, NEW t \in Threads, NEW frames, Does(t, frames)
  PROVE  /\ W(t)' = Word(Becomes(t, frames))
         /\ \A u \in Threads : u # t => todo'[u] = todo[u] /\ W(u)' = W(u)
         /\ todo[t] # <<>> => \A u \in Threads : Idle(u) => Idle(u)'
<1>1. todo' = [todo EXCEPT ![t] = Becomes(t, frames)] /\ todo = [u \in Threads |-> todo[u]]
  BY IsSeq DEF Does
<1>2. todo'[t] = Becomes(t, frames) /\ \A u \in Threads : u # t => todo'[u] = todo[u]
  BY <1>1
<1>3. QED
  BY <1>2 DEF W, Idle

\* What a thread is at.
LEMMA AtIs ==
  ASSUME WakeInv, NEW t \in Threads, NEW name, At(t, name)
  PROVE  todo[t] # <<>> /\ W(t)[1][1] = name /\ W(t)[1] = Head(todo[t])
  BY IsSeq DEF At

\* The names of frames that only go away.
Passing == {"user", "look", "check", "asleep", "remove", "prune_vehicle", "watch", "registry_accept",
            "published", "close", "close_wait", "closed", "close_end"}

LEMMA LoosePops ==
  ASSUME WakeInv, ReleaseInv, NEW t \in Threads, todo[t] # <<>>, NEW w, w = W(t),
         w[1][1] \in Passing \cup {"disconnect_all"}, NEW x, x = Word(Becomes(t, <<>>))
  PROVE  Keeps(x, w) /\ (w[1][1] \in Passing => Resting(w))
<1>1. Sane(w)
  BY DEF ReleaseInv
<1>2. PICK d \in Places : /\ Splices(x, w, 0, d)
                          /\ \A i \in 2..d : w[i][1] \in Marks
                          /\ w[d + 1][1] \notin Marks
  BY PopWord
<1>3. 1 \in 1..d /\ 1 + 1 = 2 /\ d \in Nat
  BY DEF Places
<1>4. w[1][1] \notin Lifecycle \cup {"raise", "enter", "exit", "disconnect", "release"}
  BY DEF Passing, Lifecycle
<1>5. \A i \in 1..1 : w[i][1] \notin Lifecycle
  BY <1>4
<1>6. \A i \in 1..d : ~(/\ w[i][1] \in {"enter", "raise", "exit"}
                        /\ w[i + 1][1] = "registry_stop" /\ w[i + 2][1] = "closed")
  <2>1. ASSUME NEW i \in 1..d PROVE w[i][1] \notin {"enter", "raise", "exit"}
    <3>1. i = 1 \/ i \in 2..d
      BY <1>3
    <3>2. QED
      BY <1>2, <1>4, <3>1 DEF Marks
  <2>2. QED
    BY <2>1
<1>7. Keeps(x, w)
  BY <1>1, <1>2, <1>3, <1>4, <1>5, <1>6, LoosePop
<1>8. QED
  BY <1>4, <1>7 DEF Resting, Passing

LEMMA LoosePushes ==
  ASSUME WakeInv, ReleaseInv, NEW t \in Threads, todo[t] # <<>>, NEW w, w = W(t),
         w[1][1] \in Low,
         NEW T, NEW frames \in Seq(T), frames # <<>>, frames[1][1] \notin Marks,
         \/ \A f \in T : f[1] \in Free \ ({"raise", "registry_accept"} \cup Receiving)
         \/ /\ Len(frames) = 1 /\ frames[1][1] \in Free
            /\ frames[1][1] \in Receiving => w[1][1] \in Receiving,
         NEW x, x = Word(Becomes(t, frames))
  PROVE  Keeps(x, w) /\ Resting(w)
<1>1. Sane(w) /\ Plain(w[2][1], w[3][1]) /\ w[1][1] \notin Lifecycle
  BY PlainBelow DEF ReleaseInv
<1>2. PICK n : n = Len(frames)
  OBVIOUS
<1>3. n \in Nat /\ n >= 1 /\ \A i \in 1..n : frames[i] \in T
  BY <1>2, ElementOfSeq
<1>4. Splices(x, w, n, 1) /\ \A i \in 1..n : x[i] = frames[i]
  BY <1>2, PushWord
<1>5. x[n + 1] = w[2] /\ x[n + 2] = w[3]
  <2>1. 1 \in Places /\ 2 \in Places /\ 1 + 1 = 2 /\ 1 + 2 = 3
    BY DEF Places
  <2>2. QED
    BY <1>4, <2>1 DEF Splices
<1>6. \A i \in 1..n : x[i][1] \in Free /\ (i # 1 => x[i][1] \notin {"raise", "registry_accept"})
  BY <1>2, <1>3, <1>4
<1>7. \A i \in 1..n : Linked(x, i) /\ x[i][1] \notin Lifecycle \cup {"closed", "close_end"}
  BY <1>1, <1>3, <1>5, <1>6, FreeLinked
<1>8. ASSUME NEW i \in 1..n, x[i][1] \in Receiving
      PROVE  i = n /\ \A j \in Places : w[1 + j] = <<"end">>
  <2>1. n = 1 /\ w[1][1] \in Receiving
    BY <1>2, <1>3, <1>4, <1>8
  <2>2. \A j \in Places : w[1 + j] = <<"end">>
    <3>1. \A j \in Places : 1 \in Places /\ 1 + j \in Places /\ 1 < 1 + j
      BY DEF Places
    <3>2. QED
      BY <1>1, <2>1, <3>1 DEF Sane, Bottom
  <2>3. QED
    BY <1>8, <2>1, <2>2
<1>9. w[1][1] \notin {"enter", "raise"}
  BY DEF Low, Receiving
<1>10. Keeps(x, w)
  BY <1>1, <1>3, <1>4, <1>7, <1>8, <1>9, LoosePush
<1>11. QED
  BY <1>10, <1>1 DEF Resting, Low, Receiving

\* A frame is exchanged for one other.
LEMMA LooseOne ==
  ASSUME WakeInv, ReleaseInv, NEW t \in Threads, todo[t] # <<>>, NEW w, w = W(t),
         w[1][1] \in Low, NEW f, f[1] \in Free \ Marks,
         f[1] \in Receiving => w[1][1] \in Receiving, NEW x, x = Word(Becomes(t, <<f>>))
  PROVE  Keeps(x, w) /\ Resting(w)
<1>1. /\ <<f>> \in Seq({f}) /\ <<f>> # <<>> /\ Len(<<f>>) = 1 /\ <<f>>[1] = f
  OBVIOUS
<1>2. PICK frames, T : frames = <<f>> /\ T = {f}
  OBVIOUS
<1>3. QED
  BY <1>1, <1>2, LoosePushes

\* Nobody begins to close, or ends it.
LEMMA CloserSame ==
  ASSUME ReleaseInv, closing' = closing,
         \A u \in Threads : Has(W(u)', "close_end") => Has(W(u), "close_end")
  PROVE  CloserOK'
  BY DEF CloserOK, ReleaseInv

\* Nothing is started, and close() neither begins nor ends.
Steady ==
  /\ UNCHANGED <<running, cleanup, dispatching, started, owner, thread, closed, closing>>
  /\ (link' => link) /\ (reading' => reading) /\ (open' => open)
  /\ (stopWatch => stopWatch') /\ (open \/ connected' \subseteq connected)

LEMMA LooseDoes ==
  ASSUME WakeInv, ReleaseInv, NEW t \in Threads, todo[t] # <<>>, NEW frames, Does(t, frames),
         NEW w, w = W(t), NEW x, x = Word(Becomes(t, frames)), Keeps(x, w), Resting(w),
         Steady
  PROVE  ReleaseInv'
<1>1. /\ W(t)' = x
      /\ \A u \in Threads : u # t => W(u)' = W(u)
      /\ \A u \in Threads : Idle(u) => Idle(u)'
  BY DoesOnly
<1>2. Easier
  <2>1. Idle(Reader) => Idle(Reader)'
    BY <1>1, RouterAssumption
  <2>2. Idle(Monitor) => Idle(Monitor)'
    BY <1>1, RegistryAssumption
  <2>3. QED
    BY <2>1, <2>2, EasierIs DEF Steady
<1>3. CloserOK'
  <2>1. \A u \in Threads : Has(W(u)', "close_end") => Has(W(u), "close_end")
    BY <1>1 DEF Keeps
  <2>2. QED
    BY <2>1, CloserSame DEF Steady
<1>4. \A u \in Threads : \/ W(u)' = W(u)
                         \/ Sane(W(u)') /\ Carries(W(u)', W(u)) /\ Resting(W(u))
  BY <1>1 DEF Keeps
<1>5. QED
  BY <1>2, <1>3, <1>4, LooseStep DEF Steady

LEMMA PopStep ==
  ASSUME WakeInv, ReleaseInv, NEW t \in Threads, NEW name \in Passing, At(t, name),
         Does(t, <<>>), Steady
  PROVE  ReleaseInv'
<1>1. PICK w, x : w = W(t) /\ x = Word(Becomes(t, <<>>))
  OBVIOUS
<1>2. todo[t] # <<>> /\ w[1][1] \in Passing
  BY <1>1, AtIs
<1>3. Keeps(x, w) /\ Resting(w)
  BY <1>1, <1>2, LoosePops
<1>4. QED
  BY <1>1, <1>2, <1>3, LooseDoes

LEMMA OneStep ==
  ASSUME WakeInv, ReleaseInv, NEW t \in Threads, NEW name \in Low \ {"end"}, At(t, name),
         NEW f, f[1] \in Free \ Marks, f[1] \in Receiving => name \in Receiving,
         Does(t, <<f>>), Steady
  PROVE  ReleaseInv'
<1>1. PICK w, x : w = W(t) /\ x = Word(Becomes(t, <<f>>))
  OBVIOUS
<1>2. todo[t] # <<>> /\ w[1][1] = name
  BY <1>1, AtIs
<1>3. Keeps(x, w) /\ Resting(w)
  BY <1>1, <1>2, LooseOne
<1>4. QED
  BY <1>1, <1>2, <1>3, LooseDoes

LEMMA PushStep ==
  ASSUME WakeInv, ReleaseInv, NEW t \in Threads, NEW name \in Low \ {"end"}, At(t, name),
         NEW T, NEW frames \in Seq(T), frames # <<>>, frames[1][1] \notin Marks,
         \A f \in T : f[1] \in Free \ ({"raise", "registry_accept"} \cup Receiving),
         Does(t, frames), Steady
  PROVE  ReleaseInv'
<1>1. PICK w, x : w = W(t) /\ x = Word(Becomes(t, frames))
  OBVIOUS
<1>2. todo[t] # <<>> /\ w[1][1] = name
  BY <1>1, AtIs
<1>3. Keeps(x, w) /\ Resting(w)
  BY <1>1, <1>2, LoosePushes
<1>4. QED
  BY <1>1, <1>2, <1>3, LooseDoes

LEMMA WaitReleases ==
  ASSUME WakeInv, ReleaseInv, NEW t \in Threads,
         WaitFor(t) \/ Look(t) \/ Check(t) \/ TimeOut(t),
         UNCHANGED <<registryVars, lifecycle, calls>>
  PROVE  ReleaseInv'
<1>1. Steady
  BY DEF WaitFor, Look, Check, TimeOut, routerVars, connection, registryVars, endpoints, lifecycle,
     Steady
<1>2. ASSUME NEW name \in {"wait_for", "look", "check", "asleep"}, At(t, name),
             NEW f, f[1] \in {"raise", "look", "check", "asleep"}, Does(t, <<f>>)
      PROVE  ReleaseInv'
  <2>1. name \in Low \ {"end"} /\ f[1] \in Free \ Marks /\ f[1] \notin Receiving
    BY <1>2 DEF Low, Free, Marks, Receiving
  <2>2. QED
    BY <1>1, <1>2, <2>1, OneStep
<1>3. CASE WaitFor(t)
  BY <1>2, <1>3 DEF WaitFor, Raises
<1>4. CASE Look(t)
  <2>1. At(t, "look") /\ "look" \in Passing
    BY <1>4 DEF Look, Passing
  <2>2. CASE Does(t, <<>>)
    BY <1>1, <2>1, <2>2, PopStep
  <2>3. QED
    BY <1>2, <1>4, <2>1, <2>2 DEF Look, Raises
<1>5. CASE Check(t)
  BY <1>2, <1>5 DEF Check, Raises
<1>6. CASE TimeOut(t)
  BY <1>2, <1>6 DEF TimeOut
<1>7. QED
  BY <1>3, <1>4, <1>5, <1>6

\* Lists of frames.
LEMMA ListsAre ==
  /\ \A a, b : <<a, b>> \in Seq({a, b}) /\ <<a, b>> # <<>> /\ <<a, b>>[1] = a
  /\ \A which : Tells(which) = <<>> \/ Tells(which) = <<<<"user">>, <<"swallow">>>>
  BY DEF Tells

LEMMA TellStep ==
  ASSUME WakeInv, ReleaseInv, NEW t \in Threads, NEW name \in Low \ {"end"}, At(t, name),
         Does(t, <<<<"user">>, <<"swallow">>>>), Steady
  PROVE  ReleaseInv'
<1>1. PICK frames, T : frames = <<<<"user">>, <<"swallow">>>> /\ T = {<<"user">>, <<"swallow">>}
  OBVIOUS
<1>2. frames \in Seq(T) /\ frames # <<>> /\ frames[1] = <<"user">>
  BY <1>1, ListsAre
<1>3. /\ \A f \in T : f[1] \in Free \ ({"raise", "registry_accept"} \cup Receiving)
      /\ frames[1][1] \notin Marks
  BY <1>1, <1>2 DEF Free, Receiving, Marks
<1>4. QED
  BY <1>1, <1>2, <1>3, PushStep

\* A list that does not begin with a mark.
Opens(list) == list = <<>> \/ list[1][1] \notin Marks

LEMMA Joins ==
  ASSUME NEW T, NEW p \in Seq(T), NEW q \in Seq(T)
  PROVE  /\ p \o q \in Seq(T) /\ Len(p \o q) = Len(p) + Len(q) /\ Len(p) \in Nat /\ Len(q) \in Nat
         /\ \A i \in 1..Len(p) : (p \o q)[i] = p[i]
         /\ \A i \in 1..Len(q) : (p \o q)[Len(p) + i] = q[i]
  BY ConcatProperties

LEMMA JoinsOpen ==
  ASSUME NEW T, NEW p \in Seq(T), NEW q \in Seq(T), Opens(p), Opens(q)
  PROVE  p \o q \in Seq(T) /\ Opens(p \o q) /\ (p \o q = <<>> => p = <<>> /\ q = <<>>)
<1>1. /\ p \o q \in Seq(T) /\ Len(p \o q) = Len(p) + Len(q) /\ Len(p) \in Nat /\ Len(q) \in Nat
      /\ \A i \in 1..Len(p) : (p \o q)[i] = p[i]
      /\ \A i \in 1..Len(q) : (p \o q)[Len(p) + i] = q[i]
  BY Joins
<1>2. PICK r : r = p \o q
  OBVIOUS
<1>3. r = <<>> => p = <<>> /\ q = <<>>
  BY <1>1, <1>2
<1>4. CASE p # <<>>
  <2>1. r[1] = p[1]
    BY <1>1, <1>2, <1>4
  <2>2. QED
    BY <1>1, <1>2, <1>3, <1>4, <2>1 DEF Opens
<1>5. CASE p = <<>>
  <2>1. q # <<>> => r[1] = q[1]
    BY <1>1, <1>2, <1>5
  <2>2. QED
    BY <1>1, <1>2, <1>3, <1>5, <2>1 DEF Opens
<1>6. QED
  BY <1>4, <1>5

LEMMA RegistryReleases ==
  ASSUME WakeInv, RegistryInv, ReleaseInv, NEW t \in Threads,
         \/ AcceptEnvelope(t) \/ Prune(t) \/ PruneVehicle(t) \/ RemoveEndpoint(t)
         \/ MonitorEnds \/ Expire,
         UNCHANGED <<routerVars, runtimeVars>>
  PROVE  ReleaseInv'
<1>1. Steady
  BY DEF AcceptEnvelope, Prune, PruneVehicle, RemoveEndpoint, MonitorEnds, Expire, routerVars,
     connection, registryVars, endpoints, runtimeVars, lifecycle, Steady
<1>2. CASE AcceptEnvelope(t)
  <2>1. At(t, "registry_accept") /\ Does(t, <<>>) /\ "registry_accept" \in Passing
    BY <1>2 DEF AcceptEnvelope, Passing
  <2>2. QED
    BY <1>1, <2>1, PopStep
<1>3. CASE Prune(t)
  <2> DEFINE gone == Outdated(Arg(t)[1], Arg(t)[2]) \ {Vehicle}
             listed == [i \in DOMAIN SetToSeq(gone) |-> <<"remove", SetToSeq(gone)[i]>>]
             last == <<<<"prune_vehicle", <<Arg(t)[1], Arg(t)[2]>>>>>>
  <2>1. At(t, "prune") /\ Does(t, listed \o last) /\ "prune" \in Low \ {"end"}
    BY <1>3 DEF Prune, Low
  <2>2. PICK S : /\ listed \o last \in Seq(S) /\ listed \o last # <<>>
                 /\ \A f \in S : f[1] \in {"remove", "prune_vehicle"}
    <3>1. IsFiniteSet(gone)
      BY FS_Subset DEF Outdated, RegistryInv
    <3>2. PICK F : listed \in Seq(F) /\ \A f \in F : f[1] = "remove"
      <4>1. \A n \in Nat : Sound(listed, n)
        BY <3>1, ListedSound
      <4>2. listed \in Seq(ToSet(listed))
        BY <4>1 DEF Sound
      <4>3. \A f \in ToSet(listed) : f[1] = "remove"
        BY <4>2 DEF ToSet
      <4> HIDE DEF listed
      <4>4. QED
        BY <4>2, <4>3
    <3> DEFINE S == F \cup {<<"prune_vehicle", <<Arg(t)[1], Arg(t)[2]>>>>}
    <3>3. last \in Seq(S) /\ Len(last) = 1
      OBVIOUS
    <3>4. \A f \in S : f[1] \in {"remove", "prune_vehicle"}
      BY <3>2
    <3> HIDE DEF listed, last
    <3>5. listed \in Seq(S)
      BY <3>2, SeqWider
    <3> HIDE DEF S
    <3>6. listed \o last \in Seq(S) /\ Len(listed \o last) = Len(listed) + Len(last)
      BY <3>3, <3>5, ConcatProperties
    <3>7. Len(listed) \in Nat
      BY <3>5
    <3>8. listed \o last # <<>>
      BY <3>3, <3>6, <3>7
    <3>9. QED
      BY <3>4, <3>6, <3>8
  <2> HIDE DEF listed, last
  <2>3. PICK frames : frames = listed \o last
    OBVIOUS
  <2>4. frames \in Seq(S) /\ frames # <<>> /\ frames[1] \in S
    <3>1. frames \in Seq(S) /\ frames # <<>>
      BY <2>2, <2>3
    <3>2. 1 \in 1..Len(frames)
      BY <3>1
    <3>3. QED
      BY <3>1, <3>2, ElementOfSeq
  <2>5. /\ \A f \in S : f[1] \in Free \ ({"raise", "registry_accept"} \cup Receiving)
        /\ frames[1][1] \notin Marks
    BY <2>2, <2>4 DEF Free, Receiving, Marks
  <2>6. QED
    BY <1>1, <2>1, <2>3, <2>4, <2>5, PushStep
<1>4. CASE PruneVehicle(t)
  <2>1. At(t, "prune_vehicle") /\ "prune_vehicle" \in Passing /\ "prune_vehicle" \in Low \ {"end"}
    BY <1>4 DEF PruneVehicle, Passing, Low
  <2>2. CASE Does(t, <<>>)
    BY <1>1, <2>1, <2>2, PopStep
  <2>3. CASE Does(t, <<<<"remove", Vehicle>>>>)
    <3>1. PICK f : f = <<"remove", Vehicle>>
      OBVIOUS
    <3>2. f[1] \in Free \ Marks /\ f[1] \notin Receiving /\ Does(t, <<f>>)
      BY <2>3, <3>1 DEF Free, Marks, Receiving
    <3>3. QED
      BY <1>1, <2>1, <3>2, OneStep
  <2>4. QED
    BY <1>4, <2>2, <2>3 DEF PruneVehicle
<1>5. CASE RemoveEndpoint(t)
  <2>1. At(t, "remove") /\ "remove" \in Passing /\ "remove" \in Low \ {"end"}
    BY <1>5 DEF RemoveEndpoint, Passing, Low
  <2>2. CASE Does(t, <<>>)
    BY <1>1, <2>1, <2>2, PopStep
  <2>3. CASE Raises(t)
    <3>1. <<"raise">>[1] \in Free \ Marks /\ <<"raise">>[1] \notin Receiving
      BY DEF Free, Marks, Receiving
    <3>2. QED
      BY <1>1, <2>1, <2>3, <3>1, OneStep DEF Raises
  <2>4. CASE Does(t, <<<<"user">>, <<"swallow">>>>)
    BY <1>1, <2>1, <2>4, TellStep
  <2>5. QED
    BY <1>5, <2>2, <2>3, <2>4 DEF RemoveEndpoint
<1>6. CASE MonitorEnds
  <2>1. At(Monitor, "watch") /\ Does(Monitor, <<>>) /\ "watch" \in Passing /\ Monitor \in Threads
    BY <1>6, RegistryAssumption DEF MonitorEnds, Passing
  <2>2. QED
    BY <1>1, <2>1, PopStep
<1>7. CASE Expire
  <2> DEFINE pruned == IF retention # Forever THEN <<<<"prune", <<clock, retention>>>>>> ELSE <<>>
             all == Tells(Lost) \o pruned \o <<<<"watch">>>>
  <2>1. At(Monitor, "watch") /\ Does(Monitor, all) /\ "watch" \in Low \ {"end"} /\ Monitor \in Threads
    BY <1>7, RegistryAssumption DEF Expire, Low
  <2>2. PICK T : T = {<<"user">>, <<"swallow">>, <<"prune", <<clock, retention>>>>, <<"watch">>}
    OBVIOUS
  <2>3. all \in Seq(T) /\ all # <<>> /\ all[1][1] \notin Marks
    <3> DEFINE user == <<"user">>
               watch == <<"watch">>
               prune == <<"prune", <<clock, retention>>>>
               mark == <<"swallow">>
    <3>1. T = {user, mark, prune, watch} /\ user[1] \notin Marks /\ prune[1] \notin Marks /\ watch[1] \notin Marks
      BY <2>2 DEF Marks
    <3>2. Tells(Lost) = <<>> \/ Tells(Lost) = <<user, mark>>
      BY ListsAre
    <3>3. pruned = <<>> \/ pruned = <<prune>>
      OBVIOUS
    <3>4. all = Tells(Lost) \o pruned \o <<watch>>
      OBVIOUS
    <3> HIDE DEF all, pruned, user, watch, prune, mark
    <3>5. Tells(Lost) \in Seq(T) /\ pruned \in Seq(T) /\ <<watch>> \in Seq(T) /\ <<watch>>[1] = watch
      <4>1. <<>> \in Seq(T) /\ <<user, mark>> \in Seq(T) /\ <<prune>> \in Seq(T) /\ <<watch>> \in Seq(T)
        BY <3>1
      <4>2. QED
        BY <3>2, <3>3, <4>1
    <3>6. Opens(Tells(Lost)) /\ Opens(pruned) /\ Opens(<<watch>>) /\ <<watch>> # <<>>
      BY <3>1, <3>2, <3>3, <3>5 DEF Opens
    <3>7. Tells(Lost) \o pruned \in Seq(T) /\ Opens(Tells(Lost) \o pruned)
      BY <3>5, <3>6, JoinsOpen
    <3>8. all \in Seq(T) /\ Opens(all) /\ all # <<>>
      BY <3>4, <3>5, <3>6, <3>7, JoinsOpen
    <3>9. QED
      BY <3>8 DEF Opens
  <2>4. \A f \in T : f[1] \in Free \ ({"raise", "registry_accept"} \cup Receiving)
    BY <2>2 DEF Free, Receiving
  <2> HIDE DEF all
  <2>5. QED
    BY <1>1, <2>1, <2>3, <2>4, PushStep
<1>8. QED
  BY <1>2, <1>3, <1>4, <1>5, <1>6, <1>7
-------------------------------------------------------------------------------
\* The reader.

\* Whoever sleeps looks again, when the stacks are those of before.
LEMMA AwakeIs ==
  ASSUME WakeInv, ReleaseInv, NEW stacks, todo' = Awake(stacks),
         NEW u \in Threads, stacks[u] = todo[u]
  PROVE  /\ Idle(u) => Idle(u)'
         /\ W(u)' = W(u) \/ (Keeps(W(u)', W(u)) /\ Resting(W(u)))
<1>1. todo'[u] = IF todo[u] # <<>> /\ Head(todo[u])[1] = "asleep"
                 THEN <<[Head(todo[u]) EXCEPT ![1] = "look"]>> \o Tail(todo[u]) ELSE todo[u]
  BY DEF Awake
<1>2. CASE todo[u] # <<>> /\ Head(todo[u])[1] = "asleep"
  <2>1. WaitFrame(Head(todo[u]))
    <3>1. ASSUME Sound(todo[u], sequence) PROVE FALSE
      <4>1. Head(todo[u]) \in ToSet(todo[u])
        BY <1>2, <3>1 DEF Sound, ToSet
      <4>2. QED
        BY <1>2, <3>1, <4>1 DEF Sound, Fits
    <3>2. QED
      BY <3>1 DEF WakeInv, Sleeps
  <2>2. PICK f : f = [Head(todo[u]) EXCEPT ![1] = "look"]
    OBVIOUS
  <2>3. f[1] = "look"
    BY <2>1, <2>2 DEF WaitFrame
  <2>4. Reached(<<f>> \o Tail(todo[u])) = <<f>> \o Tail(todo[u])
    <3>1. PICK S : S = ToSet(todo[u]) \cup {f}
      OBVIOUS
    <3>2. todo[u] \in Seq(S)
      BY <3>1, IsSeq, SeqWider
    <3>3. Tail(todo[u]) \in Seq(S) /\ f \in S /\ f[1] \notin Marks
      BY <1>2, <2>3, <3>1, <3>2 DEF Marks
    <3>4. QED
      BY <3>3, ReachedAtOnce
  <2>5. todo'[u] = Becomes(u, <<f>>)
    BY <1>1, <1>2, <2>2, <2>4 DEF Becomes
  <2>6. PICK w, x : w = W(u) /\ x = Word(Becomes(u, <<f>>))
    OBVIOUS
  <2>7. w[1][1] = "asleep"
    BY <1>2, <2>6, IsSeq
  <2>8. Keeps(x, w) /\ Resting(w)
    BY <1>2, <2>3, <2>6, <2>7, LooseOne DEF Low, Free, Marks, Receiving
  <2>9. QED
    BY <1>2, <2>5, <2>6, <2>8 DEF W, Idle
<1>3. CASE ~(todo[u] # <<>> /\ Head(todo[u])[1] = "asleep")
  BY <1>1, <1>3 DEF W, Idle
<1>4. QED
  BY <1>2, <1>3

\* The stack of nobody.
LEMMA EmptyWord == \A i \in Places : Word(<<>>)[i] = <<"end">>
<1>1. 1..Len(<<>>) = {}
  OBVIOUS
<1>2. QED
  BY <1>1 DEF Word

\* The word of a list.
LEMMA ListWord ==
  ASSUME NEW T, NEW list \in Seq(T)
  PROVE  /\ \A i \in 1..Len(list) : Word(list)[i] = list[i]
         /\ \A i \in Places : Word(list)[Len(list) + i] = <<"end">>
<1>1. Len(list) \in Nat
  OBVIOUS
<1>2. \A i \in 1..Len(list) : i \in Places
  BY DEF Places
<1>3. \A i \in Places : Len(list) + i \in Places /\ Len(list) + i \notin 1..Len(list)
  BY <1>1 DEF Places
<1>4. QED
  BY <1>2, <1>3 DEF Word

\* The reader goes on with other frames, and everybody looks.
LEMMA ReaderAwakes ==
  ASSUME WakeInv, ReleaseInv, Steady, Reader \in Threads, todo[Reader] # <<>>,
         NEW w, w = W(Reader), Resting(w),
         NEW frames, Word(frames)[1][1] # "asleep", NEW x, x = Word(frames), Keeps(x, w),
         Awake([todo EXCEPT ![Reader] = frames])[Reader] = frames,
         todo' = Awake([todo EXCEPT ![Reader] = frames])
  PROVE  ReleaseInv'
<1>1. W(Reader)' = x
  BY DEF W
<1>2. \A u \in Threads : u # Reader => [todo EXCEPT ![Reader] = frames][u] = todo[u]
  BY DEF WakeInv
<1>3. ASSUME NEW u \in Threads, u # Reader
      PROVE  /\ Idle(u) => Idle(u)'
             /\ W(u)' = W(u) \/ (Keeps(W(u)', W(u)) /\ Resting(W(u)))
  BY <1>2, <1>3, AwakeIs
<1>4. \A u \in Threads : Idle(u) => Idle(u)'
  BY <1>3 DEF Idle
<1>5. Easier
  BY <1>4, RegistryAssumption, EasierIs DEF Steady
<1>6. CloserOK'
  <2>1. \A u \in Threads : Has(W(u)', "close_end") => Has(W(u), "close_end")
    BY <1>1, <1>3 DEF Keeps
  <2>2. QED
    BY <2>1, CloserSame DEF Steady
<1>7. \A u \in Threads : \/ W(u)' = W(u)
                         \/ Sane(W(u)') /\ Carries(W(u)', W(u)) /\ Resting(W(u))
  BY <1>1, <1>3 DEF Keeps
<1>8. QED
  BY <1>5, <1>6, <1>7, LooseStep DEF Steady

LEMMA ReaderReleases ==
  ASSUME WakeInv, ReleaseInv, ReaderEnds \/ Receive \/ Accept \/ Store,
         UNCHANGED <<registryVars, lifecycle, calls>>
  PROVE  ReleaseInv'
<1>0. Reader \in Threads /\ todo[Reader] # <<>>
  BY RouterAssumption DEF ReaderEnds, Receive, Accept, Store, At
<1>1. Steady
  BY DEF ReaderEnds, Receive, Accept, Store, routerVars, connection, store, registryVars, endpoints,
     lifecycle, Steady
<1>2. CASE Receive
  <2>1. PICK f : f = <<"accept", <<sequence + 1, Head(inbox)>>>>
    OBVIOUS
  <2>2. f[1] \in Free \ Marks /\ "read" \in Receiving /\ "read" \in Low \ {"end"}
    BY <2>1 DEF Free, Marks, Receiving, Low
  <2>3. At(Reader, "read") /\ Does(Reader, <<f>>)
    BY <1>2, <2>1 DEF Receive
  <2>4. QED
    BY <1>0, <1>1, <2>2, <2>3, OneStep
<1>3. CASE Accept
  <2>1. At(Reader, "accept") /\ "accept" \in Receiving /\ "accept" \in Low \ {"end"}
    BY <1>3 DEF Accept, Receiving, Low
  <2>2. PICK f : f \in {<<"store", Arg(Reader)>>, <<"read">>} /\ Does(Reader, <<f>>)
    BY <1>3 DEF Accept
  <2>3. f[1] \in Free \ Marks
    BY <2>2 DEF Free, Marks, Receiving
  <2>4. QED
    BY <1>0, <1>1, <2>1, <2>2, <2>3, OneStep
<1>4. PICK w : w = W(Reader)
  OBVIOUS
<1>5. Sane(w)
  BY <1>0, <1>4 DEF ReleaseInv
<1>6. ASSUME ReaderEnds \/ Store
      PROVE  /\ w[1][1] \in Receiving /\ w[1][1] \in Low /\ Resting(w)
             /\ \A j \in Places : 1 + j \in Places /\ w[1 + j] = <<"end">>
  <2>1. w[1][1] \in {"read", "store"}
    BY <1>0, <1>4, <1>6, AtIs DEF ReaderEnds, Store
  <2>2. w[1][1] \in Receiving /\ w[1][1] \in Low /\ Resting(w)
    BY <2>1 DEF Receiving, Low, Resting, Lifecycle
  <2>3. \A j \in Places : 1 \in Places /\ 1 + j \in Places /\ 1 < 1 + j
    BY DEF Places
  <2>4. QED
    BY <1>5, <2>2, <2>3 DEF Sane, Bottom
<1>7. CASE ReaderEnds
  <2>1. PICK x : x = Word(<<>>)
    OBVIOUS
  <2>2. \A j \in Places : x[j] = <<"end">>
    BY <2>1, EmptyWord
  <2>3. Keeps(x, w)
    <3>1. Splices(x, w, 0, 1)
      <4>1. \A j \in Places : 0 + j = j
        BY DEF Places
      <4>2. QED
        BY <1>6, <1>7, <2>2, <4>1 DEF Splices
    <3>2. /\ 1 \in Places /\ 1 \in 1..1 /\ 1 + 1 \in Places /\ w[1 + 1] = <<"end">>
          /\ \A i \in 1..1 : i = 1
          /\ \A i \in (1 + 1)..1 : FALSE
      BY <1>6, <1>7 DEF Places
    <3>3. w[1][1] \notin Lifecycle \cup {"enter", "raise", "exit", "disconnect", "release"}
      BY <1>6, <1>7 DEF Receiving, Lifecycle
    <3>4. <<"end">>[1] \notin Marks
      BY DEF Marks
    <3>5. QED
      BY <1>5, <3>1, <3>2, <3>3, <3>4, LoosePop
  <2>4. todo' = Awake([todo EXCEPT ![Reader] = <<>>])
    BY <1>7 DEF ReaderEnds
  <2>5. Awake([todo EXCEPT ![Reader] = <<>>])[Reader] = <<>>
    BY <1>0 DEF Awake, WakeInv
  <2>6. x[1][1] # "asleep"
    <3>1. x[1] = <<"end">>
      BY <2>2 DEF Places
    <3>2. QED
      BY <3>1
  <2>7. QED
    BY <1>0, <1>1, <1>4, <1>6, <1>7, <2>1, <2>3, <2>4, <2>5, <2>6, ReaderAwakes
<1>8. CASE Store
  <2>1. PICK published : published = <<"published", Arg(Reader)>>
    OBVIOUS
  <2>2. PICK frames : frames = <<published, <<"swallow">>, <<"user">>, <<"swallow">>, <<"read">>>>
    OBVIOUS
  <2>3. PICK x : x = Word(frames)
    OBVIOUS
  <2>4. /\ x[1] = published /\ x[2] = <<"swallow">> /\ x[3] = <<"user">> /\ x[4] = <<"swallow">>
        /\ x[5] = <<"read">> /\ \A i \in Places : x[5 + i] = <<"end">>
    <3>1. PICK T : T = {published, <<"swallow">>, <<"user">>, <<"read">>}
      OBVIOUS
    <3>2. frames \in Seq(T) /\ Len(frames) = 5
      BY <2>2, <3>1
    <3>3. \A i \in 1..5 : x[i] = frames[i]
      BY <2>3, <3>2, ListWord
    <3>4. \A i \in Places : x[5 + i] = <<"end">>
      BY <2>3, <3>2, ListWord
    <3>5. QED
      BY <2>2, <3>3, <3>4
  <2>5. Keeps(x, w)
    <3>1. Splices(x, w, 5, 1)
      BY <1>6, <1>8, <2>4 DEF Splices
    <3>2. \A i \in 1..5 : i \in {1, 2, 3, 4, 5}
      OBVIOUS
    <3>3. /\ \A i \in 1..5 : /\ x[i][1] \in Free
                             /\ x[i][1] \notin {"raise", "registry_accept"}
          /\ \A i \in 1..5 : x[i][1] \in Receiving => i = 5
      BY <2>1, <2>4, <3>2 DEF Free, Receiving
    <3>4. x[5 + 1] = <<"end">> /\ x[5 + 2] = <<"end">>
      BY <2>4 DEF Places
    <3>5. Plain(x[5 + 1][1], x[5 + 2][1])
      BY <3>4 DEF Plain, Lifecycle
    <3>6. \A i \in 1..5 : Linked(x, i) /\ x[i][1] \notin Lifecycle \cup {"closed", "close_end"}
      BY <3>3, <3>5, FreeLinked
    <3>7. w[1][1] \notin Lifecycle \cup {"enter", "raise"}
      BY <1>6, <1>8 DEF Receiving, Lifecycle
    <3>8. QED
      BY <1>5, <1>6, <1>8, <3>1, <3>3, <3>6, <3>7, LoosePush
  <2>6. todo' = Awake([todo EXCEPT ![Reader] = frames])
    BY <1>8, <2>1, <2>2 DEF Store
  <2>7. Awake([todo EXCEPT ![Reader] = frames])[Reader] = frames
    <3>1. frames # <<>> /\ Head(frames)[1] # "asleep"
      BY <2>1, <2>2
    <3>2. QED
      BY <1>0, <3>1 DEF Awake, WakeInv
  <2>8. x[1][1] # "asleep"
    BY <2>1, <2>4
  <2>9. QED
    BY <1>0, <1>1, <1>4, <1>6, <1>8, <2>3, <2>5, <2>6, <2>7, <2>8, ReaderAwakes
<1>9. QED
  BY <1>2, <1>3, <1>7, <1>8
-------------------------------------------------------------------------------
\* Calls of the application.

\* Frames that a caller begins with.
Begins(frames, T) ==
  /\ frames \in Seq(T) /\ frames # <<>>
  /\ \A f \in T : f[1] \in {"enter", "close", "disconnect", "prune", "remove", "wait_for", "user"}

LEMMA CommandBegins == ASSUME NEW name PROVE \E T : Begins(Command(name), T)
<1>1. ASSUME NEW f, f[1] \in {"enter", "close", "disconnect", "prune", "remove", "wait_for", "user"}
      PROVE  Begins(<<f>>, {f})
  BY <1>1 DEF Begins
<1>2. /\ Begins(<<<<"enter", "start">>>>, {<<"enter", "start">>})
      /\ Begins(<<<<"enter", "stop">>>>, {<<"enter", "stop">>})
      /\ Begins(<<<<"close">>>>, {<<"close">>})
      /\ Begins(<<<<"disconnect">>>>, {<<"disconnect">>})
      /\ Begins(<<<<"prune", <<clock, 0>>>>>>, {<<"prune", <<clock, 0>>>>})
      /\ Begins(<<<<"remove", Vehicle>>>>, {<<"remove", Vehicle>>})
      /\ Begins(<<<<"wait_for", name>>>>, {<<"wait_for", name>>})
  BY <1>1
<1>3. Begins(<<<<"enter", "stop">>, <<"enter", "start">>>>, {<<"enter", "stop">>, <<"enter", "start">>})
  BY DEF Begins
<1>4. QED
  BY <1>2, <1>3 DEF Command

\* A word of such frames over the end.
LEMMA BeginsKept ==
  ASSUME NEW T, NEW frames, Begins(frames, T), NEW x, x = Word(frames),
         NEW w, Sane(w), \A i \in Places : w[i] = <<"end">>
  PROVE  Keeps(x, w) /\ Resting(w)
<1>1. PICK n : n = Len(frames)
  OBVIOUS
<1>2. n \in Nat /\ n >= 1 /\ \A i \in 1..n : frames[i] \in T
  BY <1>1, ElementOfSeq DEF Begins
<1>3. /\ \A i \in 1..n : x[i] = frames[i]
      /\ \A i \in Places : x[n + i] = <<"end">>
  BY <1>1, ListWord DEF Begins
<1>4. w[1][1] = "end" /\ w[1 + 1] = <<"end">> /\ x[n + 1] = <<"end">> /\ x[n + 2] = <<"end">>
  BY <1>3 DEF Places
<1>5. Splices(x, w, n, 1)
  <2>1. \A j \in Places : 1 + j \in Places
    BY DEF Places
  <2>2. QED
    BY <1>3, <2>1 DEF Splices
<1>6. \A i \in 1..n : /\ x[i][1] \in Free \ Receiving
                      /\ x[i][1] \notin {"raise", "registry_accept"}
  BY <1>2, <1>3 DEF Begins, Free, Receiving
<1>7. Plain(x[n + 1][1], x[n + 2][1])
  BY <1>4 DEF Plain, Lifecycle
<1>8. \A i \in 1..n : Linked(x, i) /\ x[i][1] \notin Lifecycle \cup {"closed", "close_end"}
  BY <1>2, <1>6, <1>7, FreeLinked
<1>9. w[1][1] \notin Lifecycle \cup {"enter", "raise"}
  BY <1>4 DEF Lifecycle
<1>10. Keeps(x, w)
  BY <1>2, <1>5, <1>6, <1>8, <1>9, LoosePush
<1>11. QED
  BY <1>4, <1>10 DEF Resting, Lifecycle

\* A callback calls: the frames are put above its own.
LEMMA CallbackCalls ==
  ASSUME NEW T, NEW frames, Begins(frames, T), NEW n, n = Len(frames),
         NEW w, Sane(w), w[1][1] = "user",
         NEW x, \A i \in 1..n : x[i] = frames[i], x[n + 1] = <<"swallow">>,
         \A i \in Places : x[(n + 1) + i] = w[i]
  PROVE  Keeps(x, w) /\ Resting(w)
<1>1. n \in Nat /\ n >= 1 /\ \A i \in 1..n : frames[i] \in T
  BY ElementOfSeq DEF Begins
<1>2. /\ n + 1 \in Nat /\ n + 2 \in Nat /\ n + 2 >= 1 /\ n + 2 # 1
      /\ (n + 1) + 1 = n + 2 /\ (n + 1) + 2 = n + 3 /\ (n + 1) + 3 = n + 4
      /\ (n + 2) + 1 = n + 3 /\ (n + 2) + 2 = n + 4
      /\ 1 \in Places /\ 2 \in Places /\ 3 \in Places
  BY <1>1 DEF Places
<1>3. x[n + 2] = w[1] /\ x[n + 3] = w[2] /\ x[n + 4] = w[3]
  BY <1>2
<1>4. Splices(x, w, n + 2, 1)
  <2>1. \A j \in Places : 1 + j \in Places /\ (n + 2) + j = (n + 1) + (1 + j)
    BY <1>1 DEF Places
  <2>2. QED
    BY <2>1 DEF Splices
<1>5. \A i \in 1..n : /\ x[i][1] \in Free \ Receiving
                      /\ x[i][1] \notin {"raise", "registry_accept"}
  BY <1>1 DEF Begins, Free, Receiving
<1>6. \A i \in 1..(n + 1) : x[i][1] \in Free \ Receiving /\ x[i][1] \notin {"raise", "registry_accept"}
  <2>1. x[n + 1][1] \in Free \ Receiving /\ x[n + 1][1] \notin {"raise", "registry_accept"}
    BY DEF Free, Receiving
  <2>2. \A i \in 1..(n + 1) : i \in 1..n \/ i = n + 1
    BY <1>1
  <2>3. QED
    BY <1>5, <2>1, <2>2
<1>7. Plain(x[(n + 1) + 1][1], x[(n + 1) + 2][1])
  BY <1>2, <1>3 DEF Plain, Lifecycle
<1>8. \A i \in 1..(n + 1) : Linked(x, i) /\ x[i][1] \notin Lifecycle \cup {"closed", "close_end"}
  BY <1>2, <1>6, <1>7, FreeLinked
<1>9. Linked(x, n + 2)
  <2>1. /\ Chain(w[1][1], w[2][1], w[3][1], TRUE) /\ Gate(w[1][1], w[2][1], w[3][1], TRUE)
        /\ Agrees(w[1], w[2][1])
    BY AtOne
  <2>2. Chain(w[1][1], w[2][1], w[3][1], FALSE)
    BY DEF Chain, Reports
  <2>3. Gate(w[1][1], w[2][1], w[3][1], FALSE)
    BY <2>1 DEF Gate, Finally
  <2>4. (n + 2 = 1) = FALSE
    BY <1>2
  <2>5. QED
    BY <1>2, <1>3, <2>1, <2>2, <2>3, <2>4 DEF Linked
<1>10. \A i \in 1..(n + 2) : /\ Linked(x, i) /\ x[i][1] \notin Lifecycle \cup {"closed", "close_end"}
                             /\ x[i][1] \notin Receiving
  <2>1. x[n + 2][1] \notin Lifecycle \cup {"closed", "close_end"} \cup Receiving
    BY <1>3 DEF Lifecycle, Receiving
  <2>2. \A i \in 1..(n + 2) : i \in 1..(n + 1) \/ i = n + 2
    BY <1>1
  <2>3. QED
    BY <1>6, <1>8, <1>9, <2>1, <2>2
<1>11. w[1][1] \notin Lifecycle \cup {"enter", "raise"}
  BY DEF Lifecycle
<1>12. Keeps(x, w)
  BY <1>2, <1>4, <1>10, <1>11, LoosePush
<1>13. QED
  BY <1>12 DEF Resting, Lifecycle

\* A thread is given other frames, by itself or by another one.
LEMMA LooseStack ==
  ASSUME WakeInv, ReleaseInv, NEW t \in Threads, NEW stack, todo' = [todo EXCEPT ![t] = stack],
         t \notin {Reader, Monitor} \/ ~Idle(t),
         Keeps(Word(stack), W(t)), Resting(W(t)), Steady
  PROVE  ReleaseInv'
<1>1. todo'[t] = stack /\ \A u \in Threads : u # t => todo'[u] = todo[u]
  BY DEF WakeInv
<1>2. W(t)' = Word(stack) /\ \A u \in Threads : u # t => W(u)' = W(u)
  BY <1>1 DEF W
<1>3. (Idle(Reader) => Idle(Reader)') /\ (Idle(Monitor) => Idle(Monitor)')
  BY <1>1, RouterAssumption, RegistryAssumption DEF Idle
<1>4. Easier
  BY <1>3, EasierIs DEF Steady
<1>5. CloserOK'
  <2>1. \A u \in Threads : Has(W(u)', "close_end") => Has(W(u), "close_end")
    BY <1>2 DEF Keeps
  <2>2. QED
    BY <2>1, CloserSame DEF Steady
<1>6. \A u \in Threads : \/ W(u)' = W(u)
                         \/ Sane(W(u)') /\ Carries(W(u)', W(u)) /\ Resting(W(u))
  BY <1>2 DEF Keeps
<1>7. QED
  BY <1>4, <1>5, <1>6, LooseStep DEF Steady

LEMMA CallReleases ==
  ASSUME WakeInv, ReleaseInv, NEW t \in Threads, Call(t) \/ Handle \/ Leave(t) \/ Published
  PROVE  ReleaseInv'
<1>1. Steady
  <2>1. UNCHANGED <<lifecycle, routerVars, registryVars>>
    BY DEF Call, Handle, Leave, Published, runtimeVars
  <2>2. QED
    BY <2>1 DEF routerVars, connection, registryVars, endpoints, lifecycle, Steady
<1>2. ASSUME NEW u \in Threads, Idle(u) PROVE Sane(W(u)) /\ \A i \in Places : W(u)[i] = <<"end">>
  BY <1>2, EmptyWord DEF Idle, W, ReleaseInv
<1>3. CASE Leave(t)
  BY <1>1, <1>3, PopStep DEF Leave, Passing
<1>4. CASE Published
  <2>1. At(Reader, "published") /\ "published" \in Passing /\ "published" \in Low \ {"end"}
    BY <1>4 DEF Published, Passing, Low
  <2>2. Reader \in Threads
    BY RouterAssumption
  <2>3. CASE Does(Reader, <<>>)
    BY <1>1, <2>1, <2>2, <2>3, PopStep
  <2>4. PICK f : /\ f[1] = "registry_accept"
                 /\ Does(Reader, <<>>) \/ Does(Reader, <<f>>)
    <3>1. PICK a : Does(Reader, <<>>) \/ Does(Reader, <<<<"registry_accept", a>>>>)
      BY <1>4 DEF Published
    <3>2. QED
      BY <3>1
  <2>5. f[1] \in Free \ Marks /\ f[1] \notin Receiving
    BY <2>4 DEF Free, Marks, Receiving
  <2>6. CASE Does(Reader, <<f>>)
    BY <1>1, <2>1, <2>2, <2>5, <2>6, OneStep
  <2>7. QED
    BY <2>3, <2>4, <2>6
<1>5. CASE Handle
  <2>1. Handler \in Threads /\ Handler \notin {Reader, Monitor}
    BY RuntimeAssumption
  <2>2. PICK f : f = <<"user">>
    OBVIOUS
  <2>3. Begins(<<f>>, {f})
    BY <2>2 DEF Begins
  <2>4. Idle(Handler) /\ todo' = [todo EXCEPT ![Handler] = <<f>>]
    BY <1>5, <2>2 DEF Handle
  <2>5. Keeps(Word(<<f>>), W(Handler)) /\ Resting(W(Handler))
    BY <1>2, <2>1, <2>3, <2>4, BeginsKept
  <2>6. QED
    BY <1>1, <2>1, <2>4, <2>5, LooseStack
<1>6. CASE Call(t)
  <2>1. PICK call \in calls :
          \/ t \in Clients /\ Idle(t) /\ todo' = [todo EXCEPT ![t] = Command(call[2])]
          \/ /\ At(t, "user")
             /\ todo' = [todo EXCEPT ![t] = Command(call[2]) \o <<<<"swallow">>>> \o @]
    BY <1>6 DEF Call
  <2>2. PICK T, frames : Begins(frames, T) /\ frames = Command(call[2])
    BY CommandBegins
  <2>3. CASE t \in Clients /\ Idle(t) /\ todo' = [todo EXCEPT ![t] = frames]
    <3>1. t \notin {Reader, Monitor}
      BY <2>3, RuntimeAssumption
    <3>2. Keeps(Word(frames), W(t)) /\ Resting(W(t))
      BY <1>2, <2>2, <2>3, BeginsKept
    <3>3. QED
      BY <1>1, <2>3, <3>1, <3>2, LooseStack
  <2>4. CASE At(t, "user") /\ todo' = [todo EXCEPT ![t] = frames \o <<<<"swallow">>>> \o @]
    <3>1. PICK stack, mark : stack = frames \o mark \o todo[t] /\ mark = <<<<"swallow">>>>
      OBVIOUS
    <3>2. PICK n : n = Len(frames) /\ n \in Nat
      BY <2>2 DEF Begins
    <3>3. PICK S : S = T \cup ToSet(todo[t]) \cup {<<"swallow">>}
      OBVIOUS
    <3>4. /\ frames \in Seq(S) /\ mark \in Seq(S) /\ todo[t] \in Seq(S)
          /\ Len(mark) = 1 /\ mark[1] = <<"swallow">> /\ Len(todo[t]) \in Nat
      BY <2>2, <3>1, <3>3, IsSeq, SeqWider DEF Begins
    <3>5. PICK above : above = frames \o mark
      OBVIOUS
    <3>6. /\ above \in Seq(S) /\ Len(above) = n + 1 /\ above[n + 1] = <<"swallow">>
          /\ \A i \in 1..n : above[i] = frames[i]
      <4>1. /\ above \in Seq(S) /\ Len(above) = Len(frames) + Len(mark)
            /\ \A i \in 1..Len(frames) : above[i] = frames[i]
            /\ \A i \in 1..Len(mark) : above[Len(frames) + i] = mark[i]
        <5>1. frames \in Seq(S) /\ mark \in Seq(S)
          BY <3>4
        <5>2. QED
          BY <3>5, <5>1, Joins
      <4>2. above[n + 1] = mark[1]
        BY <3>2, <3>4, <4>1
      <4>3. QED
        BY <3>2, <3>4, <4>1, <4>2
    <3>7. /\ stack \in Seq(S) /\ Len(stack) = (n + 1) + Len(todo[t])
          /\ \A i \in 1..(n + 1) : stack[i] = above[i]
          /\ \A i \in 1..Len(todo[t]) : stack[(n + 1) + i] = todo[t][i]
      BY <3>1, <3>2, <3>4, <3>5, <3>6, Joins
    <3>8. PICK x : x = Word(stack)
      OBVIOUS
    <3>9. \A i \in 1..(n + 1) : x[i] = above[i]
      <4>1. PICK l : l = Len(todo[t])
        OBVIOUS
      <4>2. l \in Nat /\ Len(stack) = (n + 1) + l
        BY <3>4, <3>7, <4>1
      <4>3. \A i \in 1..(n + 1) : i \in Places /\ i \in 1..Len(stack)
        BY <3>2, <4>2 DEF Places
      <4>4. QED
        BY <3>7, <3>8, <4>3 DEF Word
    <3>10. \A i \in Places : x[(n + 1) + i] = W(t)[i]
      <4>1. PICK l : l = Len(todo[t])
        OBVIOUS
      <4>2. l \in Nat /\ Len(stack) = (n + 1) + l
        BY <3>4, <3>7, <4>1
      <4>3. \A i \in Places : /\ (n + 1) + i \in Places
                              /\ (n + 1) + i \in 1..Len(stack) <=> i \in 1..Len(todo[t])
        BY <3>2, <4>1, <4>2 DEF Places
      <4>4. QED
        BY <3>7, <3>8, <4>3 DEF Word, W
    <3>11. /\ \A i \in 1..n : x[i] = frames[i]
           /\ x[n + 1] = <<"swallow">>
      BY <3>2, <3>6, <3>9
    <3>12. todo[t] # <<>> /\ W(t)[1][1] = "user" /\ Sane(W(t))
      BY <2>4, AtIs DEF ReleaseInv
    <3>13. Keeps(x, W(t)) /\ Resting(W(t))
      <4>1. PICK w : w = W(t)
        OBVIOUS
      <4>2. w[1][1] = "user" /\ Sane(w) /\ \A i \in Places : x[(n + 1) + i] = w[i]
        BY <3>10, <3>12, <4>1
      <4>3. Begins(frames, T) /\ n = Len(frames)
        BY <2>2, <3>2
      <4>4. Keeps(x, w) /\ Resting(w)
        BY <3>11, <4>2, <4>3, CallbackCalls
      <4>5. QED
        BY <4>1, <4>4
    <3>14. todo' = [todo EXCEPT ![t] = stack]
      BY <2>4, <3>1
    <3>15. QED
      BY <1>1, <3>8, <3>12, <3>13, <3>14, LooseStack DEF Idle
  <2>5. QED
    BY <2>1, <2>2, <2>3, <2>4
<1>7. QED
  BY <1>3, <1>4, <1>5, <1>6
-------------------------------------------------------------------------------
\* close().

\* Nothing is left to be done by close() and what it calls.
LEMMA ClosesKept ==
  ASSUME NEW w, Sane(w), w[1][1] \in Low, ~Has(w, "close_end"),
         NEW x, x[1] = <<"enter", "stop">>, x[2] = <<"registry_stop">>, x[3] = <<"closed">>,
         x[4] = <<"close_end", FALSE>>, Splices(x, w, 4, 1)
  PROVE  Sane(x) /\ Carries(x, w) /\ Resting(w)
<1>1. /\ 1 \in Places /\ 2 \in Places /\ 3 \in Places /\ 4 \in Places
      /\ 1 + 1 = 2 /\ 1 + 2 = 3 /\ 2 + 1 = 3 /\ 2 + 2 = 4 /\ 3 + 1 = 4 /\ 3 + 2 = 5 /\ 4 + 1 = 5 /\ 4 + 2 = 6
      /\ \A i \in 1..4 : i \in {1, 2, 3, 4}
  BY DEF Places
<1>2. x[5] = w[2] /\ x[6] = w[3]
  BY <1>1 DEF Splices
<1>3. Plain(w[2][1], w[3][1]) /\ w[1][1] \notin Lifecycle
  BY PlainBelow
<1>4. Linked(x, 1)
  BY <1>1 DEF Linked, Chain, Gate, Agrees, Lifecycle, Reports
<1>5. Linked(x, 2)
  BY <1>1, <1>2 DEF Linked, Chain, Gate, Agrees, Lifecycle, Reports
<1>6. Linked(x, 3)
  BY <1>1, <1>2 DEF Linked, Chain, Gate, Agrees, Lifecycle, Reports
<1>7. Linked(x, 4)
  <2>1. Chain("close_end", w[2][1], w[3][1], FALSE)
    BY DEF Chain, Reports
  <2>2. Gate("close_end", w[2][1], w[3][1], FALSE)
    BY <1>3 DEF Gate, Plain, Lifecycle
  <2>3. Agrees(<<"close_end", FALSE>>, w[2][1])
    BY <1>3 DEF Agrees, Plain, Reports
  <2>4. (4 = 1) = FALSE
    OBVIOUS
  <2>5. x[4][1] = "close_end" /\ x[4 + 1] = w[2] /\ x[4 + 2] = w[3]
    BY <1>1, <1>2
  <2>6. QED
    BY <2>1, <2>2, <2>3, <2>4, <2>5 DEF Linked
<1>8. \A i \in 1..4 : /\ Linked(x, i)
                      /\ x[i][1] \in {"enter", "registry_stop", "closed", "close_end"}
                      /\ x[i][1] = "close_end" => i = 4
  BY <1>1, <1>4, <1>5, <1>6, <1>7
<1>9. \A j \in Places : 1 + j \in Places /\ 4 + j \in Places /\ x[4 + j] = w[1 + j]
  BY DEF Places, Splices
<1>10. Once(x)
  <2>1. ASSUME NEW i \in Places, x[i][1] = "close_end" PROVE i = 4
    <3>1. CASE i \in 1..4
      BY <1>8, <2>1, <3>1
    <3>2. CASE i - 4 \in Places /\ 4 + (i - 4) = i
      BY <1>9, <2>1, <3>2 DEF Has
    <3>3. QED
      BY <3>1, <3>2, PlaceIs
  <2>2. QED
    BY <2>1 DEF Once
<1>11. Placed(x)
  <2>1. SUFFICES ASSUME NEW i \in Places, NEW j \in Places, x[i][1] = "exit", x[j][1] \in Lifecycle
                 PROVE  j <= i
    BY DEF Placed
  <2>2. i \notin 1..4 /\ j \notin 1..4
    BY <1>8, <2>1 DEF Lifecycle
  <2>3. i - 4 \in Places /\ 4 + (i - 4) = i /\ j - 4 \in Places /\ 4 + (j - 4) = j
    BY <2>2, PlaceIs
  <2>4. w[1 + (i - 4)][1] = "exit" /\ w[1 + (j - 4)][1] \in Lifecycle
    BY <1>9, <2>1, <2>3
  <2>5. 1 + (j - 4) <= 1 + (i - 4)
    BY <1>9, <2>3, <2>4 DEF Sane, Placed
  <2>6. QED
    BY <2>3, <2>5 DEF Places
<1>12. Sane(x)
  <2>1. \A i \in 1..4 : Linked(x, i) /\ x[i][1] \notin Receiving
    BY <1>8 DEF Receiving
  <2>2. QED
    BY <1>1, <1>10, <1>11, <2>1, SaneOver
<1>13. ~Due(x)
  BY <1>1 DEF Due, Awaits
<1>14. Carries(x, w)
  <2>1. \A i \in 1..4 : x[i][1] \notin Lifecycle
    BY <1>8 DEF Lifecycle
  <2>2. QED
    BY <1>3, <1>13, <2>1, CarriesOver
<1>15. QED
  BY <1>3, <1>12, <1>14 DEF Resting, Low, Receiving

LEMMA ClosesReleases ==
  ASSUME WakeInv, ReleaseInv, NEW t \in Threads, At(t, "close") \/ At(t, "close_wait"), ~closing,
         Closes(t), UNCHANGED <<running, cleanup, closed, owner, started, dispatching>>,
         UNCHANGED <<routerVars, registryVars>>
  PROVE  ReleaseInv'
<1>1. PICK stop, halt, done, end, frames :
        /\ stop = <<"enter", "stop">> /\ halt = <<"registry_stop">> /\ done = <<"closed">>
        /\ end = <<"close_end", FALSE>> /\ frames = <<stop, halt, done, end>>
  OBVIOUS
<1>2. Does(t, frames) /\ closing' = TRUE
  BY <1>1 DEF Closes
<1>3. PICK w, x : w = W(t) /\ x = Word(Becomes(t, frames))
  OBVIOUS
<1>4. todo[t] # <<>> /\ w[1][1] \in Low /\ Sane(w)
  BY <1>3, AtIs DEF Low, ReleaseInv
<1>5. Splices(x, w, 4, 1) /\ x[1] = stop /\ x[2] = halt /\ x[3] = done /\ x[4] = end
  <2>1. PICK T : T = {stop, halt, done, end}
    OBVIOUS
  <2>2. frames \in Seq(T) /\ frames # <<>> /\ Len(frames) = 4 /\ frames[1] = stop
    BY <1>1, <2>1
  <2>3. frames[1][1] \notin Marks
    BY <1>1, <2>2 DEF Marks
  <2>4. Splices(x, w, Len(frames), 1) /\ \A i \in 1..Len(frames) : x[i] = frames[i]
    BY <1>3, <1>4, <2>2, <2>3, PushWord
  <2>5. /\ frames[1] = stop /\ frames[2] = halt /\ frames[3] = done /\ frames[4] = end
    BY <1>1
  <2>6. 1 \in 1..4 /\ 2 \in 1..4 /\ 3 \in 1..4 /\ 4 \in 1..4
    OBVIOUS
  <2>7. QED
    BY <2>2, <2>4, <2>5, <2>6
<1>6. \A u \in Threads : ~Has(W(u), "close_end")
  BY DEF ReleaseInv
<1>7. Sane(x) /\ Carries(x, w) /\ Resting(w)
  BY <1>1, <1>3, <1>4, <1>5, <1>6, ClosesKept
<1>8. /\ W(t)' = x
      /\ \A u \in Threads : u # t => W(u)' = W(u)
      /\ \A u \in Threads : Idle(u) => Idle(u)'
  BY <1>2, <1>3, <1>4, DoesOnly
<1>9. Easier
  <2>1. (Idle(Reader) => Idle(Reader)') /\ (Idle(Monitor) => Idle(Monitor)')
    BY <1>8, RouterAssumption, RegistryAssumption
  <2>2. QED
    BY <2>1, EasierIs DEF routerVars, connection, registryVars, endpoints
<1>10. CloserOK'
  BY <1>2, <1>6, <1>8 DEF CloserOK
<1>11. \A u \in Threads : \/ W(u)' = W(u)
                          \/ Sane(W(u)') /\ Carries(W(u)', W(u)) /\ Resting(W(u))
  BY <1>3, <1>7, <1>8
<1>12. QED
  BY <1>9, <1>10, <1>11, LooseStep DEF routerVars

LEMMA CloseReleases ==
  ASSUME WakeInv, ReleaseInv, NEW t \in Threads, Close(t) \/ CloseWait(t) PROVE ReleaseInv'
<1>1. UNCHANGED <<running, cleanup, closed, owner, started, dispatching>>
      /\ UNCHANGED <<routerVars, registryVars>>
  BY DEF Close, CloseWait
<1>2. ASSUME UNCHANGED closing PROVE Steady
  BY <1>1, <1>2 DEF routerVars, connection, registryVars, endpoints, Steady
<1>3. CASE Close(t)
  <2>1. At(t, "close") /\ "close" \in Passing /\ "close" \in Low \ {"end"}
    BY <1>3 DEF Close, Passing, Low
  <2>2. CASE Does(t, <<<<"close_wait">>>>) /\ UNCHANGED closing
    <3>1. PICK f : f = <<"close_wait">>
      OBVIOUS
    <3>2. f[1] \in Free \ Marks /\ f[1] \notin Receiving /\ Does(t, <<f>>)
      BY <2>2, <3>1 DEF Free, Marks, Receiving
    <3>3. QED
      BY <1>2, <2>1, <2>2, <3>2, OneStep
  <2>3. CASE Does(t, <<>>) /\ UNCHANGED closing
    BY <1>2, <2>1, <2>3, PopStep
  <2>4. CASE ~closing /\ Closes(t)
    BY <1>1, <2>1, <2>4, ClosesReleases
  <2>5. QED
    BY <1>3, <2>2, <2>3, <2>4 DEF Close
<1>4. CASE CloseWait(t)
  <2>1. /\ At(t, "close_wait") /\ ~closing
        /\ "close_wait" \in Passing /\ "close_wait" \in Low \ {"end"}
    BY <1>4 DEF CloseWait, Passing, Low
  <2>2. CASE Raises(t) /\ UNCHANGED closing
    <3>1. PICK f : f = <<"raise">>
      OBVIOUS
    <3>2. f[1] \in Free \ Marks /\ f[1] \notin Receiving /\ Does(t, <<f>>)
      BY <2>2, <3>1 DEF Free, Marks, Receiving, Raises
    <3>3. QED
      BY <1>2, <2>1, <2>2, <3>2, OneStep
  <2>3. CASE Does(t, <<>>) /\ UNCHANGED closing
    BY <1>2, <2>1, <2>3, PopStep
  <2>4. CASE Closes(t)
    BY <1>1, <2>1, <2>4, ClosesReleases
  <2>5. QED
    BY <1>4, <2>2, <2>3, <2>4 DEF CloseWait
<1>5. QED
  BY <1>3, <1>4

\* The registry has been stopped: nothing has been started in between.
LEMMA ClosedReleases ==
  ASSUME WakeInv, ReleaseInv, NEW t \in Threads, Closed(t) \/ CloseEnd(t) PROVE ReleaseInv'
<1>1. /\ Does(t, <<>>)
      /\ At(t, "closed") \/ At(t, "close_end")
      /\ UNCHANGED <<running, cleanup, owner, started, dispatching>>
      /\ UNCHANGED <<routerVars, registryVars>>
  BY DEF Closed, CloseEnd
<1>2. PICK w, x : w = W(t) /\ x = Word(Becomes(t, <<>>))
  OBVIOUS
<1>3. todo[t] # <<>> /\ w[1][1] \in {"closed", "close_end"} /\ Sane(w)
  BY <1>1, <1>2, AtIs DEF ReleaseInv
<1>4. Keeps(x, w) /\ Resting(w)
  BY <1>2, <1>3, LoosePops DEF Passing
<1>5. /\ W(t)' = x
      /\ \A u \in Threads : u # t => W(u)' = W(u)
      /\ \A u \in Threads : Idle(u) => Idle(u)'
  BY <1>1, <1>2, <1>3, DoesOnly
<1>6. Easier
  <2>1. (Idle(Reader) => Idle(Reader)') /\ (Idle(Monitor) => Idle(Monitor)')
    BY <1>5, RouterAssumption, RegistryAssumption
  <2>2. QED
    BY <1>1, <2>1, EasierIs DEF routerVars, connection, registryVars, endpoints
<1>7. \A u \in Threads : \/ W(u)' = W(u)
                         \/ Sane(W(u)') /\ Carries(W(u)', W(u)) /\ Resting(W(u))
  BY <1>2, <1>4, <1>5 DEF Keeps
<1>8. ASSUME CloserOK', closed' => closed \/ Stopped PROVE ReleaseInv'
  BY <1>1, <1>6, <1>7, <1>8, LooseStep DEF routerVars
<1>9. CASE Closed(t)
  <2>1. CloserOK'
    <3>1. \A u \in Threads : Has(W(u)', "close_end") => Has(W(u), "close_end")
      BY <1>2, <1>4, <1>5 DEF Keeps
    <3>2. QED
      BY <1>9, <3>1, CloserSame DEF Closed
  <2>2. Stopped
    <3>1. w[1][1] = "closed" /\ w[2][1] = "close_end"
      <4>1. w[1][1] = "closed"
        BY <1>2, <1>9, AtIs DEF Closed
      <4>2. Gate(w[1][1], w[2][1], w[3][1], TRUE)
        BY <1>3, AtOne
      <4>3. QED
        BY <4>1, <4>2 DEF Gate
    <3>2. ~Awaits(w)
      <4>1. SUFFICES ASSUME NEW i \in Places, w[i + 2][1] = "closed" PROVE FALSE
        BY DEF Awaits
      <4>2. i + 2 \in Places /\ (i + 2) + 1 \in Places /\ (i + 2) + 1 # 2 /\ 2 \in Places
        BY DEF Places
      <4>3. Gate(w[i + 2][1], w[(i + 2) + 1][1], w[(i + 2) + 2][1], TRUE)
        BY <1>3, <4>2, GateAt
      <4>4. w[(i + 2) + 1][1] = "close_end"
        BY <4>1, <4>3 DEF Gate
      <4>5. QED
        BY <1>3, <3>1, <4>2, <4>4 DEF Sane, Once
    <3>3. Due(w)
      BY <3>1, <3>2 DEF Due, Has, Places
    <3>4. QED
      BY <1>2, <3>3 DEF ReleaseInv
  <2>3. QED
    BY <1>8, <2>1, <2>2
<1>10. CASE CloseEnd(t)
  <2>1. w[1][1] = "close_end"
    BY <1>2, <1>10, AtIs DEF CloseEnd
  <2>2. ~Has(x, "close_end")
    <3>1. PICK d \in Places : Splices(x, w, 0, d)
      BY <1>2, <1>3, PopWord
    <3>2. \A j \in Places : 0 + j = j /\ d + j \in Places /\ d + j # 1 /\ 1 \in Places
      BY DEF Places
    <3>3. \A j \in Places : x[j][1] # "close_end"
      BY <1>3, <2>1, <3>1, <3>2 DEF Splices, Sane, Once
    <3>4. QED
      BY <3>3 DEF Has
  <2>3. \A u \in Threads : ~Has(W(u)', "close_end")
    <3>1. Has(W(t), "close_end")
      BY <1>2, <2>1 DEF Has, Places
    <3>2. \A u \in Threads : u # t => ~Has(W(u), "close_end")
      BY <3>1 DEF ReleaseInv
    <3>3. QED
      BY <1>5, <2>2, <3>2
  <2>4. CloserOK'
    BY <2>3 DEF CloserOK
  <2>5. closed' = closed
    BY <1>10 DEF CloseEnd
  <2>6. QED
    BY <1>8, <2>4, <2>5
<1>11. QED
  BY <1>9, <1>10

\* start() and stop() are refused.
LEMMA RefusedReleases ==
  ASSUME WakeInv, ReleaseInv, NEW t \in Threads, At(t, "enter"), Raises(t), Steady
  PROVE  ReleaseInv'
<1>1. PICK f, T : f = <<"raise">> /\ T = {f}
  OBVIOUS
<1>2. Does(t, <<f>>)
  BY <1>1 DEF Raises
<1>3. PICK w, x : w = W(t) /\ x = Word(Becomes(t, <<f>>))
  OBVIOUS
<1>4. todo[t] # <<>> /\ w[1][1] = "enter" /\ Sane(w)
  BY <1>3, AtIs DEF ReleaseInv
<1>5. Splices(x, w, 1, 1) /\ x[1] = f
  <2>1. PICK frames : frames = <<f>>
    OBVIOUS
  <2>2. frames \in Seq(T) /\ frames # <<>> /\ Len(frames) = 1 /\ frames[1] = f /\ 1 \in 1..1
    BY <1>1, <2>1
  <2>3. f[1] \notin Marks
    BY <1>1 DEF Marks
  <2>4. QED
    BY <1>3, <1>4, <2>1, <2>2, <2>3, PushWord
<1>6. x[2] = w[2] /\ x[3] = w[3]
  <2>1. 1 \in Places /\ 2 \in Places /\ 1 + 1 = 2 /\ 1 + 2 = 3
    BY DEF Places
  <2>2. QED
    BY <1>5, <2>1 DEF Splices
<1>7. Linked(x, 1)
  <2>1. Gate("enter", w[2][1], w[3][1], TRUE)
    BY <1>4, AtOne
  <2>2. Chain("raise", w[2][1], w[3][1], TRUE)
    BY DEF Chain, Reports
  <2>3. Gate("raise", w[2][1], w[3][1], TRUE)
    BY <2>1 DEF Gate, Finally, Lifecycle
  <2>4. Agrees(x[1], w[2][1]) /\ x[1][1] = "raise"
    BY <1>1, <1>5 DEF Agrees, Reports
  <2>5. 1 + 1 = 2 /\ 1 + 2 = 3 /\ (1 = 1) = TRUE
    OBVIOUS
  <2>6. QED
    BY <1>6, <2>2, <2>3, <2>4, <2>5 DEF Linked
<1>8. Keeps(x, w)
  <2>1. \A i \in 1..1 : i = 1
    OBVIOUS
  <2>2. x[1][1] = "raise" /\ w[1][1] \notin Lifecycle
    BY <1>1, <1>4, <1>5 DEF Lifecycle
  <2>3. \A i \in 1..1 : /\ Linked(x, i) /\ x[i][1] \notin Lifecycle \cup {"closed", "close_end"}
                        /\ x[i][1] \notin Receiving
    BY <1>7, <2>1, <2>2 DEF Lifecycle, Receiving
  <2>4. QED
    BY <1>4, <1>5, <2>2, <2>3, LoosePush
<1>9. Resting(w)
  BY <1>4 DEF Resting, Lifecycle
<1>10. QED
  BY <1>2, <1>3, <1>4, <1>8, <1>9, LooseDoes

\* Time goes by, or nothing happens.
LEMMA TickReleases ==
  ASSUME WakeInv, ReleaseInv, (Tick /\ UNCHANGED <<routerVars, runtimeVars>>) \/ UNCHANGED vars
  PROVE  ReleaseInv'
<1>1. todo' = todo /\ Steady
  BY DEF Tick, routerVars, connection, registryVars, endpoints, runtimeVars, lifecycle, vars, Steady
<1>2. \A u \in Threads : W(u)' = W(u)
  BY <1>1 DEF W
<1>3. Easier
  BY <1>1, EasierIs DEF Steady, Idle
<1>4. CloserOK'
  BY <1>1, <1>2, CloserSame DEF Steady
<1>5. QED
  BY <1>1, <1>2, <1>3, <1>4, LooseStep DEF Steady
-------------------------------------------------------------------------------
\* The registry and the connection are released.

LEMMA PushOne ==
  ASSUME WakeInv, NEW t \in Threads, todo[t] # <<>>, NEW f, f[1] \notin Marks,
         NEW w, w = W(t), NEW x, x = Word(Becomes(t, <<f>>))
  PROVE  Splices(x, w, 1, 1) /\ x[1] = f /\ x[2] = w[2] /\ x[3] = w[3] /\ x[4] = w[4]
<1>1. PICK frames, T : frames = <<f>> /\ T = {f}
  OBVIOUS
<1>2. frames \in Seq(T) /\ frames # <<>> /\ Len(frames) = 1 /\ frames[1] = f /\ 1 \in 1..1
  BY <1>1
<1>3. Splices(x, w, 1, 1) /\ x[1] = f
  BY <1>1, <1>2, PushWord
<1>4. /\ 1 \in Places /\ 2 \in Places /\ 3 \in Places
      /\ 1 + 1 = 2 /\ 1 + 2 = 3 /\ 1 + 3 = 4
  BY DEF Places
<1>5. QED
  BY <1>3, <1>4 DEF Splices

LEMMA PushTwo ==
  ASSUME WakeInv, NEW t \in Threads, todo[t] # <<>>, NEW f, NEW g, f[1] \notin Marks,
         NEW w, w = W(t), NEW x, x = Word(Becomes(t, <<f, g>>))
  PROVE  Splices(x, w, 2, 1) /\ x[1] = f /\ x[2] = g /\ x[3] = w[2] /\ x[4] = w[3]
<1>1. PICK frames, T : frames = <<f, g>> /\ T = {f, g}
  OBVIOUS
<1>2. /\ frames \in Seq(T) /\ frames # <<>> /\ Len(frames) = 2 /\ frames[1] = f /\ frames[2] = g
      /\ 1 \in 1..2 /\ 2 \in 1..2
  BY <1>1
<1>3. Splices(x, w, 2, 1) /\ x[1] = f /\ x[2] = g
  BY <1>1, <1>2, PushWord
<1>4. /\ 1 \in Places /\ 2 \in Places
      /\ 1 + 1 = 2 /\ 1 + 2 = 3 /\ 2 + 1 = 3 /\ 2 + 2 = 4
  BY DEF Places
<1>5. QED
  BY <1>3, <1>4 DEF Splices

\* What one or two linked frames at the top are.
LEMMA LinkedTop ==
  ASSUME NEW x
  PROVE  /\ Linked(x, 1) <=> /\ Chain(x[1][1], x[2][1], x[3][1], TRUE)
                             /\ Gate(x[1][1], x[2][1], x[3][1], TRUE) /\ Agrees(x[1], x[2][1])
         /\ \A i \in Nat : i >= 2 =>
              (Linked(x, i) <=> /\ Chain(x[i][1], x[i + 1][1], x[i + 2][1], FALSE)
                                /\ Gate(x[i][1], x[i + 1][1], x[i + 2][1], FALSE)
                                /\ Agrees(x[i], x[i + 1][1]))
<1>1. 1 + 1 = 2 /\ 1 + 2 = 3 /\ (1 = 1) = TRUE
  OBVIOUS
<1>2. \A i \in Nat : i >= 2 => (i = 1) = FALSE
  OBVIOUS
<1>3. QED
  BY <1>1, <1>2 DEF Linked

LEMMA LooseFollows ==
  ASSUME WakeInv, ReleaseInv, NEW t \in Threads, todo[t] # <<>>, NEW frames, Does(t, frames),
         NEW w, w = W(t), NEW x, x = Word(Becomes(t, frames)), Keeps(x, w), Follows(w, x),
         Steady
  PROVE  ReleaseInv'
<1>1. /\ W(t)' = x
      /\ \A u \in Threads : u # t => W(u)' = W(u)
      /\ \A u \in Threads : Idle(u) => Idle(u)'
  BY DoesOnly
<1>2. Easier
  <2>1. Idle(Reader) => Idle(Reader)'
    BY <1>1, RouterAssumption
  <2>2. Idle(Monitor) => Idle(Monitor)'
    BY <1>1, RegistryAssumption
  <2>3. QED
    BY <2>1, <2>2, EasierIs DEF Steady
<1>3. CloserOK'
  <2>1. \A u \in Threads : Has(W(u)', "close_end") => Has(W(u), "close_end")
    BY <1>1 DEF Keeps
  <2>2. QED
    BY <2>1, CloserSame DEF Steady
<1>4. ASSUME NEW u \in Threads
      PROVE  \/ W(u)' = W(u)
             \/ /\ Sane(W(u)') /\ Carries(W(u)', W(u))
                /\ Resting(W(u)) \/ Follows(W(u), W(u)')
  <2>1. CASE u = t
    <3>1. Sane(W(u)') /\ Carries(W(u)', W(u))
      BY <1>1, <2>1 DEF Keeps
    <3>2. PICK y, v : y = W(u)' /\ v = W(u)
      OBVIOUS
    <3>3. y = x /\ v = w
      BY <1>1, <2>1, <3>2
    <3>4. Follows(v, y)
      BY <3>3
    <3>5. Follows(W(u), W(u)')
      BY <3>2, <3>4 DEF Follows
    <3>6. QED
      BY <3>1, <3>5
  <2>2. QED
    BY <1>1, <2>1
<1>5. QED
  BY <1>2, <1>3, <1>4, LooseStep DEF Steady

\* The frame at the top is exchanged for one, or goes away.
LEMMA OneFollows ==
  ASSUME WakeInv, ReleaseInv, NEW t \in Threads, todo[t] # <<>>, NEW f, Does(t, <<f>>),
         f[1] \notin Marks \cup Lifecycle \cup {"closed", "close_end"} \cup Receiving,
         NEW w, w = W(t), w[1][1] \notin Lifecycle \cup {"enter", "raise"},
         NEW x, x = Word(Becomes(t, <<f>>)),
         Gate(f[1], w[2][1], w[3][1], TRUE), Agrees(f, w[2][1]), Chain(f[1], w[2][1], w[3][1], TRUE),
         x[1] = f /\ x[2] = w[2] /\ x[3] = w[3] => Follows(w, x), Steady
  PROVE  ReleaseInv'
<1>1. Splices(x, w, 1, 1) /\ x[1] = f /\ x[2] = w[2] /\ x[3] = w[3]
  BY PushOne
<1>2. Linked(x, 1)
  BY <1>1, LinkedTop
<1>3. Keeps(x, w)
  <2>1. \A i \in 1..1 : i = 1
    OBVIOUS
  <2>2. \A i \in 1..1 : /\ Linked(x, i) /\ x[i][1] \notin Lifecycle \cup {"closed", "close_end"}
                        /\ x[i][1] \notin Receiving
    BY <1>1, <1>2, <2>1
  <2>3. Sane(w)
    BY DEF ReleaseInv
  <2>4. QED
    BY <1>1, <2>2, <2>3, LoosePush
<1>4. QED
  BY <1>1, <1>3, LooseFollows

LEMMA PopFollows ==
  ASSUME WakeInv, ReleaseInv, NEW t \in Threads, todo[t] # <<>>, Does(t, <<>>),
         NEW w, w = W(t), w[1][1] \notin Lifecycle \cup {"enter", "raise", "exit"},
         NEW x, x = Word(Becomes(t, <<>>)),
         w[2][1] \notin Marks /\ x[1] = w[2] /\ x[2] = w[3] => Follows(w, x),
         w[2][1] \in Marks => Follows(w, x), Steady
  PROVE  ReleaseInv'
<1>1. PICK d \in Places : /\ Splices(x, w, 0, d)
                          /\ \A i \in 2..d : w[i][1] \in Marks
                          /\ w[d + 1][1] \notin Marks
  BY PopWord
<1>2. d \in Nat /\ 1 \in 1..d /\ 1 + 1 = 2 /\ \A i \in 1..d : i = 1 \/ i \in 2..d
  BY DEF Places
<1>3. Keeps(x, w)
  <2>1. \A i \in 1..1 : w[i][1] \notin Lifecycle
    OBVIOUS
  <2>2. \A i \in 1..d : w[i][1] \notin {"enter", "raise", "exit"}
    BY <1>1, <1>2 DEF Marks
  <2>3. \A i \in (1 + 1)..d : w[i][1] \in Marks
    BY <1>1, <1>2
  <2>4. Sane(w) /\ w[1][1] # "raise"
    BY DEF ReleaseInv
  <2>5. QED
    BY <1>1, <1>2, <2>1, <2>2, <2>3, <2>4, LoosePop
<1>4. Follows(w, x)
  <2>1. CASE w[2][1] \in Marks
    BY <2>1
  <2>2. CASE w[2][1] \notin Marks
    <3>1. d = 1
      <4>1. 2 \notin 2..d
        BY <1>1, <2>2
      <4>2. QED
        BY <1>2, <4>1
    <3>2. 1 \in Places /\ 2 \in Places /\ 0 + 1 = 1 /\ 0 + 2 = 2 /\ 1 + 1 = 2 /\ 1 + 2 = 3
      BY DEF Places
    <3>3. x[1] = w[2] /\ x[2] = w[3]
      BY <1>1, <3>1, <3>2 DEF Splices
    <3>4. QED
      BY <2>2, <3>3
  <2>3. QED
    BY <2>1, <2>2
<1>5. QED
  BY <1>3, <1>4, LooseFollows

LEMMA PartsRelease ==
  ASSUME WakeInv, ReleaseInv, NEW t \in Threads,
         \/ /\ RegistryStop(t) \/ JoinMonitor(t) \/ DisconnectAll(t)
            /\ UNCHANGED <<routerVars, runtimeVars>>
         \/ /\ CancelConnect(t) \/ Release(t)
            /\ UNCHANGED <<registryVars, lifecycle, calls>>
  PROVE  ReleaseInv'
<1>1. Steady
  <2>1. CASE (RegistryStop(t) \/ JoinMonitor(t) \/ DisconnectAll(t)) /\ UNCHANGED <<routerVars, runtimeVars>>
    BY <2>1 DEF RegistryStop, JoinMonitor, DisconnectAll, routerVars, connection, registryVars,
       endpoints, runtimeVars, lifecycle, Steady
  <2>2. CASE (CancelConnect(t) \/ Release(t)) /\ UNCHANGED <<registryVars, lifecycle, calls>>
    BY <2>2 DEF CancelConnect, Release, registryVars, endpoints, lifecycle, Steady
  <2>3. QED
    BY <2>1, <2>2
<1>2. PICK w : w = W(t)
  OBVIOUS
<1>3. /\ Sane(w) /\ StopStage(w) /\ Gate(w[1][1], w[2][1], w[3][1], TRUE)
      /\ Chain(w[1][1], w[2][1], w[3][1], TRUE) /\ Agrees(w[1], w[2][1])
  BY <1>2, AtOne DEF ReleaseInv
<1>4. CASE RegistryStop(t)
  <2>1. /\ todo[t] # <<>> /\ w[1][1] = "registry_stop"
        /\ ~open' /\ stopWatch'
    BY <1>2, <1>4, AtIs DEF RegistryStop
  <2>2. PICK join, all : join = <<"monitor_join">> /\ all = <<"disconnect_all">>
    OBVIOUS
  <2>3. Does(t, <<all>>) \/ Does(t, <<join, all>>)
    <3>1. <<>> \o <<all>> = <<all>>
      OBVIOUS
    <3>2. <<join>> \o <<all>> = <<join, all>>
      <4>1. PICK T, p, q : T = {join, all} /\ p = <<join>> /\ q = <<all>>
        OBVIOUS
      <4>2. p \in Seq(T) /\ q \in Seq(T) /\ Len(p) = 1 /\ Len(q) = 1 /\ p[1] = join /\ q[1] = all
        BY <4>1
      <4>3. PICK r : r = p \o q
        OBVIOUS
      <4>4. /\ r \in Seq(T) /\ Len(r) = 2 /\ r[1] = join /\ r[2] = all
        <5>1. /\ r \in Seq(T) /\ Len(r) = Len(p) + Len(q)
              /\ \A i \in 1..Len(p) : r[i] = p[i]
              /\ \A i \in 1..Len(q) : r[Len(p) + i] = q[i]
          <6>1. p \in Seq(T) /\ q \in Seq(T)
            BY <4>2
          <6>2. QED
            BY <4>3, <6>1, Joins
        <5>2. 1 \in 1..1 /\ 1 + 1 = 2
          OBVIOUS
        <5>3. QED
          BY <4>2, <5>1, <5>2
      <4>5. r = <<join, all>>
        BY <4>4
      <4>6. QED
        BY <4>1, <4>3, <4>5
    <3>3. Does(t, (IF t = Monitor THEN <<>> ELSE <<join>>) \o <<all>>)
      BY <1>4, <2>2 DEF RegistryStop
    <3>4. QED
      BY <3>1, <3>2, <3>3
  <2>4. /\ w[2][1] = "closed" \/ (w[2][1] = "caught" /\ w[3][1] = "dispatcher_stop")
    BY <1>3, <2>1 DEF Gate, Lifecycle
  <2>5. /\ Chain("disconnect_all", w[2][1], w[3][1], FALSE)
        /\ Gate("disconnect_all", w[2][1], w[3][1], FALSE) /\ Agrees(all, w[2][1])
    BY <2>2, <2>4 DEF Chain, Gate, Agrees, Lifecycle, Reports
  <2>6. CASE Does(t, <<all>>)
    <3>1. PICK x : x = Word(Becomes(t, <<all>>))
      OBVIOUS
    <3>2. x[1] = all /\ x[2] = w[2] /\ x[3] = w[3] => Follows(w, x)
      BY <2>1, <2>2, <2>4 DEF Follows, Halting, Lifecycle
    <3>3. all[1] \notin Marks \cup Lifecycle \cup {"closed", "close_end"} \cup Receiving
      BY <2>2 DEF Marks, Lifecycle, Receiving
    <3>4. w[1][1] \notin Lifecycle \cup {"enter", "raise"} /\ all[1] = "disconnect_all"
      BY <2>1, <2>2 DEF Lifecycle
    <3>5. /\ Gate(all[1], w[2][1], w[3][1], TRUE) /\ Agrees(all, w[2][1])
          /\ Chain(all[1], w[2][1], w[3][1], TRUE)
      BY <2>5, <3>4, Looser
    <3>6. todo[t] # <<>> /\ w[1][1] \notin Lifecycle \cup {"enter", "raise"}
      BY <2>1, <3>4
    <3>7. Does(t, <<all>>) /\ w = W(t)
      BY <1>2, <2>6
    <3>8. QED
      BY <1>1, <3>1, <3>2, <3>3, <3>5, <3>6, <3>7, OneFollows
  <2>7. CASE Does(t, <<join, all>>)
    <3>1. PICK x : x = Word(Becomes(t, <<join, all>>))
      OBVIOUS
    <3>2. Splices(x, w, 2, 1) /\ x[1] = join /\ x[2] = all /\ x[3] = w[2] /\ x[4] = w[3]
      BY <1>2, <2>1, <2>2, <3>1, PushTwo DEF Marks
    <3>3. Linked(x, 1)
      <4>1. Chain("monitor_join", "disconnect_all", w[2][1], TRUE)
            /\ Gate("monitor_join", "disconnect_all", w[2][1], TRUE)
        BY DEF Chain, Gate, Finally, Lifecycle
      <4>2. Agrees(join, "disconnect_all")
        BY <2>2 DEF Agrees, Reports
      <4>3. x[1][1] = "monitor_join" /\ x[2][1] = "disconnect_all" /\ x[3][1] = w[2][1]
        BY <2>2, <3>2
      <4>4. QED
        BY <3>2, <4>1, <4>2, <4>3, LinkedTop
    <3>4. Linked(x, 2)
      <4>1. 2 + 1 = 3 /\ 2 + 2 = 4 /\ 2 \in Nat /\ 2 >= 2
        OBVIOUS
      <4>2. x[2] = all /\ x[2][1] = "disconnect_all" /\ x[2 + 1] = w[2] /\ x[2 + 2] = w[3]
        BY <2>2, <3>2, <4>1
      <4>3. QED
        BY <2>5, <4>1, <4>2, LinkedTop
    <3>5. Keeps(x, w)
      <4>1. \A i \in 1..2 : i = 1 \/ i = 2
        OBVIOUS
      <4>2. \A i \in 1..2 : /\ Linked(x, i) /\ x[i][1] \notin Lifecycle \cup {"closed", "close_end"}
                            /\ x[i][1] \notin Receiving
        BY <2>2, <3>2, <3>3, <3>4, <4>1 DEF Lifecycle, Receiving
      <4>3. w[1][1] \notin Lifecycle \cup {"enter", "raise"}
        BY <2>1 DEF Lifecycle
      <4>4. QED
        BY <1>3, <3>2, <4>2, <4>3, LoosePush
    <3>6. Follows(w, x)
      BY <2>1, <2>2, <2>4, <3>2 DEF Follows, Halting, Lifecycle
    <3>7. QED
      BY <1>1, <1>2, <2>1, <2>7, <3>1, <3>5, <3>6, LooseFollows
  <2>8. QED
    BY <2>3, <2>6, <2>7
<1>5. CASE JoinMonitor(t)
  <2>1. todo[t] # <<>> /\ w[1][1] = "monitor_join" /\ w[2][1] = "disconnect_all"
    BY <1>2, <1>3, <1>5, AtIs DEF JoinMonitor, Gate
  <2>2. w[1][1] \notin Lifecycle \cup {"enter", "raise", "exit"} /\ w[2][1] \notin Marks
    BY <2>1 DEF Lifecycle, Marks
  <2>3. CASE Does(t, <<>>)
    <3>1. PICK x : x = Word(Becomes(t, <<>>))
      OBVIOUS
    <3>2. x[1] = w[2] /\ x[2] = w[3] => Follows(w, x)
      BY <2>1, <2>2 DEF Follows, Halting
    <3>3. QED
      BY <1>1, <1>2, <2>1, <2>2, <2>3, <3>1, <3>2, PopFollows
  <2>4. CASE Raises(t)
    <3>1. PICK f, x : f = <<"raise">> /\ x = Word(Becomes(t, <<f>>))
      OBVIOUS
    <3>2. x[1] = f /\ x[2] = w[2] /\ x[3] = w[3] => Follows(w, x)
      BY <2>1, <2>2, <3>1 DEF Follows, Halting
    <3>3. /\ Chain(f[1], w[2][1], w[3][1], TRUE)
          /\ Gate(f[1], w[2][1], w[3][1], TRUE) /\ Agrees(f, w[2][1])
      BY <2>1, <3>1 DEF Chain, Gate, Agrees, Lifecycle, Reports
    <3>4. f[1] \notin Marks \cup Lifecycle \cup {"closed", "close_end"} \cup Receiving /\ Does(t, <<f>>)
      BY <2>4, <3>1 DEF Marks, Lifecycle, Receiving, Raises
    <3>5. QED
      BY <1>1, <1>2, <2>1, <2>2, <3>1, <3>2, <3>3, <3>4, OneFollows
  <2>5. QED
    BY <1>5, <2>3, <2>4 DEF JoinMonitor
<1>6. CASE DisconnectAll(t)
  <2>1. /\ todo[t] # <<>> /\ w[1][1] = "disconnect_all" /\ connected' = {}
        /\ open' = open /\ stopWatch' = stopWatch
    BY <1>2, <1>6, AtIs DEF DisconnectAll
  <2>2. Has(w, "report") => Unwatched'
    BY <1>3, <2>1 DEF StopStage, Unwatched
  <2>3. w[1][1] \notin Lifecycle \cup {"enter", "raise", "exit"}
    BY <2>1 DEF Lifecycle
  <2>4. ASSUME NEW x PROVE Follows(w, x)
    BY <2>1, <2>2, <2>3 DEF Follows
  <2>5. CASE Does(t, <<>>)
    <3>1. PICK x : x = Word(Becomes(t, <<>>))
      OBVIOUS
    <3>2. QED
      BY <1>1, <1>2, <2>1, <2>3, <2>4, <2>5, <3>1, PopFollows
  <2>6. CASE Does(t, <<<<"user">>, <<"swallow">>>>)
    <3>1. PICK f, g : f = <<"user">> /\ g = <<"swallow">>
      OBVIOUS
    <3>2. PICK x : x = Word(Becomes(t, <<f, g>>))
      OBVIOUS
    <3>3. Splices(x, w, 2, 1) /\ x[1] = f /\ x[2] = g /\ x[3] = w[2] /\ x[4] = w[3]
      BY <1>2, <2>1, <3>1, <3>2, PushTwo DEF Marks
    <3>4. Linked(x, 1)
      <4>1. x[1][1] = "user" /\ x[2][1] = "swallow"
        BY <3>1, <3>3
      <4>2. /\ Chain("user", "swallow", x[3][1], TRUE) /\ Gate("user", "swallow", x[3][1], TRUE)
            /\ Agrees(x[1], "swallow")
        BY <4>1 DEF Chain, Gate, Agrees, Lifecycle, Reports
      <4>3. QED
        BY <4>1, <4>2, LinkedTop
    <3>5. Linked(x, 2)
      <4>1. 2 + 1 = 3 /\ 2 + 2 = 4 /\ 2 \in Nat /\ 2 >= 2
        OBVIOUS
      <4>2. x[2] = g /\ x[2][1] = "swallow" /\ x[2 + 1] = w[2] /\ x[2 + 2] = w[3]
        BY <3>1, <3>3, <4>1
      <4>3. /\ Chain("swallow", w[2][1], w[3][1], FALSE)
            /\ Gate("swallow", w[2][1], w[3][1], FALSE) /\ Agrees(g, w[2][1])
        BY <1>3, <2>1, <3>1 DEF Chain, Gate, Agrees, Lifecycle, Reports, Finally
      <4>4. QED
        BY <4>1, <4>2, <4>3, LinkedTop
    <3>6. Keeps(x, w)
      <4>1. \A i \in 1..2 : i = 1 \/ i = 2
        OBVIOUS
      <4>2. \A i \in 1..2 : /\ Linked(x, i) /\ x[i][1] \notin Lifecycle \cup {"closed", "close_end"}
                            /\ x[i][1] \notin Receiving
        BY <3>1, <3>3, <3>4, <3>5, <4>1 DEF Lifecycle, Receiving
      <4>3. QED
        BY <1>3, <2>3, <3>3, <4>2, LoosePush
    <3>7. Does(t, <<f, g>>)
      BY <2>6, <3>1
    <3>8. QED
      BY <1>1, <1>2, <2>1, <2>4, <3>2, <3>6, <3>7, LooseFollows
  <2>7. QED
    BY <1>6, <2>5, <2>6, ListsAre DEF DisconnectAll
<1>7. CASE CancelConnect(t)
  <2>1. todo[t] # <<>> /\ w[1][1] = "disconnect"
    BY <1>2, <1>7, AtIs DEF CancelConnect
  <2>2. PICK f, x : f = <<"release">> /\ x = Word(Becomes(t, <<f>>))
    OBVIOUS
  <2>3. f[1] \notin Marks \cup Lifecycle \cup {"closed", "close_end"} \cup Receiving /\ Does(t, <<f>>)
    BY <1>7, <2>2 DEF Marks, Lifecycle, Receiving, CancelConnect
  <2>4. x[1] = f /\ x[2] = w[2] /\ x[3] = w[3] => Follows(w, x)
    BY <2>1, <2>2 DEF Follows, Halting, Lifecycle
  <2>5. /\ Chain(f[1], w[2][1], w[3][1], TRUE)
        /\ Gate(f[1], w[2][1], w[3][1], TRUE) /\ Agrees(f, w[2][1])
    BY <1>3, <2>1, <2>2 DEF Chain, Gate, Agrees, Lifecycle, Reports, Finally
  <2>6. w[1][1] \notin Lifecycle \cup {"enter", "raise"}
    BY <2>1 DEF Lifecycle
  <2>7. QED
    BY <1>1, <1>2, <2>1, <2>2, <2>3, <2>4, <2>5, <2>6, OneFollows
<1>8. CASE Release(t)
  <2>1. todo[t] # <<>> /\ w[1][1] = "release" /\ ~link'
    BY <1>2, <1>8, AtIs DEF Release
  <2>2. w[1][1] \notin Lifecycle \cup {"enter", "raise", "exit"}
    BY <2>1 DEF Lifecycle
  <2>3. ASSUME NEW x PROVE Follows(w, x)
    BY <2>1, <2>2 DEF Follows, Halting
  <2>4. CASE Does(t, <<>>)
    <3>1. PICK x : x = Word(Becomes(t, <<>>))
      OBVIOUS
    <3>2. QED
      BY <1>1, <1>2, <2>1, <2>2, <2>3, <2>4, <3>1, PopFollows
  <2>5. CASE Raises(t)
    <3>1. PICK f, x : f = <<"raise">> /\ x = Word(Becomes(t, <<f>>))
      OBVIOUS
    <3>2. /\ Chain(f[1], w[2][1], w[3][1], TRUE)
          /\ Gate(f[1], w[2][1], w[3][1], TRUE) /\ Agrees(f, w[2][1])
      BY <1>3, <2>1, <3>1 DEF Chain, Gate, Agrees, Lifecycle, Reports, Finally
    <3>3. f[1] \notin Marks \cup Lifecycle \cup {"closed", "close_end"} \cup Receiving /\ Does(t, <<f>>)
      BY <2>5, <3>1 DEF Marks, Lifecycle, Receiving, Raises
    <3>4. QED
      BY <1>1, <1>2, <2>1, <2>2, <2>3, <3>1, <3>2, <3>3, OneFollows
  <2>6. QED
    BY <1>8, <2>4, <2>5 DEF Release
<1>9. QED
  BY <1>4, <1>5, <1>6, <1>7, <1>8
-------------------------------------------------------------------------------
\* Steps of the thread with the lifecycle lock.

LEMMA PopOne ==
  ASSUME WakeInv, NEW t \in Threads, todo[t] # <<>>, NEW w, w = W(t), w[2][1] \notin Marks,
         NEW x, x = Word(Becomes(t, <<>>))
  PROVE  Splices(x, w, 0, 1) /\ x[1] = w[2] /\ x[2] = w[3] /\ x[3] = w[4] /\ x[4] = w[5]
<1>1. PICK d \in Places : Splices(x, w, 0, d) /\ \A i \in 2..d : w[i][1] \in Marks
  BY PopWord
<1>2. d = 1
  <2>1. 2 \notin 2..d
    BY <1>1
  <2>2. QED
    BY <2>1 DEF Places
<1>3. /\ 1 \in Places /\ 2 \in Places /\ 3 \in Places /\ 4 \in Places
      /\ 0 + 1 = 1 /\ 0 + 2 = 2 /\ 0 + 3 = 3 /\ 0 + 4 = 4
      /\ 1 + 1 = 2 /\ 1 + 2 = 3 /\ 1 + 3 = 4 /\ 1 + 4 = 5
  BY DEF Places
<1>4. QED
  BY <1>1, <1>2, <1>3 DEF Splices

LEMMA PopTwo ==
  ASSUME WakeInv, NEW t \in Threads, todo[t] # <<>>, NEW w, w = W(t), w[2][1] \in Marks,
         w[3][1] \notin Marks, NEW x, x = Word(Becomes(t, <<>>))
  PROVE  Splices(x, w, 0, 2) /\ x[1] = w[3] /\ x[2] = w[4] /\ x[3] = w[5] /\ x[4] = w[6]
<1>1. PICK d \in Places : /\ Splices(x, w, 0, d) /\ \A i \in 2..d : w[i][1] \in Marks
                          /\ w[d + 1][1] \notin Marks
  BY PopWord
<1>2. d = 2
  <2>1. 3 \notin 2..d
    BY <1>1
  <2>2. d # 1
    <3>1. 1 + 1 = 2
      OBVIOUS
    <3>2. QED
      BY <1>1, <3>1
  <2>3. QED
    BY <2>1, <2>2 DEF Places
<1>3. /\ 1 \in Places /\ 2 \in Places /\ 3 \in Places /\ 4 \in Places
      /\ 0 + 1 = 1 /\ 0 + 2 = 2 /\ 0 + 3 = 3 /\ 0 + 4 = 4
      /\ 2 + 1 = 3 /\ 2 + 2 = 4 /\ 2 + 3 = 5 /\ 2 + 4 = 6
  BY DEF Places
<1>4. QED
  BY <1>1, <1>2, <1>3 DEF Splices

\* What close() waits for does not change above the end of the lock.
LEMMA DueOver ==
  ASSUME NEW w, NEW x, NEW n \in Nat, NEW d \in Places, Splices(x, w, n, d),
         \A i \in 1..n : x[i][1] \notin {"closed", "close_end"},
         \A i \in 1..d : ~(/\ w[i][1] \in {"enter", "raise", "exit"}
                           /\ w[i + 1][1] = "registry_stop" /\ w[i + 2][1] = "closed")
  PROVE  (Due(x) => Due(w)) /\ (Has(x, "close_end") => Has(w, "close_end"))
<1>1. \A j \in Places : d + j \in Places /\ n + j \in Places /\ x[n + j] = w[d + j]
  BY DEF Places, Splices
<1>2. ASSUME NEW a \in {"closed", "close_end"}, NEW i \in Places, x[i][1] = a PROVE Has(w, a)
  <2>1. i \notin 1..n
    BY <1>2
  <2>2. i - n \in Places /\ n + (i - n) = i
    BY <2>1, PlaceIs
  <2>3. QED
    BY <1>1, <1>2, <2>2 DEF Has
<1>3. \A a \in {"closed", "close_end"} : Has(x, a) => Has(w, a)
  BY <1>2 DEF Has
<1>4. ASSUME NEW i \in Places, w[i][1] \in {"enter", "raise", "exit"},
             w[i + 1][1] = "registry_stop", w[i + 2][1] = "closed"
      PROVE  Awaits(x)
  <2>1. i \notin 1..d
    BY <1>4
  <2>2. i - d \in Places /\ d + (i - d) = i
    BY <2>1 DEF Places
  <2>3. PICK j \in Places : j = i - d
    BY <2>2
  <2>4. /\ j + 1 \in Places /\ j + 2 \in Places
        /\ d + (j + 1) = i + 1 /\ d + (j + 2) = i + 2 /\ d + j = i
        /\ n + (j + 1) = (n + j) + 1 /\ n + (j + 2) = (n + j) + 2 /\ n + j \in Places
    BY <2>2, <2>3 DEF Places
  <2>5. x[n + j] = w[i] /\ x[(n + j) + 1] = w[i + 1] /\ x[(n + j) + 2] = w[i + 2]
    BY <2>4 DEF Splices
  <2>6. QED
    BY <1>4, <2>4, <2>5 DEF Awaits
<1>5. QED
  BY <1>3, <1>4 DEF Due, Awaits

LEMMA OwnerStep ==
  ASSUME ReleaseInv, NEW t \in Threads, NEW w, w = W(t), w[1][1] \in Lifecycle \ {"exit"},
         NEW x, W(t)' = x,
         \A u \in Threads : u # t => W(u)' = W(u) \/ Keeps(W(u)', W(u)),
         NEW n \in Nat, NEW d \in Places, Splices(x, w, n, d),
         \A i \in 1..n : x[i][1] \notin {"closed", "close_end"},
         \A i \in 2..d : w[i][1] \in Marks,
         Sane(x), StartStage(x)', StopStage(x)',
         UNCHANGED <<owner, closed, closing>>,
         Halts(w) /\ (closed \/ closing) => Halts(x)',
         Halts(x)' => Unconnected' /\ Unwatched' /\ ~dispatching',
         ~thread' => Idle(Reader)',
         "dispatcher" \in started' => "client" \in started'
  PROVE  ReleaseInv'
<1>1. t = owner
  <2>1. Has(w, w[1][1])
    BY DEF Has, Places
  <2>2. QED
    BY <2>1 DEF ReleaseInv
<1>2. \A u \in Threads : u # t => \A a \in Lifecycle : ~Has(W(u), a)
  BY <1>1 DEF ReleaseInv
<1>3. \A i \in 1..d : ~(/\ w[i][1] \in {"enter", "raise", "exit"}
                        /\ w[i + 1][1] = "registry_stop" /\ w[i + 2][1] = "closed")
  <2>1. w[1][1] \notin {"enter", "raise", "exit"}
    BY DEF Lifecycle
  <2>2. \A i \in 1..d : i = 1 \/ i \in 2..d
    BY DEF Places
  <2>3. QED
    BY <2>1, <2>2 DEF Marks
<1>4. (Due(x) => Due(w)) /\ (Has(x, "close_end") => Has(w, "close_end"))
  BY <1>3, DueOver
<1>5. \A u \in Threads : u # t => \/ W(u)' = W(u)
                                  \/ Sane(W(u)') /\ Carries(W(u)', W(u))
  BY DEF Keeps
<1>6. CloserOK'
  <2>1. \A u \in Threads : Has(W(u)', "close_end") => Has(W(u), "close_end")
    BY <1>4 DEF Keeps
  <2>2. QED
    BY <2>1, CloserSame
<1>7. \A a \in Lifecycle : Has(x, a) => t = owner'
  BY <1>1
<1>8. QED
  BY <1>2, <1>4, <1>5, <1>6, <1>7, LifecycleStep

LEMMA OwnerDoes ==
  ASSUME WakeInv, ReleaseInv, NEW t \in Threads, todo[t] # <<>>, NEW frames, Does(t, frames),
         NEW w, w = W(t), w[1][1] \in Lifecycle \ {"exit"}, NEW x, x = Word(Becomes(t, frames)),
         NEW n \in Nat, NEW d \in Places, Splices(x, w, n, d),
         \A i \in 1..n : x[i][1] \notin {"closed", "close_end"},
         \A i \in 2..d : w[i][1] \in Marks,
         Sane(x), StartStage(x)', StopStage(x)',
         UNCHANGED <<owner, closed, closing, thread>>,
         Halts(w) /\ (closed \/ closing) => Halts(x)',
         Halts(x)' => Unconnected' /\ Unwatched' /\ ~dispatching',
         "dispatcher" \in started' => "client" \in started'
  PROVE  ReleaseInv'
<1>1. /\ W(t)' = x
      /\ \A u \in Threads : u # t => W(u)' = W(u)
      /\ Idle(Reader) => Idle(Reader)'
  BY DoesOnly, RouterAssumption
<1>2. ~thread' => Idle(Reader)'
  BY <1>1 DEF ReleaseInv
<1>3. QED
  BY <1>1, <1>2, OwnerStep

\* A word up to the end of the lock.
LEMMA Upto ==
  ASSUME NEW x, Sane(x), NEW e \in Places, x[e][1] = "exit"
  PROVE  /\ \A a \in Lifecycle : Has(x, a) <=> \E i \in 1..e : x[i][1] = a
         /\ Untold(x) => \E i \in 1..e : x[i][1] \in Reports /\ x[i][2] = FALSE
         /\ Returns(x) => x[e + 1][1] = "registry_stop"
<1>1. \A i \in Places : x[i][1] \in Lifecycle => i \in 1..e
  <2>1. ASSUME NEW i \in Places, x[i][1] \in Lifecycle PROVE i \in 1..e
    <3>1. i <= e
      BY <2>1 DEF Sane, Placed
    <3>2. QED
      BY <3>1 DEF Places
  <2>2. QED
    BY <2>1
<1>2. \A i \in 1..e : i \in Places
  BY DEF Places
<1>3. Untold(x) => \E i \in 1..e : x[i][1] \in Reports /\ x[i][2] = FALSE
  BY <1>1 DEF Untold, Reports, Lifecycle
<1>4. ASSUME NEW i \in Places, x[i][1] = "exit" PROVE i = e
  <2>1. i <= e /\ e <= i
    BY <1>4 DEF Sane, Placed, Lifecycle
  <2>2. QED
    BY <2>1 DEF Places
<1>5. Returns(x) => x[e + 1][1] = "registry_stop"
  BY <1>4 DEF Returns
<1>6. QED
  BY <1>1, <1>2, <1>3, <1>5 DEF Has

\* A word whose stages have nothing to ask for: neither start() nor the end of stop().
LEMMA NoStart ==
  ASSUME NEW x, ~Has(x, "start_end"), ~Has(x, "services_start"), ~Has(x, "router_run"),
         x[1][1] \notin {"registry_start", "start_end"}
  PROVE  StartStage(x)'
  BY DEF StartStage

LEMMA NoStop ==
  ASSUME NEW x, ~Has(x, "rolled"), ~Has(x, "report"), ~Untold(x), ~Has(x, "router_stopped"),
         Returns(x) /\ (\A a \in Lifecycle : Has(x, a) => a = "exit")
           /\ ~(x[1][1] = "raise" /\ x[2][1] = "exit") => ~running' /\ ~cleanup'
  PROVE  StopStage(x)'
  BY DEF StopStage

\* A word in start(), up to the application peer.
StartNames == {"raise", "router_start", "connect", "heartbeat", "router_run", "router_exit"}

LEMMA StartingWord ==
  ASSUME NEW x, Sane(x), NEW i \in Places, x[i][1] = "services_start",
         \A j \in 1..(i - 1) : x[j][1] \in StartNames
  PROVE  /\ x[i + 1][1] = "registry_start" /\ x[i + 2][1] = "start_end" /\ x[i + 3][1] = "exit"
         /\ Has(x, "start_end") /\ Has(x, "services_start")
         /\ ~Has(x, "rolled") /\ ~Has(x, "report") /\ ~Untold(x) /\ ~Has(x, "router_stopped")
         /\ Has(x, "router_run") => \E j \in 1..(i - 1) : x[j][1] = "router_run"
         /\ x[1][1] \notin {"registry_start", "start_end"}
<1>1. /\ i \in Nat /\ i >= 1 /\ i + 1 \in Places /\ i + 2 \in Places /\ i + 3 \in Places
      /\ (i + 1) + 1 = i + 2 /\ (i + 1) + 2 = i + 3 /\ (i + 2) + 1 = i + 3 /\ i + 2 >= 2
  BY DEF Places
<1>2. x[i + 1][1] = "registry_start"
  <2>1. Chain(x[i][1], x[i + 1][1], x[i + 2][1], TRUE)
    BY GateAt
  <2>2. QED
    BY <2>1 DEF Chain
<1>3. x[i + 2][1] = "start_end"
  <2>1. Chain(x[i + 1][1], x[i + 2][1], x[(i + 1) + 2][1], TRUE)
    BY <1>1, GateAt
  <2>2. QED
    BY <1>2, <2>1 DEF Chain
<1>4. x[i + 3][1] = "exit"
  <2>1. Chain(x[i + 2][1], x[i + 3][1], x[(i + 2) + 2][1], FALSE)
    BY <1>1, Below2
  <2>2. QED
    BY <1>3, <2>1 DEF Chain
<1>5. ASSUME NEW j \in 1..(i + 3)
      PROVE  \/ j \in 1..(i - 1) /\ x[j][1] \in StartNames
             \/ x[j][1] \in {"services_start", "registry_start", "start_end", "exit"}
  <2>1. j \in 1..(i - 1) \/ j = i \/ j = i + 1 \/ j = i + 2 \/ j = i + 3
    BY <1>1
  <2>2. QED
    BY <1>2, <1>3, <1>4, <2>1
<1>6. /\ \A a \in Lifecycle : Has(x, a) <=> \E j \in 1..(i + 3) : x[j][1] = a
      /\ Untold(x) => \E j \in 1..(i + 3) : x[j][1] \in Reports
  BY <1>1, <1>4, Upto
<1>7. Has(x, "start_end") /\ Has(x, "services_start")
  BY <1>1, <1>3 DEF Has
<1>8. ~Has(x, "rolled") /\ ~Has(x, "report") /\ ~Untold(x) /\ ~Has(x, "router_stopped")
  BY <1>5, <1>6 DEF StartNames, Reports, Lifecycle
<1>9. Has(x, "router_run") => \E j \in 1..(i - 1) : x[j][1] = "router_run"
  BY <1>5, <1>6 DEF Lifecycle
<1>10. x[1][1] \notin {"registry_start", "start_end"}
  <2>1. 1 = i \/ 1 \in 1..(i - 1)
    BY <1>1
  <2>2. QED
    BY <2>1 DEF StartNames
<1>11. QED
  BY <1>2, <1>3, <1>4, <1>7, <1>8, <1>9, <1>10

\* It goes on with start() as far as that.
LEMMA StartingStages ==
  ASSUME NEW x, Sane(x), NEW i \in Places, x[i][1] = "services_start",
         \A j \in 1..(i - 1) : x[j][1] \in StartNames,
         ~cleanup', ~running', ~dispatching', started' = {}, Unwatched',
         \/ Unconnected'
         \/ x[1][1] \in {"router_run", "services_start"}
         \/ x[1][1] = "router_exit" /\ x[2][1] = "services_start",
         (\E j \in 1..(i - 1) : x[j][1] = "router_run") => Idle(Reader)'
  PROVE  StartStage(x)' /\ StopStage(x)' /\ ~Halts(x)'
<1>1. /\ Has(x, "start_end") /\ Has(x, "services_start")
      /\ ~Has(x, "rolled") /\ ~Has(x, "report") /\ ~Untold(x) /\ ~Has(x, "router_stopped")
      /\ Has(x, "router_run") => Idle(Reader)'
      /\ x[1][1] \notin {"registry_start", "start_end"}
  BY StartingWord
<1>2. StartStage(x)'
  BY <1>1 DEF StartStage
<1>3. ~(\A a \in Lifecycle : Has(x, a) => a = "exit")
  BY <1>1 DEF Lifecycle
<1>4. StopStage(x)'
  BY <1>1, <1>3, NoStop
<1>5. QED
  BY <1>1, <1>2, <1>4 DEF Halts

\* What the word of such a thread says.
LEMMA StartingSays ==
  ASSUME NEW w, Sane(w), StartStage(w), NEW i \in Places, w[i][1] = "services_start",
         \A j \in 1..(i - 1) : w[j][1] \in StartNames
  PROVE  /\ ~cleanup /\ ~running /\ ~dispatching /\ started = {} /\ Unwatched /\ ~Halts(w)
         /\ \/ Unconnected
            \/ w[1][1] \in {"router_run", "services_start"}
            \/ w[1][1] = "router_exit" /\ w[2][1] = "services_start"
         /\ (\E j \in 1..(i - 1) : w[j][1] = "router_run") => Idle(Reader)
<1>1. /\ Has(w, "start_end") /\ Has(w, "services_start")
      /\ w[1][1] \notin {"registry_start", "start_end"}
  BY StartingWord
<1>2. (\E j \in 1..(i - 1) : w[j][1] = "router_run") => Has(w, "router_run")
  <2>1. \A j \in 1..(i - 1) : j \in Places
    BY DEF Places
  <2>2. QED
    BY <2>1 DEF Has
<1>3. QED
  BY <1>1, <1>2 DEF StartStage, Halts
-------------------------------------------------------------------------------
\* start() of the router.

LEMMA PushThree ==
  ASSUME WakeInv, NEW t \in Threads, todo[t] # <<>>, NEW f, NEW g, NEW h, f[1] \notin Marks,
         NEW w, w = W(t), NEW x, x = Word(Becomes(t, <<f, g, h>>))
  PROVE  /\ Splices(x, w, 3, 1) /\ x[1] = f /\ x[2] = g /\ x[3] = h
         /\ x[4] = w[2] /\ x[5] = w[3]
<1>1. PICK frames, T : frames = <<f, g, h>> /\ T = {f, g, h}
  OBVIOUS
<1>2. /\ frames \in Seq(T) /\ frames # <<>> /\ Len(frames) = 3
      /\ frames[1] = f /\ frames[2] = g /\ frames[3] = h
  BY <1>1
<1>3. 1 \in 1..3 /\ 2 \in 1..3 /\ 3 \in 1..3
  OBVIOUS
<1>4. Splices(x, w, 3, 1) /\ x[1] = f /\ x[2] = g /\ x[3] = h
  <2>1. frames[1][1] \notin Marks /\ x = Word(Becomes(t, frames))
    BY <1>1, <1>2
  <2>2. Splices(x, w, Len(frames), 1) /\ \A i \in 1..Len(frames) : x[i] = frames[i]
    BY <1>2, <2>1, PushWord
  <2>3. QED
    BY <1>2, <1>3, <2>2
<1>5. /\ 1 \in Places /\ 2 \in Places
      /\ 1 + 1 = 2 /\ 1 + 2 = 3 /\ 3 + 1 = 4 /\ 3 + 2 = 5
  BY DEF Places
<1>6. QED
  BY <1>4, <1>5 DEF Splices

\* What is still to be started from the application peer on.
Ahead(w, i) ==
  i \in Places /\ w[i][1] = "services_start" /\ \A j \in 1..(i - 1) : w[j][1] \in StartNames

LEMMA StartingShape ==
  ASSUME NEW w, Sane(w), w[1][1] \in StartNames \ {"raise"}
  PROVE  /\ w[1][1] = "router_start" => w[2][1] = "services_start"
         /\ w[1][1] \in {"connect", "heartbeat"} =>
              w[2][1] = "router_run" /\ w[3][1] = "router_exit" /\ w[4][1] = "services_start"
         /\ w[1][1] = "router_run" => w[2][1] = "router_exit" /\ w[3][1] = "services_start"
         /\ w[1][1] = "router_exit" =>
              w[2][1] = "services_start" \/ (w[2][1] = "raise" /\ w[3][1] = "services_start")
         /\ \E i \in Places : Ahead(w, i)
<1>1. Chain(w[1][1], w[2][1], w[3][1], TRUE)
  BY AtOne
<1>2. Chain(w[2][1], w[3][1], w[4][1], FALSE)
  <2>1. 2 \in Places /\ 2 >= 2 /\ 2 + 1 = 3 /\ 2 + 2 = 4
    BY DEF Places
  <2>2. QED
    BY <2>1, Below2
<1>3. Chain(w[3][1], w[4][1], w[5][1], FALSE)
  <2>1. 3 \in Places /\ 3 >= 2 /\ 3 + 1 = 4 /\ 3 + 2 = 5
    BY DEF Places
  <2>2. QED
    BY <2>1, Below2
<1>4. w[1][1] = "router_start" => w[2][1] = "services_start"
  BY <1>1 DEF Chain
<1>5. w[1][1] \in {"connect", "heartbeat"} =>
        w[2][1] = "router_run" /\ w[3][1] = "router_exit" /\ w[4][1] = "services_start"
  BY <1>1, <1>2, <1>3 DEF Chain
<1>6. w[1][1] = "router_run" => w[2][1] = "router_exit" /\ w[3][1] = "services_start"
  BY <1>1, <1>2 DEF Chain
<1>7. w[1][1] = "router_exit" =>
        w[2][1] = "services_start" \/ (w[2][1] = "raise" /\ w[3][1] = "services_start")
  BY <1>1 DEF Chain
<1>8. /\ 2 \in Places /\ 3 \in Places /\ 4 \in Places
      /\ \A j \in 1..(2 - 1) : j = 1
      /\ \A j \in 1..(3 - 1) : j = 1 \/ j = 2
      /\ \A j \in 1..(4 - 1) : j = 1 \/ j = 2 \/ j = 3
  BY DEF Places
<1>9. \/ w[2][1] = "services_start"
      \/ w[3][1] = "services_start" /\ w[2][1] \in StartNames
      \/ w[4][1] = "services_start" /\ w[2][1] \in StartNames /\ w[3][1] \in StartNames
  BY <1>4, <1>5, <1>6, <1>7 DEF StartNames
<1>10. \E i \in Places : Ahead(w, i)
  BY <1>8, <1>9 DEF Ahead
<1>11. QED
  BY <1>4, <1>5, <1>6, <1>7, <1>10

LEMMA StartingGoes ==
  ASSUME WakeInv, ReleaseInv, NEW t \in Threads, todo[t] # <<>>, NEW frames, Does(t, frames),
         NEW w, w = W(t), w[1][1] \in StartNames \ {"raise"},
         NEW x, x = Word(Becomes(t, frames)), NEW n \in Nat, Splices(x, w, n, 1),
         \A k \in 1..n : Linked(x, k) /\ x[k][1] \in StartNames,
         NEW l, Ahead(x, l),
         UNCHANGED <<lifecycle, thread, reading, registryVars>>,
         \/ Unconnected /\ link' = link
         \/ x[1][1] \in {"router_run", "services_start"}
         \/ x[1][1] = "router_exit" /\ x[2][1] = "services_start",
         (\E j \in 1..(l - 1) : x[j][1] = "router_run") => Idle(Reader)
  PROVE  ReleaseInv'
<1>1. Sane(w) /\ StartStage(w)
  BY DEF ReleaseInv
<1>2. /\ (Idle(Reader) => Idle(Reader)') /\ (Idle(Monitor) => Idle(Monitor)')
  BY DoesOnly, RouterAssumption, RegistryAssumption
<1>3. Sane(x)
  <2>1. \A k \in 1..n : Linked(x, k) /\ x[k][1] \notin {"exit", "close_end"} \cup Receiving
    BY DEF StartNames, Receiving
  <2>2. 1 \in Places
    BY DEF Places
  <2>3. QED
    BY <1>1, <2>1, <2>2, SaneAfter
<1>4. PICK i \in Places : Ahead(w, i)
  BY <1>1, StartingShape
<1>5. ~cleanup /\ ~running /\ ~dispatching /\ started = {} /\ Unwatched /\ ~Halts(w)
  BY <1>1, <1>4, StartingSays DEF Ahead
<1>6. ~cleanup' /\ ~running' /\ ~dispatching' /\ started' = {} /\ Unwatched'
  BY <1>2, <1>5 DEF lifecycle, registryVars, endpoints, Unwatched
<1>7. \/ Unconnected'
      \/ x[1][1] \in {"router_run", "services_start"}
      \/ x[1][1] = "router_exit" /\ x[2][1] = "services_start"
  BY <1>2 DEF Unconnected
<1>8. StartStage(x)' /\ StopStage(x)' /\ ~Halts(x)'
  BY <1>2, <1>3, <1>6, <1>7, StartingStages DEF Ahead
<1>9. /\ \A k \in 1..n : x[k][1] \notin {"closed", "close_end"}
      /\ 1 \in Places /\ \A k \in 2..1 : w[k][1] \in Marks
      /\ w[1][1] \in Lifecycle \ {"exit"}
  BY DEF StartNames, Places, Lifecycle
<1>10. UNCHANGED <<owner, closed, closing, thread>>
  BY DEF lifecycle
<1>11. QED
  BY <1>3, <1>5, <1>6, <1>8, <1>9, <1>10, OwnerDoes

\* An exception, or one frame for another, before a word that goes on.
LEMMA StartingOne ==
  ASSUME WakeInv, ReleaseInv, NEW t \in Threads, todo[t] # <<>>, NEW f, Does(t, <<f>>),
         NEW w, w = W(t), w[1][1] \in StartNames \ {"raise"},
         \/ f = <<"raise">>
         \/ f = <<"heartbeat">> /\ w[1][1] = "connect",
         w[1][1] \notin {"router_exit", "router_run"},
         UNCHANGED <<lifecycle, thread, link, reading, registryVars>>
  PROVE  ReleaseInv'
<1>1. PICK x : x = Word(Becomes(t, <<f>>))
  OBVIOUS
<1>2. f[1] \in {"raise", "heartbeat"}
  OBVIOUS
<1>3. Splices(x, w, 1, 1) /\ x[1] = f /\ x[2] = w[2] /\ x[3] = w[3] /\ x[4] = w[4]
  BY <1>1, <1>2, PushOne DEF Marks
<1>4. Sane(w) /\ StartStage(w)
  BY DEF ReleaseInv
<1>5. /\ w[1][1] = "router_start" => w[2][1] = "services_start"
      /\ w[1][1] \in {"connect", "heartbeat"} =>
           w[2][1] = "router_run" /\ w[3][1] = "router_exit" /\ w[4][1] = "services_start"
  BY <1>4, StartingShape
<1>6. w[1][1] \in {"router_start", "connect", "heartbeat"}
  BY DEF StartNames
<1>7. Linked(x, 1)
  <2>1. Chain(f[1], w[2][1], w[3][1], TRUE)
    BY <1>5, <1>6 DEF Chain, Reports
  <2>2. Gate(f[1], w[2][1], w[3][1], TRUE)
    <3>1. CASE f = <<"heartbeat">>
      BY <1>5, <3>1 DEF Gate, Lifecycle
    <3>2. CASE f = <<"raise">>
      BY <1>5, <1>6, <3>2 DEF Gate, Lifecycle
    <3>3. QED
      BY <3>1, <3>2
  <2>3. Agrees(f, w[2][1])
    BY <1>2, <1>5, <1>6 DEF Agrees, Reports
  <2>4. QED
    BY <1>3, <2>1, <2>2, <2>3, LinkedTop
<1>8. PICK l \in {2, 4} : Ahead(x, l) /\ Ahead(w, l)
  <2>1. /\ 2 \in Places /\ 4 \in Places
        /\ \A j \in 1..(2 - 1) : j = 1
        /\ \A j \in 1..(4 - 1) : j = 1 \/ j = 2 \/ j = 3
    BY DEF Places
  <2>2. x[1][1] \in StartNames /\ w[1][1] \in StartNames
    BY <1>2, <1>3 DEF StartNames
  <2>3. CASE w[1][1] = "router_start"
    BY <1>3, <1>5, <2>1, <2>2, <2>3 DEF Ahead
  <2>4. CASE w[1][1] \in {"connect", "heartbeat"}
    <3>1. w[2][1] \in StartNames /\ w[3][1] \in StartNames
      BY <1>5, <2>4 DEF StartNames
    <3>2. QED
      BY <1>3, <1>5, <2>1, <2>2, <2>4, <3>1 DEF Ahead
  <2>5. QED
    BY <1>6, <2>3, <2>4
<1>9. Unconnected
  <2>1. \/ Unconnected
        \/ w[1][1] \in {"router_run", "services_start"}
        \/ w[1][1] = "router_exit" /\ w[2][1] = "services_start"
    BY <1>4, <1>8, StartingSays DEF Ahead
  <2>2. QED
    BY <1>6, <2>1
<1>10. \A k \in 1..1 : Linked(x, k) /\ x[k][1] \in StartNames
  <2>1. \A k \in 1..1 : k = 1
    OBVIOUS
  <2>2. QED
    BY <1>2, <1>3, <1>7, <2>1 DEF StartNames
<1>11. Idle(Reader)
  BY <1>9 DEF Unconnected
<1>12. QED
  BY <1>1, <1>3, <1>8, <1>9, <1>10, <1>11, StartingGoes

\* The section is over.
LEMMA StartingPops ==
  ASSUME WakeInv, ReleaseInv, NEW t \in Threads, todo[t] # <<>>, Does(t, <<>>),
         NEW w, w = W(t), w[1][1] \in StartNames \ {"raise", "router_run"},
         UNCHANGED <<lifecycle, thread, reading, registryVars>>,
         link' = link \/ w[1][1] = "heartbeat"
  PROVE  ReleaseInv'
<1>1. PICK x : x = Word(Becomes(t, <<>>))
  OBVIOUS
<1>2. Sane(w) /\ StartStage(w)
  BY DEF ReleaseInv
<1>3. /\ w[1][1] = "router_start" => w[2][1] = "services_start"
      /\ w[1][1] \in {"connect", "heartbeat"} =>
           w[2][1] = "router_run" /\ w[3][1] = "router_exit" /\ w[4][1] = "services_start"
      /\ w[1][1] = "router_exit" =>
           w[2][1] = "services_start" \/ (w[2][1] = "raise" /\ w[3][1] = "services_start")
  BY <1>2, StartingShape
<1>4. w[1][1] \in {"router_start", "connect", "heartbeat", "router_exit"}
  BY DEF StartNames
<1>5. w[2][1] \notin Marks
  BY <1>3, <1>4 DEF Marks
<1>6. Splices(x, w, 0, 1) /\ x[1] = w[2] /\ x[2] = w[3] /\ x[3] = w[4]
  BY <1>1, <1>5, PopOne
<1>7. PICK l \in {1, 2, 3} : Ahead(x, l) /\ Ahead(w, l + 1)
  <2>1. /\ 1 \in Places /\ 2 \in Places /\ 3 \in Places /\ 4 \in Places
        /\ \A j \in 1..(1 - 1) : FALSE
        /\ \A j \in 1..(2 - 1) : j = 1
        /\ \A j \in 1..(3 - 1) : j = 1 \/ j = 2
        /\ \A j \in 1..(4 - 1) : j = 1 \/ j = 2 \/ j = 3
        /\ 1 + 1 = 2 /\ 2 + 1 = 3 /\ 3 + 1 = 4
    BY DEF Places
  <2>2. CASE w[2][1] = "services_start"
    BY <1>6, <2>1, <2>2 DEF Ahead
  <2>3. CASE w[1][1] \in {"connect", "heartbeat"}
    <3>1. w[2][1] \in StartNames /\ w[3][1] \in StartNames
      BY <1>3, <2>3 DEF StartNames
    <3>2. QED
      BY <1>3, <1>6, <2>1, <2>3, <3>1 DEF Ahead
  <2>4. CASE w[1][1] = "router_exit" /\ w[2][1] = "raise" /\ w[3][1] = "services_start"
    <3>1. w[2][1] \in StartNames
      BY <2>4 DEF StartNames
    <3>2. QED
      BY <1>6, <2>1, <2>4, <3>1 DEF Ahead
  <2>5. QED
    BY <1>3, <1>4, <2>2, <2>3, <2>4
<1>8. /\ \/ Unconnected
         \/ w[1][1] \in {"router_run", "services_start"}
         \/ w[1][1] = "router_exit" /\ w[2][1] = "services_start"
      /\ (\E j \in 1..((l + 1) - 1) : w[j][1] = "router_run") => Idle(Reader)
  BY <1>2, <1>7, StartingSays DEF Ahead
<1>9. \/ Unconnected /\ link' = link
      \/ x[1][1] \in {"router_run", "services_start"}
      \/ x[1][1] = "router_exit" /\ x[2][1] = "services_start"
  BY <1>3, <1>4, <1>6, <1>8
<1>10. (\E j \in 1..(l - 1) : x[j][1] = "router_run") => Idle(Reader)
  <2>1. /\ \A j \in 1..(1 - 1) : FALSE
        /\ \A j \in 1..(2 - 1) : j = 1
        /\ \A j \in 1..(3 - 1) : j = 1 \/ j = 2
        /\ 2 \in 1..((2 + 1) - 1) /\ 2 \in 1..((3 + 1) - 1) /\ 3 \in 1..((3 + 1) - 1)
    OBVIOUS
  <2>2. l = 1 \/ l = 2 \/ l = 3
    OBVIOUS
  <2>3. QED
    BY <1>6, <1>8, <2>1, <2>2
<1>11. \A k \in 1..0 : Linked(x, k) /\ x[k][1] \in StartNames
  OBVIOUS
<1>12. QED
  BY <1>1, <1>6, <1>7, <1>9, <1>10, <1>11, StartingGoes

LEMMA RouterStarts ==
  ASSUME WakeInv, ReleaseInv, NEW t \in Threads,
         Connect(t) \/ Connected(t) \/ NotConnected(t) \/ RouterStart(t) \/ RouterExit(t),
         UNCHANGED <<registryVars, lifecycle, calls>>
  PROVE  ReleaseInv'
<1>1. PICK w : w = W(t)
  OBVIOUS
<1>2. /\ UNCHANGED <<lifecycle, thread, reading, registryVars>>
      /\ link' = link \/ Connected(t)
  BY DEF Connect, Connected, NotConnected, RouterStart, RouterExit, connection
<1>3. CASE Connect(t)
  <2>1. todo[t] # <<>> /\ w[1][1] = "connect" /\ link' = link
    BY <1>1, <1>3, AtIs DEF Connect, connection
  <2>2. CASE Does(t, <<>>)
    BY <1>1, <1>2, <2>1, <2>2, StartingPops DEF StartNames
  <2>3. CASE Does(t, <<<<"heartbeat">>>>)
    BY <1>1, <1>2, <2>1, <2>3, StartingOne DEF StartNames
  <2>4. QED
    BY <1>3, <2>2, <2>3 DEF Connect
<1>4. CASE Connected(t)
  <2>1. todo[t] # <<>> /\ w[1][1] = "heartbeat" /\ Does(t, <<>>)
    BY <1>1, <1>4, AtIs DEF Connected
  <2>2. QED
    BY <1>1, <1>2, <2>1, StartingPops DEF StartNames
<1>5. CASE NotConnected(t)
  <2>1. todo[t] # <<>> /\ w[1][1] = "heartbeat" /\ link' = link
    BY <1>1, <1>5, AtIs DEF NotConnected, connection
  <2>2. Does(t, <<<<"raise">>>>)
    BY <1>5 DEF NotConnected, Raises
  <2>3. QED
    BY <1>1, <1>2, <2>1, <2>2, StartingOne DEF StartNames
<1>6. CASE RouterExit(t)
  <2>1. todo[t] # <<>> /\ w[1][1] = "router_exit" /\ link' = link /\ Does(t, <<>>)
    BY <1>1, <1>6, AtIs DEF RouterExit, connection
  <2>2. QED
    BY <1>1, <1>2, <2>1, StartingPops DEF StartNames
<1>7. CASE RouterStart(t)
  <2>1. todo[t] # <<>> /\ w[1][1] = "router_start" /\ link' = link
    BY <1>1, <1>7, AtIs DEF RouterStart, connection
  <2>2. CASE Raises(t)
    BY <1>1, <1>2, <2>1, <2>2, StartingOne DEF StartNames, Raises
  <2>3. CASE Does(t, <<>>)
    BY <1>1, <1>2, <2>1, <2>3, StartingPops DEF StartNames
  <2>4. CASE Does(t, <<<<"connect">>, <<"router_run">>, <<"router_exit", FALSE>>>>)
    <3>1. PICK f, g, h : f = <<"connect">> /\ g = <<"router_run">> /\ h = <<"router_exit", FALSE>>
      OBVIOUS
    <3>2. PICK x : x = Word(Becomes(t, <<f, g, h>>))
      OBVIOUS
    <3>3. Does(t, <<f, g, h>>)
      BY <2>4, <3>1
    <3>4. f[1] = "connect" /\ g[1] = "router_run" /\ h[1] = "router_exit" /\ f[1] \notin Marks
      BY <3>1 DEF Marks
    <3>5. /\ Splices(x, w, 3, 1) /\ x[1] = f /\ x[2] = g /\ x[3] = h /\ x[4] = w[2] /\ x[5] = w[3]
      BY <1>1, <2>1, <3>2, <3>4, PushThree
    <3>6. Sane(w) /\ StartStage(w)
      BY <1>1 DEF ReleaseInv
    <3>7. w[2][1] = "services_start"
      BY <2>1, <3>6, StartingShape DEF StartNames
    <3>8. /\ x[1][1] = "connect" /\ x[2][1] = "router_run" /\ x[3][1] = "router_exit"
          /\ x[4][1] = "services_start"
      BY <3>4, <3>5, <3>7
    <3>9. Linked(x, 1)
      BY <3>8, LinkedTop DEF Chain, Gate, Agrees, Lifecycle, Reports
    <3>10. Linked(x, 2)
      <4>1. 2 + 1 = 3 /\ 2 + 2 = 4 /\ 2 \in Nat /\ 2 >= 2
        OBVIOUS
      <4>2. /\ Chain("router_run", "router_exit", "services_start", FALSE)
            /\ Gate("router_run", "router_exit", "services_start", FALSE) /\ Agrees(x[2], "router_exit")
        BY <3>8 DEF Chain, Gate, Agrees, Lifecycle, Reports
      <4>3. QED
        BY <3>8, <4>1, <4>2, LinkedTop
    <3>11. Linked(x, 3)
      <4>1. 3 + 1 = 4 /\ 3 + 2 = 5 /\ 3 \in Nat /\ 3 >= 2
        OBVIOUS
      <4>2. /\ Chain("router_exit", "services_start", x[5][1], FALSE)
            /\ Gate("router_exit", "services_start", x[5][1], FALSE) /\ Agrees(x[3], "services_start")
        BY <3>8 DEF Chain, Gate, Agrees, Lifecycle, Reports
      <4>3. QED
        BY <3>8, <4>1, <4>2, LinkedTop
    <3>12. \A k \in 1..3 : Linked(x, k) /\ x[k][1] \in StartNames
      <4>1. \A k \in 1..3 : k = 1 \/ k = 2 \/ k = 3
        OBVIOUS
      <4>2. QED
        BY <3>8, <3>9, <3>10, <3>11, <4>1 DEF StartNames
    <3>13. Ahead(x, 4)
      <4>1. 4 \in Places /\ 4 - 1 = 3
        BY DEF Places
      <4>2. QED
        BY <3>8, <3>12, <4>1 DEF Ahead
    <3>14. Ahead(w, 2)
      <4>1. 2 \in Places /\ \A j \in 1..(2 - 1) : j = 1
        BY DEF Places
      <4>2. QED
        BY <2>1, <3>7, <4>1 DEF Ahead, StartNames
    <3>15. Unconnected
      <4>1. \/ Unconnected
            \/ w[1][1] \in {"router_run", "services_start"}
            \/ w[1][1] = "router_exit" /\ w[2][1] = "services_start"
        BY <3>6, <3>14, StartingSays DEF Ahead
      <4>2. QED
        BY <2>1, <4>1
    <3>16. Idle(Reader)
      BY <3>15 DEF Unconnected
    <3>17. w[1][1] \in StartNames \ {"raise"}
      BY <2>1 DEF StartNames
    <3>18. QED
      BY <1>1, <1>2, <2>1, <3>2, <3>3, <3>5, <3>12, <3>13, <3>15, <3>16, <3>17, StartingGoes
  <2>5. QED
    BY <1>7, <2>2, <2>3, <2>4 DEF RouterStart
<1>8. QED
  BY <1>3, <1>4, <1>5, <1>6, <1>7
-------------------------------------------------------------------------------
\* start() of the router's reader, of the application peer and of the registry.

\* A thread that was idle receives, or watches.
LEMMA IdleGets ==
  ASSUME NEW f, f[1] \in {"read", "watch"}, NEW x, x = Word(<<f>>),
         NEW w, Sane(w), \A i \in Places : w[i] = <<"end">>
  PROVE  Keeps(x, w)
<1>1. PICK frames, T : frames = <<f>> /\ T = {f}
  OBVIOUS
<1>2. frames \in Seq(T) /\ frames # <<>> /\ Len(frames) = 1 /\ frames[1] = f
  BY <1>1
<1>3. x[1] = f /\ \A i \in Places : x[1 + i] = <<"end">>
  <2>1. x = Word(frames) /\ 1 \in 1..1
    BY <1>1
  <2>2. /\ \A i \in 1..1 : x[i] = frames[i]
        /\ \A i \in Places : x[1 + i] = <<"end">>
    BY <1>2, <2>1, ListWord
  <2>3. QED
    BY <1>2, <2>1, <2>2
<1>4. w[1] = <<"end">> /\ \A i \in Places : w[1 + i] = <<"end">>
  BY DEF Places
<1>5. Splices(x, w, 1, 1)
  BY <1>3, <1>4 DEF Splices
<1>6. x[1 + 1] = <<"end">> /\ x[1 + 2] = <<"end">>
  BY <1>3 DEF Places
<1>7. /\ \A i \in 1..1 : x[i][1] \in Free /\ x[i][1] \notin {"raise", "registry_accept"}
      /\ Plain(x[1 + 1][1], x[1 + 2][1])
  <2>1. Plain("end", "end") /\ <<"end">>[1] = "end"
    BY DEF Plain, Lifecycle
  <2>2. \A i \in 1..1 : i = 1
    OBVIOUS
  <2>3. QED
    BY <1>3, <1>6, <2>1, <2>2 DEF Free, Receiving
<1>8. \A i \in 1..1 : Linked(x, i) /\ x[i][1] \notin Lifecycle \cup {"closed", "close_end"}
  BY <1>7, FreeLinked
<1>9. \A i \in 1..1 : x[i][1] \in Receiving => i = 1 /\ \A j \in Places : w[1 + j] = <<"end">>
  BY <1>4
<1>10. w[1][1] \notin Lifecycle \cup {"enter", "raise"}
  BY <1>4 DEF Lifecycle
<1>11. QED
  BY <1>5, <1>8, <1>9, <1>10, LoosePush

LEMMA ReaderRuns ==
  ASSUME WakeInv, ReleaseInv, NEW t \in Threads, RouterRun(t),
         UNCHANGED <<registryVars, lifecycle, calls>>
  PROVE  ReleaseInv'
<1>1. PICK w : w = W(t)
  OBVIOUS
<1>2. PICK x : x = Word(Becomes(t, <<>>))
  OBVIOUS
<1>3. todo[t] # <<>> /\ w[1][1] = "router_run" /\ Sane(w) /\ StartStage(w)
  BY <1>1, AtIs DEF RouterRun, ReleaseInv
<1>4. w[2][1] = "router_exit" /\ w[3][1] = "services_start"
  BY <1>3, StartingShape DEF StartNames
<1>5. 3 \in Places /\ \A j \in 1..(3 - 1) : w[j][1] \in StartNames
  <2>1. 3 \in Places /\ \A j \in 1..(3 - 1) : j = 1 \/ j = 2
    BY DEF Places
  <2>2. QED
    BY <1>3, <1>4, <2>1 DEF StartNames
<1>6. /\ ~cleanup /\ ~running /\ ~dispatching /\ started = {} /\ Unwatched /\ ~Halts(w)
      /\ (\E j \in 1..(3 - 1) : w[j][1] = "router_run") => Idle(Reader)
  BY <1>3, <1>4, <1>5, StartingSays
<1>7. Idle(Reader) /\ t # Reader
  <2>1. 1 \in 1..(3 - 1)
    OBVIOUS
  <2>2. QED
    BY <1>3, <1>6, <2>1 DEF Idle
<1>8. PICK f : f = <<"read">>
  OBVIOUS
<1>9. /\ W(t)' = x /\ W(Reader)' = Word(<<f>>)
      /\ \A u \in Threads : u # t /\ u # Reader => todo'[u] = todo[u] /\ W(u)' = W(u)
  <2>1. todo' = [todo EXCEPT ![t] = Becomes(t, <<>>), ![Reader] = <<f>>]
    BY <1>8 DEF RouterRun
  <2>2. todo = [u \in Threads |-> todo[u]] /\ Reader \in Threads
    BY IsSeq, RouterAssumption
  <2>3. /\ todo'[t] = Becomes(t, <<>>) /\ todo'[Reader] = <<f>>
        /\ \A u \in Threads : u # t /\ u # Reader => todo'[u] = todo[u]
    BY <1>7, <2>1, <2>2
  <2>4. QED
    BY <1>2, <2>3 DEF W
<1>10. Keeps(Word(<<f>>), W(Reader))
  <2>1. PICK v : v = W(Reader)
    OBVIOUS
  <2>2. Sane(v) /\ \A i \in Places : v[i] = <<"end">>
    <3>1. Reader \in Threads
      BY RouterAssumption
    <3>2. QED
      BY <1>7, <2>1, <3>1, EmptyWord DEF Idle, W, ReleaseInv
  <2>3. f[1] \in {"read", "watch"}
    BY <1>8
  <2>4. QED
    BY <2>1, <2>2, <2>3, IdleGets
<1>11. \A u \in Threads : u # t => W(u)' = W(u) \/ Keeps(W(u)', W(u))
  BY <1>9, <1>10
<1>12. Splices(x, w, 0, 1) /\ x[1] = w[2] /\ x[2] = w[3]
  BY <1>1, <1>2, <1>3, <1>4, PopOne DEF Marks
<1>13. Sane(x)
  <2>1. 1..0 = {} /\ 0 \in Nat /\ 1 \in Places
    BY DEF Places
  <2>2. QED
    BY <1>3, <1>12, <2>1, SaneAfter
<1>14. /\ ~cleanup' /\ ~running' /\ ~dispatching' /\ started' = {} /\ Unwatched' /\ thread'
       /\ UNCHANGED <<owner, closed, closing>>
  <2>1. Idle(Monitor) => Idle(Monitor)'
    BY <1>3, <1>9, RegistryAssumption, RuntimeAssumption DEF Idle
  <2>2. QED
    BY <1>6, <2>1 DEF lifecycle, registryVars, endpoints, Unwatched, RouterRun
<1>15. StartStage(x)' /\ StopStage(x)' /\ ~Halts(x)'
  <2>1. 2 \in Places /\ \A j \in 1..(2 - 1) : j = 1
    BY DEF Places
  <2>2. x[1][1] = "router_exit" /\ x[2][1] = "services_start"
    BY <1>4, <1>12
  <2>3. \A j \in 1..(2 - 1) : x[j][1] \in StartNames /\ x[j][1] # "router_run"
    BY <2>1, <2>2 DEF StartNames
  <2>4. QED
    BY <1>13, <1>14, <2>1, <2>2, <2>3, StartingStages
<1>16. /\ \A i \in 1..0 : x[i][1] \notin {"closed", "close_end"}
       /\ \A i \in 2..1 : w[i][1] \in Marks
       /\ 0 \in Nat /\ 1 \in Places /\ w[1][1] \in Lifecycle \ {"exit"}
  BY <1>3 DEF Places, Lifecycle
<1>17. ~Halts(w) /\ started' = {}
  BY <1>6, <1>14
<1>18. QED
  BY <1>1, <1>9, <1>11, <1>12, <1>13, <1>14, <1>15, <1>16, <1>17, OwnerStep

\* A word in start() that is at the registry, or behind it.
Final(w, e) ==
  /\ e \in Places /\ w[e][1] = "exit"
  /\ \A i \in 1..(e - 1) : w[i][1] \in {"raise", "registry_start", "start_end"}
  /\ \E i \in 1..(e - 1) : w[i][1] = "start_end"

LEMMA LateWord ==
  ASSUME NEW x, Sane(x), NEW e, Final(x, e)
  PROVE  /\ Has(x, "start_end") /\ ~Has(x, "services_start") /\ ~Has(x, "router_run")
         /\ ~Has(x, "rolled") /\ ~Has(x, "report") /\ ~Untold(x) /\ ~Has(x, "router_stopped")
<1>1. e \in Places /\ x[e][1] = "exit"
  BY DEF Final
<1>2. ASSUME NEW i \in 1..e PROVE x[i][1] \in {"raise", "registry_start", "start_end", "exit"}
  <2>1. i = e \/ i \in 1..(e - 1)
    BY <1>1 DEF Places
  <2>2. QED
    BY <1>1, <2>1 DEF Final
<1>3. /\ \A a \in Lifecycle : Has(x, a) <=> \E i \in 1..e : x[i][1] = a
      /\ Untold(x) => \E i \in 1..e : x[i][1] \in Reports /\ x[i][2] = FALSE
  <2>1. PICK l \in Places : l = e
    BY <1>1
  <2>2. x[l][1] = "exit"
    BY <1>1, <2>1
  <2>3. /\ \A a \in Lifecycle : Has(x, a) <=> \E i \in 1..l : x[i][1] = a
        /\ Untold(x) => \E i \in 1..l : x[i][1] \in Reports /\ x[i][2] = FALSE
        /\ Returns(x) => x[l + 1][1] = "registry_stop"
    BY <2>2, Upto
  <2>4. QED
    BY <2>1, <2>3
<1>4. Has(x, "start_end")
  <2>1. \A i \in 1..(e - 1) : i \in Places
    BY DEF Places
  <2>2. QED
    BY <2>1 DEF Final, Has
<1>5. /\ ~Has(x, "services_start") /\ ~Has(x, "router_run") /\ ~Has(x, "rolled")
      /\ ~Has(x, "report") /\ ~Has(x, "router_stopped")
  BY <1>2, <1>3 DEF Lifecycle
<1>6. ~Untold(x)
  BY <1>2, <1>3 DEF Reports
<1>7. QED
  BY <1>4, <1>5, <1>6

LEMMA LateStages ==
  ASSUME NEW x, Sane(x), NEW e, Final(x, e), ~cleanup',
         Unwatched' \/ (x[1][1] = "start_end" /\ x[2][1] = "exit"),
         dispatching' => "dispatcher" \in started', Unconnected' \/ "client" \in started',
         x[1][1] = "registry_start" \/ (x[1][1] = "start_end" /\ x[2][1] = "exit") => running'
  PROVE  StartStage(x)' /\ StopStage(x)' /\ ~Halts(x)'
<1>1. /\ Has(x, "start_end") /\ ~Has(x, "services_start") /\ ~Has(x, "router_run")
      /\ ~Has(x, "rolled") /\ ~Has(x, "report") /\ ~Untold(x) /\ ~Has(x, "router_stopped")
  BY LateWord
<1>2. StartStage(x)'
  BY <1>1 DEF StartStage
<1>3. ~(\A a \in Lifecycle : Has(x, a) => a = "exit")
  BY <1>1 DEF Lifecycle
<1>4. StopStage(x)'
  BY <1>1, <1>3, NoStop
<1>5. QED
  BY <1>1, <1>2, <1>4 DEF Halts

LEMMA ServicesStarts ==
  ASSUME WakeInv, ReleaseInv, NEW t \in Threads, ServicesStart(t)
  PROVE  ReleaseInv'
<1>1. PICK w : w = W(t)
  OBVIOUS
<1>2. todo[t] # <<>> /\ w[1][1] = "services_start" /\ Sane(w) /\ StartStage(w)
  BY <1>1, AtIs DEF ServicesStart, ReleaseInv
<1>3. 1 \in Places /\ \A j \in 1..(1 - 1) : FALSE
  BY DEF Places
<1>4. w[2][1] = "registry_start" /\ w[3][1] = "start_end" /\ w[4][1] = "exit"
  <2>1. 1 + 1 = 2 /\ 1 + 2 = 3 /\ 1 + 3 = 4
    OBVIOUS
  <2>2. w[1 + 1][1] = "registry_start" /\ w[1 + 2][1] = "start_end" /\ w[1 + 3][1] = "exit"
    BY <1>2, <1>3, StartingWord
  <2>3. QED
    BY <2>1, <2>2
<1>5. ~cleanup /\ ~running /\ ~dispatching /\ started = {} /\ Unwatched /\ ~Halts(w)
  BY <1>2, <1>3, StartingSays
<1>6. UNCHANGED <<cleanup, closed, closing, owner, thread, open, connected, stopWatch>>
  BY DEF ServicesStart, routerVars, connection, registryVars, endpoints
<1>7. ASSUME NEW frames, Does(t, frames) PROVE Unwatched'
  <2>1. Idle(Monitor) => Idle(Monitor)'
    BY <1>2, <1>7, DoesOnly, RegistryAssumption
  <2>2. QED
    BY <1>5, <1>6, <2>1 DEF Unwatched
<1>8. w[1][1] \in Lifecycle \ {"exit"} /\ \A i \in 2..1 : w[i][1] \in Marks
  BY <1>2 DEF Lifecycle
<1>9. CASE Raises(t) /\ started' = {"client"} /\ UNCHANGED <<running, dispatching>>
  <2>1. PICK f, x : f = <<"raise">> /\ x = Word(Becomes(t, <<f>>))
    OBVIOUS
  <2>2. f[1] = "raise" /\ Does(t, <<f>>) /\ f[1] \notin Marks
    BY <1>9, <2>1 DEF Raises, Marks
  <2>3. Splices(x, w, 1, 1) /\ x[1] = f /\ x[2] = w[2] /\ x[3] = w[3] /\ x[4] = w[4]
    BY <1>1, <1>2, <2>1, <2>2, PushOne
  <2>4. Linked(x, 1)
    BY <1>4, <2>2, <2>3, LinkedTop DEF Chain, Gate, Agrees, Lifecycle, Reports
  <2>5. \A i \in 1..1 : i = 1
    OBVIOUS
  <2>6. Sane(x)
    <3>1. \A i \in 1..1 : Linked(x, i) /\ x[i][1] \notin {"exit", "close_end"} \cup Receiving
      BY <2>2, <2>3, <2>4, <2>5 DEF Receiving
    <3>2. QED
      BY <1>2, <1>3, <2>3, <3>1, SaneAfter
  <2>7. Final(x, 4)
    <3>1. 4 \in Places /\ 3 \in 1..(4 - 1) /\ \A i \in 1..(4 - 1) : i = 1 \/ i = 2 \/ i = 3
      BY DEF Places
    <3>2. QED
      BY <1>4, <2>2, <2>3, <3>1 DEF Final
  <2>8. /\ ~cleanup' /\ Unwatched' /\ ~dispatching' /\ "client" \in started'
        /\ x[1][1] \notin {"registry_start", "start_end"}
    BY <1>5, <1>6, <1>7, <1>9, <2>2, <2>3
  <2>9. StartStage(x)' /\ StopStage(x)' /\ ~Halts(x)'
    BY <2>6, <2>7, <2>8, LateStages
  <2>10. \A i \in 1..1 : x[i][1] \notin {"closed", "close_end"}
    BY <2>2, <2>3, <2>5
  <2>11. QED
    BY <1>1, <1>2, <1>3, <1>5, <1>6, <1>8, <2>1, <2>2, <2>3, <2>6, <2>8, <2>9, <2>10, OwnerDoes
<1>10. CASE Does(t, <<>>) /\ started' = {"client", "dispatcher"} /\ running' = TRUE
  <2>1. PICK x : x = Word(Becomes(t, <<>>))
    OBVIOUS
  <2>2. Splices(x, w, 0, 1) /\ x[1] = w[2] /\ x[2] = w[3] /\ x[3] = w[4]
    BY <1>1, <1>2, <1>4, <2>1, PopOne DEF Marks
  <2>3. Sane(x)
    <3>1. 1..0 = {} /\ 0 \in Nat
      OBVIOUS
    <3>2. QED
      BY <1>2, <1>3, <2>2, <3>1, SaneAfter
  <2>4. Final(x, 3)
    <3>1. 3 \in Places /\ 2 \in 1..(3 - 1) /\ \A i \in 1..(3 - 1) : i = 1 \/ i = 2
      BY DEF Places
    <3>2. QED
      BY <1>4, <2>2, <3>1 DEF Final
  <2>5. /\ ~cleanup' /\ Unwatched' /\ "dispatcher" \in started' /\ "client" \in started' /\ running'
    BY <1>5, <1>6, <1>7, <1>10
  <2>6. StartStage(x)' /\ StopStage(x)' /\ ~Halts(x)'
    BY <2>3, <2>4, <2>5, LateStages
  <2>7. 0 \in Nat /\ \A i \in 1..0 : x[i][1] \notin {"closed", "close_end"}
    OBVIOUS
  <2>8. QED
    BY <1>1, <1>2, <1>3, <1>5, <1>6, <1>8, <1>10, <2>1, <2>2, <2>3, <2>5, <2>6, <2>7, OwnerDoes
<1>11. QED
  BY <1>9, <1>10 DEF ServicesStart

LEMMA RegistryStarts ==
  ASSUME WakeInv, ReleaseInv, NEW t \in Threads, RegistryStart(t),
         UNCHANGED <<routerVars, runtimeVars>>
  PROVE  ReleaseInv'
<1>1. PICK w : w = W(t)
  OBVIOUS
<1>2. todo[t] # <<>> /\ w[1][1] = "registry_start" /\ Sane(w) /\ StartStage(w)
  BY <1>1, AtIs DEF RegistryStart, ReleaseInv
<1>3. w[2][1] = "start_end"
  <2>1. Chain(w[1][1], w[2][1], w[3][1], TRUE)
    BY <1>2, AtOne
  <2>2. QED
    BY <1>2, <2>1 DEF Chain
<1>4. w[3][1] = "exit"
  <2>1. 2 \in Places /\ 2 >= 2 /\ 2 + 1 = 3 /\ 2 + 2 = 4
    BY DEF Places
  <2>2. Chain(w[2][1], w[3][1], w[4][1], FALSE)
    BY <1>2, <2>1, Below2
  <2>3. QED
    BY <1>3, <2>2 DEF Chain
<1>5. Final(w, 3)
  <2>1. 3 \in Places /\ 2 \in 1..(3 - 1) /\ \A i \in 1..(3 - 1) : i = 1 \/ i = 2
    BY DEF Places
  <2>2. QED
    BY <1>2, <1>3, <1>4, <2>1 DEF Final
<1>6. Has(w, "start_end") /\ ~Has(w, "services_start")
  BY <1>2, <1>5, LateWord
<1>7. /\ ~cleanup /\ Unwatched /\ (dispatching => "dispatcher" \in started)
      /\ Unconnected \/ "client" \in started
      /\ running /\ ~Halts(w)
  BY <1>2, <1>6 DEF StartStage, Halts
<1>8. /\ UNCHANGED <<running, cleanup, dispatching, started, owner, closed, closing, thread>>
      /\ UNCHANGED <<link, reading, connected>>
  BY DEF RegistryStart, routerVars, connection, runtimeVars, lifecycle, endpoints
<1>9. w[1][1] \in Lifecycle \ {"exit"} /\ (\A i \in 2..1 : w[i][1] \in Marks) /\ 1 \in Places
  BY <1>2 DEF Lifecycle, Places
<1>10. Idle(Monitor) => t # Monitor
  BY <1>2 DEF Idle
<1>11. "dispatcher" \in started' => "client" \in started'
  BY <1>8 DEF ReleaseInv
<1>12. CASE Raises(t) /\ UNCHANGED <<open, stopWatch>>
  <2>1. PICK f, x : f = <<"raise">> /\ x = Word(Becomes(t, <<f>>))
    OBVIOUS
  <2>2. f[1] = "raise" /\ Does(t, <<f>>) /\ f[1] \notin Marks
    BY <1>12, <2>1 DEF Raises, Marks
  <2>3. Splices(x, w, 1, 1) /\ x[1] = f /\ x[2] = w[2] /\ x[3] = w[3]
    BY <1>1, <1>2, <2>1, <2>2, PushOne
  <2>4. Linked(x, 1)
    BY <1>3, <1>4, <2>2, <2>3, LinkedTop DEF Chain, Gate, Agrees, Lifecycle, Reports
  <2>5. \A i \in 1..1 : i = 1
    OBVIOUS
  <2>6. Sane(x)
    <3>1. \A i \in 1..1 : Linked(x, i) /\ x[i][1] \notin {"exit", "close_end"} \cup Receiving
      BY <2>2, <2>3, <2>4, <2>5 DEF Receiving
    <3>2. QED
      BY <1>2, <1>9, <2>3, <3>1, SaneAfter
  <2>7. Final(x, 3)
    <3>1. 3 \in Places /\ 2 \in 1..(3 - 1) /\ \A i \in 1..(3 - 1) : i = 1 \/ i = 2
      BY DEF Places
    <3>2. QED
      BY <1>3, <1>4, <2>2, <2>3, <3>1 DEF Final
  <2>8. (Idle(Reader) => Idle(Reader)') /\ (Idle(Monitor) => Idle(Monitor)')
    BY <1>2, <2>2, DoesOnly, RouterAssumption, RegistryAssumption
  <2>9. /\ ~cleanup' /\ Unwatched' /\ (dispatching' => "dispatcher" \in started')
        /\ Unconnected' \/ "client" \in started'
        /\ x[1][1] \notin {"registry_start", "start_end"}
    BY <1>7, <1>8, <1>12, <2>2, <2>3, <2>8 DEF Unwatched, Unconnected
  <2>10. StartStage(x)' /\ StopStage(x)' /\ ~Halts(x)'
    BY <2>6, <2>7, <2>9, LateStages
  <2>11. \A i \in 1..1 : x[i][1] \notin {"closed", "close_end"}
    BY <2>2, <2>3, <2>5
  <2>12. QED
    BY <1>1, <1>2, <1>7, <1>8, <1>9, <1>11, <2>1, <2>2, <2>3, <2>6, <2>10, <2>11, OwnerDoes
<1>13. ASSUME NEW x, x = Word(Becomes(t, <<>>))
       PROVE  /\ Splices(x, w, 0, 1) /\ Sane(x) /\ Final(x, 2)
              /\ x[1][1] = "start_end" /\ x[2][1] = "exit"
  <2>1. Splices(x, w, 0, 1) /\ x[1] = w[2] /\ x[2] = w[3]
    BY <1>1, <1>2, <1>3, <1>13, PopOne DEF Marks
  <2>2. Sane(x)
    <3>1. 1..0 = {} /\ 0 \in Nat
      OBVIOUS
    <3>2. QED
      BY <1>2, <1>9, <2>1, <3>1, SaneAfter
  <2>3. Final(x, 2)
    <3>1. 2 \in Places /\ 1 \in 1..(2 - 1) /\ \A i \in 1..(2 - 1) : i = 1
      BY DEF Places
    <3>2. QED
      BY <1>3, <1>4, <2>1, <3>1 DEF Final
  <2>4. QED
    BY <1>3, <1>4, <2>1, <2>2, <2>3
<1>14. PICK x : x = Word(Becomes(t, <<>>))
  OBVIOUS
<1>15. 0 \in Nat /\ \A i \in 1..0 : x[i][1] \notin {"closed", "close_end"}
  OBVIOUS
<1>16. CASE Does(t, <<>>)
  <2>1. (Idle(Reader) => Idle(Reader)')
    BY <1>2, <1>16, DoesOnly, RouterAssumption
  <2>2. /\ ~cleanup' /\ (dispatching' => "dispatcher" \in started')
        /\ Unconnected' \/ "client" \in started'
        /\ running'
    BY <1>7, <1>8, <2>1 DEF Unconnected
  <2>3. StartStage(x)' /\ StopStage(x)' /\ ~Halts(x)'
    BY <1>13, <1>14, <2>2, LateStages
  <2>4. Splices(x, w, 0, 1) /\ Sane(x)
    BY <1>13, <1>14
  <2>5. QED
    BY <1>1, <1>2, <1>7, <1>8, <1>9, <1>11, <1>14, <1>15, <1>16, <2>3, <2>4, OwnerDoes
<1>17. CASE /\ Idle(Monitor)
            /\ todo' = [todo EXCEPT ![t] = Becomes(t, <<>>), ![Monitor] = <<<<"watch">>>>]
  <2>1. PICK f : f = <<"watch">>
    OBVIOUS
  <2>2. t # Monitor /\ Monitor \in Threads
    BY <1>10, <1>17, RegistryAssumption
  <2>3. /\ W(t)' = x /\ W(Monitor)' = Word(<<f>>)
        /\ \A u \in Threads : u # t /\ u # Monitor => todo'[u] = todo[u] /\ W(u)' = W(u)
    <3>1. todo' = [todo EXCEPT ![t] = Becomes(t, <<>>), ![Monitor] = <<f>>]
      BY <1>17, <2>1
    <3>2. todo = [u \in Threads |-> todo[u]]
      BY IsSeq
    <3>3. /\ todo'[t] = Becomes(t, <<>>) /\ todo'[Monitor] = <<f>>
          /\ \A u \in Threads : u # t /\ u # Monitor => todo'[u] = todo[u]
      BY <2>2, <3>1, <3>2
    <3>4. QED
      BY <1>14, <3>3 DEF W
  <2>4. Keeps(Word(<<f>>), W(Monitor))
    <3>1. PICK v : v = W(Monitor)
      OBVIOUS
    <3>2. Sane(v) /\ \A i \in Places : v[i] = <<"end">>
      BY <1>17, <2>2, <3>1, EmptyWord DEF Idle, W, ReleaseInv
    <3>3. f[1] \in {"read", "watch"}
      BY <2>1
    <3>4. QED
      BY <3>1, <3>2, <3>3, IdleGets
  <2>5. \A u \in Threads : u # t => W(u)' = W(u) \/ Keeps(W(u)', W(u))
    BY <2>3, <2>4
  <2>6. Idle(Reader) => Idle(Reader)'
    <3>1. Reader \in Threads /\ Reader # Monitor
      BY RouterAssumption, RuntimeAssumption
    <3>2. QED
      BY <1>2, <2>3, <3>1 DEF Idle
  <2>7. /\ ~cleanup' /\ (dispatching' => "dispatcher" \in started')
        /\ Unconnected' \/ "client" \in started'
        /\ running'
    BY <1>7, <1>8, <2>6 DEF Unconnected
  <2>8. StartStage(x)' /\ StopStage(x)' /\ ~Halts(x)'
    BY <1>13, <1>14, <2>7, LateStages
  <2>9. ~thread' => Idle(Reader)'
    BY <1>8, <2>6 DEF ReleaseInv
  <2>10. Splices(x, w, 0, 1) /\ Sane(x)
    BY <1>13, <1>14
  <2>11. QED
    BY <1>1, <1>7, <1>8, <1>9, <1>11, <1>15, <2>3, <2>5, <2>8, <2>9, <2>10, OwnerStep
<1>18. QED
  BY <1>12, <1>16, <1>17 DEF RegistryStart
-------------------------------------------------------------------------------
\* The end of start(), and the reports.

LEMMA PushList ==
  ASSUME WakeInv, NEW t \in Threads, todo[t] # <<>>, NEW T, NEW frames \in Seq(T), frames # <<>>,
         frames[1][1] \notin Marks, NEW n, n = Len(frames),
         NEW w, w = W(t), NEW x, x = Word(Becomes(t, frames))
  PROVE  /\ n \in Nat /\ Splices(x, w, n, 1) /\ \A i \in 1..n : x[i] = frames[i]
         /\ x[n + 1] = w[2] /\ x[n + 2] = w[3]
<1>1. Splices(x, w, n, 1) /\ \A i \in 1..n : x[i] = frames[i]
  BY PushWord
<1>2. 1 \in Places /\ 2 \in Places /\ 1 + 1 = 2 /\ 1 + 2 = 3
  BY DEF Places
<1>3. QED
  BY <1>1, <1>2 DEF Splices

LEMMA LinkedAt ==
  ASSUME NEW x, NEW i \in Nat, i >= 2,
         Chain(x[i][1], x[i + 1][1], x[i + 2][1], FALSE),
         Gate(x[i][1], x[i + 1][1], x[i + 2][1], FALSE), Agrees(x[i], x[i + 1][1])
  PROVE  Linked(x, i)
  BY LinkedTop

\* What two frames are that follow one of stop() or of the rollback.
Goes(n, m, k) == Chain(n, m, k, FALSE) /\ Gate(n, m, k, FALSE)

LEMMA EndGoes ==
  /\ Goes("dispatcher_stop", "caught", "router_stop")
  /\ Goes("caught", "dispatcher_stop", "caught") /\ Goes("caught", "router_stop", "caught")
  /\ \A r \in Reports : Goes("router_stop", "caught", r)
  /\ Goes("caught", "report", "exit") /\ Goes("caught", "rolled", "raise")
  /\ Goes("rolled", "raise", "exit")
  /\ \A k : Goes("report", "exit", k)
  BY DEF Goes, Chain, Gate, Lifecycle, Reports

\* A word in stop(), or in the rollback of start(), up to its report.
EndNames ==
  {"raise", "caught", "dispatcher_stop", "handler_join", "router_stop", "reader_join",
   "router_stopped", "disconnect", "registry_stop"}

Ending(w, r) ==
  /\ r \in Places /\ w[r][1] \in Reports
  /\ \A i \in 1..(r - 1) : w[i][1] \in EndNames

LEMMA EndingWord ==
  ASSUME NEW x, Sane(x), NEW r, Ending(x, r)
  PROVE  /\ ~Has(x, "start_end") /\ ~Has(x, "services_start") /\ ~Has(x, "router_run")
         /\ Has(x, "rolled") <=> x[r][1] = "rolled"
         /\ Has(x, "report") <=> x[r][1] = "report"
         /\ Untold(x) <=> x[r][2] = FALSE
         /\ \A a \in {"dispatcher_stop", "caught", "router_stopped"} :
              Has(x, a) <=> \E i \in 1..(r - 1) : x[i][1] = a
         /\ x[1][1] \notin {"registry_start", "start_end"}
<1>1. r \in Places /\ r \in Nat /\ r >= 1 /\ r + 1 \in Places /\ r + 2 \in Places
  BY DEF Ending, Places
<1>2. Chain(x[r][1], x[r + 1][1], x[r + 2][1], TRUE)
  BY <1>1, GateAt
<1>3. PICK e \in Places :
        /\ x[e][1] = "exit" /\ e > r /\ \A i \in (r + 1)..e : x[i][1] \in {"raise", "exit"}
  <2>1. CASE x[r][1] = "report"
    <3>1. x[r + 1][1] = "exit"
      BY <1>2, <2>1 DEF Chain
    <3>2. r + 1 > r /\ \A i \in (r + 1)..(r + 1) : i = r + 1
      BY <1>1
    <3>3. QED
      BY <1>1, <3>1, <3>2
  <2>2. CASE x[r][1] = "rolled"
    <3>1. x[r + 1][1] = "raise" /\ x[r + 2][1] = "exit"
      BY <1>2, <2>2 DEF Chain
    <3>2. r + 2 > r /\ \A i \in (r + 1)..(r + 2) : i = r + 1 \/ i = r + 2
      BY <1>1
    <3>3. QED
      BY <1>1, <3>1, <3>2
  <2>3. QED
    BY <2>1, <2>2 DEF Ending, Reports
<1>4. ASSUME NEW i \in 1..e
      PROVE  \/ i \in 1..(r - 1) /\ x[i][1] \in EndNames
             \/ i = r
             \/ x[i][1] \in {"raise", "exit"}
  <2>1. i \in 1..(r - 1) \/ i = r \/ i \in (r + 1)..e
    BY <1>1, <1>3 DEF Places
  <2>2. QED
    BY <1>3, <2>1 DEF Ending
<1>5. /\ \A a \in Lifecycle : Has(x, a) <=> \E i \in 1..e : x[i][1] = a
      /\ Untold(x) => \E i \in 1..e : x[i][1] \in Reports /\ x[i][2] = FALSE
      /\ Returns(x) => x[e + 1][1] = "registry_stop"
  BY <1>3, Upto
<1>6. r \in 1..e /\ x[r][1] \in Reports /\ 1 \in 1..e
  BY <1>1, <1>3 DEF Ending, Places
<1>7. /\ ~Has(x, "start_end") /\ ~Has(x, "services_start") /\ ~Has(x, "router_run")
      /\ Has(x, "rolled") <=> x[r][1] = "rolled"
      /\ Has(x, "report") <=> x[r][1] = "report"
  BY <1>4, <1>5, <1>6 DEF Lifecycle, Reports, EndNames
<1>8. Untold(x) <=> x[r][2] = FALSE
  <2>1. Untold(x) => x[r][2] = FALSE
    BY <1>4, <1>5 DEF Reports, EndNames
  <2>2. x[r][2] = FALSE => Untold(x)
    BY <1>1, <1>6 DEF Untold
  <2>3. QED
    BY <2>1, <2>2
<1>9. ASSUME NEW a \in {"dispatcher_stop", "caught", "router_stopped"}
      PROVE  Has(x, a) <=> \E i \in 1..(r - 1) : x[i][1] = a
  <2>1. a \in Lifecycle /\ a \notin Reports \cup {"raise", "exit"}
    BY DEF Lifecycle, Reports
  <2>2. \A i \in 1..(r - 1) : i \in Places
    BY DEF Places
  <2>3. (\E i \in 1..(r - 1) : x[i][1] = a) => Has(x, a)
    BY <2>2 DEF Has
  <2>4. Has(x, a) => \E i \in 1..(r - 1) : x[i][1] = a
    BY <1>4, <1>5, <1>6, <2>1
  <2>5. QED
    BY <2>3, <2>4
<1>10. x[1][1] \notin {"registry_start", "start_end"}
  BY <1>4, <1>6 DEF Reports, EndNames
<1>11. QED
  BY <1>7, <1>8, <1>9, <1>10

LEMMA EndingStages ==
  ASSUME NEW x, Sane(x), NEW r, Ending(x, r),
         x[r][1] = "rolled" => ~cleanup',
         x[r][1] = "report" => /\ cleanup' /\ ~running'
                               /\ (~open' /\ stopWatch') \/ x[1][1] = "registry_stop",
         x[r][2] = FALSE =>
           /\ dispatching' => Has(x, "dispatcher_stop")
           /\ Unwatched' \/ (x[r][1] = "report" /\ Halting(x))
           /\ Unconnected' \/ Has(x, "caught"),
         Has(x, "router_stopped") =>
           Idle(Reader)' /\ (~link' \/ x[1][1] \in {"disconnect", "release"})
  PROVE  StartStage(x)' /\ StopStage(x)' /\ ~Halts(x)'
<1>1. /\ ~Has(x, "start_end") /\ ~Has(x, "services_start") /\ ~Has(x, "router_run")
      /\ Has(x, "rolled") <=> x[r][1] = "rolled"
      /\ Has(x, "report") <=> x[r][1] = "report"
      /\ Untold(x) <=> x[r][2] = FALSE
      /\ \A a \in {"dispatcher_stop", "caught", "router_stopped"} :
           Has(x, a) <=> \E i \in 1..(r - 1) : x[i][1] = a
      /\ x[1][1] \notin {"registry_start", "start_end"}
  BY EndingWord
<1>2. StartStage(x)'
  BY <1>1, NoStart
<1>3. Has(x, "rolled") \/ Has(x, "report")
  BY <1>1 DEF Ending, Reports
<1>4. ~(\A a \in Lifecycle : Has(x, a) => a = "exit")
  BY <1>3 DEF Lifecycle
<1>5. StopStage(x)'
  BY <1>1, <1>4 DEF StopStage
<1>6. ~Halts(x)'
  BY <1>1, <1>3 DEF Halts
<1>7. QED
  BY <1>2, <1>5, <1>6

\* Tuples that are put together.
LEMMA Togethers ==
  ASSUME NEW a, NEW b, NEW c, NEW d, NEW e
  PROVE  /\ <<>> \o <<>> \o <<e>> = <<e>>
         /\ <<>> \o <<c, d>> \o <<e>> = <<c, d, e>>
         /\ <<a, b>> \o <<c, d>> \o <<e>> = <<a, b, c, d, e>>
<1>1. PICK T, p, q, z : /\ T = {a, b, c, d, e} /\ p = <<a, b>> /\ q = <<c, d>> /\ z = <<e>>
  OBVIOUS
<1>2. /\ p \in Seq(T) /\ q \in Seq(T) /\ z \in Seq(T) /\ Len(p) = 2 /\ Len(q) = 2 /\ Len(z) = 1
      /\ p[1] = a /\ p[2] = b /\ q[1] = c /\ q[2] = d /\ z[1] = e
  BY <1>1
<1>0. p \in Seq(T) /\ q \in Seq(T) /\ z \in Seq(T)
  BY <1>2
<1>3. 1 \in 1..1 /\ 1 \in 1..2 /\ 2 \in 1..2 /\ 2 + 1 = 3 /\ 2 + 2 = 4 /\ 4 + 1 = 5
      /\ \A i \in 1..4 : i \in 1..(2 + 2)
  OBVIOUS
<1>4. q \o z = <<c, d, e>>
  <2>1. PICK r : r = q \o z
    OBVIOUS
  <2>2. /\ r \in Seq(T) /\ Len(r) = Len(q) + Len(z)
        /\ \A i \in 1..Len(q) : r[i] = q[i]
        /\ \A i \in 1..Len(z) : r[Len(q) + i] = z[i]
    BY <1>0, <2>1, Joins
  <2>3. Len(r) = 3 /\ r[1] = c /\ r[2] = d /\ r[3] = e
    BY <1>2, <1>3, <2>2
  <2>4. r = <<c, d, e>>
    <3>1. r \in Seq(T) /\ Len(r) = 3 /\ r[1] = c /\ r[2] = d /\ r[3] = e
      BY <2>2, <2>3
    <3>2. QED
      BY <3>1
  <2>5. QED
    BY <2>1, <2>4
<1>5. p \o q \o z = <<a, b, c, d, e>>
  <2>1. PICK s : s = p \o q
    OBVIOUS
  <2>2. /\ s \in Seq(T) /\ Len(s) = Len(p) + Len(q)
        /\ \A i \in 1..Len(p) : s[i] = p[i]
        /\ \A i \in 1..Len(q) : s[Len(p) + i] = q[i]
    BY <1>0, <2>1, Joins
  <2>3. Len(s) = 4 /\ s[1] = a /\ s[2] = b /\ s[3] = c /\ s[4] = d
    BY <1>2, <1>3, <2>2
  <2>4. PICK r : r = s \o z
    OBVIOUS
  <2>5. /\ r \in Seq(T) /\ Len(r) = Len(s) + Len(z)
        /\ \A i \in 1..Len(s) : r[i] = s[i]
        /\ \A i \in 1..Len(z) : r[Len(s) + i] = z[i]
    <3>1. s \in Seq(T) /\ z \in Seq(T)
      BY <1>2, <2>2
    <3>2. QED
      BY <2>4, <3>1, Joins
  <2>6. Len(r) = 5 /\ r[5] = e
    BY <1>2, <1>3, <2>3, <2>5
  <2>7. r[1] = a /\ r[2] = b /\ r[3] = c /\ r[4] = d
    <3>1. 1 \in 1..4 /\ 2 \in 1..4 /\ 3 \in 1..4 /\ 4 \in 1..4
      OBVIOUS
    <3>2. QED
      BY <2>3, <2>5, <3>1
  <2>8. r = <<a, b, c, d, e>>
    <3>1. /\ r \in Seq(T) /\ Len(r) = 5
          /\ r[1] = a /\ r[2] = b /\ r[3] = c /\ r[4] = d /\ r[5] = e
      BY <2>5, <2>6, <2>7
    <3>2. QED
      BY <3>1
  <2>9. QED
    BY <2>1, <2>4, <2>8
<1>6. <<>> \o <<>> = <<>> /\ <<>> \o z = z /\ <<>> \o q = q
  BY <1>2
<1>7. QED
  BY <1>1, <1>4, <1>5, <1>6
LEMMA PopSane ==
  ASSUME NEW w, Sane(w), NEW x, NEW d \in Places, Splices(x, w, 0, d) PROVE Sane(x)
<1>1. 1..0 = {} /\ 0 \in Nat
  OBVIOUS
<1>2. QED
  BY <1>1, SaneAfter

LEMMA PushSane ==
  ASSUME NEW w, Sane(w), NEW x, NEW n \in Nat, Splices(x, w, n, 1),
         \A i \in 1..n : Linked(x, i) /\ x[i][1] \notin {"exit", "close_end"} \cup Receiving
  PROVE  Sane(x)
<1>1. 1 \in Places
  BY DEF Places
<1>2. QED
  BY <1>1, SaneAfter

\* A word at whose top there is nothing but the end of the lock, with an exception or not.
LEMMA ExitStages ==
  ASSUME NEW x, Sane(x), NEW e \in Places, x[e][1] = "exit",
         \A i \in 1..(e - 1) : x[i][1] \notin Lifecycle,
         \/ x[1][1] = "raise" /\ x[2][1] = "exit"
         \/ x[e + 1][1] # "registry_stop"
         \/ ~running' /\ ~cleanup'
  PROVE  StartStage(x)' /\ StopStage(x)' /\ (Halts(x)' <=> ~running' /\ ~cleanup')
<1>1. /\ \A a \in Lifecycle : Has(x, a) <=> \E i \in 1..e : x[i][1] = a
      /\ Untold(x) => \E i \in 1..e : x[i][1] \in Reports /\ x[i][2] = FALSE
      /\ Returns(x) => x[e + 1][1] = "registry_stop"
  BY Upto
<1>2. \A i \in 1..e : i \in 1..(e - 1) \/ i = e
  BY DEF Places
<1>3. \A i \in 1..e : x[i][1] \in Lifecycle => x[i][1] = "exit"
  BY <1>2
<1>4. /\ ~Has(x, "start_end") /\ ~Has(x, "services_start") /\ ~Has(x, "router_run")
      /\ ~Has(x, "rolled") /\ ~Has(x, "report") /\ ~Has(x, "router_stopped")
  BY <1>1, <1>3 DEF Lifecycle
<1>5. ~Untold(x)
  BY <1>1, <1>3 DEF Lifecycle, Reports
<1>6. x[1][1] \notin {"registry_start", "start_end"}
  <2>1. 1 \in 1..e
    BY DEF Places
  <2>2. QED
    BY <1>3, <2>1 DEF Lifecycle
<1>7. StartStage(x)'
  BY <1>4, <1>6, NoStart
<1>8. StopStage(x)'
  BY <1>1, <1>4, <1>5, NoStop
<1>9. Halts(x)' <=> ~running' /\ ~cleanup'
  BY <1>4 DEF Halts
<1>10. QED
  BY <1>7, <1>8, <1>9

\* What is left of a call that nobody waits for any more.
LEMMA HaltsIs ==
  ASSUME ReleaseInv, NEW t \in Threads, NEW w, w = W(t), w[1][1] \in Lifecycle
  PROVE  Stopped <=> Halts(w)
<1>1. Has(w, w[1][1])
  BY DEF Has, Places
<1>2. t = owner
  BY <1>1 DEF ReleaseInv
<1>3. \A u \in Threads : u # t => ~Has(W(u), "start_end") /\ ~Has(W(u), "rolled")
  BY <1>2 DEF ReleaseInv, Lifecycle
<1>4. Starting <=> Has(w, "start_end") \/ Has(w, "rolled")
  BY <1>3 DEF Starting
<1>5. QED
  BY <1>4 DEF Stopped, Halts

\* The links of a word, place by place.
Binds(f, g, k) == Chain(f[1], g[1], k, FALSE) /\ Gate(f[1], g[1], k, FALSE) /\ Agrees(f, g[1])

LEMMA BindsAt ==
  ASSUME NEW x
  PROVE  /\ Binds(x[1], x[2], x[3][1]) => Linked(x, 1)
         /\ Binds(x[2], x[3], x[4][1]) => Linked(x, 2)
         /\ Binds(x[3], x[4], x[5][1]) => Linked(x, 3)
         /\ Binds(x[4], x[5], x[6][1]) => Linked(x, 4)
         /\ Binds(x[5], x[6], x[7][1]) => Linked(x, 5)
         /\ Binds(x[6], x[7], x[8][1]) => Linked(x, 6)
         /\ Binds(x[7], x[8], x[9][1]) => Linked(x, 7)
<1>1. Binds(x[1], x[2], x[3][1]) => Linked(x, 1)
  BY LinkedTop, Looser DEF Binds
<1>2. \A i, j, k \in Nat : i >= 2 /\ j = i + 1 /\ k = i + 2 /\ Binds(x[i], x[j], x[k][1]) => Linked(x, i)
  BY LinkedAt DEF Binds
<1>3. /\ 2 + 1 = 3 /\ 2 + 2 = 4 /\ 3 + 1 = 4 /\ 3 + 2 = 5 /\ 4 + 1 = 5 /\ 4 + 2 = 6 /\ 5 + 1 = 6
      /\ 5 + 2 = 7 /\ 6 + 1 = 7 /\ 6 + 2 = 8 /\ 7 + 1 = 8 /\ 7 + 2 = 9
      /\ \A i \in 2..9 : i \in Nat /\ i >= 2
      /\ \A i \in {2, 3, 4, 5, 6, 7, 8, 9} : i \in 2..9
  OBVIOUS
<1>4. QED
  BY <1>1, <1>2, <1>3

LEMMA StartEnds ==
  ASSUME WakeInv, ReleaseInv, NEW t \in Threads, StartEnd(t)
  PROVE  ReleaseInv'
<1>1. PICK w : w = W(t)
  OBVIOUS
<1>2. /\ todo[t] # <<>> /\ w[1][1] = "start_end" /\ w[1][2] = Arg(t)
      /\ Sane(w) /\ StartStage(w)
  BY <1>1, AtIs DEF StartEnd, ReleaseInv, Arg
<1>3. /\ w[2][1] = "exit" \/ (w[2][1] = "raise" /\ w[3][1] = "exit")
      /\ Arg(t) = (w[2][1] = "raise")
      /\ w[2][1] = "exit" => w[3][1] # "registry_stop"
  <2>1. /\ Chain(w[1][1], w[2][1], w[3][1], TRUE) /\ Gate(w[1][1], w[2][1], w[3][1], TRUE)
        /\ Agrees(w[1], w[2][1])
    BY <1>2, AtOne
  <2>2. QED
    BY <1>2, <2>1 DEF Chain, Gate, Agrees
<1>4. /\ UNCHANGED <<owner, closed, closing, thread, running, cleanup, started, dispatching>>
      /\ UNCHANGED <<link, reading, open, connected, stopWatch>>
  BY DEF StartEnd, routerVars, connection, registryVars, endpoints, runtimeVars, lifecycle
<1>5. w[1][1] \in Lifecycle \ {"exit"} /\ (\A i \in 2..1 : w[i][1] \in Marks) /\ 1 \in Places
  BY <1>2 DEF Lifecycle, Places
<1>6. Has(w, "start_end")
  BY <1>2, <1>5 DEF Has
<1>7. ~Halts(w) /\ ~cleanup
  BY <1>2, <1>6 DEF Halts, StartStage
<1>8. "dispatcher" \in started' => "client" \in started'
  BY <1>4 DEF ReleaseInv
<1>9. CASE w[2][1] = "exit"
  <2>1. PICK a, b, c, T, frames :
          /\ a = <<"user">> /\ b = <<"swallow">>
          /\ c = <<"registry_accept", <<Source(Greeting), TRUE, clock>>>>
          /\ T = {a, b, c} /\ frames = <<a, b, c>>
    OBVIOUS
  <2>2. Does(t, frames)
    BY <1>3, <1>9, <2>1 DEF StartEnd
  <2>3. /\ frames \in Seq(T) /\ frames # <<>> /\ 3 = Len(frames) /\ frames[1] = a
        /\ frames[2] = b /\ frames[3] = c
        /\ a[1] = "user" /\ b[1] = "swallow" /\ c[1] = "registry_accept"
        /\ frames[1][1] \notin Marks
    <3>1. a[1] = "user" /\ b[1] = "swallow" /\ c[1] = "registry_accept"
      BY <2>1
    <3>2. /\ frames \in Seq(T) /\ frames # <<>> /\ 3 = Len(frames)
          /\ frames[1] = a /\ frames[2] = b /\ frames[3] = c
      <4>1. T = {a, b, c} /\ frames = <<a, b, c>>
        BY <2>1
      <4>2. QED
        BY <4>1
    <3>3. QED
      BY <3>1, <3>2 DEF Marks
  <2>4. PICK x : x = Word(Becomes(t, frames))
    OBVIOUS
  <2>5. /\ Splices(x, w, 3, 1) /\ \A i \in 1..3 : x[i] = frames[i]
        /\ x[3 + 1] = w[2] /\ x[3 + 2] = w[3]
    BY <1>1, <1>2, <2>3, <2>4, PushList
  <2>6. /\ 1 \in 1..3 /\ 2 \in 1..3 /\ 3 \in 1..3 /\ 3 + 1 = 4 /\ 3 + 2 = 5
        /\ 2 + 1 = 3 /\ 2 + 2 = 4
        /\ \A i \in 1..3 : i = 1 \/ i = 2 \/ i = 3
    OBVIOUS
  <2>7. /\ x[1] = a /\ x[2] = b /\ x[3] = c /\ x[1][1] = "user" /\ x[2][1] = "swallow"
        /\ x[3][1] = "registry_accept" /\ x[4][1] = "exit" /\ x[5][1] = w[3][1]
    BY <1>9, <2>3, <2>5, <2>6
  <2>8. Linked(x, 1)
    BY <2>7, BindsAt DEF Binds, Chain, Gate, Agrees, Lifecycle, Reports
  <2>9. Linked(x, 2)
    BY <2>7, BindsAt DEF Binds, Chain, Gate, Agrees, Lifecycle, Reports
  <2>10. Linked(x, 3)
    BY <1>3, <1>9, <2>7, BindsAt DEF Binds, Chain, Gate, Agrees, Lifecycle, Reports
  <2>11. Sane(x)
    <3>1. \A i \in 1..3 : Linked(x, i) /\ x[i][1] \notin {"exit", "close_end"} \cup Receiving
      BY <2>6, <2>7, <2>8, <2>9, <2>10 DEF Receiving
    <3>2. QED
      BY <1>2, <2>5, <3>1, PushSane
  <2>12. running'
    BY <1>2, <1>4, <1>9 DEF StartStage
  <2>13. StartStage(x)' /\ StopStage(x)' /\ ~Halts(x)'
    <3>1. 4 \in Places /\ 4 - 1 = 3 /\ 4 + 1 = 5
      BY DEF Places
    <3>2. \A i \in 1..(4 - 1) : x[i][1] \notin Lifecycle
      BY <2>6, <2>7, <3>1 DEF Lifecycle
    <3>3. x[4][1] = "exit" /\ x[4 + 1][1] # "registry_stop"
      BY <1>3, <1>9, <2>7, <3>1
    <3>4. QED
      BY <2>11, <2>12, <3>1, <3>2, <3>3, ExitStages
  <2>14. \A i \in 1..3 : x[i][1] \notin {"closed", "close_end"}
    BY <2>6, <2>7
  <2>15. QED
    BY <1>1, <1>2, <1>4, <1>5, <1>7, <1>8, <2>2, <2>4, <2>5, <2>11, <2>13, <2>14, OwnerDoes
<1>10. CASE w[2][1] = "raise"
  <2>1. Final(w, 3)
    <3>1. 3 \in Places /\ 1 \in 1..(3 - 1) /\ \A i \in 1..(3 - 1) : i = 1 \/ i = 2
      BY DEF Places
    <3>2. QED
      BY <1>2, <1>3, <1>10, <3>1 DEF Final
  <2>2. ~Has(w, "services_start")
    BY <1>2, <2>1, LateWord
  <2>3. /\ Unwatched /\ (dispatching => "dispatcher" \in started)
        /\ Unconnected \/ "client" \in started
        /\ "dispatcher" \in started => "client" \in started
    BY <1>2, <1>6, <1>10, <2>2 DEF StartStage, ReleaseInv
  <2>4. PICK a, b, c, d, e :
          /\ a = <<"dispatcher_stop">> /\ b = <<"caught">> /\ c = <<"router_stop">>
          /\ d = <<"caught">> /\ e = <<"rolled", FALSE>>
    OBVIOUS
  <2>5. /\ a[1] = "dispatcher_stop" /\ b[1] = "caught" /\ c[1] = "router_stop" /\ d[1] = "caught"
        /\ e[1] = "rolled" /\ e[2] = FALSE
        /\ a[1] \notin Marks /\ c[1] \notin Marks /\ e[1] \notin Marks
    BY <2>4 DEF Marks
  <2>6. \/ "dispatcher" \in started /\ "client" \in started /\ Does(t, <<a, b, c, d, e>>)
        \/ "dispatcher" \notin started /\ "client" \in started /\ Does(t, <<c, d, e>>)
        \/ "dispatcher" \notin started /\ "client" \notin started /\ Does(t, <<e>>)
    <3>1. Does(t, (IF "dispatcher" \in started THEN <<a, b>> ELSE <<>>)
                  \o (IF "client" \in started THEN <<c, d>> ELSE <<>>) \o <<e>>)
      BY <1>3, <1>10, <2>4 DEF StartEnd
    <3>2. /\ "dispatcher" \in started /\ "client" \in started => Does(t, <<a, b>> \o <<c, d>> \o <<e>>)
          /\ "dispatcher" \notin started /\ "client" \in started => Does(t, <<>> \o <<c, d>> \o <<e>>)
          /\ "dispatcher" \notin started /\ "client" \notin started => Does(t, <<>> \o <<>> \o <<e>>)
      BY <3>1
    <3>3. /\ <<>> \o <<>> \o <<e>> = <<e>> /\ <<>> \o <<c, d>> \o <<e>> = <<c, d, e>>
          /\ <<a, b>> \o <<c, d>> \o <<e>> = <<a, b, c, d, e>>
      BY Togethers
    <3>4. QED
      BY <2>3, <3>2, <3>3
  <2>7. ASSUME NEW frames, Does(t, frames)
        PROVE  Unwatched' /\ (Unconnected => Unconnected')
    <3>1. (Idle(Reader) => Idle(Reader)') /\ (Idle(Monitor) => Idle(Monitor)')
      BY <1>2, <2>7, DoesOnly, RouterAssumption, RegistryAssumption
    <3>2. QED
      BY <1>4, <2>3, <3>1 DEF Unwatched, Unconnected
  <2>8. ASSUME NEW frames, Does(t, frames), NEW x, x = Word(Becomes(t, frames)),
               NEW r \in {1, 3, 5}, Splices(x, w, r, 1), \A i \in 1..r : Linked(x, i),
               x[r][1] = "rolled" /\ x[r][2] = FALSE, r = 1 => Unconnected,
               \A i \in 1..(r - 1) : x[i][1] \in {"dispatcher_stop", "caught", "router_stop"},
               r # 1 => \E i \in 1..(r - 1) : x[i][1] = "caught",
               dispatching => \E i \in 1..(r - 1) : x[i][1] = "dispatcher_stop"
        PROVE  ReleaseInv'
    <3>1. r \in Nat /\ r \in Places /\ \A i \in 1..r : i = r \/ i \in 1..(r - 1)
      BY DEF Places
    <3>2. \A i \in 1..r : x[i][1] \in {"dispatcher_stop", "caught", "router_stop", "rolled"}
      BY <2>8, <3>1
    <3>3. \A i \in 1..r : /\ Linked(x, i) /\ x[i][1] \notin {"exit", "close_end"} \cup Receiving
                          /\ x[i][1] \notin {"closed", "close_end"}
      BY <2>8, <3>2 DEF Receiving
    <3>4. Sane(x)
      BY <1>2, <2>8, <3>1, <3>3, PushSane
    <3>5. Ending(x, r)
      BY <2>8, <3>1 DEF Ending, EndNames, Reports
    <3>6. \A n \in {"dispatcher_stop", "caught", "router_stopped"} :
            Has(x, n) <=> \E i \in 1..(r - 1) : x[i][1] = n
      <4>1. /\ ~Has(x, "start_end") /\ ~Has(x, "services_start") /\ ~Has(x, "router_run")
            /\ Has(x, "rolled") <=> x[r][1] = "rolled"
            /\ Has(x, "report") <=> x[r][1] = "report"
            /\ Untold(x) <=> x[r][2] = FALSE
            /\ \A n \in {"dispatcher_stop", "caught", "router_stopped"} :
                 Has(x, n) <=> \E i \in 1..(r - 1) : x[i][1] = n
            /\ x[1][1] \notin {"registry_start", "start_end"}
        BY <3>4, <3>5, EndingWord
      <4>2. QED
        BY <4>1
    <3>7. ~Has(x, "router_stopped")
      BY <2>8, <3>6
    <3>8. /\ dispatching' => Has(x, "dispatcher_stop")
          /\ Unconnected' \/ Has(x, "caught")
          /\ Unwatched'
      BY <1>4, <2>7, <2>8, <3>6
    <3>9. StartStage(x)' /\ StopStage(x)' /\ ~Halts(x)'
      BY <1>4, <1>7, <2>8, <3>4, <3>5, <3>7, <3>8, EndingStages
    <3>10. QED
      BY <1>1, <1>2, <1>4, <1>5, <1>7, <1>8, <2>8, <3>1, <3>3, <3>4, <3>9, OwnerDoes
  <2>9. CASE /\ "dispatcher" \in started /\ "client" \in started
             /\ Does(t, <<a, b, c, d, e>>)
    <3>1. PICK frames, T : frames = <<a, b, c, d, e>> /\ T = {a, b, c, d, e}
      OBVIOUS
    <3>2. /\ frames \in Seq(T) /\ frames # <<>> /\ 5 = Len(frames)
          /\ frames[1] = a /\ frames[2] = b /\ frames[3] = c /\ frames[4] = d /\ frames[5] = e
      BY <3>1
    <3>3. PICK x : x = Word(Becomes(t, frames))
      OBVIOUS
    <3>4. /\ Splices(x, w, 5, 1) /\ \A i \in 1..5 : x[i] = frames[i]
          /\ x[5 + 1] = w[2] /\ x[5 + 2] = w[3]
      <4>1. /\ frames \in Seq(T) /\ frames # <<>> /\ frames[1][1] \notin Marks
            /\ todo[t] # <<>>
        BY <1>2, <2>5, <3>2
      <4>2. PICK n : n = 5
        OBVIOUS
      <4>3. n = Len(frames)
        BY <3>2, <4>2
      <4>4. /\ n \in Nat /\ Splices(x, w, n, 1) /\ \A i \in 1..n : x[i] = frames[i]
            /\ x[n + 1] = w[2] /\ x[n + 2] = w[3]
        BY <1>1, <3>3, <4>1, <4>3, PushList
      <4>5. QED
        BY <4>2, <4>4
    <3>5. /\ 1 \in 1..5 /\ 2 \in 1..5 /\ 3 \in 1..5 /\ 4 \in 1..5 /\ 5 \in 1..5
          /\ 5 + 1 = 6 /\ 5 + 2 = 7 /\ 2 + 1 = 3 /\ 2 + 2 = 4 /\ 3 + 1 = 4 /\ 3 + 2 = 5
          /\ 4 + 1 = 5 /\ 4 + 2 = 6
          /\ \A i \in 1..5 : i = 1 \/ i = 2 \/ i = 3 \/ i = 4 \/ i = 5
          /\ \A i \in 1..(5 - 1) : i = 1 \/ i = 2 \/ i = 3 \/ i = 4
          /\ 1 \in 1..(5 - 1) /\ 2 \in 1..(5 - 1)
      OBVIOUS
    <3>6. /\ x[1] = a /\ x[2] = b /\ x[3] = c /\ x[4] = d /\ x[5] = e
          /\ x[6][1] = "raise" /\ x[7][1] = "exit"
      BY <1>3, <1>10, <3>2, <3>4, <3>5
    <3>7. \A i \in 1..5 : Linked(x, i)
      <4>1. Linked(x, 1)
        BY <2>5, <3>6, EndGoes, BindsAt DEF Goes, Binds, Agrees, Reports
      <4>2. Linked(x, 2)
        BY <2>5, <3>6, EndGoes, BindsAt DEF Goes, Binds, Agrees, Reports
      <4>3. Linked(x, 3)
        BY <2>5, <3>6, EndGoes, BindsAt DEF Goes, Binds, Agrees, Reports
      <4>4. Linked(x, 4)
        BY <2>5, <3>6, EndGoes, BindsAt DEF Goes, Binds, Agrees, Reports
      <4>5. Linked(x, 5)
        BY <2>5, <3>6, EndGoes, BindsAt DEF Goes, Binds, Agrees, Reports
      <4>6. QED
        BY <3>5, <4>1, <4>2, <4>3, <4>4, <4>5
    <3>8. /\ x[5][1] = "rolled" /\ x[5][2] = FALSE
          /\ \A i \in 1..(5 - 1) : x[i][1] \in {"dispatcher_stop", "caught", "router_stop"}
          /\ \E i \in 1..(5 - 1) : x[i][1] = "caught"
          /\ \E i \in 1..(5 - 1) : x[i][1] = "dispatcher_stop"
      BY <2>5, <3>5, <3>6
    <3>9. Does(t, frames) /\ 5 \in {1, 3, 5} /\ 5 # 1
      BY <2>9, <3>1
    <3>10. QED
      BY <2>8, <3>3, <3>4, <3>7, <3>8, <3>9
  <2>10. CASE /\ "dispatcher" \notin started /\ "client" \in started
              /\ Does(t, <<c, d, e>>)
    <3>1. PICK frames, T : frames = <<c, d, e>> /\ T = {c, d, e}
      OBVIOUS
    <3>2. /\ frames \in Seq(T) /\ frames # <<>> /\ 3 = Len(frames)
          /\ frames[1] = c /\ frames[2] = d /\ frames[3] = e
      BY <3>1
    <3>3. PICK x : x = Word(Becomes(t, frames))
      OBVIOUS
    <3>4. /\ Splices(x, w, 3, 1) /\ \A i \in 1..3 : x[i] = frames[i]
          /\ x[3 + 1] = w[2] /\ x[3 + 2] = w[3]
      <4>1. /\ frames \in Seq(T) /\ frames # <<>> /\ frames[1][1] \notin Marks
            /\ todo[t] # <<>>
        BY <1>2, <2>5, <3>2
      <4>2. PICK n : n = 3
        OBVIOUS
      <4>3. n = Len(frames)
        BY <3>2, <4>2
      <4>4. /\ n \in Nat /\ Splices(x, w, n, 1) /\ \A i \in 1..n : x[i] = frames[i]
            /\ x[n + 1] = w[2] /\ x[n + 2] = w[3]
        BY <1>1, <3>3, <4>1, <4>3, PushList
      <4>5. QED
        BY <4>2, <4>4
    <3>5. /\ 1 \in 1..3 /\ 2 \in 1..3 /\ 3 \in 1..3
          /\ 3 + 1 = 4 /\ 3 + 2 = 5 /\ 2 + 1 = 3 /\ 2 + 2 = 4
          /\ \A i \in 1..3 : i = 1 \/ i = 2 \/ i = 3
          /\ \A i \in 1..(3 - 1) : i = 1 \/ i = 2
          /\ 2 \in 1..(3 - 1)
      OBVIOUS
    <3>6. /\ x[1] = c /\ x[2] = d /\ x[3] = e /\ x[4][1] = "raise" /\ x[5][1] = "exit"
      BY <1>3, <1>10, <3>2, <3>4, <3>5
    <3>7. \A i \in 1..3 : Linked(x, i)
      <4>1. Linked(x, 1)
        BY <2>5, <3>6, EndGoes, BindsAt DEF Goes, Binds, Agrees, Reports
      <4>2. Linked(x, 2)
        BY <2>5, <3>6, EndGoes, BindsAt DEF Goes, Binds, Agrees, Reports
      <4>3. Linked(x, 3)
        BY <2>5, <3>6, EndGoes, BindsAt DEF Goes, Binds, Agrees, Reports
      <4>4. QED
        BY <3>5, <4>1, <4>2, <4>3
    <3>8. /\ x[3][1] = "rolled" /\ x[3][2] = FALSE
          /\ \A i \in 1..(3 - 1) : x[i][1] \in {"dispatcher_stop", "caught", "router_stop"}
          /\ \E i \in 1..(3 - 1) : x[i][1] = "caught"
          /\ ~dispatching
      BY <2>3, <2>5, <2>10, <3>5, <3>6
    <3>9. Does(t, frames) /\ 3 \in {1, 3, 5} /\ 3 # 1
      BY <2>10, <3>1
    <3>10. QED
      BY <2>8, <3>3, <3>4, <3>7, <3>8, <3>9
  <2>11. CASE /\ "dispatcher" \notin started /\ "client" \notin started
              /\ Does(t, <<e>>)
    <3>1. PICK x : x = Word(Becomes(t, <<e>>))
      OBVIOUS
    <3>2. Splices(x, w, 1, 1) /\ x[1] = e /\ x[2] = w[2] /\ x[3] = w[3]
      BY <1>1, <1>2, <2>5, <3>1, PushOne
    <3>3. Linked(x, 1)
      BY <1>3, <1>10, <2>5, <3>2, EndGoes, BindsAt DEF Goes, Binds, Agrees, Reports
    <3>4. /\ \A i \in 1..1 : i = 1
          /\ \A i \in 1..(1 - 1) : FALSE
          /\ 1 \in {1, 3, 5}
      OBVIOUS
    <3>5. \A i \in 1..1 : Linked(x, i)
      BY <3>3, <3>4
    <3>6. x[1][1] = "rolled" /\ x[1][2] = FALSE /\ ~dispatching /\ Unconnected
      BY <2>3, <2>5, <2>11, <3>2
    <3>7. QED
      BY <2>8, <2>11, <3>1, <3>2, <3>4, <3>5, <3>6
  <2>12. QED
    BY <2>6, <2>9, <2>10, <2>11
<1>11. QED
  BY <1>3, <1>9, <1>10
-------------------------------------------------------------------------------
\* The ends of start() and of stop().

LEMMA StaysReleased ==
  ASSUME WakeInv, NEW t \in Threads, todo[t] # <<>>, NEW frames, Does(t, frames),
         UNCHANGED <<link, reading, open, connected, stopWatch>>
  PROVE  (Unwatched => Unwatched') /\ (Unconnected => Unconnected') /\ (Idle(Reader) => Idle(Reader)')
<1>1. (Idle(Reader) => Idle(Reader)') /\ (Idle(Monitor) => Idle(Monitor)')
  BY DoesOnly, RouterAssumption, RegistryAssumption
<1>2. QED
  BY <1>1 DEF Unwatched, Unconnected

\* A step that ends what has been done with the lifecycle lock.
LEMMA ExitGoes ==
  ASSUME WakeInv, ReleaseInv, NEW t \in Threads, todo[t] # <<>>, NEW frames, Does(t, frames),
         NEW w, w = W(t), w[1][1] \in Lifecycle \ {"exit"}, NEW x, x = Word(Becomes(t, frames)),
         NEW n \in Nat, Splices(x, w, n, 1), Sane(x),
         \A i \in 1..n : x[i][1] \notin {"closed", "close_end"},
         NEW e \in Places, x[e][1] = "exit", \A i \in 1..(e - 1) : x[i][1] \notin Lifecycle,
         \/ x[1][1] = "raise" /\ x[2][1] = "exit"
         \/ x[e + 1][1] # "registry_stop"
         \/ ~running' /\ ~cleanup',
         UNCHANGED <<owner, closed, closing, thread, started>>,
         Halts(w) => ~running' /\ ~cleanup',
         ~running' /\ ~cleanup' => Unconnected' /\ Unwatched' /\ ~dispatching'
  PROVE  ReleaseInv'
<1>1. StartStage(x)' /\ StopStage(x)' /\ (Halts(x)' <=> ~running' /\ ~cleanup')
  BY ExitStages
<1>2. 1 \in Places /\ \A i \in 2..1 : w[i][1] \in Marks
  BY DEF Places
<1>3. "dispatcher" \in started' => "client" \in started'
  BY DEF ReleaseInv
<1>4. /\ Halts(w) /\ (closed \/ closing) => Halts(x)'
      /\ Halts(x)' => Unconnected' /\ Unwatched' /\ ~dispatching'
  BY <1>1
<1>5. UNCHANGED <<owner, closed, closing, thread>>
  OBVIOUS
<1>6. QED
  BY <1>1, <1>2, <1>3, <1>4, <1>5, OwnerDoes

\* It raises.
LEMMA ExitRaises ==
  ASSUME WakeInv, ReleaseInv, NEW t \in Threads, todo[t] # <<>>, Raises(t),
         NEW w, w = W(t), w[1][1] \in Lifecycle \ {"exit"}, w[2][1] = "exit",
         UNCHANGED <<owner, closed, closing, thread, started>>,
         Halts(w) => ~running' /\ ~cleanup',
         ~running' /\ ~cleanup' => Unconnected' /\ Unwatched' /\ ~dispatching'
  PROVE  ReleaseInv'
<1>1. PICK f, x : f = <<"raise">> /\ x = Word(Becomes(t, <<f>>))
  OBVIOUS
<1>2. Does(t, <<f>>) /\ f[1] = "raise" /\ f[1] \notin Marks
  BY <1>1 DEF Raises, Marks
<1>3. Splices(x, w, 1, 1) /\ x[1] = f /\ x[2] = w[2] /\ x[3] = w[3]
  BY <1>1, <1>2, PushOne
<1>4. x[1][1] = "raise" /\ x[2][1] = "exit"
  BY <1>2, <1>3
<1>5. Linked(x, 1)
  BY <1>4, BindsAt DEF Binds, Chain, Gate, Agrees, Lifecycle, Reports, Finally
<1>6. Sane(w)
  BY DEF ReleaseInv
<1>7. 1 \in Nat /\ 2 \in Places /\ (\A i \in 1..1 : i = 1) /\ \A i \in 1..(2 - 1) : i = 1
  BY DEF Places
<1>8. /\ \A i \in 1..1 : Linked(x, i) /\ x[i][1] \notin {"exit", "close_end"} \cup Receiving
      /\ \A i \in 1..1 : x[i][1] \notin {"closed", "close_end"}
      /\ \A i \in 1..(2 - 1) : x[i][1] \notin Lifecycle
  BY <1>4, <1>5, <1>7 DEF Receiving, Lifecycle
<1>9. Sane(x)
  BY <1>3, <1>6, <1>7, <1>8, PushSane
<1>10. QED
  BY <1>1, <1>2, <1>3, <1>4, <1>7, <1>8, <1>9, ExitGoes

\* It returns: nothing is above the end of the lock.
LEMMA ExitPops ==
  ASSUME WakeInv, ReleaseInv, NEW t \in Threads, todo[t] # <<>>, Does(t, <<>>),
         NEW w, w = W(t), w[1][1] \in Lifecycle \ {"exit"},
         \/ w[2][1] = "exit" /\ (w[3][1] # "registry_stop" \/ (~running' /\ ~cleanup'))
         \/ w[2][1] = "raise" /\ w[3][1] = "exit",
         UNCHANGED <<owner, closed, closing, thread, started>>,
         Halts(w) => ~running' /\ ~cleanup',
         ~running' /\ ~cleanup' => Unconnected' /\ Unwatched' /\ ~dispatching'
  PROVE  ReleaseInv'
<1>1. PICK x : x = Word(Becomes(t, <<>>))
  OBVIOUS
<1>2. w[2][1] \notin Marks /\ Sane(w)
  BY DEF Marks, ReleaseInv
<1>3. Splices(x, w, 0, 1) /\ x[1] = w[2] /\ x[2] = w[3]
  BY <1>1, <1>2, PopOne
<1>4. /\ 1 \in Places /\ 2 \in Places /\ 0 \in Nat /\ 1..0 = {} /\ 1 + 1 = 2
      /\ (\A i \in 1..(1 - 1) : FALSE) /\ \A i \in 1..(2 - 1) : i = 1
  BY DEF Places
<1>5. Sane(x)
  BY <1>2, <1>3, <1>4, PopSane
<1>6. \A i \in 1..0 : x[i][1] \notin {"closed", "close_end"}
  BY <1>4
<1>7. CASE w[2][1] = "exit"
  <2>1. x[1][1] = "exit" /\ (x[1 + 1][1] # "registry_stop" \/ (~running' /\ ~cleanup'))
    BY <1>3, <1>4, <1>7
  <2>2. \A i \in 1..(1 - 1) : x[i][1] \notin Lifecycle
    BY <1>4
  <2>3. QED
    BY <1>1, <1>3, <1>4, <1>5, <1>6, <2>1, <2>2, ExitGoes
<1>8. CASE w[2][1] = "raise" /\ w[3][1] = "exit"
  <2>1. x[1][1] = "raise" /\ x[2][1] = "exit"
    BY <1>3, <1>8
  <2>2. \A i \in 1..(2 - 1) : x[i][1] \notin Lifecycle
    BY <1>4, <2>1 DEF Lifecycle
  <2>3. QED
    BY <1>1, <1>3, <1>4, <1>5, <1>6, <2>1, <2>2, ExitGoes
<1>9. QED
  BY <1>7, <1>8

LEMMA ReportWord ==
  ASSUME NEW w, Sane(w), w[1][1] \in Reports
  PROVE  /\ Has(w, "rolled") <=> w[1][1] = "rolled"
         /\ Has(w, "report") <=> w[1][1] = "report"
         /\ Untold(w) <=> w[1][2] = FALSE
         /\ ~Has(w, "dispatcher_stop") /\ ~Has(w, "caught")
<1>1. PICK r : r = 1
  OBVIOUS
<1>2. Ending(w, r)
  <2>1. 1 \in Places /\ \A i \in 1..(1 - 1) : FALSE
    BY DEF Places
  <2>2. QED
    BY <1>1, <2>1 DEF Ending
<1>3. /\ ~Has(w, "start_end") /\ ~Has(w, "services_start") /\ ~Has(w, "router_run")
      /\ Has(w, "rolled") <=> w[r][1] = "rolled"
      /\ Has(w, "report") <=> w[r][1] = "report"
      /\ Untold(w) <=> w[r][2] = FALSE
      /\ \A a \in {"dispatcher_stop", "caught", "router_stopped"} :
           Has(w, a) <=> \E i \in 1..(r - 1) : w[i][1] = a
      /\ w[1][1] \notin {"registry_start", "start_end"}
  BY <1>2, EndingWord
<1>4. \A i \in 1..(r - 1) : FALSE
  BY <1>1
<1>5. QED
  BY <1>1, <1>3, <1>4

\* What a report that has not been told of an exception knows.
LEMMA ReportSays ==
  ASSUME ReleaseInv, NEW t \in Threads, NEW w, w = W(t), w[1][1] \in Reports
  PROVE  /\ w[1][2] \in BOOLEAN /\ ~Halts(w)
         /\ w[1][2] = FALSE => Unconnected /\ Unwatched /\ ~dispatching
         /\ w[1][1] = "rolled" => w[2][1] = "raise" /\ w[3][1] = "exit"
         /\ w[1][1] = "report" => w[2][1] = "exit" /\ ~running /\ cleanup
<1>1. Sane(w) /\ StopStage(w)
  BY DEF ReleaseInv
<1>2. Chain(w[1][1], w[2][1], w[3][1], TRUE) /\ Agrees(w[1], w[2][1])
  BY <1>1, AtOne
<1>3. /\ Has(w, "rolled") <=> w[1][1] = "rolled"
      /\ Has(w, "report") <=> w[1][1] = "report"
      /\ Untold(w) <=> w[1][2] = FALSE
      /\ ~Has(w, "dispatcher_stop") /\ ~Has(w, "caught")
  BY <1>1, ReportWord
<1>4. ~Halting(w)
  BY DEF Halting, Reports
<1>5. w[1][2] = FALSE => Unconnected /\ Unwatched /\ ~dispatching
  BY <1>1, <1>3, <1>4 DEF StopStage
<1>6. /\ w[1][1] = "rolled" => w[2][1] = "raise" /\ w[3][1] = "exit"
      /\ w[1][1] = "report" => w[2][1] = "exit" /\ ~running /\ cleanup
  BY <1>1, <1>2, <1>3 DEF Chain, StopStage
<1>7. ~Halts(w)
  BY <1>3, <1>6 DEF Halts, Reports
<1>8. w[1][2] \in BOOLEAN
  BY <1>2 DEF Agrees
<1>9. QED
  BY <1>5, <1>6, <1>7, <1>8

LEMMA RolledReleases ==
  ASSUME WakeInv, ReleaseInv, NEW t \in Threads, Rolled(t)
  PROVE  ReleaseInv'
<1>1. PICK w : w = W(t)
  OBVIOUS
<1>2. todo[t] # <<>> /\ w[1][1] = "rolled" /\ w[1][2] = Arg(t)
  BY <1>1, AtIs DEF Rolled, Arg
<1>3. /\ w[1][2] \in BOOLEAN /\ ~Halts(w)
      /\ w[1][2] = FALSE => Unconnected /\ Unwatched /\ ~dispatching
      /\ w[2][1] = "raise" /\ w[3][1] = "exit"
  BY <1>1, <1>2, ReportSays DEF Reports
<1>4. /\ UNCHANGED <<owner, closed, closing, thread, started>> /\ dispatching' = dispatching
      /\ UNCHANGED <<link, reading, open, connected, stopWatch>>
      /\ cleanup' = Arg(t) /\ Does(t, <<>>)
  BY DEF Rolled, routerVars, connection, registryVars, endpoints
<1>5. ~running' /\ ~cleanup' => Unconnected' /\ Unwatched' /\ ~dispatching'
  BY <1>2, <1>3, <1>4, StaysReleased
<1>6. w[1][1] \in Lifecycle \ {"exit"}
  BY <1>2 DEF Lifecycle
<1>7. QED
  BY <1>1, <1>2, <1>3, <1>4, <1>5, <1>6, ExitPops

LEMMA ReportReleases ==
  ASSUME WakeInv, ReleaseInv, NEW t \in Threads, Report(t)
  PROVE  ReleaseInv'
<1>1. PICK w : w = W(t)
  OBVIOUS
<1>2. todo[t] # <<>> /\ w[1][1] = "report" /\ w[1][2] = Arg(t)
  BY <1>1, AtIs DEF Report, Arg
<1>3. /\ w[1][2] \in BOOLEAN /\ ~Halts(w)
      /\ w[1][2] = FALSE => Unconnected /\ Unwatched /\ ~dispatching
      /\ w[2][1] = "exit" /\ ~running /\ cleanup
  BY <1>1, <1>2, ReportSays DEF Reports
<1>4. /\ UNCHANGED <<owner, closed, closing, thread, started>> /\ dispatching' = dispatching
      /\ UNCHANGED <<link, reading, open, connected, stopWatch>>
      /\ cleanup' = Arg(t) /\ running' = running
  BY DEF Report, routerVars, connection, registryVars, endpoints
<1>5. w[1][1] \in Lifecycle \ {"exit"}
  BY <1>2 DEF Lifecycle
<1>6. CASE Arg(t)
  <2>1. Raises(t) /\ cleanup'
    BY <1>2, <1>3, <1>4, <1>6 DEF Report
  <2>2. QED
    BY <1>1, <1>2, <1>3, <1>4, <1>5, <2>1, ExitRaises
<1>7. CASE ~Arg(t)
  <2>1. PICK f, g : f = <<"user">> /\ g = <<"swallow">>
    OBVIOUS
  <2>2. PICK x : x = Word(Becomes(t, <<f, g>>))
    OBVIOUS
  <2>3. /\ Does(t, <<f, g>>) /\ ~running' /\ ~cleanup'
        /\ f[1] = "user" /\ g[1] = "swallow" /\ f[1] \notin Marks
    BY <1>3, <1>4, <1>7, <2>1 DEF Report, Marks
  <2>4. Splices(x, w, 2, 1) /\ x[1] = f /\ x[2] = g /\ x[3] = w[2] /\ x[4] = w[3]
    BY <1>1, <1>2, <2>2, <2>3, PushTwo
  <2>5. x[1][1] = "user" /\ x[2][1] = "swallow" /\ x[3][1] = "exit"
    BY <1>3, <2>3, <2>4
  <2>6. Linked(x, 1) /\ Linked(x, 2)
    BY <2>5, BindsAt DEF Binds, Chain, Gate, Agrees, Lifecycle, Reports
  <2>7. Sane(w)
    BY <1>1 DEF ReleaseInv
  <2>8. /\ 2 \in Nat /\ 3 \in Places /\ (\A i \in 1..2 : i = 1 \/ i = 2)
        /\ \A i \in 1..(3 - 1) : i = 1 \/ i = 2
    BY DEF Places
  <2>9. /\ \A i \in 1..2 : Linked(x, i) /\ x[i][1] \notin {"exit", "close_end"} \cup Receiving
        /\ \A i \in 1..2 : x[i][1] \notin {"closed", "close_end"}
        /\ \A i \in 1..(3 - 1) : x[i][1] \notin Lifecycle
    BY <2>5, <2>6, <2>8 DEF Receiving, Lifecycle
  <2>10. Sane(x)
    BY <2>4, <2>7, <2>8, <2>9, PushSane
  <2>11. Unconnected /\ Unwatched /\ ~dispatching
    BY <1>2, <1>3, <1>7
  <2>12. Unconnected' /\ Unwatched' /\ ~dispatching'
    BY <1>2, <1>4, <2>3, <2>11, StaysReleased
  <2>13. QED
    BY <1>1, <1>2, <1>3, <1>4, <1>5, <2>2, <2>3, <2>4, <2>5, <2>8, <2>9, <2>10, <2>12, ExitGoes
<1>8. QED
  BY <1>6, <1>7
-------------------------------------------------------------------------------
\* The beginnings of start() and of stop().

LEMMA EdgeWord ==
  ASSUME NEW w, Sane(w), w[1][1] \in {"start", "stop"}
  PROVE  /\ w[2][1] = "exit" /\ (w[1][1] = "start" => w[3][1] # "registry_stop")
         /\ ~Has(w, "start_end") /\ ~Has(w, "rolled")
<1>1. w[2][1] = "exit" /\ (w[1][1] = "start" => w[3][1] # "registry_stop")
  <2>1. Chain(w[1][1], w[2][1], w[3][1], TRUE) /\ Gate(w[1][1], w[2][1], w[3][1], TRUE)
    BY AtOne
  <2>2. w[2][1] = "exit"
    BY <2>1 DEF Chain
  <2>3. QED
    BY <2>1, <2>2 DEF Gate
<1>2. PICK e \in Places : e = 2
  BY DEF Places
<1>3. w[e][1] = "exit" /\ \A i \in 1..e : i = 1 \/ i = 2
  BY <1>1, <1>2
<1>4. /\ \A a \in Lifecycle : Has(w, a) <=> \E i \in 1..e : w[i][1] = a
      /\ Untold(w) => \E i \in 1..e : w[i][1] \in Reports /\ w[i][2] = FALSE
      /\ Returns(w) => w[e + 1][1] = "registry_stop"
  BY <1>3, Upto
<1>5. ~Has(w, "start_end") /\ ~Has(w, "rolled")
  BY <1>1, <1>3, <1>4 DEF Lifecycle
<1>6. QED
  BY <1>1, <1>5

LEMMA EdgeSays ==
  ASSUME ReleaseInv, NEW t \in Threads, NEW w, w = W(t), w[1][1] \in {"start", "stop"}
  PROVE  /\ w[2][1] = "exit" /\ Sane(w)
         /\ w[1][1] = "start" => w[3][1] # "registry_stop"
         /\ Halts(w) <=> ~running /\ ~cleanup
         /\ ~running /\ ~cleanup => Unconnected /\ Unwatched /\ ~dispatching
<1>1. Sane(w)
  BY DEF ReleaseInv
<1>2. /\ w[2][1] = "exit" /\ (w[1][1] = "start" => w[3][1] # "registry_stop")
      /\ ~Has(w, "start_end") /\ ~Has(w, "rolled")
  BY <1>1, EdgeWord
<1>3. Halts(w) <=> ~running /\ ~cleanup
  BY <1>2 DEF Halts
<1>4. w[1][1] \in Lifecycle
  BY DEF Lifecycle
<1>5. Stopped <=> Halts(w)
  BY <1>4, HaltsIs
<1>6. ~running /\ ~cleanup => Unconnected /\ Unwatched /\ ~dispatching
  BY <1>3, <1>5 DEF ReleaseInv
<1>7. QED
  BY <1>1, <1>2, <1>3, <1>6

LEMMA StartReleases ==
  ASSUME WakeInv, ReleaseInv, NEW t \in Threads, Start(t)
  PROVE  ReleaseInv'
<1>1. PICK w : w = W(t)
  OBVIOUS
<1>2. todo[t] # <<>> /\ w[1][1] = "start" /\ w[1][1] \in Lifecycle \ {"exit"}
  BY <1>1, AtIs DEF Start, Lifecycle
<1>3. /\ w[2][1] = "exit" /\ Sane(w) /\ w[3][1] # "registry_stop"
      /\ Halts(w) <=> ~running /\ ~cleanup
      /\ ~running /\ ~cleanup => Unconnected /\ Unwatched /\ ~dispatching
  BY <1>1, <1>2, EdgeSays
<1>4. /\ UNCHANGED <<owner, closed, closing, thread, running, cleanup, dispatching>>
      /\ UNCHANGED <<link, reading, open, connected, stopWatch>>
  BY DEF Start, routerVars, connection, registryVars, endpoints
<1>5. ASSUME NEW frames, Does(t, frames)
      PROVE  ~running' /\ ~cleanup' => Unconnected' /\ Unwatched' /\ ~dispatching'
  BY <1>2, <1>3, <1>4, <1>5, StaysReleased
<1>6. CASE closed \/ closing \/ cleanup
  <2>1. Raises(t) /\ started' = started
    BY <1>6 DEF Start
  <2>2. ~running' /\ ~cleanup' => Unconnected' /\ Unwatched' /\ ~dispatching'
    BY <1>5, <2>1 DEF Raises
  <2>3. UNCHANGED <<owner, closed, closing, thread, started>> /\ (Halts(w) => ~running' /\ ~cleanup')
    BY <1>3, <1>4, <2>1
  <2>4. QED
    BY <1>1, <1>2, <1>3, <2>1, <2>2, <2>3, ExitRaises
<1>7. CASE ~(closed \/ closing \/ cleanup) /\ running
  <2>1. Does(t, <<>>) /\ started' = started
    BY <1>7 DEF Start
  <2>2. ~running' /\ ~cleanup' => Unconnected' /\ Unwatched' /\ ~dispatching'
    BY <1>5, <2>1
  <2>3. UNCHANGED <<owner, closed, closing, thread, started>> /\ (Halts(w) => ~running' /\ ~cleanup')
    BY <1>3, <1>4, <2>1
  <2>4. QED
    BY <1>1, <1>2, <1>3, <2>1, <2>2, <2>3, ExitPops
<1>8. CASE ~(closed \/ closing \/ cleanup) /\ ~running
  <2>1. PICK a, b, c, d, T, frames :
          /\ a = <<"router_start">> /\ b = <<"services_start">> /\ c = <<"registry_start">>
          /\ d = <<"start_end", FALSE>> /\ T = {a, b, c, d} /\ frames = <<a, b, c, d>>
    OBVIOUS
  <2>2. Does(t, frames) /\ started' = {}
    BY <1>8, <2>1 DEF Start
  <2>3. /\ a[1] = "router_start" /\ b[1] = "services_start" /\ c[1] = "registry_start"
        /\ d[1] = "start_end" /\ d[2] = FALSE
    BY <2>1
  <2>4. /\ frames \in Seq(T) /\ frames # <<>> /\ 4 = Len(frames)
        /\ frames[1] = a /\ frames[2] = b /\ frames[3] = c /\ frames[4] = d
    <3>1. T = {a, b, c, d} /\ frames = <<a, b, c, d>>
      BY <2>1
    <3>2. QED
      BY <3>1
  <2>5. PICK x, n : x = Word(Becomes(t, frames)) /\ n = 4
    OBVIOUS
  <2>6. /\ frames[1][1] \notin Marks /\ n = Len(frames) /\ frames \in Seq(T) /\ frames # <<>>
        /\ todo[t] # <<>> /\ w = W(t) /\ x = Word(Becomes(t, frames))
    BY <1>1, <1>2, <2>3, <2>4, <2>5 DEF Marks
  <2>7. /\ n \in Nat /\ Splices(x, w, n, 1) /\ \A i \in 1..n : x[i] = frames[i]
        /\ x[n + 1] = w[2] /\ x[n + 2] = w[3]
    BY <2>6, PushList
  <2>8. /\ 1 \in 1..4 /\ 2 \in 1..4 /\ 3 \in 1..4 /\ 4 \in 1..4 /\ 4 + 1 = 5 /\ 4 + 2 = 6
        /\ \A i \in 1..4 : i = 1 \/ i = 2 \/ i = 3 \/ i = 4
        /\ \A i \in 1..(2 - 1) : i = 1
        /\ 2 \in Places
    BY DEF Places
  <2>9. x[1] = a /\ x[2] = b /\ x[3] = c /\ x[4] = d /\ x[5][1] = "exit" /\ x[6] = w[3]
    BY <1>3, <2>4, <2>5, <2>7, <2>8
  <2>10. Linked(x, 1)
    BY <2>3, <2>9, BindsAt, LinkedTop DEF Chain, Gate, Agrees, Lifecycle, Reports
  <2>11. Linked(x, 2) /\ Linked(x, 3)
    BY <2>3, <2>9, BindsAt DEF Binds, Chain, Gate, Agrees, Lifecycle, Reports
  <2>12. Linked(x, 4)
    BY <1>3, <2>3, <2>9, BindsAt DEF Binds, Chain, Gate, Agrees, Lifecycle, Reports
  <2>13. /\ \A i \in 1..n : Linked(x, i) /\ x[i][1] \notin {"exit", "close_end"} \cup Receiving
         /\ \A i \in 1..n : x[i][1] \notin {"closed", "close_end"}
    BY <2>3, <2>5, <2>8, <2>9, <2>10, <2>11, <2>12 DEF Receiving
  <2>14. Sane(x)
    BY <1>3, <2>7, <2>13, PushSane
  <2>15. /\ x[2][1] = "services_start" /\ x[1][1] = "router_start"
         /\ \A j \in 1..(2 - 1) : x[j][1] \in StartNames
         /\ (\E j \in 1..(2 - 1) : x[j][1] = "router_run") => Idle(Reader)'
    BY <2>3, <2>8, <2>9 DEF StartNames
  <2>16. ~cleanup' /\ ~running' /\ Unconnected' /\ Unwatched' /\ ~dispatching'
    BY <1>4, <1>5, <1>8, <2>2
  <2>17. StartStage(x)' /\ StopStage(x)' /\ ~Halts(x)'
    BY <2>2, <2>8, <2>14, <2>15, <2>16, StartingStages
  <2>18. 1 \in Places /\ (\A i \in 2..1 : w[i][1] \in Marks) /\ "dispatcher" \notin started'
    BY <2>2 DEF Places
  <2>19. UNCHANGED <<owner, closed, closing, thread>> /\ ~(closed \/ closing)
    BY <1>4, <1>8
  <2>20. QED
    BY <1>1, <1>2, <2>2, <2>5, <2>7, <2>13, <2>14, <2>17, <2>18, <2>19, OwnerDoes
<1>9. QED
  BY <1>6, <1>7, <1>8

LEMMA StopReleases ==
  ASSUME WakeInv, ReleaseInv, NEW t \in Threads, Stop(t)
  PROVE  ReleaseInv'
<1>1. PICK w : w = W(t)
  OBVIOUS
<1>2. todo[t] # <<>> /\ w[1][1] = "stop" /\ w[1][1] \in Lifecycle \ {"exit"}
  BY <1>1, AtIs DEF Stop, Lifecycle
<1>3. /\ w[2][1] = "exit" /\ Sane(w)
      /\ Halts(w) <=> ~running /\ ~cleanup
      /\ ~running /\ ~cleanup => Unconnected /\ Unwatched /\ ~dispatching
  BY <1>1, <1>2, EdgeSays
<1>4. /\ UNCHANGED <<owner, closed, closing, thread, started>> /\ dispatching' = dispatching
      /\ UNCHANGED <<link, reading, open, connected, stopWatch>>
  BY DEF Stop, routerVars, connection, registryVars, endpoints
<1>5. CASE ~running /\ ~cleanup
  <2>1. Does(t, <<>>) /\ ~running' /\ ~cleanup'
    BY <1>5 DEF Stop
  <2>2. Unconnected' /\ Unwatched' /\ ~dispatching'
    BY <1>2, <1>3, <1>4, <1>5, <2>1, StaysReleased
  <2>3. QED
    BY <1>1, <1>2, <1>3, <1>4, <2>1, <2>2, ExitPops
<1>6. CASE ~(~running /\ ~cleanup)
  <2>1. PICK a, b, c, d, e, T, frames :
          /\ a = <<"registry_stop">> /\ b = <<"caught">> /\ c = <<"dispatcher_stop">>
          /\ d = <<"router_stop">> /\ e = <<"report", FALSE>>
          /\ T = {a, b, c, d, e} /\ frames = <<a, b, c, b, d, b, e>>
    OBVIOUS
  <2>2. Does(t, frames) /\ ~running' /\ cleanup'
    BY <1>6, <2>1 DEF Stop
  <2>3. /\ a[1] = "registry_stop" /\ b[1] = "caught" /\ c[1] = "dispatcher_stop"
        /\ d[1] = "router_stop" /\ e[1] = "report" /\ e[2] = FALSE
    BY <2>1
  <2>4. /\ frames \in Seq(T) /\ frames # <<>> /\ 7 = Len(frames)
        /\ frames[1] = a /\ frames[2] = b /\ frames[3] = c /\ frames[4] = b
        /\ frames[5] = d /\ frames[6] = b /\ frames[7] = e
    <3>1. T = {a, b, c, d, e} /\ frames = <<a, b, c, b, d, b, e>>
      BY <2>1
    <3>2. QED
      BY <3>1
  <2>5. PICK x, n : x = Word(Becomes(t, frames)) /\ n = 7
    OBVIOUS
  <2>6. /\ frames[1][1] \notin Marks /\ n = Len(frames) /\ frames \in Seq(T) /\ frames # <<>>
        /\ todo[t] # <<>> /\ w = W(t) /\ x = Word(Becomes(t, frames))
    BY <1>1, <1>2, <2>3, <2>4, <2>5 DEF Marks
  <2>7. /\ n \in Nat /\ Splices(x, w, n, 1) /\ \A i \in 1..n : x[i] = frames[i]
        /\ x[n + 1] = w[2] /\ x[n + 2] = w[3]
    BY <2>6, PushList
  <2>8. /\ 1 \in 1..7 /\ 2 \in 1..7 /\ 3 \in 1..7 /\ 4 \in 1..7 /\ 5 \in 1..7 /\ 6 \in 1..7
        /\ 7 \in 1..7 /\ 7 + 1 = 8 /\ 7 + 2 = 9
        /\ \A i \in 1..7 : i = 1 \/ i = 2 \/ i = 3 \/ i = 4 \/ i = 5 \/ i = 6 \/ i = 7
        /\ \A i \in 1..(7 - 1) : i = 1 \/ i = 2 \/ i = 3 \/ i = 4 \/ i = 5 \/ i = 6
        /\ 7 \in Places
    BY DEF Places
  <2>9. /\ x[1] = a /\ x[2] = b /\ x[3] = c /\ x[4] = b /\ x[5] = d /\ x[6] = b /\ x[7] = e
        /\ x[8][1] = "exit"
    <3>1. \A i \in 1..7 : x[i] = frames[i]
      BY <2>5, <2>7
    <3>2. x[7 + 1] = w[2]
      BY <2>5, <2>7
    <3>3. QED
      BY <1>3, <2>4, <2>8, <3>1, <3>2
  <2>10. Linked(x, 1)
    <3>1. /\ Chain("registry_stop", "caught", "dispatcher_stop", TRUE)
          /\ Gate("registry_stop", "caught", "dispatcher_stop", TRUE)
      BY DEF Chain, Gate, Lifecycle, Reports
    <3>2. x[1][1] = "registry_stop" /\ x[2][1] = "caught" /\ x[3][1] = "dispatcher_stop"
      BY <2>3, <2>9
    <3>3. Agrees(x[1], x[2][1])
      BY <3>2 DEF Agrees, Reports
    <3>4. QED
      BY <3>1, <3>2, <3>3, LinkedTop
  <2>11. Linked(x, 2) /\ Linked(x, 3) /\ Linked(x, 4)
    BY <2>3, <2>9, EndGoes, BindsAt DEF Goes, Binds, Agrees, Reports
  <2>12. Linked(x, 5) /\ Linked(x, 6) /\ Linked(x, 7)
    BY <2>3, <2>9, EndGoes, BindsAt DEF Goes, Binds, Agrees, Reports
  <2>13. /\ x[1][1] = "registry_stop" /\ x[2][1] = "caught" /\ x[3][1] = "dispatcher_stop"
         /\ x[4][1] = "caught" /\ x[5][1] = "router_stop" /\ x[6][1] = "caught"
         /\ x[7][1] = "report" /\ x[7][2] = FALSE
    BY <2>3, <2>9
  <2>14. \A i \in 1..n : Linked(x, i) /\ x[i][1] \in EndNames \cup {"report"}
    BY <2>5, <2>8, <2>10, <2>11, <2>12, <2>13 DEF EndNames
  <2>15. /\ \A i \in 1..n : Linked(x, i) /\ x[i][1] \notin {"exit", "close_end"} \cup Receiving
         /\ \A i \in 1..n : x[i][1] \notin {"closed", "close_end"}
    BY <2>14 DEF Receiving, EndNames
  <2>16. Sane(x)
    BY <1>3, <2>7, <2>15, PushSane
  <2>17. Ending(x, 7)
    BY <2>8, <2>13 DEF Ending, EndNames, Reports
  <2>18. /\ ~Has(x, "router_stopped") /\ Has(x, "caught") /\ Has(x, "dispatcher_stop")
    <3>1. /\ ~Has(x, "start_end") /\ ~Has(x, "services_start") /\ ~Has(x, "router_run")
          /\ Has(x, "rolled") <=> x[7][1] = "rolled"
          /\ Has(x, "report") <=> x[7][1] = "report"
          /\ Untold(x) <=> x[7][2] = FALSE
          /\ \A z \in {"dispatcher_stop", "caught", "router_stopped"} :
               Has(x, z) <=> \E i \in 1..(7 - 1) : x[i][1] = z
          /\ x[1][1] \notin {"registry_start", "start_end"}
      BY <2>16, <2>17, EndingWord
    <3>2. ~Has(x, "router_stopped")
      BY <2>8, <2>13, <3>1
    <3>3. 2 \in Places /\ 3 \in Places
      BY DEF Places
    <3>4. QED
      BY <2>13, <3>2, <3>3 DEF Has
  <2>19. StartStage(x)' /\ StopStage(x)' /\ ~Halts(x)'
    <3>1. /\ x[7][1] # "rolled" /\ cleanup' /\ ~running' /\ x[1][1] = "registry_stop"
          /\ x[7][1] = "report" /\ Halting(x)
      BY <2>2, <2>13 DEF Halting
    <3>2. QED
      BY <2>16, <2>17, <2>18, <3>1, EndingStages
  <2>20. 1 \in Places /\ (\A i \in 2..1 : w[i][1] \in Marks)
         /\ ("dispatcher" \in started' => "client" \in started')
    BY <1>4 DEF Places, ReleaseInv
  <2>21. UNCHANGED <<owner, closed, closing, thread>> /\ ~Halts(w)
    BY <1>3, <1>4, <1>6
  <2>22. QED
    BY <1>1, <1>2, <2>2, <2>5, <2>7, <2>15, <2>16, <2>19, <2>20, <2>21, OwnerDoes
<1>7. QED
  BY <1>5, <1>6
-------------------------------------------------------------------------------
\* The rest of stop(), and of the rollback of start().

Ends == {"dispatcher_stop", "handler_join", "router_stop", "reader_join", "router_stopped"}

LEMMA CaughtEnds ==
  ASSUME NEW w, Sane(w), NEW i \in Places, w[i][1] = "caught"
  PROVE  \E r \in Places : /\ r > i /\ w[r][1] \in Reports
                           /\ \A j \in i..(r - 1) : w[j][1] \in EndNames
<1>1. \A j \in Places : /\ Chain(w[j][1], w[j + 1][1], w[j + 2][1], TRUE)
                        /\ j + 1 \in Places /\ j + 2 \in Places
  <2>1. \A j \in Places : Chain(w[j][1], w[j + 1][1], w[j + 2][1], TRUE)
    BY GateAt
  <2>2. \A j \in Places : j + 1 \in Places /\ j + 2 \in Places
    BY DEF Places
  <2>3. QED
    BY <2>1, <2>2
<1>2. /\ i + 1 \in Places /\ i + 2 \in Places /\ i + 3 \in Places /\ i + 4 \in Places /\ i + 5 \in Places
      /\ (i + 1) + 1 = i + 2 /\ (i + 1) + 2 = i + 3 /\ (i + 3) + 1 = i + 4 /\ (i + 3) + 2 = i + 5
      /\ i + 1 > i /\ i + 3 > i /\ i + 5 > i
      /\ \A j \in i..((i + 1) - 1) : j = i
      /\ \A j \in i..((i + 3) - 1) : j = i \/ j = i + 1 \/ j = i + 2
      /\ \A j \in i..((i + 5) - 1) : j = i \/ j = i + 1 \/ j = i + 2 \/ j = i + 3 \/ j = i + 4
  BY DEF Places
<1>3. w[i + 1][1] \in {"dispatcher_stop", "router_stop"} \cup Reports
  BY <1>1 DEF Chain
<1>4. CASE w[i + 1][1] \in Reports
  BY <1>2, <1>4 DEF EndNames
<1>5. CASE w[i + 1][1] = "router_stop"
  <2>1. Chain(w[i + 1][1], w[i + 2][1], w[i + 3][1], TRUE)
    BY <1>1, <1>2
  <2>2. w[i + 2][1] = "caught" /\ w[i + 3][1] \in Reports
    BY <1>5, <2>1 DEF Chain
  <2>3. \A j \in i..((i + 3) - 1) : w[j][1] \in EndNames
    BY <1>2, <1>5, <2>2 DEF EndNames
  <2>4. QED
    BY <1>2, <2>2, <2>3
<1>6. CASE w[i + 1][1] = "dispatcher_stop"
  <2>1. Chain(w[i + 1][1], w[i + 2][1], w[i + 3][1], TRUE)
    BY <1>1, <1>2
  <2>2. w[i + 2][1] = "caught" /\ w[i + 3][1] = "router_stop"
    BY <1>6, <2>1 DEF Chain
  <2>3. Chain(w[i + 3][1], w[i + 4][1], w[i + 5][1], TRUE)
    BY <1>1, <1>2
  <2>4. w[i + 4][1] = "caught" /\ w[i + 5][1] \in Reports
    BY <2>2, <2>3 DEF Chain
  <2>5. \A j \in i..((i + 5) - 1) : w[j][1] \in EndNames
    BY <1>2, <1>6, <2>2, <2>4 DEF EndNames
  <2>6. QED
    BY <1>2, <2>4, <2>5
<1>7. QED
  BY <1>3, <1>4, <1>5, <1>6

LEMMA EndingShape ==
  ASSUME NEW w, Sane(w), w[1][1] \in Ends
  PROVE  /\ \E r : Ending(w, r)
         /\ w[1][1] \in {"dispatcher_stop", "handler_join"} =>
              w[2][1] = "caught" /\ w[3][1] = "router_stop" /\ w[4][1] = "caught"
         /\ w[1][1] \in {"router_stop", "reader_join"} => w[2][1] = "caught" /\ w[3][1] \in Reports
         /\ w[1][1] = "router_stopped" =>
              \/ w[2][1] = "caught" /\ w[3][1] \in Reports
              \/ w[2][1] = "raise" /\ w[3][1] = "caught"
<1>1. /\ w[1][1] \in {"dispatcher_stop", "handler_join"} => w[2][1] = "caught" /\ w[3][1] = "router_stop"
      /\ w[1][1] \in {"router_stop", "reader_join"} => w[2][1] = "caught" /\ w[3][1] \in Reports
      /\ w[1][1] = "router_stopped" =>
           \/ w[2][1] = "caught" /\ w[3][1] \in Reports
           \/ w[2][1] = "raise" /\ w[3][1] = "caught"
  <2>1. Chain(w[1][1], w[2][1], w[3][1], TRUE)
    BY AtOne
  <2>2. QED
    BY <2>1 DEF Chain
<1>2. w[1][1] \in {"dispatcher_stop", "handler_join"} => w[4][1] = "caught"
  <2>1. 3 \in Places /\ 3 + 1 = 4 /\ 3 + 2 = 5
    BY DEF Places
  <2>2. Chain(w[3][1], w[3 + 1][1], w[3 + 2][1], TRUE)
    BY <2>1, GateAt
  <2>3. Chain(w[3][1], w[4][1], w[5][1], TRUE)
    BY <2>1, <2>2
  <2>4. QED
    BY <1>1, <2>3 DEF Chain
<1>3. \E r : Ending(w, r)
  <2>1. PICK i \in Places : /\ w[i][1] = "caught"
                            /\ \A j \in 1..(i - 1) : w[j][1] \in EndNames
    <3>1. /\ 2 \in Places /\ 3 \in Places /\ (\A j \in 1..(2 - 1) : j = 1)
          /\ \A j \in 1..(3 - 1) : j = 1 \/ j = 2
      BY DEF Places
    <3>2. w[1][1] \in EndNames
      BY DEF Ends, EndNames
    <3>3. CASE w[2][1] = "caught"
      BY <3>1, <3>2, <3>3
    <3>4. CASE w[2][1] = "raise" /\ w[3][1] = "caught"
      <4>1. \A j \in 1..(3 - 1) : w[j][1] \in EndNames
        BY <3>1, <3>2, <3>4 DEF EndNames
      <4>2. QED
        BY <3>1, <3>4, <4>1
    <3>5. QED
      BY <1>1, <3>3, <3>4 DEF Ends
  <2>2. PICK r \in Places : /\ r > i /\ w[r][1] \in Reports
                            /\ \A j \in i..(r - 1) : w[j][1] \in EndNames
    BY <2>1, CaughtEnds
  <2>3. \A j \in 1..(r - 1) : j \in 1..(i - 1) \/ j \in i..(r - 1)
    BY <2>2 DEF Places
  <2>4. QED
    BY <2>1, <2>2, <2>3 DEF Ending
<1>4. QED
  BY <1>1, <1>2, <1>3

\* A step of it leaves the stages as they are asked for.
LEMMA EndingKeeps ==
  ASSUME NEW w, Sane(w), StopStage(w), w[1][1] \in Ends,
         NEW x, NEW n \in Nat, NEW d \in Places, Splices(x, w, n, d),
         \A i \in 1..n : Linked(x, i) /\ x[i][1] \in EndNames,
         \A i \in 2..d : w[i][1] \in Marks,
         UNCHANGED <<running, cleanup, open, stopWatch>>,
         dispatching' => dispatching /\ w[1][1] # "dispatcher_stop",
         Unwatched => Unwatched', Unconnected' \/ Has(x, "caught"),
         \/ /\ link' = link /\ (Idle(Reader) => Idle(Reader)')
            /\ \A i \in 1..n : x[i][1] # "router_stopped"
         \/ Idle(Reader)' /\ (~link' \/ x[1][1] \in {"disconnect", "release"})
  PROVE  Sane(x) /\ StartStage(x)' /\ StopStage(x)' /\ ~Halts(x)' /\ ~Halts(w)
<1>1. PICK q : Ending(w, q)
  BY EndingShape
<1>2. /\ ~Has(w, "start_end") /\ ~Has(w, "services_start") /\ ~Has(w, "router_run")
      /\ Has(w, "rolled") <=> w[q][1] = "rolled"
      /\ Has(w, "report") <=> w[q][1] = "report"
      /\ Untold(w) <=> w[q][2] = FALSE
      /\ \A a \in {"dispatcher_stop", "caught", "router_stopped"} :
           Has(w, a) <=> \E i \in 1..(q - 1) : w[i][1] = a
      /\ w[1][1] \notin {"registry_start", "start_end"}
  BY <1>1, EndingWord
<1>3. q \in Places /\ w[q][1] \in Reports /\ \A i \in 1..(q - 1) : w[i][1] \in EndNames
  BY <1>1 DEF Ending
<1>4. Sane(x)
  BY SaneAfter DEF EndNames, Receiving
<1>5. q > d
  <2>1. q # 1
    BY <1>3 DEF Ends, Reports
  <2>2. q \notin 2..d
    BY <1>3 DEF Marks, Reports
  <2>3. QED
    BY <1>3, <2>1, <2>2 DEF Places
<1>6. PICK r : r = n + (q - d)
  OBVIOUS
<1>7. /\ q - d \in Places /\ d + (q - d) = q /\ r \in Places
      /\ \A i \in 1..(q - 1) : i > d => /\ n + (i - d) \in 1..(r - 1)
                                        /\ i - d \in Places /\ d + (i - d) = i
      /\ \A i \in 1..(r - 1) : \/ i \in 1..n
                               \/ /\ i - n \in Places /\ n + (i - n) = i
                                  /\ d + (i - n) \in 1..(q - 1)
  BY <1>3, <1>5, <1>6 DEF Places
<1>8. x[r] = w[q]
  BY <1>6, <1>7 DEF Splices
<1>9. \A i \in 1..(q - 1) : i > d => x[n + (i - d)] = w[i]
  BY <1>7 DEF Splices
<1>10. \A i \in 1..(r - 1) : i \in 1..n \/ (x[i] = w[d + (i - n)] /\ d + (i - n) \in 1..(q - 1))
  BY <1>7 DEF Splices
<1>11. Ending(x, r)
  <2>1. \A i \in 1..(r - 1) : x[i][1] \in EndNames
    BY <1>3, <1>10
  <2>2. QED
    BY <1>3, <1>7, <1>8, <2>1 DEF Ending
<1>12. /\ ~Has(x, "start_end") /\ ~Has(x, "services_start") /\ ~Has(x, "router_run")
       /\ Has(x, "rolled") <=> x[r][1] = "rolled"
       /\ Has(x, "report") <=> x[r][1] = "report"
       /\ Untold(x) <=> x[r][2] = FALSE
       /\ \A a \in {"dispatcher_stop", "caught", "router_stopped"} :
            Has(x, a) <=> \E i \in 1..(r - 1) : x[i][1] = a
       /\ x[1][1] \notin {"registry_start", "start_end"}
  BY <1>4, <1>11, EndingWord
<1>13. ~Halts(w)
  BY <1>2, <1>3 DEF Halts, StopStage, Reports
<1>14. /\ x[r][1] = "rolled" => ~cleanup'
       /\ x[r][1] = "report" => cleanup' /\ ~running' /\ (~open' /\ stopWatch')
  BY <1>2, <1>8 DEF StopStage, Ends
<1>15. ASSUME x[r][2] = FALSE
       PROVE  (dispatching' => Has(x, "dispatcher_stop")) /\ Unwatched'
  <2>1. ~Halting(w)
    BY DEF Halting, Ends
  <2>2. (dispatching => Has(w, "dispatcher_stop")) /\ Unwatched
    BY <1>2, <1>8, <1>15, <2>1 DEF StopStage
  <2>3. ASSUME dispatching' PROVE Has(x, "dispatcher_stop")
    <3>1. PICK i \in 1..(q - 1) : w[i][1] = "dispatcher_stop"
      BY <1>2, <2>2, <2>3
    <3>2. i # 1 /\ i \notin 2..d
      BY <2>3, <3>1 DEF Marks
    <3>3. i > d
      BY <3>2 DEF Places
    <3>4. n + (i - d) \in 1..(r - 1) /\ x[n + (i - d)][1] = "dispatcher_stop"
      BY <1>7, <1>9, <3>1, <3>3
    <3>5. QED
      BY <1>12, <3>4
  <2>4. QED
    BY <2>2, <2>3
<1>16. ASSUME Has(x, "router_stopped")
       PROVE  Idle(Reader)' /\ (~link' \/ x[1][1] \in {"disconnect", "release"})
  <2>1. CASE /\ link' = link /\ (Idle(Reader) => Idle(Reader)')
             /\ \A i \in 1..n : x[i][1] # "router_stopped"
    <3>1. PICK i \in 1..(r - 1) : x[i][1] = "router_stopped"
      BY <1>12, <1>16
    <3>2. d + (i - n) \in 1..(q - 1) /\ w[d + (i - n)][1] = "router_stopped"
      BY <1>10, <2>1, <3>1
    <3>3. Has(w, "router_stopped")
      BY <1>2, <3>2
    <3>4. QED
      BY <2>1, <3>3 DEF StopStage, Ends
  <2>2. QED
    BY <2>1
<1>17. StartStage(x)' /\ StopStage(x)' /\ ~Halts(x)'
  BY <1>4, <1>11, <1>14, <1>15, <1>16, EndingStages
<1>18. QED
  BY <1>4, <1>13, <1>17
\* Steps within the rest of stop().

LEMMA EndingDoes ==
  ASSUME WakeInv, ReleaseInv, NEW t \in Threads, todo[t] # <<>>, NEW frames, Does(t, frames),
         NEW w, w = W(t), w[1][1] \in Ends, NEW x, x = Word(Becomes(t, frames)),
         NEW n \in Nat, NEW d \in Places, Splices(x, w, n, d),
         \A i \in 1..n : Linked(x, i) /\ x[i][1] \in EndNames,
         \A i \in 2..d : w[i][1] \in Marks,
         UNCHANGED <<running, cleanup, owner, closed, closing, started, registryVars>>,
         UNCHANGED <<thread, link, reading>>,
         dispatching' => dispatching /\ w[1][1] # "dispatcher_stop", Has(x, "caught"),
         \/ \A i \in 1..n : x[i][1] # "router_stopped"
         \/ Idle(Reader) /\ x[1][1] = "disconnect"
  PROVE  ReleaseInv'
<1>1. Sane(w) /\ StopStage(w)
  BY DEF ReleaseInv
<1>2. UNCHANGED <<link, reading, open, connected, stopWatch>>
  BY DEF registryVars, endpoints
<1>3. (Unwatched => Unwatched') /\ (Idle(Reader) => Idle(Reader)')
  BY <1>2, StaysReleased
<1>4. UNCHANGED <<running, cleanup, open, stopWatch>>
  BY <1>2
<1>5. \/ /\ link' = link /\ (Idle(Reader) => Idle(Reader)')
         /\ \A i \in 1..n : x[i][1] # "router_stopped"
      \/ Idle(Reader)' /\ (~link' \/ x[1][1] \in {"disconnect", "release"})
  BY <1>3
<1>6. Sane(x) /\ StartStage(x)' /\ StopStage(x)' /\ ~Halts(x)' /\ ~Halts(w)
  BY <1>1, <1>3, <1>4, <1>5, EndingKeeps
<1>7. \A i \in 1..n : x[i][1] \notin {"closed", "close_end"}
  BY DEF EndNames
<1>8. w[1][1] \in Lifecycle \ {"exit"} /\ ("dispatcher" \in started' => "client" \in started')
  BY DEF Ends, Lifecycle, ReleaseInv
<1>9. UNCHANGED <<owner, closed, closing, thread>>
  OBVIOUS
<1>10. QED
  BY <1>6, <1>7, <1>8, <1>9, OwnerDoes

\* It goes on behind a mark, or calls one thing, or raises.
LEMMA EndingPops ==
  ASSUME WakeInv, ReleaseInv, NEW t \in Threads, todo[t] # <<>>, Does(t, <<>>),
         NEW w, w = W(t), w[1][1] \in {"dispatcher_stop", "handler_join"},
         UNCHANGED <<running, cleanup, owner, closed, closing, started, registryVars>>,
         UNCHANGED <<thread, link, reading>>,
         dispatching' => dispatching /\ w[1][1] # "dispatcher_stop"
  PROVE  ReleaseInv'
<1>1. w[1][1] \in Ends /\ Sane(w)
  BY DEF Ends, ReleaseInv
<1>2. w[2][1] = "caught" /\ w[3][1] = "router_stop" /\ w[4][1] = "caught"
  BY <1>1, EndingShape
<1>3. PICK x : x = Word(Becomes(t, <<>>))
  OBVIOUS
<1>4. w[2][1] \in Marks /\ w[3][1] \notin Marks
  BY <1>2 DEF Marks
<1>5. Splices(x, w, 0, 2) /\ x[1] = w[3] /\ x[2] = w[4]
  BY <1>3, <1>4, PopTwo
<1>6. 2 \in Places /\ 0 \in Nat /\ 1..0 = {} /\ \A i \in 2..2 : i = 2
  BY DEF Places
<1>7. Has(x, "caught") /\ \A i \in 2..2 : w[i][1] \in Marks
  BY <1>2, <1>4, <1>5, <1>6 DEF Has
<1>8. \A i \in 1..0 : Linked(x, i) /\ x[i][1] \in EndNames /\ x[i][1] # "router_stopped"
  BY <1>6
<1>9. QED
  BY <1>1, <1>3, <1>5, <1>6, <1>7, <1>8, EndingDoes

LEMMA EndingCalls ==
  ASSUME WakeInv, ReleaseInv, NEW t \in Threads, todo[t] # <<>>, NEW f, Does(t, <<f>>),
         NEW w, w = W(t), w[1][1] \in Ends \ {"router_stopped"},
         \/ f[1] = "handler_join" /\ w[1][1] = "dispatcher_stop"
         \/ f[1] = "reader_join" /\ w[1][1] = "router_stop"
         \/ f = <<"raise">>,
         UNCHANGED <<running, cleanup, owner, closed, closing, started, registryVars>>,
         UNCHANGED <<thread, link, reading>>,
         dispatching' => dispatching /\ w[1][1] # "dispatcher_stop"
  PROVE  ReleaseInv'
<1>1. w[1][1] \in Ends /\ Sane(w)
  BY DEF ReleaseInv
<1>2. /\ w[1][1] \in {"dispatcher_stop", "handler_join"} =>
           w[2][1] = "caught" /\ w[3][1] = "router_stop" /\ w[4][1] = "caught"
      /\ w[1][1] \in {"router_stop", "reader_join"} => w[2][1] = "caught" /\ w[3][1] \in Reports
  BY <1>1, EndingShape
<1>3. w[2][1] = "caught"
  BY <1>2 DEF Ends
<1>4. PICK x : x = Word(Becomes(t, <<f>>))
  OBVIOUS
<1>5. f[1] \in {"handler_join", "reader_join", "raise"} /\ f[1] \notin Marks
  BY DEF Marks
<1>6. Splices(x, w, 1, 1) /\ x[1] = f /\ x[2] = w[2] /\ x[3] = w[3]
  BY <1>4, <1>5, PushOne
<1>7. Linked(x, 1)
  <2>1. Chain(f[1], "caught", w[3][1], TRUE)
    BY <1>2, <1>5 DEF Chain, Reports
  <2>2. Gate(f[1], "caught", w[3][1], TRUE)
    BY <1>2, <1>5 DEF Gate, Lifecycle, Reports
  <2>3. Agrees(f, "caught")
    BY <1>5 DEF Agrees, Reports
  <2>4. QED
    BY <1>3, <1>6, <2>1, <2>2, <2>3, LinkedTop
<1>8. 1 \in Places /\ 2 \in Places /\ 1 \in Nat /\ (\A i \in 1..1 : i = 1) /\ \A i \in 2..1 : FALSE
  BY DEF Places
<1>9. Has(x, "caught") /\ \A i \in 2..1 : w[i][1] \in Marks
  BY <1>3, <1>6, <1>8 DEF Has
<1>10. /\ \A i \in 1..1 : Linked(x, i) /\ x[i][1] \in EndNames
       /\ \A i \in 1..1 : x[i][1] # "router_stopped"
  BY <1>5, <1>6, <1>7, <1>8 DEF EndNames
<1>11. QED
  BY <1>1, <1>4, <1>6, <1>8, <1>9, <1>10, EndingDoes

\* It closes the connection.
LEMMA EndingReleases ==
  ASSUME WakeInv, ReleaseInv, NEW t \in Threads, todo[t] # <<>>, Does(t, Disconnect),
         NEW w, w = W(t), w[1][1] \in {"router_stop", "reader_join"}, Idle(Reader),
         UNCHANGED <<running, cleanup, owner, closed, closing, started, registryVars>>,
         UNCHANGED <<thread, link, reading, dispatching>>
  PROVE  ReleaseInv'
<1>1. w[1][1] \in Ends /\ w[1][1] # "dispatcher_stop" /\ Sane(w)
  BY DEF Ends, ReleaseInv
<1>2. w[2][1] = "caught" /\ w[3][1] \in Reports
  BY <1>1, EndingShape
<1>3. PICK f, g : f = <<"disconnect">> /\ g = <<"router_stopped", FALSE>>
  OBVIOUS
<1>4. PICK x : x = Word(Becomes(t, <<f, g>>))
  OBVIOUS
<1>5. Does(t, <<f, g>>) /\ f[1] = "disconnect" /\ g[1] = "router_stopped" /\ f[1] \notin Marks
  BY <1>3 DEF Disconnect, Marks
<1>6. Splices(x, w, 2, 1) /\ x[1] = f /\ x[2] = g /\ x[3] = w[2] /\ x[4] = w[3]
  BY <1>4, <1>5, PushTwo
<1>7. /\ x[1][1] = "disconnect" /\ x[2][1] = "router_stopped" /\ x[3][1] = "caught"
      /\ x[4][1] \in Reports
  BY <1>2, <1>5, <1>6
<1>8. Linked(x, 1)
  <2>1. /\ Chain("disconnect", "router_stopped", "caught", TRUE)
        /\ Gate("disconnect", "router_stopped", "caught", TRUE)
    BY DEF Chain, Gate, Lifecycle, Reports
  <2>2. Agrees(x[1], x[2][1])
    BY <1>7 DEF Agrees, Reports
  <2>3. QED
    BY <1>7, <2>1, <2>2, LinkedTop
<1>9. Linked(x, 2)
  <2>1. /\ Chain("router_stopped", "caught", x[4][1], FALSE)
        /\ Gate("router_stopped", "caught", x[4][1], FALSE)
    BY <1>7 DEF Chain, Gate, Lifecycle, Reports
  <2>2. Agrees(x[2], x[3][1])
    BY <1>7 DEF Agrees, Reports
  <2>3. QED
    BY <1>7, <2>1, <2>2, BindsAt DEF Binds
<1>10. /\ 1 \in Places /\ 3 \in Places /\ 2 \in Nat /\ (\A i \in 1..2 : i = 1 \/ i = 2)
       /\ \A i \in 2..1 : FALSE
  BY DEF Places
<1>11. Has(x, "caught") /\ \A i \in 2..1 : w[i][1] \in Marks
  BY <1>7, <1>10 DEF Has
<1>12. \A i \in 1..2 : Linked(x, i) /\ x[i][1] \in EndNames
  BY <1>7, <1>8, <1>9, <1>10 DEF EndNames
<1>13. QED
  BY <1>1, <1>4, <1>5, <1>6, <1>7, <1>10, <1>11, <1>12, EndingDoes

LEMMA DispatcherStops ==
  ASSUME WakeInv, ReleaseInv, NEW t \in Threads, DispatcherStop(t) \/ JoinHandler(t)
  PROVE  ReleaseInv'
<1>1. PICK w : w = W(t)
  OBVIOUS
<1>2. /\ UNCHANGED <<running, cleanup, owner, closed, closing, started, registryVars>>
      /\ UNCHANGED <<thread, link, reading>>
  BY DEF DispatcherStop, JoinHandler, runtimeVars, lifecycle, routerVars, connection
<1>3. CASE DispatcherStop(t)
  <2>1. todo[t] # <<>> /\ w[1][1] = "dispatcher_stop" /\ ~dispatching'
    BY <1>1, <1>3, AtIs DEF DispatcherStop
  <2>2. CASE Does(t, <<>>)
    BY <1>1, <1>2, <2>1, <2>2, EndingPops
  <2>3. CASE Does(t, <<<<"handler_join">>>>)
    <3>1. PICK f : f = <<"handler_join">>
      OBVIOUS
    <3>2. Does(t, <<f>>) /\ f[1] = "handler_join" /\ w[1][1] \in Ends \ {"router_stopped"}
      BY <2>1, <2>3, <3>1 DEF Ends
    <3>3. QED
      BY <1>1, <1>2, <2>1, <3>2, EndingCalls
  <2>4. QED
    BY <1>3, <2>2, <2>3 DEF DispatcherStop
<1>4. CASE JoinHandler(t)
  <2>1. /\ todo[t] # <<>> /\ w[1][1] = "handler_join" /\ dispatching' = dispatching
        /\ Does(t, <<>>)
    BY <1>1, <1>4, AtIs DEF JoinHandler, runtimeVars, lifecycle
  <2>2. QED
    BY <1>1, <1>2, <2>1, EndingPops
<1>5. QED
  BY <1>3, <1>4

LEMMA RouterStops ==
  ASSUME WakeInv, ReleaseInv, NEW t \in Threads, RouterStop(t) \/ JoinReader(t),
         UNCHANGED <<registryVars, lifecycle, calls>>
  PROVE  ReleaseInv'
<1>1. PICK w : w = W(t)
  OBVIOUS
<1>2. /\ UNCHANGED <<running, cleanup, owner, closed, closing, started, registryVars>>
      /\ UNCHANGED <<thread, link, reading>> /\ dispatching' = dispatching
      /\ UNCHANGED <<thread, link, reading, dispatching>>
  BY DEF RouterStop, JoinReader, lifecycle, routerVars, connection
<1>3. /\ todo[t] # <<>> /\ w[1][1] \in {"router_stop", "reader_join"}
      /\ RouterStop(t) => w[1][1] = "router_stop"
  BY <1>1, AtIs DEF RouterStop, JoinReader
<1>4. w[1][1] \in Ends \ {"router_stopped"} /\ w[1][1] # "dispatcher_stop"
  BY <1>3 DEF Ends
<1>5. CASE Raises(t)
  <2>1. PICK f : f = <<"raise">>
    OBVIOUS
  <2>2. Does(t, <<f>>)
    BY <1>5, <2>1 DEF Raises
  <2>3. QED
    BY <1>1, <1>2, <1>3, <1>4, <2>1, <2>2, EndingCalls
<1>6. CASE RouterStop(t) /\ Does(t, <<<<"reader_join">>>>)
  <2>1. PICK f : f = <<"reader_join">>
    OBVIOUS
  <2>2. Does(t, <<f>>) /\ f[1] = "reader_join" /\ w[1][1] = "router_stop"
    BY <1>3, <1>6, <2>1
  <2>3. QED
    BY <1>1, <1>2, <1>3, <1>4, <2>2, EndingCalls
<1>7. CASE Idle(Reader) /\ Does(t, Disconnect)
  BY <1>1, <1>2, <1>3, <1>7, EndingReleases
<1>8. ~thread => Idle(Reader)
  BY DEF ReleaseInv
<1>9. QED
  BY <1>5, <1>6, <1>7, <1>8 DEF RouterStop, JoinReader
-------------------------------------------------------------------------------
\* The end of stop() at the router.

LEMMA StoppedReleases ==
  ASSUME WakeInv, ReleaseInv, NEW t \in Threads, RouterStopped(t),
         UNCHANGED <<registryVars, lifecycle, calls>>
  PROVE  ReleaseInv'
<1>1. PICK w : w = W(t)
  OBVIOUS
<1>2. todo[t] # <<>> /\ w[1][1] = "router_stopped" /\ Sane(w) /\ StopStage(w)
  BY <1>1, AtIs DEF RouterStopped, ReleaseInv
<1>3. w[1][1] \in Ends /\ w[1][1] \in Lifecycle \ {"exit"}
  BY <1>2 DEF Ends, Lifecycle
<1>4. \/ w[2][1] = "caught" /\ w[3][1] \in Reports
      \/ w[2][1] = "raise" /\ w[3][1] = "caught"
  BY <1>2, <1>3, EndingShape
<1>5. Idle(Reader) /\ ~link /\ t # Reader
  <2>1. Has(w, "router_stopped")
    BY <1>2 DEF Has, Places
  <2>2. QED
    BY <1>2, <2>1 DEF StopStage, Idle
<1>6. PICK list, stacks : list = Becomes(t, <<>>) /\ stacks = [todo EXCEPT ![t] = list]
  OBVIOUS
<1>7. PICK x : x = Word(list)
  OBVIOUS
<1>8. W(t)' = x
  <2>1. list = <<>> \/ Head(list)[1] # "asleep"
    <3>1. Sound(list, sequence)
      BY <1>2, <1>6, SoundEmpty, DoesSound
    <3>2. list # <<>> => Head(list) \in ToSet(list)
      BY <3>1 DEF Sound, ToSet
    <3>3. QED
      BY <3>1, <3>2 DEF Sound, Fits
  <2>2. stacks[t] = list
    BY <1>6 DEF WakeInv
  <2>3. todo' = Awake(stacks)
    BY <1>6 DEF RouterStopped
  <2>4. todo'[t] = list
    BY <2>1, <2>2, <2>3 DEF Awake
  <2>5. QED
    BY <1>7, <2>4 DEF W
<1>9. ASSUME NEW u \in Threads, u # t
      PROVE  /\ Idle(u) => Idle(u)'
             /\ W(u)' = W(u) \/ Keeps(W(u)', W(u))
  <2>1. stacks[u] = todo[u]
    BY <1>6, <1>9 DEF WakeInv
  <2>2. todo' = Awake(stacks)
    BY <1>6 DEF RouterStopped
  <2>3. QED
    BY <2>1, <2>2, AwakeIs
<1>10. /\ UNCHANGED <<running, cleanup, open, stopWatch, owner, closed, closing, started>>
       /\ dispatching' = dispatching /\ connected' = connected
       /\ ~thread' /\ ~reading' /\ link' = link
  BY DEF RouterStopped, registryVars, endpoints, lifecycle, connection
<1>11. Idle(Reader)' /\ (Idle(Monitor) => Idle(Monitor)')
  <2>1. Reader \in Threads /\ Monitor \in Threads
    BY RouterAssumption, RegistryAssumption
  <2>2. Idle(Monitor) => Monitor # t
    BY <1>2 DEF Idle
  <2>3. QED
    BY <1>5, <1>9, <2>1, <2>2
<1>12. Unconnected' /\ (Unwatched => Unwatched')
  BY <1>5, <1>10, <1>11 DEF Unconnected, Unwatched
<1>13. PICK d \in {1, 2} : Splices(x, w, 0, d) /\ \A i \in 2..d : w[i][1] \in Marks
  <2>1. CASE w[2][1] = "caught" /\ w[3][1] \in Reports
    <3>1. w[2][1] \in Marks /\ w[3][1] \notin Marks
      BY <2>1 DEF Marks, Reports
    <3>2. Splices(x, w, 0, 2)
      BY <1>1, <1>2, <1>6, <1>7, <3>1, PopTwo
    <3>3. \A i \in 2..2 : i = 2
      OBVIOUS
    <3>4. QED
      BY <3>1, <3>2, <3>3
  <2>2. CASE w[2][1] = "raise" /\ w[3][1] = "caught"
    <3>1. w[2][1] \notin Marks
      BY <2>2 DEF Marks
    <3>2. Splices(x, w, 0, 1)
      BY <1>1, <1>2, <1>6, <1>7, <3>1, PopOne
    <3>3. \A i \in 2..1 : FALSE
      OBVIOUS
    <3>4. QED
      BY <3>2, <3>3
  <2>3. QED
    BY <1>4, <2>1, <2>2
<1>14. 0 \in Nat /\ d \in Places /\ 1..0 = {}
  BY DEF Places
<1>15. Sane(x) /\ StartStage(x)' /\ StopStage(x)' /\ ~Halts(x)' /\ ~Halts(w)
  <2>1. /\ UNCHANGED <<running, cleanup, open, stopWatch>>
        /\ dispatching' => dispatching /\ w[1][1] # "dispatcher_stop"
        /\ Unwatched => Unwatched'
        /\ Unconnected' \/ Has(x, "caught")
        /\ Idle(Reader)' /\ (~link' \/ x[1][1] \in {"disconnect", "release"})
    BY <1>2, <1>5, <1>10, <1>11, <1>12
  <2>2. \A i \in 1..0 : Linked(x, i) /\ x[i][1] \in EndNames
    BY <1>14
  <2>3. QED
    BY <1>2, <1>3, <1>13, <1>14, <2>1, <2>2, EndingKeeps
<1>16. /\ \A i \in 1..0 : x[i][1] \notin {"closed", "close_end"}
       /\ "dispatcher" \in started' => "client" \in started'
       /\ UNCHANGED <<owner, closed, closing>>
  BY <1>10, <1>14 DEF ReleaseInv
<1>17. QED
  BY <1>1, <1>3, <1>8, <1>9, <1>11, <1>13, <1>14, <1>15, <1>16, OwnerStep

-------------------------------------------------------------------------------
\* The lifecycle lock.

LEMMA ExitReleases ==
  ASSUME WakeInv, ReleaseInv, NEW t \in Threads, Exit(t)
  PROVE  ReleaseInv'
<1>1. PICK w : w = W(t)
  OBVIOUS
<1>2. PICK x : x = Word(Becomes(t, <<>>))
  OBVIOUS
<1>3. /\ todo[t] # <<>> /\ w[1][1] = "exit" /\ w[1][1] \in Lifecycle /\ Sane(w) /\ StopStage(w)
      /\ Does(t, <<>>)
  BY <1>1, AtIs DEF Exit, ReleaseInv, Lifecycle
<1>4. /\ UNCHANGED <<running, cleanup, closed, closing, started, thread>> /\ dispatching' = dispatching
      /\ UNCHANGED <<link, reading, open, connected, stopWatch>>
  BY DEF Exit, routerVars, connection, registryVars, endpoints
<1>5. \A i \in Places : i >= 2 => w[i][1] \notin Lifecycle
  <2>1. 1 \in Places
    BY DEF Places
  <2>2. \A i \in Places : w[i][1] \in Lifecycle => i <= 1
    BY <1>3, <2>1 DEF Sane, Placed
  <2>3. QED
    BY <2>2 DEF Places
<1>6. PICK d \in Places : Splices(x, w, 0, d) /\ \A i \in 2..d : w[i][1] \in Marks
  BY <1>1, <1>2, <1>3, PopWord
<1>7. \A i \in Places : x[i] = w[d + i] /\ d + i \in Places /\ d + i >= 2
  BY <1>6 DEF Splices, Places
<1>8. \A a \in Lifecycle : ~Has(x, a)
  BY <1>5, <1>7 DEF Has
<1>9. Sane(x) /\ StartStage(x)' /\ StopStage(x)'
  BY <1>3, <1>6, <1>8, PopSane, StageNone
<1>10. Has(w, "exit") /\ \A a \in Lifecycle : Has(w, a) => a = "exit"
  <2>1. \A i \in Places : i = 1 \/ i >= 2
    BY DEF Places
  <2>2. QED
    BY <1>3, <1>5, <2>1 DEF Has, Places
<1>11. t = owner
  BY <1>1, <1>3, <1>10 DEF ReleaseInv
<1>12. /\ Halts(w) <=> ~running /\ ~cleanup
       /\ Halts(x)' <=> ~running' /\ ~cleanup'
       /\ ~running /\ ~cleanup <=> Stopped
  <2>1. ~Has(w, "start_end") /\ ~Has(w, "rolled") /\ ~Has(x, "start_end") /\ ~Has(x, "rolled")
    BY <1>8, <1>10 DEF Lifecycle
  <2>2. (Halts(w) <=> ~running /\ ~cleanup) /\ (Halts(x)' <=> ~running' /\ ~cleanup')
    BY <2>1 DEF Halts
  <2>3. Stopped <=> Halts(w)
    BY <1>1, <1>3, HaltsIs
  <2>4. QED
    BY <2>2, <2>3
<1>13. Due(x) => Due(w) \/ Halts(x)'
  <2>1. CASE w[2][1] = "registry_stop"
    <3>1. Returns(w) /\ ~(w[1][1] = "raise" /\ w[2][1] = "exit")
      <4>1. 1 \in Places /\ 1 + 1 = 2
        BY DEF Places
      <4>2. QED
        BY <1>3, <2>1, <4>1 DEF Returns
    <3>2. ~running /\ ~cleanup
      BY <1>3, <1>10, <3>1 DEF StopStage
    <3>3. QED
      BY <1>4, <1>12, <3>2
  <2>2. CASE w[2][1] # "registry_stop"
    <3>1. ASSUME NEW i \in 1..d
          PROVE  ~(/\ w[i][1] \in {"enter", "raise", "exit"}
                   /\ w[i + 1][1] = "registry_stop" /\ w[i + 2][1] = "closed")
      <4>1. i = 1 \/ i \in 2..d
        BY DEF Places
      <4>2. CASE i = 1
        BY <2>2, <4>2
      <4>3. CASE i \in 2..d
        BY <1>6, <4>3 DEF Marks
      <4>4. QED
        BY <4>1, <4>2, <4>3
    <3>2. 0 \in Nat /\ \A i \in 1..0 : x[i][1] \notin {"closed", "close_end"}
      OBVIOUS
    <3>3. QED
      BY <1>6, <3>1, <3>2, DueOver
  <2>3. QED
    BY <2>1, <2>2
<1>14. /\ W(t)' = x /\ \A u \in Threads : u # t => W(u)' = W(u)
  BY <1>2, <1>3, DoesOnly
<1>15. CloserOK'
  <2>1. Has(x, "close_end") => Has(w, "close_end")
    BY <1>7 DEF Has
  <2>2. \A u \in Threads : Has(W(u)', "close_end") => Has(W(u), "close_end")
    BY <1>1, <1>14, <2>1
  <2>3. QED
    BY <1>4, <2>2, CloserSame
<1>16. Halts(x)' => Unconnected' /\ Unwatched' /\ ~dispatching'
  <2>1. ASSUME ~running' /\ ~cleanup' PROVE Unconnected /\ Unwatched /\ ~dispatching
    BY <1>4, <1>12, <2>1 DEF ReleaseInv
  <2>2. QED
    BY <1>3, <1>4, <1>12, <2>1, StaysReleased
<1>17. /\ ~thread' => Idle(Reader)'
       /\ "dispatcher" \in started' => "client" \in started'
       /\ closed' = closed /\ (Halts(w) /\ (closed \/ closing) => Halts(x)')
  <2>1. ~thread' => Idle(Reader)
    BY <1>4 DEF ReleaseInv
  <2>2. Idle(Reader) => Idle(Reader)'
    BY <1>3, <1>4, StaysReleased
  <2>3. QED
    BY <1>4, <1>12, <2>1, <2>2 DEF ReleaseInv
<1>18. /\ \A u \in Threads : u # t => \A a \in Lifecycle : ~Has(W(u), a)
       /\ \A a \in Lifecycle : Has(x, a) => t = owner'
  BY <1>8, <1>11 DEF ReleaseInv
<1>19. QED
  BY <1>1, <1>9, <1>13, <1>14, <1>15, <1>16, <1>17, <1>18, LifecycleStep
LEMMA EnteredWord ==
  ASSUME NEW w, Sane(w), w[1][1] = "enter", w[1][2] \in {"start", "stop"},
         \A i \in Places : w[i][1] \notin Lifecycle,
         NEW x, Splices(x, w, 2, 1), x[1][1] = w[1][2], x[2][1] = "exit",
         x[3] = w[2], x[4] = w[3]
  PROVE  /\ Sane(x) /\ (Due(x) => Due(w)) /\ (Has(x, "close_end") => Has(w, "close_end"))
         /\ \A a \in {"start_end", "services_start", "router_run", "rolled", "report",
                      "router_stopped"} : ~Has(x, a)
         /\ ~Untold(x) /\ (Has(x, "start") \/ Has(x, "stop"))
<1>1. /\ 1 \in Places /\ 2 \in Nat /\ 2 \in Places /\ 1 + 1 = 2 /\ 1 + 2 = 3 /\ 2 + 1 = 3 /\ 2 + 2 = 4
      /\ \A i \in 1..2 : i = 1 \/ i = 2
  BY DEF Places
<1>2. /\ \A j \in Places : x[2 + j] = w[1 + j] /\ 1 + j \in Places /\ 2 + j \in Places
      /\ \A i \in Places : i = 1 \/ i = 2 \/ (i - 2 \in Places /\ 2 + (i - 2) = i)
  BY DEF Splices, Places
<1>3. \A i \in Places : i > 2 => i - 2 \in Places /\ x[i] = w[1 + (i - 2)] /\ 1 + (i - 2) \in Places
  <2>1. \A i \in Places : i > 2 => i - 2 \in Places /\ 2 + (i - 2) = i
    BY DEF Places
  <2>2. QED
    BY <1>2, <2>1
<1>4. \A i \in Places : i = 1 \/ i = 2 \/ i > 2
  BY DEF Places
<1>5. /\ Gate("enter", w[2][1], w[3][1], TRUE) /\ Agrees(w[1], w[2][1])
      /\ w[2][1] \notin Lifecycle /\ w[3][1] \notin Lifecycle
  <2>1. 3 \in Places
    BY DEF Places
  <2>2. QED
    BY <1>1, <2>1, AtOne
<1>6. Linked(x, 1)
  <2>1. Chain(x[1][1], "exit", w[2][1], TRUE)
    BY DEF Chain, Reports
  <2>2. w[2][1] = "registry_stop" => x[1][1] = "stop"
    BY <1>5 DEF Agrees
  <2>3. Gate(x[1][1], "exit", w[2][1], TRUE)
    BY <2>2 DEF Gate, Lifecycle
  <2>4. Agrees(x[1], "exit")
    BY DEF Agrees, Reports
  <2>5. QED
    BY <2>1, <2>3, <2>4, LinkedTop
<1>7. Linked(x, 2)
  <2>1. Chain("exit", w[2][1], w[3][1], FALSE)
    BY DEF Chain, Reports
  <2>2. w[2][1] \notin {"raise", "registry_accept", "disconnect_all"} /\ w[3][1] \notin {"caught", "exit"}
    BY <1>5 DEF Gate, Finally, Lifecycle
  <2>3. Gate("exit", w[2][1], w[3][1], FALSE)
    BY <1>5, <2>2 DEF Gate, Lifecycle
  <2>4. Agrees(x[2], w[2][1])
    BY DEF Agrees, Reports
  <2>5. QED
    BY <2>1, <2>3, <2>4, BindsAt DEF Binds
<1>8. \A i \in Places : x[i][1] \in Lifecycle => i = 1 \/ i = 2
  BY <1>3, <1>4
<1>9. Placed(x)
  <2>1. \A i \in Places : x[i][1] = "exit" => i = 2
    BY <1>8 DEF Lifecycle
  <2>2. \A i \in {1, 2} : i <= 2
    OBVIOUS
  <2>3. QED
    BY <1>8, <2>1, <2>2 DEF Placed
<1>10. \A i \in Places : x[i][1] \in {"closed", "close_end"} => i > 2
  BY <1>4
<1>11. Once(x)
  <2>1. SUFFICES ASSUME NEW i \in Places, NEW j \in Places,
                        x[i][1] = "close_end", x[j][1] = "close_end"
                 PROVE  i = j
    BY DEF Once
  <2>2. /\ w[1 + (i - 2)][1] = "close_end" /\ w[1 + (j - 2)][1] = "close_end"
        /\ 1 + (i - 2) \in Places /\ 1 + (j - 2) \in Places
    BY <1>3, <1>10, <2>1
  <2>3. 1 + (i - 2) = 1 + (j - 2)
    BY <2>2 DEF Sane, Once
  <2>4. QED
    BY <2>3 DEF Places
<1>12. Sane(x)
  <2>1. \A i \in 1..2 : /\ Linked(x, i)
                        /\ x[i][1] \in Receiving => i = 2 /\ \A j \in Places : w[1 + j] = <<"end">>
    BY <1>1, <1>6, <1>7 DEF Receiving
  <2>2. QED
    BY <1>1, <1>9, <1>11, <2>1, SaneOver
<1>13. ASSUME Due(x) PROVE Due(w)
  <2>1. Has(w, "closed")
    BY <1>3, <1>10, <1>13 DEF Due, Has
  <2>2. ASSUME NEW i \in Places, w[i][1] \in {"enter", "raise", "exit"},
               w[i + 1][1] = "registry_stop", w[i + 2][1] = "closed"
        PROVE  Awaits(x)
    <3>1. CASE i = 1
      <4>1. x[2][1] = "exit" /\ x[3][1] = "registry_stop" /\ x[4][1] = "closed"
        BY <1>1, <2>2, <3>1
      <4>2. QED
        BY <1>1, <4>1 DEF Awaits
    <3>2. CASE i # 1
      <4>1. /\ i - 1 \in Places /\ 1 + (i - 1) = i /\ 2 + (i - 1) = i + 1 /\ i + 1 \in Places
            /\ i \in Places /\ 1 + i = i + 1 /\ 2 + i = (i + 1) + 1 /\ 1 + (i + 1) = i + 2
            /\ 2 + (i + 1) = (i + 1) + 2
        BY <3>2 DEF Places
      <4>2. x[i + 1] = w[i] /\ x[(i + 1) + 1] = w[i + 1] /\ x[(i + 1) + 2] = w[i + 2]
        BY <1>2, <4>1
      <4>3. QED
        BY <2>2, <4>1, <4>2 DEF Awaits
    <3>3. QED
      BY <3>1, <3>2
  <2>3. QED
    BY <1>13, <2>1, <2>2 DEF Due, Awaits
<1>14. Has(x, "close_end") => Has(w, "close_end")
  BY <1>3, <1>10 DEF Has
<1>15. /\ \A a \in {"start_end", "services_start", "router_run", "rolled", "report",
                    "router_stopped"} : ~Has(x, a)
       /\ ~Untold(x)
  <2>1. \A i \in Places : x[i][1] \in Lifecycle => x[i][1] \in {"start", "stop", "exit"}
    BY <1>8
  <2>2. QED
    BY <2>1 DEF Has, Untold, Lifecycle, Reports
<1>16. Has(x, "start") \/ Has(x, "stop")
  BY <1>1 DEF Has
<1>17. QED
  BY <1>12, <1>13, <1>14, <1>15, <1>16

LEMMA EnterReleases ==
  ASSUME WakeInv, ReleaseInv, NEW t \in Threads, Enter(t)
  PROVE  ReleaseInv'
<1>1. At(t, "enter") /\ todo[t] # <<>>
  BY AtIs DEF Enter
<1>2. /\ UNCHANGED <<running, cleanup, closed, closing, started, thread>> /\ dispatching' = dispatching
      /\ UNCHANGED <<link, reading, open, connected, stopWatch>>
  BY DEF Enter, routerVars, connection, registryVars, endpoints
<1>3. CASE Raises(t) /\ UNCHANGED owner
  <2>1. Steady
    BY <1>2, <1>3 DEF Steady
  <2>2. QED
    BY <1>1, <1>3, <2>1, RefusedReleases
<1>4. CASE owner = None /\ owner' = t /\ Does(t, <<<<Arg(t)>>, <<"exit", FALSE>>>>)
  <2>1. PICK f, g : f = <<Arg(t)>> /\ g = <<"exit", FALSE>>
    OBVIOUS
  <2>2. PICK w, x : w = W(t) /\ x = Word(Becomes(t, <<f, g>>))
    OBVIOUS
  <2>3. Arg(t) \in {"start", "stop"}
    <3>1. ~At(t, "asleep")
      BY <1>1 DEF At
    <3>2. Fits(Head(todo[t]), sequence)
      BY <1>1, <3>1, AtTop
    <3>3. QED
      BY <1>1, <3>2 DEF Fits, At, Arg
  <2>4. /\ f[1] = Arg(t) /\ g[1] = "exit" /\ f[1] \notin Marks /\ Does(t, <<f, g>>)
    BY <1>4, <2>1, <2>3 DEF Marks
  <2>5. Splices(x, w, 2, 1) /\ x[1] = f /\ x[2] = g /\ x[3] = w[2] /\ x[4] = w[3]
    BY <1>1, <2>2, <2>4, PushTwo
  <2>6. w[1][1] = "enter" /\ w[1][2] = Arg(t) /\ Sane(w)
    BY <1>1, <2>2, AtIs DEF Arg, ReleaseInv
  <2>7. /\ \A u \in Threads : \A a \in Lifecycle : ~Has(W(u), a)
        /\ ~Starting
    <3>1. \A u \in Threads : \A a \in Lifecycle : ~Has(W(u), a)
      BY <1>4, RuntimeAssumption DEF ReleaseInv
    <3>2. QED
      BY <3>1 DEF Starting, Lifecycle
  <2>8. \A i \in Places : w[i][1] \notin Lifecycle
    BY <2>2, <2>7 DEF Has
  <2>9. /\ Sane(x) /\ (Due(x) => Due(w)) /\ (Has(x, "close_end") => Has(w, "close_end"))
        /\ \A a \in {"start_end", "services_start", "router_run", "rolled", "report",
                     "router_stopped"} : ~Has(x, a)
        /\ ~Untold(x) /\ (Has(x, "start") \/ Has(x, "stop"))
    <3>1. x[1][1] = w[1][2] /\ x[2][1] = "exit" /\ w[1][2] \in {"start", "stop"}
      BY <2>3, <2>4, <2>5, <2>6
    <3>2. QED
      BY <2>5, <2>6, <2>8, <3>1, EnteredWord
  <2>10. StartStage(x)'
    <3>1. x[1][1] \notin {"registry_start", "start_end"}
      BY <2>3, <2>4, <2>5
    <3>2. QED
      BY <2>9, <3>1, NoStart
  <2>11. StopStage(x)'
    <3>1. ~(\A a \in Lifecycle : Has(x, a) => a = "exit")
      BY <2>9 DEF Lifecycle
    <3>2. QED
      BY <2>9, <3>1, NoStop
  <2>12. /\ Halts(w) => ~running /\ ~cleanup
         /\ Halts(x)' <=> ~running' /\ ~cleanup'
         /\ ~running /\ ~cleanup <=> Stopped
    BY <2>7, <2>9 DEF Halts, Stopped
  <2>13. /\ W(t)' = x /\ \A u \in Threads : u # t => W(u)' = W(u)
    BY <2>2, <2>4, DoesOnly
  <2>14. CloserOK'
    <3>1. \A u \in Threads : Has(W(u)', "close_end") => Has(W(u), "close_end")
      BY <2>2, <2>9, <2>13
    <3>2. QED
      BY <1>2, <3>1, CloserSame
  <2>15. Halts(x)' => Unconnected' /\ Unwatched' /\ ~dispatching'
    <3>1. ASSUME ~running' /\ ~cleanup' PROVE Unconnected /\ Unwatched /\ ~dispatching
      BY <1>2, <2>12, <3>1 DEF ReleaseInv
    <3>2. QED
      BY <1>1, <1>2, <2>4, <2>12, <3>1, StaysReleased
  <2>16. /\ ~thread' => Idle(Reader)'
         /\ "dispatcher" \in started' => "client" \in started'
         /\ closed' = closed /\ (Halts(w) /\ (closed \/ closing) => Halts(x)')
    <3>1. ~thread' => Idle(Reader)
      BY <1>2 DEF ReleaseInv
    <3>2. Idle(Reader) => Idle(Reader)'
      BY <1>1, <1>2, <2>4, StaysReleased
    <3>3. QED
      BY <1>2, <2>12, <3>1, <3>2 DEF ReleaseInv
  <2>17. /\ \A u \in Threads : u # t => \A a \in Lifecycle : ~Has(W(u), a)
         /\ \A a \in Lifecycle : Has(x, a) => t = owner'
    BY <1>4, <2>7
  <2>18. Due(x) => Due(w) \/ Halts(x)'
    BY <2>9
  <2>19. QED
    BY <2>2, <2>9, <2>10, <2>11, <2>13, <2>14, <2>15, <2>16, <2>17, <2>18, LifecycleStep
<1>5. QED
  BY <1>3, <1>4 DEF Enter
-------------------------------------------------------------------------------
\* Where an exception is handled.

\* The first frame of the lifecycle below an exception, if nothing handles it before.
LEMMA RaiseAbove ==
  ASSUME NEW w, Sane(w), w[1][1] = "raise", NEW e \in Places, e >= 2, w[e][1] \in Lifecycle,
         \A i \in 2..(e - 1) : w[i][1] \notin Lifecycle \cup Handlers
  PROVE  \/ /\ e = 2
            /\ w[2][1] \in {"router_run", "services_start", "registry_start", "start_end", "caught",
                            "router_stopped", "exit"}
         \/ e = 3 /\ w[2][1] = "disconnect_all" /\ w[3][1] = "caught"
<1>1. CASE e = 2
  <2>1. Gate(w[1][1], w[2][1], w[3][1], TRUE)
    BY AtOne
  <2>2. QED
    BY <1>1, <2>1 DEF Gate
<1>2. CASE e # 2
  <2>1. PICK i \in Places : i + 1 = e /\ i + 2 = e + 1 /\ i >= 2 /\ i \in 2..(e - 1)
    <3>1. e - 1 \in Places /\ (e - 1) + 1 = e /\ (e - 1) + 2 = e + 1 /\ e - 1 >= 2 /\ e - 1 \in 2..(e - 1)
      BY <1>2 DEF Places
    <3>2. QED
      BY <3>1
  <2>2. PICK j \in Places : j + 1 = i /\ j + 2 = e /\ (j = 1 \/ (j >= 2 /\ j \in 2..(e - 1)))
    <3>1. /\ i - 1 \in Places /\ (i - 1) + 1 = i /\ (i - 1) + 2 = e
          /\ i - 1 = 1 \/ (i - 1 >= 2 /\ i - 1 \in 2..(e - 1))
      BY <2>1 DEF Places
    <3>2. QED
      BY <3>1
  <2>3. Gate(w[i][1], w[e][1], w[e + 1][1], FALSE)
    <3>1. Gate(w[i][1], w[i + 1][1], w[i + 2][1], FALSE)
      BY <2>1, Below2
    <3>2. QED
      BY <2>1, <3>1
  <2>4. Gate(w[j][1], w[i][1], w[e][1], TRUE) /\ (j >= 2 => Gate(w[j][1], w[i][1], w[e][1], FALSE))
    <3>1. Gate(w[j][1], w[j + 1][1], w[j + 2][1], TRUE)
      BY GateAt
    <3>2. j >= 2 => Gate(w[j][1], w[j + 1][1], w[j + 2][1], FALSE)
      BY Below2
    <3>3. QED
      BY <2>2, <3>1, <3>2
  <2>5. w[i][1] \notin Lifecycle /\ w[i][1] # "swallow"
    BY <2>1 DEF Handlers, Marks
  <2>6. w[i][1] \in {"raise", "registry_accept", "disconnect_all"}
    <3>1. w[i][1] \in {"raise", "swallow", "registry_accept", "registry_stop", "disconnect_all",
                       "disconnect", "release"}
      BY <2>3, <2>5 DEF Gate
    <3>2. w[i][1] # "registry_stop"
      BY <2>3 DEF Gate, Lifecycle
    <3>3. w[i][1] \notin {"disconnect", "release"}
      BY <2>3 DEF Gate
    <3>4. QED
      BY <2>5, <3>1, <3>2, <3>3
  <2>7. w[j][1] # "swallow" /\ w[j][1] # "rolled" /\ (j = 1 => w[j][1] = "raise")
    BY <2>2 DEF Handlers, Marks, Lifecycle
  <2>8. w[i][1] # "registry_accept"
    BY <2>4, <2>7 DEF Gate
  <2>9. w[i][1] # "raise"
    BY <2>2, <2>4, <2>7 DEF Gate, Finally
  <2>10. w[i][1] = "disconnect_all" /\ j = 1
    BY <2>2, <2>4, <2>6, <2>8, <2>9 DEF Gate
  <2>11. w[e][1] = "caught"
    BY <2>3, <2>10 DEF Gate
  <2>12. i = 2 /\ e = 3
    BY <2>1, <2>2, <2>10
  <2>13. QED
    BY <2>10, <2>11, <2>12
<1>3. QED
  BY <1>1, <1>2

\* How the exception of a part of start() or stop() is handled.
RunRaises(w, h) ==
  h = 3 /\ w[2][1] = "router_run" /\ w[3][1] = "router_exit" /\ w[4][1] = "services_start"

PartRaises(w, h) ==
  h = 4 /\ w[2][1] = "services_start" /\ w[4][1] = "start_end" /\ w[5][1] = "exit"

RestRaises(w, h) == Final(w, h + 1) /\ w[h][1] = "start_end"

StopRaises(w, h) ==
  /\ w[h][1] = "caught"
  /\ h = 2 \/ (h = 3 /\ w[2][1] = "disconnect_all")

LockRaises(w, h) == h = 2 /\ w[2][1] \in {"router_stopped", "exit"}

Broken(w, h) ==
  RunRaises(w, h) \/ PartRaises(w, h) \/ RestRaises(w, h) \/ StopRaises(w, h) \/ LockRaises(w, h)

FirstHandler(w, h) ==
  h \in Places /\ h >= 2 /\ w[h][1] \in Handlers /\ \A i \in 2..(h - 1) : w[i][1] \notin Handlers

LEMMA RaiseHandled ==
  ASSUME NEW w, Sane(w), w[1][1] = "raise", NEW e \in Places, e >= 2, w[e][1] \in Lifecycle,
         \A i \in 2..(e - 1) : w[i][1] \notin Lifecycle \cup Handlers
  PROVE  \E h : FirstHandler(w, h) /\ Broken(w, h)
<1>1. /\ 2 \in Places /\ 3 \in Places /\ 4 \in Places /\ 2 >= 2 /\ 3 >= 2 /\ 4 >= 2
      /\ (\A i \in 2..(2 - 1) : FALSE) /\ (\A i \in 2..(3 - 1) : i = 2)
      /\ \A i \in 2..(4 - 1) : i = 2 \/ i = 3
      /\ 2 + 1 = 3 /\ 2 + 2 = 4 /\ 3 + 1 = 4 /\ 3 + 2 = 5 /\ 4 + 1 = 5 /\ 4 + 2 = 6
  BY DEF Places
<1>2. /\ \/ w[2][1] \in {"router_run", "services_start", "registry_start", "start_end", "caught",
                         "router_stopped", "exit"}
         \/ w[2][1] = "disconnect_all" /\ w[3][1] = "caught"
  BY RaiseAbove
<1>3. /\ Chain(w[2][1], w[3][1], w[4][1], FALSE) /\ Chain(w[3][1], w[4][1], w[5][1], FALSE)
      /\ Chain(w[4][1], w[5][1], w[6][1], FALSE)
  <2>1. /\ Chain(w[2][1], w[2 + 1][1], w[2 + 2][1], FALSE)
        /\ Chain(w[3][1], w[3 + 1][1], w[3 + 2][1], FALSE)
        /\ Chain(w[4][1], w[4 + 1][1], w[4 + 2][1], FALSE)
    BY <1>1, Below2
  <2>2. QED
    BY <1>1, <2>1
<1>4. CASE w[2][1] = "router_run"
  <2>1. w[3][1] = "router_exit"
    BY <1>3, <1>4 DEF Chain
  <2>2. w[4][1] = "services_start"
    BY <1>3, <2>1 DEF Chain
  <2>3. FirstHandler(w, 3)
    BY <1>1, <1>4, <2>1 DEF FirstHandler, Handlers, Marks, Finally
  <2>4. RunRaises(w, 3)
    BY <1>4, <2>1, <2>2 DEF RunRaises
  <2>5. QED
    BY <2>3, <2>4 DEF Broken
<1>5. CASE w[2][1] = "services_start"
  <2>1. w[3][1] = "registry_start"
    BY <1>3, <1>5 DEF Chain
  <2>2. w[4][1] = "start_end"
    BY <1>3, <2>1 DEF Chain
  <2>3. w[5][1] = "exit"
    BY <1>3, <2>2 DEF Chain
  <2>4. FirstHandler(w, 4)
    BY <1>1, <1>5, <2>1, <2>2 DEF FirstHandler, Handlers, Marks, Finally
  <2>5. PartRaises(w, 4)
    BY <1>5, <2>2, <2>3 DEF PartRaises
  <2>6. QED
    BY <2>4, <2>5 DEF Broken
<1>6. CASE w[2][1] = "registry_start"
  <2>1. w[3][1] = "start_end"
    BY <1>3, <1>6 DEF Chain
  <2>2. w[4][1] = "exit"
    BY <1>3, <2>1 DEF Chain
  <2>3. FirstHandler(w, 3)
    BY <1>1, <1>6, <2>1 DEF FirstHandler, Handlers, Marks, Finally
  <2>4. RestRaises(w, 3)
    <3>1. 3 \in 1..(4 - 1) /\ \A i \in 1..(4 - 1) : i = 1 \/ i = 2 \/ i = 3
      OBVIOUS
    <3>2. Final(w, 4)
      BY <1>1, <1>6, <2>1, <2>2, <3>1 DEF Final
    <3>3. QED
      BY <1>1, <2>1, <3>2 DEF RestRaises
  <2>5. QED
    BY <2>3, <2>4 DEF Broken
<1>7. CASE w[2][1] \in {"start_end", "caught", "router_stopped", "exit"}
  <2>1. FirstHandler(w, 2)
    BY <1>1, <1>7 DEF FirstHandler, Handlers, Marks, Finally
  <2>2. CASE w[2][1] = "start_end"
    <3>1. w[3][1] = "exit"
      BY <1>3, <2>2 DEF Chain
    <3>2. 2 \in 1..(3 - 1) /\ \A i \in 1..(3 - 1) : i = 1 \/ i = 2
      OBVIOUS
    <3>3. Final(w, 3)
      BY <1>1, <2>2, <3>1, <3>2 DEF Final
    <3>4. RestRaises(w, 2)
      BY <1>1, <2>2, <3>3 DEF RestRaises
    <3>5. QED
      BY <2>1, <3>4 DEF Broken
  <2>3. CASE w[2][1] = "caught"
    <3>1. StopRaises(w, 2)
      BY <2>3 DEF StopRaises
    <3>2. QED
      BY <2>1, <3>1 DEF Broken
  <2>4. CASE w[2][1] \in {"router_stopped", "exit"}
    <3>1. LockRaises(w, 2)
      BY <2>4 DEF LockRaises
    <3>2. QED
      BY <2>1, <3>1 DEF Broken
  <2>5. QED
    BY <1>7, <2>2, <2>3, <2>4
<1>8. CASE w[2][1] = "disconnect_all" /\ w[3][1] = "caught"
  <2>1. FirstHandler(w, 3)
    BY <1>1, <1>8 DEF FirstHandler, Handlers, Marks, Finally
  <2>2. StopRaises(w, 3)
    BY <1>8 DEF StopRaises
  <2>3. QED
    BY <2>1, <2>2 DEF Broken
<1>9. QED
  BY <1>2, <1>4, <1>5, <1>6, <1>7, <1>8

\* The first frame of the lifecycle, if there is one.
LEMMA FirstOne ==
  ASSUME NEW w, NEW i \in Places, i >= 2, w[i][1] \in Lifecycle
  PROVE  \E e \in Places : /\ e >= 2 /\ e <= i /\ w[e][1] \in Lifecycle
                           /\ \A j \in 2..(e - 1) : w[j][1] \notin Lifecycle
<1>1. PICK S : S = {j \in Nat : j >= 2 /\ w[j][1] \in Lifecycle}
  OBVIOUS
<1>2. S \in SUBSET Nat /\ i \in S
  BY <1>1 DEF Places
<1>3. PICK e : e \in S /\ \A n \in S : e <= n
  BY <1>2, MinExists
<1>4. e \in Nat /\ e >= 2 /\ e <= i /\ w[e][1] \in Lifecycle
  BY <1>1, <1>2, <1>3
<1>5. \A j \in 2..(e - 1) : j \notin S
  BY <1>3, <1>4
<1>6. \A j \in 2..(e - 1) : w[j][1] \notin Lifecycle
  BY <1>1, <1>4, <1>5
<1>7. QED
  BY <1>4, <1>6 DEF Places

LEMMA RaiseShape ==
  ASSUME NEW w, Sane(w), w[1][1] = "raise", NEW h, FirstHandler(w, h)
  PROVE  (\A i \in 1..h : w[i][1] \notin Lifecycle) \/ Broken(w, h)
<1>1. h \in Places /\ h >= 2 /\ w[h][1] \in Handlers /\ \A i \in 2..(h - 1) : w[i][1] \notin Handlers
  BY DEF FirstHandler
<1>2. ASSUME NEW i \in 1..h, w[i][1] \in Lifecycle PROVE Broken(w, h)
  <2>1. i \in Places /\ i >= 2 /\ i <= h
    <3>1. i # 1
      BY <1>2 DEF Lifecycle
    <3>2. QED
      BY <1>1, <3>1 DEF Places
  <2>2. PICK e \in Places : /\ e >= 2 /\ e <= i /\ w[e][1] \in Lifecycle
                            /\ \A j \in 2..(e - 1) : w[j][1] \notin Lifecycle
    BY <1>2, <2>1, FirstOne
  <2>3. \A j \in 2..(e - 1) : w[j][1] \notin Lifecycle \cup Handlers
    <3>1. \A j \in 2..(e - 1) : j \in 2..(h - 1)
      BY <1>1, <2>1, <2>2 DEF Places
    <3>2. QED
      BY <1>1, <2>2, <3>1
  <2>4. PICK g : FirstHandler(w, g) /\ Broken(w, g)
    BY <2>2, <2>3, RaiseHandled
  <2>5. g = h
    <3>1. g \in Places /\ g >= 2 /\ w[g][1] \in Handlers /\ \A j \in 2..(g - 1) : w[j][1] \notin Handlers
      BY <2>4 DEF FirstHandler
    <3>2. g \notin 2..(h - 1) /\ h \notin 2..(g - 1)
      BY <1>1, <3>1
    <3>3. QED
      BY <1>1, <3>1, <3>2 DEF Places
  <2>6. QED
    BY <2>4, <2>5
<1>3. QED
  BY <1>2

LEMMA RaiseFree ==
  ASSUME NEW w, Sane(w), w[1][1] = "raise", \A i \in Places : i >= 2 => w[i][1] \notin Handlers
  PROVE  \A i \in Places : w[i][1] \notin Lifecycle
<1>1. ASSUME NEW i \in Places, w[i][1] \in Lifecycle PROVE FALSE
  <2>1. i >= 2
    BY <1>1 DEF Places, Lifecycle
  <2>2. PICK e \in Places : /\ e >= 2 /\ e <= i /\ w[e][1] \in Lifecycle
                            /\ \A j \in 2..(e - 1) : w[j][1] \notin Lifecycle
    BY <1>1, <2>1, FirstOne
  <2>3. \A j \in 2..(e - 1) : w[j][1] \notin Lifecycle \cup Handlers
    <3>1. \A j \in 2..(e - 1) : j \in Places /\ j >= 2
      BY <2>2 DEF Places
    <3>2. QED
      BY <2>2, <3>1
  <2>4. PICK g : FirstHandler(w, g)
    BY <2>2, <2>3, RaiseHandled
  <2>5. QED
    BY <2>4 DEF FirstHandler
<1>2. QED
  BY <1>1

-------------------------------------------------------------------------------
\* An exception leaves frames.

LEMMA NoAwait ==
  ASSUME NEW w, Sane(w), NEW h, FirstHandler(w, h), NEW i \in Places, i < h,
         w[i + 1][1] = "registry_stop", w[i + 2][1] = "closed"
  PROVE  h = i + 3 /\ w[h][1] = "close_end"
<1>1. /\ i + 2 \in Places /\ (i + 2) + 1 = i + 3 /\ i + 3 \in Places /\ h \in Nat
      /\ i + 1 >= 2 /\ i + 2 >= 2 /\ i + 3 >= 2
  BY DEF Places, FirstHandler
<1>2. w[i + 3][1] = "close_end"
  <2>1. w[(i + 2) + 1][1] = "close_end"
    BY <1>1, GateAt DEF Gate
  <2>2. QED
    BY <1>1, <2>1
<1>3. h # i + 1 /\ h # i + 2
  BY DEF FirstHandler, Handlers, Marks, Finally
<1>4. i + 3 \notin 2..(h - 1)
  BY <1>2 DEF FirstHandler, Handlers, Finally
<1>5. h = i + 3
  BY <1>1, <1>3, <1>4 DEF Places
<1>6. QED
  BY <1>2, <1>5

LEMMA RaisedLinks ==
  ASSUME NEW w, Sane(w), NEW h, FirstHandler(w, h), w[h][1] \in Finally,
         NEW x, x[1] = Told(w[h]), x[2] = <<"raise">>, x[3] = w[h + 1], x[4] = w[h + 2]
  PROVE  Linked(x, 1) /\ Linked(x, 2)
<1>1. PICK f, m, k : f = w[h][1] /\ m = w[h + 1][1] /\ k = w[h + 2][1]
  OBVIOUS
<1>2. Chain(f, m, k, FALSE) /\ Gate(f, m, k, FALSE) /\ f \in Finally
  BY <1>1, Below2 DEF FirstHandler
<1>3. Chain(f, "raise", m, TRUE)
  BY <1>2 DEF Chain, Finally
<1>4. Gate(f, "raise", m, TRUE)
  BY <1>2 DEF Gate, Finally, Lifecycle
<1>5. Agrees(x[1], "raise")
  <2>1. x[1][1] = f /\ x[1][2] = TRUE
    BY <1>1 DEF Told
  <2>2. QED
    BY <1>2, <2>1 DEF Agrees, Finally, Reports
<1>6. Chain("raise", m, k, FALSE)
  BY DEF Chain
<1>7. Gate("raise", m, k, FALSE)
  <2>1. m # "raise" /\ m # "registry_accept" /\ m # "disconnect_all"
        /\ ~(m = "swallow" /\ k \in {"caught", "exit"})
    BY <1>2 DEF Gate, Finally
  <2>2. m \in Lifecycle => m \in {"services_start", "caught", "exit"}
    BY <1>2 DEF Gate, Chain, Finally, Lifecycle
  <2>3. QED
    BY <2>1, <2>2 DEF Gate
<1>8. Agrees(<<"raise">>, m)
  BY DEF Agrees, Reports
<1>9. x[1][1] = f /\ x[2][1] = "raise" /\ x[3][1] = m /\ x[4][1] = k
  BY <1>1 DEF Told
<1>10. PICK i : i = 2 /\ i + 1 = 3 /\ i + 2 = 4 /\ i \in Nat /\ i >= 2
  OBVIOUS
<1>11. Linked(x, 1)
  BY <1>3, <1>4, <1>5, <1>9, LinkedTop
<1>12. Linked(x, i)
  <2>1. /\ Chain(x[i][1], x[i + 1][1], x[i + 2][1], FALSE)
        /\ Gate(x[i][1], x[i + 1][1], x[i + 2][1], FALSE) /\ Agrees(x[i], x[i + 1][1])
    BY <1>6, <1>7, <1>8, <1>9, <1>10
  <2>2. QED
    BY <1>10, <2>1, LinkedAt
<1>13. QED
  BY <1>10, <1>11, <1>12

LEMMA RaisedSane ==
  ASSUME NEW w, Sane(w), NEW h, FirstHandler(w, h), w[h][1] \in Finally,
         NEW x, x[1] = Told(w[h]), x[2] = <<"raise">>, Splices(x, w, 2, h)
  PROVE  Sane(x) /\ (Due(x) => Due(w)) /\ (Has(x, "close_end") => Has(w, "close_end"))
<1>1. h \in Places /\ h \in Nat /\ h >= 2 /\ 1 \in Places /\ 2 \in Places
  BY DEF FirstHandler, Places
<1>2. /\ x[1][1] = w[h][1] /\ x[2][1] = "raise"
      /\ \A i \in Places : i = 1 \/ i = 2 \/ (i - 2 \in Places /\ h + (i - 2) \in Places /\ x[i] = w[h + (i - 2)])
  <2>1. \A i \in Places : i = 1 \/ i = 2 \/ (i - 2 \in Places /\ 2 + (i - 2) = i)
    BY DEF Places
  <2>2. \A j \in Places : h + j \in Places
    BY <1>1 DEF Places
  <2>3. \A j \in Places : x[2 + j] = w[h + j]
    BY DEF Splices
  <2>4. ASSUME NEW i \in Places, i # 1, i # 2
        PROVE  i - 2 \in Places /\ h + (i - 2) \in Places /\ x[i] = w[h + (i - 2)]
    <3>1. PICK j \in Places : j = i - 2 /\ 2 + j = i
      BY <2>1, <2>4
    <3>2. h + j \in Places /\ x[i] = w[h + j]
      BY <2>2, <2>3, <3>1
    <3>3. QED
      BY <3>1, <3>2
  <2>5. x[1][1] = w[h][1] /\ x[2][1] = "raise"
    BY DEF Told
  <2>6. QED
    BY <2>4, <2>5
<1>3. x[3] = w[h + 1] /\ x[4] = w[h + 2]
  <2>1. 1 \in Places /\ 2 \in Places /\ 2 + 1 = 3 /\ 2 + 2 = 4
    BY DEF Places
  <2>2. QED
    BY <2>1 DEF Splices
<1>4. Linked(x, 1) /\ Linked(x, 2)
  BY <1>3, RaisedLinks
<1>5. Placed(x)
  <2>1. ASSUME NEW i \in Places, NEW j \in Places, x[i][1] = "exit", x[j][1] \in Lifecycle, i < j
        PROVE  FALSE
    <3>1. i # 2 /\ j # 2 /\ j # 1
      BY <1>2, <2>1 DEF Lifecycle, Places
    <3>2. h + (j - 2) \in Places /\ w[h + (j - 2)][1] \in Lifecycle /\ j - 2 \in Places
      BY <1>2, <2>1, <3>1
    <3>3. CASE i = 1
      <4>1. w[h][1] = "exit"
        BY <1>2, <2>1, <3>3
      <4>2. h + (j - 2) <= h
        BY <1>1, <3>2, <4>1 DEF Sane, Placed
      <4>3. QED
        BY <1>1, <3>2, <4>2 DEF Places
    <3>4. CASE i # 1
      <4>1. h + (i - 2) \in Places /\ w[h + (i - 2)][1] = "exit"
        BY <1>2, <2>1, <3>1, <3>4
      <4>2. h + (j - 2) <= h + (i - 2)
        BY <3>2, <4>1 DEF Sane, Placed
      <4>3. QED
        BY <1>1, <2>1, <4>2 DEF Places
    <3>5. QED
      BY <3>3, <3>4
  <2>2. QED
    BY <2>1 DEF Placed, Places
<1>6. Once(x)
  <2>1. ASSUME NEW i \in Places, x[i][1] = "close_end"
        PROVE  (i = 1 /\ w[h][1] = "close_end") \/ (i >= 3 /\ h + (i - 2) \in Places /\ w[h + (i - 2)][1] = "close_end")
    BY <1>2, <2>1 DEF Places
  <2>2. ASSUME NEW i \in Places, NEW j \in Places, x[i][1] = "close_end", x[j][1] = "close_end"
        PROVE  i = j
    <3>1. \A a, b \in Places : w[a][1] = "close_end" /\ w[b][1] = "close_end" => a = b
      BY DEF Sane, Once
    <3>2. CASE i = 1 /\ j = 1
      BY <3>2
    <3>3. CASE i = 1 /\ j # 1
      <4>1. h = h + (j - 2) /\ j >= 3
        BY <1>1, <2>1, <2>2, <3>1, <3>3
      <4>2. QED
        BY <1>1, <4>1 DEF Places
    <3>4. CASE i # 1 /\ j = 1
      <4>1. h = h + (i - 2) /\ i >= 3
        BY <1>1, <2>1, <2>2, <3>1, <3>4
      <4>2. QED
        BY <1>1, <4>1 DEF Places
    <3>5. CASE i # 1 /\ j # 1
      <4>1. h + (i - 2) = h + (j - 2)
        BY <1>1, <2>1, <2>2, <3>1, <3>5
      <4>2. QED
        BY <1>1, <4>1 DEF Places
    <3>6. QED
      BY <3>2, <3>3, <3>4, <3>5
  <2>3. QED
    BY <2>2 DEF Once
<1>7. Sane(x)
  <2>1. \A i \in 1..2 : i = 1 \/ i = 2
    OBVIOUS
  <2>2. x[1][1] \notin Receiving /\ x[2][1] \notin Receiving
    BY <1>2 DEF Receiving, Finally
  <2>3. \A i \in 1..2 : /\ Linked(x, i)
                        /\ x[i][1] \in Receiving =>
                             i = 2 /\ \A j \in Places : w[h + j] = <<"end">>
    BY <1>4, <2>1, <2>2
  <2>4. QED
    BY <1>1, <1>5, <1>6, <2>3, SaneOver
<1>8. Has(x, "close_end") => Has(w, "close_end")
  BY <1>1, <1>2 DEF Has
<1>9. ASSUME NEW i \in Places, x[i][1] = "closed"
      PROVE  h + (i - 2) \in Places /\ w[h + (i - 2)][1] = "closed" /\ i - 2 \in Places
  BY <1>2, <1>9 DEF Finally
<1>10. Has(x, "closed") => Has(w, "closed")
  BY <1>9 DEF Has
<1>11. ASSUME Has(x, "closed"), Awaits(w) PROVE Awaits(x)
  <2>1. PICK i \in Places : /\ w[i][1] \in {"enter", "raise", "exit"}
                            /\ w[i + 1][1] = "registry_stop" /\ w[i + 2][1] = "closed"
    BY <1>11 DEF Awaits
  <2>2. CASE i < h
    <3>1. w[h][1] = "close_end"
      BY <2>1, <2>2, NoAwait
    <3>2. PICK j \in Places : x[j][1] = "closed"
      BY <1>11 DEF Has
    <3>3. PICK c \in Places : w[c][1] = "closed" /\ c > h
      <4>1. h + (j - 2) \in Places /\ w[h + (j - 2)][1] = "closed" /\ j - 2 \in Places
        BY <1>9, <3>2
      <4>2. h + (j - 2) > h
        BY <1>1, <4>1 DEF Places
      <4>3. QED
        BY <4>1, <4>2
    <3>4. w[c + 1][1] = "close_end" /\ c + 1 \in Places
      <4>1. Gate(w[c][1], w[c + 1][1], w[c + 2][1], TRUE)
        BY GateAt
      <4>2. QED
        BY <3>3, <4>1 DEF Gate, Places
    <3>5. c + 1 = h
      BY <1>1, <3>1, <3>4 DEF Sane, Once
    <3>6. QED
      BY <1>1, <3>3, <3>5 DEF Places
  <2>3. CASE i = h
    <3>1. 2 + 1 = 3 /\ 2 + 2 = 4
      OBVIOUS
    <3>2. x[2][1] = "raise" /\ x[2 + 1][1] = "registry_stop" /\ x[2 + 2][1] = "closed"
      BY <1>2, <1>3, <2>1, <2>3, <3>1
    <3>3. QED
      BY <1>1, <3>2 DEF Awaits
  <2>4. CASE i > h
    <3>1. PICK j \in Places : /\ x[j] = w[i] /\ x[j + 1] = w[i + 1] /\ x[j + 2] = w[i + 2]
      <4>1. PICK l \in Places : i = h + l
        <5>1. i - h \in Places /\ i = h + (i - h)
          BY <1>1, <2>4 DEF Places
        <5>2. QED
          BY <5>1
      <4>2. /\ l + 1 \in Places /\ l + 2 \in Places /\ 2 + l \in Places
            /\ h + (l + 1) = i + 1 /\ h + (l + 2) = i + 2
            /\ 2 + (l + 1) = (2 + l) + 1 /\ 2 + (l + 2) = (2 + l) + 2
        BY <1>1, <4>1 DEF Places
      <4>3. x[2 + l] = w[h + l] /\ x[2 + (l + 1)] = w[h + (l + 1)] /\ x[2 + (l + 2)] = w[h + (l + 2)]
        BY <4>2 DEF Splices
      <4>4. x[2 + l] = w[i] /\ x[(2 + l) + 1] = w[i + 1] /\ x[(2 + l) + 2] = w[i + 2]
        BY <4>1, <4>2, <4>3
      <4>5. QED
        BY <4>2, <4>4
    <3>2. QED
      BY <2>1, <3>1 DEF Awaits
  <2>5. QED
    BY <1>1, <2>2, <2>3, <2>4 DEF Places
<1>12. QED
  BY <1>7, <1>8, <1>10, <1>11 DEF Due

\* What an exception leaves alone.
Still ==
  /\ UNCHANGED <<running, cleanup, dispatching, started, owner, thread, closed, closing>>
  /\ UNCHANGED <<link, reading, open, connected, stopWatch>>
  /\ \A u \in Threads : Idle(u) => Idle(u)'

LEMMA UnwindsStill ==
  ASSUME WakeInv, NEW t \in Threads, Unwinds(t)
  PROVE  /\ todo[t] # <<>> /\ W(t)[1][1] = "raise" /\ Still /\ Easier
         /\ W(t)' = Word(Unwound(Tail(todo[t])))
         /\ \A u \in Threads : u # t => W(u)' = W(u)
<1>1. /\ todo[t] # <<>> /\ W(t)[1][1] = "raise"
  BY AtIs DEF Unwinds, Unwind
<1>2. todo' = [todo EXCEPT ![t] = Unwound(Tail(todo[t]))] /\ todo = [u \in Threads |-> todo[u]]
  BY IsSeq DEF Unwinds, Unwind
<1>3. todo'[t] = Unwound(Tail(todo[t])) /\ \A u \in Threads : u # t => todo'[u] = todo[u]
  BY <1>2
<1>4. W(t)' = Word(Unwound(Tail(todo[t]))) /\ \A u \in Threads : u # t => W(u)' = W(u)
  BY <1>3 DEF W
<1>5. \A u \in Threads : Idle(u) => Idle(u)'
  BY <1>1, <1>3 DEF Idle
<1>6. /\ UNCHANGED <<running, cleanup, dispatching, started, owner, thread, closed, closing>>
      /\ UNCHANGED <<link, reading, open, connected, stopWatch>>
  BY DEF Unwinds, runtimeVars, lifecycle, routerVars, connection, registryVars, endpoints
<1>7. Still
  BY <1>5, <1>6 DEF Still
<1>8. Easier
  <2>1. Reader \in Threads /\ Monitor \in Threads
    BY RuntimeAssumption
  <2>2. (Idle(Reader) => Idle(Reader)') /\ (Idle(Monitor) => Idle(Monitor)')
    BY <1>5, <2>1
  <2>3. QED
    BY <1>6, <2>2 DEF Easier, Unconnected, Unwatched
<1>9. QED
  BY <1>1, <1>4, <1>7, <1>8

LEMMA UnwindLoose ==
  ASSUME WakeInv, ReleaseInv, NEW t \in Threads, Unwinds(t), NEW w, w = W(t), NEW x, W(t)' = x,
         Keeps(x, w), Resting(w)
  PROVE  ReleaseInv'
<1>1. Still /\ Easier /\ \A u \in Threads : u # t => W(u)' = W(u)
  BY UnwindsStill
<1>2. UNCHANGED <<owner, thread>> /\ closing' = closing /\ (closed' => closed \/ Stopped)
  BY <1>1 DEF Still
<1>3. \A u \in Threads : Has(W(u)', "close_end") => Has(W(u), "close_end")
  BY <1>1 DEF Keeps
<1>4. CloserOK'
  BY <1>2, <1>3, CloserSame
<1>5. \A u \in Threads : \/ W(u)' = W(u)
                         \/ /\ Sane(W(u)') /\ Carries(W(u)', W(u))
                            /\ Resting(W(u)) \/ Follows(W(u), W(u)')
  BY <1>1 DEF Keeps
<1>6. QED
  BY <1>1, <1>2, <1>4, <1>5, LooseStep

LEMMA UnwindOwner ==
  ASSUME WakeInv, ReleaseInv, NEW t \in Threads, Unwinds(t), NEW w, w = W(t), NEW x, W(t)' = x,
         Sane(x), StartStage(x)', StopStage(x)', \E a \in Lifecycle : Has(w, a),
         Due(x) => Due(w), Has(x, "close_end") => Has(w, "close_end"),
         Halts(w) => Halts(x)',
         Halts(x)' => Unconnected' /\ Unwatched' /\ ~dispatching'
  PROVE  ReleaseInv'
<1>1. Still /\ Easier /\ \A u \in Threads : u # t => W(u)' = W(u)
  BY UnwindsStill
<1>2. t = owner /\ owner' = owner /\ closing' = closing /\ closed' = closed
  BY <1>1 DEF Still, ReleaseInv
<1>3. \A u \in Threads : Has(W(u)', "close_end") => Has(W(u), "close_end")
  BY <1>1
<1>4. CloserOK'
  BY <1>2, <1>3, CloserSame
<1>5. ~thread' => Idle(Reader)'
  BY <1>1 DEF Still, Easier, ReleaseInv
<1>6. "dispatcher" \in started' => "client" \in started'
  BY <1>1 DEF Still, ReleaseInv
<1>7. \A u \in Threads : u # t => \A a \in Lifecycle : ~Has(W(u), a)
  BY <1>2 DEF ReleaseInv
<1>8. \A a \in Lifecycle : Has(x, a) => t = owner'
  BY <1>2
<1>9. QED
  BY <1>1, <1>2, <1>4, <1>5, <1>6, <1>7, <1>8, LifecycleStep

\* Nobody handles the exception.

LEMMA EndSane ==
  ASSUME NEW x, \A i \in Places : x[i] = <<"end">>
  PROVE  /\ Sane(x) /\ \A a : a # "end" => ~Has(x, a)
         /\ ~Untold(x) /\ ~Due(x) /\ ~Returns(x)
<1>1. \A i \in Places : x[i][1] = "end"
  OBVIOUS
<1>2. \A i \in Places : i + 1 \in Places /\ i + 2 \in Places
  BY DEF Places
<1>3. \A a : a # "end" => ~Has(x, a)
  BY <1>1 DEF Has
<1>4. ~Untold(x)
  BY <1>1 DEF Untold, Reports
<1>5. ~Due(x) /\ ~Returns(x)
  BY <1>1, <1>3 DEF Due, Returns
<1>6. Placed(x) /\ Once(x)
  BY <1>1 DEF Placed, Once
<1>7. Bottom(x)
  BY <1>1 DEF Bottom, Receiving
<1>8. ASSUME NEW i \in Places PROVE Linked(x, i)
  <2>1. x[i][1] = "end" /\ x[i + 1][1] = "end" /\ x[i + 2][1] = "end"
    BY <1>1, <1>2
  <2>2. \A top : Chain("end", "end", "end", top) /\ Gate("end", "end", "end", top)
    BY DEF Chain, Gate, Finally, Lifecycle
  <2>3. Agrees(x[i], "end")
    BY <2>1 DEF Agrees, Reports
  <2>4. QED
    BY <2>1, <2>2, <2>3 DEF Linked
<1>9. QED
  BY <1>3, <1>4, <1>5, <1>6, <1>7, <1>8 DEF Sane

LEMMA LostKeeps ==
  ASSUME NEW w, Sane(w), w[1][1] = "raise", \A i \in Places : i >= 2 => w[i][1] \notin Handlers,
         NEW x, \A i \in Places : x[i] = <<"end">>
  PROVE  Keeps(x, w) /\ Resting(w)
<1>1. \A a \in Lifecycle : ~Has(w, a)
  BY RaiseFree DEF Has
<1>2. "end" \notin Lifecycle /\ 1 \in Places /\ 2 \in Places /\ 3 \in Places
  BY DEF Lifecycle, Places
<1>3. /\ Sane(x) /\ ~Untold(x) /\ ~Due(x) /\ ~Returns(x) /\ ~Has(x, "close_end")
      /\ \A a \in Lifecycle : ~Has(x, a)
  BY <1>2, EndSane
<1>4. Carries(x, w)
  BY <1>1, <1>2, <1>3 DEF Carries
<1>5. w[2][1] # "exit" /\ w[2][1] # "caught" /\ w[3][1] # "caught"
  BY <1>2 DEF Handlers, Marks, Finally
<1>6. Resting(w)
  BY <1>5 DEF Resting, Halting, Lifecycle
<1>7. QED
  BY <1>3, <1>4, <1>6 DEF Keeps

\* The first to handle it drops it.

LEMMA NoPattern ==
  ASSUME NEW w, Sane(w), NEW h, FirstHandler(w, h), w[h][1] \in Marks, NEW d \in Places, d >= h,
         \A i \in h..d : w[i][1] \in Marks
  PROVE  \A i \in 1..d : ~(/\ w[i][1] \in {"enter", "raise", "exit"}
                           /\ w[i + 1][1] = "registry_stop" /\ w[i + 2][1] = "closed")
<1>1. SUFFICES ASSUME NEW i \in 1..d, w[i][1] \in {"enter", "raise", "exit"},
                      w[i + 1][1] = "registry_stop", w[i + 2][1] = "closed"
               PROVE  FALSE
  OBVIOUS
<1>2. i \notin h..d /\ i \in Places /\ h \in Places
  BY <1>1 DEF Marks, FirstHandler, Places
<1>3. i < h
  BY <1>2 DEF Places
<1>4. w[h][1] = "close_end"
  BY <1>1, <1>2, <1>3, NoAwait
<1>5. QED
  BY <1>4 DEF Marks

LEMMA SwallowKeeps ==
  ASSUME NEW w, Sane(w), w[1][1] = "raise", NEW h, FirstHandler(w, h), w[h][1] = "swallow",
         NEW d \in Places, d >= h, \A i \in h..d : w[i][1] \in Marks, w[d + 1][1] \notin Marks,
         NEW x, Splices(x, w, 0, d)
  PROVE  Keeps(x, w) /\ Resting(w)
<1>1. ~Broken(w, h)
  BY DEF Broken, RunRaises, PartRaises, RestRaises, StopRaises, LockRaises
<1>2. \A i \in 1..h : w[i][1] \notin Lifecycle
  BY <1>1, RaiseShape
<1>3. h \in 1..d /\ h >= 2 /\ h \in Places
  BY DEF FirstHandler, Places
<1>4. \A i \in (h + 1)..d : w[i][1] \in Marks
  BY <1>3
<1>5. \A i \in 1..d : ~(/\ w[i][1] \in {"enter", "raise", "exit"}
                        /\ w[i + 1][1] = "registry_stop" /\ w[i + 2][1] = "closed")
  <2>1. w[h][1] \in Marks
    BY DEF Marks
  <2>2. QED
    BY <2>1, NoPattern
<1>6. Keeps(x, w)
  <2>1. w[h][1] # "raise"
    OBVIOUS
  <2>2. QED
    BY <1>2, <1>3, <1>4, <1>5, <2>1, LoosePop
<1>7. w[2][1] # "exit" /\ (w[2][1] = "disconnect_all" => w[3][1] # "caught") /\ w[2][1] # "caught"
  <2>1. CASE h = 2
    BY <2>1
  <2>2. CASE h = 3
    <3>1. 2 \in 2..(h - 1)
      BY <2>2
    <3>2. QED
      BY <2>2, <3>1 DEF FirstHandler, Handlers, Marks, Finally
  <2>3. CASE h > 3
    <3>1. 2 \in 2..(h - 1) /\ 3 \in 2..(h - 1)
      BY <1>3, <2>3 DEF Places
    <3>2. QED
      BY <3>1 DEF FirstHandler, Handlers, Marks, Finally
  <2>4. QED
    BY <1>3, <2>1, <2>2, <2>3 DEF Places
<1>8. Resting(w)
  BY <1>7 DEF Resting, Halting, Lifecycle
<1>9. QED
  BY <1>6, <1>8

\* The first to handle it ends, and raises it again.

LEMMA SettledKeeps ==
  ASSUME NEW w, Sane(w), w[1][1] = "raise", NEW h, FirstHandler(w, h),
         w[h][1] \in {"router_stopped", "close_end", "settled"},
         \A i \in 1..(h - 1) : w[i][1] \notin Lifecycle,
         NEW x, x[1] = Told(w[h]), x[2] = <<"raise">>, Splices(x, w, 2, h)
  PROVE  Keeps(x, w) /\ Resting(w)
<1>1. h \in Places /\ h \in Nat /\ h >= 2 /\ 1 \in Places /\ 2 \in Places /\ w[h][1] \in Finally
  BY DEF FirstHandler, Places, Finally
<1>2. Sane(x) /\ (Due(x) => Due(w)) /\ (Has(x, "close_end") => Has(w, "close_end"))
  BY <1>1, RaisedSane
<1>3. x[1][1] = w[h][1] /\ x[2][1] = "raise"
  BY DEF Told
<1>4. \A i \in Places : i = 1 \/ i = 2 \/ (i - 2 \in Places /\ h + (i - 2) \in Places /\ x[i] = w[h + (i - 2)])
  <2>1. \A i \in Places : i = 1 \/ i = 2 \/ (i - 2 \in Places /\ 2 + (i - 2) = i)
    BY DEF Places
  <2>2. \A j \in Places : h + j \in Places
    BY <1>1 DEF Places
  <2>3. \A j \in Places : x[2 + j] = w[h + j]
    BY DEF Splices
  <2>4. ASSUME NEW i \in Places, i # 1, i # 2
        PROVE  i - 2 \in Places /\ h + (i - 2) \in Places /\ x[i] = w[h + (i - 2)]
    <3>1. PICK j \in Places : j = i - 2 /\ 2 + j = i
      BY <2>1, <2>4
    <3>2. h + j \in Places /\ x[i] = w[h + j]
      BY <2>2, <2>3, <3>1
    <3>3. QED
      BY <3>1, <3>2
  <2>5. QED
    BY <2>4
<1>5. \A i \in Places : i \in 1..(h - 1) \/ i = h \/ (i - h \in Places /\ 2 + (i - h) \in Places
                                                       /\ w[i] = x[2 + (i - h)])
  <2>1. \A i \in Places : i \in 1..(h - 1) \/ i = h \/ (i - h \in Places /\ h + (i - h) = i)
    BY <1>1 DEF Places
  <2>2. \A j \in Places : 2 + j \in Places
    BY DEF Places
  <2>3. \A j \in Places : x[2 + j] = w[h + j]
    BY DEF Splices
  <2>4. ASSUME NEW i \in Places, ~(i \in 1..(h - 1) \/ i = h)
        PROVE  i - h \in Places /\ 2 + (i - h) \in Places /\ w[i] = x[2 + (i - h)]
    <3>1. PICK j \in Places : j = i - h /\ h + j = i
      BY <2>1, <2>4
    <3>2. 2 + j \in Places /\ w[i] = x[2 + j]
      BY <2>2, <2>3, <3>1
    <3>3. QED
      BY <3>1, <3>2
  <2>5. ASSUME NEW i \in Places
        PROVE  i \in 1..(h - 1) \/ i = h \/ (i - h \in Places /\ 2 + (i - h) \in Places
                                              /\ w[i] = x[2 + (i - h)])
    <3>1. CASE i \in 1..(h - 1) \/ i = h
      BY <3>1
    <3>2. CASE ~(i \in 1..(h - 1) \/ i = h)
      BY <2>4, <3>2
    <3>3. QED
      BY <3>1, <3>2
  <2>6. QED
    BY <2>5
<1>6. ASSUME NEW a \in Lifecycle PROVE Has(x, a) <=> Has(w, a)
  <2>1. Has(x, a) => Has(w, a)
    <3>1. SUFFICES ASSUME NEW i \in Places, x[i][1] = a PROVE Has(w, a)
      BY DEF Has
    <3>2. a # "raise"
      BY DEF Lifecycle
    <3>3. \E k \in Places : w[k][1] = a
      BY <1>1, <1>3, <1>4, <3>1, <3>2
    <3>4. QED
      BY <3>3 DEF Has
  <2>2. Has(w, a) => Has(x, a)
    BY <1>1, <1>3, <1>5 DEF Has
  <2>3. QED
    BY <2>1, <2>2
<1>7. Untold(x) => Untold(w)
  BY <1>3, <1>4 DEF Untold, Reports
<1>8. Returns(x) => Returns(w)
  <2>1. SUFFICES ASSUME NEW i \in Places, x[i][1] = "exit", x[i + 1][1] = "registry_stop"
                 PROVE  Returns(w)
    BY DEF Returns
  <2>2. /\ i - 2 \in Places /\ h + (i - 2) \in Places /\ x[i] = w[h + (i - 2)]
    BY <1>3, <1>4, <2>1
  <2>3. /\ (i - 2) + 1 \in Places /\ 2 + ((i - 2) + 1) = i + 1
        /\ h + ((i - 2) + 1) = (h + (i - 2)) + 1
    BY <1>1, <2>2 DEF Places
  <2>4. x[i + 1] = w[(h + (i - 2)) + 1]
    <3>1. x[2 + ((i - 2) + 1)] = w[h + ((i - 2) + 1)]
      BY <2>3 DEF Splices
    <3>2. QED
      BY <2>3, <3>1
  <2>5. QED
    BY <2>1, <2>2, <2>4 DEF Returns
<1>9. Carries(x, w)
  BY <1>2, <1>3, <1>6, <1>7, <1>8 DEF Carries
<1>10. w[2][1] # "exit" /\ w[2][1] # "caught" /\ (w[2][1] = "disconnect_all" => w[3][1] # "caught")
  <2>1. CASE h = 2
    BY <2>1
  <2>2. CASE h = 3
    <3>1. 2 \in 2..(h - 1)
      BY <2>2
    <3>2. QED
      BY <2>2, <3>1 DEF FirstHandler, Handlers, Marks, Finally
  <2>3. CASE h > 3
    <3>1. 2 \in 2..(h - 1) /\ 3 \in 2..(h - 1)
      BY <1>1, <2>3
    <3>2. QED
      BY <3>1 DEF FirstHandler, Handlers, Marks, Finally
  <2>4. QED
    BY <1>1, <2>1, <2>2, <2>3
<1>11. Resting(w)
  BY <1>10 DEF Resting, Halting, Lifecycle
<1>12. QED
  BY <1>2, <1>9, <1>11 DEF Keeps

LEMMA ToldStages ==
  ASSUME WakeInv, ReleaseInv, NEW t \in Threads, Unwinds(t), NEW w, w = W(t), w[1][1] = "raise",
         NEW h, FirstHandler(w, h), Broken(w, h), w[h][1] \in Finally \ {"router_stopped"},
         NEW x, Sane(x), x[1] = Told(w[h]), x[2] = <<"raise">>, x[3] = w[h + 1]
  PROVE  /\ StartStage(x)' /\ StopStage(x)' /\ (Halts(w) => Halts(x)')
         /\ Halts(x)' => Unconnected' /\ Unwatched' /\ ~dispatching'
<1>1. Sane(w) /\ StartStage(w) /\ StopStage(w) /\ Still /\ Easier
  BY UnwindsStill DEF ReleaseInv
<1>2. x[1][1] = w[h][1] /\ x[2][1] = "raise" /\ x[3][1] = w[h + 1][1]
  BY DEF Told
<1>3. /\ (Unconnected => Unconnected') /\ (Unwatched => Unwatched') /\ dispatching' = dispatching
      /\ running' = running /\ cleanup' = cleanup /\ started' = started
  BY <1>1 DEF Easier
<1>4. 1 \in Places /\ 2 \in Places /\ 3 \in Places /\ 4 \in Places
  BY DEF Places
<1>5. CASE RunRaises(w, h)
  <2>1. /\ w[2][1] = "router_run" /\ w[3][1] = "router_exit" /\ w[4][1] = "services_start"
        /\ h = 3 /\ 3 + 1 = 4
    BY <1>5 DEF RunRaises
  <2>2. PICK i \in Places : i = 4
    BY <1>4
  <2>3. w[i][1] = "services_start" /\ \A j \in 1..(i - 1) : w[j][1] \in StartNames
    <3>1. \A j \in 1..(i - 1) : j = 1 \/ j = 2 \/ j = 3
      BY <2>2
    <3>2. QED
      BY <2>1, <2>2, <3>1 DEF StartNames
  <2>4. /\ ~cleanup /\ ~running /\ ~dispatching /\ started = {} /\ Unwatched /\ ~Halts(w)
        /\ Unconnected
    BY <1>1, <2>3, StartingSays
  <2>5. PICK k \in Places : k = 3
    BY <1>4
  <2>6. x[k][1] = "services_start" /\ \A j \in 1..(k - 1) : x[j][1] \in StartNames \ {"router_run"}
    <3>1. \A j \in 1..(k - 1) : j = 1 \/ j = 2
      BY <2>5
    <3>2. QED
      BY <1>2, <2>1, <2>5, <3>1 DEF StartNames
  <2>7. /\ ~cleanup' /\ ~running' /\ ~dispatching' /\ started' = {} /\ Unwatched' /\ Unconnected'
    BY <1>3, <2>4
  <2>8. StartStage(x)' /\ StopStage(x)' /\ ~Halts(x)'
    BY <2>6, <2>7, StartingStages
  <2>9. QED
    BY <2>4, <2>8
<1>6. CASE PartRaises(w, h)
  <2>1. /\ w[2][1] = "services_start" /\ w[4][1] = "start_end" /\ w[5][1] = "exit"
        /\ h = 4 /\ 4 + 1 = 5
    BY <1>6 DEF PartRaises
  <2>2. PICK i \in Places : i = 2
    BY <1>4
  <2>3. w[i][1] = "services_start" /\ \A j \in 1..(i - 1) : w[j][1] \in StartNames
    <3>1. \A j \in 1..(i - 1) : j = 1
      BY <2>2
    <3>2. QED
      BY <2>1, <2>2, <3>1 DEF StartNames
  <2>4. /\ ~cleanup /\ ~running /\ ~dispatching /\ started = {} /\ Unwatched /\ ~Halts(w)
        /\ Unconnected
    BY <1>1, <2>3, StartingSays
  <2>5. PICK e \in Places : e = 3
    BY <1>4
  <2>6. Final(x, e)
    <3>1. 1 \in 1..(e - 1) /\ \A j \in 1..(e - 1) : j = 1 \/ j = 2
      BY <2>5
    <3>2. QED
      BY <1>2, <2>1, <2>5, <3>1 DEF Final
  <2>7. /\ ~cleanup' /\ ~dispatching' /\ Unwatched' /\ Unconnected'
    BY <1>3, <2>4
  <2>8. x[1][1] = "start_end" /\ x[2][1] = "raise"
    BY <1>2, <2>1
  <2>9. StartStage(x)' /\ StopStage(x)' /\ ~Halts(x)'
    BY <2>6, <2>7, <2>8, LateStages
  <2>10. QED
    BY <2>4, <2>9
<1>7. CASE RestRaises(w, h)
  <2>1. Final(w, h + 1) /\ w[h][1] = "start_end" /\ w[h + 1][1] = "exit"
    BY <1>7 DEF RestRaises, Final
  <2>2. Has(w, "start_end") /\ ~Has(w, "services_start")
    BY <1>1, <2>1, LateWord
  <2>3. /\ ~cleanup /\ Unwatched /\ (dispatching => "dispatcher" \in started)
        /\ Unconnected \/ "client" \in started
    BY <1>1, <2>2 DEF StartStage
  <2>4. ~Halts(w)
    BY <2>2 DEF Halts
  <2>5. PICK e \in Places : e = 3
    BY <1>4
  <2>6. Final(x, e)
    <3>1. 1 \in 1..(e - 1) /\ \A j \in 1..(e - 1) : j = 1 \/ j = 2
      BY <2>5
    <3>2. QED
      BY <1>2, <2>1, <2>5, <3>1 DEF Final
  <2>7. /\ ~cleanup' /\ Unwatched' /\ (dispatching' => "dispatcher" \in started')
        /\ Unconnected' \/ "client" \in started'
    BY <1>3, <2>3
  <2>8. x[1][1] = "start_end" /\ x[2][1] = "raise"
    BY <1>2, <2>1
  <2>9. StartStage(x)' /\ StopStage(x)' /\ ~Halts(x)'
    BY <2>6, <2>7, <2>8, LateStages
  <2>10. QED
    BY <2>4, <2>9
<1>8. CASE LockRaises(w, h)
  <2>1. h = 2 /\ w[2][1] = "exit"
    BY <1>8 DEF LockRaises
  <2>2. ~Has(w, "start_end") /\ ~Has(w, "rolled")
    <3>1. \A j \in Places : w[j][1] \in Lifecycle => j <= 2
      BY <1>1, <1>4, <2>1 DEF Sane, Placed
    <3>2. \A j \in Places : j <= 2 => j = 1 \/ j = 2
      BY DEF Places
    <3>3. QED
      BY <2>1, <3>1, <3>2 DEF Has, Lifecycle
  <2>3. Halts(w) => Stopped
    <3>1. t = owner
      BY <1>4, <2>1 DEF ReleaseInv, Has, Lifecycle
    <3>2. ~Starting
      BY <2>2, <3>1 DEF Starting, ReleaseInv, Lifecycle
    <3>3. QED
      BY <3>2 DEF Halts, Stopped
  <2>4. PICK e \in Places : e = 1
    BY <1>4
  <2>5. x[e][1] = "exit" /\ (\A i \in 1..(e - 1) : x[i][1] \notin Lifecycle)
        /\ x[e + 1][1] # "registry_stop"
    <3>1. e + 1 = 2 /\ \A i \in 1..(e - 1) : FALSE
      BY <2>4
    <3>2. QED
      BY <1>2, <2>1, <2>4, <3>1
  <2>6. StartStage(x)' /\ StopStage(x)' /\ (Halts(x)' <=> ~running' /\ ~cleanup')
    BY <2>5, ExitStages
  <2>7. Halts(x)' <=> Halts(w)
    BY <1>3, <2>2, <2>6 DEF Halts
  <2>8. Halts(x)' => Unconnected' /\ Unwatched' /\ ~dispatching'
    BY <1>3, <2>3, <2>7 DEF ReleaseInv
  <2>9. QED
    BY <2>6, <2>7, <2>8
<1>9. ~StopRaises(w, h)
  BY DEF StopRaises, Finally
<1>10. QED
  BY <1>5, <1>6, <1>7, <1>8, <1>9 DEF Broken

LEMMA UnwindFinally ==
  ASSUME WakeInv, ReleaseInv, NEW t \in Threads, Unwinds(t), NEW w, w = W(t), w[1][1] = "raise",
         NEW h, FirstHandler(w, h), w[h][1] \in Finally,
         NEW x, W(t)' = x, x[1] = Told(w[h]), x[2] = <<"raise">>, Splices(x, w, 2, h)
  PROVE  ReleaseInv'
<1>1. Sane(w) /\ h \in Places
  BY DEF ReleaseInv, FirstHandler
<1>2. CASE w[h][1] \in {"router_stopped", "close_end", "settled"}
           /\ \A i \in 1..(h - 1) : w[i][1] \notin Lifecycle
  <2>1. Keeps(x, w) /\ Resting(w)
    BY <1>1, <1>2, SettledKeeps
  <2>2. QED
    BY <2>1, UnwindLoose
<1>3. CASE Broken(w, h) /\ w[h][1] # "router_stopped"
  <2>1. Sane(x) /\ (Due(x) => Due(w)) /\ (Has(x, "close_end") => Has(w, "close_end"))
    BY <1>1, RaisedSane
  <2>2. x[3] = w[h + 1]
    <3>1. 1 \in Places /\ 2 + 1 = 3
      BY DEF Places
    <3>2. QED
      BY <3>1 DEF Splices
  <2>3. /\ StartStage(x)' /\ StopStage(x)' /\ (Halts(w) => Halts(x)')
        /\ Halts(x)' => Unconnected' /\ Unwatched' /\ ~dispatching'
    BY <1>3, <2>1, <2>2, ToldStages
  <2>4. \E a \in Lifecycle : Has(w, a)
    <3>1. w[h][1] \in {"router_exit", "start_end", "exit"}
      BY <1>3 DEF Broken, RunRaises, PartRaises, RestRaises, StopRaises, LockRaises, Finally
    <3>2. w[h][1] \in Lifecycle
      BY <3>1 DEF Lifecycle
    <3>3. QED
      BY <1>1, <3>2 DEF Has
  <2>5. QED
    BY <2>1, <2>3, <2>4, UnwindOwner
<1>4. CASE \A i \in 1..h : w[i][1] \notin Lifecycle
  <2>1. h \in 1..h /\ \A i \in 1..(h - 1) : i \in 1..h
    BY <1>1 DEF Places
  <2>2. w[h][1] \in {"close_end", "settled"}
    BY <1>4, <2>1 DEF Finally, Lifecycle
  <2>3. QED
    BY <1>2, <1>4, <2>1, <2>2
<1>5. CASE Broken(w, h) /\ w[h][1] = "router_stopped"
  <2>1. h = 2
    BY <1>5 DEF Broken, RunRaises, PartRaises, RestRaises, StopRaises, LockRaises
  <2>2. \A i \in 1..(h - 1) : w[i][1] \notin Lifecycle
    BY <2>1 DEF Lifecycle
  <2>3. QED
    BY <1>2, <1>5, <2>2
<1>6. QED
  BY <1>1, <1>3, <1>4, <1>5, RaiseShape

\* The stop() of a part raised: the rest is stopped, and its report is told.

LEMMA WarnedSane ==
  ASSUME NEW w, Sane(w), NEW h \in Places, NEW v, WarnedWord(v, w, h)
  PROVE  /\ Sane(v) /\ \A i \in Places : v[i][1] = w[i][1]
         /\ Due(v) <=> Due(w)
         /\ \A a : Has(v, a) <=> Has(w, a)
<1>1. \A i \in Places : v[i][1] = w[i][1]
  <2>1. \A f : Told(f)[1] = f[1]
    BY DEF Told
  <2>2. ASSUME NEW i \in Places PROVE v[i][1] = w[i][1]
    <3>1. v[i] = w[i] \/ v[i] = Told(w[i])
      BY DEF WarnedWord
    <3>2. QED
      BY <2>1, <3>1
  <2>3. QED
    BY <2>2
<1>2. \A i \in Places : i + 1 \in Places /\ i + 2 \in Places
  BY DEF Places
<1>3. \A a : Has(v, a) <=> Has(w, a)
  BY <1>1 DEF Has
<1>4. Awaits(v) <=> Awaits(w)
  BY <1>1, <1>2 DEF Awaits
<1>5. Placed(v) /\ Once(v)
  BY <1>1 DEF Sane, Placed, Once
<1>6. Bottom(v)
  <2>1. ASSUME NEW i \in Places, NEW j \in Places, v[i][1] \in Receiving, i < j PROVE v[j] = <<"end">>
    <3>1. w[j] = <<"end">>
      BY <1>1, <2>1 DEF Sane, Bottom
    <3>2. w[j][1] \notin Reports
      BY <3>1 DEF Reports
    <3>3. QED
      BY <3>1, <3>2 DEF WarnedWord
  <2>2. QED
    BY <2>1 DEF Bottom
<1>7. ASSUME NEW i \in Places PROVE Linked(v, i)
  <2>1. v[i][1] = w[i][1] /\ v[i + 1][1] = w[i + 1][1] /\ v[i + 2][1] = w[i + 2][1]
    BY <1>1, <1>2
  <2>2. Linked(w, i)
    BY DEF Sane
  <2>3. Agrees(v[i], w[i + 1][1])
    <3>1. Agrees(w[i], w[i + 1][1])
      BY <2>2 DEF Linked
    <3>2. CASE v[i] = w[i]
      BY <3>1, <3>2
    <3>3. CASE w[i][1] \in Reports /\ v[i] = Told(w[i])
      <4>1. v[i][2] = TRUE /\ v[i][1] \in Reports
        BY <2>1, <3>3 DEF Told
      <4>2. w[i + 1][1] # "registry_stop"
        <5>1. Chain(w[i][1], w[i + 1][1], w[i + 2][1], TRUE)
          BY GateAt
        <5>2. QED
          BY <3>3, <5>1 DEF Chain, Reports
      <4>3. QED
        BY <4>1, <4>2 DEF Agrees, Reports
    <3>4. QED
      BY <3>2, <3>3 DEF WarnedWord
  <2>4. QED
    BY <2>1, <2>2, <2>3 DEF Linked
<1>8. QED
  BY <1>1, <1>3, <1>4, <1>5, <1>6, <1>7 DEF Sane, Due

LEMMA UnwindCaught ==
  ASSUME WakeInv, ReleaseInv, NEW t \in Threads, Unwinds(t), NEW w, w = W(t), w[1][1] = "raise",
         NEW h, FirstHandler(w, h), w[h][1] = "caught", NEW v, WarnedWord(v, w, h),
         NEW d \in Places, d >= h, \A i \in h..d : w[i][1] \in Marks,
         NEW x, W(t)' = x, Splices(x, v, 0, d)
  PROVE  ReleaseInv'
<1>1. Sane(w) /\ StopStage(w) /\ h \in Places /\ h \in Nat /\ h >= 2 /\ Still /\ Easier
  BY UnwindsStill DEF ReleaseInv, FirstHandler, Places
<1>2. d = h
  <2>1. w[h + 1][1] \notin Marks
    <3>1. Chain(w[h][1], w[h + 1][1], w[h + 2][1], TRUE)
      BY <1>1, GateAt
    <3>2. QED
      BY <3>1 DEF Chain, Marks, Reports
  <2>2. d > h => h + 1 \in h..d
    BY <1>1 DEF Places
  <2>3. QED
    BY <1>1, <2>1, <2>2 DEF Places
<1>3. /\ Sane(v) /\ \A i \in Places : v[i][1] = w[i][1]
      /\ Due(v) <=> Due(w)
      /\ \A a : Has(v, a) <=> Has(w, a)
  BY <1>1, WarnedSane
<1>4. Sane(x)
  BY <1>3, PopSane
<1>5. PICK r \in Places : /\ r > h /\ w[r][1] \in Reports
                          /\ \A j \in h..(r - 1) : w[j][1] \in EndNames
  BY <1>1, CaughtEnds
<1>6. v[r] = Told(w[r])
  <2>1. PICK k \in Places : h < k /\ k <= r /\ w[k][1] \in Reports /\ v[k] = Told(w[k])
    BY <1>5 DEF WarnedWord
  <2>2. k = r
    <3>1. k < r => k \in h..(r - 1)
      BY <1>1, <2>1 DEF Places
    <3>2. w[k][1] \notin EndNames
      BY <2>1 DEF EndNames, Reports
    <3>3. QED
      BY <1>5, <2>1, <3>1, <3>2 DEF Places
  <2>3. QED
    BY <2>1, <2>2
<1>7. PICK s \in Places : s = r - h
  <2>1. r - h \in Places
    BY <1>1, <1>5 DEF Places
  <2>2. QED
    BY <2>1
<1>8. \A i \in Places : x[i] = v[h + i] /\ h + i \in Places /\ x[i][1] = w[h + i][1]
  <2>1. \A i \in Places : 0 + i = i /\ h + i \in Places
    BY <1>1 DEF Places
  <2>2. QED
    BY <1>2, <1>3, <2>1 DEF Splices
<1>9. x[s][2] = TRUE /\ x[s][1] = w[r][1]
  <2>1. h + s = r
    BY <1>1, <1>7 DEF Places
  <2>2. Told(w[r])[1] = w[r][1] /\ Told(w[r])[2] = TRUE
    BY DEF Told
  <2>3. x[s] = v[r]
    BY <1>8, <2>1
  <2>4. QED
    BY <1>6, <2>2, <2>3
<1>10. Ending(x, s)
  <2>1. ASSUME NEW i \in 1..(s - 1) PROVE x[i][1] \in EndNames
    <3>1. i \in Places /\ h + i \in h..(r - 1)
      BY <1>1, <1>7 DEF Places
    <3>2. QED
      BY <1>5, <1>8, <3>1
  <2>2. QED
    BY <1>5, <1>9, <2>1 DEF Ending
<1>11. \A a : Has(x, a) => Has(w, a)
  BY <1>8 DEF Has
<1>12. /\ (Has(w, "rolled") => ~cleanup) /\ (Has(w, "report") => cleanup /\ ~running /\ ~open /\ stopWatch)
       /\ (Has(w, "router_stopped") => Idle(Reader) /\ ~link)
  BY <1>1 DEF StopStage
<1>13. Has(w, w[r][1]) /\ (w[r][1] = "rolled" \/ w[r][1] = "report")
  BY <1>5 DEF Has, Reports
<1>14. /\ running' = running /\ cleanup' = cleanup /\ open' = open /\ stopWatch' = stopWatch
       /\ link' = link /\ (Idle(Reader) => Idle(Reader)')
  BY <1>1 DEF Still, Easier
<1>15. StartStage(x)' /\ StopStage(x)' /\ ~Halts(x)'
  <2>1. x[s][1] = "rolled" => ~cleanup'
    BY <1>9, <1>12, <1>13, <1>14
  <2>2. x[s][1] = "report" => /\ cleanup' /\ ~running'
                              /\ (~open' /\ stopWatch') \/ x[1][1] = "registry_stop"
    BY <1>9, <1>12, <1>13, <1>14
  <2>3. x[s][2] = FALSE =>
           /\ dispatching' => Has(x, "dispatcher_stop")
           /\ Unwatched' \/ (x[s][1] = "report" /\ Halting(x))
           /\ Unconnected' \/ Has(x, "caught")
    BY <1>9
  <2>4. Has(x, "router_stopped") =>
           Idle(Reader)' /\ (~link' \/ x[1][1] \in {"disconnect", "release"})
    BY <1>11, <1>12, <1>14
  <2>5. QED
    BY <1>4, <1>10, <2>1, <2>2, <2>3, <2>4, EndingStages
<1>16. ~Halts(w)
  BY <1>12, <1>13 DEF Halts
<1>17. (Due(x) => Due(w)) /\ (Has(x, "close_end") => Has(w, "close_end"))
  <2>1. w[h][1] \in Marks
    BY DEF Marks
  <2>2. \A i \in 1..d : ~(/\ w[i][1] \in {"enter", "raise", "exit"}
                          /\ w[i + 1][1] = "registry_stop" /\ w[i + 2][1] = "closed")
    BY <1>1, <2>1, NoPattern
  <2>3. \A i \in 1..d : i \in Places /\ i + 1 \in Places /\ i + 2 \in Places
    BY DEF Places
  <2>4. \A i \in 1..d : ~(/\ v[i][1] \in {"enter", "raise", "exit"}
                          /\ v[i + 1][1] = "registry_stop" /\ v[i + 2][1] = "closed")
    BY <1>3, <2>2, <2>3
  <2>5. 0 \in Nat /\ \A i \in 1..0 : x[i][1] \notin {"closed", "close_end"}
    OBVIOUS
  <2>6. Due(x) => Due(v)
    BY <2>4, <2>5, DueOver
  <2>7. QED
    BY <1>3, <1>11, <2>6
<1>18. \E a \in Lifecycle : Has(w, a)
  BY <1>13 DEF Lifecycle
<1>19. QED
  BY <1>4, <1>15, <1>16, <1>17, <1>18, UnwindOwner

LEMMA UnwindReleases ==
  ASSUME WakeInv, ReleaseInv, NEW t \in Threads, Unwinds(t)
  PROVE  ReleaseInv'
<1>1. PICK w : w = W(t)
  OBVIOUS
<1>2. PICK x : x = Word(Unwound(Tail(todo[t])))
  OBVIOUS
<1>3. todo[t] # <<>> /\ w[1][1] = "raise" /\ W(t)' = x /\ Sane(w)
  BY <1>1, <1>2, UnwindsStill DEF ReleaseInv
<1>4. \/ /\ \A i \in Places : x[i] = <<"end">>
         /\ \A i \in Places : i >= 2 => w[i][1] \notin Handlers
      \/ \E h \in Places :
           /\ h >= 2 /\ \A i \in 2..(h - 1) : w[i][1] \notin Handlers
           /\ \/ /\ w[h][1] \in Finally
                 /\ x[1] = Told(w[h]) /\ x[2] = <<"raise">> /\ Splices(x, w, 2, h)
              \/ \E d \in Places : \E v :
                   /\ \/ w[h][1] = "swallow" /\ v = w
                      \/ w[h][1] = "caught" /\ WarnedWord(v, w, h)
                   /\ Splices(x, v, 0, d)
                   /\ d >= h /\ \A i \in h..d : w[i][1] \in Marks
                   /\ w[d + 1][1] \notin Marks
  BY <1>1, <1>2, <1>3, UnwindWord
<1>5. CASE /\ \A i \in Places : x[i] = <<"end">>
           /\ \A i \in Places : i >= 2 => w[i][1] \notin Handlers
  <2>1. Keeps(x, w) /\ Resting(w)
    BY <1>3, <1>5, LostKeeps
  <2>2. QED
    BY <1>1, <1>3, <2>1, UnwindLoose
<1>6. ASSUME NEW h \in Places, h >= 2, \A i \in 2..(h - 1) : w[i][1] \notin Handlers,
             w[h][1] \in Finally, x[1] = Told(w[h]), x[2] = <<"raise">>, Splices(x, w, 2, h)
      PROVE  ReleaseInv'
  <2>1. FirstHandler(w, h)
    BY <1>6 DEF FirstHandler, Handlers
  <2>2. QED
    BY <1>1, <1>3, <1>6, <2>1, UnwindFinally
<1>7. ASSUME NEW h \in Places, h >= 2, \A i \in 2..(h - 1) : w[i][1] \notin Handlers,
             NEW d \in Places, NEW v,
             \/ w[h][1] = "swallow" /\ v = w
             \/ w[h][1] = "caught" /\ WarnedWord(v, w, h),
             Splices(x, v, 0, d), d >= h, \A i \in h..d : w[i][1] \in Marks,
             w[d + 1][1] \notin Marks
      PROVE  ReleaseInv'
  <2>1. FirstHandler(w, h)
    BY <1>7 DEF FirstHandler, Handlers, Marks
  <2>2. CASE w[h][1] = "swallow" /\ v = w
    <3>1. Keeps(x, w) /\ Resting(w)
      BY <1>3, <1>7, <2>1, <2>2, SwallowKeeps
    <3>2. QED
      BY <1>1, <1>3, <3>1, UnwindLoose
  <2>3. CASE w[h][1] = "caught" /\ WarnedWord(v, w, h)
    BY <1>1, <1>3, <1>7, <2>1, <2>3, UnwindCaught
  <2>4. QED
    BY <1>7, <2>2, <2>3
<1>8. QED
  BY <1>4, <1>5, <1>6, <1>7

-------------------------------------------------------------------------------
\* Every step, and what it is all about.

LEMMA RouterReleases ==
  ASSUME WakeInv, ReleaseInv, RouterNext, UNCHANGED <<registryVars, lifecycle, calls>>
  PROVE  ReleaseInv'
<1>1. CASE ReaderEnds \/ Receive \/ Accept \/ Store
  BY <1>1, ReaderReleases
<1>2. ASSUME NEW t \in Threads,
             \/ Connect(t) \/ Connected(t) \/ NotConnected(t)
             \/ CancelConnect(t) \/ Release(t)
             \/ RouterStart(t) \/ RouterRun(t) \/ RouterExit(t)
             \/ RouterStop(t) \/ JoinReader(t) \/ RouterStopped(t)
             \/ WaitFor(t) \/ Look(t) \/ Check(t) \/ TimeOut(t)
      PROVE  ReleaseInv'
  BY <1>2, RouterStarts, PartsRelease, ReaderRuns, RouterStops, StoppedReleases, WaitReleases
<1>3. QED
  BY <1>1, <1>2 DEF RouterNext

LEMMA RegistryKeepsReleased ==
  ASSUME WakeInv, RegistryInv, ReleaseInv, RegistryNext, UNCHANGED <<routerVars, runtimeVars>>
  PROVE  ReleaseInv'
<1>1. CASE Tick
  BY <1>1, TickReleases
<1>2. CASE MonitorEnds \/ Expire
  <2>1. Monitor \in Threads
    BY RuntimeAssumption
  <2>2. QED
    BY <1>2, <2>1, RegistryReleases
<1>3. ASSUME NEW t \in Threads,
             \/ RegistryStart(t) \/ RegistryStop(t) \/ JoinMonitor(t) \/ DisconnectAll(t)
             \/ AcceptEnvelope(t) \/ Prune(t) \/ PruneVehicle(t) \/ RemoveEndpoint(t)
      PROVE  ReleaseInv'
  BY <1>3, RegistryStarts, PartsRelease, RegistryReleases
<1>4. QED
  BY <1>1, <1>2, <1>3 DEF RegistryNext

LEMMA RuntimeReleases ==
  ASSUME WakeInv, ReleaseInv, RuntimeNext
  PROVE  ReleaseInv'
<1>1. CASE Handle \/ Published
  <2>1. Reader \in Threads
    BY RuntimeAssumption
  <2>2. QED
    BY <1>1, <2>1, CallReleases
<1>2. ASSUME NEW t \in Threads,
             \/ Call(t) \/ Leave(t) \/ Enter(t) \/ Exit(t) \/ Unwinds(t)
             \/ Start(t) \/ ServicesStart(t) \/ StartEnd(t) \/ Rolled(t)
             \/ Stop(t) \/ DispatcherStop(t) \/ JoinHandler(t) \/ Report(t)
             \/ Close(t) \/ CloseWait(t) \/ Closed(t) \/ CloseEnd(t)
      PROVE  ReleaseInv'
  BY <1>2, CallReleases, EnterReleases, ExitReleases, UnwindReleases, StartReleases,
     ServicesStarts, StartEnds, RolledReleases, StopReleases, DispatcherStops, ReportReleases,
     CloseReleases, ClosedReleases
<1>3. QED
  BY <1>1, <1>2 DEF RuntimeNext

LEMMA ReleaseStep ==
  ASSUME WakeInv, RegistryInv, ReleaseInv, [Next]_vars
  PROVE  ReleaseInv'
<1>1. CASE RouterNext /\ Wrapped /\ UNCHANGED <<registryVars, lifecycle, calls>>
  BY <1>1, RouterReleases
<1>2. CASE RegistryNext /\ UNCHANGED <<routerVars, runtimeVars>>
  BY <1>2, RegistryKeepsReleased
<1>3. CASE RuntimeNext
  BY <1>3, RuntimeReleases
<1>4. CASE UNCHANGED vars
  BY <1>4, TickReleases
<1>5. QED
  BY <1>1, <1>2, <1>3, <1>4 DEF Next, Terminating

LEMMA ReleaseInit ==
  ASSUME Init PROVE ReleaseInv
<1>1. /\ todo = [t \in Threads |-> <<>>] /\ ~running /\ ~cleanup /\ ~closed /\ ~closing
      /\ started = {} /\ ~dispatching /\ ~link /\ ~reading /\ ~open /\ connected = {}
      /\ Reader \in Threads /\ Monitor \in Threads
  BY RuntimeAssumption DEF Init, RouterInit, RegistryInit
<1>2. ASSUME NEW t \in Threads
      PROVE  \A i \in Places : W(t)[i] = <<"end">>
  BY <1>1, EmptyWord DEF W
<1>3. ASSUME NEW t \in Threads
      PROVE  /\ Sane(W(t)) /\ \A a : a # "end" => ~Has(W(t), a)
             /\ ~Untold(W(t)) /\ ~Due(W(t)) /\ ~Returns(W(t))
             /\ W(t)[1][1] = "end"
  <2>1. 1 \in Places
    BY DEF Places
  <2>2. QED
    BY <1>2, <2>1, EndSane
<1>4. \A t \in Threads : StartStage(W(t)) /\ StopStage(W(t))
  BY <1>3 DEF StartStage, StopStage
<1>5. Idle(Reader) /\ Idle(Monitor) /\ Unconnected /\ Unwatched
  BY <1>1 DEF Idle, Unconnected, Unwatched
<1>6. \A t \in Threads : \A a \in Lifecycle : ~Has(W(t), a)
  BY <1>3 DEF Lifecycle
<1>7. \A t \in Threads : ~Has(W(t), "close_end")
  BY <1>3
<1>8. QED
  BY <1>1, <1>3, <1>4, <1>5, <1>6, <1>7 DEF ReleaseInv

\* A start() that failed, or a stop() that did not, leaves no connection, no
\* thread, no endpoint and no executor behind unless a cleanup is still due, and
\* a closed runtime stays so (runtime.py:334-346, 379-389, 412-437), for any
\* threads, commands, capacities, time-outs and interleavings.
THEOREM StoppedLeavesNothing == Spec => []StoppedIsReleased
<1>1. Init => WakeInv /\ RegistryInv /\ ReleaseInv
  BY WakeInit, ReleaseInit
<1>2. WakeInv /\ RegistryInv /\ ReleaseInv /\ [Next]_vars => (WakeInv /\ RegistryInv /\ ReleaseInv)'
  BY WakeStep, RegistryStep, ReleaseStep
<1>3. ReleaseInv => StoppedIsReleased
  <2>1. SUFFICES ASSUME ReleaseInv PROVE StoppedIsReleased
    OBVIOUS
  <2>2. Stopped => Released
    BY <2>1 DEF ReleaseInv, Unconnected, Unwatched, Released
  <2>3. owner = None => ~Starting
    BY <2>1, RuntimeAssumption DEF ReleaseInv, Starting, Lifecycle
  <2>4. QED
    BY <2>1, <2>2, <2>3 DEF StoppedIsReleased, Stopped, ReleaseInv
<1>4. QED
  BY <1>1, <1>2, <1>3, PTL DEF Spec
==============================================================================
