------------------------ MODULE MavlinkExchange_proofs -----------------------
(***************************************************************************)
(* What two nodes keep for any callers, workers, limits and commands: an   *)
(* acknowledged request was handled, the bytes, assemblies and places that *)
(* the limits are about are counted exactly, no request is handled again   *)
(* while the assembler remembers it, nobody is left waiting, and nobody    *)
(* answers for a dispatcher that has been stopped from outside.            *)
(***************************************************************************)
EXTENDS MavlinkExchange, SequenceTheorems, FiniteSetTheorems, WellFoundedInduction, TLAPS

-------------------------------------------------------------------------------
\* Least elements, and what is left of a stack.

\* A set of numbers that is not empty has a least one.
LEMMA MinExists ==
  ASSUME NEW S \in SUBSET Nat, S # {}
  PROVE  Min(S) \in S /\ \A n \in S : Min(S) <= n
<1> DEFINE R == {ss \in Nat \X Nat : ss[1] < ss[2]}
<1>1. IsWellFoundedOn(R, Nat)
  BY NatLessThanWellFounded DEF OpToRel
<1>2. PICK least \in S : \A n \in S : ~(<<n, least>> \in R)
  BY <1>1, WFMin
<1>3. ASSUME NEW n \in S PROVE least <= n
  <2>1. n \in Nat /\ least \in Nat
    OBVIOUS
  <2>2. ~(<<n, least>> \in R)
    BY <1>2
  <2>3. QED
    BY <2>1, <2>2
<1>4. QED
  BY <1>3 DEF Min

LEMMA SuffixType ==
  ASSUME NEW S, NEW stack \in Seq(S), NEW i \in 1..Len(stack)
  PROVE  SubSeq(stack, i, Len(stack)) \in Seq(S)
<1>1. Len(stack) \in Nat /\ DOMAIN stack = 1..Len(stack)
  OBVIOUS
<1>2. \A j \in i..Len(stack) : stack[j] \in S
  BY <1>1, ElementOfSeq
<1>3. QED
  BY <1>1, <1>2, SubSeqProperties

\* The marks that are dropped leave frames that were there.
LEMMA ReachedType ==
  ASSUME NEW S, NEW stack \in Seq(S)
  PROVE  Reached(stack) \in Seq(S)
<1> DEFINE places == {j \in 1..Len(stack) : stack[j][1] \notin Marks}
           i == IF places # {} THEN Min(places) ELSE 0
<1>1. Reached(stack) = IF i = 0 THEN <<>> ELSE SubSeq(stack, i, Len(stack))
  BY DEF Reached, SelectInSeq
<1>2. places \in SUBSET Nat /\ (places # {} => Min(places) \in places)
  <2>1. places \in SUBSET Nat
    OBVIOUS
  <2>2. QED
    BY <2>1, MinExists
<1>3. i = 0 \/ i \in 1..Len(stack)
  BY <1>2
<1> HIDE DEF i
<1>4. QED
  BY <1>1, <1>3, SuffixType

\* Unwinding leaves frames that were there, some told of the exception.
LEMMA UnwoundType ==
  ASSUME NEW S, NEW stack \in Seq(S), <<"raise">> \in S,
         \A name \in Reports \cup Finally : <<name, TRUE>> \in S
  PROVE  Unwound(stack) \in Seq(S)
<1> DEFINE places == {k \in 1..Len(stack) : stack[k][1] \in Marks \cup Finally}
           i == IF places # {} THEN Min(places) ELSE 0
           above == SubSeq(stack, i + 1, Len(stack))
           reports == {k \in 1..Len(above) : above[k][1] \in Reports}
           j == IF reports # {} THEN Min(reports) ELSE 0
<1>1. Unwound(stack) =
        CASE i = 0 -> <<>>
          [] i > 0 /\ stack[i][1] = "swallow" -> Reached(above)
          [] i > 0 /\ stack[i][1] = "caught" ->
               Reached([above EXCEPT ![j] = Told(above[j])])
          [] OTHER -> <<Told(stack[i]), <<"raise">>>> \o above
  BY DEF Unwound, SelectInSeq
<1>2. /\ Len(stack) \in Nat
      /\ i = 0 \/ (i \in 1..Len(stack) /\ stack[i][1] \in Marks \cup Finally)
  <2>1. places \in SUBSET Nat
    OBVIOUS
  <2>2. places # {} => Min(places) \in places
    BY <2>1, MinExists
  <2>3. QED
    BY <2>2
<1> HIDE DEF i
<1>3. i > 0 => i \in 1..Len(stack) /\ stack[i][1] \in Marks \cup Finally
  BY <1>2
<1>4. above \in Seq(S)
  <2>1. \A k \in (i + 1)..Len(stack) : stack[k] \in S
    BY <1>2, ElementOfSeq
  <2>2. QED
    BY <1>2, <2>1, SubSeqProperties
<1> HIDE DEF above
<1>5. j = 0 \/ (j \in 1..Len(above) /\ above[j][1] \in Reports)
  <2>1. reports \in SUBSET Nat
    BY <1>4
  <2>2. reports # {} => Min(reports) \in reports
    BY <2>1, MinExists
  <2>3. QED
    BY <2>2
<1> HIDE DEF j
<1>6. [above EXCEPT ![j] = Told(above[j])] \in Seq(S)
  <2>1. CASE j = 0
    <3>1. [above EXCEPT ![j] = Told(above[j])] = above
      BY <1>4, <2>1
    <3>2. QED
      BY <1>4, <3>1
  <2>2. CASE j \in 1..Len(above) /\ above[j][1] \in Reports
    BY <1>4, <2>2, ExceptSeq DEF Told
  <2>3. QED
    BY <1>5, <2>1, <2>2
<1>7. i > 0 /\ stack[i][1] \notin Marks => <<Told(stack[i]), <<"raise">>>> \o above \in Seq(S)
  <2>1. SUFFICES ASSUME i > 0, stack[i][1] \notin Marks
                 PROVE  <<Told(stack[i]), <<"raise">>>> \o above \in Seq(S)
    OBVIOUS
  <2>2. Told(stack[i]) \in S
    BY <1>3, <2>1 DEF Told
  <2>3. <<Told(stack[i]), <<"raise">>>> \in Seq(S)
    BY <2>2
  <2>4. QED
    BY <1>4, <2>3, ConcatProperties
<1>8. CASE i = 0
  BY <1>1, <1>8
<1>9. CASE i > 0 /\ stack[i][1] = "swallow"
  <2>1. Unwound(stack) = Reached(above)
    BY <1>1, <1>9
  <2>2. QED
    BY <1>4, <2>1, ReachedType
<1>10. CASE i > 0 /\ stack[i][1] = "caught"
  <2> DEFINE told == [above EXCEPT ![j] = Told(above[j])]
  <2>1. Unwound(stack) = Reached(told)
    BY <1>1, <1>10
  <2>2. told \in Seq(S)
    BY <1>6
  <2> HIDE DEF told
  <2>3. QED
    BY <2>1, <2>2, ReachedType
<1>11. CASE i > 0 /\ stack[i][1] \notin Marks
  BY <1>1, <1>7, <1>11 DEF Marks
<1>12. QED
  BY <1>2, <1>8, <1>9, <1>10, <1>11 DEF Marks

-------------------------------------------------------------------------------
\* Acknowledgements and what they claim.

\* The frames that carry a packet.
Carriers == {"send", "transmit", "published", "on_packet", "handed"}

\* An acknowledgement is about a request that has been handled, a request is one
\* that its caller has sent.
Honest(packet, counts) ==
  /\ packet[1] = "ack" /\ packet[2] \in Callers => counts[packet[2]] > 0
  /\ packet[1] = "request" => packet = RequestOf(packet[2])

\* What may be on a stack when requests have been handled that often.
Fits(f, counts) ==
  /\ f[1] \in Carriers => Honest(f[2], counts)
  /\ f[1] = "answer" => f[2][1] # "request" /\ Honest(<<f[2][1], f[2][2][2]>>, counts)

Sound(stack, counts) ==
  /\ stack \in Seq(ToSet(stack))
  /\ \A f \in ToSet(stack) : Fits(f, counts)

\* The inductive invariant: wherever an acknowledgement is, it is honest.
AckInv ==
  /\ runs \in [Callers -> Nat]
  /\ calls \subseteq Threads \X Commands
  /\ todo = [t \in Threads |-> todo[t]]
  /\ \A t \in Threads : Sound(todo[t], runs)
  /\ \A f \in air :
       /\ f = [x \in DOMAIN f |-> f[x]] /\ "packet" \in DOMAIN f
       /\ Honest(f.packet, runs)
  /\ response = [c \in Callers |-> response[c]]
  /\ result = [c \in Callers |-> result[c]]
  /\ \A c \in Callers : "ack" \in {response[c], result[c]} => runs[c] > 0

LEMMA SeqWider ==
  ASSUME NEW S, NEW T, S \subseteq T, NEW stack \in Seq(S) PROVE stack \in Seq(T)
<1>1. \A i \in 1..Len(stack) : stack[i] \in T
  BY ElementOfSeq
<1>2. stack \in [1..Len(stack) -> T] /\ Len(stack) \in Nat
  BY <1>1
<1>3. QED
  BY <1>2

LEMMA SoundFrom ==
  ASSUME NEW S, NEW stack \in Seq(S), NEW counts, \A f \in S : Fits(f, counts)
  PROVE  Sound(stack, counts)
<1>1. ToSet(stack) \subseteq S
  BY ElementOfSeq DEF ToSet
<1>2. stack \in Seq(ToSet(stack))
  <2>1. stack \in [1..Len(stack) -> ToSet(stack)] /\ Len(stack) \in Nat
    BY DEF ToSet
  <2>2. QED
    BY <2>1
<1>3. QED
  BY <1>1, <1>2 DEF Sound

LEMMA SoundConcat ==
  ASSUME NEW a, NEW b, NEW counts, Sound(a, counts), Sound(b, counts)
  PROVE  Sound(a \o b, counts)
<1> DEFINE S == ToSet(a) \cup ToSet(b)
<1>1. a \in Seq(S) /\ b \in Seq(S)
  BY DEF Sound
<1>2. a \o b \in Seq(S)
  BY <1>1, ConcatProperties
<1>3. \A f \in S : Fits(f, counts)
  BY DEF Sound
<1> HIDE DEF S
<1>4. QED
  BY <1>2, <1>3, SoundFrom

LEMMA SoundOne ==
  ASSUME NEW f, NEW counts, Fits(f, counts) PROVE Sound(<<f>>, counts)
<1> DEFINE S == {f}
<1>1. <<f>> \in Seq(S) /\ \A g \in S : Fits(g, counts)
  OBVIOUS
<1> HIDE DEF S
<1>2. QED
  BY <1>1, SoundFrom

LEMMA SoundEmpty == ASSUME NEW counts PROVE Sound(<<>>, counts)
<1> DEFINE S == {}
<1>1. <<>> \in Seq(S) /\ \A f \in S : Fits(f, counts)
  OBVIOUS
<1> HIDE DEF S
<1>2. QED
  BY <1>1, SoundFrom

LEMMA SoundReached ==
  ASSUME NEW stack, NEW counts, Sound(stack, counts) PROVE Sound(Reached(stack), counts)
  BY SoundFrom, ReachedType DEF Sound

LEMMA SoundUnwound ==
  ASSUME NEW stack, NEW counts, Sound(stack, counts) PROVE Sound(Unwound(stack), counts)
<1> DEFINE S == ToSet(stack) \cup {<<"raise">>}
                \cup {<<name, TRUE>> : name \in Reports \cup Finally}
<1>1. stack \in Seq(S)
  BY SeqWider DEF Sound
<1>2. <<"raise">> \in S /\ \A name \in Reports \cup Finally : <<name, TRUE>> \in S
  OBVIOUS
<1>3. \A f \in S : Fits(f, counts)
  <2>1. Fits(<<"raise">>, counts)
    BY DEF Fits, Carriers
  <2>2. ASSUME NEW name \in Reports \cup Finally PROVE Fits(<<name, TRUE>>, counts)
    BY DEF Fits, Carriers, Reports, Finally
  <2>3. QED
    BY <2>1, <2>2 DEF Sound
<1> HIDE DEF S
<1>4. QED
  BY <1>1, <1>2, <1>3, UnwoundType, SoundFrom

LEMMA SoundTail ==
  ASSUME NEW stack, NEW counts, Sound(stack, counts), stack # <<>>
  PROVE  Sound(Tail(stack), counts)
<1>1. Tail(stack) \in Seq(ToSet(stack))
  BY HeadTailProperties DEF Sound
<1>2. QED
  BY <1>1, SoundFrom DEF Sound

LEMMA SoundList ==
  ASSUME NEW counts
  PROVE  /\ \A a, b : Fits(a, counts) /\ Fits(b, counts) => Sound(<<a, b>>, counts)
         /\ \A a, b, c : Fits(a, counts) /\ Fits(b, counts) /\ Fits(c, counts)
              => Sound(<<a, b, c>>, counts)
         /\ \A a, b, c, d : Fits(a, counts) /\ Fits(b, counts) /\ Fits(c, counts) /\ Fits(d, counts)
              => Sound(<<a, b, c, d>>, counts)
<1>1. ASSUME NEW a, NEW b, Fits(a, counts), Fits(b, counts) PROVE Sound(<<a, b>>, counts)
  <2> DEFINE S == {a, b}
  <2>1. <<a, b>> \in Seq(S) /\ \A g \in S : Fits(g, counts)
    BY <1>1
  <2> HIDE DEF S
  <2>2. QED
    BY <2>1, SoundFrom
<1>2. ASSUME NEW a, NEW b, NEW c, Fits(a, counts), Fits(b, counts), Fits(c, counts)
      PROVE  Sound(<<a, b, c>>, counts)
  <2> DEFINE S == {a, b, c}
  <2>1. <<a, b, c>> \in Seq(S) /\ \A g \in S : Fits(g, counts)
    BY <1>2
  <2> HIDE DEF S
  <2>2. QED
    BY <2>1, SoundFrom
<1>3. ASSUME NEW a, NEW b, NEW c, NEW d,
             Fits(a, counts), Fits(b, counts), Fits(c, counts), Fits(d, counts)
      PROVE  Sound(<<a, b, c, d>>, counts)
  <2> DEFINE S == {a, b, c, d}
  <2>1. <<a, b, c, d>> \in Seq(S) /\ \A g \in S : Fits(g, counts)
    BY <1>3
  <2> HIDE DEF S
  <2>2. QED
    BY <2>1, SoundFrom
<1>4. QED
  BY <1>1, <1>2, <1>3


\* Counts that grow take no honesty away.
LEMMA HonestKept ==
  ASSUME NEW counts \in [Callers -> Nat], NEW more \in [Callers -> Nat],
         \A c \in Callers : counts[c] <= more[c], NEW packet, Honest(packet, counts)
  PROVE  Honest(packet, more)
  BY DEF Honest

LEMMA FitsKept ==
  ASSUME NEW counts \in [Callers -> Nat], NEW more \in [Callers -> Nat],
         \A c \in Callers : counts[c] <= more[c], NEW f, Fits(f, counts)
  PROVE  Fits(f, more)
  BY HonestKept DEF Fits

LEMMA SoundKept ==
  ASSUME NEW counts \in [Callers -> Nat], NEW more \in [Callers -> Nat],
         \A c \in Callers : counts[c] <= more[c], NEW stack, Sound(stack, counts)
  PROVE  Sound(stack, more)
  BY FitsKept DEF Sound

LEMMA AtTop ==
  ASSUME AckInv, NEW t \in Threads, todo[t] # <<>>
  PROVE  Fits(Head(todo[t]), runs) /\ Sound(Tail(todo[t]), runs)
<1>1. Sound(todo[t], runs)
  BY DEF AckInv
<1>2. Head(todo[t]) \in ToSet(todo[t])
  BY <1>1 DEF Sound, ToSet
<1>3. QED
  BY <1>1, <1>2, SoundTail DEF Sound

LEMMA DoesSound ==
  ASSUME AckInv, NEW t \in Threads, todo[t] # <<>>, NEW frames, Sound(frames, runs)
  PROVE  Sound(Becomes(t, frames), runs)
  BY AtTop, SoundConcat, SoundReached DEF Becomes

acknowledged == <<runs, air, response, result>>

\* A step that moves stacks only.
LEMMA StacksKeep ==
  ASSUME AckInv, UNCHANGED acknowledged, calls' \subseteq calls, todo' = [t \in Threads |-> todo'[t]],
         \A t \in Threads : todo'[t] = todo[t] \/ Sound(todo'[t], runs)
  PROVE  AckInv'
<1>1. runs' = runs /\ air' = air /\ response' = response /\ result' = result
  BY DEF acknowledged
<1>2. \A t \in Threads : Sound(todo'[t], runs)
  BY DEF AckInv
<1>3. QED
  BY <1>1, <1>2 DEF AckInv

LEMMA DoesKeeps ==
  ASSUME AckInv, UNCHANGED acknowledged, calls' \subseteq calls, NEW t \in Threads, todo[t] # <<>>,
         NEW frames, Sound(frames, runs), Does(t, frames)
  PROVE  AckInv'
<1>1. Sound(Becomes(t, frames), runs)
  BY DoesSound
<1>2. /\ todo' = [u \in Threads |-> todo'[u]]
      /\ \A u \in Threads : todo'[u] = todo[u] \/ Sound(todo'[u], runs)
  BY <1>1 DEF Does, AckInv
<1>3. QED
  BY <1>2, StacksKeep

\* Frames without a packet, and those with one that claims nothing.
LEMMA PlainFits ==
  ASSUME NEW counts
  PROVE  /\ \A name : name \notin Carriers \cup {"answer"} =>
              Fits(<<name>>, counts) /\ \A argument : Fits(<<name, argument>>, counts)
         /\ \A name \in Carriers : \A packet : Honest(packet, counts) => Fits(<<name, packet>>, counts)
         /\ \A kind, a, b : kind \notin {"ack", "request"} => Honest(<<kind, a, b>>, counts)
<1>1. ASSUME NEW name, name \notin Carriers \cup {"answer"}
      PROVE  Fits(<<name>>, counts) /\ \A argument : Fits(<<name, argument>>, counts)
  BY <1>1 DEF Fits
<1>2. ASSUME NEW name \in Carriers, NEW packet, Honest(packet, counts)
      PROVE  Fits(<<name, packet>>, counts)
  BY <1>2 DEF Fits, Carriers
<1>3. ASSUME NEW kind, NEW a, NEW b, kind \notin {"ack", "request"}
      PROVE  Honest(<<kind, a, b>>, counts)
  BY <1>3 DEF Honest
<1>4. QED
  BY <1>1, <1>2, <1>3

LEMMA RequestFits ==
  ASSUME NEW counts, NEW c PROVE Fits(<<"send", RequestOf(c)>>, counts)
<1>1. Honest(RequestOf(c), counts)
  BY DEF Honest, RequestOf
<1>2. QED
  BY <1>1, PlainFits DEF Carriers

\* The answers that are sent: an acknowledgement needs a reason.
LEMMA AnswersSound ==
  ASSUME NEW counts, NEW kind, kind # "request", NEW packet, Honest(<<kind, packet[2]>>, counts)
  PROVE  /\ Fits(<<"send", Answer(kind, packet)>>, counts)
         /\ Sound(Respond(kind, packet), counts)
<1>1. Honest(Answer(kind, packet), counts)
  BY DEF Honest, Answer
<1>2. Fits(<<"send", Answer(kind, packet)>>, counts)
  BY <1>1, PlainFits DEF Carriers
<1>3. Fits(<<"swallow">>, counts)
  BY PlainFits DEF Carriers
<1>4. QED
  BY <1>2, <1>3, SoundList, SoundEmpty DEF Respond

\* The peer's steps that move packets.
LEMMA PacketsKeep ==
  ASSUME AckInv, UNCHANGED <<dispatcherVars, calls>>, NEW t \in Threads,
         Send(t) \/ Transmit(t) \/ OnPacket(t)
  PROVE  AckInv'
<1>1. todo[t] # <<>> /\ runs' = runs
  BY DEF Send, Transmit, OnPacket, At, dispatcherVars
<1>2. Fits(Head(todo[t]), runs)
  BY <1>1, AtTop
<1>3. Fits(<<"raise">>, runs) /\ Fits(<<"sent">>, runs) /\ Fits(<<"refresh">>, runs)
  BY PlainFits DEF Carriers
<1>4. /\ Sound(<<>>, runs) /\ Sound(<<<<"raise">>>>, runs)
      /\ Sound(<<<<"refresh">>, <<"raise">>>>, runs)
  BY <1>3, SoundEmpty, SoundOne, SoundList
<1>5. CASE Send(t)
  <2>1. Honest(Arg(t), runs)
    BY <1>2, <1>5 DEF Send, At, Arg, Fits, Carriers
  <2>2. Fits(<<"transmit", Arg(t)>>, runs)
    BY <2>1, PlainFits DEF Carriers
  <2>3. Sound(<<<<"transmit", Arg(t)>>, <<"sent">>>>, runs)
    BY <1>3, <2>2, SoundList
  <2>4. UNCHANGED acknowledged
    BY <1>1, <1>5 DEF Send, acknowledged, channelVars, peerVars, requests
  <2>5. QED
    BY <1>1, <1>4, <1>5, <2>3, <2>4, DoesKeeps DEF Send, Raises
<1>6. CASE Transmit(t)
  <2>1. Honest(Arg(t), runs)
    BY <1>2, <1>6 DEF Transmit, At, Arg, Fits, Carriers
  <2>2. response' = response /\ result' = result
    BY <1>6 DEF Transmit, peerVars, requests
  <2>3. PICK frames : Does(t, frames) /\ Sound(frames, runs)
    BY <1>4, <1>6 DEF Transmit, Raises
  <2>4. /\ todo' = [u \in Threads |-> todo'[u]]
        /\ \A u \in Threads : Sound(todo'[u], runs)
    <3>1. Sound(Becomes(t, frames), runs)
      BY <1>1, <2>3, DoesSound
    <3>2. QED
      BY <2>3, <3>1 DEF Does, AckInv
  <2>5. air' = air \/ \E count : air' = air \cup Fragments(Peer(NodeOf(t)), Arg(t), count)
    BY <1>6 DEF Transmit
  <2>6. ASSUME NEW count, NEW f \in Fragments(Peer(NodeOf(t)), Arg(t), count)
        PROVE  /\ f = [x \in DOMAIN f |-> f[x]] /\ "packet" \in DOMAIN f
               /\ Honest(f.packet, runs)
    BY <2>1 DEF Fragments
  <2>7. \A f \in air' :
          /\ f = [x \in DOMAIN f |-> f[x]] /\ "packet" \in DOMAIN f
          /\ Honest(f.packet, runs)
    BY <2>5, <2>6 DEF AckInv
  <2>8. QED
    BY <1>1, <2>2, <2>4, <2>7 DEF AckInv
<1>7. CASE OnPacket(t)
  <2>1. Honest(Arg(t), runs)
    BY <1>2, <1>7 DEF OnPacket, At, Arg, Fits, Carriers
  <2>2. air' = air /\ result' = result
    BY <1>7 DEF OnPacket, channelVars
  <2>3. PICK frames : Does(t, frames) /\ Sound(frames, runs)
    <3>1. Fits(<<"handed", Arg(t)>>, runs) /\ Sound(<<<<"handed", Arg(t)>>>>, runs)
      BY <2>1, PlainFits, SoundOne DEF Carriers
    <3>2. Fits(<<"send", Answer("pong", Arg(t))>>, runs)
      BY AnswersSound DEF Honest
    <3>3. Sound(<<<<"handed", Arg(t)>>, <<"send", Answer("pong", Arg(t))>>>>, runs)
      BY <3>1, <3>2, SoundList
    <3>4. QED
      BY <1>4, <1>7, <3>1, <3>3 DEF OnPacket
  <2>4. /\ todo' = [u \in Threads |-> todo'[u]]
        /\ \A u \in Threads : Sound(todo'[u], runs)
    <3>1. Sound(Becomes(t, frames), runs)
      BY <1>1, <2>3, DoesSound
    <3>2. QED
      BY <2>3, <3>1 DEF Does, AckInv
  <2>5. /\ response' = [c \in Callers |-> response'[c]]
        /\ \A c \in Callers : response'[c] = "ack" => runs[c] > 0
    <3>1. CASE response' = response
      BY <3>1 DEF AckInv
    <3>2. ASSUME NEW answered, \A c \in answered : c = Arg(t)[2],
                 response' = [c \in Callers |-> IF c \in answered THEN Arg(t)[1] ELSE response[c]]
          PROVE  /\ response' = [c \in Callers |-> response'[c]]
                 /\ \A c \in Callers : response'[c] = "ack" => runs[c] > 0
      BY <2>1, <3>2 DEF AckInv, Honest
    <3>3. QED
      BY <1>7, <3>1, <3>2 DEF OnPacket
  <2>6. QED
    BY <1>1, <2>2, <2>4, <2>5 DEF AckInv
<1>8. QED
  BY <1>5, <1>6, <1>7

\* The peer's steps that a caller makes after his request.
LEMMA RequestsKeep ==
  ASSUME AckInv, UNCHANGED <<dispatcherVars, calls>>, NEW t \in Threads,
         Register(t) \/ Wait(t) \/ Settled(t)
  PROVE  AckInv'
<1>1. todo[t] # <<>> /\ runs' = runs /\ air' = air /\ response' = response
  BY DEF Register, Wait, Settled, At, dispatcherVars, channelVars
<1>2. PICK frames : Does(t, frames) /\ Sound(frames, runs)
  <2>1. Sound(<<>>, runs) /\ Sound(<<<<"raise">>>>, runs)
    BY SoundEmpty, SoundOne, PlainFits DEF Carriers
  <2>2. Fits(<<"wait">>, runs) /\ Fits(<<"settled", FALSE>>, runs)
    BY PlainFits DEF Carriers
  <2>3. Fits(<<"send", RequestOf(t)>>, runs)
    BY RequestFits
  <2>4. Sound(<<<<"send", RequestOf(t)>>, <<"wait">>, <<"settled", FALSE>>>>, runs)
    BY <2>2, <2>3, SoundList
  <2>5. QED
    BY <2>1, <2>4 DEF Register, Wait, Settled, Raises
<1>3. /\ todo' = [u \in Threads |-> todo'[u]]
      /\ \A u \in Threads : Sound(todo'[u], runs)
  <2>1. Sound(Becomes(t, frames), runs)
    BY <1>1, <1>2, DoesSound
  <2>2. QED
    BY <1>2, <2>1 DEF Does, AckInv
<1>4. PICK r : /\ result' = result \/ result' = [result EXCEPT ![t] = r]
               /\ r = "ack" /\ t \in Callers => runs[t] > 0
  BY DEF Register, Wait, Settled, AckInv
<1>5. /\ result' = [c \in Callers |-> result'[c]]
      /\ \A c \in Callers : result'[c] = "ack" => runs[c] > 0
  BY <1>4 DEF AckInv
<1>6. QED
  BY <1>1, <1>3, <1>5 DEF AckInv

\* The other steps of the peer.
LEMMA PeerKeeps ==
  ASSUME AckInv, UNCHANGED <<dispatcherVars, calls>>, NEW t \in Threads,
         \/ SentPacket(t) \/ Refresh(t) \/ SetTransport(t) \/ Fail(t) \/ Round(t) \/ Expire(t)
         \/ Wake(t) \/ PeerStart(t) \/ PeerStop(t) \/ Halt(t) \/ Join(t)
  PROVE  AckInv'
<1>1. todo[t] # <<>> /\ UNCHANGED acknowledged
  <2>1. todo[t] # <<>>
    BY DEF SentPacket, Refresh, SetTransport, Fail, Round, Expire, Wake, PeerStart, PeerStop,
           Halt, Join, At
  <2>2. runs' = runs
    BY DEF dispatcherVars
  <2>3. air' = air
    BY DEF SentPacket, Refresh, SetTransport, Fail, Round, Expire, Wake, PeerStart, PeerStop,
           Halt, Join, channelVars
  <2>4. response' = response /\ result' = result
    BY DEF SentPacket, Refresh, SetTransport, Fail, Round, Expire, Wake, PeerStart, PeerStop,
           Halt, Join, peerVars, requests
  <2>5. QED
    BY <2>1, <2>2, <2>3, <2>4 DEF acknowledged
<1>2. \A name : name \notin Carriers \cup {"answer"} =>
        /\ Fits(<<name>>, runs) /\ Sound(<<<<name>>>>, runs)
        /\ \A argument : /\ Fits(<<name, argument>>, runs)
                         /\ Sound(<<<<name, argument>>>>, runs)
  <2>1. \A name : name \notin Carriers \cup {"answer"} =>
          Fits(<<name>>, runs) /\ \A argument : Fits(<<name, argument>>, runs)
    BY PlainFits
  <2>2. QED
    BY <2>1, SoundOne
<1>3. Sound(<<>>, runs)
  BY SoundEmpty
<1>4. CASE SentPacket(t) \/ Fail(t) \/ Expire(t) \/ Halt(t) \/ Join(t)
  BY <1>1, <1>3, <1>4, DoesKeeps DEF SentPacket, Fail, Expire, Halt, Join
<1>5. CASE Refresh(t) \/ SetTransport(t)
  BY <1>1, <1>2, <1>3, <1>5, DoesKeeps DEF Refresh, SetTransport, Carriers
<1>6. CASE Wake(t)
  BY <1>1, <1>2, <1>6, DoesKeeps DEF Wake, Carriers
<1>7. CASE Round(t)
  <2> DEFINE look == <<<<"set", NodeOf(t) \in ready>>>>
             rest == <<<<"expire">>, <<"asleep">>>>
  <2>1. Sound(look, runs)
    BY <1>2 DEF Carriers
  <2>2. Sound(rest, runs)
    BY <1>2, SoundList DEF Carriers
  <2>3. Sound(Probe(pings + 1), runs)
    <3>1. Fits(<<"send", <<"ping", pings + 1, 0>>>>, runs)
      BY PlainFits DEF Carriers
    <3>2. QED
      BY <1>2, <3>1, SoundList DEF Probe, Carriers
  <2>4. Does(t, <<>>) \/ Does(t, look \o rest) \/ Does(t, look \o Probe(pings + 1) \o rest)
    BY <1>7 DEF Round
  <2> HIDE DEF look, rest
  <2>5. Sound(look \o rest, runs) /\ Sound(look \o Probe(pings + 1) \o rest, runs)
    BY <2>1, <2>2, <2>3, SoundConcat
  <2>6. QED
    BY <1>1, <1>3, <2>4, <2>5, DoesKeeps
<1>8. CASE PeerStart(t)
  <2>1. Sound(<<<<"listen">>, <<"watch">>>>, runs)
    BY <1>2, SoundList DEF Carriers
  <2>2. QED
    BY <1>1, <1>3, <1>8, <2>1, DoesKeeps DEF PeerStart
<1>9. CASE PeerStop(t)
  <2>1. \A mine : Sound(<<<<"halt", mine>>, <<"unlisten">>, <<"clear">>, <<"join">>>>, runs)
    BY <1>2, SoundList DEF Carriers
  <2>2. QED
    BY <1>1, <1>3, <1>9, <2>1, DoesKeeps DEF PeerStop
<1>10. QED
  BY <1>4, <1>5, <1>6, <1>7, <1>8, <1>9

\* The monitor begins again.
LEMMA WatchKeeps ==
  ASSUME AckInv, UNCHANGED <<dispatcherVars, calls>>, NEW t \in Threads, Watch(t)
  PROVE  AckInv'
<1>1. todo[t] # <<>> /\ UNCHANGED acknowledged
  BY DEF Watch, At, acknowledged, dispatcherVars, channelVars, requests
<1>2. Sound(Becomes(t, <<>>), runs) /\ Sound(<<<<"monitor">>>>, runs)
  BY <1>1, DoesSound, SoundEmpty, SoundOne, PlainFits DEF Carriers
<1>3. todo' = [todo EXCEPT ![t] = Becomes(t, <<>>), ![Monitor(NodeOf(t))] = <<<<"monitor">>>>]
  BY DEF Watch
<1>4. todo' = [u \in Threads |-> todo'[u]]
  BY <1>3 DEF AckInv
<1>5. \A u \in Threads : todo'[u] = todo[u] \/ Sound(todo'[u], runs)
  BY <1>2, <1>3 DEF AckInv
<1>6. QED
  BY <1>1, <1>4, <1>5, StacksKeep

\* The channel: what arrives was sent.
LEMMA ChannelKeeps ==
  ASSUME AckInv, ChannelNext, UNCHANGED <<peerVars, dispatcherVars, calls>>
  PROVE  AckInv'
<1>1. runs' = runs /\ response' = response /\ result' = result
  BY DEF peerVars, dispatcherVars, requests
<1>2. ASSUME \A f \in air' :
               /\ f = [x \in DOMAIN f |-> f[x]] /\ "packet" \in DOMAIN f
               /\ Honest(f.packet, runs),
             todo' = [t \in Threads |-> todo'[t]], \A t \in Threads : Sound(todo'[t], runs)
      PROVE  AckInv'
  BY <1>1, <1>2 DEF AckInv
<1>3. CASE Lose \/ Unheard
  BY <1>2, <1>3 DEF Lose, Unheard, AckInv
<1>4. CASE Damage
  <2>1. PICK f \in air : air' = (air \ {f}) \cup {[f EXCEPT !.intact = FALSE]}
    BY <1>4 DEF Damage
  <2> DEFINE g == [f EXCEPT !.intact = FALSE]
  <2>2. g = [x \in DOMAIN g |-> g[x]] /\ "packet" \in DOMAIN g /\ g.packet = f.packet
    BY DEF AckInv
  <2> HIDE DEF g
  <2>3. air' = (air \ {f}) \cup {g}
    BY <2>1 DEF g
  <2>4. QED
    BY <1>2, <1>4, <2>2, <2>3 DEF Damage, AckInv
<1>5. ASSUME NEW n \in Nodes, Prune(n) PROVE AckInv'
  BY <1>2, <1>5 DEF Prune, AckInv
<1>6. ASSUME NEW n \in Nodes, Accept(n) PROVE AckInv'
  <2>1. PICK g \in air : Arrives(g) /\ Assemble(n, g)
    BY <1>6 DEF Accept
  <2>2. air' \subseteq air
    BY <2>1 DEF Arrives
  <2>3. \/ todo' = todo
        \/ todo' = [todo EXCEPT ![Receiver(n)] = <<<<"published", g.packet>>, <<"swallow">>>>]
    BY <2>1 DEF Assemble
  <2>4. Sound(<<<<"published", g.packet>>, <<"swallow">>>>, runs)
    <3>1. Fits(<<"published", g.packet>>, runs) /\ Fits(<<"swallow">>, runs)
      BY PlainFits DEF AckInv, Carriers
    <3>2. QED
      BY <3>1, SoundList
  <2>5. todo' = [t \in Threads |-> todo'[t]] /\ \A t \in Threads : Sound(todo'[t], runs)
    BY <2>3, <2>4 DEF AckInv
  <2>6. QED
    BY <1>2, <2>2, <2>5 DEF AckInv
<1>7. ASSUME NEW t \in Threads, NEW n \in Nodes, Listen(t, n) \/ Unlisten(t, n) \/ Clear(t, n)
      PROVE  AckInv'
  <2>1. todo[t] # <<>> /\ Does(t, <<>>) /\ air' = air
    BY <1>7 DEF Listen, Unlisten, Clear, At
  <2>2. QED
    BY <1>1, <2>1, SoundEmpty, DoesKeeps DEF acknowledged
<1>8. QED
  BY <1>3, <1>4, <1>5, <1>6, <1>7 DEF ChannelNext

\* The dispatcher: only what has been handled is acknowledged.
LEMMA DispatcherKeeps ==
  ASSUME AckInv, DispatcherNext, UNCHANGED calls PROVE AckInv'
<1>1. air' = air /\ response' = response /\ result' = result
  BY DEF DispatcherNext, Dispatch, Admit, Submit, Work, Handle, AnswerRequest, Free, Serve,
         DispatcherStart, DispatcherStop, Shutdown, Drain, channelVars, peerVars, peerRest, requests
<1>2. ASSUME NEW t \in Threads, todo[t] # <<>>, NEW frames, Sound(frames, runs),
             Does(t, frames), runs' = runs
      PROVE  AckInv'
  BY <1>1, <1>2, DoesKeeps DEF acknowledged
<1>3. \A name : name \notin Carriers \cup {"answer"} =>
        /\ Fits(<<name>>, runs) /\ Sound(<<<<name>>>>, runs)
        /\ \A argument : /\ Fits(<<name, argument>>, runs)
                         /\ Sound(<<<<name, argument>>>>, runs)
  <2>1. \A name : name \notin Carriers \cup {"answer"} =>
          Fits(<<name>>, runs) /\ \A argument : Fits(<<name, argument>>, runs)
    BY PlainFits
  <2>2. QED
    BY <2>1, SoundOne
<1>4. Sound(<<>>, runs)
  BY SoundEmpty
<1>5. ASSUME NEW packet PROVE Sound(Respond("error", packet), runs)
  <2>1. Honest(<<"error", packet[2]>>, runs)
    BY DEF Honest
  <2>2. QED
    BY <2>1, AnswersSound
<1>6. ASSUME NEW t \in Threads, Dispatch(t) PROVE AckInv'
  <2>1. todo[t] # <<>> /\ runs' = runs
    BY <1>6 DEF Dispatch, At, dispatcherVars
  <2>2. QED
    BY <1>2, <1>3, <1>4, <1>6, <2>1 DEF Dispatch, Carriers
<1>7. ASSUME NEW t \in Threads, Admit(t) PROVE AckInv'
  <2>1. todo[t] # <<>> /\ runs' = runs
    BY <1>7 DEF Admit, At
  <2>2. \A pair : Sound(<<<<"submit", pair>>>>, runs)
    BY <1>3 DEF Carriers
  <2>3. QED
    BY <1>2, <1>4, <1>5, <1>7, <2>1, <2>2 DEF Admit
<1>8. ASSUME NEW t \in Threads, Submit(t) \/ Free(t) \/ Serve(t) \/ DispatcherStart(t) \/ Drain(t)
      PROVE  AckInv'
  <2>1. todo[t] # <<>> /\ runs' = runs
    BY <1>8 DEF Submit, Free, Serve, DispatcherStart, Drain, At, dispatcherVars
  <2>2. Does(t, <<>>)
    BY <1>8 DEF Submit, Free, Serve, DispatcherStart, Drain
  <2>3. QED
    BY <1>2, <1>4, <2>1, <2>2
<1>9. ASSUME NEW t \in Threads, DispatcherStop(t) \/ Shutdown(t) PROVE AckInv'
  <2>1. todo[t] # <<>> /\ runs' = runs
    BY <1>9 DEF DispatcherStop, Shutdown, At
  <2>2. \A g : Sound(<<<<"shutdown", g>>>>, runs) /\ Sound(<<<<"drain", g>>>>, runs)
    BY <1>3 DEF Carriers
  <2>3. QED
    BY <1>2, <1>4, <1>9, <2>1, <2>2 DEF DispatcherStop, Shutdown
<1>10. ASSUME NEW t \in Threads, t \in Workers, Work(t) PROVE AckInv'
  <2>1. PICK packet : todo' = [todo EXCEPT ![t] = <<<<"handle", packet>>, <<"free">>>>]
    BY <1>10 DEF Work
  <2>2. Sound(<<<<"handle", packet>>, <<"free">>>>, runs)
    BY <1>3, SoundList DEF Carriers
  <2>3. /\ todo' = [u \in Threads |-> todo'[u]]
        /\ \A u \in Threads : todo'[u] = todo[u] \/ Sound(todo'[u], runs)
    BY <2>1, <2>2 DEF AckInv
  <2>4. QED
    BY <1>1, <1>10, <2>3, StacksKeep DEF Work, acknowledged
<1>11. ASSUME NEW t \in Threads, AnswerRequest(t) PROVE AckInv'
  <2>1. todo[t] # <<>> /\ runs' = runs /\ Head(todo[t])[1] = "answer"
    BY <1>11 DEF AnswerRequest, At, dispatcherVars
  <2>2. Honest(<<Arg(t)[1], Arg(t)[2][2]>>, runs)
    BY <2>1, AtTop DEF Fits, Arg
  <2>5. Arg(t)[1] # "request"
    BY <2>1, AtTop DEF Fits, Arg
  <2>3. Sound(Respond(Arg(t)[1], Arg(t)[2]), runs)
    BY <2>2, <2>5, AnswersSound
  <2>4. QED
    BY <1>2, <1>4, <1>11, <2>1, <2>3 DEF AnswerRequest
<1>12. ASSUME NEW t \in Threads, Handle(t) PROVE AckInv'
  <2>1. todo[t] # <<>>
    BY <1>12 DEF Handle, At
  <2>2. CASE serving
    <3>1. /\ runs' = [runs EXCEPT ![Arg(t)[2]] = @ + 1]
          /\ Does(t, <<<<"user">>, <<"swallow">>, <<"answer", <<"ack", Arg(t)>>>>>>)
      BY <1>12, <2>2 DEF Handle
    <3>2. runs \in [Callers -> Nat]
      BY DEF AckInv
    <3>3. /\ runs' \in [Callers -> Nat]
          /\ \A c \in Callers : runs[c] <= runs'[c]
          /\ Honest(<<"ack", Arg(t)[2]>>, runs')
      <4>1. CASE Arg(t)[2] \in Callers
        BY <3>1, <3>2, <4>1 DEF Honest
      <4>2. CASE Arg(t)[2] \notin Callers
        <5>1. runs' = runs
          BY <3>1, <3>2, <4>2
        <5>2. QED
          BY <3>2, <4>2, <5>1 DEF Honest
      <4>3. QED
        BY <4>1, <4>2
    <3> DEFINE counts == runs'
    <3> HIDE DEF counts
    <3>4. counts \in [Callers -> Nat] /\ \A c \in Callers : runs[c] <= counts[c]
      BY <3>3 DEF counts
    <3>5. Sound(<<<<"user">>, <<"swallow">>, <<"answer", <<"ack", Arg(t)>>>>>>, counts)
      <4>1. Fits(<<"answer", <<"ack", Arg(t)>>>>, counts)
        BY <3>3 DEF counts, Fits, Carriers
      <4>2. Fits(<<"user">>, counts) /\ Fits(<<"swallow">>, counts)
        BY PlainFits DEF Carriers
      <4>3. QED
        BY <4>1, <4>2, SoundList
    <3>6. \A u \in Threads : Sound(todo[u], counts)
      BY <3>2, <3>4, SoundKept DEF AckInv
    <3>7. Sound(Becomes(t, <<<<"user">>, <<"swallow">>, <<"answer", <<"ack", Arg(t)>>>>>>), counts)
      BY <2>1, <3>5, <3>6, SoundTail, SoundConcat, SoundReached DEF Becomes
    <3>8. todo' = [u \in Threads |-> todo'[u]] /\ \A u \in Threads : Sound(todo'[u], counts)
      BY <3>1, <3>6, <3>7 DEF Does, AckInv
    <3>9. \A f \in air :
            /\ f = [x \in DOMAIN f |-> f[x]] /\ "packet" \in DOMAIN f
            /\ Honest(f.packet, counts)
      BY <3>2, <3>4, HonestKept DEF AckInv
    <3>10. \A c \in Callers : "ack" \in {response[c], result[c]} => counts[c] > 0
      BY <3>2, <3>4 DEF AckInv
    <3>11. counts \in [Callers -> Nat]
      BY <3>4
    <3>12. QED
      BY <1>1, <3>8, <3>9, <3>10, <3>11 DEF AckInv, counts
  <2>3. CASE ~serving
    <3>1. Does(t, <<<<"answer", <<"error", Arg(t)>>>>>>) /\ runs' = runs
      BY <1>12, <2>3 DEF Handle
    <3>2. Fits(<<"answer", <<"error", Arg(t)>>>>, runs)
      BY DEF Fits, Honest, Carriers
    <3>3. QED
      BY <1>2, <2>1, <3>1, <3>2, SoundOne
  <2>4. QED
    BY <2>2, <2>3
<1>13. QED
  BY <1>6, <1>7, <1>8, <1>9, <1>10, <1>11, <1>12 DEF DispatcherNext

\* What is called from outside.
LEMMA CallsKeep ==
  ASSUME AckInv, UNCHANGED <<channelVars, peerVars, dispatcherVars>>, NEW t \in Threads,
         Call(t) \/ Leave(t) \/ Published(t) \/ (Unwind(t) /\ UNCHANGED calls)
  PROVE  AckInv'
<1>1. UNCHANGED acknowledged /\ calls' \subseteq calls
  BY DEF acknowledged, channelVars, peerVars, requests, dispatcherVars, Call, Leave, Published
<1>2. \A name : name \notin Carriers \cup {"answer"} => Fits(<<name>>, runs)
  BY PlainFits
<1>3. ASSUME NEW name \in Commands PROVE Sound(Command(name), runs)
  <2>1. /\ Sound(<<<<"register">>>>, runs)
        /\ Sound(<<<<"unserve">>, <<"dispatcher_stop">>, <<"peer_stop">>>>, runs)
        /\ Sound(<<<<"peer_start">>, <<"serve">>, <<"dispatcher_start">>>>, runs)
        /\ Sound(<<<<"peer_stop">>>>, runs) /\ Sound(<<<<"peer_start">>>>, runs)
        /\ Sound(<<<<"monitor">>>>, runs) /\ Sound(<<<<"refresh">>>>, runs)
        /\ Sound(<<<<"dispatcher_stop">>>>, runs)
    BY <1>2, SoundOne, SoundList DEF Carriers
  <2>2. QED
    BY <2>1 DEF Command, Commands
<1>4. CASE Call(t)
  <2>1. PICK name \in Commands :
                    \/ todo' = [todo EXCEPT ![t] = Command(name)]
                    \/ todo' = [todo EXCEPT ![t] = Command(name) \o @]
    BY <1>4 DEF Call, AckInv
  <2>2. Sound(Command(name) \o todo[t], runs)
    BY <1>3, SoundConcat DEF AckInv
  <2>3. /\ todo' = [u \in Threads |-> todo'[u]]
        /\ \A u \in Threads : todo'[u] = todo[u] \/ Sound(todo'[u], runs)
    BY <1>3, <2>1, <2>2 DEF AckInv
  <2>4. QED
    BY <1>1, <2>3, StacksKeep
<1>5. CASE Leave(t)
  BY <1>1, <1>5, SoundEmpty, DoesKeeps DEF Leave, At
<1>6. CASE Published(t)
  <2>1. todo[t] # <<>> /\ Head(todo[t])[1] = "published"
    BY <1>6 DEF Published, At
  <2>2. Honest(Arg(t), runs)
    BY <2>1, AtTop DEF Fits, Arg, Carriers
  <2>3. Sound(<<<<"on_packet", Arg(t)>>>>, runs)
    BY <2>2, PlainFits, SoundOne DEF Carriers
  <2>4. QED
    BY <1>1, <1>6, <2>1, <2>3, SoundEmpty, DoesKeeps DEF Published
<1>7. CASE Unwind(t)
  <2>1. Sound(Unwound(Tail(todo[t])), runs)
    BY <1>7, AtTop, SoundUnwound DEF Unwind, At
  <2>2. /\ todo' = [u \in Threads |-> todo'[u]]
        /\ \A u \in Threads : todo'[u] = todo[u] \/ Sound(todo'[u], runs)
    BY <1>7, <2>1 DEF Unwind, AckInv
  <2>3. QED
    BY <1>1, <2>2, StacksKeep
<1>8. QED
  BY <1>4, <1>5, <1>6, <1>7

LEMMA AckStep ==
  ASSUME AckInv, [Next]_vars PROVE AckInv'
<1>1. CASE ChannelNext /\ UNCHANGED <<peerVars, dispatcherVars, calls>>
  BY <1>1, ChannelKeeps
<1>2. CASE PeerNext /\ UNCHANGED <<dispatcherVars, calls>>
  <2>1. ASSUME NEW n \in Nodes, Toggle(n) PROVE AckInv'
    BY <1>2, <2>1 DEF Toggle, AckInv, requests, dispatcherVars
  <2>2. QED
    BY <1>2, <2>1, PacketsKeep, RequestsKeep, PeerKeeps, WatchKeeps DEF PeerNext
<1>3. CASE DispatcherNext /\ UNCHANGED calls
  BY <1>3, DispatcherKeeps
<1>4. CASE \E t \in Threads : Call(t) \/ Leave(t) \/ Published(t)
  BY <1>4, CallsKeep DEF Call, Leave, Published
<1>5. CASE \E t \in Threads : Unwind(t) /\ UNCHANGED <<channelVars, peerVars, dispatcherVars, calls>>
  BY <1>5, CallsKeep
<1>6. CASE UNCHANGED vars
  BY <1>6 DEF vars, AckInv, channelVars, peerVars, requests, dispatcherVars
<1>7. QED
  BY <1>1, <1>2, <1>3, <1>4, <1>5, <1>6 DEF Next, Terminating

LEMMA AckBegin == ASSUME Init PROVE AckInv
<1>1. /\ runs = [c \in Callers |-> 0] /\ air = {}
      /\ response = [c \in Callers |-> "none"] /\ result = [c \in Callers |-> "none"]
  BY DEF Init, ChannelInit, PeerInit, DispatcherInit
<1>2. calls \subseteq Threads \X Commands
  BY PlansAssumption DEF Init
<1>3. todo = [t \in Threads |-> IF \E n \in Nodes : t = Monitor(n) THEN <<<<"asleep">>>> ELSE <<>>]
  BY DEF Init
<1>4. Sound(<<<<"asleep">>>>, runs) /\ Sound(<<>>, runs)
  BY SoundOne, SoundEmpty, PlainFits DEF Carriers
<1>5. todo = [t \in Threads |-> todo[t]] /\ \A t \in Threads : Sound(todo[t], runs)
  BY <1>3, <1>4
<1>6. QED
  BY <1>1, <1>5, <1>2 DEF AckInv

\* A caller is told that its request was handled only if it was, whatever the
\* link does to fragments, whoever waits and whoever stops (peer.py:399-406).
THEOREM OnlyHandledIsAcknowledged == Spec => []AckMeansHandled
<1>1. Init => AckInv
  BY AckBegin
<1>2. AckInv /\ [Next]_vars => AckInv'
  BY AckStep
<1>3. AckInv => AckMeansHandled
  BY DEF AckInv, AckMeansHandled
<1>4. QED
  BY <1>1, <1>2, <1>3, PTL DEF Spec

-------------------------------------------------------------------------------
\* The limits of the assembler.

\* The assemblies of a node, its bytes and what it remembers fit together.
Counted(fragments, count, done) ==
  /\ IsFiniteSet(fragments) /\ count = Cardinality(fragments) /\ count <= MaxBytes
  /\ IsFiniteSet(PacketsIn(fragments))
  /\ Cardinality(PacketsIn(fragments)) <= MaxAssemblies
  /\ done \in Seq(ToSet(done))
  /\ PacketsIn(fragments) \cap ToSet(done) = {}

BytesInv ==
  /\ parts = [n \in Nodes |-> parts[n]]
  /\ bytes = [n \in Nodes |-> bytes[n]]
  /\ completed = [n \in Nodes |-> completed[n]]
  /\ \A n \in Nodes : Counted(parts[n], bytes[n], completed[n])

\* What is dropped is taken off.
LEMMA CountedLess ==
  ASSUME NEW fragments, NEW count, NEW done, Counted(fragments, count, done),
         NEW gone \in SUBSET fragments, NEW rest, rest \in Seq(ToSet(rest)),
         PacketsIn(fragments \ gone) \cap ToSet(rest) = {}
  PROVE  Counted(fragments \ gone, count - Cardinality(gone), rest)
<1>1. /\ IsFiniteSet(fragments \ gone) /\ IsFiniteSet(gone)
      /\ Cardinality(fragments \ gone) = Cardinality(fragments) - Cardinality(gone)
  <2>1. fragments \cap gone = gone
    OBVIOUS
  <2>2. IsFiniteSet(fragments)
    BY DEF Counted
  <2>3. /\ IsFiniteSet(fragments \ gone)
        /\ Cardinality(fragments \ gone) = Cardinality(fragments) - Cardinality(fragments \cap gone)
    BY <2>2, FS_Difference
  <2>4. IsFiniteSet(gone)
    BY <2>2, FS_Subset
  <2>5. QED
    BY <2>1, <2>3, <2>4
<1>2. Cardinality(fragments) \in Nat /\ Cardinality(gone) \in Nat /\ MaxBytes \in Nat
  BY <1>1, FS_CardinalityType, ChannelAssumption DEF Counted
<1>3. count - Cardinality(gone) <= MaxBytes
  BY <1>2 DEF Counted
<1>4. PacketsIn(fragments \ gone) \in SUBSET PacketsIn(fragments)
  BY DEF PacketsIn
<1>5. /\ IsFiniteSet(PacketsIn(fragments \ gone))
      /\ Cardinality(PacketsIn(fragments \ gone)) <= Cardinality(PacketsIn(fragments))
  BY <1>4, FS_Subset DEF Counted
<1>6. /\ Cardinality(PacketsIn(fragments)) \in Nat /\ MaxAssemblies \in Nat
      /\ Cardinality(PacketsIn(fragments \ gone)) \in Nat
  BY <1>5, FS_CardinalityType, ChannelAssumption DEF Counted
<1>7. Cardinality(PacketsIn(fragments \ gone)) <= MaxAssemblies
  BY <1>5, <1>6 DEF Counted
<1>8. QED
  BY <1>1, <1>3, <1>5, <1>7 DEF Counted

\* A fragment is added while there is room, for its bytes and its assembly.
LEMMA CountedMore ==
  ASSUME NEW fragments, NEW count, NEW done, Counted(fragments, count, done),
         NEW f, f \notin fragments => count + 1 <= MaxBytes,
         f.packet \notin ToSet(done),
         f.packet \in PacketsIn(fragments)
           \/ ~(Cardinality(PacketsIn(fragments)) >= MaxAssemblies)
  PROVE  Counted(fragments \cup {f}, count + (IF f \in fragments THEN 0 ELSE 1), done)
<1>1. /\ IsFiniteSet(fragments \cup {f})
      /\ Cardinality(fragments \cup {f})
           = IF f \in fragments THEN Cardinality(fragments) ELSE Cardinality(fragments) + 1
  BY FS_AddElement DEF Counted
<1>2. Cardinality(fragments) \in Nat /\ MaxBytes \in Nat
  BY FS_CardinalityType, ChannelAssumption DEF Counted
<1>3. /\ count + (IF f \in fragments THEN 0 ELSE 1) = Cardinality(fragments \cup {f})
      /\ count + (IF f \in fragments THEN 0 ELSE 1) <= MaxBytes
  BY <1>1, <1>2 DEF Counted
<1>4. PacketsIn(fragments \cup {f}) = PacketsIn(fragments) \cup {f.packet}
  BY DEF PacketsIn
<1>5. /\ IsFiniteSet(PacketsIn(fragments \cup {f}))
      /\ Cardinality(PacketsIn(fragments \cup {f})) =
           IF f.packet \in PacketsIn(fragments) THEN Cardinality(PacketsIn(fragments))
           ELSE Cardinality(PacketsIn(fragments)) + 1
  <2>1. PICK P, p : P = PacketsIn(fragments) /\ p = f.packet
    OBVIOUS
  <2>2. IsFiniteSet(P)
    BY <2>1 DEF Counted
  <2>3. /\ IsFiniteSet(P \cup {p})
        /\ Cardinality(P \cup {p}) = IF p \in P THEN Cardinality(P) ELSE Cardinality(P) + 1
    BY <2>2, FS_AddElement
  <2>4. QED
    BY <1>4, <2>1, <2>3
<1>6. Cardinality(PacketsIn(fragments)) \in Nat /\ MaxAssemblies \in Nat
  BY FS_CardinalityType, ChannelAssumption DEF Counted
<1>7. Cardinality(PacketsIn(fragments \cup {f})) <= MaxAssemblies
  BY <1>5, <1>6 DEF Counted
<1>8. PacketsIn(fragments \cup {f}) \cap ToSet(done) = {}
  BY <1>4 DEF Counted
<1>9. QED
  BY <1>1, <1>3, <1>5, <1>7, <1>8 DEF Counted

\* The end of a sequence holds some of its elements.
LEMMA EndOfSeq ==
  ASSUME NEW S, NEW s \in Seq(S), NEW k \in 1..(Len(s) + 1)
  PROVE  /\ SubSeq(s, k, Len(s)) \in Seq(ToSet(SubSeq(s, k, Len(s))))
         /\ ToSet(SubSeq(s, k, Len(s))) \subseteq ToSet(s)
<1> DEFINE rest == SubSeq(s, k, Len(s))
<1>1. Len(s) \in Nat /\ s \in Seq(ToSet(s)) /\ DOMAIN s = 1..Len(s)
  BY DEF ToSet
<1>2. \A j \in k..Len(s) : s[j] \in ToSet(s)
  BY <1>1 DEF ToSet
<1>3. rest \in Seq(ToSet(s))
  BY <1>1, <1>2, SubSeqProperties
<1> HIDE DEF rest
<1>4. rest \in Seq(ToSet(rest)) /\ ToSet(rest) \subseteq ToSet(s)
  <2>1. rest \in [1..Len(rest) -> ToSet(rest)] /\ Len(rest) \in Nat
    BY <1>3 DEF ToSet
  <2>2. \A S2 : rest \in Seq(S2) => \A i \in DOMAIN rest : rest[i] \in S2
    BY ElementOfSeq
  <2>3. \A i \in DOMAIN rest : rest[i] \in ToSet(s)
    BY <1>3, <2>2
  <2>4. ToSet(rest) \subseteq ToSet(s)
    <3> DEFINE T == ToSet(s)
    <3> HIDE DEF T
    <3>1. \A i \in DOMAIN rest : rest[i] \in T
      BY <2>3 DEF T
    <3>2. ToSet(rest) \subseteq T
      BY <3>1 DEF ToSet
    <3>3. QED
      BY <3>2 DEF T
  <2>5. rest \in Seq(ToSet(rest))
    BY <2>1
  <2>6. QED
    BY <2>4, <2>5
<1>5. QED
  BY <1>4 DEF rest

\* What accept() makes of a fragment.
LEMMA AssembleCounts ==
  ASSUME BytesInv, NEW n \in Nodes, NEW g, Assemble(n, g) PROVE BytesInv'
<1> DEFINE f == [packet |-> g.packet, index |-> g.index, intact |-> g.intact]
           mine == {p \in parts[n] : p.packet = f.packet}
<1>1. /\ Counted(parts[n], bytes[n], completed[n]) /\ mine \in SUBSET parts[n]
      /\ completed[n] \in Seq(ToSet(completed[n]))
  BY DEF BytesInv, Counted
<1>2. CASE UNCHANGED <<parts, bytes, completed>>
  BY <1>2 DEF BytesInv
<1>3. ASSUME NEW fragments, NEW count, Assemblies(n, fragments, count),
             NEW done, completed' = [completed EXCEPT ![n] = done],
             Counted(fragments, count, done)
      PROVE  BytesInv'
  BY <1>3 DEF Assemblies, BytesInv
<1>4. Counted(parts[n] \ mine, bytes[n] - Cardinality(mine), completed[n])
  <2>1. PacketsIn(parts[n] \ mine) \cap ToSet(completed[n]) = {}
    BY <1>1 DEF Counted, PacketsIn
  <2>2. QED
    BY <1>1, <2>1, CountedLess
<1>5. completed = [completed EXCEPT ![n] = completed[n]]
  BY DEF BytesInv
<1>6. CASE /\ Assemblies(n, parts[n] \ mine, bytes[n] - Cardinality(mine))
           /\ UNCHANGED <<todo, completed, forgotten>>
  <2> HIDE DEF f, mine
  <2>1. QED
    BY <1>3, <1>4, <1>5, <1>6
<1>7. CASE /\ ~Contains(completed[n], f.packet)
           /\ ~(mine = {} /\ Cardinality(PacketsIn(parts[n])) >= MaxAssemblies)
           /\ ~(f \notin mine /\ bytes[n] + 1 > MaxBytes)
           /\ Assemblies(n, parts[n] \cup {f}, bytes[n] + (IF f \in mine THEN 0 ELSE 1))
           /\ UNCHANGED <<todo, completed, forgotten>>
  <2>1. f \in mine <=> f \in parts[n]
    OBVIOUS
  <2>2. mine # {} => f.packet \in PacketsIn(parts[n])
    BY DEF PacketsIn
  <2>3. f.packet \notin ToSet(completed[n])
    BY <1>1, <1>7 DEF Contains, ToSet
  <2>4. bytes[n] \in Nat /\ MaxBytes \in Nat
    BY <1>1, FS_CardinalityType, ChannelAssumption DEF Counted
  <2> HIDE DEF f, mine
  <2>5. f \notin parts[n] => bytes[n] + 1 <= MaxBytes
    BY <1>7, <2>1, <2>4
  <2>6. Counted(parts[n] \cup {f}, bytes[n] + (IF f \in parts[n] THEN 0 ELSE 1), completed[n])
    BY <1>1, <1>7, <2>2, <2>3, <2>5, CountedMore
  <2>7. QED
    BY <1>3, <1>5, <1>7, <2>1, <2>6
<1>8. CASE /\ Assemblies(n, parts[n] \ mine, bytes[n] - Cardinality(mine))
           /\ Completes(n, f.packet)
  <2> DEFINE all == Append(completed[n], f.packet)
             first == IF Len(all) > MaxCompleted THEN 2 ELSE 1
             rest == SubSeq(all, first, Len(all))
             S == ToSet(completed[n]) \cup {f.packet}
  <2>1. all \in Seq(S) /\ Len(all) \in Nat /\ Len(all) >= 1 /\ ToSet(all) \subseteq S
    <3>1. completed[n] \in Seq(S) /\ f.packet \in S
      BY <1>1
    <3>2. all \in Seq(S) /\ Len(all) = Len(completed[n]) + 1 /\ Len(completed[n]) \in Nat
      BY <3>1, AppendProperties
    <3>3. ToSet(all) \subseteq S
      BY <3>2, ElementOfSeq DEF ToSet
    <3>4. QED
      BY <3>2, <3>3
  <2>2. first \in 1..(Len(all) + 1)
    BY <2>1
  <2>3. PacketsIn(parts[n] \ mine) \cap S = {}
    BY <1>1 DEF Counted, PacketsIn
  <2>4. completed' = [completed EXCEPT ![n] = rest]
    BY <1>8 DEF Completes
  <2> HIDE DEF all, first, S
  <2>5. rest \in Seq(ToSet(rest)) /\ ToSet(rest) \subseteq ToSet(all)
    BY <2>1, <2>2, EndOfSeq
  <2> HIDE DEF rest, mine, f
  <2>6. PacketsIn(parts[n] \ mine) \cap ToSet(rest) = {}
    BY <2>1, <2>3, <2>5
  <2>7. Counted(parts[n] \ mine, bytes[n] - Cardinality(mine), rest)
    BY <1>1, <2>5, <2>6, CountedLess
  <2>8. QED
    BY <1>3, <1>8, <2>4, <2>7
<1>9. QED
  BY <1>2, <1>6, <1>7, <1>8 DEF Assemble

LEMMA BytesStep ==
  ASSUME BytesInv, [Next]_vars PROVE BytesInv'
<1>1. CASE UNCHANGED <<parts, bytes, completed>>
  BY <1>1 DEF BytesInv
<1>2. CASE Lose \/ Damage \/ Unheard
  BY <1>1, <1>2 DEF Lose, Damage, Unheard
<1>3. ASSUME NEW n \in Nodes, Accept(n) PROVE BytesInv'
  BY <1>3, AssembleCounts DEF Accept
<1>4. ASSUME NEW n \in Nodes, Prune(n) PROVE BytesInv'
  <2>1. PICK old \in SUBSET PacketsIn(parts[n]), k \in 0..Len(completed[n]) :
          LET dropped == {f \in parts[n] : f.packet \in old}
          IN /\ parts' = [parts EXCEPT ![n] = @ \ dropped]
             /\ bytes' = [bytes EXCEPT ![n] = @ - Cardinality(dropped)]
             /\ completed' = [completed EXCEPT ![n] = SubSeq(@, k + 1, Len(@))]
    BY <1>4 DEF Prune
  <2> DEFINE dropped == {f \in parts[n] : f.packet \in old}
             rest == SubSeq(completed[n], k + 1, Len(completed[n]))
  <2>2. /\ Counted(parts[n], bytes[n], completed[n]) /\ dropped \in SUBSET parts[n]
        /\ completed[n] \in Seq(ToSet(completed[n]))
    BY DEF BytesInv, Counted
  <2>3. rest \in Seq(ToSet(rest)) /\ ToSet(rest) \subseteq ToSet(completed[n])
    <3>1. k + 1 \in 1..(Len(completed[n]) + 1)
      BY <2>2
    <3>2. QED
      BY <2>2, <3>1, EndOfSeq
  <2>4. /\ parts' = [parts EXCEPT ![n] = parts[n] \ dropped]
        /\ bytes' = [bytes EXCEPT ![n] = bytes[n] - Cardinality(dropped)]
        /\ completed' = [completed EXCEPT ![n] = rest]
    BY <2>1
  <2> HIDE DEF dropped, rest
  <2>5. PacketsIn(parts[n] \ dropped) \cap ToSet(rest) = {}
    BY <2>2, <2>3 DEF Counted, PacketsIn
  <2>6. Counted(parts[n] \ dropped, bytes[n] - Cardinality(dropped), rest)
    BY <2>2, <2>3, <2>5, CountedLess
  <2>7. QED
    BY <2>4, <2>6 DEF BytesInv
<1>5. ASSUME NEW t \in Threads, NEW n \in Nodes, Clear(t, n) PROVE BytesInv'
  <2>1. Counted({}, 0, <<>>)
    <3>1. PacketsIn({}) = {} /\ ToSet(<<>>) = {} /\ <<>> \in Seq({})
      BY DEF PacketsIn, ToSet
    <3>2. 0 <= MaxBytes /\ 0 <= MaxAssemblies
      BY ChannelAssumption
    <3>3. QED
      BY <3>1, <3>2, FS_EmptySet DEF Counted
  <2>2. QED
    BY <1>5, <2>1 DEF Clear, Assemblies, BytesInv
<1>6. ASSUME NEW t \in Threads, NEW n \in Nodes, Listen(t, n) \/ Unlisten(t, n) PROVE BytesInv'
  BY <1>1, <1>6 DEF Listen, Unlisten
<1>7. CASE ChannelNext
  BY <1>2, <1>3, <1>4, <1>5, <1>6, <1>7 DEF ChannelNext
<1>8. CASE PeerNext
  <2>1. ASSUME NEW n \in Nodes, Toggle(n) PROVE BytesInv'
    BY <1>1, <2>1 DEF channelVars, Toggle
  <2>2. ASSUME NEW t \in Threads,
               \/ Send(t) \/ Transmit(t) \/ SentPacket(t) \/ Register(t)
               \/ Wait(t) \/ Settled(t) \/ OnPacket(t)
        PROVE  BytesInv'
    BY <1>1, <2>2
       DEF channelVars, Send, Transmit, SentPacket, Register, Wait, Settled, OnPacket
  <2>3. ASSUME NEW t \in Threads,
               \/ Refresh(t) \/ SetTransport(t) \/ Fail(t) \/ Round(t)
               \/ Expire(t) \/ Wake(t)
        PROVE  BytesInv'
    BY <1>1, <2>3 DEF channelVars, Refresh, SetTransport, Fail, Round, Expire, Wake
  <2>4. ASSUME NEW t \in Threads,
               PeerStart(t) \/ Watch(t) \/ PeerStop(t) \/ Halt(t) \/ Join(t)
        PROVE  BytesInv'
    BY <1>1, <2>4 DEF channelVars, PeerStart, Watch, PeerStop, Halt, Join
  <2>5. QED
    BY <1>8, <2>1, <2>2, <2>3, <2>4 DEF PeerNext
<1>9. CASE DispatcherNext
  BY <1>1, <1>9 DEF DispatcherNext, channelVars, Dispatch, Admit, Submit, Work, Handle,
     AnswerRequest, Free, Serve, DispatcherStart, DispatcherStop, Shutdown, Drain
<1>10. CASE UNCHANGED channelVars
  BY <1>1, <1>10 DEF channelVars
<1>11. QED
  BY <1>7, <1>8, <1>9, <1>10 DEF Next, Terminating, vars, Call, Leave, Published

LEMMA BytesBegin == ASSUME Init PROVE BytesInv
<1>1. Counted({}, 0, <<>>)
  <2>1. PacketsIn({}) = {} /\ ToSet(<<>>) = {} /\ <<>> \in Seq({})
    BY DEF PacketsIn, ToSet
  <2>2. 0 <= MaxBytes /\ 0 <= MaxAssemblies
    BY ChannelAssumption
  <2>3. QED
    BY <2>1, <2>2, FS_EmptySet DEF Counted
<1>2. QED
  BY <1>1 DEF Init, ChannelInit, BytesInv

LEMMA BytesFollow == ASSUME BytesInv PROVE BytesAreExact
  BY DEF BytesInv, BytesAreExact, Counted

-------------------------------------------------------------------------------
\* The stacks of the threads that take and give back places.

Receivers == {Receiver(n) : n \in Nodes}

\* Frames of the way from the link to the executor.
Reception == {"published", "on_packet", "handed", "admit", "submit"}

\* Frames of a worker that no exception leaves; all others have a handler below.
OnWorker == {"handle", "answer", "free", "swallow"}

\* What thread t may push while there have been so many generations.
Allowed(t, f, last) ==
  /\ f[1] \notin {"caught", "free"}
  /\ f[1] \in Reception => t \in Receivers
  /\ f[1] \in {"admit", "submit"} => f[2][2] \in 1..last
  /\ f[1] = "shutdown" => f[2] \in 1..last

\* A place is asked for at the top of a stack; the stack of a worker ends with
\* giving one back, and what may raise an exception there is caught before.
Shape(t, stack, last) ==
  /\ stack \in Seq(ToSet(stack))
  /\ \A i \in 1..Len(stack) :
       /\ Allowed(t, stack[i], last) \/ (stack[i][1] = "free" /\ t \in Workers /\ i = Len(stack))
       /\ stack[i][1] = "submit" => i = 1
       /\ t \in Workers =>
            /\ i = Len(stack) => stack[i][1] = "free"
            /\ stack[i][1] \notin OnWorker =>
                 \E j \in (i + 1)..Len(stack) : stack[j][1] = "swallow"

\* Frames that may be pushed and ask for no place.
Plain(t, frames, last) ==
  /\ frames \in Seq(ToSet(frames))
  /\ \A i \in 1..Len(frames) : Allowed(t, frames[i], last) /\ frames[i][1] # "submit"

\* Frames that catch their own exceptions.
Guarded(frames) ==
  \A i \in 1..Len(frames) : frames[i][1] \notin OnWorker =>
    \E j \in (i + 1)..Len(frames) : frames[j][1] = "swallow"

\* The end of a stack has its shape, and asks for no place.
LEMMA ShapeEnd ==
  ASSUME NEW t, NEW stack, NEW last, Shape(t, stack, last), NEW k \in 1..(Len(stack) + 1)
  PROVE  /\ Shape(t, SubSeq(stack, k, Len(stack)), last)
         /\ Len(SubSeq(stack, k, Len(stack))) = Len(stack) + 1 - k
         /\ \A i \in 1..(Len(stack) + 1 - k) :
              SubSeq(stack, k, Len(stack))[i] = stack[i + k - 1]
<1> DEFINE rest == SubSeq(stack, k, Len(stack))
<1>1. Len(stack) \in Nat /\ k \in Nat /\ k >= 1 /\ stack \in Seq(ToSet(stack))
  BY DEF Shape
<1>2. /\ Len(rest) = Len(stack) + 1 - k
      /\ \A i \in 1..Len(rest) : rest[i] = stack[i + k - 1]
  <2>1. \A i \in k..Len(stack) : stack[i] \in ToSet(stack)
    BY <1>1 DEF ToSet
  <2>2. /\ Len(rest) = IF k <= Len(stack) THEN Len(stack) - k + 1 ELSE 0
        /\ \A i \in 1..Len(rest) : rest[i] = stack[k + i - 1]
    BY <1>1, <2>1, SubSeqProperties
  <2>3. QED
    BY <1>1, <2>2
<1>3. rest \in Seq(ToSet(rest))
  BY <1>1, EndOfSeq
<1> HIDE DEF rest
<1>4. ASSUME NEW i \in 1..Len(rest)
      PROVE  /\ Allowed(t, rest[i], last)
                  \/ (rest[i][1] = "free" /\ t \in Workers /\ i = Len(rest))
             /\ rest[i][1] = "submit" => i = 1
             /\ t \in Workers =>
                  /\ i = Len(rest) => rest[i][1] = "free"
                  /\ rest[i][1] \notin OnWorker =>
                       \E j \in (i + 1)..Len(rest) : rest[j][1] = "swallow"
  <2>1. i + k - 1 \in 1..Len(stack) /\ rest[i] = stack[i + k - 1]
    BY <1>1, <1>2
  <2>2. i + k - 1 = Len(stack) <=> i = Len(rest)
    BY <1>1, <1>2
  <2>3. i + k - 1 = 1 => i = 1
    BY <1>1
  <2>4. ASSUME NEW j \in (i + k - 1 + 1)..Len(stack), stack[j][1] = "swallow"
        PROVE  \E m \in (i + 1)..Len(rest) : rest[m][1] = "swallow"
    <3>1. j - k + 1 \in (i + 1)..Len(rest) /\ (j - k + 1) + k - 1 = j
      BY <1>1, <1>2
    <3>2. j - k + 1 \in 1..Len(rest)
      BY <3>1
    <3>3. rest[j - k + 1] = stack[j]
      BY <1>2, <3>1, <3>2
    <3>4. QED
      BY <2>4, <3>1, <3>3
  <2>5. QED
    BY <2>1, <2>2, <2>3, <2>4 DEF Shape
<1>5. Shape(t, rest, last)
  BY <1>3, <1>4 DEF Shape
<1>6. QED
  BY <1>2, <1>5 DEF rest

\* What is reached is the end of the stack from its first frame that is no mark.
LEMMA ReachedEnd ==
  ASSUME NEW S, NEW stack \in Seq(S)
  PROVE  \/ Reached(stack) = <<>> /\ \A i \in 1..Len(stack) : stack[i][1] \in Marks
         \/ \E k \in 1..Len(stack) :
              /\ Reached(stack) = SubSeq(stack, k, Len(stack))
              /\ stack[k][1] \notin Marks
              /\ \A i \in 1..(k - 1) : stack[i][1] \in Marks
<1> DEFINE places == {j \in 1..Len(stack) : stack[j][1] \notin Marks}
           k == IF places # {} THEN Min(places) ELSE 0
<1>1. Reached(stack) = IF k = 0 THEN <<>> ELSE SubSeq(stack, k, Len(stack))
  BY DEF Reached, SelectInSeq
<1>2. Len(stack) \in Nat
  OBVIOUS
<1>3. CASE places = {}
  BY <1>1, <1>3
<1>4. CASE places # {}
  <2>1. places \in SUBSET Nat
    OBVIOUS
  <2>2. Min(places) \in places /\ \A j \in places : Min(places) <= j
    BY <1>4, <2>1, MinExists
  <2>3. k = Min(places)
    BY <1>4
  <2> HIDE DEF k
  <2>4. k \in 1..Len(stack) /\ stack[k][1] \notin Marks
    BY <2>2, <2>3
  <2>5. ASSUME NEW i \in 1..(k - 1) PROVE stack[i][1] \in Marks
    <3>1. i \in 1..Len(stack) /\ ~(k <= i)
      BY <1>2, <2>4
    <3>2. QED
      BY <2>2, <2>3, <3>1
  <2>6. Reached(stack) = SubSeq(stack, k, Len(stack))
    BY <1>1, <2>4
  <2>7. QED
    BY <2>4, <2>5, <2>6
<1>5. QED
  BY <1>3, <1>4

\* Reaching keeps the shape; a worker has reached a frame, and only who was at a
\* place to ask for is there afterwards.
LEMMA ShapeReached ==
  ASSUME NEW t, NEW stack, NEW last, Shape(t, stack, last)
  PROVE  /\ Shape(t, Reached(stack), last)
         /\ t \in Workers /\ stack # <<>> => Reached(stack) # <<>>
         /\ Reached(stack) # <<>> /\ Head(Reached(stack))[1] = "submit" =>
              stack # <<>> /\ Head(stack)[1] = "submit"
<1> DEFINE S == ToSet(stack)
<1>1. stack \in Seq(S) /\ Len(stack) \in Nat
  BY DEF Shape
<1> HIDE DEF S
<1>2. CASE Reached(stack) = <<>> /\ \A i \in 1..Len(stack) : stack[i][1] \in Marks
  <2>1. Shape(t, <<>>, last)
    BY DEF Shape
  <2>2. t \in Workers => stack = <<>>
    <3>1. SUFFICES ASSUME t \in Workers, stack # <<>> PROVE FALSE
      OBVIOUS
    <3>2. Len(stack) \in 1..Len(stack)
      BY <1>1, <3>1
    <3>3. stack[Len(stack)][1] = "free"
      BY <3>1, <3>2 DEF Shape
    <3>4. QED
      BY <1>2, <3>2, <3>3 DEF Marks
  <2>3. QED
    BY <1>2, <2>1, <2>2
<1>3. ASSUME NEW k \in 1..Len(stack), Reached(stack) = SubSeq(stack, k, Len(stack))
      PROVE  /\ Shape(t, Reached(stack), last) /\ Reached(stack) # <<>>
             /\ Head(Reached(stack))[1] = "submit" => stack # <<>> /\ Head(stack)[1] = "submit"
  <2>1. k \in 1..(Len(stack) + 1)
    BY <1>1
  <2> DEFINE rest == SubSeq(stack, k, Len(stack))
  <2>2. /\ Shape(t, rest, last) /\ Len(rest) = Len(stack) + 1 - k
        /\ \A i \in 1..(Len(stack) + 1 - k) : rest[i] = stack[i + k - 1]
    BY <2>1, ShapeEnd
  <2> HIDE DEF rest
  <2>3. Len(rest) >= 1 /\ rest[1] = stack[k]
    <3>1. 1 \in 1..(Len(stack) + 1 - k) /\ 1 + k - 1 = k /\ Len(stack) + 1 - k >= 1
      BY <1>1
    <3>2. rest[1] = stack[1 + k - 1]
      BY <2>2, <3>1
    <3>3. QED
      BY <2>2, <3>1, <3>2
  <2>4. rest # <<>> /\ Head(rest) = stack[k]
    BY <2>2, <2>3 DEF Shape
  <2>5. stack[k][1] = "submit" => stack # <<>> /\ Head(stack) = stack[k]
    <3>1. stack[k][1] = "submit" => k = 1
      BY DEF Shape
    <3>2. QED
      BY <1>1, <3>1
  <2>6. QED
    BY <1>3, <2>2, <2>4, <2>5 DEF rest
<1>4. QED
  BY <1>1, <1>2, <1>3, ReachedEnd

\* Pushing keeps the shape, if what is pushed on a worker's stack is caught.
LEMMA ShapePush ==
  ASSUME NEW t, NEW rest, NEW last, Shape(t, rest, last), NEW frames, Plain(t, frames, last),
         \A i \in 1..Len(rest) : rest[i][1] # "submit",
         t \in Workers => /\ rest # <<>>
                          /\ \/ Guarded(frames)
                             \/ \E j \in 1..Len(rest) : rest[j][1] = "swallow"
  PROVE  /\ Shape(t, frames \o rest, last)
         /\ \A i \in 1..Len(frames \o rest) : (frames \o rest)[i][1] # "submit"
<1> DEFINE S == ToSet(frames) \cup ToSet(rest)
           stack == frames \o rest
<1>1. /\ frames \in Seq(S) /\ rest \in Seq(S)
      /\ Len(frames) \in Nat /\ Len(rest) \in Nat
  BY SeqWider DEF Plain, Shape
<1>2. /\ stack \in Seq(S) /\ Len(stack) = Len(frames) + Len(rest)
      /\ \A i \in 1..(Len(frames) + Len(rest)) :
           stack[i] = IF i <= Len(frames) THEN frames[i] ELSE rest[i - Len(frames)]
  BY <1>1, ConcatProperties
<1> HIDE DEF stack, S
<1>3. stack \in Seq(ToSet(stack))
  <2>1. stack \in [1..Len(stack) -> ToSet(stack)] /\ Len(stack) \in Nat
    BY <1>2 DEF ToSet
  <2>2. QED
    BY <2>1
<1>4. ASSUME NEW i \in 1..Len(stack), i <= Len(frames)
      PROVE  /\ Allowed(t, stack[i], last) /\ stack[i][1] # "submit"
             /\ t \in Workers =>
                  /\ i < Len(stack)
                  /\ stack[i][1] \notin OnWorker =>
                       \E j \in (i + 1)..Len(stack) : stack[j][1] = "swallow"
  <2>1. i \in 1..Len(frames) /\ stack[i] = frames[i]
    <3>1. PICK m \in Nat, n \in Nat : m = Len(frames) /\ n = Len(rest)
      BY <1>1
    <3>2. i \in 1..(m + n) /\ i \in 1..m
      BY <1>2, <1>4, <3>1
    <3>3. QED
      BY <1>2, <1>4, <3>1, <3>2
  <2>2. Allowed(t, stack[i], last) /\ stack[i][1] # "submit"
    BY <2>1 DEF Plain
  <2>3. ASSUME t \in Workers, stack[i][1] \notin OnWorker
        PROVE  \E j \in (i + 1)..Len(stack) : stack[j][1] = "swallow"
    <3>1. CASE Guarded(frames)
      <4>1. PICK j \in (i + 1)..Len(frames) : frames[j][1] = "swallow"
        BY <2>1, <2>3, <3>1 DEF Guarded
      <4>2. j \in (i + 1)..Len(stack) /\ j \in 1..(Len(frames) + Len(rest)) /\ j <= Len(frames)
        BY <1>1, <1>2, <4>1
      <4>3. stack[j] = frames[j]
        BY <1>2, <4>2
      <4>4. QED
        BY <4>1, <4>2, <4>3
    <3>2. CASE \E j \in 1..Len(rest) : rest[j][1] = "swallow"
      <4>1. PICK j \in 1..Len(rest) : rest[j][1] = "swallow"
        BY <3>2
      <4>2. /\ j + Len(frames) \in (i + 1)..Len(stack)
            /\ j + Len(frames) \in 1..(Len(frames) + Len(rest))
            /\ ~(j + Len(frames) <= Len(frames)) /\ (j + Len(frames)) - Len(frames) = j
        BY <1>1, <1>2, <1>4, <4>1
      <4>3. stack[j + Len(frames)] = rest[j]
        BY <1>2, <4>2
      <4>4. QED
        BY <4>1, <4>2, <4>3
    <3>3. QED
      BY <2>3, <3>1, <3>2
  <2>4. t \in Workers => i < Len(stack)
    <3>1. SUFFICES ASSUME t \in Workers PROVE i < Len(stack)
      OBVIOUS
    <3>2. Len(rest) >= 1
      BY <1>1, <3>1
    <3>3. QED
      BY <1>1, <1>2, <1>4, <3>2
  <2>5. QED
    BY <2>2, <2>3, <2>4
<1>5. ASSUME NEW i \in 1..Len(stack), ~(i <= Len(frames))
      PROVE  /\ Allowed(t, stack[i], last)
                  \/ (stack[i][1] = "free" /\ t \in Workers /\ i = Len(stack))
             /\ stack[i][1] # "submit"
             /\ t \in Workers =>
                  /\ i = Len(stack) => stack[i][1] = "free"
                  /\ stack[i][1] \notin OnWorker =>
                       \E j \in (i + 1)..Len(stack) : stack[j][1] = "swallow"
  <2> DEFINE m == i - Len(frames)
  <2>1. /\ m \in 1..Len(rest) /\ stack[i] = rest[m]
        /\ i = Len(stack) <=> m = Len(rest)
    <3>1. m \in 1..Len(rest) /\ (i = Len(stack) <=> m = Len(rest))
      BY <1>1, <1>2, <1>5
    <3>2. i \in 1..(Len(frames) + Len(rest))
      BY <1>2
    <3>3. QED
      BY <1>2, <1>5, <3>1, <3>2
  <2>2. ASSUME NEW k \in (m + 1)..Len(rest), rest[k][1] = "swallow"
        PROVE  \E j \in (i + 1)..Len(stack) : stack[j][1] = "swallow"
    <3>1. /\ k + Len(frames) \in (i + 1)..Len(stack)
          /\ k + Len(frames) \in 1..(Len(frames) + Len(rest))
          /\ ~(k + Len(frames) <= Len(frames)) /\ (k + Len(frames)) - Len(frames) = k
      BY <1>1, <1>2, <2>1, <2>2
    <3>2. stack[k + Len(frames)] = rest[k]
      BY <1>2, <3>1
    <3>3. QED
      BY <2>2, <3>1, <3>2
  <2> HIDE DEF m
  <2>3. QED
    BY <2>1, <2>2 DEF Shape
<1>6. /\ Shape(t, stack, last)
      /\ \A i \in 1..Len(stack) : stack[i][1] # "submit"
  BY <1>3, <1>4, <1>5 DEF Shape
<1>7. QED
  BY <1>6 DEF stack

\* What is below the top asks for no place; a worker has something there, unless
\* it is about to give its place back, and a handler if the top may raise.
LEMMA ShapeTail ==
  ASSUME NEW t, NEW stack, NEW last, Shape(t, stack, last), stack # <<>>
  PROVE  /\ Shape(t, Tail(stack), last)
         /\ \A i \in 1..Len(Tail(stack)) : Tail(stack)[i][1] # "submit"
         /\ Head(stack)[1] = "free" => t \in Workers /\ Tail(stack) = <<>>
         /\ t \in Workers /\ Head(stack)[1] # "free" => Tail(stack) # <<>>
         /\ t \in Workers /\ Head(stack)[1] \notin OnWorker =>
              \E j \in 1..Len(Tail(stack)) : Tail(stack)[j][1] = "swallow"
         /\ Head(stack)[1] # "free" => Allowed(t, Head(stack), last)
<1> DEFINE S == ToSet(stack)
           rest == Tail(stack)
<1>1. stack \in Seq(S) /\ Len(stack) \in Nat /\ Len(stack) >= 1 /\ Head(stack) = stack[1]
  BY DEF Shape
<1> HIDE DEF S
<1>2. /\ rest = SubSeq(stack, 2, Len(stack)) /\ 2 \in 1..(Len(stack) + 1)
  BY <1>1
<1>3. /\ Shape(t, rest, last) /\ Len(rest) = Len(stack) - 1
      /\ \A i \in 1..(Len(stack) - 1) : rest[i] = stack[i + 1]
  <2>1. ASSUME NEW k \in 1..(Len(stack) + 1), k = 2
        PROVE  /\ Shape(t, rest, last) /\ Len(rest) = Len(stack) - 1
               /\ \A i \in 1..(Len(stack) - 1) : rest[i] = stack[i + 1]
    <3>1. rest = SubSeq(stack, k, Len(stack))
      BY <1>2, <2>1
    <3> HIDE DEF rest
    <3>2. /\ Shape(t, rest, last) /\ Len(rest) = Len(stack) + 1 - k
          /\ \A i \in 1..(Len(stack) + 1 - k) : rest[i] = stack[i + k - 1]
      BY <3>1, ShapeEnd
    <3>3. /\ Len(stack) + 1 - k = Len(stack) - 1
          /\ \A i \in 1..(Len(stack) - 1) : i + k - 1 = i + 1
      BY <1>1, <2>1
    <3>4. QED
      BY <3>2, <3>3
  <2>2. QED
    BY <1>2, <2>1
<1> HIDE DEF rest
<1>4. \A i \in 1..Len(rest) : rest[i][1] # "submit"
  <2>1. \A i \in 1..(Len(stack) - 1) : i + 1 \in 1..Len(stack) /\ i + 1 # 1
    BY <1>1
  <2>2. QED
    BY <1>3, <2>1 DEF Shape
<1>5. 1 \in 1..Len(stack)
  BY <1>1
<1>6. Head(stack)[1] = "free" => t \in Workers /\ rest = <<>>
  <2>1. SUFFICES ASSUME Head(stack)[1] = "free" PROVE t \in Workers /\ rest = <<>>
    OBVIOUS
  <2>2. t \in Workers /\ 1 = Len(stack)
    BY <1>1, <1>5, <2>1 DEF Shape, Allowed
  <2>3. Len(rest) = 0 /\ rest \in Seq(ToSet(rest))
    BY <1>3, <2>2 DEF Shape
  <2>4. QED
    BY <2>2, <2>3
<1>7. t \in Workers /\ Head(stack)[1] # "free" => rest # <<>>
  <2>1. SUFFICES ASSUME t \in Workers, Head(stack)[1] # "free", rest = <<>> PROVE FALSE
    OBVIOUS
  <2>2. 1 = Len(stack)
    BY <1>1, <1>3, <2>1
  <2>3. QED
    BY <1>1, <1>5, <2>1, <2>2 DEF Shape
<1>8. t \in Workers /\ Head(stack)[1] \notin OnWorker =>
        \E j \in 1..Len(rest) : rest[j][1] = "swallow"
  <2>1. SUFFICES ASSUME t \in Workers, Head(stack)[1] \notin OnWorker
                 PROVE  \E j \in 1..Len(rest) : rest[j][1] = "swallow"
    OBVIOUS
  <2>2. PICK j \in (1 + 1)..Len(stack) : stack[j][1] = "swallow"
    BY <1>1, <1>5, <2>1 DEF Shape
  <2>3. j - 1 \in 1..(Len(stack) - 1) /\ (j - 1) + 1 = j
    BY <1>1
  <2>4. rest[j - 1][1] = "swallow"
    BY <1>3, <2>2, <2>3
  <2>5. QED
    BY <1>3, <2>3, <2>4
<1>9. Head(stack)[1] # "free" => Allowed(t, Head(stack), last)
  BY <1>1, <1>5 DEF Shape
<1>10. QED
  BY <1>3, <1>4, <1>6, <1>7, <1>8, <1>9 DEF rest

\* A frame for which an exception stops is no place to ask for, nor to give back.
LEMMA ToldAllowed ==
  ASSUME NEW t, NEW last
  PROVE  /\ \A name \in Finally : Allowed(t, <<name, TRUE>>, last) /\ name # "submit"
         /\ Allowed(t, <<"raise">>, last)
  BY DEF Allowed, Finally, Reception

\* An exception keeps the shape; a worker catches it.
LEMMA ShapeUnwound ==
  ASSUME NEW t, NEW stack, NEW last, Shape(t, stack, last),
         \A i \in 1..Len(stack) : stack[i][1] # "submit",
         t \in Workers => \E j \in 1..Len(stack) : stack[j][1] = "swallow"
  PROVE  /\ Shape(t, Unwound(stack), last)
         /\ t \in Workers => Unwound(stack) # <<>>
         /\ Unwound(stack) # <<>> => Head(Unwound(stack))[1] # "submit"
<1> DEFINE places == {k \in 1..Len(stack) : stack[k][1] \in Marks \cup Finally}
           i == IF places # {} THEN Min(places) ELSE 0
           above == SubSeq(stack, i + 1, Len(stack))
           j == SelectInSeq(above, LAMBDA frame : frame[1] \in Reports)
           S == ToSet(stack)
<1>1. Unwound(stack) =
        CASE i = 0 -> <<>>
          [] i > 0 /\ stack[i][1] = "swallow" -> Reached(above)
          [] i > 0 /\ stack[i][1] = "caught" ->
               Reached([above EXCEPT ![j] = Told(above[j])])
          [] OTHER -> <<Told(stack[i]), <<"raise">>>> \o above
  BY DEF Unwound, SelectInSeq
<1>2. stack \in Seq(S) /\ Len(stack) \in Nat
  BY DEF Shape
<1> HIDE DEF S, j
<1>3. /\ i = 0 => places = {}
      /\ i # 0 => i \in 1..Len(stack) /\ stack[i][1] \in Marks \cup Finally
  <2>1. places \in SUBSET Nat
    OBVIOUS
  <2>2. places # {} => Min(places) \in places
    BY <2>1, MinExists
  <2>3. QED
    BY <2>2
<1>4. t \in Workers => i # 0
  BY <1>3 DEF Marks
<1> HIDE DEF i, places
<1>5. CASE i = 0
  <2>1. Unwound(stack) = <<>>
    BY <1>1, <1>5
  <2>2. Shape(t, <<>>, last)
    BY DEF Shape
  <2>3. QED
    BY <1>4, <1>5, <2>1, <2>2
<1>6. CASE i # 0
  <2>1. i \in 1..Len(stack) /\ i > 0 /\ stack[i][1] \in Marks \cup Finally /\ stack[i][1] # "caught"
    <3>1. i \in 1..Len(stack) /\ i > 0 /\ stack[i][1] \in Marks \cup Finally
      BY <1>2, <1>3, <1>6
    <3>2. stack[i][1] # "caught"
      BY <3>1 DEF Shape, Allowed
    <3>3. QED
      BY <3>1, <3>2
  <2>2. i + 1 \in 1..(Len(stack) + 1)
    BY <1>2, <2>1
  <2>3. /\ Shape(t, above, last) /\ Len(above) = Len(stack) + 1 - (i + 1)
        /\ \A k \in 1..(Len(stack) + 1 - (i + 1)) : above[k] = stack[k + (i + 1) - 1]
    BY <2>2, ShapeEnd
  <2> HIDE DEF above
  <2>4. /\ Len(above) = Len(stack) - i
        /\ \A k \in 1..(Len(stack) - i) : k + i \in 1..Len(stack) /\ above[k] = stack[k + i]
    <3>1. Len(stack) + 1 - (i + 1) = Len(stack) - i
      BY <1>2, <2>1
    <3>2. \A k \in 1..(Len(stack) - i) : k + (i + 1) - 1 = k + i /\ k + i \in 1..Len(stack)
      BY <1>2, <2>1
    <3>3. QED
      BY <2>3, <3>1, <3>2
  <2>5. \A k \in 1..Len(above) : above[k][1] # "submit"
    BY <2>4
  <2>6. t \in Workers => above # <<>>
    <3>1. SUFFICES ASSUME t \in Workers, above = <<>> PROVE FALSE
      OBVIOUS
    <3>2. i = Len(stack)
      BY <1>2, <2>1, <2>4, <3>1
    <3>3. stack[i][1] = "free"
      BY <2>1, <3>1, <3>2 DEF Shape
    <3>4. QED
      BY <2>1, <3>3 DEF Marks, Finally
  <2>7. CASE stack[i][1] = "swallow"
    <3>1. Unwound(stack) = Reached(above)
      BY <1>1, <1>6, <2>1, <2>7
    <3>2. /\ Shape(t, Reached(above), last)
          /\ t \in Workers /\ above # <<>> => Reached(above) # <<>>
          /\ Reached(above) # <<>> /\ Head(Reached(above))[1] = "submit" =>
               above # <<>> /\ Head(above)[1] = "submit"
      BY <2>3, ShapeReached
    <3>3. above # <<>> => Head(above)[1] # "submit"
      <4>1. above # <<>> => 1 \in 1..Len(above) /\ Head(above) = above[1]
        BY <2>3 DEF Shape
      <4>2. QED
        BY <2>5, <4>1
    <3>4. QED
      BY <2>6, <3>1, <3>2, <3>3
  <2>8. CASE stack[i][1] # "swallow"
    <3> DEFINE pair == <<Told(stack[i]), <<"raise">>>>
    <3>1. Unwound(stack) = pair \o above
      BY <1>1, <1>6, <2>1, <2>8
    <3>2. stack[i][1] \in Finally
      BY <2>1, <2>8 DEF Marks
    <3>3. Plain(t, pair, last)
      <4>1. /\ Allowed(t, Told(stack[i]), last) /\ Told(stack[i])[1] # "submit"
            /\ Allowed(t, <<"raise">>, last) /\ <<"raise">>[1] # "submit"
        BY <3>2, ToldAllowed DEF Told
      <4>2. /\ pair \in Seq(ToSet(pair)) /\ Len(pair) = 2
            /\ pair[1] = Told(stack[i]) /\ pair[2] = <<"raise">>
        <5>1. pair \in Seq({Told(stack[i]), <<"raise">>})
          OBVIOUS
        <5>2. \A T : \A s \in Seq(T) : s \in Seq(ToSet(s))
          <6>1. ASSUME NEW T, NEW s \in Seq(T) PROVE s \in Seq(ToSet(s))
            <7>1. s \in [1..Len(s) -> ToSet(s)] /\ Len(s) \in Nat
              BY DEF ToSet
            <7>2. QED
              BY <7>1
          <6>2. QED
            BY <6>1
        <5>3. QED
          BY <5>1, <5>2
      <4> HIDE DEF pair
      <4>3. \A k \in 1..Len(pair) : k = 1 \/ k = 2
        BY <4>2
      <4>4. QED
        BY <4>1, <4>2, <4>3 DEF Plain
    <3>4. t \in Workers => \E k \in 1..Len(above) : above[k][1] = "swallow"
      <4>1. SUFFICES ASSUME t \in Workers
                     PROVE  \E k \in 1..Len(above) : above[k][1] = "swallow"
        OBVIOUS
      <4>2. stack[i][1] \notin OnWorker
        BY <3>2 DEF Finally, OnWorker
      <4>3. PICK k \in (i + 1)..Len(stack) : stack[k][1] = "swallow"
        BY <2>1, <4>1, <4>2 DEF Shape
      <4>4. k - i \in 1..(Len(stack) - i) /\ (k - i) + i = k
        BY <1>2, <2>1
      <4>5. above[k - i][1] = "swallow"
        BY <2>4, <4>3, <4>4
      <4>6. QED
        BY <2>4, <4>4, <4>5
    <3> HIDE DEF pair
    <3>5. /\ Shape(t, pair \o above, last)
          /\ \A k \in 1..Len(pair \o above) : (pair \o above)[k][1] # "submit"
      BY <2>3, <2>5, <2>6, <3>3, <3>4, ShapePush
    <3>6. pair \o above # <<>> /\ Head(pair \o above)[1] # "submit"
      <4>1. pair \o above # <<>>
        <5>1. pair # <<>> /\ pair \in Seq(ToSet(pair)) /\ above \in Seq(ToSet(above))
          BY <2>3, <3>3 DEF Plain, Shape, pair
        <5>2. pair \in Seq(ToSet(pair) \cup ToSet(above)) /\ above \in Seq(ToSet(pair) \cup ToSet(above))
          BY <5>1, SeqWider
        <5>3. QED
          BY <5>1, <5>2
      <4>2. 1 \in 1..Len(pair \o above) /\ Head(pair \o above) = (pair \o above)[1]
        BY <3>5, <4>1 DEF Shape
      <4>3. QED
        BY <3>5, <4>1, <4>2
    <3>7. QED
      BY <3>1, <3>5, <3>6
  <2>9. QED
    BY <2>7, <2>8
<1>7. QED
  BY <1>5, <1>6

\* The workers that are not idle, and the threads that have taken a place for a
\* job that no executor has yet.
Busies == {w \in Workers : ~Idle(w)}
Submitting == {t \in Threads : At(t, "submit")}

Queues(q) ==
  q \in Seq(ToSet(q)) /\ \A g \in 1..Len(q) : q[g] \in Seq(ToSet(q[g]))

\* The inductive invariant: who may hold a place, and that all places are there.
PlacesInv ==
  /\ todo = [t \in Threads |-> todo[t]]
  /\ \A t \in Threads : Shape(t, todo[t], generation)
  /\ calls \subseteq Threads \X Commands
  /\ generation \in Nat \ {0} /\ capacity \in Nat
  /\ Queues(queue) /\ Len(queue) = generation
  /\ IsFiniteSet(Busies) /\ IsFiniteSet(Submitting) /\ IsFiniteSet(Waiting)
  /\ PlacesAreExact

\* A new generation takes no stack its shape.
LEMMA ShapeLater ==
  ASSUME NEW last \in Nat, NEW more \in Nat, last <= more,
         NEW t, NEW stack, Shape(t, stack, last)
  PROVE  Shape(t, stack, more)
<1>1. \A f : Allowed(t, f, last) => Allowed(t, f, more)
  <2>1. \A g \in 1..last : g \in 1..more
    OBVIOUS
  <2>2. QED
    BY <2>1 DEF Allowed
<1>2. QED
  BY <1>1 DEF Shape

LEMMA SeqOfItself == ASSUME NEW S, NEW s \in Seq(S) PROVE s \in Seq(ToSet(s))
<1>1. s \in [1..Len(s) -> ToSet(s)] /\ Len(s) \in Nat
  BY DEF ToSet
<1>2. QED
  BY <1>1

LEMMA PlainFrom ==
  ASSUME NEW t, NEW last, NEW S, NEW frames \in Seq(S),
         \A f \in S : Allowed(t, f, last) /\ f[1] # "submit"
  PROVE  Plain(t, frames, last)
<1>1. \A i \in 1..Len(frames) : frames[i] \in S
  BY ElementOfSeq
<1>2. QED
  BY <1>1, SeqOfItself DEF Plain

LEMMA PlainConcat ==
  ASSUME NEW t, NEW last, NEW a, NEW b, Plain(t, a, last), Plain(t, b, last)
  PROVE  Plain(t, a \o b, last)
<1> DEFINE S == ToSet(a) \cup ToSet(b)
<1>1. a \in Seq(S) /\ b \in Seq(S)
  BY DEF Plain
<1>2. \A f \in S : Allowed(t, f, last) /\ f[1] # "submit"
  BY DEF Plain, ToSet
<1> HIDE DEF S
<1>3. a \o b \in Seq(S)
  BY <1>1, ConcatProperties
<1>4. QED
  BY <1>2, <1>3, PlainFrom

\* Frames that ask for no place, by their name.
Fine(t, f, last) == Allowed(t, f, last) /\ f[1] # "submit"

LEMMA PlainList ==
  ASSUME NEW t, NEW last
  PROVE  /\ Plain(t, <<>>, last)
         /\ \A a : Fine(t, a, last) => Plain(t, <<a>>, last)
         /\ \A a, b : Fine(t, a, last) /\ Fine(t, b, last) => Plain(t, <<a, b>>, last)
         /\ \A a, b, c : Fine(t, a, last) /\ Fine(t, b, last) /\ Fine(t, c, last)
              => Plain(t, <<a, b, c>>, last)
         /\ \A a, b, c, d :
              Fine(t, a, last) /\ Fine(t, b, last) /\ Fine(t, c, last) /\ Fine(t, d, last)
              => Plain(t, <<a, b, c, d>>, last)
<1>1. Plain(t, <<>>, last)
  <2> DEFINE S == {}
  <2>1. <<>> \in Seq(S) /\ \A f \in S : Allowed(t, f, last) /\ f[1] # "submit"
    OBVIOUS
  <2> HIDE DEF S
  <2>2. QED
    BY <2>1, PlainFrom
<1>2. ASSUME NEW a, Fine(t, a, last) PROVE Plain(t, <<a>>, last)
  <2> DEFINE S == {a}
  <2>1. <<a>> \in Seq(S) /\ \A f \in S : Allowed(t, f, last) /\ f[1] # "submit"
    BY <1>2 DEF Fine
  <2> HIDE DEF S
  <2>2. QED
    BY <2>1, PlainFrom
<1>3. ASSUME NEW a, NEW b, Fine(t, a, last), Fine(t, b, last) PROVE Plain(t, <<a, b>>, last)
  <2> DEFINE S == {a, b}
  <2>1. <<a, b>> \in Seq(S) /\ \A f \in S : Allowed(t, f, last) /\ f[1] # "submit"
    BY <1>3 DEF Fine
  <2> HIDE DEF S
  <2>2. QED
    BY <2>1, PlainFrom
<1>4. ASSUME NEW a, NEW b, NEW c, Fine(t, a, last), Fine(t, b, last), Fine(t, c, last)
      PROVE  Plain(t, <<a, b, c>>, last)
  <2> DEFINE S == {a, b, c}
  <2>1. <<a, b, c>> \in Seq(S) /\ \A f \in S : Allowed(t, f, last) /\ f[1] # "submit"
    BY <1>4 DEF Fine
  <2> HIDE DEF S
  <2>2. QED
    BY <2>1, PlainFrom
<1>5. ASSUME NEW a, NEW b, NEW c, NEW d,
             Fine(t, a, last), Fine(t, b, last), Fine(t, c, last), Fine(t, d, last)
      PROVE  Plain(t, <<a, b, c, d>>, last)
  <2> DEFINE S == {a, b, c, d}
  <2>1. <<a, b, c, d>> \in Seq(S) /\ \A f \in S : Allowed(t, f, last) /\ f[1] # "submit"
    BY <1>5 DEF Fine
  <2> HIDE DEF S
  <2>2. QED
    BY <2>1, PlainFrom
<1>6. QED
  BY <1>1, <1>2, <1>3, <1>4, <1>5

\* Frames whose arguments matter.
Special == Reception \cup {"caught", "free", "shutdown"}

LEMMA FineName ==
  ASSUME NEW t, NEW last
  PROVE  \A name : name \notin Special =>
           Fine(t, <<name>>, last) /\ \A argument : Fine(t, <<name, argument>>, last)
<1>1. ASSUME NEW name, name \notin Special
      PROVE  Fine(t, <<name>>, last) /\ \A argument : Fine(t, <<name, argument>>, last)
  BY <1>1 DEF Fine, Allowed, Special, Reception
<1>2. QED
  BY <1>1

\* What is at the top of a stack, and in the course of executing it.
LEMMA TopAllowed ==
  ASSUME PlacesInv, NEW t \in Threads, todo[t] # <<>>, Head(todo[t])[1] # "free"
  PROVE  Allowed(t, Head(todo[t]), generation)
<1>1. Shape(t, todo[t], generation)
  BY DEF PlacesInv
<1>2. QED
  BY <1>1, ShapeTail

LEMMA BecomesShape ==
  ASSUME PlacesInv, NEW t \in Threads, todo[t] # <<>>, Head(todo[t])[1] # "free",
         NEW frames, Plain(t, frames, generation),
         t \in Workers => Guarded(frames) \/ Head(todo[t])[1] \notin OnWorker
  PROVE  /\ Shape(t, Becomes(t, frames), generation)
         /\ t \in Workers => Becomes(t, frames) # <<>>
         /\ Becomes(t, frames) # <<>> => Head(Becomes(t, frames))[1] # "submit"
<1> DEFINE rest == Tail(todo[t])
           stack == frames \o rest
<1>1. Shape(t, todo[t], generation)
  BY DEF PlacesInv
<1>2. /\ Shape(t, rest, generation)
      /\ \A i \in 1..Len(rest) : rest[i][1] # "submit"
      /\ t \in Workers => rest # <<>>
      /\ t \in Workers /\ Head(todo[t])[1] \notin OnWorker =>
           \E j \in 1..Len(rest) : rest[j][1] = "swallow"
  BY <1>1, ShapeTail
<1> HIDE DEF rest
<1>3. /\ Shape(t, stack, generation)
      /\ \A i \in 1..Len(stack) : stack[i][1] # "submit"
  BY <1>2, ShapePush
<1>4. /\ t \in Workers => stack # <<>>
      /\ stack # <<>> => Head(stack)[1] # "submit"
  <2>1. t \in Workers => stack # <<>>
    <3>1. SUFFICES ASSUME t \in Workers PROVE stack # <<>>
      OBVIOUS
    <3>2. /\ frames \in Seq(ToSet(frames) \cup ToSet(rest))
          /\ rest \in Seq(ToSet(frames) \cup ToSet(rest)) /\ rest # <<>>
      BY <1>2, <3>1, SeqWider DEF Plain, Shape
    <3>3. QED
      BY <3>2
  <2>2. stack # <<>> => 1 \in 1..Len(stack) /\ Head(stack) = stack[1]
    BY <1>3 DEF Shape
  <2>3. QED
    BY <1>3, <2>1, <2>2
<1> HIDE DEF stack
<1>5. /\ Shape(t, Reached(stack), generation)
      /\ t \in Workers => Reached(stack) # <<>>
      /\ Reached(stack) # <<>> => Head(Reached(stack))[1] # "submit"
  BY <1>3, <1>4, ShapeReached
<1>6. QED
  BY <1>5 DEF Becomes, stack, rest

\* Who executes a frame that is not the one that gives a place back is as busy as
\* before, and asks for no place afterwards.
LEMMA DoesShape ==
  ASSUME PlacesInv, NEW t \in Threads, todo[t] # <<>>, Head(todo[t])[1] # "free",
         NEW frames, Plain(t, frames, generation),
         t \in Workers => Guarded(frames) \/ Head(todo[t])[1] \notin OnWorker,
         Does(t, frames)
  PROVE  /\ todo' = [u \in Threads |-> todo'[u]]
         /\ \A u \in Threads : Shape(u, todo'[u], generation)
         /\ Busies' = Busies /\ Submitting' = Submitting \ {t}
<1> DEFINE stack == Becomes(t, frames)
<1>1. /\ Shape(t, stack, generation)
      /\ t \in Workers => stack # <<>>
      /\ stack # <<>> => Head(stack)[1] # "submit"
  BY BecomesShape
<1>2. /\ todo' = [u \in Threads |-> todo'[u]]
      /\ todo'[t] = stack /\ \A u \in Threads \ {t} : todo'[u] = todo[u]
  BY DEF Does, PlacesInv
<1> HIDE DEF stack
<1>3. \A u \in Threads : Shape(u, todo'[u], generation)
  BY <1>1, <1>2 DEF PlacesInv
<1>4. Busies' = Busies
  <2>1. \A w \in Workers : todo'[w] = <<>> <=> todo[w] = <<>>
    <3>1. Workers \subseteq Threads
      BY DispatcherAssumption
    <3>2. QED
      BY <1>1, <1>2, <3>1
  <2>2. QED
    BY <2>1 DEF Busies, Idle
<1>5. Submitting' = Submitting \ {t}
  BY <1>1, <1>2 DEF Submitting, At
<1>6. QED
  BY <1>2, <1>3, <1>4, <1>5

places == <<capacity, queue, generation>>

\* A step that moves stacks only, and not those of who takes or gives back a place.
LEMMA PlacesKept ==
  ASSUME PlacesInv, UNCHANGED places, calls' \subseteq calls,
         todo' = [u \in Threads |-> todo'[u]],
         \A u \in Threads : Shape(u, todo'[u], generation),
         Busies' = Busies, Submitting' = Submitting
  PROVE  PlacesInv'
<1>1. capacity' = capacity /\ queue' = queue /\ generation' = generation
  BY DEF places
<1>2. Waiting' = Waiting
  BY <1>1 DEF Waiting
<1>3. PlacesAreExact'
  BY <1>1, <1>2 DEF PlacesInv, PlacesAreExact, Busies, Submitting
<1>4. QED
  BY <1>1, <1>2, <1>3 DEF PlacesInv

LEMMA StacksPlaces ==
  ASSUME PlacesInv, UNCHANGED places, calls' \subseteq calls,
         todo' = [u \in Threads |-> todo'[u]],
         \A u \in Threads :
           \/ todo'[u] = todo[u]
           \/ /\ Shape(u, todo'[u], generation)
              /\ u \in Workers => todo[u] # <<>> /\ todo'[u] # <<>>
              /\ todo[u] # <<>> => Head(todo[u])[1] # "submit"
              /\ todo'[u] # <<>> => Head(todo'[u])[1] # "submit"
  PROVE  PlacesInv'
<1>1. \A u \in Threads : Shape(u, todo'[u], generation)
  BY DEF PlacesInv
<1>2. Busies' = Busies
  <2>1. \A w \in Workers : todo'[w] = <<>> <=> todo[w] = <<>>
    BY DispatcherAssumption
  <2>2. QED
    BY <2>1 DEF Busies, Idle
<1>3. Submitting' = Submitting
  BY DEF Submitting, At
<1>4. QED
  BY <1>1, <1>2, <1>3, PlacesKept

LEMMA DoesPlaces ==
  ASSUME PlacesInv, UNCHANGED places, calls' \subseteq calls,
         NEW t \in Threads, todo[t] # <<>>, Head(todo[t])[1] \notin {"free", "submit"},
         NEW frames, Plain(t, frames, generation),
         t \in Workers => Guarded(frames) \/ Head(todo[t])[1] \notin OnWorker,
         Does(t, frames)
  PROVE  PlacesInv'
<1>1. /\ todo' = [u \in Threads |-> todo'[u]]
      /\ \A u \in Threads : Shape(u, todo'[u], generation)
      /\ Busies' = Busies /\ Submitting' = Submitting \ {t}
  BY DoesShape
<1>2. t \notin Submitting
  BY DEF Submitting, At
<1>3. QED
  BY <1>1, <1>2, PlacesKept

\* The steps of the peer leave the places alone.
LEMMA PeerPlaces ==
  ASSUME PlacesInv, UNCHANGED <<dispatcherVars, calls>>, NEW t \in Threads,
         \/ Send(t) \/ Transmit(t) \/ SentPacket(t)
         \/ Register(t) \/ Wait(t) \/ Settled(t) \/ OnPacket(t)
         \/ Refresh(t) \/ SetTransport(t) \/ Fail(t)
         \/ Round(t) \/ Expire(t) \/ Wake(t)
         \/ PeerStart(t) \/ PeerStop(t) \/ Halt(t) \/ Join(t)
  PROVE  PlacesInv'
<1> DEFINE last == generation
<1>1. /\ UNCHANGED places /\ calls' \subseteq calls
      /\ todo[t] # <<>> /\ Head(todo[t])[1] \notin {"free", "submit"} \cup OnWorker
  <2>1. UNCHANGED places /\ calls' \subseteq calls
    BY DEF places, dispatcherVars
  <2>2. \E name \in {"send", "transmit", "sent", "register", "wait", "settled", "on_packet", "refresh",
                     "set", "fail", "monitor", "expire", "asleep", "peer_start", "peer_stop",
                     "halt", "join"} : At(t, name)
    BY DEF Send, Transmit, SentPacket, Register, Wait, Settled, OnPacket, Refresh, SetTransport,
           Fail, Round, Expire, Wake, PeerStart, PeerStop, Halt, Join
  <2>3. QED
    BY <2>1, <2>2 DEF At, OnWorker
<1>2. ASSUME NEW frames, Plain(t, frames, last), Does(t, frames) PROVE PlacesInv'
  BY <1>1, <1>2, DoesPlaces
<1>3. \A name : name \notin Special =>
        Fine(t, <<name>>, last) /\ \A argument : Fine(t, <<name, argument>>, last)
  BY FineName
<1>4. \A name : name \notin Special =>
        Plain(t, <<<<name>>>>, last) /\ \A argument : Plain(t, <<<<name, argument>>>>, last)
  BY <1>3, PlainList
<1>5. Plain(t, <<>>, last)
  BY PlainList
<1> HIDE DEF last
<1>6. CASE SentPacket(t) \/ Wait(t) \/ Settled(t) \/ Fail(t) \/ Expire(t) \/ Halt(t) \/ Join(t)
  BY <1>2, <1>5, <1>6 DEF SentPacket, Wait, Settled, Fail, Expire, Halt, Join
<1>7. CASE Refresh(t) \/ SetTransport(t) \/ Wake(t)
  BY <1>2, <1>4, <1>5, <1>7 DEF Refresh, SetTransport, Wake, Special, Reception
<1>8. CASE Send(t)
  <2>1. \A packet : Plain(t, <<<<"transmit", packet>>, <<"sent">>>>, last)
    BY <1>3, PlainList DEF Special, Reception
  <2>2. Plain(t, <<<<"raise">>>>, last)
    BY <1>4 DEF Special, Reception
  <2>3. QED
    BY <1>2, <1>8, <2>1, <2>2 DEF Send, Raises
<1>9. CASE Transmit(t)
  <2>1. Plain(t, <<<<"refresh">>, <<"raise">>>>, last)
    BY <1>3, PlainList DEF Special, Reception
  <2>2. Plain(t, <<<<"raise">>>>, last)
    BY <1>4 DEF Special, Reception
  <2>3. QED
    BY <1>2, <1>5, <1>9, <2>1, <2>2 DEF Transmit, Raises
<1>10. CASE Register(t)
  <2>1. \A packet : Plain(t, <<<<"send", packet>>, <<"wait">>, <<"settled", FALSE>>>>, last)
    BY <1>3, PlainList DEF Special, Reception
  <2>2. Plain(t, <<<<"raise">>>>, last)
    BY <1>4 DEF Special, Reception
  <2>3. QED
    BY <1>2, <1>10, <2>1, <2>2 DEF Register, Raises
<1>11. CASE OnPacket(t)
  <2>1. t \in Receivers
    <3>1. Head(todo[t])[1] = "on_packet"
      BY <1>11 DEF OnPacket, At
    <3>2. QED
      BY <1>1, <3>1, TopAllowed DEF Allowed, Reception
  <2>2. \A packet : Fine(t, <<"handed", packet>>, last)
    BY <2>1 DEF Fine, Allowed
  <2>3. \A packet : Plain(t, <<<<"handed", packet>>>>, last)
    BY <2>2, PlainList
  <2>4. \A packet, answer : Plain(t, <<<<"handed", packet>>, <<"send", answer>>>>, last)
    BY <1>3, <2>2, PlainList DEF Special, Reception
  <2>5. QED
    BY <1>2, <1>5, <1>11, <2>3, <2>4 DEF OnPacket
<1>12. CASE Round(t)
  <2> DEFINE look == <<<<"set", NodeOf(t) \in ready>>>>
             rest == <<<<"expire">>, <<"asleep">>>>
  <2>1. Plain(t, look, last)
    BY <1>4 DEF Special, Reception
  <2>2. Plain(t, rest, last)
    BY <1>3, PlainList DEF Special, Reception
  <2>3. Plain(t, Probe(pings + 1), last)
    BY <1>3, PlainList DEF Special, Reception, Probe
  <2>4. Does(t, <<>>) \/ Does(t, look \o rest) \/ Does(t, look \o Probe(pings + 1) \o rest)
    BY <1>12 DEF Round
  <2> HIDE DEF look, rest
  <2>5. Plain(t, look \o rest, last) /\ Plain(t, look \o Probe(pings + 1) \o rest, last)
    BY <2>1, <2>2, <2>3, PlainConcat
  <2>6. QED
    BY <1>2, <1>5, <2>4, <2>5
<1>13. CASE PeerStart(t)
  <2>1. Plain(t, <<<<"listen">>, <<"watch">>>>, last)
    BY <1>3, PlainList DEF Special, Reception
  <2>2. QED
    BY <1>2, <1>5, <1>13, <2>1 DEF PeerStart
<1>14. CASE PeerStop(t)
  <2>1. \A mine : Plain(t, <<<<"halt", mine>>, <<"unlisten">>, <<"clear">>, <<"join">>>>, last)
    BY <1>3, PlainList DEF Special, Reception
  <2>2. QED
    BY <1>2, <1>5, <1>14, <2>1 DEF PeerStop
<1>15. QED
  BY <1>6, <1>7, <1>8, <1>9, <1>10, <1>11, <1>12, <1>13, <1>14

\* The monitor that begins again is neither a worker nor a receiver.
LEMMA WatchPlaces ==
  ASSUME PlacesInv, UNCHANGED <<dispatcherVars, calls>>, NEW t \in Threads, Watch(t)
  PROVE  PlacesInv'
<1> DEFINE m == Monitor(NodeOf(t))
           stack == Becomes(t, <<>>)
<1>1. /\ UNCHANGED places /\ calls' \subseteq calls
      /\ todo[t] # <<>> /\ Head(todo[t])[1] = "watch"
  BY DEF Watch, At, places, dispatcherVars
<1>2. m \notin Workers /\ m \notin Receivers
  BY PeerAssumption, DispatcherAssumption DEF Receivers
<1>3. /\ Shape(t, stack, generation)
      /\ t \in Workers => stack # <<>>
      /\ stack # <<>> => Head(stack)[1] # "submit"
  BY <1>1, PlainList, BecomesShape DEF OnWorker
<1>4. m \in Threads /\ todo[m] # <<>> => Head(todo[m])[1] # "submit"
  BY <1>2, TopAllowed DEF Allowed, Reception
<1>5. Shape(m, <<<<"monitor">>>>, generation)
  <2>1. Fine(m, <<"monitor">>, generation)
    BY FineName DEF Special, Reception
  <2>2. <<<<"monitor">>>> \in Seq(ToSet(<<<<"monitor">>>>))
    BY DEF ToSet
  <2>3. QED
    BY <1>2, <2>1, <2>2 DEF Shape, Fine
<1>6. todo' = [todo EXCEPT ![t] = stack, ![m] = <<<<"monitor">>>>]
  BY DEF Watch
<1> HIDE DEF m, stack
<1>7. /\ todo' = [u \in Threads |-> todo'[u]]
      /\ \A u \in Threads : todo'[u] = IF u = m THEN <<<<"monitor">>>>
                                       ELSE IF u = t THEN stack ELSE todo[u]
  BY <1>6 DEF PlacesInv
<1>8. \A u \in Threads :
           \/ todo'[u] = todo[u]
           \/ /\ Shape(u, todo'[u], generation)
              /\ u \in Workers => todo[u] # <<>> /\ todo'[u] # <<>>
              /\ todo[u] # <<>> => Head(todo[u])[1] # "submit"
              /\ todo'[u] # <<>> => Head(todo'[u])[1] # "submit"
  <2>1. Head(<<<<"monitor">>>>)[1] # "submit"
    OBVIOUS
  <2>2. QED
    BY <1>1, <1>2, <1>3, <1>4, <1>5, <1>7, <2>1
<1>9. QED
  BY <1>1, <1>7, <1>8, StacksPlaces

\* Who is no worker may have any such frames.
LEMMA ShapePlain ==
  ASSUME NEW t, t \notin Workers, NEW frames, NEW last, Plain(t, frames, last)
  PROVE  /\ Shape(t, frames, last)
         /\ frames # <<>> => Head(frames)[1] # "submit"
<1>1. Shape(t, frames, last)
  BY DEF Plain, Shape
<1>2. frames # <<>> => 1 \in 1..Len(frames) /\ Head(frames) = frames[1]
  BY DEF Plain
<1>3. QED
  BY <1>1, <1>2 DEF Plain

\* So do those of the channel: what arrives is executed by a receiver.
LEMMA ChannelPlaces ==
  ASSUME PlacesInv, ChannelNext, UNCHANGED <<peerVars, dispatcherVars, calls>>
  PROVE  PlacesInv'
<1>1. UNCHANGED places /\ calls' \subseteq calls
  BY DEF places, dispatcherVars
<1>2. CASE todo' = todo
  <2>1. todo' = [u \in Threads |-> todo'[u]]
    BY <1>2 DEF PlacesInv
  <2>2. QED
    BY <1>1, <1>2, <2>1, StacksPlaces
<1>3. CASE Lose \/ Damage \/ Unheard
  BY <1>2, <1>3 DEF Lose, Damage, Unheard
<1>4. ASSUME NEW n \in Nodes, Prune(n) PROVE PlacesInv'
  BY <1>2, <1>4 DEF Prune
<1>5. ASSUME NEW n \in Nodes, Accept(n) PROVE PlacesInv'
  <2> DEFINE t == Receiver(n)
  <2>1. PICK packet : \/ todo' = todo
                      \/ todo' = [todo EXCEPT ![t] = <<<<"published", packet>>, <<"swallow">>>>]
    <3>1. PICK g \in air : Assemble(n, g)
      BY <1>5 DEF Accept
    <3>2. \/ todo' = todo
          \/ todo' = [todo EXCEPT ![t] = <<<<"published", g.packet>>, <<"swallow">>>>]
      BY <3>1 DEF Assemble
    <3>3. QED
      BY <3>2
  <2> DEFINE stack == <<<<"published", packet>>, <<"swallow">>>>
  <2>2. t \in Receivers /\ t \in Threads /\ t \notin Workers /\ todo[t] = <<>>
    BY <1>5, ChannelAssumption, DispatcherAssumption DEF Receivers, Accept, Idle
  <2>3. Plain(t, stack, generation)
    <3>1. Fine(t, <<"published", packet>>, generation)
      BY <2>2 DEF Fine, Allowed
    <3>2. Fine(t, <<"swallow">>, generation)
      BY FineName DEF Special, Reception
    <3>3. QED
      BY <3>1, <3>2, PlainList
  <2>4. todo' = todo \/ todo' = [todo EXCEPT ![t] = stack]
    BY <2>1
  <2> HIDE DEF t, stack
  <2>5. Shape(t, stack, generation) /\ (stack # <<>> => Head(stack)[1] # "submit")
    BY <2>2, <2>3, ShapePlain
  <2>6. /\ todo' = [u \in Threads |-> todo'[u]]
        /\ \A u \in Threads :
             \/ todo'[u] = todo[u]
             \/ /\ Shape(u, todo'[u], generation)
                /\ u \in Workers => todo[u] # <<>> /\ todo'[u] # <<>>
                /\ todo[u] # <<>> => Head(todo[u])[1] # "submit"
                /\ todo'[u] # <<>> => Head(todo'[u])[1] # "submit"
    BY <2>2, <2>4, <2>5 DEF PlacesInv
  <2>7. QED
    BY <1>1, <2>6, StacksPlaces
<1>6. ASSUME NEW t \in Threads, NEW n \in Nodes, Listen(t, n) \/ Unlisten(t, n) \/ Clear(t, n)
      PROVE  PlacesInv'
  <2>1. /\ todo[t] # <<>> /\ Head(todo[t])[1] \notin {"free", "submit"} \cup OnWorker
        /\ Does(t, <<>>)
    BY <1>6 DEF Listen, Unlisten, Clear, At, OnWorker
  <2>2. QED
    BY <1>1, <2>1, PlainList, DoesPlaces
<1>7. QED
  BY <1>3, <1>4, <1>5, <1>6 DEF ChannelNext

\* And those of callers, owners, handlers and exceptions.
LEMMA CallsPlaces ==
  ASSUME PlacesInv, UNCHANGED <<channelVars, peerVars, dispatcherVars>>, NEW t \in Threads,
         Call(t) \/ Leave(t) \/ Published(t) \/ (Unwind(t) /\ UNCHANGED calls)
  PROVE  PlacesInv'
<1>1. UNCHANGED places /\ calls' \subseteq calls
  BY DEF places, dispatcherVars, Call, Leave, Published
<1>2. \A name : name \notin Special =>
        Fine(t, <<name>>, generation) /\ \A argument : Fine(t, <<name, argument>>, generation)
  BY FineName
<1>3. ASSUME NEW name \in Commands PROVE Plain(t, Command(name), generation)
  <2>1. /\ Plain(t, <<<<"register">>>>, generation)
        /\ Plain(t, <<<<"unserve">>, <<"dispatcher_stop">>, <<"peer_stop">>>>, generation)
        /\ Plain(t, <<<<"peer_start">>, <<"serve">>, <<"dispatcher_start">>>>, generation)
        /\ Plain(t, <<<<"peer_stop">>>>, generation) /\ Plain(t, <<<<"peer_start">>>>, generation)
        /\ Plain(t, <<<<"monitor">>>>, generation) /\ Plain(t, <<<<"refresh">>>>, generation)
        /\ Plain(t, <<<<"dispatcher_stop">>>>, generation)
    BY <1>2, PlainList DEF Special, Reception
  <2>2. QED
    BY <2>1 DEF Command, Commands
<1>4. Shape(t, todo[t], generation)
  BY DEF PlacesInv
<1>5. ASSUME NEW stack, todo' = [todo EXCEPT ![t] = stack], Shape(t, stack, generation),
             t \in Workers => todo[t] # <<>> /\ stack # <<>>,
             todo[t] # <<>> => Head(todo[t])[1] # "submit",
             stack # <<>> => Head(stack)[1] # "submit"
      PROVE  PlacesInv'
  <2>1. /\ todo' = [u \in Threads |-> todo'[u]]
        /\ \A u \in Threads :
             \/ todo'[u] = todo[u]
             \/ /\ Shape(u, todo'[u], generation)
                /\ u \in Workers => todo[u] # <<>> /\ todo'[u] # <<>>
                /\ todo[u] # <<>> => Head(todo[u])[1] # "submit"
                /\ todo'[u] # <<>> => Head(todo'[u])[1] # "submit"
    BY <1>5 DEF PlacesInv
  <2>2. QED
    BY <1>1, <2>1, StacksPlaces
<1>6. CASE Call(t) /\ t \in Workers
  <2>1. PICK name \in Commands : todo' = [todo EXCEPT ![t] = Command(name) \o @]
    BY <1>6 DEF Call, PlacesInv
  <2>2. todo[t] # <<>> /\ Head(todo[t])[1] = "user"
    BY <1>6 DEF Call, At
  <2>3. todo[t] \in Seq(ToSet(todo[t])) /\ Len(todo[t]) >= 1 /\ todo[t][1][1] = "user"
    BY <1>4, <2>2 DEF Shape
  <2>4. \A i \in 1..Len(todo[t]) : todo[t][i][1] # "submit"
    BY <1>4, <2>3 DEF Shape
  <2>5. \E j \in 1..Len(todo[t]) : todo[t][j][1] = "swallow"
    <3>1. 1 \in 1..Len(todo[t]) /\ todo[t][1][1] \notin OnWorker
      BY <2>3 DEF OnWorker
    <3>2. PICK j \in (1 + 1)..Len(todo[t]) : todo[t][j][1] = "swallow"
      BY <1>4, <1>6, <3>1 DEF Shape
    <3>3. j \in 1..Len(todo[t])
      OBVIOUS
    <3>4. QED
      BY <3>2, <3>3
  <2> DEFINE frames == Command(name)
             rest == todo[t]
             stack == frames \o rest
  <2>6. Plain(t, frames, generation)
    BY <1>3
  <2> HIDE DEF frames, rest
  <2>7. /\ Shape(t, stack, generation)
        /\ \A i \in 1..Len(stack) : stack[i][1] # "submit"
    BY <1>4, <2>2, <2>4, <2>5, <2>6, ShapePush DEF rest
  <2>8. stack # <<>> /\ Head(stack)[1] # "submit"
    <3>1. frames \in Seq(ToSet(frames) \cup ToSet(rest)) /\ rest \in Seq(ToSet(frames) \cup ToSet(rest))
      BY <1>4, <2>6, SeqWider DEF Plain, Shape, rest
    <3>2. stack # <<>>
      BY <2>2, <3>1 DEF rest
    <3>3. 1 \in 1..Len(stack) /\ Head(stack) = stack[1]
      BY <2>7, <3>2 DEF Shape
    <3>4. QED
      BY <2>7, <3>2, <3>3
  <2>9. todo' = [todo EXCEPT ![t] = stack]
    BY <2>1 DEF frames, rest
  <2> HIDE DEF stack
  <2>10. QED
    BY <1>5, <2>2, <2>7, <2>8, <2>9
<1>7. CASE Call(t) /\ t \notin Workers
  <2>1. PICK name \in Commands : todo' = [todo EXCEPT ![t] = Command(name)]
    BY <1>7 DEF Call, PlacesInv
  <2>2. todo[t] # <<>> => Head(todo[t])[1] # "submit"
    BY <1>7 DEF Call, Idle, At
  <2>3. /\ Shape(t, Command(name), generation)
        /\ Command(name) # <<>> => Head(Command(name))[1] # "submit"
    BY <1>3, <1>7, ShapePlain
  <2>4. QED
    BY <1>5, <1>7, <2>1, <2>2, <2>3
<1>8. CASE Leave(t)
  <2>1. /\ todo[t] # <<>> /\ Head(todo[t])[1] \notin {"free", "submit"} \cup OnWorker
        /\ Does(t, <<>>)
    BY <1>8 DEF Leave, At, OnWorker
  <2>2. QED
    BY <1>1, <2>1, PlainList, DoesPlaces
<1>9. CASE Published(t)
  <2>1. todo[t] # <<>> /\ Head(todo[t])[1] = "published"
    BY <1>9 DEF Published, At
  <2>2. t \in Receivers
    BY <2>1, TopAllowed DEF Allowed, Reception
  <2>3. Fine(t, <<"on_packet", Arg(t)>>, generation)
    BY <2>2 DEF Fine, Allowed
  <2>4. Plain(t, <<>>, generation) /\ Plain(t, <<<<"on_packet", Arg(t)>>>>, generation)
    BY <2>3, PlainList
  <2>5. PICK frames : Does(t, frames) /\ Plain(t, frames, generation)
    BY <1>9, <2>4 DEF Published
  <2>6. Head(todo[t])[1] \notin {"free", "submit"} \cup OnWorker
    BY <2>1 DEF OnWorker
  <2>7. QED
    BY <1>1, <2>1, <2>5, <2>6, DoesPlaces
<1>10. CASE Unwind(t)
  <2>1. todo[t] # <<>> /\ Head(todo[t])[1] = "raise"
    BY <1>10 DEF Unwind, At
  <2>2. /\ Shape(t, Tail(todo[t]), generation)
        /\ \A i \in 1..Len(Tail(todo[t])) : Tail(todo[t])[i][1] # "submit"
        /\ t \in Workers => \E j \in 1..Len(Tail(todo[t])) : Tail(todo[t])[j][1] = "swallow"
    BY <1>4, <2>1, ShapeTail DEF OnWorker
  <2> DEFINE stack == Unwound(Tail(todo[t]))
  <2>3. /\ Shape(t, stack, generation)
        /\ t \in Workers => stack # <<>>
        /\ stack # <<>> => Head(stack)[1] # "submit"
    BY <2>2, ShapeUnwound
  <2>4. todo' = [todo EXCEPT ![t] = stack]
    BY <1>10 DEF Unwind
  <2> HIDE DEF stack
  <2>5. QED
    BY <1>5, <2>1, <2>3, <2>4
<1>11. QED
  BY <1>6, <1>7, <1>8, <1>9, <1>10

-------------------------------------------------------------------------------
\* The jobs that wait.

WaitingIn(q) == {x \in Nat \X Nat : x[1] \in 1..Len(q) /\ x[2] \in 1..Len(q[x[1]])}

LEMMA WaitingAre ==
  ASSUME NEW q, Queues(q)
  PROVE  UNION {{g} \X DOMAIN q[g] : g \in DOMAIN q} = WaitingIn(q)
<1> DEFINE all == UNION {{g} \X DOMAIN q[g] : g \in DOMAIN q}
<1>1. DOMAIN q = 1..Len(q) /\ Len(q) \in Nat
  BY DEF Queues
<1>2. \A g \in 1..Len(q) : DOMAIN q[g] = 1..Len(q[g]) /\ Len(q[g]) \in Nat
  BY DEF Queues
<1>3. ASSUME NEW x PROVE x \in all <=> x \in WaitingIn(q)
  <2>1. x \in all <=> \E g \in 1..Len(q) : x \in {g} \X (1..Len(q[g]))
    BY <1>1, <1>2
  <2>2. ASSUME NEW g \in 1..Len(q), x \in {g} \X (1..Len(q[g])) PROVE x \in WaitingIn(q)
    <3>1. x \in Nat \X Nat /\ x[1] = g /\ x[2] \in 1..Len(q[g])
      BY <1>1, <1>2, <2>2
    <3>2. QED
      BY <3>1 DEF WaitingIn
  <2>3. ASSUME x \in WaitingIn(q) PROVE \E g \in 1..Len(q) : x \in {g} \X (1..Len(q[g]))
    <3>1. x \in Nat \X Nat /\ x[1] \in 1..Len(q) /\ x[2] \in 1..Len(q[x[1]])
      BY <2>3 DEF WaitingIn
    <3>2. x \in {x[1]} \X (1..Len(q[x[1]]))
      BY <3>1
    <3>3. QED
      BY <3>1, <3>2
  <2>4. QED
    BY <2>1, <2>2, <2>3
<1>4. QED
  BY <1>3

\* The queue of one executor changes.
Replaced(q, g, s, r) == r = [q EXCEPT ![g] = s]

LEMMA QueueChange ==
  ASSUME NEW q, Queues(q), NEW g \in 1..Len(q), NEW s, s \in Seq(ToSet(s)), NEW r,
         Replaced(q, g, s, r)
  PROVE  /\ Queues(r) /\ Len(r) = Len(q) /\ r[g] = s
         /\ \A h \in 1..Len(q) : h # g => r[h] = q[h]
<1> DEFINE T == ToSet(q) \cup {s}
<1>1. q \in Seq(T) /\ s \in T /\ Len(q) \in Nat
  BY SeqWider DEF Queues
<1> HIDE DEF T
<1>2. /\ r \in Seq(T) /\ Len(r) = Len(q) /\ r[g] = s
      /\ \A h \in 1..Len(q) : h # g => r[h] = q[h]
  BY <1>1 DEF Replaced
<1>3. r \in Seq(ToSet(r))
  BY <1>2, SeqOfItself
<1>4. \A h \in 1..Len(r) : r[h] \in Seq(ToSet(r[h]))
  BY <1>2 DEF Queues
<1>5. QED
  BY <1>2, <1>3, <1>4 DEF Queues

LEMMA WaitingMember ==
  ASSUME NEW q, NEW g \in Nat, NEW i \in Nat
  PROVE  <<g, i>> \in WaitingIn(q) <=> g \in 1..Len(q) /\ i \in 1..Len(q[g])
  BY DEF WaitingIn

\* What is in sets of pairs decides whether they are equal.
LEMMA SamePairs ==
  ASSUME NEW A \in SUBSET (Nat \X Nat), NEW B \in SUBSET (Nat \X Nat),
         \A g, i \in Nat : <<g, i>> \in A <=> <<g, i>> \in B
  PROVE  A = B
<1>1. \A x \in Nat \X Nat : x = <<x[1], x[2]>> /\ x[1] \in Nat /\ x[2] \in Nat
  OBVIOUS
<1>2. QED
  BY <1>1

LEMMA WaitingMore ==
  ASSUME NEW q, Queues(q), NEW g \in 1..Len(q), NEW s, s \in Seq(ToSet(s)), NEW r,
         Replaced(q, g, s, r), Len(s) = Len(q[g]) + 1
  PROVE  /\ WaitingIn(r) = WaitingIn(q) \cup {<<g, Len(s)>>}
         /\ <<g, Len(s)>> \notin WaitingIn(q)
<1>1. /\ Len(r) = Len(q) /\ r[g] = s
      /\ \A h \in 1..Len(q) : h # g => r[h] = q[h]
  BY QueueChange
<1>2. Len(q) \in Nat /\ g \in Nat /\ Len(q[g]) \in Nat /\ Len(s) \in Nat
  BY DEF Queues
<1>3. <<g, Len(s)>> \notin WaitingIn(q)
  BY <1>2, WaitingMember
<1> DEFINE more == WaitingIn(q) \cup {<<g, Len(s)>>}
<1>4. WaitingIn(r) \in SUBSET (Nat \X Nat) /\ more \in SUBSET (Nat \X Nat)
  BY <1>2 DEF WaitingIn
<1>5. ASSUME NEW h \in Nat, NEW i \in Nat
      PROVE  <<h, i>> \in WaitingIn(r) <=> <<h, i>> \in more
  <2>1. <<h, i>> \in WaitingIn(r) <=> h \in 1..Len(q) /\ i \in 1..Len(r[h])
    BY <1>1, WaitingMember
  <2>2. <<h, i>> \in WaitingIn(q) <=> h \in 1..Len(q) /\ i \in 1..Len(q[h])
    BY WaitingMember
  <2>3. <<h, i>> = <<g, Len(s)>> <=> h = g /\ i = Len(s)
    OBVIOUS
  <2>4. CASE h = g
    BY <1>1, <1>2, <2>1, <2>2, <2>3, <2>4
  <2>5. CASE h # g
    BY <1>1, <2>1, <2>2, <2>3, <2>5
  <2>6. QED
    BY <2>4, <2>5
<1> HIDE DEF more
<1>6. WaitingIn(r) = more
  BY <1>4, <1>5, SamePairs
<1>7. QED
  BY <1>3, <1>6 DEF more

LEMMA WaitingLess ==
  ASSUME NEW q, Queues(q), NEW g \in 1..Len(q), NEW s, s \in Seq(ToSet(s)), NEW r,
         Replaced(q, g, s, r), Len(s) + 1 = Len(q[g])
  PROVE  /\ WaitingIn(r) = WaitingIn(q) \ {<<g, Len(q[g])>>}
         /\ <<g, Len(q[g])>> \in WaitingIn(q)
<1>1. /\ Len(r) = Len(q) /\ r[g] = s
      /\ \A h \in 1..Len(q) : h # g => r[h] = q[h]
  BY QueueChange
<1>2. Len(q) \in Nat /\ g \in Nat /\ Len(q[g]) \in Nat /\ Len(s) \in Nat
  BY DEF Queues
<1>3. <<g, Len(q[g])>> \in WaitingIn(q)
  BY <1>2, WaitingMember
<1> DEFINE less == WaitingIn(q) \ {<<g, Len(q[g])>>}
<1>4. WaitingIn(r) \in SUBSET (Nat \X Nat) /\ less \in SUBSET (Nat \X Nat)
  BY <1>2 DEF WaitingIn
<1>5. ASSUME NEW h \in Nat, NEW i \in Nat
      PROVE  <<h, i>> \in WaitingIn(r) <=> <<h, i>> \in less
  <2>1. <<h, i>> \in WaitingIn(r) <=> h \in 1..Len(q) /\ i \in 1..Len(r[h])
    BY <1>1, WaitingMember
  <2>2. <<h, i>> \in WaitingIn(q) <=> h \in 1..Len(q) /\ i \in 1..Len(q[h])
    BY WaitingMember
  <2>3. <<h, i>> = <<g, Len(q[g])>> <=> h = g /\ i = Len(q[g])
    OBVIOUS
  <2>4. CASE h = g
    BY <1>1, <1>2, <2>1, <2>2, <2>3, <2>4
  <2>5. CASE h # g
    BY <1>1, <2>1, <2>2, <2>3, <2>5
  <2>6. QED
    BY <2>4, <2>5
<1> HIDE DEF less
<1>6. WaitingIn(r) = less
  BY <1>4, <1>5, SamePairs
<1>7. QED
  BY <1>3, <1>6 DEF less

LEMMA WaitingNone ==
  ASSUME NEW q, Queues(q), NEW g \in 1..Len(q), NEW r, r = [q EXCEPT ![g] = <<>>]
  PROVE  LET gone == {g} \X (1..Len(q[g]))
         IN  WaitingIn(q) = WaitingIn(r) \cup gone /\ WaitingIn(r) \cap gone = {}
<1> DEFINE gone == {g} \X (1..Len(q[g]))
           both == WaitingIn(r) \cup gone
<1>1. /\ Len(r) = Len(q) /\ r[g] = <<>>
      /\ \A h \in 1..Len(q) : h # g => r[h] = q[h]
  <2> DEFINE none == <<>>
  <2>1. none \in Seq(ToSet(none)) /\ Replaced(q, g, none, r)
    BY DEF Replaced
  <2> HIDE DEF none
  <2>2. /\ Len(r) = Len(q) /\ r[g] = none
        /\ \A h \in 1..Len(q) : h # g => r[h] = q[h]
    BY <2>1, QueueChange
  <2>3. QED
    BY <2>2 DEF none
<1>2. Len(q) \in Nat /\ g \in Nat /\ Len(q[g]) \in Nat /\ Len(<<>>) = 0
  BY DEF Queues
<1>3. \A h, i \in Nat : <<h, i>> \in gone <=> h = g /\ i \in 1..Len(q[g])
  OBVIOUS
<1>4. /\ WaitingIn(r) \in SUBSET (Nat \X Nat) /\ WaitingIn(q) \in SUBSET (Nat \X Nat)
      /\ gone \in SUBSET (Nat \X Nat)
  BY <1>2 DEF WaitingIn
<1> HIDE DEF gone
<1>5. ASSUME NEW h \in Nat, NEW i \in Nat
      PROVE  /\ <<h, i>> \in WaitingIn(q) <=> <<h, i>> \in both
             /\ ~(<<h, i>> \in WaitingIn(r) /\ <<h, i>> \in gone)
  <2>1. <<h, i>> \in WaitingIn(r) <=> h \in 1..Len(q) /\ i \in 1..Len(r[h])
    BY <1>1, WaitingMember
  <2>2. <<h, i>> \in WaitingIn(q) <=> h \in 1..Len(q) /\ i \in 1..Len(q[h])
    BY WaitingMember
  <2>3. CASE h = g
    <3>1. <<h, i>> \notin WaitingIn(r)
      BY <1>1, <1>2, <2>1, <2>3
    <3>2. QED
      BY <1>3, <2>2, <2>3, <3>1
  <2>4. CASE h # g
    BY <1>1, <1>3, <2>1, <2>2, <2>4
  <2>5. QED
    BY <2>3, <2>4
<1>6. both \in SUBSET (Nat \X Nat)
  BY <1>4
<1>7. WaitingIn(r) \cap gone = {}
  <2>1. \A x \in Nat \X Nat : x = <<x[1], x[2]>> /\ x[1] \in Nat /\ x[2] \in Nat
    OBVIOUS
  <2>2. ASSUME NEW x \in WaitingIn(r) PROVE x \notin gone
    <3>1. x \in Nat \X Nat
      BY <1>4
    <3>2. x = <<x[1], x[2]>> /\ x[1] \in Nat /\ x[2] \in Nat
      BY <2>1, <3>1
    <3>3. ~(<<x[1], x[2]>> \in WaitingIn(r) /\ <<x[1], x[2]>> \in gone)
      BY <1>5, <3>2
    <3>4. QED
      BY <2>2, <3>2, <3>3
  <2>3. QED
    BY <2>2
<1> HIDE DEF both
<1>8. WaitingIn(q) = both
  BY <1>4, <1>5, <1>6, SamePairs
<1>9. QED
  BY <1>7, <1>8 DEF both, gone

\* A new executor has nothing to do.
LEMMA WaitingNext ==
  ASSUME NEW q, Queues(q), NEW r, r = Append(q, <<>>)
  PROVE  Queues(r) /\ Len(r) = Len(q) + 1 /\ WaitingIn(r) = WaitingIn(q)
<1> DEFINE none == <<>>
           T == ToSet(q) \cup {none}
<1>1. q \in Seq(T) /\ none \in T /\ Len(q) \in Nat /\ r = Append(q, none)
      /\ none \in Seq(ToSet(none)) /\ Len(none) = 0
  BY SeqWider DEF Queues
<1> HIDE DEF T, none
<1>2. /\ r \in Seq(T) /\ Len(r) = Len(q) + 1
      /\ \A h \in 1..(Len(q) + 1) : r[h] = IF h <= Len(q) THEN q[h] ELSE none
  BY <1>1
<1>3. Queues(r)
  <2>1. r \in Seq(ToSet(r))
    BY <1>2, SeqOfItself
  <2>2. ASSUME NEW h \in 1..Len(r) PROVE r[h] \in Seq(ToSet(r[h]))
    <3>1. h \in 1..(Len(q) + 1) /\ (h <= Len(q) => h \in 1..Len(q))
      BY <1>1, <1>2
    <3>2. CASE h <= Len(q)
      BY <1>2, <3>1, <3>2 DEF Queues
    <3>3. CASE ~(h <= Len(q))
      BY <1>1, <1>2, <3>1, <3>3
    <3>4. QED
      BY <3>2, <3>3
  <2>3. QED
    BY <2>1, <2>2 DEF Queues
<1>4. ASSUME NEW h \in Nat, NEW i \in Nat
      PROVE  <<h, i>> \in WaitingIn(r) <=> <<h, i>> \in WaitingIn(q)
  <2>1. <<h, i>> \in WaitingIn(r) <=> h \in 1..Len(r) /\ i \in 1..Len(r[h])
    BY WaitingMember
  <2>2. <<h, i>> \in WaitingIn(q) <=> h \in 1..Len(q) /\ i \in 1..Len(q[h])
    BY WaitingMember
  <2>3. CASE h \in 1..Len(q)
    <3>1. h \in 1..(Len(q) + 1) /\ h \in 1..Len(r) /\ h <= Len(q)
      BY <1>1, <1>2, <2>3
    <3>2. r[h] = q[h]
      BY <1>2, <3>1
    <3>3. QED
      BY <2>1, <2>2, <2>3, <3>1, <3>2
  <2>4. CASE h \notin 1..Len(q)
    <3>1. h \in 1..Len(r) => h = Len(q) + 1
      BY <1>1, <1>2, <2>4
    <3>2. h = Len(q) + 1 => r[h] = none
      BY <1>1, <1>2
    <3>3. QED
      BY <1>1, <2>1, <2>2, <2>4, <3>1, <3>2
  <2>5. QED
    BY <2>3, <2>4
<1>5. WaitingIn(r) \in SUBSET (Nat \X Nat) /\ WaitingIn(q) \in SUBSET (Nat \X Nat)
  BY DEF WaitingIn
<1>6. WaitingIn(r) = WaitingIn(q)
  BY <1>4, <1>5, SamePairs
<1>7. QED
  BY <1>2, <1>3, <1>6

-------------------------------------------------------------------------------
\* The places of the dispatcher.

\* A frame that asks for a place.
LEMMA ShapeAsk ==
  ASSUME NEW t, t \notin Workers, NEW rest, NEW last, Shape(t, rest, last),
         \A i \in 1..Len(rest) : rest[i][1] # "submit",
         NEW f, Allowed(t, f, last), f[1] = "submit"
  PROVE  LET stack == Reached(<<f>> \o rest)
         IN  Shape(t, stack, last) /\ stack # <<>> /\ Head(stack) = f
<1> DEFINE S == {f} \cup ToSet(rest)
           stack == <<f>> \o rest
<1>1. <<f>> \in Seq(S) /\ Len(<<f>>) = 1 /\ rest \in Seq(S) /\ Len(rest) \in Nat
  BY SeqWider DEF Shape
<1>2. /\ stack \in Seq(S) /\ Len(stack) = Len(rest) + 1 /\ stack[1] = f
      /\ \A i \in 2..(Len(rest) + 1) : stack[i] = rest[i - 1]
  BY <1>1
<1>3. stack \in Seq(ToSet(stack))
  BY <1>2, SeqOfItself
<1> HIDE DEF stack, S
<1>4. ASSUME NEW i \in 1..Len(stack)
      PROVE  /\ Allowed(t, stack[i], last)
             /\ stack[i][1] = "submit" => i = 1
  <2>1. CASE i = 1
    BY <1>2, <2>1
  <2>2. CASE i # 1
    <3>1. i \in 2..(Len(rest) + 1) /\ i - 1 \in 1..Len(rest)
      BY <1>1, <1>2, <2>2
    <3>2. stack[i] = rest[i - 1]
      BY <1>2, <3>1
    <3>3. QED
      BY <3>1, <3>2 DEF Shape
  <2>3. QED
    BY <2>1, <2>2
<1>5. Shape(t, stack, last)
  BY <1>3, <1>4 DEF Shape
<1>6. Shape(t, Reached(stack), last)
  BY <1>5, ShapeReached
<1>7. Reached(stack) # <<>> /\ Head(Reached(stack)) = f
  <2>1. 1 \in 1..Len(stack) /\ stack[1][1] \notin Marks
    BY <1>1, <1>2 DEF Marks
  <2>2. PICK k \in 1..Len(stack) :
          /\ Reached(stack) = SubSeq(stack, k, Len(stack))
          /\ \A i \in 1..(k - 1) : stack[i][1] \in Marks
    BY <1>2, <2>1, ReachedEnd
  <2>3. k = 1
    <3>1. SUFFICES ASSUME k # 1 PROVE FALSE
      OBVIOUS
    <3>2. 1 \in 1..(k - 1)
      BY <3>1
    <3>3. QED
      BY <2>1, <2>2, <3>2
  <2> DEFINE end == SubSeq(stack, k, Len(stack))
  <2>4. /\ Shape(t, end, last) /\ Len(end) = Len(stack) + 1 - k
        /\ \A i \in 1..(Len(stack) + 1 - k) : end[i] = stack[i + k - 1]
    BY <1>1, <1>2, <1>5, ShapeEnd
  <2>5. Reached(stack) = end
    BY <2>2
  <2> HIDE DEF end
  <2>6. Len(end) >= 1 /\ end[1] = stack[1]
    <3>1. 1 \in 1..(Len(stack) + 1 - k) /\ 1 + k - 1 = 1 /\ Len(stack) + 1 - k >= 1
      BY <1>1, <1>2, <2>3
    <3>2. end[1] = stack[1 + k - 1]
      BY <2>4, <3>1
    <3>3. QED
      BY <2>4, <3>1, <3>2
  <2>7. end # <<>> /\ Head(end) = end[1]
    BY <2>4, <2>6 DEF Shape
  <2>8. QED
    BY <1>2, <2>5, <2>6, <2>7
<1>8. QED
  BY <1>6, <1>7 DEF stack

\* A place is taken.
LEMMA AdmitPlaces ==
  ASSUME PlacesInv, UNCHANGED calls, NEW t \in Threads, Admit(t)
  PROVE  PlacesInv'
<1>1. /\ todo[t] # <<>> /\ Head(todo[t])[1] = "admit"
      /\ queue' = queue /\ generation' = generation /\ calls' \subseteq calls
  BY DEF Admit, At
<1>2. Allowed(t, Head(todo[t]), generation)
  BY <1>1, TopAllowed
<1>3. t \in Receivers /\ Arg(t)[2] \in 1..generation
  BY <1>1, <1>2 DEF Allowed, Reception, Arg
<1>4. t \notin Workers
  BY <1>3, DispatcherAssumption DEF Receivers
<1>5. Head(todo[t])[1] \notin {"free", "submit"} \cup OnWorker
  BY <1>1 DEF OnWorker
<1>6. CASE capacity' = capacity
  <2>1. \A packet : Plain(t, Respond("error", packet), generation)
    <3>1. /\ \A answer : Fine(t, <<"send", answer>>, generation)
          /\ Fine(t, <<"swallow">>, generation)
      BY FineName DEF Special, Reception
    <3>2. QED
      BY <3>1, PlainList DEF Respond
  <2>2. capacity # capacity - 1
    BY DEF PlacesInv
  <2>3. PICK frames : Does(t, frames) /\ Plain(t, frames, generation)
    BY <1>6, <2>1, <2>2, PlainList DEF Admit
  <2>4. UNCHANGED places
    BY <1>1, <1>6 DEF places
  <2>5. QED
    BY <1>1, <1>4, <1>5, <2>3, <2>4, DoesPlaces
<1>7. CASE capacity' # capacity
  <2> DEFINE f == <<"submit", <<Arg(t)[1], Arg(t)[2]>>>>
             stack == Becomes(t, <<f>>)
             rest == Tail(todo[t])
  <2>1. capacity # 0 /\ capacity' = capacity - 1 /\ todo' = [todo EXCEPT ![t] = stack]
    BY <1>7 DEF Admit, Does
  <2>2. Allowed(t, f, generation) /\ f[1] = "submit"
    BY <1>3 DEF Allowed
  <2>3. Shape(t, rest, generation) /\ \A i \in 1..Len(rest) : rest[i][1] # "submit"
    BY <1>1, ShapeTail DEF PlacesInv
  <2>4. stack = Reached(<<f>> \o rest)
    BY DEF Becomes
  <2> HIDE DEF f, stack, rest
  <2>5. Shape(t, stack, generation) /\ stack # <<>> /\ Head(stack)[1] = "submit"
    BY <1>4, <2>2, <2>3, <2>4, ShapeAsk
  <2>6. /\ todo' = [u \in Threads |-> todo'[u]] /\ todo'[t] = stack
        /\ \A u \in Threads : u # t => todo'[u] = todo[u]
    BY <2>1 DEF PlacesInv
  <2>7. \A u \in Threads : Shape(u, todo'[u], generation)
    BY <2>5, <2>6 DEF PlacesInv
  <2>8. Busies' = Busies
    <3>1. \A w \in Workers : todo'[w] = todo[w]
      BY <1>4, <2>6, DispatcherAssumption
    <3>2. QED
      BY <3>1 DEF Busies, Idle
  <2>9. Submitting' = Submitting \cup {t} /\ t \notin Submitting
    BY <1>1, <2>5, <2>6 DEF Submitting, At
  <2>10. /\ IsFiniteSet(Submitting \cup {t})
         /\ Cardinality(Submitting \cup {t}) = Cardinality(Submitting) + 1
    BY <2>9, FS_AddElement DEF PlacesInv
  <2>11. Waiting' = Waiting
    BY <1>1 DEF Waiting
  <2> DEFINE S == Cardinality(Submitting)
             B == Cardinality(Busies)
             W == Cardinality(Waiting)
  <2>12. S \in Nat /\ B \in Nat /\ W \in Nat /\ capacity + W + B + S = MaxPending
    BY FS_CardinalityType DEF PlacesInv, PlacesAreExact, Busies, Submitting
  <2>13. /\ Cardinality(Submitting') = S + 1 /\ Cardinality(Busies') = B
         /\ Cardinality(Waiting') = W
    BY <2>8, <2>9, <2>10, <2>11
  <2> HIDE DEF S, B, W
  <2>14. capacity' + W + B + (S + 1) = MaxPending /\ capacity' \in Nat
    <3>1. PICK c \in Nat : c = capacity
      BY DEF PlacesInv
    <3>2. c > 0 /\ capacity' = c - 1
      BY <2>1, <3>1
    <3>3. (c - 1) + W + B + (S + 1) = c + W + B + S /\ c - 1 \in Nat
      BY <2>12, <3>2
    <3>4. QED
      BY <2>12, <3>1, <3>2, <3>3
  <2>15. PlacesAreExact'
    BY <2>13, <2>14 DEF PlacesAreExact, Busies, Submitting
  <2>16. IsFiniteSet(Submitting') /\ IsFiniteSet(Busies') /\ IsFiniteSet(Waiting')
    BY <2>8, <2>9, <2>10, <2>11 DEF PlacesInv
  <2>17. QED
    BY <1>1, <2>6, <2>7, <2>14, <2>15, <2>16 DEF PlacesInv
<1>8. QED
  BY <1>6, <1>7

\* What a step has to keep for the places to be there.
LEMMA PlacesCount ==
  ASSUME PlacesInv, calls' \subseteq calls, todo' = [u \in Threads |-> todo'[u]],
         \A u \in Threads : Shape(u, todo'[u], generation'),
         generation' \in Nat \ {0}, capacity' \in Nat, Queues(queue'), Len(queue') = generation',
         IsFiniteSet(Busies'), IsFiniteSet(Submitting'), IsFiniteSet(Waiting'),
         capacity' + Cardinality(Waiting') + Cardinality(Busies') + Cardinality(Submitting')
           = capacity + Cardinality(Waiting) + Cardinality(Busies) + Cardinality(Submitting)
  PROVE  PlacesInv'
<1>1. PlacesAreExact'
  BY DEF PlacesInv, PlacesAreExact, Busies, Submitting
<1>2. QED
  BY <1>1 DEF PlacesInv

LEMMA PlacesType ==
  ASSUME PlacesInv
  PROVE  /\ capacity \in Nat /\ Cardinality(Waiting) \in Nat
         /\ Cardinality(Busies) \in Nat /\ Cardinality(Submitting) \in Nat
         /\ Waiting = WaitingIn(queue)
<1>1. Waiting = WaitingIn(queue)
  BY WaitingAre DEF PlacesInv, Waiting
<1>2. QED
  BY <1>1, FS_CardinalityType DEF PlacesInv

\* A place goes with its job to the executor, or back if that is shut down.
LEMMA SubmitPlaces ==
  ASSUME PlacesInv, UNCHANGED calls, NEW t \in Threads, Submit(t)
  PROVE  PlacesInv'
<1>1. /\ todo[t] # <<>> /\ Head(todo[t])[1] = "submit" /\ Does(t, <<>>)
      /\ generation' = generation /\ calls' \subseteq calls
  BY DEF Submit, At
<1>2. Arg(t)[2] \in 1..generation
  BY <1>1, TopAllowed DEF Allowed, Reception, Arg
<1>3. /\ todo' = [u \in Threads |-> todo'[u]]
      /\ \A u \in Threads : Shape(u, todo'[u], generation)
      /\ Busies' = Busies /\ Submitting' = Submitting \ {t}
  <2>1. Head(todo[t])[1] # "free" /\ Head(todo[t])[1] \notin OnWorker /\ Plain(t, <<>>, generation)
    BY <1>1, PlainList DEF OnWorker
  <2>2. QED
    BY <1>1, <2>1, DoesShape
<1> DEFINE S == Cardinality(Submitting)
           B == Cardinality(Busies)
           W == Cardinality(Waiting)
<1>4. /\ capacity \in Nat /\ S \in Nat /\ B \in Nat /\ W \in Nat
      /\ Waiting = WaitingIn(queue)
  BY PlacesType
<1>5. IsFiniteSet(Submitting') /\ Cardinality(Submitting') = S - 1 /\ S - 1 \in Nat
  <2>1. t \in Submitting
    BY <1>1 DEF Submitting, At
  <2>2. IsFiniteSet(Submitting)
    BY DEF PlacesInv
  <2>3. Cardinality(Submitting \ {t}) = S - 1 /\ IsFiniteSet(Submitting \ {t})
    BY <2>1, <2>2, FS_RemoveElement
  <2>4. Cardinality(Submitting \ {t}) \in Nat
    BY <2>3, FS_CardinalityType
  <2>5. QED
    BY <1>3, <2>3, <2>4
<1>6. IsFiniteSet(Busies') /\ Cardinality(Busies') = B
  BY <1>3 DEF PlacesInv
<1> HIDE DEF S, B
<1>7. CASE Arg(t)[2] \in shut
  <2>1. capacity' = capacity + 1 /\ queue' = queue
    BY <1>7 DEF Submit
  <2>2. Waiting' = Waiting
    BY <2>1 DEF Waiting
  <2>3. Cardinality(Waiting') = W /\ IsFiniteSet(Waiting')
    BY <2>2 DEF PlacesInv
  <2> HIDE DEF W
  <2>4. capacity' + Cardinality(Waiting') + Cardinality(Busies') + Cardinality(Submitting')
          = capacity + W + B + S
    BY <1>4, <1>5, <1>6, <2>1, <2>3
  <2>5. QED
    BY <1>1, <1>3, <1>4, <1>5, <1>6, <2>1, <2>3, <2>4, PlacesCount DEF PlacesInv, S, B, W
<1>8. CASE Arg(t)[2] \notin shut
  <2> DEFINE g == Arg(t)[2]
             s == Append(queue[g], Arg(t)[1])
  <2>1. capacity' = capacity /\ Replaced(queue, g, s, queue')
    BY <1>8 DEF Submit, Replaced
  <2>2. Queues(queue) /\ Len(queue) = generation /\ g \in 1..Len(queue)
    BY <1>2 DEF PlacesInv
  <2>3. s \in Seq(ToSet(s)) /\ Len(s) = Len(queue[g]) + 1
    <3>1. queue[g] \in Seq(ToSet(queue[g]) \cup {Arg(t)[1]})
      BY <2>2, SeqWider DEF Queues
    <3>2. s \in Seq(ToSet(queue[g]) \cup {Arg(t)[1]}) /\ Len(s) = Len(queue[g]) + 1
      BY <3>1
    <3>3. QED
      BY <3>2, SeqOfItself
  <2> HIDE DEF g, s
  <2>4. Queues(queue') /\ Len(queue') = generation'
    <3>1. Queues(queue) /\ g \in 1..Len(queue) /\ s \in Seq(ToSet(s))
      BY <2>2, <2>3
    <3>2. Queues(queue') /\ Len(queue') = Len(queue)
      BY <2>1, <3>1, QueueChange
    <3>3. QED
      BY <1>1, <2>2, <3>2
  <2>5. /\ WaitingIn(queue') = WaitingIn(queue) \cup {<<g, Len(s)>>}
        /\ <<g, Len(s)>> \notin WaitingIn(queue)
    BY <2>1, <2>2, <2>3, WaitingMore
  <2>6. Waiting' = Waiting \cup {<<g, Len(s)>>} /\ <<g, Len(s)>> \notin Waiting
    BY <1>4, <2>4, <2>5, WaitingAre DEF Waiting
  <2>7. Cardinality(Waiting') = W + 1 /\ IsFiniteSet(Waiting')
    BY <2>6, FS_AddElement DEF PlacesInv
  <2> HIDE DEF W
  <2>8. capacity' + Cardinality(Waiting') + Cardinality(Busies') + Cardinality(Submitting')
          = capacity + W + B + S
    BY <1>4, <1>5, <1>6, <2>1, <2>7
  <2>9. QED
    BY <1>1, <1>3, <1>4, <1>5, <1>6, <2>1, <2>4, <2>7, <2>8, PlacesCount DEF PlacesInv, S, B, W
<1>9. QED
  BY <1>7, <1>8

\* A worker takes a job with its place.
LEMMA WorkPlaces ==
  ASSUME PlacesInv, UNCHANGED calls, NEW t \in Workers, Work(t)
  PROVE  PlacesInv'
<1> DEFINE S == Cardinality(Submitting)
           B == Cardinality(Busies)
           W == Cardinality(Waiting)
<1>1. /\ capacity \in Nat /\ S \in Nat /\ B \in Nat /\ W \in Nat
      /\ Waiting = WaitingIn(queue)
  BY PlacesType
<1>2. t \in Threads /\ todo[t] = <<>> /\ capacity' = capacity /\ generation' = generation
  BY DispatcherAssumption DEF Work, Idle
<1>3. PICK g \in DOMAIN queue :
        /\ queue[g] # <<>>
        /\ todo' = [todo EXCEPT ![t] = <<<<"handle", Head(queue[g])>>, <<"free">>>>]
        /\ queue' = [queue EXCEPT ![g] = Tail(@)]
  BY DEF Work
<1> DEFINE stack == <<<<"handle", Head(queue[g])>>, <<"free">>>>
           s == Tail(queue[g])
<1>4. Queues(queue) /\ Len(queue) = generation /\ g \in 1..Len(queue)
  BY DEF PlacesInv, Queues
<1>5. s \in Seq(ToSet(s)) /\ Len(s) + 1 = Len(queue[g])
  <2>1. queue[g] \in Seq(ToSet(queue[g]))
    BY <1>4 DEF Queues
  <2>2. s \in Seq(ToSet(queue[g])) /\ Len(s) + 1 = Len(queue[g])
    BY <1>3, <2>1
  <2>3. QED
    BY <2>2, SeqOfItself
<1>6. Shape(t, stack, generation) /\ stack # <<>> /\ Head(stack)[1] # "submit"
  <2>1. stack \in Seq(ToSet(stack)) /\ Len(stack) = 2
        /\ stack[1][1] = "handle" /\ stack[2][1] = "free"
    BY DEF ToSet
  <2> HIDE DEF stack
  <2>2. Allowed(t, stack[1], generation)
    BY <2>1 DEF Allowed, Reception
  <2>3. \A i \in 1..Len(stack) : i = 1 \/ i = 2
    BY <2>1
  <2>4. QED
    BY <2>1, <2>2, <2>3 DEF Shape, OnWorker
<1>7. todo' = [todo EXCEPT ![t] = stack] /\ Replaced(queue, g, s, queue')
  BY <1>3 DEF Replaced
<1> HIDE DEF stack, s
<1>8. /\ todo' = [u \in Threads |-> todo'[u]] /\ todo'[t] = stack
      /\ \A u \in Threads : u # t => todo'[u] = todo[u]
  BY <1>2, <1>7 DEF PlacesInv
<1>9. \A u \in Threads : Shape(u, todo'[u], generation')
  BY <1>2, <1>6, <1>8 DEF PlacesInv
<1>10. Busies' = Busies \cup {t} /\ t \notin Busies
  BY <1>2, <1>6, <1>8, DispatcherAssumption DEF Busies, Idle
<1>11. Submitting' = Submitting
  BY <1>2, <1>6, <1>8 DEF Submitting, At
<1>12. Queues(queue') /\ Len(queue') = generation'
  <2>1. Queues(queue) /\ g \in 1..Len(queue) /\ s \in Seq(ToSet(s))
    BY <1>4, <1>5
  <2>2. Queues(queue') /\ Len(queue') = Len(queue)
    BY <1>7, <2>1, QueueChange
  <2>3. QED
    BY <1>2, <1>4, <2>2
<1>13. /\ WaitingIn(queue') = WaitingIn(queue) \ {<<g, Len(queue[g])>>}
       /\ <<g, Len(queue[g])>> \in WaitingIn(queue)
  BY <1>4, <1>5, <1>7, WaitingLess
<1>14. Waiting' = Waiting \ {<<g, Len(queue[g])>>} /\ <<g, Len(queue[g])>> \in Waiting
  BY <1>1, <1>12, <1>13, WaitingAre DEF Waiting
<1>15. Cardinality(Waiting') = W - 1 /\ IsFiniteSet(Waiting')
  BY <1>14, FS_RemoveElement DEF PlacesInv
<1>16. Cardinality(Busies') = B + 1 /\ IsFiniteSet(Busies')
  BY <1>10, FS_AddElement DEF PlacesInv
<1>17. Cardinality(Submitting') = S /\ IsFiniteSet(Submitting')
  BY <1>11 DEF PlacesInv
<1> HIDE DEF S, B, W
<1>18. capacity' + Cardinality(Waiting') + Cardinality(Busies') + Cardinality(Submitting')
         = capacity + W + B + S
  <2>1. capacity + (W - 1) + (B + 1) + S = capacity + W + B + S
    BY <1>1
  <2>2. QED
    BY <1>2, <1>15, <1>16, <1>17, <2>1
<1>19. QED
  BY <1>1, <1>2, <1>8, <1>9, <1>12, <1>15, <1>16, <1>17, <1>18, PlacesCount DEF PlacesInv, S, B, W

\* A worker gives its place back, which is the last that it does.
LEMMA FreePlaces ==
  ASSUME PlacesInv, UNCHANGED calls, NEW t \in Threads, Free(t)
  PROVE  PlacesInv'
<1> DEFINE S == Cardinality(Submitting)
           B == Cardinality(Busies)
           W == Cardinality(Waiting)
<1>1. /\ capacity \in Nat /\ S \in Nat /\ B \in Nat /\ W \in Nat
  BY PlacesType
<1>2. /\ todo[t] # <<>> /\ Head(todo[t])[1] = "free" /\ capacity' = capacity + 1
      /\ generation' = generation /\ queue' = queue /\ Does(t, <<>>)
  BY DEF Free, At
<1>3. t \in Workers /\ Tail(todo[t]) = <<>>
  BY <1>2, ShapeTail DEF PlacesInv
<1>4. Becomes(t, <<>>) = <<>>
  <2>1. <<>> \o Tail(todo[t]) = <<>>
    BY <1>3
  <2> DEFINE none == <<>>
             R == Reached(none)
  <2>2. none \in Seq({}) /\ Len(none) = 0
    OBVIOUS
  <2> HIDE DEF none
  <2>3. R = <<>> \/ \E k \in 1..Len(none) : TRUE
    BY <2>2, ReachedEnd
  <2>4. Reached(<<>>) = <<>>
    BY <2>2, <2>3 DEF none
  <2>5. QED
    BY <2>1, <2>4 DEF Becomes
<1>5. /\ todo' = [u \in Threads |-> todo'[u]] /\ todo'[t] = <<>>
      /\ \A u \in Threads : u # t => todo'[u] = todo[u]
  BY <1>2, <1>4 DEF Does, PlacesInv
<1>6. Shape(t, <<>>, generation)
  BY DEF Shape
<1>7. \A u \in Threads : Shape(u, todo'[u], generation')
  BY <1>2, <1>5, <1>6 DEF PlacesInv
<1>8. Busies' = Busies \ {t} /\ t \in Busies
  BY <1>2, <1>3, <1>5, DispatcherAssumption DEF Busies, Idle
<1>9. Submitting' = Submitting
  BY <1>2, <1>5 DEF Submitting, At
<1>10. Waiting' = Waiting
  BY <1>2 DEF Waiting
<1>11. Cardinality(Busies') = B - 1 /\ IsFiniteSet(Busies')
  BY <1>8, FS_RemoveElement DEF PlacesInv
<1>12. /\ Cardinality(Submitting') = S /\ IsFiniteSet(Submitting')
       /\ Cardinality(Waiting') = W /\ IsFiniteSet(Waiting')
  BY <1>9, <1>10 DEF PlacesInv
<1> HIDE DEF S, B, W
<1>13. /\ capacity' + Cardinality(Waiting') + Cardinality(Busies') + Cardinality(Submitting')
            = capacity + W + B + S
       /\ capacity' \in Nat
  BY <1>1, <1>2, <1>11, <1>12
<1>14. QED
  BY <1>2, <1>5, <1>7, <1>11, <1>12, <1>13, PlacesCount DEF PlacesInv, S, B, W

\* A generation begins.
LEMMA GenerationPlaces ==
  ASSUME PlacesInv, UNCHANGED <<capacity, calls>>, NextGeneration,
         NEW t \in Threads, todo[t] # <<>>,
         Head(todo[t])[1] \in {"dispatcher_start", "dispatcher_stop"},
         NEW frames, Plain(t, frames, generation), Does(t, frames)
  PROVE  PlacesInv'
<1> DEFINE S == Cardinality(Submitting)
           B == Cardinality(Busies)
           W == Cardinality(Waiting)
<1>1. /\ capacity \in Nat /\ generation \in Nat \ {0} /\ Waiting = WaitingIn(queue)
      /\ Queues(queue) /\ Len(queue) = generation
  BY PlacesType DEF PlacesInv
<1>2. /\ todo' = [u \in Threads |-> todo'[u]]
      /\ \A u \in Threads : Shape(u, todo'[u], generation)
      /\ Busies' = Busies /\ Submitting' = Submitting \ {t}
  <2>1. Head(todo[t])[1] # "free" /\ Head(todo[t])[1] \notin OnWorker
    BY DEF OnWorker
  <2>2. QED
    BY <2>1, DoesShape
<1>3. Submitting' = Submitting
  BY <1>2 DEF Submitting, At
<1>4. /\ generation' = generation + 1 /\ queue' = Append(queue, <<>>)
      /\ capacity' = capacity /\ calls' \subseteq calls
  BY DEF NextGeneration
<1>5. Queues(queue') /\ Len(queue') = Len(queue) + 1 /\ WaitingIn(queue') = WaitingIn(queue)
  BY <1>1, <1>4, WaitingNext
<1>6. Waiting' = Waiting
  BY <1>1, <1>5, WaitingAre DEF Waiting
<1>7. \A u \in Threads : Shape(u, todo'[u], generation')
  <2>1. generation' \in Nat /\ generation \in Nat /\ generation <= generation'
    BY <1>1, <1>4
  <2> DEFINE last == generation
             more == generation'
  <2>2. last \in Nat /\ more \in Nat /\ last <= more /\ \A u \in Threads : Shape(u, todo'[u], last)
    BY <1>2, <2>1
  <2> HIDE DEF last, more
  <2>3. \A u \in Threads : Shape(u, todo'[u], more)
    BY <2>2, ShapeLater
  <2>4. QED
    BY <2>3 DEF more
<1>8. /\ generation' \in Nat \ {0} /\ capacity' \in Nat /\ Len(queue') = generation'
  BY <1>1, <1>4, <1>5
<1>9. /\ IsFiniteSet(Busies') /\ IsFiniteSet(Submitting') /\ IsFiniteSet(Waiting')
      /\ capacity' + Cardinality(Waiting') + Cardinality(Busies') + Cardinality(Submitting')
           = capacity + Cardinality(Waiting) + Cardinality(Busies) + Cardinality(Submitting)
  BY <1>2, <1>3, <1>4, <1>6 DEF PlacesInv
<1>10. QED
  BY <1>2, <1>4, <1>5, <1>7, <1>8, <1>9, PlacesCount

LEMMA UpToCount == ASSUME NEW n \in Nat PROVE IsFiniteSet(1..n) /\ Cardinality(1..n) = n
<1>1. IsFiniteSet(1..n) /\ Cardinality(1..n) = IF 1 > n THEN 0 ELSE n - 1 + 1
  BY FS_Interval
<1>2. (IF 1 > n THEN 0 ELSE n - 1 + 1) = n
  OBVIOUS
<1>3. QED
  BY <1>1, <1>2

LEMMA UnionCount ==
  ASSUME NEW A, IsFiniteSet(A), NEW C, IsFiniteSet(C), A \cap C = {}
  PROVE  Cardinality(A \cup C) = Cardinality(A) + Cardinality(C)
<1> DEFINE a == Cardinality(A)
           c == Cardinality(C)
           both == Cardinality(A \cap C)
           all == Cardinality(A \cup C)
<1>1. a \in Nat /\ c \in Nat /\ both = 0
  BY FS_CardinalityType, FS_EmptySet
<1>2. all = a + c - both
  BY FS_Union
<1> HIDE DEF a, c, both, all
<1>3. all = a + c
  BY <1>1, <1>2
<1>4. QED
  BY <1>3 DEF a, c, all

\* The places of the jobs that are cancelled are given back.
LEMMA ShutdownPlaces ==
  ASSUME PlacesInv, UNCHANGED calls, NEW t \in Threads, Shutdown(t)
  PROVE  PlacesInv'
<1> DEFINE S == Cardinality(Submitting)
           B == Cardinality(Busies)
           W == Cardinality(Waiting)
           g == Arg(t)
           gone == {g} \X (1..Len(queue[g]))
<1>1. /\ capacity \in Nat /\ S \in Nat /\ B \in Nat /\ W \in Nat
      /\ Waiting = WaitingIn(queue)
  BY PlacesType
<1>2. /\ todo[t] # <<>> /\ Head(todo[t])[1] = "shutdown" /\ generation' = generation
      /\ capacity' = capacity + Len(queue[g]) /\ queue' = [queue EXCEPT ![g] = <<>>]
      /\ Does(t, IF t \in Workers THEN <<>> ELSE <<<<"drain", g>>>>)
      /\ calls' \subseteq calls
  BY DEF Shutdown, At
<1>3. g \in 1..generation
  BY <1>2, TopAllowed DEF Allowed, Arg
<1>4. Queues(queue) /\ Len(queue) = generation /\ g \in 1..Len(queue) /\ Len(queue[g]) \in Nat
  BY <1>3 DEF PlacesInv, Queues
<1>5. /\ todo' = [u \in Threads |-> todo'[u]]
      /\ \A u \in Threads : Shape(u, todo'[u], generation)
      /\ Busies' = Busies /\ Submitting' = Submitting \ {t}
  <2>1. Head(todo[t])[1] # "free" /\ Head(todo[t])[1] \notin OnWorker
    BY <1>2 DEF OnWorker
  <2>2. Fine(t, <<"drain", g>>, generation)
    BY FineName DEF Special, Reception
  <2>3. PICK frames : Does(t, frames) /\ Plain(t, frames, generation)
    BY <1>2, <2>2, PlainList
  <2>4. QED
    BY <1>2, <2>1, <2>3, DoesShape
<1>6. Submitting' = Submitting
  BY <1>2, <1>5 DEF Submitting, At
<1> HIDE DEF g
<1>7. WaitingIn(queue) = WaitingIn(queue') \cup gone /\ WaitingIn(queue') \cap gone = {}
  BY <1>2, <1>4, WaitingNone
<1>8. Queues(queue') /\ Len(queue') = Len(queue)
  <2> DEFINE none == <<>>
  <2>1. none \in Seq(ToSet(none)) /\ Replaced(queue, g, none, queue')
    BY <1>2 DEF Replaced
  <2> HIDE DEF none
  <2>2. QED
    BY <1>4, <2>1, QueueChange
<1>9. Waiting' = WaitingIn(queue')
  BY <1>8, WaitingAre DEF Waiting
<1>10. IsFiniteSet(gone) /\ Cardinality(gone) = Len(queue[g])
  <2>1. IsFiniteSet({g}) /\ Cardinality({g}) = 1
    BY FS_Singleton
  <2>2. IsFiniteSet(1..Len(queue[g])) /\ Cardinality(1..Len(queue[g])) = Len(queue[g])
    BY <1>4, UpToCount
  <2> DEFINE L == 1..Len(queue[g])
             one == {g}
  <2>3. IsFiniteSet(L) /\ Cardinality(L) = Len(queue[g]) /\ IsFiniteSet(one) /\ Cardinality(one) = 1
    BY <2>1, <2>2
  <2> HIDE DEF L, one
  <2>4. IsFiniteSet(one \X L) /\ Cardinality(one \X L) = Cardinality(one) * Cardinality(L)
    BY <2>3, FS_Product
  <2>5. Cardinality(one \X L) = Len(queue[g])
    BY <1>4, <2>3, <2>4
  <2>6. QED
    BY <2>4, <2>5 DEF one, L
<1> HIDE DEF gone
<1>11. IsFiniteSet(Waiting') /\ W = Cardinality(Waiting') + Len(queue[g]) /\ Cardinality(Waiting') \in Nat
  <2>1. IsFiniteSet(Waiting)
    BY DEF PlacesInv
  <2>2. Waiting' \subseteq Waiting /\ Waiting = Waiting' \cup gone /\ Waiting' \cap gone = {}
    BY <1>1, <1>7, <1>9
  <2>3. IsFiniteSet(Waiting')
    BY <2>1, <2>2, FS_Subset
  <2>4. Cardinality(Waiting' \cup gone) = Cardinality(Waiting') + Cardinality(gone)
    BY <1>10, <2>2, <2>3, UnionCount
  <2>5. Cardinality(Waiting') \in Nat
    BY <2>3, FS_CardinalityType
  <2>6. QED
    BY <1>10, <2>2, <2>3, <2>4, <2>5
<1>12. /\ Cardinality(Submitting') = S /\ IsFiniteSet(Submitting')
       /\ Cardinality(Busies') = B /\ IsFiniteSet(Busies')
  BY <1>5, <1>6 DEF PlacesInv
<1> HIDE DEF S, B, W
<1>13. /\ capacity' + Cardinality(Waiting') + Cardinality(Busies') + Cardinality(Submitting')
            = capacity + W + B + S
       /\ capacity' \in Nat
  BY <1>1, <1>2, <1>4, <1>11, <1>12
<1>14. Len(queue') = generation'
  BY <1>2, <1>4, <1>8
<1>15. generation' \in Nat \ {0} /\ \A u \in Threads : Shape(u, todo'[u], generation')
  BY <1>2, <1>5 DEF PlacesInv
<1>16. QED
  BY <1>2, <1>5, <1>8, <1>11, <1>12, <1>13, <1>14, <1>15, PlacesCount DEF S, B, W

\* The steps of the dispatcher.
LEMMA DispatcherPlaces ==
  ASSUME PlacesInv, DispatcherNext, UNCHANGED calls PROVE PlacesInv'
<1>1. \A t : \A name : name \notin Special =>
        Fine(t, <<name>>, generation) /\ \A argument : Fine(t, <<name, argument>>, generation)
  BY FineName
<1>2. ASSUME NEW t \in Threads, Dispatch(t) PROVE PlacesInv'
  <2>1. todo[t] # <<>> /\ Head(todo[t])[1] = "handed" /\ UNCHANGED places
    BY <1>2 DEF Dispatch, At, dispatcherVars, places
  <2>2. t \in Receivers
    BY <2>1, TopAllowed DEF Allowed, Reception
  <2>3. Fine(t, <<"admit", <<Arg(t), generation>>>>, generation)
    <3>1. generation \in 1..generation
      BY DEF PlacesInv
    <3>2. QED
      BY <2>2, <3>1 DEF Fine, Allowed
  <2>4. PICK frames : Does(t, frames) /\ Plain(t, frames, generation)
    BY <1>2, <2>3, PlainList DEF Dispatch
  <2>5. Head(todo[t])[1] \notin {"free", "submit"} \cup OnWorker
    BY <2>1 DEF OnWorker
  <2>6. QED
    BY <2>1, <2>4, <2>5, DoesPlaces
<1>3. ASSUME NEW t \in Threads, Handle(t) PROVE PlacesInv'
  <2>1. todo[t] # <<>> /\ Head(todo[t])[1] = "handle" /\ UNCHANGED places
    BY <1>3 DEF Handle, At, places
  <2> DEFINE handled == <<<<"user">>, <<"swallow">>, <<"answer", <<"ack", Arg(t)>>>>>>
             refused == <<<<"answer", <<"error", Arg(t)>>>>>>
  <2>2. Plain(t, handled, generation) /\ Plain(t, refused, generation)
    BY <1>1, PlainList DEF Special, Reception
  <2>3. Guarded(handled) /\ Guarded(refused)
    <3>1. /\ Len(handled) = 3 /\ handled[1][1] = "user" /\ handled[2][1] = "swallow"
          /\ handled[3][1] = "answer" /\ Len(refused) = 1 /\ refused[1][1] = "answer"
      OBVIOUS
    <3> HIDE DEF handled, refused
    <3>2. /\ \A i \in 1..Len(handled) : i = 1 \/ i = 2 \/ i = 3
          /\ \A i \in 1..Len(refused) : i = 1
          /\ 2 \in (1 + 1)..Len(handled)
      BY <3>1
    <3>3. QED
      BY <3>1, <3>2 DEF Guarded, OnWorker
  <2>4. Does(t, handled) \/ Does(t, refused)
    BY <1>3 DEF Handle
  <2> HIDE DEF handled, refused
  <2>5. QED
    BY <2>1, <2>2, <2>3, <2>4, DoesPlaces
<1>4. ASSUME NEW t \in Threads, AnswerRequest(t) PROVE PlacesInv'
  <2>1. todo[t] # <<>> /\ Head(todo[t])[1] = "answer" /\ UNCHANGED places
    BY <1>4 DEF AnswerRequest, At, dispatcherVars, places
  <2> DEFINE sent == <<<<"send", Answer(Arg(t)[1], Arg(t)[2])>>, <<"swallow">>>>
             none == <<>>
  <2>2. Plain(t, sent, generation) /\ Plain(t, none, generation)
    BY <1>1, PlainList DEF Special, Reception
  <2>3. Guarded(sent) /\ Guarded(none)
    <3>1. Len(sent) = 2 /\ sent[1][1] = "send" /\ sent[2][1] = "swallow" /\ Len(none) = 0
      OBVIOUS
    <3> HIDE DEF sent, none
    <3>2. /\ \A i \in 1..Len(sent) : i = 1 \/ i = 2
          /\ 2 \in (1 + 1)..Len(sent) /\ \A i \in 1..Len(none) : FALSE
      BY <3>1
    <3>3. QED
      BY <3>1, <3>2 DEF Guarded, OnWorker
  <2>4. Does(t, sent) \/ Does(t, none)
    BY <1>4 DEF AnswerRequest, Respond
  <2> HIDE DEF sent, none
  <2>5. QED
    BY <2>1, <2>2, <2>3, <2>4, DoesPlaces
<1>5. ASSUME NEW t \in Threads, Serve(t) \/ Drain(t) PROVE PlacesInv'
  <2>1. /\ todo[t] # <<>> /\ Head(todo[t])[1] \notin {"free", "submit"} \cup OnWorker
        /\ Does(t, <<>>) /\ UNCHANGED places
    BY <1>5 DEF Serve, Drain, At, OnWorker, dispatcherVars, places
  <2>2. QED
    BY <2>1, PlainList, DoesPlaces
<1>6. ASSUME NEW t \in Threads, DispatcherStart(t) PROVE PlacesInv'
  <2>1. /\ todo[t] # <<>> /\ Head(todo[t])[1] = "dispatcher_start" /\ Does(t, <<>>)
        /\ capacity' = capacity /\ Plain(t, <<>>, generation)
    BY <1>6, PlainList DEF DispatcherStart, At
  <2>2. CASE UNCHANGED <<generation, queue>>
    <3>1. UNCHANGED places
      BY <2>1, <2>2 DEF places
    <3>2. Head(todo[t])[1] \notin {"free", "submit"} \cup OnWorker
      BY <2>1 DEF OnWorker
    <3>3. QED
      BY <2>1, <3>1, <3>2, DoesPlaces
  <2>3. CASE NextGeneration
    BY <2>1, <2>3, GenerationPlaces
  <2>4. QED
    BY <1>6, <2>2, <2>3 DEF DispatcherStart
<1>7. ASSUME NEW t \in Threads, DispatcherStop(t) PROVE PlacesInv'
  <2>1. /\ todo[t] # <<>> /\ Head(todo[t])[1] = "dispatcher_stop" /\ NextGeneration
        /\ capacity' = capacity
    BY <1>7 DEF DispatcherStop, At
  <2>2. Fine(t, <<"shutdown", generation>>, generation)
    <3>1. generation \in 1..generation
      BY DEF PlacesInv
    <3>2. QED
      BY <3>1 DEF Fine, Allowed, Reception
  <2>3. PICK frames : Does(t, frames) /\ Plain(t, frames, generation)
    BY <1>7, <2>2, PlainList DEF DispatcherStop
  <2>4. QED
    BY <2>1, <2>3, GenerationPlaces
<1>8. QED
  BY <1>2, <1>3, <1>4, <1>5, <1>6, <1>7, AdmitPlaces, SubmitPlaces, WorkPlaces, FreePlaces,
     ShutdownPlaces DEF DispatcherNext

LEMMA PlacesStep ==
  ASSUME PlacesInv, [Next]_vars PROVE PlacesInv'
<1>1. CASE ChannelNext /\ UNCHANGED <<peerVars, dispatcherVars, calls>>
  BY <1>1, ChannelPlaces
<1>2. ASSUME UNCHANGED <<todo, places, calls>> PROVE PlacesInv'
  <2>1. todo' = [u \in Threads |-> todo'[u]]
    BY <1>2 DEF PlacesInv
  <2>2. QED
    BY <1>2, <2>1, StacksPlaces
<1>3. CASE PeerNext /\ UNCHANGED <<dispatcherVars, calls>>
  <2>1. ASSUME NEW n \in Nodes, Toggle(n) PROVE PlacesInv'
    BY <1>2, <1>3, <2>1 DEF Toggle, dispatcherVars, places
  <2>2. QED
    BY <1>3, <2>1, PeerPlaces, WatchPlaces DEF PeerNext
<1>4. CASE DispatcherNext /\ UNCHANGED calls
  BY <1>4, DispatcherPlaces
<1>5. CASE \E t \in Threads : Call(t) \/ Leave(t) \/ Published(t)
  BY <1>5, CallsPlaces DEF Call, Leave, Published
<1>6. CASE \E t \in Threads : Unwind(t) /\ UNCHANGED <<channelVars, peerVars, dispatcherVars, calls>>
  BY <1>6, CallsPlaces
<1>7. CASE UNCHANGED vars
  BY <1>2, <1>7 DEF vars, dispatcherVars, places
<1>8. QED
  BY <1>1, <1>3, <1>4, <1>5, <1>6, <1>7 DEF Next, Terminating

LEMMA PlacesBegin == ASSUME Init PROVE PlacesInv
<1>1. /\ generation = 1 /\ capacity = MaxPending /\ calls \subseteq Threads \X Commands
      /\ todo = [t \in Threads |-> IF \E n \in Nodes : t = Monitor(n) THEN <<<<"asleep">>>> ELSE <<>>]
  BY PlansAssumption DEF Init, DispatcherInit
<1> DEFINE none == <<>>
<1>2. none \in Seq(ToSet(none)) /\ Len(none) = 0 /\ queue = <<none>>
  BY DEF Init, DispatcherInit
<1> HIDE DEF none
<1>3. Queues(queue) /\ Len(queue) = generation /\ WaitingIn(queue) = {}
  <2>1. queue \in Seq({none}) /\ Len(queue) = 1 /\ queue[1] = none
    BY <1>2
  <2>2. queue \in Seq(ToSet(queue)) /\ \A g \in 1..Len(queue) : g = 1
    BY <2>1, SeqOfItself
  <2>3. \A g \in 1..Len(queue) : queue[g] = none /\ 1..Len(queue[g]) = {}
    BY <1>2, <2>1, <2>2
  <2>4. WaitingIn(queue) = {}
    BY <2>3 DEF WaitingIn
  <2>5. QED
    BY <1>1, <1>2, <2>1, <2>2, <2>3, <2>4 DEF Queues
<1>4. Waiting = {}
  BY <1>3, WaitingAre DEF Waiting
<1>5. ASSUME NEW t \in Threads
      PROVE  /\ Shape(t, todo[t], generation)
             /\ ~At(t, "submit") /\ (t \in Workers => todo[t] = <<>>)
  <2>1. CASE \E n \in Nodes : t = Monitor(n)
    <3>1. t \notin Workers
      BY <2>1, DispatcherAssumption
    <3>2. Fine(t, <<"asleep">>, generation)
      BY FineName DEF Special, Reception
    <3>3. Plain(t, <<<<"asleep">>>>, generation)
      BY <3>2, PlainList
    <3>4. Shape(t, <<<<"asleep">>>>, generation)
      BY <3>1, <3>3, ShapePlain
    <3>5. todo[t] = <<<<"asleep">>>>
      BY <1>1, <2>1
    <3>6. QED
      BY <3>1, <3>4, <3>5 DEF At
  <2>2. CASE ~(\E n \in Nodes : t = Monitor(n))
    <3>1. todo[t] = <<>>
      BY <1>1, <2>2
    <3>2. Shape(t, <<>>, generation)
      BY DEF Shape
    <3>3. QED
      BY <3>1, <3>2 DEF At
  <2>3. QED
    BY <2>1, <2>2
<1>6. Busies = {} /\ Submitting = {}
  BY <1>5, DispatcherAssumption DEF Busies, Submitting, Idle
<1>7. todo = [t \in Threads |-> todo[t]]
  BY <1>1
<1>8. IsFiniteSet({}) /\ Cardinality({}) = 0
  BY FS_EmptySet
<1>9. capacity \in Nat /\ generation \in Nat \ {0}
  BY <1>1, DispatcherAssumption
<1>10. PlacesAreExact
  <2>1. capacity + Cardinality(Waiting) + Cardinality(Busies) + Cardinality(Submitting) = MaxPending
    BY <1>1, <1>4, <1>6, <1>8, <1>9
  <2>2. QED
    BY <2>1 DEF PlacesAreExact, Busies, Submitting
<1>11. QED
  BY <1>1, <1>3, <1>4, <1>5, <1>6, <1>7, <1>8, <1>9, <1>10 DEF PlacesInv

\* What counts against a limit is counted exactly, for any limits, threads and
\* commands: the bytes of the assemblies, whatever is repeated, damaged, given up
\* or cleared, and the places of the dispatcher, whatever is refused, cancelled,
\* still running or raising when it stops (application.py:291-329,
\* dispatch.py:230-256).
THEOREM LimitsAreCounted == Spec => []LimitsAreExact
<1>1. Init => PlacesInv /\ BytesInv
  BY PlacesBegin, BytesBegin
<1>2. PlacesInv /\ BytesInv /\ [Next]_vars => (PlacesInv /\ BytesInv)'
  BY PlacesStep, BytesStep
<1>3. PlacesInv /\ BytesInv => LimitsAreExact
  BY BytesFollow DEF PlacesInv, LimitsAreExact
<1>4. QED
  BY <1>1, <1>2, <1>3, PTL DEF Spec

-------------------------------------------------------------------------------
\* Requests on their way from the assembler to their handler.

\* The frames that bring one there.
Bringing == {"published", "on_packet", "handed", "admit", "submit", "handle"}

\* Frame f of thread t brings a request of c to the handler of the server.
Brings(t, f, c) ==
  \/ f[1] \in {"published", "on_packet", "handed"} /\ NodeOf(t) = Server /\ f[2] = RequestOf(c)
  \/ f[1] \in {"admit", "submit"} /\ f[2][1][2] = c
  \/ f[1] = "handle" /\ f[2][2] = c

\* Who brings a request of c, and the jobs that wait with one.
Bringers(c) == {t \in Threads : todo[t] # <<>> /\ Brings(t, Head(todo[t]), c)}
JobsIn(q, c) == {x \in WaitingIn(q) : q[x[1]][x[2]][2] = c}

\* How often a request of c could have left the assembler of the server.
Delivered(c) == forgotten[c] + (IF RequestOf(c) \in ToSet(completed[Server]) THEN 1 ELSE 0)

\* Frames that bring nothing, and stacks that may do so at their top.
Idly(frames) ==
  /\ frames \in Seq(ToSet(frames))
  /\ \A f \in ToSet(frames) : f[1] \notin Bringing
AtTopOnly(stack) ==
  /\ stack \in Seq(ToSet(stack))
  /\ stack # <<>> => Idly(Tail(stack))

\* The inductive invariant: what has been handled and what is on its way to be
\* has left the assembler.
OnceInv ==
  /\ \A t \in Threads : AtTopOnly(todo[t])
  /\ runs \in [Callers -> Nat] /\ forgotten \in [Callers -> Nat]
  /\ \A c \in Callers :
       /\ IsFiniteSet(Bringers(c)) /\ IsFiniteSet(JobsIn(queue, c))
       /\ runs[c] + Cardinality(Bringers(c)) + Cardinality(JobsIn(queue, c)) <= Delivered(c)

LEMMA IdlyFrom ==
  ASSUME NEW S, NEW frames \in Seq(S), \A f \in S : f[1] \notin Bringing
  PROVE  Idly(frames)
<1>1. ToSet(frames) \subseteq S
  BY ElementOfSeq DEF ToSet
<1>2. QED
  BY <1>1, SeqOfItself DEF Idly

LEMMA IdlyConcat ==
  ASSUME NEW a, NEW b, Idly(a), Idly(b) PROVE Idly(a \o b)
<1> DEFINE S == ToSet(a) \cup ToSet(b)
<1>1. a \in Seq(S) /\ b \in Seq(S)
  BY DEF Idly
<1>2. a \o b \in Seq(S)
  BY <1>1, ConcatProperties
<1>3. \A f \in S : f[1] \notin Bringing
  BY DEF Idly
<1> HIDE DEF S
<1>4. QED
  BY <1>2, <1>3, IdlyFrom

\* Lists of such frames.
LEMMA IdlyList ==
  /\ Idly(<<>>)
  /\ \A a : a[1] \notin Bringing => Idly(<<a>>)
  /\ \A a, b : a[1] \notin Bringing /\ b[1] \notin Bringing => Idly(<<a, b>>)
  /\ \A a, b, c : a[1] \notin Bringing /\ b[1] \notin Bringing /\ c[1] \notin Bringing
       => Idly(<<a, b, c>>)
  /\ \A a, b, c, d : /\ a[1] \notin Bringing /\ b[1] \notin Bringing
                     /\ c[1] \notin Bringing /\ d[1] \notin Bringing
       => Idly(<<a, b, c, d>>)
<1>1. Idly(<<>>)
  <2> DEFINE S == {}
  <2>1. <<>> \in Seq(S) /\ \A f \in S : f[1] \notin Bringing
    OBVIOUS
  <2> HIDE DEF S
  <2>2. QED
    BY <2>1, IdlyFrom
<1>2. ASSUME NEW a, a[1] \notin Bringing PROVE Idly(<<a>>)
  <2> DEFINE S == {a}
  <2>1. <<a>> \in Seq(S) /\ \A f \in S : f[1] \notin Bringing
    BY <1>2
  <2> HIDE DEF S
  <2>2. QED
    BY <2>1, IdlyFrom
<1>3. ASSUME NEW a, NEW b, a[1] \notin Bringing, b[1] \notin Bringing PROVE Idly(<<a, b>>)
  <2> DEFINE S == {a, b}
  <2>1. <<a, b>> \in Seq(S) /\ \A f \in S : f[1] \notin Bringing
    BY <1>3
  <2> HIDE DEF S
  <2>2. QED
    BY <2>1, IdlyFrom
<1>4. ASSUME NEW a, NEW b, NEW c,
             a[1] \notin Bringing, b[1] \notin Bringing, c[1] \notin Bringing
      PROVE  Idly(<<a, b, c>>)
  <2> DEFINE S == {a, b, c}
  <2>1. <<a, b, c>> \in Seq(S) /\ \A f \in S : f[1] \notin Bringing
    BY <1>4
  <2> HIDE DEF S
  <2>2. QED
    BY <2>1, IdlyFrom
<1>5. ASSUME NEW a, NEW b, NEW c, NEW d, a[1] \notin Bringing, b[1] \notin Bringing,
             c[1] \notin Bringing, d[1] \notin Bringing
      PROVE  Idly(<<a, b, c, d>>)
  <2> DEFINE S == {a, b, c, d}
  <2>1. <<a, b, c, d>> \in Seq(S) /\ \A f \in S : f[1] \notin Bringing
    BY <1>5
  <2> HIDE DEF S
  <2>2. QED
    BY <2>1, IdlyFrom
<1>6. QED
  BY <1>1, <1>2, <1>3, <1>4, <1>5

\* Frames by their names.
LEMMA IdlyName ==
  \A name : name \notin Bringing =>
    Idly(<<<<name>>>>) /\ \A argument : Idly(<<<<name, argument>>>>)
<1>1. ASSUME NEW name, name \notin Bringing
      PROVE  Idly(<<<<name>>>>) /\ \A argument : Idly(<<<<name, argument>>>>)
  <2>1. <<name>>[1] \notin Bringing /\ \A argument : <<name, argument>>[1] \notin Bringing
    BY <1>1
  <2>2. \A a : a[1] \notin Bringing => Idly(<<a>>)
    BY IdlyList
  <2>3. QED
    BY <2>1, <2>2
<1>2. QED
  BY <1>1

\* Such a list may be a stack; its top brings nothing.
LEMMA IdlyAtTop ==
  ASSUME NEW frames, Idly(frames)
  PROVE  /\ AtTopOnly(frames)
         /\ frames # <<>> => Head(frames)[1] \notin Bringing
<1>1. frames \in Seq(ToSet(frames))
  BY DEF Idly
<1>2. CASE frames = <<>>
  BY <1>1, <1>2 DEF AtTopOnly
<1>3. CASE frames # <<>>
  <2> DEFINE S == ToSet(frames)
  <2>1. frames \in Seq(S) /\ \A f \in S : f[1] \notin Bringing
    BY DEF Idly
  <2> HIDE DEF S
  <2>2. Tail(frames) \in Seq(S) /\ Head(frames) \in S
    BY <1>3, <2>1, HeadTailProperties
  <2>3. Idly(Tail(frames))
    BY <2>1, <2>2, IdlyFrom
  <2>4. QED
    BY <1>1, <2>1, <2>2, <2>3 DEF AtTopOnly
<1>4. QED
  BY <1>2, <1>3

\* Any frame may be at the top.
LEMMA TopAtTop ==
  /\ AtTopOnly(<<>>)
  /\ \A a : AtTopOnly(<<a>>)
  /\ \A a, b : b[1] \notin Bringing => AtTopOnly(<<a, b>>)
  /\ \A a, b, c : b[1] \notin Bringing /\ c[1] \notin Bringing => AtTopOnly(<<a, b, c>>)
<1>1. ASSUME NEW a PROVE AtTopOnly(<<a>>)
  <2>1. <<a>> \in Seq({a}) /\ Tail(<<a>>) = <<>>
    OBVIOUS
  <2>2. <<a>> \in Seq(ToSet(<<a>>))
    BY <2>1, SeqOfItself
  <2>3. Idly(Tail(<<a>>))
    BY <2>1, IdlyList
  <2>4. QED
    BY <2>2, <2>3 DEF AtTopOnly
<1>2. ASSUME NEW a, NEW b, NEW c, b[1] \notin Bringing, c[1] \notin Bringing
      PROVE  AtTopOnly(<<a, b>>) /\ AtTopOnly(<<a, b, c>>)
  <2>1. /\ <<a, b>> \in Seq({a, b, c}) /\ Tail(<<a, b>>) = <<b>>
        /\ <<a, b, c>> \in Seq({a, b, c}) /\ Tail(<<a, b, c>>) = <<b, c>>
    OBVIOUS
  <2>2. /\ <<a, b>> \in Seq(ToSet(<<a, b>>))
        /\ <<a, b, c>> \in Seq(ToSet(<<a, b, c>>))
    BY <2>1, SeqOfItself
  <2>3. Idly(<<b>>) /\ Idly(<<b, c>>)
    BY <1>2, IdlyList
  <2>4. QED
    BY <2>1, <2>2, <2>3 DEF AtTopOnly
<1>3. AtTopOnly(<<>>)
  BY IdlyList, IdlyAtTop
<1>4. QED
  BY <1>1, <1>2, <1>3

\* Pushing on frames that bring nothing.
LEMMA PushAtTop ==
  ASSUME NEW frames, AtTopOnly(frames), NEW rest, Idly(rest)
  PROVE  /\ AtTopOnly(frames \o rest)
         /\ frames \o rest # <<>> /\ Head(frames \o rest)[1] \in Bringing =>
              frames # <<>> /\ Head(frames \o rest) = Head(frames)
<1> DEFINE S == ToSet(frames) \cup ToSet(rest)
<1>1. frames \in Seq(S) /\ rest \in Seq(S)
  BY SeqWider DEF AtTopOnly, Idly
<1> HIDE DEF S
<1>2. CASE frames = <<>>
  <2>1. frames \o rest = rest
    BY <1>1, <1>2, ConcatEmptySeq
  <2>2. QED
    BY <2>1, IdlyAtTop
<1>3. CASE frames # <<>>
  <2>1. /\ frames \o rest # <<>> /\ Head(frames \o rest) = Head(frames)
        /\ Tail(frames \o rest) = Tail(frames) \o rest
        /\ frames \o rest \in Seq(S)
    BY <1>1, <1>3, HeadTailProperties, ConcatProperties
  <2>2. Idly(Tail(frames) \o rest)
    BY <1>3, IdlyConcat DEF AtTopOnly
  <2>3. QED
    BY <1>3, <2>1, <2>2, SeqOfItself DEF AtTopOnly
<1>4. QED
  BY <1>2, <1>3

\* What is reached is the same stack, or brings nothing.
LEMMA ReachedAtTop ==
  ASSUME NEW stack, AtTopOnly(stack)
  PROVE  /\ AtTopOnly(Reached(stack))
         /\ Reached(stack) # <<>> /\ Head(Reached(stack))[1] \in Bringing =>
              stack # <<>> /\ Head(Reached(stack)) = Head(stack)
<1> DEFINE S == ToSet(stack)
<1>1. stack \in Seq(S)
  BY DEF AtTopOnly
<1> HIDE DEF S
<1>2. CASE Reached(stack) = <<>>
  BY <1>2, IdlyAtTop, IdlyList
<1>3. ASSUME NEW k \in 1..Len(stack), Reached(stack) = SubSeq(stack, k, Len(stack)), k = 1
      PROVE  Reached(stack) = stack
  BY <1>1, <1>3
<1>4. ASSUME NEW k \in 1..Len(stack), Reached(stack) = SubSeq(stack, k, Len(stack)), k # 1
      PROVE  Idly(Reached(stack))
  <2> DEFINE T == ToSet(Tail(stack))
             rest == SubSeq(stack, k, Len(stack))
  <2>1. stack # <<>> /\ Len(stack) \in Nat
    BY <1>1
  <2>2. Idly(Tail(stack))
    BY <2>1 DEF AtTopOnly
  <2>3. /\ Tail(stack) \in Seq(T) /\ Len(Tail(stack)) = Len(stack) - 1
        /\ \A i \in 1..(Len(stack) - 1) : Tail(stack)[i] = stack[i + 1]
    BY <1>1, <2>1, <2>2 DEF Idly
  <2>4. \A f \in T : f[1] \notin Bringing
    BY <2>2 DEF Idly
  <2>5. ASSUME NEW i \in k..Len(stack) PROVE stack[i] \in T
    <3>1. i - 1 \in 1..(Len(stack) - 1) /\ (i - 1) + 1 = i
      BY <1>4, <2>1
    <3>2. i - 1 \in DOMAIN Tail(stack) /\ Tail(stack)[i - 1] = stack[i]
      BY <2>3, <3>1
    <3>3. QED
      BY <3>2 DEF ToSet
  <2> HIDE DEF T
  <2>6. rest \in Seq(T)
    BY <1>1, <2>1, <2>5, SubSeqProperties
  <2>7. QED
    BY <1>4, <2>4, <2>6, IdlyFrom
<1>5. ASSUME NEW k \in 1..Len(stack), Reached(stack) = SubSeq(stack, k, Len(stack)), k = 1
      PROVE  /\ AtTopOnly(Reached(stack)) /\ Reached(stack) = stack /\ stack # <<>>
  <2>1. Reached(stack) = stack
    BY <1>3, <1>5
  <2>2. stack # <<>>
    BY <1>1
  <2>3. QED
    BY <2>1, <2>2
<1>6. ASSUME NEW k \in 1..Len(stack), Reached(stack) = SubSeq(stack, k, Len(stack)), k # 1
      PROVE  /\ AtTopOnly(Reached(stack))
             /\ Reached(stack) # <<>> => Head(Reached(stack))[1] \notin Bringing
  BY <1>4, <1>6, IdlyAtTop
<1>7. Reached(stack) = <<>> \/ \E k \in 1..Len(stack) : Reached(stack) = SubSeq(stack, k, Len(stack))
  BY <1>1, ReachedEnd
<1>8. QED
  BY <1>2, <1>5, <1>6, <1>7

LEMMA UnwoundIdly ==
  ASSUME NEW stack, Idly(stack) PROVE Idly(Unwound(stack))
<1> DEFINE S == ToSet(stack) \cup {<<"raise">>}
                \cup {<<name, TRUE>> : name \in Reports \cup Finally}
<1>1. stack \in Seq(S)
  BY SeqWider DEF Idly
<1>2. <<"raise">> \in S /\ \A name \in Reports \cup Finally : <<name, TRUE>> \in S
  OBVIOUS
<1>3. \A f \in S : f[1] \notin Bringing
  <2>1. <<"raise">>[1] \notin Bringing
    BY DEF Bringing
  <2>2. ASSUME NEW name \in Reports \cup Finally PROVE <<name, TRUE>>[1] \notin Bringing
    BY DEF Bringing, Reports, Finally
  <2>3. QED
    BY <2>1, <2>2 DEF Idly
<1> HIDE DEF S
<1>4. QED
  BY <1>1, <1>2, <1>3, UnwoundType, IdlyFrom

\* What becomes of the stack of a thread that executes its top.
LEMMA BecomesAtTop ==
  ASSUME NEW t, AtTopOnly(todo[t]), todo[t] # <<>>, NEW frames, AtTopOnly(frames)
  PROVE  /\ AtTopOnly(Becomes(t, frames))
         /\ Becomes(t, frames) # <<>> /\ Head(Becomes(t, frames))[1] \in Bringing =>
              frames # <<>> /\ Head(Becomes(t, frames)) = Head(frames)
<1> DEFINE rest == Tail(todo[t])
           stack == frames \o rest
<1>1. Idly(rest)
  BY DEF AtTopOnly
<1> HIDE DEF rest
<1>2. /\ AtTopOnly(stack)
      /\ stack # <<>> /\ Head(stack)[1] \in Bringing => frames # <<>> /\ Head(stack) = Head(frames)
  BY <1>1, PushAtTop
<1> HIDE DEF stack
<1>3. /\ AtTopOnly(Reached(stack))
      /\ Reached(stack) # <<>> /\ Head(Reached(stack))[1] \in Bringing =>
           stack # <<>> /\ Head(Reached(stack)) = Head(stack)
  BY <1>2, ReachedAtTop
<1>4. QED
  BY <1>2, <1>3 DEF Becomes, stack, rest

LEMMA BringsName ==
  ASSUME NEW t, NEW f, NEW c, Brings(t, f, c) PROVE f[1] \in Bringing
  BY DEF Brings, Bringing

\* A step after which nobody brings what was not on its way, no more jobs wait
\* and no less has been delivered.
LEMMA OnceKept ==
  ASSUME OnceInv, runs' = runs, forgotten' \in [Callers -> Nat],
         \A u \in Threads : AtTopOnly(todo'[u]),
         \A c \in Callers : /\ Bringers(c)' \subseteq Bringers(c)
                            /\ JobsIn(queue', c) \subseteq JobsIn(queue, c)
                            /\ Delivered(c) <= Delivered(c)'
  PROVE  OnceInv'
<1>1. ASSUME NEW c \in Callers
      PROVE  /\ IsFiniteSet(Bringers(c)') /\ IsFiniteSet(JobsIn(queue', c))
             /\ runs'[c] + Cardinality(Bringers(c)') + Cardinality(JobsIn(queue', c)) <= Delivered(c)'
  <2> DEFINE A == Bringers(c)
             B == Bringers(c)'
             J == JobsIn(queue, c)
             K == JobsIn(queue', c)
             d == Delivered(c)
             e == Delivered(c)'
  <2>1. /\ IsFiniteSet(A) /\ IsFiniteSet(J) /\ B \subseteq A /\ K \subseteq J
        /\ runs[c] + Cardinality(A) + Cardinality(J) <= d
    BY DEF OnceInv
  <2>2. runs[c] \in Nat /\ runs'[c] = runs[c]
    BY DEF OnceInv
  <2>3. d \in Nat /\ e \in Nat /\ d <= e
    BY DEF OnceInv, Delivered
  <2> HIDE DEF A, B, J, K, d, e
  <2>4. IsFiniteSet(B) /\ Cardinality(B) <= Cardinality(A)
    BY <2>1, FS_Subset
  <2>5. IsFiniteSet(K) /\ Cardinality(K) <= Cardinality(J)
    BY <2>1, FS_Subset
  <2>6. /\ Cardinality(A) \in Nat /\ Cardinality(B) \in Nat
        /\ Cardinality(J) \in Nat /\ Cardinality(K) \in Nat
    BY <2>1, <2>4, <2>5, FS_CardinalityType
  <2>7. runs'[c] + Cardinality(B) + Cardinality(K) <= e
    BY <2>1, <2>2, <2>3, <2>4, <2>5, <2>6
  <2>8. QED
    BY <2>4, <2>5, <2>7 DEF B, K, e
<1>2. runs' \in [Callers -> Nat]
  BY DEF OnceInv
<1>3. QED
  BY <1>1, <1>2 DEF OnceInv

memory == <<runs, forgotten, completed, queue>>

LEMMA MemoryKept ==
  ASSUME OnceInv, UNCHANGED <<runs, forgotten, completed>>
  PROVE  /\ runs' = runs /\ forgotten' \in [Callers -> Nat]
         /\ \A c \in Callers : Delivered(c) <= Delivered(c)'
<1>1. ASSUME NEW c \in Callers PROVE Delivered(c) \in Nat /\ Delivered(c)' = Delivered(c)
  BY DEF OnceInv, Delivered
<1>2. QED
  BY <1>1 DEF OnceInv

\* Who executes its top brings what it brought before, if anything.
LEMMA DoesMoves ==
  ASSUME OnceInv, PlacesInv, NEW t \in Threads, todo[t] # <<>>,
         NEW frames, AtTopOnly(frames), Does(t, frames)
  PROVE  /\ \A u \in Threads : AtTopOnly(todo'[u])
         /\ \A c : \A u \in Bringers(c)' :
              \/ u \in Bringers(c) /\ u # t
              \/ u = t /\ frames # <<>> /\ Brings(t, Head(frames), c)
<1> DEFINE stack == Becomes(t, frames)
<1>1. /\ AtTopOnly(stack)
      /\ stack # <<>> /\ Head(stack)[1] \in Bringing => frames # <<>> /\ Head(stack) = Head(frames)
  BY BecomesAtTop DEF OnceInv
<1>2. todo'[t] = stack /\ \A u \in Threads \ {t} : todo'[u] = todo[u]
  BY DEF Does, PlacesInv
<1> HIDE DEF stack
<1>3. \A u \in Threads : AtTopOnly(todo'[u])
  BY <1>1, <1>2 DEF OnceInv
<1>4. ASSUME NEW c, NEW u \in Bringers(c)'
      PROVE  \/ u \in Bringers(c) /\ u # t
             \/ u = t /\ frames # <<>> /\ Brings(t, Head(frames), c)
  <2>1. u \in Threads /\ todo'[u] # <<>> /\ Brings(u, Head(todo'[u]), c)
    BY <1>4 DEF Bringers
  <2>2. CASE u # t
    BY <1>2, <2>1, <2>2 DEF Bringers
  <2>3. CASE u = t
    BY <1>1, <1>2, <2>1, <2>3, BringsName
  <2>4. QED
    BY <2>2, <2>3
<1>5. QED
  BY <1>3, <1>4

\* Such a step on its own, and one that brings nothing.
LEMMA DoesOnce ==
  ASSUME OnceInv, PlacesInv, UNCHANGED memory, NEW t \in Threads, todo[t] # <<>>,
         NEW frames, AtTopOnly(frames), Does(t, frames),
         \A c \in Callers : frames # <<>> /\ Brings(t, Head(frames), c) => t \in Bringers(c)
  PROVE  OnceInv'
<1>1. queue' = queue /\ UNCHANGED <<runs, forgotten, completed>>
  BY DEF memory
<1>2. \A c \in Callers : JobsIn(queue', c) \subseteq JobsIn(queue, c)
  BY <1>1
<1>3. /\ \A u \in Threads : AtTopOnly(todo'[u])
      /\ \A c : \A u \in Bringers(c)' :
           \/ u \in Bringers(c) /\ u # t
           \/ u = t /\ frames # <<>> /\ Brings(t, Head(frames), c)
  BY DoesMoves
<1>4. \A c \in Callers : Bringers(c)' \subseteq Bringers(c)
  BY <1>3
<1>5. QED
  BY <1>1, <1>2, <1>3, <1>4, MemoryKept, OnceKept

LEMMA IdlyMoves ==
  ASSUME OnceInv, PlacesInv, NEW t \in Threads, todo[t] # <<>>,
         NEW frames, Idly(frames), Does(t, frames)
  PROVE  /\ \A u \in Threads : AtTopOnly(todo'[u])
         /\ \A c : Bringers(c)' \subseteq Bringers(c) \ {t}
<1>1. AtTopOnly(frames) /\ \A c : ~(frames # <<>> /\ Brings(t, Head(frames), c))
  BY IdlyAtTop, BringsName
<1>2. QED
  BY <1>1, DoesMoves

LEMMA IdlyOnce ==
  ASSUME OnceInv, PlacesInv, UNCHANGED memory, NEW t \in Threads, todo[t] # <<>>,
         NEW frames, Idly(frames), Does(t, frames)
  PROVE  OnceInv'
<1>1. AtTopOnly(frames) /\ \A c : ~(frames # <<>> /\ Brings(t, Head(frames), c))
  BY IdlyAtTop, BringsName
<1>2. QED
  BY <1>1, DoesOnce

\* A step that leaves each stack alone or puts one there that brings nothing.
LEMMA StacksOnce ==
  ASSUME OnceInv, UNCHANGED memory,
         \A u \in Threads : \/ todo'[u] = todo[u]
                            \/ /\ AtTopOnly(todo'[u])
                               /\ todo'[u] # <<>> => Head(todo'[u])[1] \notin Bringing
  PROVE  OnceInv'
<1>1. queue' = queue /\ UNCHANGED <<runs, forgotten, completed>>
  BY DEF memory
<1>2. \A c \in Callers : JobsIn(queue', c) \subseteq JobsIn(queue, c)
  BY <1>1
<1>3. \A u \in Threads : AtTopOnly(todo'[u])
  BY DEF OnceInv
<1>4. \A c \in Callers : Bringers(c)' \subseteq Bringers(c)
  BY BringsName DEF Bringers
<1>5. QED
  BY <1>1, <1>2, <1>3, <1>4, MemoryKept, OnceKept

\* The steps of the peer: a packet that is received is handed on.
LEMMA PeerOnce ==
  ASSUME OnceInv, PlacesInv, UNCHANGED <<dispatcherVars, calls>>, NEW t \in Threads,
         \/ Send(t) \/ Transmit(t) \/ SentPacket(t)
         \/ Register(t) \/ Wait(t) \/ Settled(t) \/ OnPacket(t)
         \/ Refresh(t) \/ SetTransport(t) \/ Fail(t)
         \/ Round(t) \/ Expire(t) \/ Wake(t)
         \/ PeerStart(t) \/ PeerStop(t) \/ Halt(t) \/ Join(t)
  PROVE  OnceInv'
<1>1. todo[t] # <<>>
  BY DEF Send, Transmit, SentPacket, Register, Wait, Settled, OnPacket, Refresh, SetTransport,
         Fail, Round, Expire, Wake, PeerStart, PeerStop, Halt, Join, At
<1>2. UNCHANGED memory
  BY DEF Send, Transmit, SentPacket, Register, Wait, Settled, OnPacket, Refresh, SetTransport,
         Fail, Round, Expire, Wake, PeerStart, PeerStop, Halt, Join, channelVars, dispatcherVars,
         memory
<1>3. ASSUME NEW frames, Idly(frames), Does(t, frames) PROVE OnceInv'
  BY <1>1, <1>2, <1>3, IdlyOnce
<1>4. \A name : name \notin Bringing =>
        Idly(<<<<name>>>>) /\ \A argument : Idly(<<<<name, argument>>>>)
  BY IdlyName
<1>5. Idly(<<>>)
  BY IdlyList
<1>6. CASE SentPacket(t) \/ Wait(t) \/ Settled(t) \/ Fail(t) \/ Expire(t) \/ Halt(t) \/ Join(t)
  BY <1>3, <1>5, <1>6 DEF SentPacket, Wait, Settled, Fail, Expire, Halt, Join
<1>7. CASE Refresh(t) \/ SetTransport(t) \/ Wake(t)
  BY <1>3, <1>4, <1>5, <1>7 DEF Refresh, SetTransport, Wake, Bringing
<1>8. CASE Send(t)
  <2>1. \A packet : Idly(<<<<"transmit", packet>>, <<"sent">>>>)
    BY IdlyList DEF Bringing
  <2>2. Idly(<<<<"raise">>>>)
    BY <1>4 DEF Bringing
  <2>3. QED
    BY <1>3, <1>8, <2>1, <2>2 DEF Send, Raises
<1>9. CASE Transmit(t)
  <2>1. Idly(<<<<"refresh">>, <<"raise">>>>)
    BY IdlyList DEF Bringing
  <2>2. Idly(<<<<"raise">>>>)
    BY <1>4 DEF Bringing
  <2>3. QED
    BY <1>3, <1>5, <1>9, <2>1, <2>2 DEF Transmit, Raises
<1>10. CASE Register(t)
  <2>1. \A packet : Idly(<<<<"send", packet>>, <<"wait">>, <<"settled", FALSE>>>>)
    BY IdlyList DEF Bringing
  <2>2. Idly(<<<<"raise">>>>)
    BY <1>4 DEF Bringing
  <2>3. QED
    BY <1>3, <1>10, <2>1, <2>2 DEF Register, Raises
<1>11. CASE OnPacket(t)
  <2>1. Head(todo[t])[1] = "on_packet" /\ Head(todo[t])[2] = Arg(t)
    BY <1>11 DEF OnPacket, At, Arg
  <2>2. /\ AtTopOnly(<<>>) /\ AtTopOnly(<<<<"handed", Arg(t)>>>>)
        /\ \A answer : AtTopOnly(<<<<"handed", Arg(t)>>, <<"send", answer>>>>)
    <3>1. \A answer : <<"send", answer>>[1] \notin Bringing
      BY DEF Bringing
    <3>2. QED
      BY <3>1, TopAtTop
  <2>3. PICK frames :
          /\ Does(t, frames) /\ AtTopOnly(frames)
          /\ frames # <<>> => Head(frames) = <<"handed", Arg(t)>>
    BY <1>11, <2>2 DEF OnPacket
  <2>4. \A c \in Callers : frames # <<>> /\ Brings(t, Head(frames), c) => t \in Bringers(c)
    BY <1>1, <2>1, <2>3 DEF Brings, Bringers
  <2>5. QED
    BY <1>1, <1>2, <2>3, <2>4, DoesOnce
<1>12. CASE Round(t)
  <2> DEFINE look == <<<<"set", NodeOf(t) \in ready>>>>
             rest == <<<<"expire">>, <<"asleep">>>>
  <2>1. Idly(look) /\ Idly(rest) /\ Idly(Probe(pings + 1))
    BY <1>4, IdlyList DEF Bringing, Probe
  <2>2. Does(t, <<>>) \/ Does(t, look \o rest) \/ Does(t, look \o Probe(pings + 1) \o rest)
    BY <1>12 DEF Round
  <2> HIDE DEF look, rest
  <2>3. Idly(look \o rest) /\ Idly(look \o Probe(pings + 1) \o rest)
    BY <2>1, IdlyConcat
  <2>4. QED
    BY <1>3, <1>5, <2>2, <2>3
<1>13. CASE PeerStart(t)
  <2>1. Idly(<<<<"listen">>, <<"watch">>>>)
    BY IdlyList DEF Bringing
  <2>2. QED
    BY <1>3, <1>5, <1>13, <2>1 DEF PeerStart
<1>14. CASE PeerStop(t)
  <2>1. \A mine : Idly(<<<<"halt", mine>>, <<"unlisten">>, <<"clear">>, <<"join">>>>)
    BY IdlyList DEF Bringing
  <2>2. QED
    BY <1>3, <1>5, <1>14, <2>1 DEF PeerStop
<1>15. QED
  BY <1>6, <1>7, <1>8, <1>9, <1>10, <1>11, <1>12, <1>13, <1>14

LEMMA WatchOnce ==
  ASSUME OnceInv, PlacesInv, UNCHANGED <<dispatcherVars, calls>>, NEW t \in Threads, Watch(t)
  PROVE  OnceInv'
<1> DEFINE m == Monitor(NodeOf(t))
           stack == Becomes(t, <<>>)
<1>1. todo[t] # <<>> /\ UNCHANGED memory
  BY DEF Watch, At, memory, dispatcherVars, channelVars
<1>2. AtTopOnly(<<>>) /\ AtTopOnly(<<<<"monitor">>>>)
  BY IdlyList, IdlyName, IdlyAtTop DEF Bringing
<1>3. AtTopOnly(stack) /\ (stack # <<>> => Head(stack)[1] \notin Bringing)
  BY <1>1, <1>2, BecomesAtTop DEF OnceInv
<1>4. todo' = [todo EXCEPT ![t] = stack, ![m] = <<<<"monitor">>>>]
  BY DEF Watch
<1>5. \A u \in Threads : todo'[u] = IF u = m THEN <<<<"monitor">>>>
                                    ELSE IF u = t THEN stack ELSE todo[u]
  <2> HIDE DEF m, stack
  <2>1. QED
    BY <1>4 DEF PlacesInv
<1> HIDE DEF m, stack
<1>6. Head(<<<<"monitor">>>>)[1] \notin Bringing
  BY DEF Bringing
<1>7. QED
  BY <1>1, <1>2, <1>3, <1>5, <1>6, StacksOnce

\* What is called, handlers that end, packets that are published, exceptions.
LEMMA CallsOnce ==
  ASSUME OnceInv, PlacesInv, UNCHANGED <<channelVars, peerVars, dispatcherVars>>,
         NEW t \in Threads, Call(t) \/ Leave(t) \/ Published(t) \/ Unwind(t)
  PROVE  OnceInv'
<1>1. UNCHANGED memory
  BY DEF memory, channelVars, dispatcherVars
<1>2. AtTopOnly(todo[t])
  BY DEF OnceInv
<1>3. ASSUME NEW stack, todo' = [todo EXCEPT ![t] = stack], AtTopOnly(stack),
             stack # <<>> => Head(stack)[1] \notin Bringing
      PROVE  OnceInv'
  <2>1. \A u \in Threads : todo'[u] = todo[u] \/ todo'[u] = stack
    BY <1>3 DEF PlacesInv
  <2>2. QED
    BY <1>1, <1>3, <2>1, StacksOnce
<1>4. CASE Call(t)
  <2>1. ASSUME NEW name \in Commands PROVE Idly(Command(name))
    <3>1. /\ Idly(<<<<"register">>>>)
          /\ Idly(<<<<"unserve">>, <<"dispatcher_stop">>, <<"peer_stop">>>>)
          /\ Idly(<<<<"peer_start">>, <<"serve">>, <<"dispatcher_start">>>>)
          /\ Idly(<<<<"peer_stop">>>>) /\ Idly(<<<<"peer_start">>>>)
          /\ Idly(<<<<"monitor">>>>) /\ Idly(<<<<"refresh">>>>)
          /\ Idly(<<<<"dispatcher_stop">>>>)
      BY IdlyName, IdlyList DEF Bringing
    <3>2. QED
      BY <3>1 DEF Command, Commands
  <2>2. PICK name \in Commands :
          \/ todo' = [todo EXCEPT ![t] = Command(name)]
          \/ At(t, "user") /\ todo' = [todo EXCEPT ![t] = Command(name) \o @]
    BY <1>4 DEF Call, PlacesInv
  <2>3. CASE todo' = [todo EXCEPT ![t] = Command(name)]
    BY <1>3, <2>1, <2>3, IdlyAtTop
  <2>4. CASE At(t, "user") /\ todo' = [todo EXCEPT ![t] = Command(name) \o @]
    <3> DEFINE stack == Command(name) \o todo[t]
    <3>1. Idly(todo[t])
      <4> DEFINE S == {Head(todo[t])} \cup ToSet(Tail(todo[t]))
      <4>1. todo[t] # <<>> /\ Head(todo[t])[1] = "user" /\ todo[t] \in Seq(ToSet(todo[t]))
        BY <1>2, <2>4 DEF At, AtTopOnly
      <4>2. Idly(Tail(todo[t]))
        BY <1>2, <4>1 DEF AtTopOnly
      <4>3. \A f \in S : f[1] \notin Bringing
        BY <4>1, <4>2 DEF Idly, Bringing
      <4>4. \A i \in 1..Len(todo[t]) : todo[t][i] \in S
        <5>1. ASSUME NEW i \in 1..Len(todo[t]) PROVE todo[t][i] \in S
          <6>1. CASE i = 1
            BY <4>1, <6>1
          <6>2. CASE i # 1
            <7>1. /\ Len(Tail(todo[t])) = Len(todo[t]) - 1 /\ Len(todo[t]) \in Nat
                  /\ \A j \in 1..(Len(todo[t]) - 1) : Tail(todo[t])[j] = todo[t][j + 1]
                  /\ DOMAIN Tail(todo[t]) = 1..(Len(todo[t]) - 1)
              BY <4>1
            <7>2. i - 1 \in 1..(Len(todo[t]) - 1) /\ (i - 1) + 1 = i
              BY <6>2, <7>1
            <7>3. Tail(todo[t])[i - 1] = todo[t][i] /\ i - 1 \in DOMAIN Tail(todo[t])
              BY <7>1, <7>2
            <7>4. QED
              BY <7>3 DEF ToSet
          <6>3. QED
            BY <6>1, <6>2
        <5>2. QED
          BY <5>1
      <4> HIDE DEF S
      <4>5. todo[t] \in Seq(S)
        <5>1. todo[t] \in [1..Len(todo[t]) -> S] /\ Len(todo[t]) \in Nat
          BY <4>1, <4>4
        <5>2. QED
          BY <5>1
      <4>6. QED
        BY <4>3, <4>5, IdlyFrom
    <3>2. Idly(stack)
      BY <2>1, <3>1, IdlyConcat
    <3>3. todo' = [todo EXCEPT ![t] = stack]
      BY <2>4
    <3> HIDE DEF stack
    <3>4. QED
      BY <1>3, <3>2, <3>3, IdlyAtTop
  <2>5. QED
    BY <2>2, <2>3, <2>4
<1>5. CASE Leave(t)
  BY <1>1, <1>5, IdlyList, IdlyOnce DEF Leave, At
<1>6. CASE Published(t)
  <2>1. todo[t] # <<>> /\ Head(todo[t])[1] = "published" /\ Head(todo[t])[2] = Arg(t)
    BY <1>6 DEF Published, At, Arg
  <2>2. AtTopOnly(<<>>) /\ AtTopOnly(<<<<"on_packet", Arg(t)>>>>)
    BY TopAtTop
  <2>3. PICK frames : /\ Does(t, frames) /\ AtTopOnly(frames)
                      /\ frames # <<>> => Head(frames) = <<"on_packet", Arg(t)>>
    BY <1>6, <2>2 DEF Published
  <2>4. \A c \in Callers : frames # <<>> /\ Brings(t, Head(frames), c) => t \in Bringers(c)
    BY <2>1, <2>3 DEF Brings, Bringers
  <2>5. QED
    BY <1>1, <2>1, <2>3, <2>4, DoesOnce
<1>7. CASE Unwind(t)
  <2>1. Idly(Tail(todo[t]))
    BY <1>2, <1>7 DEF Unwind, At, AtTopOnly
  <2> DEFINE stack == Unwound(Tail(todo[t]))
  <2>2. Idly(stack)
    BY <2>1, UnwoundIdly
  <2>3. todo' = [todo EXCEPT ![t] = stack]
    BY <1>7 DEF Unwind
  <2> HIDE DEF stack
  <2>4. QED
    BY <1>3, <2>2, <2>3, IdlyAtTop
<1>8. QED
  BY <1>4, <1>5, <1>6, <1>7

\* One element more.
LEMMA OneMore ==
  ASSUME NEW S, IsFiniteSet(S), NEW x
  PROVE  /\ IsFiniteSet(S \cup {x}) /\ Cardinality(S \cup {x}) \in Nat
         /\ Cardinality(S \cup {x}) <= Cardinality(S) + 1
<1> DEFINE P == S \cup {x}
<1>1. IsFiniteSet(P) /\ Cardinality(P) = IF x \in S THEN Cardinality(S) ELSE Cardinality(S) + 1
  BY FS_AddElement
<1> HIDE DEF P
<1>2. Cardinality(S) \in Nat /\ Cardinality(P) \in Nat
  BY <1>1, FS_CardinalityType
<1>3. Cardinality(P) <= Cardinality(S) + 1
  BY <1>1, <1>2
<1>4. QED
  BY <1>1, <1>2, <1>3 DEF P

\* What the assembler no longer remembers it has forgotten.
LEMMA ForgottenCounts ==
  ASSUME forgotten \in [Callers -> Nat], completed = [m \in Nodes |-> completed[m]],
         NEW n \in Nodes, NEW rest, NEW gone, completed' = [completed EXCEPT ![n] = rest],
         Forgets(gone), ToSet(completed[n]) \subseteq gone \cup ToSet(rest)
  PROVE  /\ forgotten' \in [Callers -> Nat]
         /\ \A c \in Callers : /\ forgotten[c] <= forgotten'[c]
                               /\ Delivered(c) <= Delivered(c)'
<1>1. /\ forgotten' \in [Callers -> Nat]
      /\ \A c \in Callers :
           forgotten'[c] = forgotten[c] + (IF RequestOf(c) \in gone THEN 1 ELSE 0)
  BY DEF Forgets
<1>2. ASSUME NEW c \in Callers
      PROVE  forgotten[c] <= forgotten'[c] /\ Delivered(c) <= Delivered(c)'
  <2>1. forgotten[c] \in Nat
    OBVIOUS
  <2>2. CASE n # Server
    <3>1. completed'[Server] = completed[Server]
      BY <2>2, DispatcherAssumption
    <3>2. QED
      BY <1>1, <2>1, <3>1 DEF Delivered
  <2>3. CASE n = Server
    <3>1. completed'[Server] = rest
      BY <2>3
    <3>2. RequestOf(c) \in ToSet(completed[Server]) =>
            RequestOf(c) \in gone \/ RequestOf(c) \in ToSet(completed'[Server])
      BY <2>3, <3>1
    <3>3. QED
      BY <1>1, <2>1, <3>2 DEF Delivered
  <2>4. QED
    BY <2>2, <2>3
<1>3. QED
  BY <1>1, <1>2

\* A sequence is its beginning and its end.
LEMMA BothEnds ==
  ASSUME NEW S, NEW s \in Seq(S), NEW k \in 0..Len(s)
  PROVE  ToSet(s) \subseteq ToSet(SubSeq(s, 1, k)) \cup ToSet(SubSeq(s, k + 1, Len(s)))
<1> DEFINE a == SubSeq(s, 1, k)
           b == SubSeq(s, k + 1, Len(s))
<1>1. Len(s) \in Nat /\ k \in Nat /\ \A i \in 1..Len(s) : s[i] \in S
  BY ElementOfSeq
<1>2. a \in Seq(S) /\ Len(a) = k /\ \A i \in 1..k : a[i] = s[i]
  BY <1>1
<1>3. b \in Seq(S) /\ Len(b) = Len(s) - k /\ \A i \in 1..(Len(s) - k) : b[i] = s[i + k]
  BY <1>1
<1> HIDE DEF a, b
<1>4. ASSUME NEW i \in 1..Len(s) PROVE s[i] \in ToSet(a) \cup ToSet(b)
  <2>1. CASE i <= k
    <3>1. i \in DOMAIN a /\ a[i] = s[i]
      BY <1>1, <1>2, <2>1
    <3>2. QED
      BY <3>1 DEF ToSet
  <2>2. CASE ~(i <= k)
    <3>1. i - k \in 1..(Len(s) - k) /\ (i - k) + k = i
      BY <1>1, <2>2
    <3>2. i - k \in DOMAIN b /\ b[i - k] = s[i]
      BY <1>3, <3>1
    <3>3. QED
      BY <3>2 DEF ToSet
  <2>3. QED
    BY <2>1, <2>2
<1>5. ToSet(s) \subseteq ToSet(a) \cup ToSet(b)
  BY <1>4 DEF ToSet
<1>6. QED
  BY <1>5 DEF a, b

\* A packet that is complete is remembered, and another one forgotten for it.
LEMMA CompletesCounts ==
  ASSUME OnceInv, BytesInv, NEW n \in Nodes, NEW packet, Completes(n, packet)
  PROVE  /\ forgotten' \in [Callers -> Nat]
         /\ \A c \in Callers : Delivered(c) <= Delivered(c)'
         /\ n = Server /\ packet \notin ToSet(completed[n]) =>
              \A c \in Callers : packet = RequestOf(c) => Delivered(c) + 1 <= Delivered(c)'
<1> DEFINE all == Append(completed[n], packet)
           first == IF Len(all) > MaxCompleted THEN 2 ELSE 1
           rest == SubSeq(all, first, Len(all))
           gone == ToSet(SubSeq(all, 1, first - 1))
           S == ToSet(completed[n]) \cup {packet}
<1>1. completed[n] \in Seq(S) /\ Len(completed[n]) \in Nat
  <2>1. completed[n] \in Seq(ToSet(completed[n]))
    BY DEF BytesInv, Counted
  <2>2. QED
    BY <2>1, SeqWider
<1>2. /\ all \in Seq(S) /\ Len(all) = Len(completed[n]) + 1 /\ all[Len(all)] = packet
      /\ \A i \in 1..Len(completed[n]) : all[i] = completed[n][i]
  BY <1>1, AppendProperties
<1>3. completed' = [completed EXCEPT ![n] = rest] /\ Forgets(gone)
  BY DEF Completes
<1> HIDE DEF all, S
<1>4. Len(all) \in Nat /\ Len(all) >= 1 /\ MaxCompleted \in Nat /\ MaxCompleted >= 1
  BY <1>1, <1>2, ChannelAssumption
<1>5. first - 1 \in 0..Len(all) /\ (first - 1) + 1 = first /\ first \in 1..Len(all)
  BY <1>4
<1>6. ToSet(all) \subseteq gone \cup ToSet(rest)
  <2> DEFINE k == first - 1
  <2>1. k \in 0..Len(all) /\ k + 1 = first
    BY <1>5
  <2> HIDE DEF k
  <2>2. ToSet(all) \subseteq ToSet(SubSeq(all, 1, k)) \cup ToSet(SubSeq(all, k + 1, Len(all)))
    BY <1>2, <2>1, BothEnds
  <2>3. QED
    BY <2>1, <2>2 DEF k
<1> HIDE DEF first
<1>7. ToSet(completed[n]) \subseteq ToSet(all)
  <2>1. \A i \in DOMAIN completed[n] : i \in DOMAIN all /\ all[i] = completed[n][i]
    BY <1>1, <1>2
  <2>2. QED
    BY <2>1 DEF ToSet
<1>8. packet \in ToSet(rest)
  <2> DEFINE i == Len(all) + 1 - first
  <2>1. i \in 1..(Len(all) + 1 - first) /\ first + i - 1 = Len(all)
    BY <1>4, <1>5
  <2>2. i \in DOMAIN rest /\ rest[i] = all[Len(all)]
    <3>1. \A j \in first..Len(all) : all[j] \in S
      <4>1. \A j \in 1..Len(all) : all[j] \in S
        BY <1>2, ElementOfSeq
      <4>2. \A j \in first..Len(all) : j \in 1..Len(all)
        BY <1>4, <1>5
      <4>3. QED
        BY <4>1, <4>2
    <3>2. Len(rest) = Len(all) - first + 1 /\ \A j \in 1..Len(rest) : rest[j] = all[first + j - 1]
      BY <1>2, <1>4, <1>5, <3>1, SubSeqProperties
    <3>3. Len(rest) = i /\ DOMAIN rest = 1..i
      BY <1>2, <1>4, <1>5, <3>1, <3>2, SubSeqProperties
    <3>4. QED
      BY <2>1, <3>2, <3>3
  <2>3. QED
    BY <1>2, <2>2 DEF ToSet
<1> HIDE DEF rest, gone
<1>9. completed = [m \in Nodes |-> completed[m]] /\ forgotten \in [Callers -> Nat]
  BY DEF BytesInv, OnceInv
<1>10. /\ forgotten' \in [Callers -> Nat]
       /\ \A c \in Callers : forgotten[c] <= forgotten'[c] /\ Delivered(c) <= Delivered(c)'
  BY <1>3, <1>6, <1>7, <1>9, ForgottenCounts
<1>11. ASSUME n = Server, packet \notin ToSet(completed[n]), NEW c \in Callers, packet = RequestOf(c)
       PROVE  Delivered(c) + 1 <= Delivered(c)'
  <2>1. completed'[Server] = rest
    BY <1>3, <1>9, <1>11
  <2>2. Delivered(c) = forgotten[c] /\ Delivered(c)' = forgotten'[c] + 1
    BY <1>8, <1>9, <1>10, <1>11, <2>1 DEF Delivered
  <2>3. forgotten[c] \in Nat /\ forgotten'[c] \in Nat /\ forgotten[c] <= forgotten'[c]
    BY <1>9, <1>10
  <2>4. QED
    BY <2>2, <2>3
<1>12. QED
  BY <1>10, <1>11

\* A request that is handed to one thread more has been delivered once more.
LEMMA OnceMore ==
  ASSUME OnceInv, NEW c \in Callers, NEW t, NEW A, A \subseteq Bringers(c) \cup {t},
         NEW d \in Nat, A \subseteq Bringers(c) \/ Delivered(c) + 1 <= d, Delivered(c) <= d
  PROVE  /\ IsFiniteSet(A)
         /\ runs[c] + Cardinality(A) + Cardinality(JobsIn(queue, c)) <= d
<1> DEFINE B == Bringers(c)
           C == B \cup {t}
           j == Cardinality(JobsIn(queue, c))
           e == Delivered(c)
<1>1. IsFiniteSet(B) /\ runs[c] \in Nat /\ j \in Nat /\ runs[c] + Cardinality(B) + j <= e
  BY FS_CardinalityType DEF OnceInv
<1>2. e \in Nat
  BY DEF OnceInv, Delivered
<1> HIDE DEF B, j, e
<1>3. IsFiniteSet(C) /\ Cardinality(C) <= Cardinality(B) + 1 /\ Cardinality(B) \in Nat
  BY <1>1, OneMore, FS_CardinalityType
<1> HIDE DEF C
<1>4. IsFiniteSet(A) /\ Cardinality(A) <= Cardinality(C)
  BY <1>3, FS_Subset DEF C, B
<1>5. A \subseteq B => Cardinality(A) <= Cardinality(B)
  BY <1>1, FS_Subset
<1>6. Cardinality(A) \in Nat /\ Cardinality(C) \in Nat
  BY <1>3, <1>4, FS_CardinalityType
<1>7. A \subseteq B \/ e + 1 <= d
  BY DEF B, e
<1>8. runs[c] + Cardinality(A) + j <= d
  <2>1. CASE A \subseteq B
    <3>1. e <= d
      BY DEF e
    <3>2. QED
      BY <1>1, <1>2, <1>3, <1>5, <1>6, <2>1, <3>1
  <2>2. CASE e + 1 <= d
    BY <1>1, <1>2, <1>3, <1>4, <1>6, <2>2
  <2>3. QED
    BY <1>7, <2>1, <2>2
<1>9. QED
  BY <1>4, <1>8 DEF j

\* The assembler hands a packet on when it begins to remember it.
LEMMA AcceptOnce ==
  ASSUME OnceInv, PlacesInv, BytesInv, UNCHANGED dispatcherVars, NEW n \in Nodes, Accept(n)
  PROVE  OnceInv'
<1> DEFINE t == Receiver(n)
<1>1. runs' = runs /\ queue' = queue
  BY DEF dispatcherVars
<1>2. PICK g \in air : Assemble(n, g)
  BY DEF Accept
<1> DEFINE packet == g.packet
           stack == <<<<"published", packet>>, <<"swallow">>>>
<1>3. t \in Threads /\ todo[t] = <<>> /\ NodeOf(t) = n
  BY ChannelAssumption, PeerAssumption DEF Accept, Idle
<1>4. CASE UNCHANGED <<todo, completed, forgotten>>
  <2>1. UNCHANGED memory
    BY <1>1, <1>4 DEF memory
  <2>2. QED
    BY <1>4, <2>1, StacksOnce
<1>5. CASE /\ Completes(n, packet) /\ packet \notin ToSet(completed[n])
           /\ todo' = [todo EXCEPT ![t] = stack]
  <2>1. /\ forgotten' \in [Callers -> Nat]
        /\ \A c \in Callers : Delivered(c) <= Delivered(c)'
        /\ n = Server => \A c \in Callers : packet = RequestOf(c) => Delivered(c) + 1 <= Delivered(c)'
    <3> HIDE DEF packet
    <3>1. QED
      BY <1>5, CompletesCounts
  <2>2. AtTopOnly(stack)
    <3>1. <<"swallow">>[1] \notin Bringing
      BY DEF Bringing
    <3> HIDE DEF packet
    <3>2. QED
      BY <3>1, TopAtTop
  <2>3. Head(stack) = <<"published", packet>> /\ stack # <<>>
    OBVIOUS
  <2> HIDE DEF stack, packet, t
  <2>4. todo'[t] = stack /\ \A u \in Threads \ {t} : todo'[u] = todo[u]
    BY <1>3, <1>5 DEF PlacesInv
  <2>5. \A u \in Threads : AtTopOnly(todo'[u])
    BY <2>2, <2>4 DEF OnceInv
  <2>6. ASSUME NEW c \in Callers
        PROVE  /\ Bringers(c)' \subseteq Bringers(c) \cup {t}
               /\ Bringers(c)' \subseteq Bringers(c) \/ (n = Server /\ packet = RequestOf(c))
    <3>1. \A u \in Threads \ {t} : u \in Bringers(c)' => u \in Bringers(c)
      BY <2>4 DEF Bringers
    <3>2. t \in Bringers(c)' => Brings(t, <<"published", packet>>, c)
      BY <2>3, <2>4 DEF Bringers
    <3>3. Brings(t, <<"published", packet>>, c) => n = Server /\ packet = RequestOf(c)
      BY <1>3 DEF Brings
    <3>4. Bringers(c)' \subseteq Threads
      BY DEF Bringers
    <3>5. QED
      BY <3>1, <3>2, <3>3, <3>4
  <2>7. ASSUME NEW c \in Callers
        PROVE  /\ IsFiniteSet(Bringers(c)') /\ IsFiniteSet(JobsIn(queue', c))
               /\ runs'[c] + Cardinality(Bringers(c)') + Cardinality(JobsIn(queue', c))
                    <= Delivered(c)'
    <3> DEFINE A == Bringers(c)'
               d == Delivered(c)'
    <3>1. d \in Nat
      BY <2>1 DEF Delivered
    <3>2. A \subseteq Bringers(c) \/ Delivered(c) + 1 <= d
      BY <2>1, <2>6
    <3>3. A \subseteq Bringers(c) \cup {t} /\ Delivered(c) <= d
      BY <2>1, <2>6
    <3> HIDE DEF A, d
    <3>4. /\ IsFiniteSet(A)
          /\ runs[c] + Cardinality(A) + Cardinality(JobsIn(queue, c)) <= d
      BY <3>1, <3>2, <3>3, OnceMore
    <3>5. IsFiniteSet(JobsIn(queue, c))
      BY DEF OnceInv
    <3>6. QED
      BY <1>1, <3>4, <3>5 DEF A, d
  <2>8. runs' \in [Callers -> Nat]
    BY <1>1 DEF OnceInv
  <2>9. QED
    BY <2>1, <2>5, <2>7, <2>8 DEF OnceInv
<1>6. ~Contains(completed[n], packet) => packet \notin ToSet(completed[n])
  <2>1. completed[n] \in Seq(ToSet(completed[n]))
    BY DEF BytesInv, Counted
  <2>2. QED
    BY <2>1 DEF Contains, ToSet
<1>7. QED
  BY <1>2, <1>4, <1>5, <1>6 DEF Assemble

LEMMA ChannelOnce ==
  ASSUME OnceInv, PlacesInv, BytesInv, ChannelNext, UNCHANGED <<peerVars, dispatcherVars, calls>>
  PROVE  OnceInv'
<1>1. runs' = runs /\ queue' = queue
  BY DEF dispatcherVars
<1>2. CASE Lose \/ Damage \/ Unheard
  <2>1. UNCHANGED memory /\ todo' = todo
    BY <1>1, <1>2 DEF Lose, Damage, Unheard, memory
  <2>2. QED
    BY <2>1, StacksOnce
<1>3. completed = [m \in Nodes |-> completed[m]] /\ forgotten \in [Callers -> Nat]
  BY DEF BytesInv, OnceInv
<1>4. ASSUME NEW n \in Nodes, Prune(n) PROVE OnceInv'
  <2>1. PICK k \in 0..Len(completed[n]) :
          /\ completed' = [completed EXCEPT ![n] = SubSeq(@, k + 1, Len(@))]
          /\ Forgets(ToSet(SubSeq(completed[n], 1, k)))
    BY <1>4 DEF Prune
  <2> DEFINE rest == SubSeq(completed[n], k + 1, Len(completed[n]))
             gone == ToSet(SubSeq(completed[n], 1, k))
  <2>2. completed[n] \in Seq(ToSet(completed[n]))
    BY DEF BytesInv, Counted
  <2>3. ToSet(completed[n]) \subseteq gone \cup ToSet(rest)
    BY <2>2, BothEnds
  <2>4. completed' = [completed EXCEPT ![n] = rest] /\ Forgets(gone)
    BY <2>1
  <2> HIDE DEF rest, gone
  <2>5. forgotten' \in [Callers -> Nat] /\ \A c \in Callers : Delivered(c) <= Delivered(c)'
    BY <1>3, <2>3, <2>4, ForgottenCounts
  <2>6. todo' = todo
    BY <1>4 DEF Prune
  <2>7. \A u \in Threads : AtTopOnly(todo'[u])
    BY <2>6 DEF OnceInv
  <2>8. \A c \in Callers : Bringers(c)' \subseteq Bringers(c) /\ JobsIn(queue', c) \subseteq JobsIn(queue, c)
    BY <1>1, <2>6 DEF Bringers
  <2>9. QED
    BY <1>1, <2>5, <2>7, <2>8, OnceKept
<1>5. ASSUME NEW n \in Nodes, Accept(n) PROVE OnceInv'
  BY <1>5, AcceptOnce
<1>6. ASSUME NEW t \in Threads, NEW n \in Nodes, Listen(t, n) \/ Unlisten(t, n) PROVE OnceInv'
  <2>1. todo[t] # <<>> /\ Does(t, <<>>) /\ UNCHANGED memory
    BY <1>1, <1>6 DEF Listen, Unlisten, At, memory
  <2>2. QED
    BY <2>1, IdlyList, IdlyOnce
<1>7. ASSUME NEW t \in Threads, NEW n \in Nodes, Clear(t, n) PROVE OnceInv'
  <2>1. todo[t] # <<>> /\ Does(t, <<>>)
    BY <1>7 DEF Clear, At
  <2> DEFINE rest == <<>>
             gone == ToSet(completed[n])
  <2>2. completed' = [completed EXCEPT ![n] = rest] /\ Forgets(gone)
    BY <1>7 DEF Clear
  <2>3. ToSet(completed[n]) \subseteq gone \cup ToSet(rest)
    OBVIOUS
  <2> HIDE DEF rest, gone
  <2>4. forgotten' \in [Callers -> Nat] /\ \A c \in Callers : Delivered(c) <= Delivered(c)'
    BY <1>3, <2>2, <2>3, ForgottenCounts
  <2>5. /\ \A u \in Threads : AtTopOnly(todo'[u])
        /\ \A c : Bringers(c)' \subseteq Bringers(c) \ {t}
    BY <2>1, IdlyList, IdlyMoves
  <2>6. QED
    BY <1>1, <2>4, <2>5, OnceKept
<1>8. QED
  BY <1>2, <1>4, <1>5, <1>6, <1>7 DEF ChannelNext

\* The jobs of r that wait with a request of c are those of q, but s in executor g.
JobsBut(r, q, g, s, c) ==
  /\ JobsIn(r, c) \subseteq Nat \X Nat /\ JobsIn(q, c) \subseteq Nat \X Nat
  /\ \A i \in Nat : <<g, i>> \in JobsIn(r, c) <=> i \in 1..Len(s) /\ s[i][2] = c
  /\ \A i \in Nat : <<g, i>> \in JobsIn(q, c) <=> i \in 1..Len(q[g]) /\ q[g][i][2] = c
  /\ \A h, i \in Nat : h # g => (<<h, i>> \in JobsIn(r, c) <=> <<h, i>> \in JobsIn(q, c))

\* The jobs that wait with a request, when the queue of one executor changes.
LEMMA JobsChange ==
  ASSUME NEW q, Queues(q), NEW g \in 1..Len(q), NEW s, s \in Seq(ToSet(s)), NEW r,
         r = [q EXCEPT ![g] = s], NEW c
  PROVE  JobsBut(r, q, g, s, c)
<1>1. /\ Len(r) = Len(q) /\ r[g] = s
      /\ \A h \in 1..Len(q) : h # g => r[h] = q[h]
  <2>1. Replaced(q, g, s, r)
    BY DEF Replaced
  <2>2. QED
    BY <2>1, QueueChange
<1>2. JobsIn(r, c) \subseteq Nat \X Nat /\ JobsIn(q, c) \subseteq Nat \X Nat
  BY DEF JobsIn, WaitingIn
<1>3. ASSUME NEW p, NEW h \in Nat, NEW i \in Nat
      PROVE  <<h, i>> \in JobsIn(p, c) <=> h \in 1..Len(p) /\ i \in 1..Len(p[h]) /\ p[h][i][2] = c
  BY WaitingMember DEF JobsIn
<1>4. Len(q) \in Nat /\ g \in Nat
  BY DEF Queues
<1>5. ASSUME NEW i \in Nat PROVE <<g, i>> \in JobsIn(r, c) <=> i \in 1..Len(s) /\ s[i][2] = c
  <2>1. <<g, i>> \in JobsIn(r, c) <=> g \in 1..Len(r) /\ i \in 1..Len(r[g]) /\ r[g][i][2] = c
    BY <1>3, <1>4
  <2>2. QED
    BY <1>1, <2>1
<1>6. \A i \in Nat : <<g, i>> \in JobsIn(q, c) <=> i \in 1..Len(q[g]) /\ q[g][i][2] = c
  BY <1>3, <1>4
<1>7. ASSUME NEW h \in Nat, NEW i \in Nat, h # g
      PROVE  <<h, i>> \in JobsIn(r, c) <=> <<h, i>> \in JobsIn(q, c)
  <2>1. <<h, i>> \in JobsIn(r, c) <=> h \in 1..Len(r) /\ i \in 1..Len(r[h]) /\ r[h][i][2] = c
    BY <1>3
  <2>2. <<h, i>> \in JobsIn(q, c) <=> h \in 1..Len(q) /\ i \in 1..Len(q[h]) /\ q[h][i][2] = c
    BY <1>3
  <2>3. QED
    BY <1>1, <1>7, <2>1, <2>2
<1>8. QED
  BY <1>2, <1>5, <1>6, <1>7 DEF JobsBut

\* A job is added behind the others.
LEMMA JobsMore ==
  ASSUME NEW q, Queues(q), NEW g \in 1..Len(q), NEW packet, NEW s, s = Append(q[g], packet),
         NEW r, r = [q EXCEPT ![g] = s], NEW c, IsFiniteSet(JobsIn(q, c))
  PROVE  /\ IsFiniteSet(JobsIn(r, c))
         /\ Cardinality(JobsIn(r, c)) <= Cardinality(JobsIn(q, c)) + (IF packet[2] = c THEN 1 ELSE 0)
<1> DEFINE new == <<g, Len(q[g]) + 1>>
           T == ToSet(q[g]) \cup {packet}
           J == JobsIn(q, c)
           K == JobsIn(r, c)
           P == J \cup {new}
<1>1. q[g] \in Seq(T) /\ packet \in T /\ Len(q[g]) \in Nat /\ g \in Nat
  BY SeqWider DEF Queues
<1> HIDE DEF T
<1>2. /\ s \in Seq(T) /\ Len(s) = Len(q[g]) + 1 /\ s[Len(q[g]) + 1] = packet
      /\ \A i \in 1..Len(q[g]) : s[i] = q[g][i]
  BY <1>1, AppendProperties
<1>3. s \in Seq(ToSet(s)) /\ r = [q EXCEPT ![g] = s]
  BY <1>2, SeqOfItself
<1>4. /\ K \subseteq Nat \X Nat /\ J \subseteq Nat \X Nat
      /\ \A i \in Nat : <<g, i>> \in K <=> i \in 1..Len(s) /\ s[i][2] = c
      /\ \A i \in Nat : <<g, i>> \in J <=> i \in 1..Len(q[g]) /\ q[g][i][2] = c
      /\ \A h, i \in Nat : h # g => (<<h, i>> \in K <=> <<h, i>> \in J)
  <2>1. JobsBut(r, q, g, s, c)
    BY <1>3, JobsChange
  <2>2. QED
    BY <2>1 DEF JobsBut
<1> HIDE DEF J, K
<1>5. ASSUME NEW h \in Nat, NEW i \in Nat, <<h, i>> \in K
      PROVE  <<h, i>> \in J \/ (h = g /\ i = Len(q[g]) + 1 /\ packet[2] = c)
  <2>1. CASE h # g
    BY <1>4, <1>5, <2>1
  <2>2. CASE h = g
    <3>1. i \in 1..(Len(q[g]) + 1) /\ s[i][2] = c
      BY <1>2, <1>4, <1>5, <2>2
    <3>2. CASE i = Len(q[g]) + 1
      BY <1>2, <2>2, <3>1, <3>2
    <3>3. CASE i # Len(q[g]) + 1
      <4>1. i \in 1..Len(q[g])
        BY <1>1, <3>1, <3>3
      <4>2. QED
        BY <1>2, <1>4, <2>2, <3>1, <4>1
    <3>4. QED
      BY <3>2, <3>3
  <2>3. QED
    BY <2>1, <2>2
<1>6. ASSUME NEW x \in K PROVE x \in J \/ (x = new /\ packet[2] = c)
  <2>1. x = <<x[1], x[2]>> /\ x[1] \in Nat /\ x[2] \in Nat
    BY <1>4
  <2>2. QED
    BY <1>5, <2>1
<1> HIDE DEF new
<1>7. IsFiniteSet(J) /\ Cardinality(J) \in Nat
  BY FS_CardinalityType DEF J
<1>8. CASE packet[2] = c
  <2>1. IsFiniteSet(P) /\ Cardinality(P) <= Cardinality(J) + 1 /\ Cardinality(P) \in Nat
    BY <1>7, OneMore
  <2>2. K \subseteq P
    BY <1>6
  <2> HIDE DEF P
  <2>3. IsFiniteSet(K) /\ Cardinality(K) <= Cardinality(P) /\ Cardinality(K) \in Nat
    BY <2>1, <2>2, FS_Subset, FS_CardinalityType
  <2>4. Cardinality(K) <= Cardinality(J) + 1
    BY <1>7, <2>1, <2>3
  <2>5. QED
    BY <1>8, <2>3, <2>4 DEF J, K
<1>9. CASE packet[2] # c
  <2>1. K \subseteq J
    BY <1>6, <1>9
  <2>2. IsFiniteSet(K) /\ Cardinality(K) <= Cardinality(J)
    BY <1>7, <2>1, FS_Subset
  <2>3. Cardinality(K) <= Cardinality(J) + 0
    BY <1>7, <2>2
  <2>4. QED
    BY <1>9, <2>2, <2>3 DEF J, K
<1>10. QED
  BY <1>8, <1>9

\* The first job is taken and the others move up.
LEMMA JobsLess ==
  ASSUME NEW q, Queues(q), NEW g \in 1..Len(q), NEW s, NEW r, NEW c
  PROVE  /\ s \in Seq(ToSet(s)) /\ r = [q EXCEPT ![g] = s]
         /\ IsFiniteSet(JobsIn(q, c)) /\ Len(q[g]) = Len(s) + 1
         /\ \A i \in 1..Len(s) : s[i] = q[g][i + 1]
         => /\ IsFiniteSet(JobsIn(r, c))
            /\ Cardinality(JobsIn(r, c)) + (IF q[g][1][2] = c THEN 1 ELSE 0)
                 <= Cardinality(JobsIn(q, c))
<1>2. SUFFICES ASSUME s \in Seq(ToSet(s)), r = [q EXCEPT ![g] = s],
                      IsFiniteSet(JobsIn(q, c)), Len(q[g]) = Len(s) + 1,
                      \A i \in 1..Len(s) : s[i] = q[g][i + 1]
               PROVE  /\ IsFiniteSet(JobsIn(r, c))
                      /\ Cardinality(JobsIn(r, c)) + (IF q[g][1][2] = c THEN 1 ELSE 0)
                           <= Cardinality(JobsIn(q, c))
  OBVIOUS
<1>1. Len(s) \in Nat /\ g \in Nat
  BY <1>2 DEF Queues
<1>3. /\ JobsIn(r, c) \subseteq Nat \X Nat /\ JobsIn(q, c) \subseteq Nat \X Nat
      /\ \A i \in Nat : <<g, i>> \in JobsIn(r, c) <=> i \in 1..Len(s) /\ s[i][2] = c
      /\ \A i \in Nat : <<g, i>> \in JobsIn(q, c) <=> i \in 1..Len(q[g]) /\ q[g][i][2] = c
      /\ \A h, i \in Nat : h # g => (<<h, i>> \in JobsIn(r, c) <=> <<h, i>> \in JobsIn(q, c))
  <2>1. JobsBut(r, q, g, s, c)
    BY <1>2, JobsChange
  <2>2. QED
    BY <2>1 DEF JobsBut
<1> DEFINE first == <<g, 1>>
           J == JobsIn(q, c)
           K == JobsIn(r, c)
           P == J \ {first}
           moved == [x \in K |-> IF x[1] = g THEN <<g, x[2] + 1>> ELSE x]
<1>4. /\ K \subseteq Nat \X Nat /\ J \subseteq Nat \X Nat
      /\ \A i \in Nat : <<g, i>> \in K <=> i \in 1..Len(s) /\ s[i][2] = c
      /\ \A i \in Nat : <<g, i>> \in J <=> i \in 1..Len(q[g]) /\ q[g][i][2] = c
      /\ \A h, i \in Nat : h # g => (<<h, i>> \in K <=> <<h, i>> \in J)
  BY <1>3
<1>9. IsFiniteSet(J)
  BY <1>2
<1> HIDE DEF J, K
<1>5. \A x \in K : x = <<x[1], x[2]>> /\ x[1] \in Nat /\ x[2] \in Nat
  BY <1>4
<1>6. ASSUME NEW x \in K PROVE moved[x] \in P
  <2>1. CASE x[1] # g
    <3>1. x \in J /\ x # first /\ moved[x] = x
      <4>1. <<x[1], x[2]>> \in J
        BY <1>4, <1>5, <2>1
      <4>2. QED
        BY <1>5, <2>1, <4>1
    <3>2. QED
      BY <3>1
  <2>2. CASE x[1] = g
    <3>1. x[2] \in 1..Len(s) /\ s[x[2]][2] = c
      <4>1. <<g, x[2]>> \in K
        BY <1>5, <2>2
      <4>2. QED
        BY <1>4, <1>5, <4>1
    <3>2. x[2] + 1 \in 1..Len(q[g]) /\ x[2] + 1 # 1 /\ x[2] + 1 \in Nat
      BY <1>1, <1>2, <3>1
    <3>3. q[g][x[2] + 1][2] = c
      BY <1>2, <3>1
    <3>4. <<g, x[2] + 1>> \in J /\ <<g, x[2] + 1>> # first
      BY <1>4, <3>2, <3>3
    <3>5. moved[x] = <<g, x[2] + 1>>
      BY <2>2
    <3>6. QED
      BY <3>4, <3>5
  <2>3. QED
    BY <2>1, <2>2
<1>7. ASSUME NEW x \in K, NEW y \in K, moved[x] = moved[y] PROVE x = y
  <2> DEFINE a == x[1]
             b == x[2]
             d == y[1]
             e == y[2]
  <2>1. /\ x = <<a, b>> /\ b \in Nat /\ y = <<d, e>> /\ e \in Nat
        /\ moved[x] = (IF a = g THEN <<g, b + 1>> ELSE <<a, b>>)
        /\ moved[y] = (IF d = g THEN <<g, e + 1>> ELSE <<d, e>>)
    BY <1>5
  <2> HIDE DEF a, b, d, e, moved
  <2>2. CASE a = g /\ d = g
    <3>1. <<g, b + 1>> = <<g, e + 1>>
      BY <1>7, <2>1, <2>2
    <3>2. b + 1 = e + 1
      BY <3>1
    <3>3. b = e
      BY <2>1, <3>2
    <3>4. QED
      BY <2>1, <2>2, <3>3
  <2>3. CASE a # g \/ d # g
    BY <1>7, <2>1, <2>3
  <2>4. QED
    BY <2>2, <2>3
<1>8. moved \in [K -> P] /\ \A x, y \in K : moved[x] = moved[y] => x = y
  BY <1>6, <1>7
<1>10. /\ IsFiniteSet(P) /\ Cardinality(J) \in Nat /\ Cardinality(P) \in Nat
       /\ Cardinality(P) = IF first \in J THEN Cardinality(J) - 1 ELSE Cardinality(J)
  <2> HIDE DEF first
  <2>1. /\ IsFiniteSet(P)
        /\ Cardinality(P) = IF first \in J THEN Cardinality(J) - 1 ELSE Cardinality(J)
    BY <1>9, FS_RemoveElement
  <2>2. QED
    BY <1>9, <2>1, FS_CardinalityType
<1>11. IsFiniteSet(K) /\ Cardinality(K) <= Cardinality(P) /\ Cardinality(K) \in Nat
  <2> HIDE DEF moved, P
  <2>1. moved \in Injection(K, P)
    BY <1>8 DEF Injection, IsInjective
  <2>2. IsFiniteSet(K) /\ Cardinality(K) <= Cardinality(P)
    BY <1>10, <2>1, FS_Injection
  <2>3. QED
    BY <2>2, FS_CardinalityType
<1>12. q[g][1][2] = c => first \in J
  <2>1. 1 \in 1..Len(q[g]) /\ 1 \in Nat
    BY <1>1, <1>2
  <2>2. QED
    BY <1>1, <1>4, <2>1
<1> HIDE DEF first, P, moved
<1>13. Cardinality(K) + (IF q[g][1][2] = c THEN 1 ELSE 0) <= Cardinality(J)
  BY <1>10, <1>11, <1>12
<1>14. QED
  BY <1>11, <1>13 DEF J, K

\* Jobs that are cancelled, and a generation that begins, add none.
LEMMA JobsNone ==
  ASSUME NEW q, Queues(q), NEW g \in 1..Len(q), NEW r, r = [q EXCEPT ![g] = <<>>], NEW c
  PROVE  JobsIn(r, c) \subseteq JobsIn(q, c)
<1> DEFINE s == <<>>
           J == JobsIn(q, c)
           K == JobsIn(r, c)
<1>1. s \in Seq(ToSet(s)) /\ r = [q EXCEPT ![g] = s] /\ Len(s) = 0
  BY DEF ToSet
<1> HIDE DEF s
<1>2. /\ K \subseteq Nat \X Nat /\ J \subseteq Nat \X Nat
      /\ \A i \in Nat : <<g, i>> \in K <=> i \in 1..Len(s) /\ s[i][2] = c
      /\ \A i \in Nat : <<g, i>> \in J <=> i \in 1..Len(q[g]) /\ q[g][i][2] = c
      /\ \A h, i \in Nat : h # g => (<<h, i>> \in K <=> <<h, i>> \in J)
  <2>1. JobsBut(r, q, g, s, c)
    BY <1>1, JobsChange
  <2>2. QED
    BY <2>1 DEF JobsBut
<1> HIDE DEF J, K
<1>3. ASSUME NEW x \in K PROVE x \in J
  <2>1. x = <<x[1], x[2]>> /\ x[1] \in Nat /\ x[2] \in Nat
    BY <1>2
  <2>2. x[1] # g
    BY <1>1, <1>2, <2>1
  <2>3. QED
    BY <1>2, <2>1, <2>2
<1>4. QED
  BY <1>3 DEF J, K

LEMMA JobsNext ==
  ASSUME NEW q, Queues(q), NEW c PROVE JobsIn(Append(q, <<>>), c) \subseteq JobsIn(q, c)
<1> DEFINE r == Append(q, <<>>)
           T == ToSet(q) \cup {<<>>}
<1>1. q \in Seq(T) /\ <<>> \in T /\ Len(q) \in Nat
  BY SeqWider DEF Queues
<1> HIDE DEF T
<1>2. /\ Len(r) = Len(q) + 1 /\ r[Len(q) + 1] = <<>>
      /\ \A h \in 1..Len(q) : r[h] = q[h]
  BY <1>1, AppendProperties
<1> HIDE DEF r
<1>3. ASSUME NEW x \in JobsIn(r, c) PROVE x \in JobsIn(q, c)
  <2>1. /\ x \in Nat \X Nat /\ x[1] \in 1..Len(r) /\ x[2] \in 1..Len(r[x[1]])
        /\ r[x[1]][x[2]][2] = c
    BY DEF JobsIn, WaitingIn
  <2>2. x[1] \in 1..Len(q)
    <3>1. x[1] # Len(q) + 1
      BY <1>2, <2>1
    <3>2. QED
      BY <1>1, <1>2, <2>1, <3>1
  <2>3. r[x[1]] = q[x[1]]
    BY <1>2, <2>2
  <2>4. QED
    BY <2>1, <2>2, <2>3 DEF JobsIn, WaitingIn
<1>4. QED
  BY <1>3 DEF r

\* A thread brings what it brought no more.
LEMMA BringersLess ==
  ASSUME OnceInv, NEW c \in Callers, NEW t, NEW A, A \subseteq Bringers(c) \ {t}
  PROVE  /\ IsFiniteSet(A) /\ Cardinality(A) \in Nat
         /\ Cardinality(A) + (IF t \in Bringers(c) THEN 1 ELSE 0) <= Cardinality(Bringers(c))
<1> DEFINE B == Bringers(c)
           C == B \ {t}
<1>1. IsFiniteSet(B) /\ A \subseteq C
  BY DEF OnceInv
<1> HIDE DEF B
<1>2. /\ IsFiniteSet(C)
      /\ Cardinality(C) = IF t \in B THEN Cardinality(B) - 1 ELSE Cardinality(B)
  BY <1>1, FS_RemoveElement
<1> HIDE DEF C
<1>3. IsFiniteSet(A) /\ Cardinality(A) <= Cardinality(C)
  BY <1>1, <1>2, FS_Subset
<1>4. Cardinality(A) \in Nat /\ Cardinality(B) \in Nat /\ Cardinality(C) \in Nat
  BY <1>1, <1>2, <1>3, FS_CardinalityType
<1>5. Cardinality(A) + (IF t \in B THEN 1 ELSE 0) <= Cardinality(B)
  BY <1>2, <1>3, <1>4
<1>6. QED
  BY <1>3, <1>4, <1>5 DEF B

\* A step of the dispatcher, which neither remembers nor forgets a request: what
\* has been handled, is brought or waits may not become more.
LEMMA SumsOnce ==
  ASSUME OnceInv, UNCHANGED <<forgotten, completed>>, runs' \in [Callers -> Nat],
         \A u \in Threads : AtTopOnly(todo'[u]),
         \A c \in Callers :
           /\ IsFiniteSet(Bringers(c)') /\ IsFiniteSet(JobsIn(queue', c))
           /\ runs'[c] + Cardinality(Bringers(c)') + Cardinality(JobsIn(queue', c))
                <= runs[c] + Cardinality(Bringers(c)) + Cardinality(JobsIn(queue, c))
  PROVE  OnceInv'
<1>1. forgotten' \in [Callers -> Nat]
  BY DEF OnceInv
<1>2. ASSUME NEW c \in Callers
      PROVE  runs'[c] + Cardinality(Bringers(c)') + Cardinality(JobsIn(queue', c)) <= Delivered(c)'
  <2> DEFINE a == runs'[c] + Cardinality(Bringers(c)') + Cardinality(JobsIn(queue', c))
             b == runs[c] + Cardinality(Bringers(c)) + Cardinality(JobsIn(queue, c))
             d == Delivered(c)
  <2>1. a <= b /\ b <= d
    BY DEF OnceInv
  <2>2. a \in Nat
    <3> DEFINE A == Bringers(c)'
               J == JobsIn(queue', c)
    <3>1. IsFiniteSet(A) /\ IsFiniteSet(J)
      OBVIOUS
    <3> HIDE DEF A, J
    <3>2. Cardinality(A) \in Nat /\ Cardinality(J) \in Nat /\ runs'[c] \in Nat
      BY <3>1, FS_CardinalityType
    <3>3. runs'[c] + Cardinality(A) + Cardinality(J) \in Nat
      BY <3>2
    <3>4. QED
      BY <3>3 DEF A, J
  <2>3. b \in Nat
    <3> DEFINE A == Bringers(c)
               J == JobsIn(queue, c)
    <3>1. IsFiniteSet(A) /\ IsFiniteSet(J) /\ runs[c] \in Nat
      BY DEF OnceInv
    <3> HIDE DEF A, J
    <3>2. Cardinality(A) \in Nat /\ Cardinality(J) \in Nat
      BY <3>1, FS_CardinalityType
    <3>3. runs[c] + Cardinality(A) + Cardinality(J) \in Nat
      BY <3>1, <3>2
    <3>4. QED
      BY <3>3 DEF A, J
  <2>4. d \in Nat /\ Delivered(c)' = d
    BY DEF OnceInv, Delivered
  <2> HIDE DEF a, b, d
  <2>5. a <= d
    BY <2>1, <2>2, <2>3, <2>4
  <2>6. QED
    BY <2>4, <2>5 DEF a
<1>3. QED
  BY <1>1, <1>2 DEF OnceInv

\* A request that is handed to the dispatcher is the one of its caller.
LEMMA DispatchOnce ==
  ASSUME OnceInv, AckInv, PlacesInv, NEW t \in Threads, Dispatch(t)
  PROVE  OnceInv'
<1>1. todo[t] # <<>> /\ Head(todo[t])[1] = "handed" /\ Head(todo[t])[2] = Arg(t)
  BY DEF Dispatch, At, Arg
<1>2. UNCHANGED memory
  BY DEF Dispatch, memory, channelVars, dispatcherVars
<1> DEFINE one == <<<<"admit", <<Arg(t), generation>>>>>>
<1>3. AtTopOnly(<<>>) /\ AtTopOnly(one) /\ one # <<>> /\ Head(one) = <<"admit", <<Arg(t), generation>>>>
  BY TopAtTop
<1>4. Arg(t)[1] = "request" => Arg(t) = RequestOf(Arg(t)[2])
  BY <1>1, AtTop DEF Fits, Carriers, Honest
<1>5. CASE Does(t, <<>>)
  BY <1>1, <1>2, <1>5, IdlyList, IdlyOnce
<1>6. CASE NodeOf(t) = Server /\ Arg(t)[1] = "request" /\ Does(t, one)
  <2>1. ASSUME NEW c \in Callers, Brings(t, Head(one), c) PROVE t \in Bringers(c)
    <3>1. Arg(t)[2] = c
      BY <1>3, <2>1 DEF Brings
    <3>2. QED
      BY <1>1, <1>4, <1>6, <3>1 DEF Brings, Bringers
  <2> HIDE DEF one
  <2>2. QED
    BY <1>1, <1>2, <1>3, <1>6, <2>1, DoesOnce
<1>7. QED
  BY <1>5, <1>6 DEF Dispatch

\* An answer brings no request to a handler.
LEMMA RespondIdly == \A kind, packet : Idly(Respond(kind, packet))
<1>1. \A packet : Idly(<<<<"send", packet>>, <<"swallow">>>>)
  BY IdlyList DEF Bringing
<1>2. QED
  BY <1>1, IdlyList DEF Respond

LEMMA AdmitOnce ==
  ASSUME OnceInv, PlacesInv, NEW t \in Threads, Admit(t)
  PROVE  OnceInv'
<1>1. todo[t] # <<>> /\ Head(todo[t])[1] = "admit" /\ Head(todo[t])[2] = Arg(t)
  BY DEF Admit, At, Arg
<1>2. UNCHANGED memory
  BY DEF Admit, memory, channelVars
<1> DEFINE one == <<<<"submit", <<Arg(t)[1], Arg(t)[2]>>>>>>
<1>3. CASE Does(t, one)
  <2>1. AtTopOnly(one) /\ Head(one) = <<"submit", <<Arg(t)[1], Arg(t)[2]>>>>
    BY TopAtTop
  <2>2. ASSUME NEW c \in Callers, Brings(t, Head(one), c) PROVE t \in Bringers(c)
    <3>1. Arg(t)[1][2] = c
      BY <2>1, <2>2 DEF Brings
    <3>2. QED
      BY <1>1, <3>1 DEF Brings, Bringers
  <2> HIDE DEF one
  <2>3. QED
    BY <1>1, <1>2, <1>3, <2>1, <2>2, DoesOnce
<1>4. CASE Does(t, <<>>) \/ Does(t, Respond("error", Arg(t)[1]))
  BY <1>1, <1>2, <1>4, IdlyList, RespondIdly, IdlyOnce
<1>5. QED
  BY <1>3, <1>4 DEF Admit

\* A job waits in the executor instead of being brought there, or is dropped.
LEMMA SubmitOnce ==
  ASSUME OnceInv, PlacesInv, NEW t \in Threads, Submit(t)
  PROVE  OnceInv'
<1> DEFINE g == Arg(t)[2]
           packet == Arg(t)[1]
<1>1. /\ todo[t] # <<>> /\ Head(todo[t])[1] = "submit" /\ Head(todo[t])[2] = Arg(t)
      /\ Does(t, <<>>) /\ runs' = runs /\ UNCHANGED <<forgotten, completed>>
  BY DEF Submit, At, Arg, channelVars
<1>2. g \in 1..Len(queue) /\ Queues(queue)
  BY <1>1, TopAllowed DEF Allowed, Reception, PlacesInv
<1>3. /\ \A u \in Threads : AtTopOnly(todo'[u])
      /\ \A c : Bringers(c)' \subseteq Bringers(c) \ {t}
  BY <1>1, IdlyList, IdlyMoves
<1>4. CASE queue' = queue
  <2>1. UNCHANGED memory
    BY <1>1, <1>4 DEF memory
  <2>2. QED
    BY <1>1, <2>1, IdlyList, IdlyOnce
<1>5. CASE queue' = [queue EXCEPT ![g] = Append(queue[g], packet)]
  <2>1. ASSUME NEW c \in Callers
        PROVE  /\ IsFiniteSet(Bringers(c)') /\ IsFiniteSet(JobsIn(queue', c))
               /\ runs'[c] + Cardinality(Bringers(c)') + Cardinality(JobsIn(queue', c))
                    <= runs[c] + Cardinality(Bringers(c)) + Cardinality(JobsIn(queue, c))
    <3> DEFINE A == Bringers(c)'
               B == Bringers(c)
               J == JobsIn(queue, c)
               K == JobsIn(queue', c)
    <3>1. IsFiniteSet(B) /\ IsFiniteSet(J) /\ runs[c] \in Nat /\ runs'[c] = runs[c]
      BY <1>1 DEF OnceInv
    <3>2. packet[2] = c => t \in B
      BY <1>1 DEF Bringers, Brings
    <3>3. A \subseteq B \ {t}
      BY <1>3
    <3> HIDE DEF A
    <3>4. /\ IsFiniteSet(A) /\ Cardinality(A) \in Nat
          /\ Cardinality(A) + (IF t \in B THEN 1 ELSE 0) <= Cardinality(B)
      BY <3>3, BringersLess
    <3> HIDE DEF g, packet
    <3>5. /\ IsFiniteSet(K)
          /\ Cardinality(K) <= Cardinality(J) + (IF packet[2] = c THEN 1 ELSE 0)
      <4> DEFINE s == Append(queue[g], packet)
      <4>1. queue' = [queue EXCEPT ![g] = s] /\ s = Append(queue[g], packet)
        BY <1>5
      <4> HIDE DEF s
      <4>2. QED
        BY <1>2, <3>1, <4>1, JobsMore
    <3> HIDE DEF B, J, K
    <3>6. Cardinality(B) \in Nat /\ Cardinality(J) \in Nat /\ Cardinality(K) \in Nat
      BY <3>1, <3>5, FS_CardinalityType
    <3>7. runs'[c] + Cardinality(A) + Cardinality(K) <= runs[c] + Cardinality(B) + Cardinality(J)
      BY <3>1, <3>2, <3>4, <3>5, <3>6
    <3>8. QED
      BY <3>4, <3>5, <3>7 DEF A, B, J, K
  <2>2. runs' \in [Callers -> Nat]
    BY <1>1 DEF OnceInv
  <2>3. QED
    BY <1>1, <1>3, <2>1, <2>2, SumsOnce
<1>6. QED
  BY <1>4, <1>5 DEF Submit

\* A worker brings a job to the handler that has been waiting.
LEMMA WorkOnce ==
  ASSUME OnceInv, PlacesInv, NEW t \in Workers, Work(t)
  PROVE  OnceInv'
<1>1. /\ t \in Threads /\ todo[t] = <<>> /\ runs' = runs /\ UNCHANGED <<forgotten, completed>>
  BY DispatcherAssumption DEF Work, Idle, channelVars
<1>2. PICK g \in DOMAIN queue :
        /\ queue[g] # <<>>
        /\ todo' = [todo EXCEPT ![t] = <<<<"handle", Head(queue[g])>>, <<"free">>>>]
        /\ queue' = [queue EXCEPT ![g] = Tail(@)]
  BY DEF Work
<1> DEFINE stack == <<<<"handle", Head(queue[g])>>, <<"free">>>>
           s == Tail(queue[g])
<1>3. Queues(queue) /\ g \in 1..Len(queue)
  BY DEF PlacesInv, Queues
<1>4. /\ s \in Seq(ToSet(s)) /\ Len(queue[g]) = Len(s) + 1 /\ Head(queue[g]) = queue[g][1]
      /\ \A i \in 1..Len(s) : s[i] = queue[g][i + 1]
  <2>1. queue[g] \in Seq(ToSet(queue[g]))
    BY <1>3 DEF Queues
  <2>2. /\ s \in Seq(ToSet(queue[g])) /\ Len(queue[g]) = Len(s) + 1 /\ Head(queue[g]) = queue[g][1]
        /\ \A i \in 1..Len(s) : s[i] = queue[g][i + 1]
    BY <1>2, <2>1
  <2>3. QED
    BY <2>2, SeqOfItself
<1>5. AtTopOnly(stack) /\ stack # <<>> /\ Head(stack) = <<"handle", queue[g][1]>>
  <2>1. <<"free">>[1] \notin Bringing
    BY DEF Bringing
  <2>2. QED
    BY <1>4, <2>1, TopAtTop
<1>6. todo' = [todo EXCEPT ![t] = stack] /\ queue' = [queue EXCEPT ![g] = s]
  BY <1>2
<1> HIDE DEF stack, s
<1>7. todo'[t] = stack /\ \A u \in Threads \ {t} : todo'[u] = todo[u]
  BY <1>1, <1>6 DEF PlacesInv
<1>8. \A u \in Threads : AtTopOnly(todo'[u])
  BY <1>5, <1>7 DEF OnceInv
<1>9. ASSUME NEW c \in Callers
      PROVE  /\ IsFiniteSet(Bringers(c)') /\ IsFiniteSet(JobsIn(queue', c))
             /\ runs'[c] + Cardinality(Bringers(c)') + Cardinality(JobsIn(queue', c))
                  <= runs[c] + Cardinality(Bringers(c)) + Cardinality(JobsIn(queue, c))
  <2> DEFINE A == Bringers(c)'
             B == Bringers(c)
             C == B \cup {t}
             J == JobsIn(queue, c)
             K == JobsIn(queue', c)
  <2>1. IsFiniteSet(B) /\ IsFiniteSet(J) /\ runs[c] \in Nat /\ runs'[c] = runs[c]
    BY <1>1 DEF OnceInv
  <2>2. A \subseteq C /\ (queue[g][1][2] # c => A \subseteq B)
    <3>1. \A u \in A : u # t => u \in B
      BY <1>7 DEF Bringers
    <3>2. t \in A => Brings(t, <<"handle", queue[g][1]>>, c)
      BY <1>5, <1>7 DEF Bringers
    <3>3. t \in A => queue[g][1][2] = c
      BY <3>2 DEF Brings
    <3>4. QED
      BY <3>1, <3>3
  <2>3. /\ IsFiniteSet(K)
        /\ Cardinality(K) + (IF queue[g][1][2] = c THEN 1 ELSE 0) <= Cardinality(J)
    BY <1>3, <1>4, <1>6, <2>1, JobsLess
  <2> HIDE DEF A, B, J, K
  <2>4. IsFiniteSet(C) /\ Cardinality(C) \in Nat /\ Cardinality(C) <= Cardinality(B) + 1
    BY <2>1, OneMore
  <2> HIDE DEF C
  <2>5. IsFiniteSet(A) /\ Cardinality(A) <= Cardinality(C)
    BY <2>2, <2>4, FS_Subset
  <2>6. queue[g][1][2] # c => Cardinality(A) <= Cardinality(B)
    BY <2>1, <2>2, FS_Subset
  <2>7. /\ Cardinality(A) \in Nat /\ Cardinality(B) \in Nat
        /\ Cardinality(J) \in Nat /\ Cardinality(K) \in Nat
    BY <2>1, <2>3, <2>5, FS_CardinalityType
  <2>8. runs'[c] + Cardinality(A) + Cardinality(K) <= runs[c] + Cardinality(B) + Cardinality(J)
    <3>1. CASE queue[g][1][2] = c
      BY <2>1, <2>3, <2>4, <2>5, <2>7, <3>1
    <3>2. CASE queue[g][1][2] # c
      BY <2>1, <2>3, <2>6, <2>7, <3>2
    <3>3. QED
      BY <3>1, <3>2
  <2>9. QED
    BY <2>3, <2>5, <2>8 DEF A, B, J, K
<1>10. runs' \in [Callers -> Nat]
  BY <1>1 DEF OnceInv
<1>11. QED
  BY <1>1, <1>8, <1>9, <1>10, SumsOnce

\* A request that has been brought to its handler is handled.
LEMMA HandleOnce ==
  ASSUME OnceInv, PlacesInv, NEW t \in Threads, Handle(t)
  PROVE  OnceInv'
<1>1. /\ todo[t] # <<>> /\ Head(todo[t])[1] = "handle" /\ Head(todo[t])[2] = Arg(t)
      /\ queue' = queue /\ UNCHANGED <<forgotten, completed>>
  BY DEF Handle, At, Arg, channelVars
<1>2. PICK frames : Does(t, frames) /\ Idly(frames)
  <2>1. \A packet : /\ Idly(<<<<"user">>, <<"swallow">>, <<"answer", <<"ack", packet>>>>>>)
                    /\ Idly(<<<<"answer", <<"error", packet>>>>>>)
    BY IdlyList DEF Bringing
  <2>2. QED
    BY <2>1 DEF Handle
<1>3. /\ \A u \in Threads : AtTopOnly(todo'[u])
      /\ \A c : Bringers(c)' \subseteq Bringers(c) \ {t}
  BY <1>1, <1>2, IdlyMoves
<1>4. /\ runs' \in [Callers -> Nat]
      /\ \A c \in Callers : \/ runs'[c] = runs[c]
                            \/ runs'[c] = runs[c] + 1 /\ c = Arg(t)[2]
  <2>1. runs \in [Callers -> Nat]
    BY DEF OnceInv
  <2>2. CASE runs' = runs
    BY <2>1, <2>2
  <2>3. CASE runs' = [runs EXCEPT ![Arg(t)[2]] = @ + 1]
    <3> DEFINE d == Arg(t)[2]
    <3>1. runs' = [runs EXCEPT ![d] = runs[d] + 1]
      BY <2>3
    <3> HIDE DEF d
    <3>2. \A c \in Callers : runs'[c] = IF c = d THEN runs[c] + 1 ELSE runs[c]
      BY <2>1, <3>1
    <3>3. runs' \in [Callers -> Nat]
      <4>1. DOMAIN runs' = Callers /\ runs' = [c \in Callers |-> runs'[c]]
        BY <2>1, <3>1
      <4>2. \A c \in Callers : runs'[c] \in Nat
        BY <2>1, <3>2
      <4>3. QED
        BY <4>1, <4>2
    <3>4. QED
      BY <3>2, <3>3 DEF d
  <2>4. QED
    BY <2>2, <2>3 DEF Handle
<1>5. ASSUME NEW c \in Callers
      PROVE  /\ IsFiniteSet(Bringers(c)') /\ IsFiniteSet(JobsIn(queue', c))
             /\ runs'[c] + Cardinality(Bringers(c)') + Cardinality(JobsIn(queue', c))
                  <= runs[c] + Cardinality(Bringers(c)) + Cardinality(JobsIn(queue, c))
  <2> DEFINE A == Bringers(c)'
             B == Bringers(c)
             J == JobsIn(queue, c)
  <2>1. /\ IsFiniteSet(B) /\ IsFiniteSet(J) /\ runs[c] \in Nat /\ runs'[c] \in Nat
        /\ JobsIn(queue', c) = J
    BY <1>1, <1>4 DEF OnceInv
  <2>2. c = Arg(t)[2] => t \in B
    BY <1>1 DEF Bringers, Brings
  <2>3. A \subseteq B \ {t}
    BY <1>3
  <2> HIDE DEF A
  <2>4. /\ IsFiniteSet(A) /\ Cardinality(A) \in Nat
        /\ Cardinality(A) + (IF t \in B THEN 1 ELSE 0) <= Cardinality(B)
    BY <2>3, BringersLess
  <2> HIDE DEF B, J
  <2>5. Cardinality(B) \in Nat /\ Cardinality(J) \in Nat
    BY <2>1, FS_CardinalityType
  <2>6. runs'[c] + Cardinality(A) + Cardinality(J) <= runs[c] + Cardinality(B) + Cardinality(J)
    <3>1. CASE runs'[c] = runs[c]
      BY <2>1, <2>4, <2>5, <3>1
    <3>2. CASE runs'[c] = runs[c] + 1 /\ c = Arg(t)[2]
      BY <2>1, <2>2, <2>4, <2>5, <3>2
    <3>3. QED
      BY <1>4, <3>1, <3>2
  <2>7. QED
    BY <2>1, <2>4, <2>6 DEF A, B, J
<1>6. QED
  BY <1>1, <1>3, <1>4, <1>5, SumsOnce

\* Starting and stopping only drops jobs.
LEMMA QueueOnce ==
  ASSUME OnceInv, PlacesInv, NEW t \in Threads, todo[t] # <<>>, NEW frames, Idly(frames),
         Does(t, frames), runs' = runs, UNCHANGED <<forgotten, completed>>,
         \A c \in Callers : JobsIn(queue', c) \subseteq JobsIn(queue, c)
  PROVE  OnceInv'
<1>1. /\ \A u \in Threads : AtTopOnly(todo'[u])
      /\ \A c : Bringers(c)' \subseteq Bringers(c) \ {t}
  BY IdlyMoves
<1>2. QED
  BY <1>1, MemoryKept, OnceKept

LEMMA DispatcherOnce ==
  ASSUME OnceInv, AckInv, PlacesInv, DispatcherNext
  PROVE  OnceInv'
<1>1. ASSUME NEW t \in Threads, AnswerRequest(t) \/ Free(t) \/ Serve(t) \/ Drain(t) PROVE OnceInv'
  <2>1. todo[t] # <<>> /\ UNCHANGED memory
    BY <1>1 DEF AnswerRequest, Free, Serve, Drain, At, memory, channelVars, dispatcherVars
  <2>2. PICK frames : Does(t, frames) /\ Idly(frames)
    BY <1>1, IdlyList, RespondIdly DEF AnswerRequest, Free, Serve, Drain
  <2>3. QED
    BY <2>1, <2>2, IdlyOnce
<1>2. \A g : Idly(<<<<"shutdown", g>>>>) /\ Idly(<<<<"drain", g>>>>)
  BY IdlyName DEF Bringing
<1>3. NextGeneration => \A c \in Callers : JobsIn(queue', c) \subseteq JobsIn(queue, c)
  BY JobsNext DEF NextGeneration, PlacesInv
<1>4. ASSUME NEW t \in Threads, DispatcherStart(t) \/ DispatcherStop(t) PROVE OnceInv'
  <2>1. /\ todo[t] # <<>> /\ runs' = runs /\ UNCHANGED <<forgotten, completed>>
        /\ queue' = queue \/ NextGeneration
    BY <1>4 DEF DispatcherStart, DispatcherStop, At, channelVars
  <2>2. PICK frames : Does(t, frames) /\ Idly(frames)
    BY <1>2, <1>4, IdlyList DEF DispatcherStart, DispatcherStop
  <2>3. \A c \in Callers : JobsIn(queue', c) \subseteq JobsIn(queue, c)
    BY <1>3, <2>1
  <2>4. QED
    BY <2>1, <2>2, <2>3, QueueOnce
<1>5. ASSUME NEW t \in Threads, Shutdown(t) PROVE OnceInv'
  <2> DEFINE g == Arg(t)
  <2>1. /\ todo[t] # <<>> /\ Head(todo[t])[1] = "shutdown" /\ Head(todo[t])[2] = g
        /\ runs' = runs /\ UNCHANGED <<forgotten, completed>>
        /\ queue' = [queue EXCEPT ![g] = <<>>]
    BY <1>5 DEF Shutdown, At, Arg, channelVars
  <2>2. PICK frames : Does(t, frames) /\ Idly(frames)
    BY <1>2, <1>5, IdlyList DEF Shutdown
  <2>3. g \in 1..Len(queue) /\ Queues(queue)
    BY <2>1, TopAllowed DEF Allowed, PlacesInv
  <2> HIDE DEF g
  <2>4. \A c \in Callers : JobsIn(queue', c) \subseteq JobsIn(queue, c)
    BY <2>1, <2>3, JobsNone
  <2>5. QED
    BY <2>1, <2>2, <2>4, QueueOnce
<1>6. QED
  BY <1>1, <1>4, <1>5, DispatchOnce, AdmitOnce, SubmitOnce, WorkOnce, HandleOnce DEF DispatcherNext

LEMMA OnceStep ==
  ASSUME OnceInv, AckInv, PlacesInv, BytesInv, [Next]_vars PROVE OnceInv'
<1>1. CASE ChannelNext /\ UNCHANGED <<peerVars, dispatcherVars, calls>>
  BY <1>1, ChannelOnce
<1>2. ASSUME UNCHANGED <<todo, memory>> PROVE OnceInv'
  BY <1>2, StacksOnce
<1>3. CASE PeerNext /\ UNCHANGED <<dispatcherVars, calls>>
  <2>1. ASSUME NEW n \in Nodes, Toggle(n) PROVE OnceInv'
    BY <1>2, <1>3, <2>1 DEF Toggle, dispatcherVars, channelVars, memory
  <2>2. QED
    BY <1>3, <2>1, PeerOnce, WatchOnce DEF PeerNext
<1>4. CASE DispatcherNext /\ UNCHANGED calls
  BY <1>4, DispatcherOnce
<1>5. CASE \E t \in Threads : Call(t) \/ Leave(t) \/ Published(t)
  BY <1>5, CallsOnce DEF Call, Leave, Published
<1>6. CASE \E t \in Threads : Unwind(t) /\ UNCHANGED <<channelVars, peerVars, dispatcherVars, calls>>
  BY <1>6, CallsOnce
<1>7. CASE UNCHANGED vars
  BY <1>2, <1>7 DEF vars, dispatcherVars, channelVars, memory
<1>8. QED
  BY <1>1, <1>3, <1>4, <1>5, <1>6, <1>7 DEF Next, Terminating

LEMMA OnceBegin == ASSUME Init PROVE OnceInv
<1>1. /\ runs = [c \in Callers |-> 0] /\ forgotten = [c \in Callers |-> 0]
      /\ todo = [t \in Threads |-> IF \E n \in Nodes : t = Monitor(n) THEN <<<<"asleep">>>> ELSE <<>>]
  BY DEF Init, ChannelInit, DispatcherInit
<1>2. AtTopOnly(<<<<"asleep">>>>) /\ AtTopOnly(<<>>)
  BY TopAtTop
<1>3. \A t \in Threads : AtTopOnly(todo[t]) /\ (todo[t] # <<>> => Head(todo[t])[1] = "asleep")
  BY <1>1, <1>2
<1>4. \A c : JobsIn(queue, c) = {}
  <2>1. queue = <<<<>>>>
    BY DEF Init, DispatcherInit
  <2>2. Len(queue) = 1 /\ Len(queue[1]) = 0
    BY <2>1
  <2>3. WaitingIn(queue) = {}
    BY <2>2 DEF WaitingIn
  <2>4. QED
    BY <2>3 DEF JobsIn
<1>5. \A c \in Callers : Bringers(c) = {}
  BY <1>3, BringsName DEF Bringers, Bringing
<1>6. IsFiniteSet({}) /\ Cardinality({}) = 0
  BY FS_EmptySet
<1>7. \A c \in Callers : runs[c] = 0 /\ Delivered(c) \in Nat
  BY <1>1 DEF Delivered
<1>8. \A c \in Callers :
        /\ IsFiniteSet(Bringers(c)) /\ IsFiniteSet(JobsIn(queue, c))
        /\ runs[c] + Cardinality(Bringers(c)) + Cardinality(JobsIn(queue, c)) <= Delivered(c)
  <2>1. \A d \in Nat : 0 + 0 + 0 <= d
    OBVIOUS
  <2>2. QED
    BY <1>4, <1>5, <1>6, <1>7, <2>1
<1>9. runs \in [Callers -> Nat] /\ forgotten \in [Callers -> Nat]
  BY <1>1
<1>10. QED
  BY <1>3, <1>8, <1>9 DEF OnceInv

LEMMA OnceFollow == ASSUME OnceInv PROVE HandledOnce
<1>1. ASSUME NEW c \in Callers PROVE runs[c] <= 1 + forgotten[c]
  <2> DEFINE B == Cardinality(Bringers(c))
             J == Cardinality(JobsIn(queue, c))
             d == Delivered(c)
  <2>1. B \in Nat /\ J \in Nat /\ runs[c] + B + J <= d
    BY FS_CardinalityType DEF OnceInv
  <2>2. runs[c] \in Nat /\ forgotten[c] \in Nat /\ d \in Nat /\ d <= 1 + forgotten[c]
    BY DEF OnceInv, Delivered
  <2> HIDE DEF B, J, d
  <2>3. QED
    BY <2>1, <2>2
<1>2. QED
  BY <1>1 DEF HandledOnce

\* A handler runs once for a request as long as the assembler remembers it, for
\* any number of threads, however often its fragments arrive, are repeated or are
\* lost, and whatever is stopped and started on the way to the handler
\* (application.py:292-294, 326-328, dispatch.py:205-256).
THEOREM RequestsAreHandledOnce == Spec => []HandledOnce
<1>1. Init => OnceInv /\ AckInv /\ PlacesInv /\ BytesInv
  BY OnceBegin, AckBegin, PlacesBegin, BytesBegin
<1>2. OnceInv /\ AckInv /\ PlacesInv /\ BytesInv /\ [Next]_vars
        => (OnceInv /\ AckInv /\ PlacesInv /\ BytesInv)'
  BY OnceStep, AckStep, PlacesStep, BytesStep
<1>3. OnceInv => HandledOnce
  BY OnceFollow
<1>4. QED
  BY <1>1, <1>2, <1>3, PTL DEF Spec

-------------------------------------------------------------------------------
\* Who waits for an answer.

\* The frames of a request that wait for its answer or will, those of sending a
\* packet, and those that are no part of a request.
Asking == {"register", "wait", "settled"}
Sending == {"send", "transmit", "sent", "refresh", "set", "fail", "raise"}
Rounds == Sending \cup {"monitor", "swallow", "expire", "asleep"}
Unasked == Rounds \cup {
  "published", "on_packet", "handed", "admit", "submit", "handle", "user", "answer", "free",
  "peer_start", "listen", "watch", "peer_stop", "halt", "unlisten", "clear", "join",
  "serve", "unserve", "dispatcher_start", "dispatcher_stop", "shutdown", "drain"}

Monitors == {Monitor(n) : n \in Nodes}

MadeOf(frames, names) ==
  frames \in Seq(ToSet(frames)) /\ \A f \in ToSet(frames) : f[1] \in names

Has(frames, name) == \E f \in ToSet(frames) : f[1] = name

\* What may be above what: until a request has ended its thread only sends it
\* and waits.
Over(f, g) == g[1] \in Asking => f[1] \in Sending \/ (f[1] = "wait" /\ g[1] = "settled")
Ordered(stack) ==
  /\ stack \in Seq(ToSet(stack))
  /\ \A i, j \in 1..Len(stack) : i < j => Over(stack[i], stack[j])

\* The owner of this stack is about to wake c with an error.
Halts(stack, c) == stack # <<>> /\ Head(stack)[1] = "halt" /\ c \in Head(stack)[2]

Answerable(c) == c \in pending /\ NodeOf(c) \in up

\* The inductive invariant: who is pending will take itself out, and who waits is
\* pending with a peer that runs, or will be woken by the stop() of that peer.
WaitInv ==
  /\ \A t \in Threads : Ordered(todo[t]) /\ (t \in Monitors => MadeOf(todo[t], Rounds))
  /\ \A call \in calls : call[1] \in Monitors => call[2] = "round"
  /\ \A c \in pending : c \in Threads /\ Has(todo[c], "settled")
  /\ \A c \in Callers : Has(todo[c], "wait") /\ c \notin event =>
       Answerable(c) \/ \E t \in Threads : Halts(todo[t], c)

LEMMA MadeFrom ==
  ASSUME NEW S, NEW frames \in Seq(S), NEW names, \A f \in S : f[1] \in names
  PROVE  MadeOf(frames, names)
<1>1. ToSet(frames) \subseteq S
  BY ElementOfSeq DEF ToSet
<1>2. QED
  BY <1>1, SeqOfItself DEF MadeOf

LEMMA MadeList ==
  ASSUME NEW names
  PROVE  /\ MadeOf(<<>>, names)
         /\ \A a : a[1] \in names => MadeOf(<<a>>, names)
         /\ \A a, b : a[1] \in names /\ b[1] \in names => MadeOf(<<a, b>>, names)
         /\ \A a, b, c : a[1] \in names /\ b[1] \in names /\ c[1] \in names
              => MadeOf(<<a, b, c>>, names)
         /\ \A a, b, c, d : /\ a[1] \in names /\ b[1] \in names
                            /\ c[1] \in names /\ d[1] \in names
              => MadeOf(<<a, b, c, d>>, names)
<1>1. MadeOf(<<>>, names)
  <2> DEFINE S == {}
  <2>1. <<>> \in Seq(S) /\ \A f \in S : f[1] \in names
    OBVIOUS
  <2> HIDE DEF S
  <2>2. QED
    BY <2>1, MadeFrom
<1>2. ASSUME NEW a, a[1] \in names PROVE MadeOf(<<a>>, names)
  <2> DEFINE S == {a}
  <2>1. <<a>> \in Seq(S) /\ \A f \in S : f[1] \in names
    BY <1>2
  <2> HIDE DEF S
  <2>2. QED
    BY <2>1, MadeFrom
<1>3. ASSUME NEW a, NEW b, a[1] \in names, b[1] \in names PROVE MadeOf(<<a, b>>, names)
  <2> DEFINE S == {a, b}
  <2>1. <<a, b>> \in Seq(S) /\ \A f \in S : f[1] \in names
    BY <1>3
  <2> HIDE DEF S
  <2>2. QED
    BY <2>1, MadeFrom
<1>4. ASSUME NEW a, NEW b, NEW c, a[1] \in names, b[1] \in names, c[1] \in names
      PROVE  MadeOf(<<a, b, c>>, names)
  <2> DEFINE S == {a, b, c}
  <2>1. <<a, b, c>> \in Seq(S) /\ \A f \in S : f[1] \in names
    BY <1>4
  <2> HIDE DEF S
  <2>2. QED
    BY <2>1, MadeFrom
<1>5. ASSUME NEW a, NEW b, NEW c, NEW d,
             a[1] \in names, b[1] \in names, c[1] \in names, d[1] \in names
      PROVE  MadeOf(<<a, b, c, d>>, names)
  <2> DEFINE S == {a, b, c, d}
  <2>1. <<a, b, c, d>> \in Seq(S) /\ \A f \in S : f[1] \in names
    BY <1>5
  <2> HIDE DEF S
  <2>2. QED
    BY <2>1, MadeFrom
<1>6. QED
  BY <1>1, <1>2, <1>3, <1>4, <1>5

LEMMA MadeConcat ==
  ASSUME NEW names, NEW a, NEW b, MadeOf(a, names), MadeOf(b, names)
  PROVE  MadeOf(a \o b, names)
<1> DEFINE S == ToSet(a) \cup ToSet(b)
<1>1. a \in Seq(S) /\ b \in Seq(S)
  BY SeqWider DEF MadeOf
<1>2. a \o b \in Seq(S)
  BY <1>1, ConcatProperties
<1>3. \A f \in S : f[1] \in names
  BY DEF MadeOf
<1> HIDE DEF S
<1>4. QED
  BY <1>2, <1>3, MadeFrom

\* What is on a stack that is put together.
LEMMA ConcatFrames ==
  ASSUME NEW a, NEW b, a \in Seq(ToSet(a)), b \in Seq(ToSet(b))
  PROVE  /\ a \o b \in Seq(ToSet(a \o b)) /\ Len(a \o b) = Len(a) + Len(b)
         /\ ToSet(a \o b) = ToSet(a) \cup ToSet(b)
         /\ \A i \in 1..(Len(a) + Len(b)) :
              (a \o b)[i] = IF i <= Len(a) THEN a[i] ELSE b[i - Len(a)]
<1> DEFINE S == ToSet(a) \cup ToSet(b)
           s == a \o b
<1>1. a \in Seq(S) /\ b \in Seq(S) /\ Len(a) \in Nat /\ Len(b) \in Nat
  BY SeqWider
<1>2. /\ s \in Seq(S) /\ Len(s) = Len(a) + Len(b)
      /\ \A i \in 1..(Len(a) + Len(b)) : s[i] = IF i <= Len(a) THEN a[i] ELSE b[i - Len(a)]
  BY <1>1, ConcatProperties
<1>3. ToSet(s) \subseteq S
  BY <1>2, ElementOfSeq DEF ToSet
<1>4. ToSet(a) \subseteq ToSet(s)
  <2> HIDE DEF s
  <2>1. \A i \in 1..Len(a) : i \in 1..Len(s) /\ s[i] = a[i]
    BY <1>1, <1>2
  <2>2. DOMAIN a = 1..Len(a) /\ DOMAIN s = 1..Len(s)
    BY <1>1, <1>2
  <2>3. QED
    BY <2>1, <2>2 DEF ToSet
<1>5. ToSet(b) \subseteq ToSet(s)
  <2> HIDE DEF s
  <2>1. ASSUME NEW i \in 1..Len(b) PROVE i + Len(a) \in 1..Len(s) /\ s[i + Len(a)] = b[i]
    <3>1. i + Len(a) \in 1..(Len(a) + Len(b)) /\ ~(i + Len(a) <= Len(a)) /\ i + Len(a) - Len(a) = i
      BY <1>1
    <3>2. QED
      BY <1>2, <3>1
  <2>2. DOMAIN b = 1..Len(b) /\ DOMAIN s = 1..Len(s)
    BY <1>1, <1>2
  <2>3. QED
    BY <2>1, <2>2 DEF ToSet
<1>6. s \in Seq(ToSet(s))
  BY <1>2, SeqOfItself
<1>7. QED
  BY <1>2, <1>3, <1>4, <1>5, <1>6

\* The end of a stack.
LEMMA EndFrames ==
  ASSUME NEW stack, stack \in Seq(ToSet(stack)), NEW k \in 1..(Len(stack) + 1)
  PROVE  /\ SubSeq(stack, k, Len(stack)) \in Seq(ToSet(SubSeq(stack, k, Len(stack))))
         /\ Len(SubSeq(stack, k, Len(stack))) = Len(stack) + 1 - k
         /\ \A i \in 1..(Len(stack) + 1 - k) :
              SubSeq(stack, k, Len(stack))[i] = stack[i + k - 1]
         /\ ToSet(SubSeq(stack, k, Len(stack))) \subseteq ToSet(stack)
         /\ \A i \in k..Len(stack) : stack[i] \in ToSet(SubSeq(stack, k, Len(stack)))
<1> DEFINE rest == SubSeq(stack, k, Len(stack))
<1>1. Len(stack) \in Nat /\ k \in Nat /\ k >= 1
  OBVIOUS
<1>2. /\ Len(rest) = Len(stack) + 1 - k
      /\ \A i \in 1..Len(rest) : rest[i] = stack[i + k - 1]
  <2>1. \A i \in k..Len(stack) : stack[i] \in ToSet(stack)
    BY <1>1 DEF ToSet
  <2>2. /\ Len(rest) = IF k <= Len(stack) THEN Len(stack) - k + 1 ELSE 0
        /\ \A i \in 1..Len(rest) : rest[i] = stack[k + i - 1]
    BY <1>1, <2>1, SubSeqProperties
  <2>3. QED
    BY <1>1, <2>2
<1>3. rest \in Seq(ToSet(rest)) /\ ToSet(rest) \subseteq ToSet(stack)
  BY EndOfSeq
<1> HIDE DEF rest
<1>4. ASSUME NEW i \in k..Len(stack) PROVE stack[i] \in ToSet(rest)
  <2>1. i - k + 1 \in 1..Len(rest) /\ (i - k + 1) + k - 1 = i
    BY <1>1, <1>2
  <2>2. rest[i - k + 1] = stack[i] /\ DOMAIN rest = 1..Len(rest)
    BY <1>2, <1>3, <2>1
  <2>3. QED
    BY <2>1, <2>2 DEF ToSet
<1>5. QED
  BY <1>2, <1>3, <1>4 DEF rest

LEMMA OrderedEnd ==
  ASSUME NEW stack, Ordered(stack), NEW k \in 1..(Len(stack) + 1)
  PROVE  Ordered(SubSeq(stack, k, Len(stack)))
<1> DEFINE rest == SubSeq(stack, k, Len(stack))
<1>1. stack \in Seq(ToSet(stack)) /\ Len(stack) \in Nat /\ k \in Nat
  BY DEF Ordered
<1>2. /\ rest \in Seq(ToSet(rest)) /\ Len(rest) = Len(stack) + 1 - k
      /\ \A i \in 1..(Len(stack) + 1 - k) : rest[i] = stack[i + k - 1]
  BY <1>1, EndFrames
<1> HIDE DEF rest
<1>3. ASSUME NEW i \in 1..Len(rest), NEW j \in 1..Len(rest), i < j PROVE Over(rest[i], rest[j])
  <2>1. /\ i + k - 1 \in 1..Len(stack) /\ j + k - 1 \in 1..Len(stack) /\ i + k - 1 < j + k - 1
        /\ i \in 1..(Len(stack) + 1 - k) /\ j \in 1..(Len(stack) + 1 - k)
    BY <1>1, <1>2, <1>3
  <2>2. rest[i] = stack[i + k - 1] /\ rest[j] = stack[j + k - 1]
    BY <1>2, <2>1
  <2>3. Over(stack[i + k - 1], stack[j + k - 1])
    BY <2>1 DEF Ordered
  <2>4. QED
    BY <2>2, <2>3
<1>4. QED
  BY <1>2, <1>3 DEF Ordered, rest

LEMMA OrderedConcat ==
  ASSUME NEW a, NEW b, Ordered(a), Ordered(b),
         \A f \in ToSet(a), g \in ToSet(b) : Over(f, g)
  PROVE  Ordered(a \o b)
<1> DEFINE s == a \o b
<1>1. a \in Seq(ToSet(a)) /\ b \in Seq(ToSet(b)) /\ Len(a) \in Nat /\ Len(b) \in Nat
  BY DEF Ordered
<1>2. /\ s \in Seq(ToSet(s)) /\ Len(s) = Len(a) + Len(b)
      /\ \A i \in 1..(Len(a) + Len(b)) : s[i] = IF i <= Len(a) THEN a[i] ELSE b[i - Len(a)]
  BY <1>1, ConcatFrames
<1> HIDE DEF s
<1>3. ASSUME NEW i \in 1..Len(s), NEW j \in 1..Len(s), i < j PROVE Over(s[i], s[j])
  <2>1. CASE j <= Len(a)
    <3>1. i \in 1..Len(a) /\ j \in 1..Len(a) /\ s[i] = a[i] /\ s[j] = a[j]
      BY <1>1, <1>2, <1>3, <2>1
    <3>2. QED
      BY <1>3, <3>1 DEF Ordered
  <2>2. CASE ~(i <= Len(a))
    <3>1. /\ i - Len(a) \in 1..Len(b) /\ j - Len(a) \in 1..Len(b) /\ i - Len(a) < j - Len(a)
          /\ s[i] = b[i - Len(a)] /\ s[j] = b[j - Len(a)]
      BY <1>1, <1>2, <1>3, <2>2
    <3>2. Over(b[i - Len(a)], b[j - Len(a)])
      BY <3>1 DEF Ordered
    <3>3. QED
      BY <3>1, <3>2
  <2>3. CASE i <= Len(a) /\ ~(j <= Len(a))
    <3>1. /\ i \in 1..Len(a) /\ j - Len(a) \in 1..Len(b)
          /\ s[i] = a[i] /\ s[j] = b[j - Len(a)]
      BY <1>1, <1>2, <1>3, <2>3
    <3>2. a[i] \in ToSet(a) /\ b[j - Len(a)] \in ToSet(b)
      BY <1>1, <3>1 DEF ToSet
    <3>3. QED
      BY <3>1, <3>2
  <2>4. QED
    BY <2>1, <2>2, <2>3
<1>4. QED
  BY <1>2, <1>3 DEF Ordered, s

\* Nothing in these is part of a request.
LEMMA UnaskedOrdered ==
  ASSUME NEW frames, MadeOf(frames, Unasked) PROVE Ordered(frames)
<1>1. \A i \in 1..Len(frames) : frames[i] \in ToSet(frames)
  BY DEF MadeOf, ToSet
<1>2. \A f \in ToSet(frames) : f[1] \notin Asking
  BY DEF MadeOf, Unasked, Rounds, Sending, Asking
<1>3. QED
  BY <1>1, <1>2 DEF MadeOf, Ordered, Over

LEMMA SendingUnasked ==
  ASSUME NEW frames
  PROVE  /\ MadeOf(frames, Sending) => MadeOf(frames, Rounds)
         /\ MadeOf(frames, Rounds) => MadeOf(frames, Unasked)
  BY DEF MadeOf, Unasked, Rounds

\* A request at the top of a stack.
LEMMA RequestOrdered ==
  /\ Ordered(<<<<"register">>>>)
  /\ \A packet : Ordered(<<<<"send", packet>>, <<"wait">>, <<"settled", FALSE>>>>)
<1> SUFFICES ASSUME NEW packet
             PROVE  /\ Ordered(<<<<"register">>>>)
                    /\ Ordered(<<<<"send", packet>>, <<"wait">>, <<"settled", FALSE>>>>)
  OBVIOUS
<1> DEFINE a == <<"send", packet>>
           b == <<"wait">>
           c == <<"settled", FALSE>>
           one == <<<<"register">>>>
           s == <<a, b, c>>
<1>1. one \in Seq({<<"register">>}) /\ Len(one) = 1
  OBVIOUS
<1>2. Over(a, b) /\ Over(a, c) /\ Over(b, c)
  BY DEF Over, Sending, Asking
<1> HIDE DEF a, b, c
<1>3. s \in Seq({a, b, c}) /\ Len(s) = 3 /\ s[1] = a /\ s[2] = b /\ s[3] = c
  OBVIOUS
<1> HIDE DEF one, s
<1>4. one \in Seq(ToSet(one)) /\ s \in Seq(ToSet(s))
  BY <1>1, <1>3, SeqOfItself
<1>5. \A i, j \in 1..Len(one) : ~(i < j)
  BY <1>1
<1>6. \A i, j \in 1..Len(s) : i < j => (i = 1 /\ j = 2) \/ (i = 1 /\ j = 3) \/ (i = 2 /\ j = 3)
  BY <1>3
<1>7. Ordered(one) /\ Ordered(s)
  BY <1>2, <1>3, <1>4, <1>5, <1>6 DEF Ordered
<1>8. QED
  BY <1>7 DEF one, s, a, b, c

\* What is below the top of a stack.
LEMMA TailFrames ==
  ASSUME NEW stack, Ordered(stack), stack # <<>>
  PROVE  /\ Ordered(Tail(stack)) /\ ToSet(stack) = {Head(stack)} \cup ToSet(Tail(stack))
         /\ \A g \in ToSet(Tail(stack)) : Over(Head(stack), g)
<1> DEFINE rest == SubSeq(stack, 2, Len(stack))
<1>1. /\ stack \in Seq(ToSet(stack)) /\ Len(stack) \in Nat /\ Len(stack) >= 1
      /\ Head(stack) = stack[1] /\ Tail(stack) = rest /\ DOMAIN stack = 1..Len(stack)
  BY DEF Ordered
<1>2. 2 \in 1..(Len(stack) + 1)
  BY <1>1
<1>3. Ordered(rest)
  BY <1>2, OrderedEnd
<1>4. /\ Len(rest) = Len(stack) + 1 - 2 /\ rest \in Seq(ToSet(rest))
      /\ \A i \in 1..(Len(stack) + 1 - 2) : rest[i] = stack[i + 2 - 1]
      /\ ToSet(rest) \subseteq ToSet(stack)
      /\ \A i \in 2..Len(stack) : stack[i] \in ToSet(rest)
  BY <1>1, <1>2, EndFrames
<1> HIDE DEF rest
<1>5. ToSet(stack) = {stack[1]} \cup ToSet(rest)
  <2>1. \A i \in 1..Len(stack) : i = 1 \/ i \in 2..Len(stack)
    BY <1>1
  <2>2. 1 \in DOMAIN stack
    BY <1>1
  <2>3. \A f \in ToSet(stack) : \E i \in 1..Len(stack) : f = stack[i]
    BY <1>1 DEF ToSet
  <2>4. stack[1] \in ToSet(stack)
    BY <2>2 DEF ToSet
  <2>5. QED
    BY <1>4, <2>1, <2>3, <2>4
<1>6. ASSUME NEW g \in ToSet(rest) PROVE Over(stack[1], g)
  <2>1. PICK i \in 1..Len(rest) : g = rest[i]
    BY <1>4 DEF ToSet
  <2>2. i + 1 \in 1..Len(stack) /\ 1 \in 1..Len(stack) /\ 1 < i + 1 /\ g = stack[i + 1]
    <3>1. i \in 1..(Len(stack) + 1 - 2) /\ i + 2 - 1 = i + 1
      BY <1>1, <1>4
    <3>2. QED
      BY <1>1, <1>4, <2>1, <3>1
  <2>3. QED
    BY <2>2 DEF Ordered
<1>7. QED
  BY <1>1, <1>3, <1>5, <1>6

\* What is reached.
LEMMA ReachedFrames ==
  ASSUME NEW stack, Ordered(stack)
  PROVE  /\ Ordered(Reached(stack)) /\ ToSet(Reached(stack)) \subseteq ToSet(stack)
         /\ \A f \in ToSet(stack) : f[1] \notin Marks => f \in ToSet(Reached(stack))
<1>1. stack \in Seq(ToSet(stack)) /\ Len(stack) \in Nat /\ DOMAIN stack = 1..Len(stack)
  BY DEF Ordered
<1>2. \A f \in ToSet(stack) : \E i \in 1..Len(stack) : f = stack[i]
  BY <1>1 DEF ToSet
<1>3. CASE Reached(stack) = <<>> /\ \A i \in 1..Len(stack) : stack[i][1] \in Marks
  <2>1. Ordered(<<>>) /\ ToSet(<<>>) = {}
    BY MadeList, UnaskedOrdered DEF ToSet
  <2>2. QED
    BY <1>2, <1>3, <2>1
<1>4. ASSUME NEW k \in 1..Len(stack), Reached(stack) = SubSeq(stack, k, Len(stack)),
             \A i \in 1..(k - 1) : stack[i][1] \in Marks
      PROVE  /\ Ordered(Reached(stack)) /\ ToSet(Reached(stack)) \subseteq ToSet(stack)
             /\ \A f \in ToSet(stack) : f[1] \notin Marks => f \in ToSet(Reached(stack))
  <2> DEFINE rest == SubSeq(stack, k, Len(stack))
  <2>1. k \in 1..(Len(stack) + 1)
    BY <1>1
  <2>2. /\ Ordered(rest) /\ ToSet(rest) \subseteq ToSet(stack)
        /\ \A i \in k..Len(stack) : stack[i] \in ToSet(rest)
    BY <1>1, <2>1, OrderedEnd, EndFrames
  <2>3. \A i \in 1..Len(stack) : i \in 1..(k - 1) \/ i \in k..Len(stack)
    BY <1>1
  <2> HIDE DEF rest
  <2>4. \A f \in ToSet(stack) : f[1] \notin Marks => f \in ToSet(rest)
    BY <1>2, <1>4, <2>2, <2>3
  <2>5. QED
    BY <1>4, <2>2, <2>4 DEF rest
<1>5. QED
  BY <1>1, <1>3, <1>4, ReachedEnd

\* An exception leaves the end of a request, if there is one.
LEMMA UnwoundFrames ==
  ASSUME NEW stack, Ordered(stack), \A f \in ToSet(stack) : f[1] # "caught"
  PROVE  /\ Ordered(Unwound(stack))
         /\ \A f \in ToSet(Unwound(stack)) :
              f = <<"raise">> \/ \E g \in ToSet(stack) : f[1] = g[1]
         /\ Has(stack, "settled") => Has(Unwound(stack), "settled")
<1> DEFINE holders == {k \in 1..Len(stack) : stack[k][1] \in Marks \cup Finally}
           i == IF holders # {} THEN Min(holders) ELSE 0
           above == SubSeq(stack, i + 1, Len(stack))
           j == SelectInSeq(above, LAMBDA frame : frame[1] \in Reports)
<1>1. Unwound(stack) =
        CASE i = 0 -> <<>>
          [] i > 0 /\ stack[i][1] = "swallow" -> Reached(above)
          [] i > 0 /\ stack[i][1] = "caught" ->
               Reached([above EXCEPT ![j] = Told(above[j])])
          [] OTHER -> <<Told(stack[i]), <<"raise">>>> \o above
  BY DEF Unwound, SelectInSeq
<1>2. /\ stack \in Seq(ToSet(stack)) /\ Len(stack) \in Nat /\ DOMAIN stack = 1..Len(stack)
      /\ \A k \in 1..Len(stack) : stack[k] \in ToSet(stack)
      /\ \A f \in ToSet(stack) : \E k \in 1..Len(stack) : f = stack[k]
  BY DEF Ordered, ToSet
<1> HIDE DEF j
<1>3. /\ i = 0 => holders = {}
      /\ i # 0 => /\ i \in 1..Len(stack) /\ stack[i][1] \in Marks \cup Finally
                  /\ \A k \in holders : i <= k
  <2>1. holders \in SUBSET Nat
    OBVIOUS
  <2>2. holders # {} => Min(holders) \in holders /\ \A k \in holders : Min(holders) <= k
    BY <2>1, MinExists
  <2>3. QED
    BY <2>2
<1>4. Has(stack, "settled") => \E k \in holders : stack[k][1] = "settled"
  BY <1>2 DEF Has, Finally
<1> HIDE DEF i, holders
<1>5. CASE i = 0
  <2>1. ~Has(stack, "settled")
    BY <1>3, <1>4, <1>5
  <2>2. Unwound(stack) = <<>>
    BY <1>1, <1>5
  <2>3. Ordered(<<>>) /\ ToSet(<<>>) = {}
    BY MadeList, UnaskedOrdered DEF ToSet
  <2>4. QED
    BY <2>1, <2>2, <2>3
<1>6. CASE i # 0
  <2>1. /\ i \in 1..Len(stack) /\ i > 0 /\ i \in Nat /\ stack[i][1] \in Marks \cup Finally
        /\ stack[i][1] # "caught" /\ \A k \in holders : i <= k
    <3>1. /\ i \in 1..Len(stack) /\ stack[i][1] \in Marks \cup Finally
          /\ \A k \in holders : i <= k
      BY <1>3, <1>6
    <3>2. i > 0 /\ i \in Nat
      BY <1>2, <3>1
    <3>3. stack[i][1] # "caught"
      BY <1>2, <3>1
    <3>4. QED
      BY <3>1, <3>2, <3>3
  <2>2. i + 1 \in 1..(Len(stack) + 1) /\ \A k \in 1..Len(stack) : i <= k => k = i \/ k \in (i + 1)..Len(stack)
    BY <1>2, <2>1
  <2>3. Has(stack, "settled") =>
          stack[i][1] = "settled" \/ \E k \in (i + 1)..Len(stack) : stack[k][1] = "settled"
    <3>1. \A k \in holders : k \in 1..Len(stack)
      BY DEF holders
    <3>2. QED
      BY <1>4, <2>1, <2>2, <3>1
  <2>4. /\ Ordered(above) /\ above \in Seq(ToSet(above)) /\ ToSet(above) \subseteq ToSet(stack)
        /\ \A k \in (i + 1)..Len(stack) : stack[k] \in ToSet(above)
    BY <1>2, <2>2, OrderedEnd, EndFrames
  <2>5. \A g \in ToSet(above) : Over(stack[i], g)
    <3>1. /\ Len(above) = Len(stack) + 1 - (i + 1)
          /\ \A k \in 1..(Len(stack) + 1 - (i + 1)) : above[k] = stack[k + (i + 1) - 1]
      BY <1>2, <2>2, EndFrames
    <3> HIDE DEF above
    <3>2. ASSUME NEW g \in ToSet(above) PROVE Over(stack[i], g)
      <4>1. PICK k \in 1..Len(above) : g = above[k]
        BY <2>4 DEF ToSet
      <4>2. k \in 1..(Len(stack) + 1 - (i + 1)) /\ k + (i + 1) - 1 \in 1..Len(stack) /\ i < k + (i + 1) - 1
        BY <1>2, <2>1, <3>1
      <4>3. g = stack[k + (i + 1) - 1]
        BY <3>1, <4>1, <4>2
      <4>4. QED
        BY <2>1, <4>2, <4>3 DEF Ordered
    <3>3. QED
      BY <3>2
  <2> HIDE DEF above
  <2>6. CASE stack[i][1] = "swallow"
    <3>1. Unwound(stack) = Reached(above)
      BY <1>1, <2>1, <2>6
    <3>2. /\ Ordered(Reached(above)) /\ ToSet(Reached(above)) \subseteq ToSet(above)
          /\ \A f \in ToSet(above) : f[1] \notin Marks => f \in ToSet(Reached(above))
      BY <2>4, ReachedFrames
    <3>3. Has(stack, "settled") => Has(Reached(above), "settled")
      BY <2>3, <2>4, <2>6, <3>2 DEF Has, Marks
    <3>4. QED
      BY <2>4, <3>1, <3>2, <3>3
  <2>7. CASE stack[i][1] # "swallow"
    <3> DEFINE a == Told(stack[i])
               b == <<"raise">>
               pair == <<a, b>>
               s == pair \o above
    <3>1. Unwound(stack) = s /\ stack[i][1] \notin Marks
      BY <1>1, <2>1, <2>7 DEF Marks
    <3>2. a[1] = stack[i][1] /\ b[1] = "raise"
      BY DEF Told
    <3>3. pair \in Seq({a, b}) /\ Len(pair) = 2 /\ pair[1] = a /\ pair[2] = b
      OBVIOUS
    <3> HIDE DEF s, pair, a
    <3>4. pair \in Seq(ToSet(pair)) /\ ToSet(pair) = {a, b}
      <4>1. DOMAIN pair = {1, 2}
        BY <3>3
      <4>2. ToSet(pair) = {pair[1], pair[2]}
        BY <4>1 DEF ToSet
      <4>3. QED
        BY <3>3, <4>2
    <3>5. Ordered(pair)
      <4>1. \A k, m \in 1..Len(pair) : k < m => k = 1 /\ m = 2
        BY <3>3
      <4>2. Over(a, b)
        BY <3>2 DEF Over, Asking
      <4>3. QED
        BY <3>3, <3>4, <4>1, <4>2 DEF Ordered
    <3>6. \A f \in ToSet(pair), g \in ToSet(above) : Over(f, g)
      <4>1. \A g : Over(b, g)
        BY <3>2 DEF Over, Sending
      <4>2. \A g \in ToSet(above) : Over(a, g)
        BY <2>5, <3>2 DEF Over
      <4>3. QED
        BY <3>4, <4>1, <4>2
    <3>7. Ordered(s) /\ ToSet(s) = {a, b} \cup ToSet(above)
      BY <2>4, <3>4, <3>5, <3>6, OrderedConcat, ConcatFrames DEF s
    <3>8. Has(stack, "settled") => Has(s, "settled")
      BY <2>3, <2>4, <3>2, <3>7 DEF Has
    <3>9. \A f \in ToSet(s) : f = <<"raise">> \/ \E g \in ToSet(stack) : f[1] = g[1]
      BY <1>2, <2>1, <2>4, <3>2, <3>7
    <3>10. QED
      BY <3>1, <3>7, <3>8, <3>9
  <2>8. QED
    BY <2>6, <2>7
<1>7. QED
  BY <1>5, <1>6

\* A step keeps the invariant if a stack that changes stays ordered, keeps the end
\* of a request that is pending, waits only if it did or will be answered, and has
\* done what it was about to do; and if who is no longer answerable is halted.
LEMMA WaitsKept ==
  ASSUME WaitInv, calls' \subseteq calls, event \subseteq event',
         \A u \in Threads :
           \/ todo'[u] = todo[u]
           \/ /\ Ordered(todo'[u]) /\ (u \in Monitors => MadeOf(todo'[u], Rounds))
              /\ u \in pending' /\ Has(todo[u], "settled") => Has(todo'[u], "settled")
              /\ Has(todo'[u], "wait") => Has(todo[u], "wait") \/ Answerable(u)'
              /\ \A c : Halts(todo[u], c) => c \in event',
         \A c \in pending' : c \in pending \/ (c \in Threads /\ Has(todo'[c], "settled")),
         \A c \in Callers : Answerable(c) =>
           Answerable(c)' \/ ~Has(todo'[c], "wait") \/ \E u \in Threads : Halts(todo'[u], c)
  PROVE  WaitInv'
<1>1. \A u \in Threads : Ordered(todo'[u]) /\ (u \in Monitors => MadeOf(todo'[u], Rounds))
  BY DEF WaitInv
<1>2. \A call \in calls' : call[1] \in Monitors => call[2] = "round"
  BY DEF WaitInv
<1>3. ASSUME NEW c \in pending' PROVE c \in Threads /\ Has(todo'[c], "settled")
  <2>1. CASE c \in pending
    <3>1. c \in Threads /\ Has(todo[c], "settled")
      BY <2>1 DEF WaitInv
    <3>2. QED
      BY <1>3, <3>1
  <2>2. QED
    BY <1>3, <2>1
<1>4. ASSUME NEW c \in Callers, Has(todo'[c], "wait"), c \notin event'
      PROVE  Answerable(c)' \/ \E t \in Threads : Halts(todo'[t], c)
  <2>1. c \in Threads /\ c \notin event
    BY <1>4, PeerAssumption
  <2>2. Has(todo[c], "wait") \/ Answerable(c)'
    BY <1>4, <2>1
  <2>3. CASE Answerable(c)
    BY <1>4, <2>3
  <2>4. ASSUME NEW t \in Threads, Halts(todo[t], c) PROVE Halts(todo'[t], c)
    BY <1>4, <2>4
  <2>5. Has(todo[c], "wait") => Answerable(c) \/ \E t \in Threads : Halts(todo[t], c)
    BY <2>1 DEF WaitInv
  <2>6. QED
    BY <2>2, <2>3, <2>4, <2>5
<1>5. QED
  BY <1>1, <1>2, <1>3, <1>4 DEF WaitInv

\* The stack of a thread that executes its next frame.
LEMMA BecomesWaits ==
  ASSUME WaitInv, NEW t \in Threads, todo[t] # <<>>, NEW frames, Ordered(frames),
         \A f \in ToSet(frames), g \in ToSet(Tail(todo[t])) : Over(f, g),
         t \in Monitors => MadeOf(frames, Rounds)
  PROVE  /\ Ordered(Becomes(t, frames))
         /\ t \in Monitors => MadeOf(Becomes(t, frames), Rounds)
         /\ \A name : Has(Becomes(t, frames), name) =>
              Has(frames, name) \/ \E g \in ToSet(Tail(todo[t])) : g[1] = name
         /\ \A name : name \notin Marks /\ name # Head(todo[t])[1] /\ Has(todo[t], name)
              => Has(Becomes(t, frames), name)
         /\ \A name : name \notin Marks /\ Has(frames, name) => Has(Becomes(t, frames), name)
<1> DEFINE rest == Tail(todo[t])
           stack == frames \o rest
<1>1. /\ Ordered(todo[t]) /\ Ordered(rest) /\ ToSet(todo[t]) = {Head(todo[t])} \cup ToSet(rest)
      /\ t \in Monitors => MadeOf(todo[t], Rounds)
  BY TailFrames DEF WaitInv
<1> HIDE DEF rest
<1>2. \A f \in ToSet(frames), g \in ToSet(rest) : Over(f, g)
  BY DEF rest
<1>3. Ordered(stack)
  BY <1>1, <1>2, OrderedConcat
<1>4. ToSet(stack) = ToSet(frames) \cup ToSet(rest)
  BY <1>1, ConcatFrames DEF Ordered
<1> HIDE DEF stack
<1>5. /\ Ordered(Reached(stack)) /\ ToSet(Reached(stack)) \subseteq ToSet(stack)
      /\ \A f \in ToSet(stack) : f[1] \notin Marks => f \in ToSet(Reached(stack))
  BY <1>3, ReachedFrames
<1>6. t \in Monitors => MadeOf(Reached(stack), Rounds)
  BY <1>1, <1>4, <1>5 DEF MadeOf, Ordered
<1>7. /\ \A name : Has(Reached(stack), name) =>
           Has(frames, name) \/ \E g \in ToSet(rest) : g[1] = name
      /\ \A name : name \notin Marks /\ name # Head(todo[t])[1] /\ Has(todo[t], name)
           => Has(Reached(stack), name)
      /\ \A name : name \notin Marks /\ Has(frames, name) => Has(Reached(stack), name)
  BY <1>1, <1>4, <1>5 DEF Has
<1>8. Becomes(t, frames) = Reached(stack)
  BY DEF Becomes, stack, rest
<1>9. QED
  BY <1>5, <1>6, <1>7, <1>8 DEF rest

\* What may be pushed in the course of a step that is no part of a request.
LEMMA FramesAbove ==
  ASSUME WaitInv, NEW t \in Threads, todo[t] # <<>>, NEW frames,
         \/ MadeOf(frames, Sending)
         \/ MadeOf(frames, Rounds) /\ Head(todo[t])[1] \notin Sending \cup {"wait"}
         \/ MadeOf(frames, Unasked) /\ Head(todo[t])[1] \notin Rounds \cup {"wait"}
  PROVE  /\ Ordered(frames) /\ ~Has(frames, "wait")
         /\ \A f \in ToSet(frames), g \in ToSet(Tail(todo[t])) : Over(f, g)
         /\ t \in Monitors => MadeOf(frames, Rounds)
         /\ Head(todo[t])[1] \notin Sending \cup {"wait"} =>
              \A g \in ToSet(Tail(todo[t])) : g[1] \notin Asking
<1>1. /\ Head(todo[t]) \in ToSet(todo[t]) /\ (t \in Monitors => MadeOf(todo[t], Rounds))
      /\ \A g \in ToSet(Tail(todo[t])) : Over(Head(todo[t]), g)
  BY TailFrames DEF WaitInv
<1>2. MadeOf(frames, Unasked)
  BY SendingUnasked
<1>3. Ordered(frames)
  BY <1>2, UnaskedOrdered
<1>4. ~Has(frames, "wait")
  BY <1>2 DEF Has, MadeOf, Unasked, Rounds, Sending
<1>5. Head(todo[t])[1] \notin Sending \cup {"wait"} =>
        \A g \in ToSet(Tail(todo[t])) : g[1] \notin Asking
  BY <1>1 DEF Over
<1>6. \A f \in ToSet(frames), g \in ToSet(Tail(todo[t])) : Over(f, g)
  <2>1. CASE MadeOf(frames, Sending)
    BY <2>1 DEF MadeOf, Over
  <2>2. CASE Head(todo[t])[1] \notin Sending \cup {"wait"}
    BY <1>5, <2>2 DEF Over
  <2>3. QED
    BY <2>1, <2>2 DEF Rounds
<1>7. t \in Monitors => MadeOf(frames, Rounds)
  <2>1. t \in Monitors => Head(todo[t])[1] \in Rounds
    BY <1>1 DEF MadeOf
  <2>2. QED
    BY <2>1, SendingUnasked
<1>8. QED
  BY <1>3, <1>4, <1>5, <1>6, <1>7

\* A step that is no part of a request, or that ends one.
LEMMA StepWaits ==
  ASSUME WaitInv, PlacesInv, calls' \subseteq calls, event \subseteq event', up \subseteq up',
         NEW t \in Threads, todo[t] # <<>>, NEW frames, Does(t, frames),
         Head(todo[t])[1] = "halt" => Head(todo[t])[2] \subseteq event',
         pending' = IF Head(todo[t])[1] = "settled" THEN pending \ {t} ELSE pending,
         \/ MadeOf(frames, Sending)
         \/ MadeOf(frames, Rounds) /\ Head(todo[t])[1] \notin Sending \cup {"wait"}
         \/ MadeOf(frames, Unasked) /\ Head(todo[t])[1] \notin Rounds \cup {"wait"}
  PROVE  WaitInv'
<1> DEFINE top == Head(todo[t])[1]
           stack == Becomes(t, frames)
<1>1. /\ Ordered(frames) /\ ~Has(frames, "wait")
      /\ \A f \in ToSet(frames), g \in ToSet(Tail(todo[t])) : Over(f, g)
      /\ t \in Monitors => MadeOf(frames, Rounds)
      /\ top \notin Sending \cup {"wait"} => \A g \in ToSet(Tail(todo[t])) : g[1] \notin Asking
  BY FramesAbove
<1>2. /\ Ordered(stack) /\ (t \in Monitors => MadeOf(stack, Rounds))
      /\ \A name : Has(stack, name) =>
           Has(frames, name) \/ \E g \in ToSet(Tail(todo[t])) : g[1] = name
      /\ \A name : name \notin Marks /\ name # top /\ Has(todo[t], name) => Has(stack, name)
  BY <1>1, BecomesWaits
<1>3. ToSet(todo[t]) = {Head(todo[t])} \cup ToSet(Tail(todo[t]))
  BY TailFrames DEF WaitInv
<1>4. \A u \in Threads : todo'[u] = IF u = t THEN stack ELSE todo[u]
  BY DEF Does, PlacesInv
<1> HIDE DEF stack
<1>5. Has(stack, "wait") => Has(todo[t], "wait") /\ top # "settled"
  <2>1. ASSUME Has(stack, "wait") PROVE Has(todo[t], "wait") /\ top # "settled"
    <3>1. PICK g \in ToSet(Tail(todo[t])) : g[1] = "wait"
      BY <1>1, <1>2, <2>1
    <3>2. top \in Sending \cup {"wait"}
      BY <1>1, <3>1 DEF Asking
    <3>3. QED
      BY <1>3, <3>1, <3>2 DEF Has, Sending
  <2>2. QED
    BY <2>1
<1>6. t \in pending' /\ Has(todo[t], "settled") => Has(stack, "settled")
  <2>1. t \in pending' => top # "settled"
    OBVIOUS
  <2>2. "settled" \notin Marks
    BY DEF Marks
  <2>3. QED
    BY <1>2, <2>1, <2>2
<1>7. \A c : Halts(todo[t], c) => c \in event'
  BY DEF Halts
<1>8. \A c \in Callers : Answerable(c) => Answerable(c)' \/ ~Has(todo'[c], "wait")
  <2>1. ASSUME NEW c \in Callers, Answerable(c), ~Answerable(c)' PROVE ~Has(todo'[c], "wait")
    <3>1. c = t /\ top = "settled"
      BY <2>1 DEF Answerable
    <3>2. QED
      BY <1>4, <1>5, <3>1
  <2>2. QED
    BY <2>1
<1>9. \A u \in Threads :
        \/ todo'[u] = todo[u]
        \/ /\ Ordered(todo'[u]) /\ (u \in Monitors => MadeOf(todo'[u], Rounds))
           /\ u \in pending' /\ Has(todo[u], "settled") => Has(todo'[u], "settled")
           /\ Has(todo'[u], "wait") => Has(todo[u], "wait") \/ Answerable(u)'
           /\ \A c : Halts(todo[u], c) => c \in event'
  BY <1>2, <1>4, <1>5, <1>6, <1>7
<1>10. pending' \subseteq pending
  OBVIOUS
<1>11. QED
  BY <1>8, <1>9, <1>10, WaitsKept

\* What is called first is at the top.
LEMMA BecomesHead ==
  ASSUME WaitInv, NEW t \in Threads, todo[t] # <<>>, NEW frames, Ordered(frames), frames # <<>>,
         Head(frames)[1] \notin Marks
  PROVE  Becomes(t, frames) # <<>> /\ Head(Becomes(t, frames)) = Head(frames)
<1> DEFINE rest == Tail(todo[t])
           stack == frames \o rest
           S == ToSet(frames) \cup ToSet(rest)
<1>1. Ordered(rest)
  BY TailFrames DEF WaitInv
<1> HIDE DEF rest
<1>2. frames \in Seq(S) /\ rest \in Seq(S)
  BY <1>1, SeqWider DEF Ordered
<1> HIDE DEF S
<1>3. /\ stack \in Seq(S) /\ stack # <<>> /\ Head(stack) = Head(frames)
      /\ Len(stack) \in Nat /\ Len(stack) >= 1 /\ stack[1] = Head(stack)
  <2>1. stack \in Seq(S) /\ stack # <<>> /\ Head(stack) = Head(frames)
    BY <1>2, HeadTailProperties, ConcatProperties
  <2> HIDE DEF stack
  <2>2. QED
    BY <2>1
<1> HIDE DEF stack
<1>4. Reached(stack) # <<>> /\ Head(Reached(stack)) = stack[1]
  <2>1. stack[1][1] \notin Marks /\ 1 \in 1..Len(stack)
    BY <1>3
  <2>2. PICK k \in 1..Len(stack) : /\ Reached(stack) = SubSeq(stack, k, Len(stack))
                                   /\ \A i \in 1..(k - 1) : stack[i][1] \in Marks
    BY <1>3, <2>1, ReachedEnd
  <2>3. k = 1
    <3>1. 1 \in 1..(k - 1) \/ k = 1
      BY <1>3
    <3>2. QED
      BY <2>1, <2>2, <3>1
  <2>4. SubSeq(stack, 1, Len(stack)) = stack
    BY <1>3
  <2>5. QED
    BY <1>3, <2>2, <2>3, <2>4
<1>5. Becomes(t, frames) = Reached(stack)
  BY DEF Becomes, stack, rest
<1>6. QED
  BY <1>3, <1>4, <1>5

\* A request begins.
LEMMA RegisterWaits ==
  ASSUME WaitInv, PlacesInv, NEW t \in Threads, Register(t), UNCHANGED calls
  PROVE  WaitInv'
<1>1. /\ todo[t] # <<>> /\ Head(todo[t])[1] = "register" /\ UNCHANGED <<up, event>>
  BY DEF Register, At
<1>2. CASE NodeOf(t) \notin up
  <2>1. Does(t, <<<<"raise">>>>) /\ pending' = pending
    BY <1>2 DEF Register, Raises
  <2>2. MadeOf(<<<<"raise">>>>, Sending)
    <3>1. "raise" \in Sending
      BY DEF Sending
    <3>2. QED
      BY <3>1, MadeList
  <2>3. calls' \subseteq calls /\ event \subseteq event' /\ up \subseteq up'
    BY <1>1
  <2>4. QED
    BY <1>1, <2>1, <2>2, <2>3, StepWaits
<1>3. CASE NodeOf(t) \in up
  <2> DEFINE frames == <<<<"send", RequestOf(t)>>, <<"wait">>, <<"settled", FALSE>>>>
             stack == Becomes(t, frames)
  <2>1. pending' = pending \cup {t} /\ Does(t, frames)
    BY <1>3 DEF Register
  <2>2. Ordered(frames)
    BY RequestOrdered
  <2>3. Has(frames, "settled")
    <3>1. frames[3][1] = "settled" /\ 3 \in DOMAIN frames
      OBVIOUS
    <3>2. QED
      BY <3>1 DEF Has, ToSet
  <2> HIDE DEF frames
  <2>4. t \notin Monitors /\ \A g \in ToSet(Tail(todo[t])) : g[1] \notin Asking
    <3>1. /\ Head(todo[t]) \in ToSet(todo[t]) /\ (t \in Monitors => MadeOf(todo[t], Rounds))
          /\ \A g \in ToSet(Tail(todo[t])) : Over(Head(todo[t]), g)
      BY <1>1, TailFrames DEF WaitInv
    <3>2. QED
      BY <1>1, <3>1 DEF MadeOf, Rounds, Sending, Over
  <2>5. \A f \in ToSet(frames), g \in ToSet(Tail(todo[t])) : Over(f, g)
    BY <2>4 DEF Over
  <2>6. Ordered(stack) /\ Has(stack, "settled")
    BY <1>1, <2>2, <2>3, <2>4, <2>5, BecomesWaits DEF Marks
  <2>7. \A u \in Threads : todo'[u] = IF u = t THEN stack ELSE todo[u]
    BY <2>1 DEF Does, PlacesInv
  <2> HIDE DEF stack
  <2>8. Answerable(t)'
    BY <1>1, <1>3, <2>1 DEF Answerable
  <2>9. \A c : Answerable(c) => Answerable(c)'
    BY <1>1, <2>1 DEF Answerable
  <2>10. \A c : ~Halts(todo[t], c)
    BY <1>1 DEF Halts
  <2>11. \A u \in Threads :
           \/ todo'[u] = todo[u]
           \/ /\ Ordered(todo'[u]) /\ (u \in Monitors => MadeOf(todo'[u], Rounds))
              /\ u \in pending' /\ Has(todo[u], "settled") => Has(todo'[u], "settled")
              /\ Has(todo'[u], "wait") => Has(todo[u], "wait") \/ Answerable(u)'
              /\ \A c : Halts(todo[u], c) => c \in event'
    BY <2>4, <2>6, <2>7, <2>8, <2>10
  <2>12. \A c \in pending' : c \in pending \/ (c \in Threads /\ Has(todo'[c], "settled"))
    BY <2>1, <2>6, <2>7
  <2>13. QED
    BY <1>1, <2>9, <2>11, <2>12, WaitsKept
<1>4. QED
  BY <1>2, <1>3

\* The peer stops: whom it no longer answers it halts next.
LEMMA PeerStopWaits ==
  ASSUME WaitInv, PlacesInv, NEW t \in Threads, PeerStop(t), UNCHANGED calls
  PROVE  WaitInv'
<1>1. /\ todo[t] # <<>> /\ Head(todo[t])[1] = "peer_stop" /\ event' = event
  BY DEF PeerStop, At
<1>2. CASE NodeOf(t) \notin up
  <2>1. Does(t, <<>>) /\ pending' = pending /\ up' = up
    BY <1>2 DEF PeerStop
  <2>2. MadeOf(<<>>, Sending)
    BY MadeList
  <2>3. QED
    BY <1>1, <2>1, <2>2, StepWaits
<1>3. CASE NodeOf(t) \in up
  <2> DEFINE n == NodeOf(t)
             mine == {c \in pending : NodeOf(c) = n}
             frames == <<<<"halt", mine>>, <<"unlisten">>, <<"clear">>, <<"join">>>>
             stack == Becomes(t, frames)
  <2>1. up' = up \ {n} /\ pending' = pending \ mine /\ Does(t, frames)
    BY <1>3 DEF PeerStop
  <2> HIDE DEF mine
  <2>2. MadeOf(frames, Unasked)
    <3>1. "halt" \in Unasked /\ "unlisten" \in Unasked /\ "clear" \in Unasked /\ "join" \in Unasked
      BY DEF Unasked
    <3>2. QED
      BY <3>1, MadeList
  <2>3. frames # <<>> /\ Head(frames) = <<"halt", mine>>
    OBVIOUS
  <2> HIDE DEF frames
  <2>4. Head(todo[t])[1] \notin Rounds \cup {"wait"}
    BY <1>1 DEF Rounds, Sending
  <2>5. /\ Ordered(frames) /\ ~Has(frames, "wait")
        /\ \A f \in ToSet(frames), g \in ToSet(Tail(todo[t])) : Over(f, g)
        /\ t \in Monitors => MadeOf(frames, Rounds)
    BY <1>1, <2>2, <2>4, FramesAbove
  <2>6. /\ Ordered(stack) /\ (t \in Monitors => MadeOf(stack, Rounds))
        /\ Has(stack, "wait") => Has(frames, "wait") \/ \E g \in ToSet(Tail(todo[t])) : g[1] = "wait"
        /\ Has(todo[t], "settled") => Has(stack, "settled")
    BY <1>1, <2>5, BecomesWaits DEF Marks
  <2>7. stack # <<>> /\ Head(stack) = <<"halt", mine>>
    BY <1>1, <2>3, <2>5, BecomesHead DEF Marks
  <2>8. \A u \in Threads : todo'[u] = IF u = t THEN stack ELSE todo[u]
    BY <2>1 DEF Does, PlacesInv
  <2> HIDE DEF stack
  <2>9. Has(stack, "wait") => Has(todo[t], "wait")
    <3>1. ToSet(todo[t]) = {Head(todo[t])} \cup ToSet(Tail(todo[t]))
      BY <1>1, TailFrames DEF WaitInv
    <3>2. QED
      BY <2>5, <2>6, <3>1 DEF Has
  <2>10. \A c : ~Halts(todo[t], c)
    BY <1>1 DEF Halts
  <2>11. \A u \in Threads :
           \/ todo'[u] = todo[u]
           \/ /\ Ordered(todo'[u]) /\ (u \in Monitors => MadeOf(todo'[u], Rounds))
              /\ u \in pending' /\ Has(todo[u], "settled") => Has(todo'[u], "settled")
              /\ Has(todo'[u], "wait") => Has(todo[u], "wait") \/ Answerable(u)'
              /\ \A c : Halts(todo[u], c) => c \in event'
    BY <2>6, <2>8, <2>9, <2>10
  <2>12. \A c \in Callers : Answerable(c) => Answerable(c)' \/ \E u \in Threads : Halts(todo'[u], c)
    <3>1. ASSUME NEW c, Answerable(c), ~Answerable(c)' PROVE Halts(stack, c)
      <4>1. c \in mine
        BY <2>1, <3>1 DEF Answerable, mine
      <4>2. QED
        BY <2>7, <4>1 DEF Halts
    <3>2. QED
      BY <2>8, <3>1
  <2>13. QED
    BY <1>1, <2>1, <2>11, <2>12, WaitsKept
<1>4. QED
  BY <1>2, <1>3

\* What the other steps of the peer call.
LEMMA PeerFrames ==
  ASSUME NEW t \in Threads,
         \/ Send(t) \/ Transmit(t) \/ SentPacket(t) \/ Wait(t) \/ Settled(t) \/ OnPacket(t)
         \/ Refresh(t) \/ SetTransport(t) \/ Fail(t) \/ Round(t) \/ Expire(t) \/ Wake(t)
         \/ PeerStart(t) \/ Halt(t) \/ Join(t)
  PROVE  /\ todo[t] # <<>>
         /\ \E frames :
              /\ Does(t, frames)
              /\ \/ MadeOf(frames, Sending)
                 \/ MadeOf(frames, Rounds) /\ Head(todo[t])[1] \notin Sending \cup {"wait"}
                 \/ MadeOf(frames, Unasked) /\ Head(todo[t])[1] \notin Rounds \cup {"wait"}
<1>1. todo[t] # <<>>
  BY DEF Send, Transmit, SentPacket, Wait, Settled, OnPacket, Refresh, SetTransport, Fail,
         Round, Expire, Wake, PeerStart, Halt, Join, At
<1>2. MadeOf(<<>>, Sending)
  BY MadeList
<1>3. \A name \in Sending : /\ MadeOf(<<<<name>>>>, Sending)
                            /\ \A argument : MadeOf(<<<<name, argument>>>>, Sending)
  BY MadeList
<1>4. CASE SentPacket(t) \/ Wait(t) \/ Settled(t) \/ Fail(t) \/ Expire(t) \/ Halt(t) \/ Join(t)
  <2>1. Does(t, <<>>)
    BY <1>4 DEF SentPacket, Wait, Settled, Fail, Expire, Halt, Join
  <2>2. QED
    BY <1>1, <1>2, <2>1
<1>5. CASE Refresh(t) \/ SetTransport(t)
  <2>1. \A argument : /\ MadeOf(<<<<"set", argument>>>>, Sending)
                      /\ MadeOf(<<<<"fail", argument>>>>, Sending)
    BY <1>3 DEF Sending
  <2>2. PICK frames : Does(t, frames) /\ MadeOf(frames, Sending)
    BY <1>2, <1>5, <2>1 DEF Refresh, SetTransport
  <2>3. QED
    BY <1>1, <2>2
<1>6. CASE Wake(t)
  <2>1. Head(todo[t])[1] = "asleep" /\ Does(t, <<<<"monitor">>>>)
    BY <1>6 DEF Wake, At
  <2>2. MadeOf(<<<<"monitor">>>>, Rounds)
    BY MadeList DEF Rounds
  <2>3. "asleep" \notin Sending \cup {"wait"}
    BY DEF Sending
  <2>4. QED
    BY <1>1, <2>1, <2>2, <2>3
<1>7. CASE Send(t) \/ Transmit(t)
  <2>1. /\ MadeOf(<<<<"refresh">>, <<"raise">>>>, Sending) /\ MadeOf(<<<<"raise">>>>, Sending)
        /\ \A packet : MadeOf(<<<<"transmit", packet>>, <<"sent">>>>, Sending)
    <3>1. {"refresh", "raise", "transmit", "sent"} \subseteq Sending
      BY DEF Sending
    <3>2. QED
      BY <3>1, MadeList
  <2>2. PICK frames : Does(t, frames) /\ MadeOf(frames, Sending)
    BY <1>2, <1>7, <2>1 DEF Send, Transmit, Raises
  <2>3. QED
    BY <1>1, <2>2
<1>8. CASE OnPacket(t) \/ PeerStart(t)
  <2>1. Head(todo[t])[1] \in {"on_packet", "peer_start"}
    BY <1>8 DEF OnPacket, PeerStart, At
  <2>2. Head(todo[t])[1] \notin Rounds \cup {"wait"}
    BY <2>1 DEF Rounds, Sending
  <2>3. /\ MadeOf(<<>>, Unasked) /\ MadeOf(<<<<"listen">>, <<"watch">>>>, Unasked)
        /\ \A packet : MadeOf(<<<<"handed", packet>>>>, Unasked)
        /\ \A packet, answer : MadeOf(<<<<"handed", packet>>, <<"send", answer>>>>, Unasked)
    <3>1. "listen" \in Unasked /\ "watch" \in Unasked /\ "handed" \in Unasked /\ "send" \in Unasked
      BY DEF Unasked, Rounds, Sending
    <3>2. QED
      BY <3>1, MadeList
  <2>4. PICK frames : Does(t, frames) /\ MadeOf(frames, Unasked)
    BY <1>8, <2>3 DEF OnPacket, PeerStart
  <2>5. QED
    BY <1>1, <2>2, <2>4
<1>9. CASE Round(t)
  <2> DEFINE look == <<<<"set", NodeOf(t) \in ready>>>>
             rest == <<<<"expire">>, <<"asleep">>>>
  <2>1. Head(todo[t])[1] = "monitor"
    BY <1>9 DEF Round, At
  <2>2. MadeOf(look, Rounds) /\ MadeOf(rest, Rounds) /\ MadeOf(Probe(pings + 1), Rounds)
    <3>1. /\ "set" \in Rounds /\ "expire" \in Rounds /\ "asleep" \in Rounds
          /\ "send" \in Rounds /\ "swallow" \in Rounds
      BY DEF Rounds, Sending
    <3>2. QED
      BY <3>1, MadeList DEF Probe
  <2>3. Does(t, <<>>) \/ Does(t, look \o rest) \/ Does(t, look \o Probe(pings + 1) \o rest)
    BY <1>9 DEF Round
  <2> HIDE DEF look, rest
  <2>4. MadeOf(look \o rest, Rounds) /\ MadeOf(look \o Probe(pings + 1) \o rest, Rounds)
    BY <2>2, MadeConcat
  <2>5. "monitor" \notin Sending \cup {"wait"}
    BY DEF Sending
  <2>6. QED
    BY <1>1, <1>2, <2>1, <2>3, <2>4, <2>5
<1>10. QED
  BY <1>4, <1>5, <1>6, <1>7, <1>8, <1>9

\* The other steps of the peer.
LEMMA PeerWaits ==
  ASSUME WaitInv, PlacesInv, UNCHANGED calls, NEW t \in Threads,
         \/ Send(t) \/ Transmit(t) \/ SentPacket(t) \/ Wait(t) \/ Settled(t) \/ OnPacket(t)
         \/ Refresh(t) \/ SetTransport(t) \/ Fail(t) \/ Round(t) \/ Expire(t) \/ Wake(t)
         \/ PeerStart(t) \/ Halt(t) \/ Join(t)
  PROVE  WaitInv'
<1>1. calls' \subseteq calls
  OBVIOUS
<1>2. up \subseteq up'
  BY DEF Send, Transmit, SentPacket, Wait, Settled, OnPacket, Refresh, SetTransport, Fail,
         Round, Expire, Wake, PeerStart, Halt, Join, peerVars
<1>3. event \subseteq event'
  BY DEF Send, Transmit, SentPacket, Wait, Settled, OnPacket, Refresh, SetTransport, Fail,
         Round, Expire, Wake, PeerStart, Halt, Join, peerVars, requests
<1>4. pending' = IF Head(todo[t])[1] = "settled" THEN pending \ {t} ELSE pending
  BY DEF Send, Transmit, SentPacket, Wait, Settled, OnPacket, Refresh, SetTransport, Fail,
         Round, Expire, Wake, PeerStart, Halt, Join, peerVars, requests, At
<1>5. Head(todo[t])[1] = "halt" => Head(todo[t])[2] \subseteq event'
  BY DEF Send, Transmit, SentPacket, Wait, Settled, OnPacket, Refresh, SetTransport, Fail,
         Round, Expire, Wake, PeerStart, Halt, Join, At, Arg
<1>6. todo[t] # <<>>
  BY PeerFrames
<1>7. PICK frames :
        /\ Does(t, frames)
        /\ \/ MadeOf(frames, Sending)
           \/ MadeOf(frames, Rounds) /\ Head(todo[t])[1] \notin Sending \cup {"wait"}
           \/ MadeOf(frames, Unasked) /\ Head(todo[t])[1] \notin Rounds \cup {"wait"}
  BY PeerFrames
<1>8. QED
  BY <1>1, <1>2, <1>3, <1>4, <1>5, <1>6, <1>7, StepWaits

\* The stack of a thread that is replaced.
LEMMA StackWaits ==
  ASSUME WaitInv, PlacesInv, calls' \subseteq calls, UNCHANGED <<pending, event, up>>,
         NEW t \in Threads, NEW stack, todo' = [todo EXCEPT ![t] = stack],
         Ordered(stack), t \in Monitors => MadeOf(stack, Rounds),
         Has(todo[t], "settled") => Has(stack, "settled"),
         Has(stack, "wait") => Has(todo[t], "wait"),
         \A c : ~Halts(todo[t], c)
  PROVE  WaitInv'
<1>1. \A u \in Threads : todo'[u] = IF u = t THEN stack ELSE todo[u]
  BY DEF PlacesInv
<1>2. \A c : Answerable(c) => Answerable(c)'
  BY DEF Answerable
<1>3. \A u \in Threads :
        \/ todo'[u] = todo[u]
        \/ /\ Ordered(todo'[u]) /\ (u \in Monitors => MadeOf(todo'[u], Rounds))
           /\ u \in pending' /\ Has(todo[u], "settled") => Has(todo'[u], "settled")
           /\ Has(todo'[u], "wait") => Has(todo[u], "wait") \/ Answerable(u)'
           /\ \A c : Halts(todo[u], c) => c \in event'
  BY <1>1
<1>4. event \subseteq event' /\ pending' = pending
  OBVIOUS
<1>5. QED
  BY <1>2, <1>3, <1>4, WaitsKept

\* The monitor begins again: it has been waiting for nothing.
LEMMA WatchWaits ==
  ASSUME WaitInv, PlacesInv, NEW t \in Threads, Watch(t), UNCHANGED calls
  PROVE  WaitInv'
<1> DEFINE m == Monitor(NodeOf(t))
           stack == Becomes(t, <<>>)
           round == <<<<"monitor">>>>
<1>1. todo[t] # <<>> /\ Head(todo[t])[1] = "watch" /\ UNCHANGED <<pending, event, up>>
  BY DEF Watch, At, requests
<1>2. MadeOf(<<>>, Sending) /\ MadeOf(round, Rounds)
  BY MadeList DEF Rounds
<1>3. /\ Ordered(<<>>) /\ ~Has(<<>>, "wait")
      /\ \A f \in ToSet(<<>>), g \in ToSet(Tail(todo[t])) : Over(f, g)
      /\ t \in Monitors => MadeOf(<<>>, Rounds)
  BY <1>1, <1>2, FramesAbove
<1>4. /\ Ordered(stack) /\ (t \in Monitors => MadeOf(stack, Rounds))
      /\ Has(stack, "wait") => \E g \in ToSet(Tail(todo[t])) : g[1] = "wait"
      /\ Has(todo[t], "settled") => Has(stack, "settled")
  BY <1>1, <1>3, BecomesWaits DEF Marks
<1>5. ToSet(todo[t]) = {Head(todo[t])} \cup ToSet(Tail(todo[t]))
  BY <1>1, TailFrames DEF WaitInv
<1>6. todo' = [todo EXCEPT ![t] = stack, ![m] = round]
  BY DEF Watch
<1>7. m \in Monitors
  BY PeerAssumption DEF Monitors
<1> HIDE DEF m, stack, round
<1>8. \A u \in Threads : todo'[u] = IF u = m THEN round ELSE IF u = t THEN stack ELSE todo[u]
  BY <1>6 DEF PlacesInv
<1>9. Has(stack, "wait") => Has(todo[t], "wait")
  BY <1>4, <1>5 DEF Has
<1>10. Ordered(round) /\ ~Has(round, "wait")
  <2>1. MadeOf(round, Unasked)
    BY <1>2, SendingUnasked
  <2>2. ~Has(round, "wait")
    BY <2>1 DEF MadeOf, Has, Unasked, Rounds, Sending
  <2>3. QED
    BY <2>1, <2>2, UnaskedOrdered
<1>11. m \in Threads => ~Has(todo[m], "settled") /\ \A c : ~Halts(todo[m], c)
  <2>1. m \in Threads => MadeOf(todo[m], Rounds) /\ Ordered(todo[m])
    BY <1>7 DEF WaitInv
  <2>2. m \in Threads /\ todo[m] # <<>> => Head(todo[m]) \in ToSet(todo[m])
    BY <2>1, TailFrames
  <2>3. QED
    BY <2>1, <2>2 DEF MadeOf, Has, Halts, Rounds, Sending
<1>12. \A c : ~Halts(todo[t], c)
  BY <1>1 DEF Halts
<1>13. \A u \in Threads :
         \/ todo'[u] = todo[u]
         \/ /\ Ordered(todo'[u]) /\ (u \in Monitors => MadeOf(todo'[u], Rounds))
            /\ u \in pending' /\ Has(todo[u], "settled") => Has(todo'[u], "settled")
            /\ Has(todo'[u], "wait") => Has(todo[u], "wait") \/ Answerable(u)'
            /\ \A c : Halts(todo[u], c) => c \in event'
  BY <1>2, <1>4, <1>8, <1>9, <1>10, <1>11, <1>12
<1>14. \A c : Answerable(c) => Answerable(c)'
  BY <1>1 DEF Answerable
<1>15. calls' \subseteq calls /\ event \subseteq event' /\ pending' = pending
  BY <1>1
<1>16. QED
  BY <1>13, <1>14, <1>15, WaitsKept

\* What is called by a command.
LEMMA CommandFrames ==
  ASSUME NEW name \in Commands
  PROVE  /\ Ordered(Command(name)) /\ ~Has(Command(name), "wait")
         /\ Command(name) # <<>>
<1> DEFINE frames == Command(name)
<1>1. CASE name = "request"
  <2>1. frames = <<<<"register">>>>
    BY <1>1 DEF Command
  <2>2. ToSet(<<<<"register">>>>) = {<<"register">>}
    BY DEF ToSet
  <2>3. QED
    BY <2>1, <2>2, RequestOrdered DEF Has
<1>2. CASE name # "request"
  <2>1. {"unserve", "dispatcher_stop", "peer_stop", "peer_start", "serve", "dispatcher_start",
         "monitor", "refresh"} \subseteq Unasked
    BY DEF Unasked, Rounds, Sending
  <2>2. /\ MadeOf(<<<<"unserve">>, <<"dispatcher_stop">>, <<"peer_stop">>>>, Unasked)
        /\ MadeOf(<<<<"peer_start">>, <<"serve">>, <<"dispatcher_start">>>>, Unasked)
        /\ MadeOf(<<<<"peer_stop">>>>, Unasked) /\ MadeOf(<<<<"peer_start">>>>, Unasked)
        /\ MadeOf(<<<<"monitor">>>>, Unasked) /\ MadeOf(<<<<"refresh">>>>, Unasked)
        /\ MadeOf(<<<<"dispatcher_stop">>>>, Unasked)
    BY <2>1, MadeList
  <2>3. MadeOf(frames, Unasked)
    BY <1>2, <2>2 DEF Command, Commands
  <2>4. frames # <<>>
    BY DEF Command, Commands
  <2> HIDE DEF frames
  <2>5. Ordered(frames) /\ ~Has(frames, "wait")
    BY <2>3, UnaskedOrdered DEF MadeOf, Has, Unasked, Rounds, Sending
  <2>6. QED
    BY <2>4, <2>5 DEF frames
<1>3. QED
  BY <1>1, <1>2

\* What is called, handlers that end, packets that are published, exceptions.
LEMMA CallsWait ==
  ASSUME WaitInv, PlacesInv, UNCHANGED <<channelVars, peerVars, dispatcherVars>>,
         NEW t \in Threads,
         Call(t) \/ ((Leave(t) \/ Published(t) \/ Unwind(t)) /\ UNCHANGED calls)
  PROVE  WaitInv'
<1>1. UNCHANGED <<pending, event, up>>
  BY DEF peerVars, requests
<1>2. CASE Call(t)
  <2>1. PICK call \in calls :
          /\ call[1] = t /\ calls' = calls \ {call}
          /\ \/ At(t, "user") /\ todo' = [todo EXCEPT ![t] = Command(call[2]) \o @]
             \/ /\ Idle(t) \/ At(t, "asleep")
                /\ todo' = [todo EXCEPT ![t] = Command(call[2])]
    BY <1>2 DEF Call
  <2> DEFINE name == call[2]
             frames == Command(name)
  <2>2. name \in Commands /\ (t \in Monitors => name = "round")
    BY <2>1 DEF WaitInv, PlacesInv
  <2> HIDE DEF name
  <2>3. Ordered(frames) /\ ~Has(frames, "wait")
    BY <2>2, CommandFrames
  <2>4. t \in Monitors => MadeOf(frames, Rounds)
    <3>1. MadeOf(<<<<"monitor">>>>, Rounds)
      BY MadeList DEF Rounds
    <3>2. QED
      BY <2>2, <3>1 DEF Command
  <2>5. /\ Ordered(todo[t]) /\ (t \in Monitors => MadeOf(todo[t], Rounds))
        /\ todo[t] # <<>> =>
             /\ ToSet(todo[t]) = {Head(todo[t])} \cup ToSet(Tail(todo[t]))
             /\ \A g \in ToSet(Tail(todo[t])) : Over(Head(todo[t]), g)
    BY TailFrames DEF WaitInv
  <2>6. \A g \in ToSet(todo[t]) : g[1] \notin Asking
    <3>1. CASE todo[t] = <<>>
      BY <3>1 DEF ToSet
    <3>2. CASE todo[t] # <<>>
      <4>1. Head(todo[t])[1] \in {"user", "asleep"}
        BY <2>1, <3>2 DEF At, Idle
      <4>2. Head(todo[t])[1] \notin Sending \cup {"wait"} /\ Head(todo[t])[1] \notin Asking
        BY <4>1 DEF Sending, Asking
      <4>3. QED
        BY <2>5, <3>2, <4>2 DEF Over
    <3>3. QED
      BY <3>1, <3>2
  <2>7. ~Has(todo[t], "settled") /\ ~Has(todo[t], "wait")
    BY <2>6 DEF Has, Asking
  <2>8. \A c : ~Halts(todo[t], c)
    <3>1. todo[t] # <<>> => Head(todo[t])[1] \in {"user", "asleep"}
      BY <2>1 DEF At, Idle
    <3>2. QED
      BY <3>1 DEF Halts
  <2>9. calls' \subseteq calls
    BY <2>1
  <2>10. CASE At(t, "user") /\ todo' = [todo EXCEPT ![t] = frames \o @]
    <3> DEFINE stack == frames \o todo[t]
    <3>1. t \notin Monitors
      BY <2>5, <2>10 DEF At, MadeOf, Rounds, Sending
    <3> HIDE DEF frames
    <3>2. \A f \in ToSet(frames), g \in ToSet(todo[t]) : Over(f, g)
      BY <2>6 DEF Over
    <3>3. Ordered(stack)
      BY <2>3, <2>5, <3>2, OrderedConcat
    <3>4. ToSet(stack) = ToSet(frames) \cup ToSet(todo[t])
      BY <2>3, <2>5, ConcatFrames DEF Ordered
    <3>5. todo' = [todo EXCEPT ![t] = stack]
      BY <2>10
    <3> HIDE DEF stack
    <3>6. ~Has(stack, "wait")
      BY <2>3, <2>7, <3>4 DEF Has
    <3>7. QED
      BY <1>1, <2>7, <2>8, <2>9, <3>1, <3>3, <3>5, <3>6, StackWaits
  <2>11. CASE todo' = [todo EXCEPT ![t] = frames]
    <3> HIDE DEF frames
    <3>1. QED
      BY <1>1, <2>3, <2>4, <2>7, <2>8, <2>9, <2>11, StackWaits
  <2>12. QED
    BY <2>1, <2>10, <2>11 DEF name
<1>3. CASE (Leave(t) \/ Published(t)) /\ UNCHANGED calls
  <2>1. todo[t] # <<>> /\ Head(todo[t])[1] \in {"user", "published"}
    BY <1>3 DEF Leave, Published, At
  <2>2. Head(todo[t])[1] \notin Rounds \cup {"wait"}
    BY <2>1 DEF Rounds, Sending
  <2>3. MadeOf(<<>>, Unasked) /\ \A packet : MadeOf(<<<<"on_packet", packet>>>>, Unasked)
    BY MadeList DEF Unasked
  <2>4. PICK frames : Does(t, frames) /\ MadeOf(frames, Unasked)
    BY <1>3, <2>3 DEF Leave, Published
  <2>5. calls' \subseteq calls /\ event \subseteq event' /\ up \subseteq up' /\ pending' = pending
    BY <1>1, <1>3
  <2>6. QED
    BY <2>1, <2>2, <2>4, <2>5, StepWaits
<1>4. CASE Unwind(t) /\ UNCHANGED calls
  <2> DEFINE rest == Tail(todo[t])
             stack == Unwound(rest)
  <2>1. /\ todo[t] # <<>> /\ Head(todo[t])[1] = "raise"
        /\ todo' = [todo EXCEPT ![t] = stack]
    BY <1>4 DEF Unwind, At
  <2>2. /\ Ordered(rest) /\ ToSet(todo[t]) = {Head(todo[t])} \cup ToSet(rest)
        /\ t \in Monitors => MadeOf(todo[t], Rounds)
    BY <2>1, TailFrames DEF WaitInv
  <2>3. \A f \in ToSet(todo[t]) : f[1] # "caught"
    <3>1. Shape(t, todo[t], generation)
      BY DEF PlacesInv
    <3>2. \A i \in 1..Len(todo[t]) : todo[t][i][1] # "caught"
      BY <3>1 DEF Shape, Allowed
    <3>3. QED
      BY <3>1, <3>2 DEF Shape, ToSet
  <2> HIDE DEF rest
  <2>4. /\ Ordered(stack)
        /\ \A f \in ToSet(stack) : f = <<"raise">> \/ \E g \in ToSet(rest) : f[1] = g[1]
        /\ Has(rest, "settled") => Has(stack, "settled")
    BY <2>2, <2>3, UnwoundFrames
  <2> HIDE DEF stack
  <2>5. t \in Monitors => MadeOf(stack, Rounds)
    <3>1. "raise" \in Rounds
      BY DEF Rounds, Sending
    <3>2. QED
      BY <2>2, <2>4, <3>1 DEF MadeOf, Ordered
  <2>6. /\ Has(todo[t], "settled") => Has(stack, "settled")
        /\ Has(stack, "wait") => Has(todo[t], "wait")
    BY <2>1, <2>2, <2>4 DEF Has
  <2>7. \A c : ~Halts(todo[t], c)
    BY <2>1 DEF Halts
  <2>8. calls' \subseteq calls
    BY <1>4
  <2>9. QED
    BY <1>1, <2>1, <2>4, <2>5, <2>6, <2>7, <2>8, StackWaits
<1>5. QED
  BY <1>2, <1>3, <1>4

\* Frames on a stack that was empty.
LEMMA IdleWaits ==
  ASSUME WaitInv, PlacesInv, UNCHANGED <<calls, pending, event, up>>, NEW t \in Threads, Idle(t),
         t \notin Monitors, NEW a, NEW b, a[1] \in Unasked, b[1] \in Unasked,
         todo' = [todo EXCEPT ![t] = <<a, b>>]
  PROVE  WaitInv'
<1> DEFINE stack == <<a, b>>
<1>1. MadeOf(stack, Unasked)
  BY MadeList
<1>2. todo' = [todo EXCEPT ![t] = stack] /\ calls' \subseteq calls
  OBVIOUS
<1> HIDE DEF stack
<1>3. Ordered(stack) /\ ~Has(stack, "wait")
  BY <1>1, UnaskedOrdered DEF MadeOf, Has, Unasked, Rounds, Sending
<1>4. ~Has(todo[t], "settled") /\ \A c : ~Halts(todo[t], c)
  BY DEF Idle, Has, ToSet, Halts
<1>5. QED
  BY <1>2, <1>3, <1>4, StackWaits

LEMMA ChannelWaits ==
  ASSUME WaitInv, PlacesInv, ChannelNext, UNCHANGED <<peerVars, dispatcherVars, calls>>
  PROVE  WaitInv'
<1>1. UNCHANGED <<pending, event, up, calls>>
  BY DEF peerVars, requests
<1>2. ASSUME todo' = todo PROVE WaitInv'
  BY <1>1, <1>2 DEF WaitInv, Answerable
<1>3. ASSUME NEW n \in Nodes, Accept(n) PROVE WaitInv'
  <2>1. PICK g : Assemble(n, g)
    BY <1>3 DEF Accept
  <2>2. \/ todo' = todo
        \/ todo' = [todo EXCEPT ![Receiver(n)] = <<<<"published", g.packet>>, <<"swallow">>>>]
    BY <2>1 DEF Assemble
  <2>3. Receiver(n) \in Threads /\ Idle(Receiver(n)) /\ Receiver(n) \notin Monitors
    BY <1>3, ChannelAssumption, PeerAssumption DEF Accept, Monitors
  <2>4. "published" \in Unasked /\ "swallow" \in Unasked
    BY DEF Unasked, Rounds
  <2>5. CASE todo' = [todo EXCEPT ![Receiver(n)] = <<<<"published", g.packet>>, <<"swallow">>>>]
    <3> DEFINE r == Receiver(n)
               a == <<"published", g.packet>>
               b == <<"swallow">>
    <3>1. /\ a[1] \in Unasked /\ b[1] \in Unasked /\ todo' = [todo EXCEPT ![r] = <<a, b>>]
          /\ r \in Threads /\ Idle(r) /\ r \notin Monitors
      BY <2>3, <2>4, <2>5
    <3> HIDE DEF r, a, b
    <3>2. QED
      BY <1>1, <3>1, IdleWaits
  <2>6. QED
    BY <1>2, <2>2, <2>5
<1>4. ASSUME NEW t \in Threads, NEW n \in Nodes, Listen(t, n) \/ Unlisten(t, n) \/ Clear(t, n)
      PROVE  WaitInv'
  <2>1. todo[t] # <<>> /\ Does(t, <<>>) /\ Head(todo[t])[1] \in {"listen", "unlisten", "clear"}
    BY <1>4 DEF Listen, Unlisten, Clear, At
  <2>2. MadeOf(<<>>, Sending)
    BY MadeList
  <2>3. calls' \subseteq calls /\ event \subseteq event' /\ up \subseteq up' /\ pending' = pending
    BY <1>1
  <2>4. QED
    BY <2>1, <2>2, <2>3, StepWaits
<1>5. CASE Lose \/ Damage \/ Unheard \/ \E n \in Nodes : Prune(n)
  BY <1>2, <1>5 DEF Lose, Damage, Unheard, Prune
<1>6. QED
  BY <1>3, <1>4, <1>5 DEF ChannelNext

\* What the steps of the dispatcher call.
LEMMA DispatcherFrames ==
  ASSUME DispatcherNext
  PROVE  \/ \E t \in Threads : \E packet :
              /\ Idle(t) /\ t \notin Monitors
              /\ todo' = [todo EXCEPT ![t] = <<<<"handle", packet>>, <<"free">>>>]
         \/ \E t \in Threads : \E frames :
              /\ todo[t] # <<>> /\ Does(t, frames) /\ MadeOf(frames, Unasked)
              /\ Head(todo[t])[1] \notin Rounds \cup {"wait", "settled", "halt"}
<1>1. ASSUME NEW t \in Workers, Work(t)
      PROVE  \E packet :
               /\ t \in Threads /\ Idle(t) /\ t \notin Monitors
               /\ todo' = [todo EXCEPT ![t] = <<<<"handle", packet>>, <<"free">>>>]
  <2>1. t \in Threads /\ Idle(t) /\ t \notin Monitors
    BY <1>1, DispatcherAssumption DEF Work, Monitors
  <2>2. PICK packet : todo' = [todo EXCEPT ![t] = <<<<"handle", packet>>, <<"free">>>>]
    BY <1>1 DEF Work
  <2>3. QED
    BY <2>1, <2>2
<1>2. ASSUME NEW t \in Threads,
             \/ Dispatch(t) \/ Admit(t) \/ Submit(t) \/ Handle(t) \/ AnswerRequest(t) \/ Free(t)
             \/ Serve(t) \/ DispatcherStart(t) \/ DispatcherStop(t) \/ Shutdown(t) \/ Drain(t)
      PROVE  \E frames :
               /\ todo[t] # <<>> /\ Does(t, frames) /\ MadeOf(frames, Unasked)
               /\ Head(todo[t])[1] \notin Rounds \cup {"wait", "settled", "halt"}
  <2>1. /\ todo[t] # <<>>
        /\ Head(todo[t])[1] \in {"handed", "admit", "submit", "handle", "answer", "free", "serve",
             "unserve", "dispatcher_start", "dispatcher_stop", "shutdown", "drain"}
    BY <1>2 DEF Dispatch, Admit, Submit, Handle, AnswerRequest, Free, Serve, DispatcherStart,
         DispatcherStop, Shutdown, Drain, At
  <2>2. Head(todo[t])[1] \notin Rounds \cup {"wait", "settled", "halt"}
    BY <2>1 DEF Rounds, Sending
  <2>3. {"admit", "submit", "send", "swallow", "user", "answer", "shutdown", "drain"} \subseteq Unasked
    BY DEF Unasked, Rounds, Sending
  <2>4. /\ MadeOf(<<>>, Unasked)
        /\ \A asked : MadeOf(<<<<"admit", asked>>>>, Unasked) /\ MadeOf(<<<<"submit", asked>>>>, Unasked)
        /\ \A g : MadeOf(<<<<"shutdown", g>>>>, Unasked) /\ MadeOf(<<<<"drain", g>>>>, Unasked)
        /\ \A packet : /\ MadeOf(<<<<"answer", packet>>>>, Unasked)
                       /\ MadeOf(<<<<"user">>, <<"swallow">>, <<"answer", packet>>>>, Unasked)
    BY <2>3, MadeList
  <2>5. \A kind, packet : MadeOf(Respond(kind, packet), Unasked)
    <3>1. \A packet : MadeOf(<<<<"send", packet>>, <<"swallow">>>>, Unasked)
      BY <2>3, MadeList
    <3>2. QED
      BY <2>4, <3>1 DEF Respond
  <2>6. PICK frames : Does(t, frames) /\ MadeOf(frames, Unasked)
    BY <1>2, <2>4, <2>5 DEF Dispatch, Admit, Submit, Handle, AnswerRequest, Free, Serve,
         DispatcherStart, DispatcherStop, Shutdown, Drain
  <2>7. QED
    BY <2>1, <2>2, <2>6
<1>3. QED
  BY <1>1, <1>2 DEF DispatcherNext

LEMMA DispatcherKeepsPeer ==
  ASSUME DispatcherNext PROVE UNCHANGED <<pending, event, up, transport>>
BY DEF DispatcherNext, Dispatch, Admit, Submit, Work, Handle, AnswerRequest, Free, Serve,
       DispatcherStart, DispatcherStop, Shutdown, Drain, peerVars, peerRest, requests

LEMMA DispatcherWaits ==
  ASSUME WaitInv, PlacesInv, DispatcherNext, UNCHANGED calls
  PROVE  WaitInv'
<1>1. UNCHANGED <<pending, event, up>>
  BY DispatcherKeepsPeer
<1>2. ASSUME NEW t \in Threads, NEW packet, Idle(t), t \notin Monitors,
             todo' = [todo EXCEPT ![t] = <<<<"handle", packet>>, <<"free">>>>]
      PROVE  WaitInv'
  <2> DEFINE a == <<"handle", packet>>
             b == <<"free">>
  <2>1. a[1] \in Unasked /\ b[1] \in Unasked /\ todo' = [todo EXCEPT ![t] = <<a, b>>]
    BY <1>2 DEF Unasked
  <2> HIDE DEF a, b
  <2>2. QED
    BY <1>1, <1>2, <2>1, IdleWaits
<1>3. ASSUME NEW t \in Threads, NEW frames, todo[t] # <<>>, Does(t, frames), MadeOf(frames, Unasked),
             Head(todo[t])[1] \notin Rounds \cup {"wait", "settled", "halt"}
      PROVE  WaitInv'
  <2>1. calls' \subseteq calls /\ event \subseteq event' /\ up \subseteq up' /\ pending' = pending
    BY <1>1
  <2>2. QED
    BY <1>3, <2>1, StepWaits
<1>4. QED
  BY <1>2, <1>3, DispatcherFrames

LEMMA WaitStep ==
  ASSUME WaitInv, PlacesInv, [Next]_vars PROVE WaitInv'
<1>1. CASE ChannelNext /\ UNCHANGED <<peerVars, dispatcherVars, calls>>
  BY <1>1, ChannelWaits
<1>2. ASSUME UNCHANGED <<todo, calls, pending, event, up>> PROVE WaitInv'
  BY <1>2 DEF WaitInv, Answerable
<1>3. CASE PeerNext /\ UNCHANGED <<dispatcherVars, calls>>
  <2>1. ASSUME NEW n \in Nodes, Toggle(n) PROVE WaitInv'
    BY <1>2, <1>3, <2>1 DEF Toggle, requests
  <2>2. QED
    BY <1>3, <2>1, PeerWaits, RegisterWaits, PeerStopWaits, WatchWaits DEF PeerNext
<1>4. CASE DispatcherNext /\ UNCHANGED calls
  BY <1>4, DispatcherWaits
<1>5. CASE \E t \in Threads : Call(t) \/ Leave(t) \/ Published(t)
  BY <1>5, CallsWait DEF Call, Leave, Published
<1>6. CASE \E t \in Threads : Unwind(t) /\ UNCHANGED <<channelVars, peerVars, dispatcherVars, calls>>
  BY <1>6, CallsWait
<1>7. CASE UNCHANGED vars
  BY <1>2, <1>7 DEF vars, peerVars, requests
<1>8. QED
  BY <1>1, <1>3, <1>4, <1>5, <1>6, <1>7 DEF Next, Terminating

LEMMA WaitBegin == ASSUME Init PROVE WaitInv
<1>1. /\ todo = [t \in Threads |-> IF \E n \in Nodes : t = Monitor(n) THEN <<<<"asleep">>>> ELSE <<>>]
      /\ pending = {}
  BY DEF Init, PeerInit
<1>2. MadeOf(<<<<"asleep">>>>, Rounds) /\ MadeOf(<<>>, Rounds)
  BY MadeList DEF Rounds
<1>3. Ordered(<<<<"asleep">>>>) /\ Ordered(<<>>)
  BY <1>2, SendingUnasked, UnaskedOrdered
<1>4. \A t \in Threads : Ordered(todo[t]) /\ MadeOf(todo[t], Rounds)
  BY <1>1, <1>2, <1>3
<1>5. \A call \in calls : call[1] \in Monitors => call[2] = "round"
  BY PlansAssumption DEF Init, Monitors
<1>6. \A c \in Callers : ~Has(todo[c], "wait")
  BY <1>4, PeerAssumption DEF MadeOf, Has, Rounds, Sending
<1>7. QED
  BY <1>1, <1>4, <1>5, <1>6 DEF WaitInv

\* Who waits when the transport is lost.

\* A wait is reached from what stands directly above it: the packet has been sent,
\* or the exception leaves it.
Near == {"send", "sent", "raise"}
Waits(stack) == stack # <<>> /\ Head(stack)[1] = "wait"
Tight(stack) ==
  /\ stack \in Seq(ToSet(stack))
  /\ \A i \in 1..Len(stack) : stack[i][1] = "wait" => i = 1 \/ stack[i - 1][1] \in Near

\* The owner of this stack is about to fail c.
Fails(stack, c) == stack # <<>> /\ Head(stack)[1] = "fail" /\ c \in Head(stack)[2]

\* The inductive invariant: who has sent its request and waits has a peer that takes
\* the transport to be available, or will be woken by who has seen the loss.
LossInv ==
  /\ \A t \in Threads : Tight(todo[t])
  /\ \A c \in pending : NodeOf(c) \in up
  /\ \A c \in pending : Waits(todo[c]) /\ c \notin event =>
       NodeOf(c) \in transport \/ \E t \in Threads : Fails(todo[t], c)

LEMMA TightEnd ==
  ASSUME NEW stack, Tight(stack), NEW k \in 1..Len(stack)
  PROVE  /\ Tight(SubSeq(stack, k, Len(stack))) /\ SubSeq(stack, k, Len(stack)) # <<>>
         /\ Head(SubSeq(stack, k, Len(stack))) = stack[k]
<1> DEFINE rest == SubSeq(stack, k, Len(stack))
<1>1. stack \in Seq(ToSet(stack)) /\ Len(stack) \in Nat /\ k \in Nat /\ k \in 1..(Len(stack) + 1)
  BY DEF Tight
<1>2. /\ rest \in Seq(ToSet(rest)) /\ Len(rest) = Len(stack) + 1 - k
      /\ \A i \in 1..(Len(stack) + 1 - k) : rest[i] = stack[i + k - 1]
  BY <1>1, EndFrames
<1> HIDE DEF rest
<1>3. ASSUME NEW i \in 1..Len(rest), rest[i][1] = "wait", i # 1 PROVE rest[i - 1][1] \in Near
  <2>1. /\ i \in 1..(Len(stack) + 1 - k) /\ i - 1 \in 1..(Len(stack) + 1 - k)
        /\ i + k - 1 \in 1..Len(stack) /\ i + k - 1 # 1 /\ i + k - 1 - 1 = i - 1 + k - 1
    BY <1>1, <1>2, <1>3
  <2>2. rest[i] = stack[i + k - 1] /\ rest[i - 1] = stack[i - 1 + k - 1]
    BY <1>2, <2>1
  <2>3. stack[i + k - 1 - 1][1] \in Near
    BY <1>3, <2>1, <2>2 DEF Tight
  <2>4. QED
    BY <2>1, <2>2, <2>3
<1>4. rest # <<>> /\ Head(rest) = stack[k]
  <2>1. Len(rest) \in Nat /\ Len(rest) >= 1 /\ 1 \in 1..(Len(stack) + 1 - k) /\ 1 + k - 1 = k
    BY <1>1, <1>2
  <2>2. rest[1] = stack[k]
    BY <1>2, <2>1
  <2>3. QED
    BY <1>2, <2>1, <2>2
<1>5. QED
  BY <1>2, <1>3, <1>4 DEF Tight, rest

LEMMA TightNone ==
  ASSUME NEW frames, Ordered(frames), ~Has(frames, "wait")
  PROVE  Tight(frames) /\ ~Waits(frames)
<1>1. frames \in Seq(ToSet(frames)) /\ \A i \in 1..Len(frames) : frames[i] \in ToSet(frames)
  BY DEF Ordered, ToSet
<1>2. \A f \in ToSet(frames) : f[1] # "wait"
  BY DEF Has
<1>3. frames # <<>> => Head(frames) = frames[1] /\ 1 \in 1..Len(frames)
  BY <1>1
<1>4. QED
  BY <1>1, <1>2, <1>3 DEF Tight, Waits

LEMMA TightUnasked ==
  ASSUME NEW frames, MadeOf(frames, Unasked) PROVE Tight(frames) /\ ~Waits(frames)
<1>1. Ordered(frames) /\ ~Has(frames, "wait")
  BY UnaskedOrdered DEF MadeOf, Has, Unasked, Rounds, Sending
<1>2. QED
  BY <1>1, TightNone

LEMMA TightTail ==
  ASSUME NEW stack, Tight(stack), stack # <<>>
  PROVE  /\ Tight(Tail(stack))
         /\ Waits(Tail(stack)) => Head(stack)[1] \in Near
<1>1. /\ stack \in Seq(ToSet(stack)) /\ Len(stack) \in Nat /\ Len(stack) >= 1
      /\ Head(stack) = stack[1] /\ Tail(stack) = SubSeq(stack, 2, Len(stack))
  BY DEF Tight
<1>2. CASE Len(stack) = 1
  <2>1. Tail(stack) = <<>>
    BY <1>1, <1>2
  <2>2. QED
    BY <2>1, MadeList, TightUnasked
<1>3. CASE Len(stack) # 1
  <2>1. 2 \in 1..Len(stack)
    <3>1. \A n \in Nat : n >= 1 /\ n # 1 => 2 \in 1..n
      OBVIOUS
    <3>2. QED
      BY <1>1, <1>3, <3>1
  <2>2. Tight(Tail(stack)) /\ Head(Tail(stack)) = stack[2]
    BY <1>1, <2>1, TightEnd
  <2>3. stack[2][1] = "wait" => stack[1][1] \in Near
    BY <2>1 DEF Tight
  <2>4. QED
    BY <1>1, <2>2, <2>3 DEF Waits
<1>4. QED
  BY <1>2, <1>3

LEMMA TightConcat ==
  ASSUME NEW a, NEW b, Tight(a), Tight(b), a # <<>>, Waits(b) => a[Len(a)][1] \in Near
  PROVE  Tight(a \o b) /\ a \o b # <<>> /\ Head(a \o b) = Head(a)
<1> DEFINE s == a \o b
<1>1. /\ a \in Seq(ToSet(a)) /\ b \in Seq(ToSet(b)) /\ Len(a) \in Nat /\ Len(b) \in Nat
      /\ Len(a) >= 1 /\ Head(a) = a[1]
  BY DEF Tight
<1>2. /\ s \in Seq(ToSet(s)) /\ Len(s) = Len(a) + Len(b)
      /\ \A i \in 1..(Len(a) + Len(b)) : s[i] = IF i <= Len(a) THEN a[i] ELSE b[i - Len(a)]
  BY <1>1, ConcatFrames
<1> HIDE DEF s
<1>3. ASSUME NEW i \in 1..Len(s), s[i][1] = "wait", i # 1 PROVE s[i - 1][1] \in Near
  <2>1. i \in 1..(Len(a) + Len(b)) /\ i - 1 \in 1..(Len(a) + Len(b)) /\ i \in Nat
    BY <1>1, <1>2, <1>3
  <2>2. CASE i <= Len(a)
    <3>1. i \in 1..Len(a) /\ i - 1 <= Len(a)
      BY <1>1, <2>1, <2>2
    <3>2. s[i] = a[i] /\ s[i - 1] = a[i - 1]
      BY <1>2, <2>1, <2>2, <3>1
    <3>3. QED
      BY <1>3, <3>1, <3>2 DEF Tight
  <2>3. CASE i = Len(a) + 1
    <3>1. ~(i <= Len(a)) /\ i - 1 <= Len(a) /\ i - Len(a) = 1 /\ i - 1 = Len(a) /\ Len(b) >= 1
      BY <1>1, <2>1, <2>3
    <3>2. s[i] = b[1] /\ s[i - 1] = a[Len(a)]
      BY <1>2, <2>1, <3>1
    <3>3. b # <<>> /\ Head(b) = b[1]
      BY <1>1, <3>1
    <3>4. QED
      BY <1>3, <3>2, <3>3 DEF Waits
  <2>4. CASE ~(i <= Len(a)) /\ i # Len(a) + 1
    <3>1. /\ ~(i - 1 <= Len(a)) /\ i - Len(a) \in 1..Len(b) /\ i - Len(a) # 1
          /\ i - 1 - Len(a) = i - Len(a) - 1
      BY <1>1, <2>1, <2>4
    <3>2. s[i] = b[i - Len(a)] /\ s[i - 1] = b[i - Len(a) - 1]
      BY <1>2, <2>1, <2>4, <3>1
    <3>3. QED
      BY <1>3, <3>1, <3>2 DEF Tight
  <2>5. QED
    BY <2>2, <2>3, <2>4
<1>4. s # <<>> /\ Head(s) = Head(a)
  <2>1. 1 \in 1..(Len(a) + Len(b)) /\ 1 <= Len(a) /\ Len(s) >= 1
    BY <1>1, <1>2
  <2>2. s[1] = a[1] /\ s # <<>> /\ Head(s) = s[1]
    BY <1>2, <2>1
  <2>3. QED
    BY <1>1, <2>2
<1>5. QED
  BY <1>2, <1>3, <1>4 DEF Tight, s

LEMMA TightReached ==
  ASSUME NEW stack, Tight(stack)
  PROVE  Tight(Reached(stack)) /\ (Waits(Reached(stack)) => Waits(stack))
<1>1. stack \in Seq(ToSet(stack)) /\ Len(stack) \in Nat
  BY DEF Tight
<1>2. CASE Reached(stack) = <<>>
  BY <1>2, MadeList, TightUnasked
<1>3. ASSUME NEW k \in 1..Len(stack), Reached(stack) = SubSeq(stack, k, Len(stack)),
             \A i \in 1..(k - 1) : stack[i][1] \in Marks
      PROVE  Tight(Reached(stack)) /\ (Waits(Reached(stack)) => Waits(stack))
  <2>1. Tight(Reached(stack)) /\ Reached(stack) # <<>> /\ Head(Reached(stack)) = stack[k]
    BY <1>3, TightEnd
  <2>2. ASSUME stack[k][1] = "wait" PROVE k = 1
    <3>1. k = 1 \/ stack[k - 1][1] \in Near
      BY <2>2 DEF Tight
    <3>2. k = 1 \/ k - 1 \in 1..(k - 1)
      BY <1>1
    <3>3. QED
      BY <1>3, <3>1, <3>2 DEF Near, Marks
  <2>3. stack # <<>> /\ Head(stack) = stack[1]
    BY <1>1
  <2>4. QED
    BY <2>1, <2>2, <2>3 DEF Waits
<1>4. QED
  BY <1>1, <1>2, <1>3, ReachedEnd

LEMMA TightUnwound ==
  ASSUME NEW stack, Tight(stack), \A f \in ToSet(stack) : f[1] # "caught"
  PROVE  Tight(Unwound(stack)) /\ ~Waits(Unwound(stack))
<1> DEFINE holders == {k \in 1..Len(stack) : stack[k][1] \in Marks \cup Finally}
           i == IF holders # {} THEN Min(holders) ELSE 0
           above == SubSeq(stack, i + 1, Len(stack))
           j == SelectInSeq(above, LAMBDA frame : frame[1] \in Reports)
<1>1. Unwound(stack) =
        CASE i = 0 -> <<>>
          [] i > 0 /\ stack[i][1] = "swallow" -> Reached(above)
          [] i > 0 /\ stack[i][1] = "caught" ->
               Reached([above EXCEPT ![j] = Told(above[j])])
          [] OTHER -> <<Told(stack[i]), <<"raise">>>> \o above
  BY DEF Unwound, SelectInSeq
<1>2. /\ stack \in Seq(ToSet(stack)) /\ Len(stack) \in Nat
      /\ \A k \in 1..Len(stack) : stack[k] \in ToSet(stack)
  BY DEF Tight, ToSet
<1> HIDE DEF j
<1>3. i # 0 => i \in 1..Len(stack) /\ stack[i][1] \in Marks \cup Finally
  <2>1. holders \in SUBSET Nat
    OBVIOUS
  <2>2. holders # {} => Min(holders) \in holders
    BY <2>1, MinExists
  <2>3. QED
    BY <2>2
<1> HIDE DEF i, holders
<1>4. Tight(<<>>) /\ ~Waits(<<>>)
  BY MadeList, TightUnasked
<1>5. CASE i = 0
  BY <1>1, <1>4, <1>5
<1>6. CASE i # 0
  <2>1. i \in 1..Len(stack) /\ i > 0 /\ i \in Nat /\ stack[i][1] \in Marks \cup Finally
    BY <1>2, <1>3, <1>6
  <2>2. stack[i][1] # "caught"
    BY <1>2, <2>1
  <2>3. /\ Tight(above) /\ (Waits(above) => stack[i][1] \in Near)
    <3>1. CASE i = Len(stack)
      <4>1. above = <<>>
        BY <1>2, <3>1
      <4>2. QED
        BY <1>4, <4>1
    <3>2. CASE i # Len(stack)
      <4>1. i + 1 \in 1..Len(stack) /\ i + 1 # 1 /\ i + 1 - 1 = i
        BY <1>2, <2>1, <3>2
      <4>2. Tight(above) /\ Head(above) = stack[i + 1]
        BY <4>1, TightEnd
      <4>3. stack[i + 1][1] = "wait" => stack[i][1] \in Near
        <5>1. ASSUME NEW k \in 1..Len(stack), k = i + 1, stack[k][1] = "wait"
              PROVE  stack[k - 1][1] \in Near /\ k - 1 = i
          BY <2>1, <5>1 DEF Tight
        <5>2. QED
          BY <4>1, <5>1
      <4>4. QED
        BY <4>2, <4>3 DEF Waits
    <3>3. QED
      BY <3>1, <3>2
  <2> HIDE DEF above
  <2>4. CASE stack[i][1] = "swallow"
    <3>1. Unwound(stack) = Reached(above)
      BY <1>1, <2>1, <2>4
    <3>2. ~Waits(above)
      BY <2>3, <2>4 DEF Near
    <3>3. QED
      BY <2>3, <3>1, <3>2, TightReached
  <2>5. CASE stack[i][1] # "swallow"
    <3> DEFINE a == Told(stack[i])
               b == <<"raise">>
               pair == <<a, b>>
    <3>1. Unwound(stack) = pair \o above
      BY <1>1, <2>1, <2>2, <2>5
    <3>2. a[1] # "wait" /\ b[1] = "raise"
      BY <2>1 DEF Told, Marks, Finally
    <3> HIDE DEF a, b
    <3>3. pair \in Seq({a, b}) /\ Len(pair) = 2 /\ pair[1] = a /\ pair[2] = b /\ Head(pair) = a
      OBVIOUS
    <3> HIDE DEF pair
    <3>4. pair \in Seq(ToSet(pair)) /\ pair # <<>>
      BY <3>3, SeqOfItself
    <3>5. Tight(pair)
      <4>1. \A k \in 1..Len(pair) : k = 1 \/ k = 2
        BY <3>3
      <4>2. \A k \in 1..Len(pair) : pair[k][1] # "wait"
        BY <3>2, <3>3, <4>1
      <4>3. QED
        BY <3>4, <4>2 DEF Tight
    <3>6. pair[Len(pair)][1] \in Near
      BY <3>2, <3>3 DEF Near
    <3>7. Tight(pair \o above) /\ Head(pair \o above) = a
      BY <2>3, <3>3, <3>4, <3>5, <3>6, TightConcat
    <3>8. QED
      BY <3>1, <3>2, <3>7 DEF Waits
  <2>6. QED
    BY <2>4, <2>5
<1>7. QED
  BY <1>5, <1>6

\* The stack of a thread that executes its next frame: it comes back to a wait only
\* from what stands directly above one.
LEMMA BecomesTight ==
  ASSUME NEW t, Tight(todo[t]), todo[t] # <<>>, NEW frames, Tight(frames),
         Head(todo[t])[1] \in Near => frames = <<>> \/ frames[Len(frames)][1] \in Near
  PROVE  /\ Tight(Becomes(t, frames))
         /\ Waits(Becomes(t, frames)) =>
              Waits(frames) \/ (frames = <<>> /\ Head(todo[t])[1] \in Near)
<1> DEFINE rest == Tail(todo[t])
           stack == frames \o rest
<1>1. Tight(rest) /\ (Waits(rest) => Head(todo[t])[1] \in Near)
  BY TightTail
<1>2. Becomes(t, frames) = Reached(stack)
  BY DEF Becomes
<1> HIDE DEF rest
<1>3. CASE frames = <<>>
  <2>1. rest \in Seq(ToSet(rest))
    BY <1>1 DEF Tight
  <2>2. stack = rest
    BY <1>3, <2>1
  <2> HIDE DEF stack
  <2>3. QED
    BY <1>1, <1>2, <1>3, <2>2, TightReached
<1>4. CASE frames # <<>>
  <2>1. Waits(rest) => frames[Len(frames)][1] \in Near
    BY <1>1, <1>4
  <2>2. Tight(stack) /\ Head(stack) = Head(frames)
    BY <1>1, <1>4, <2>1, TightConcat
  <2> HIDE DEF stack
  <2>3. Waits(stack) => Waits(frames)
    BY <1>4, <2>2 DEF Waits
  <2>4. QED
    BY <1>2, <2>2, <2>3, TightReached
<1>5. QED
  BY <1>3, <1>4

\* A step keeps the invariant if a stack that changes comes to a wait only with the
\* transport available and has done what it was about to do; and if whoever loses the
\* transport is about to be failed.
LEMMA LossKept ==
  ASSUME LossInv, event \subseteq event',
         \A u \in Threads :
           \/ todo'[u] = todo[u]
           \/ /\ Tight(todo'[u]) /\ (Waits(todo'[u]) => NodeOf(u) \in transport')
              /\ \A c : Fails(todo[u], c) => c \in event',
         \A c \in pending' :
           /\ c \in Threads /\ NodeOf(c) \in up'
           /\ c \in pending \/ ~Waits(todo'[c])
           /\ NodeOf(c) \in transport =>
                NodeOf(c) \in transport' \/ \E u \in Threads : Fails(todo'[u], c)
  PROVE  LossInv'
<1>1. \A u \in Threads : Tight(todo'[u])
  BY DEF LossInv
<1>2. \A c \in pending' : NodeOf(c) \in up'
  OBVIOUS
<1>3. ASSUME NEW c \in pending', Waits(todo'[c]), c \notin event', NodeOf(c) \notin transport'
      PROVE  \E t \in Threads : Fails(todo'[t], c)
  <2>1. c \in Threads /\ c \in pending /\ c \notin event /\ todo'[c] = todo[c]
    BY <1>3
  <2>2. CASE NodeOf(c) \in transport
    BY <1>3, <2>2
  <2>3. CASE NodeOf(c) \notin transport
    <3>1. PICK t \in Threads : Fails(todo[t], c)
      BY <1>3, <2>1, <2>3 DEF LossInv
    <3>2. Fails(todo'[t], c)
      BY <1>3, <3>1
    <3>3. QED
      BY <3>2
  <2>4. QED
    BY <2>2, <2>3
<1>4. QED
  BY <1>1, <1>2, <1>3 DEF LossInv

\* A step that does not begin a request.
LEMMA StepLoss ==
  ASSUME LossInv, WaitInv, PlacesInv, event \subseteq event', up \subseteq up', pending' \subseteq pending,
         NEW t \in Threads, todo[t] # <<>>, NEW frames, Does(t, frames), MadeOf(frames, Unasked),
         Head(todo[t])[1] \in Near =>
           \/ frames # <<>> /\ frames[Len(frames)][1] \in Near
           \/ frames = <<>> /\ NodeOf(t) \in transport',
         Head(todo[t])[1] = "fail" => Head(todo[t])[2] \subseteq event',
         \A c \in pending' : NodeOf(c) \in transport =>
           NodeOf(c) \in transport' \/ \E u \in Threads : Fails(todo'[u], c)
  PROVE  LossInv'
<1> DEFINE stack == Becomes(t, frames)
<1>1. Tight(frames) /\ ~Waits(frames)
  BY TightUnasked
<1>2. Tight(todo[t])
  BY DEF LossInv
<1>3. Tight(stack) /\ (Waits(stack) => frames = <<>> /\ Head(todo[t])[1] \in Near)
  BY <1>1, <1>2, BecomesTight
<1>4. \A u \in Threads : todo'[u] = IF u = t THEN stack ELSE todo[u]
  BY DEF Does, PlacesInv
<1> HIDE DEF stack
<1>5. \A c : Fails(todo[t], c) => c \in event'
  BY DEF Fails
<1>6. \A u \in Threads :
        \/ todo'[u] = todo[u]
        \/ /\ Tight(todo'[u]) /\ (Waits(todo'[u]) => NodeOf(u) \in transport')
           /\ \A c : Fails(todo[u], c) => c \in event'
  BY <1>3, <1>4, <1>5
<1>7. \A c \in pending' : c \in Threads /\ NodeOf(c) \in up' /\ c \in pending
  BY DEF LossInv, WaitInv
<1>8. QED
  BY <1>6, <1>7, LossKept

\* The stack of a thread that is replaced.
LEMMA StackLoss ==
  ASSUME LossInv, WaitInv, PlacesInv, UNCHANGED <<pending, event, up, transport>>,
         NEW t \in Threads, NEW stack, todo' = [todo EXCEPT ![t] = stack],
         Tight(stack), ~Waits(stack), \A c : ~Fails(todo[t], c)
  PROVE  LossInv'
<1>1. \A u \in Threads : todo'[u] = IF u = t THEN stack ELSE todo[u]
  BY DEF PlacesInv
<1>2. \A u \in Threads :
        \/ todo'[u] = todo[u]
        \/ /\ Tight(todo'[u]) /\ (Waits(todo'[u]) => NodeOf(u) \in transport')
           /\ \A c : Fails(todo[u], c) => c \in event'
  BY <1>1
<1>3. \A c \in pending' : c \in Threads /\ NodeOf(c) \in up' /\ c \in pending
  BY DEF LossInv, WaitInv
<1>4. event \subseteq event' /\ transport' = transport
  OBVIOUS
<1>5. QED
  BY <1>2, <1>3, <1>4, LossKept


\* A request begins: it has not been sent.
LEMMA RegisterLoss ==
  ASSUME LossInv, WaitInv, PlacesInv, NEW t \in Threads, Register(t)
  PROVE  LossInv'
<1>1. /\ todo[t] # <<>> /\ Head(todo[t])[1] = "register" /\ UNCHANGED <<up, event, transport>>
  BY DEF Register, At
<1>2. "register" \notin Near
  BY DEF Near
<1>3. CASE NodeOf(t) \notin up
  <2>1. Does(t, <<<<"raise">>>>) /\ pending' = pending
    BY <1>3 DEF Register, Raises
  <2>2. MadeOf(<<<<"raise">>>>, Unasked)
    BY MadeList DEF Unasked, Rounds, Sending
  <2>3. event \subseteq event' /\ up \subseteq up'
    BY <1>1
  <2>4. QED
    BY <1>1, <1>2, <2>1, <2>2, <2>3, StepLoss
<1>4. CASE NodeOf(t) \in up
  <2> DEFINE a == <<"send", RequestOf(t)>>
             b == <<"wait">>
             c == <<"settled", FALSE>>
             frames == <<a, b, c>>
             stack == Becomes(t, frames)
  <2>1. pending' = pending \cup {t} /\ Does(t, frames)
    BY <1>4 DEF Register
  <2>2. a[1] = "send" /\ b[1] = "wait" /\ c[1] = "settled"
    OBVIOUS
  <2> HIDE DEF a, b, c
  <2>3. /\ frames \in Seq({a, b, c}) /\ Len(frames) = 3 /\ Head(frames) = a
        /\ frames[1] = a /\ frames[2] = b /\ frames[3] = c
    OBVIOUS
  <2> HIDE DEF frames
  <2>4. Tight(frames) /\ ~Waits(frames)
    <3>1. frames \in Seq(ToSet(frames))
      BY <2>3, SeqOfItself
    <3>2. \A i \in 1..Len(frames) : i = 1 \/ i = 2 \/ i = 3
      BY <2>3
    <3>3. frames[2 - 1][1] \in Near /\ frames[3][1] # "wait"
      BY <2>2, <2>3 DEF Near
    <3>4. QED
      BY <2>2, <2>3, <3>1, <3>2, <3>3 DEF Tight, Waits
  <2>5. Tight(todo[t])
    BY DEF LossInv
  <2>6. Tight(stack) /\ ~Waits(stack)
    BY <1>1, <1>2, <2>4, <2>5, BecomesTight
  <2>7. \A u \in Threads : todo'[u] = IF u = t THEN stack ELSE todo[u]
    BY <2>1 DEF Does, PlacesInv
  <2> HIDE DEF stack
  <2>8. \A e : ~Fails(todo[t], e)
    BY <1>1 DEF Fails
  <2>9. \A u \in Threads :
          \/ todo'[u] = todo[u]
          \/ /\ Tight(todo'[u]) /\ (Waits(todo'[u]) => NodeOf(u) \in transport')
             /\ \A e : Fails(todo[u], e) => e \in event'
    BY <2>6, <2>7, <2>8
  <2>10. \A e \in pending' : /\ e \in Threads /\ NodeOf(e) \in up'
                             /\ e \in pending \/ ~Waits(todo'[e])
    BY <1>1, <1>4, <2>1, <2>6, <2>7 DEF LossInv, WaitInv
  <2>11. event \subseteq event' /\ transport' = transport
    BY <1>1
  <2>12. QED
    BY <2>9, <2>10, <2>11, LossKept
<1>5. QED
  BY <1>3, <1>4

\* The peer stops: who is still pending is pending with another peer.
LEMMA PeerStopLoss ==
  ASSUME LossInv, WaitInv, PlacesInv, NEW t \in Threads, PeerStop(t)
  PROVE  LossInv'
<1>1. /\ todo[t] # <<>> /\ Head(todo[t])[1] = "peer_stop" /\ event' = event
  BY DEF PeerStop, At
<1>2. "peer_stop" \notin Near
  BY DEF Near
<1>3. CASE NodeOf(t) \notin up
  <2>1. Does(t, <<>>) /\ pending' = pending /\ up' = up /\ transport' = transport
    BY <1>3 DEF PeerStop
  <2>2. MadeOf(<<>>, Unasked)
    BY MadeList
  <2>3. QED
    BY <1>1, <1>2, <2>1, <2>2, StepLoss
<1>4. CASE NodeOf(t) \in up
  <2> DEFINE n == NodeOf(t)
             mine == {c \in pending : NodeOf(c) = n}
             frames == <<<<"halt", mine>>, <<"unlisten">>, <<"clear">>, <<"join">>>>
             stack == Becomes(t, frames)
  <2>1. /\ up' = up \ {n} /\ transport' = transport \ {n} /\ pending' = pending \ mine
        /\ Does(t, frames)
    BY <1>4 DEF PeerStop
  <2>2. MadeOf(frames, Unasked)
    <3>1. "halt" \in Unasked /\ "unlisten" \in Unasked /\ "clear" \in Unasked /\ "join" \in Unasked
      BY DEF Unasked
    <3> HIDE DEF mine
    <3>2. QED
      BY <3>1, MadeList
  <2> HIDE DEF frames
  <2>3. Tight(frames) /\ ~Waits(frames) /\ Tight(todo[t])
    BY <2>2, TightUnasked DEF LossInv
  <2>4. Tight(stack) /\ ~Waits(stack)
    BY <1>1, <1>2, <2>3, BecomesTight
  <2>5. \A u \in Threads : todo'[u] = IF u = t THEN stack ELSE todo[u]
    BY <2>1 DEF Does, PlacesInv
  <2> HIDE DEF stack
  <2>6. \A c : ~Fails(todo[t], c)
    BY <1>1 DEF Fails
  <2>7. \A u \in Threads :
          \/ todo'[u] = todo[u]
          \/ /\ Tight(todo'[u]) /\ (Waits(todo'[u]) => NodeOf(u) \in transport')
             /\ \A c : Fails(todo[u], c) => c \in event'
    BY <2>4, <2>5, <2>6
  <2>8. \A c \in pending' : c \in Threads /\ c \in pending /\ NodeOf(c) # n /\ NodeOf(c) \in up'
    BY <2>1 DEF LossInv, WaitInv
  <2>9. QED
    BY <1>1, <2>1, <2>7, <2>8, LossKept
<1>5. QED
  BY <1>3, <1>4

\* The transport is seen to be lost: whom that concerns is failed next.
LEMMA SetTransportLoss ==
  ASSUME LossInv, WaitInv, PlacesInv, NEW t \in Threads, SetTransport(t)
  PROVE  LossInv'
<1> DEFINE n == NodeOf(t)
           mine == {c \in pending : NodeOf(c) = n}
           frames == <<<<"fail", mine>>>>
<1>1. /\ todo[t] # <<>> /\ Head(todo[t])[1] = "set" /\ UNCHANGED <<up, event, pending>>
  BY DEF SetTransport, At, requests
<1>2. "set" \notin Near
  BY DEF Near
<1>3. event \subseteq event' /\ up \subseteq up' /\ pending' = pending
  BY <1>1
<1>4. \/ transport \subseteq transport' /\ Does(t, <<>>)
      \/ transport' = transport \ {n} /\ Does(t, frames)
  BY DEF SetTransport, Flag
<1>5. MadeOf(<<>>, Unasked) /\ MadeOf(frames, Unasked)
  BY MadeList DEF Unasked, Rounds, Sending
<1>6. CASE transport \subseteq transport' /\ Does(t, <<>>)
  BY <1>1, <1>2, <1>3, <1>5, <1>6, StepLoss
<1>7. CASE transport' = transport \ {n} /\ Does(t, frames)
  <2>1. frames # <<>> /\ Head(frames) = <<"fail", mine>>
    OBVIOUS
  <2> HIDE DEF frames, mine
  <2>2. Head(frames)[1] = "fail" /\ Head(frames)[2] = mine
    BY <2>1
  <2>3. Ordered(frames)
    BY <1>5, UnaskedOrdered
  <2>4. Becomes(t, frames) # <<>> /\ Head(Becomes(t, frames)) = Head(frames)
    BY <1>1, <2>1, <2>2, <2>3, BecomesHead DEF Marks
  <2>5. todo'[t] = Becomes(t, frames)
    BY <1>7 DEF Does, PlacesInv
  <2>6. \A c \in mine : Fails(todo'[t], c)
    BY <2>2, <2>4, <2>5 DEF Fails
  <2>7. \A c \in pending' : NodeOf(c) \in transport =>
          NodeOf(c) \in transport' \/ \E u \in Threads : Fails(todo'[u], c)
    BY <1>3, <1>7, <2>6 DEF mine
  <2>8. QED
    BY <1>1, <1>2, <1>3, <1>5, <1>7, <2>7, StepLoss
<1>8. QED
  BY <1>4, <1>6, <1>7

\* A packet is sent: who comes back to its wait has just used the transport.
LEMMA SendLoss ==
  ASSUME LossInv, WaitInv, PlacesInv, NEW t \in Threads, Send(t) \/ SentPacket(t)
  PROVE  LossInv'
<1>1. /\ todo[t] # <<>> /\ Head(todo[t])[1] \in {"send", "sent"}
      /\ UNCHANGED <<up, event, pending>> /\ transport \subseteq transport'
  BY DEF Send, SentPacket, At, peerVars, requests
<1>2. event \subseteq event' /\ up \subseteq up' /\ pending' = pending
  BY <1>1
<1>3. ASSUME NEW frames, Does(t, frames), MadeOf(frames, Unasked),
             \/ frames # <<>> /\ frames[Len(frames)][1] \in Near
             \/ frames = <<>> /\ NodeOf(t) \in transport'
      PROVE  LossInv'
  BY <1>1, <1>2, <1>3, StepLoss
<1>4. CASE SentPacket(t)
  <2>1. Does(t, <<>>) /\ NodeOf(t) \in transport'
    BY <1>4 DEF SentPacket
  <2>2. QED
    BY <1>3, <2>1, MadeList
<1>5. CASE Send(t)
  <2> DEFINE one == <<<<"raise">>>>
             two == <<<<"transmit", Arg(t)>>, <<"sent">>>>
  <2>1. Does(t, one) \/ Does(t, two)
    BY <1>5 DEF Send, Raises
  <2>2. {"raise", "transmit", "sent"} \subseteq Unasked
    BY DEF Unasked, Rounds, Sending
  <2>3. MadeOf(one, Unasked) /\ MadeOf(two, Unasked)
    BY <2>2, MadeList
  <2>4. one # <<>> /\ one[Len(one)][1] \in Near /\ two # <<>> /\ two[Len(two)][1] \in Near
    BY DEF Near
  <2> HIDE DEF one, two
  <2>5. QED
    BY <1>3, <2>1, <2>3, <2>4
<1>6. QED
  BY <1>4, <1>5

\* The other steps of the peer.
LEMMA PeerLoss ==
  ASSUME LossInv, WaitInv, PlacesInv, NEW t \in Threads,
         \/ Transmit(t) \/ Wait(t) \/ Settled(t) \/ OnPacket(t) \/ Refresh(t) \/ Fail(t)
         \/ Round(t) \/ Expire(t) \/ Wake(t) \/ PeerStart(t) \/ Halt(t) \/ Join(t)
  PROVE  LossInv'
<1>1. up \subseteq up' /\ event \subseteq event' /\ pending' \subseteq pending
  BY DEF Transmit, Wait, Settled, OnPacket, Refresh, Fail, Round, Expire, Wake, PeerStart, Halt,
         Join, peerVars, requests
<1>2. Head(todo[t])[1] \notin Near
  BY DEF Transmit, Wait, Settled, OnPacket, Refresh, Fail, Round, Expire, Wake, PeerStart, Halt,
         Join, At, Near
<1>3. Head(todo[t])[1] = "fail" => Head(todo[t])[2] \subseteq event'
  BY DEF Transmit, Wait, Settled, OnPacket, Refresh, Fail, Round, Expire, Wake, PeerStart, Halt,
         Join, At, Arg
<1>4. \A c \in pending' : NodeOf(c) \in transport => NodeOf(c) \in transport'
  <2>1. CASE PeerStart(t)
    <3>1. transport' = transport \/ (NodeOf(t) \notin up /\ transport \ {NodeOf(t)} \subseteq transport')
      BY <2>1 DEF PeerStart, Flag
    <3>2. \A c \in pending' : NodeOf(c) \in up
      BY <1>1 DEF LossInv
    <3>3. QED
      BY <3>1, <3>2
  <2>2. CASE ~PeerStart(t)
    BY <2>2 DEF Transmit, Wait, Settled, OnPacket, Refresh, Fail, Round, Expire, Wake, Halt, Join,
                peerVars
  <2>3. QED
    BY <2>1, <2>2
<1>5. todo[t] # <<>>
  BY PeerFrames
<1>6. PICK frames : Does(t, frames) /\ MadeOf(frames, Unasked)
  BY PeerFrames, SendingUnasked
<1>7. QED
  BY <1>1, <1>2, <1>3, <1>4, <1>5, <1>6, StepLoss

\* The monitor begins: there was none, who could have been about to fail anybody.
LEMMA WatchLoss ==
  ASSUME LossInv, WaitInv, PlacesInv, NEW t \in Threads, Watch(t)
  PROVE  LossInv'
<1> DEFINE m == Monitor(NodeOf(t))
           stack == Becomes(t, <<>>)
           round == <<<<"monitor">>>>
<1>1. /\ todo[t] # <<>> /\ Head(todo[t])[1] = "watch" /\ UNCHANGED <<pending, event, up, transport>>
  BY DEF Watch, At, requests
<1>2. todo' = [todo EXCEPT ![t] = stack, ![m] = round]
  BY DEF Watch
<1>3. Tight(<<>>) /\ ~Waits(<<>>) /\ Tight(round) /\ ~Waits(round)
  BY MadeList, TightUnasked DEF Unasked, Rounds
<1>4. Tight(stack) /\ ~Waits(stack)
  <2>1. Tight(todo[t])
    BY DEF LossInv
  <2>2. "watch" \notin Near
    BY DEF Near
  <2>3. QED
    BY <1>1, <1>3, <2>1, <2>2, BecomesTight
<1> HIDE DEF m, stack, round
<1>5. \A u \in Threads : todo'[u] = IF u = m THEN round ELSE IF u = t THEN stack ELSE todo[u]
  BY <1>2 DEF PlacesInv
<1>6. \A c : ~Fails(todo[t], c)
  BY <1>1 DEF Fails
<1>7. m \in Threads => \A c : ~Fails(todo[m], c)
  BY DEF Watch, Idle, Fails, m
<1>8. \A u \in Threads :
        \/ todo'[u] = todo[u]
        \/ /\ Tight(todo'[u]) /\ (Waits(todo'[u]) => NodeOf(u) \in transport')
           /\ \A c : Fails(todo[u], c) => c \in event'
  BY <1>3, <1>4, <1>5, <1>6, <1>7
<1>9. \A c \in pending' : c \in Threads /\ NodeOf(c) \in up' /\ c \in pending
  BY <1>1 DEF LossInv, WaitInv
<1>10. event \subseteq event' /\ transport' = transport
  BY <1>1
<1>11. QED
  BY <1>8, <1>9, <1>10, LossKept

\* What is called, handlers that end, packets that are published, exceptions.
LEMMA CallsLoss ==
  ASSUME LossInv, WaitInv, PlacesInv, UNCHANGED <<channelVars, peerVars, dispatcherVars>>,
         NEW t \in Threads, Call(t) \/ Leave(t) \/ Published(t) \/ Unwind(t)
  PROVE  LossInv'
<1>1. UNCHANGED <<pending, event, up, transport>>
  BY DEF peerVars, requests
<1>2. Tight(todo[t])
  BY DEF LossInv
<1>3. CASE Call(t)
  <2>1. PICK call \in calls :
          \/ At(t, "user") /\ todo' = [todo EXCEPT ![t] = Command(call[2]) \o @]
          \/ /\ Idle(t) \/ At(t, "asleep")
             /\ todo' = [todo EXCEPT ![t] = Command(call[2])]
    BY <1>3 DEF Call
  <2> DEFINE frames == Command(call[2])
             stack == frames \o todo[t]
  <2>2. Tight(frames) /\ ~Waits(frames) /\ frames # <<>>
    <3>1. call[2] \in Commands
      BY DEF PlacesInv
    <3>2. QED
      BY <3>1, CommandFrames, TightNone
  <2> HIDE DEF frames
  <2>3. todo[t] # <<>> => Head(todo[t])[1] \in {"user", "asleep"}
    BY <2>1 DEF At, Idle
  <2>4. ~Waits(todo[t]) /\ \A c : ~Fails(todo[t], c)
    BY <2>3 DEF Waits, Fails
  <2>5. Tight(stack) /\ stack # <<>> /\ Head(stack) = Head(frames)
    BY <1>2, <2>2, <2>4, TightConcat
  <2>6. todo' = [todo EXCEPT ![t] = stack] \/ todo' = [todo EXCEPT ![t] = frames]
    BY <2>1 DEF frames
  <2> HIDE DEF stack
  <2>7. ~Waits(stack)
    BY <2>2, <2>5 DEF Waits
  <2>8. QED
    BY <1>1, <2>2, <2>4, <2>5, <2>6, <2>7, StackLoss
<1>4. CASE Leave(t) \/ Published(t)
  <2>1. todo[t] # <<>> /\ Head(todo[t])[1] \in {"user", "published"}
    BY <1>4 DEF Leave, Published, At
  <2>2. MadeOf(<<>>, Unasked) /\ \A packet : MadeOf(<<<<"on_packet", packet>>>>, Unasked)
    BY MadeList DEF Unasked
  <2>3. PICK frames : Does(t, frames) /\ MadeOf(frames, Unasked)
    BY <1>4, <2>2 DEF Leave, Published
  <2>4. Head(todo[t])[1] \notin Near \cup {"fail"}
    BY <2>1 DEF Near
  <2>5. event \subseteq event' /\ up \subseteq up' /\ pending' = pending /\ transport' = transport
    BY <1>1
  <2>6. QED
    BY <2>1, <2>3, <2>4, <2>5, StepLoss
<1>5. CASE Unwind(t)
  <2> DEFINE rest == Tail(todo[t])
             stack == Unwound(rest)
  <2>1. /\ todo[t] # <<>> /\ Head(todo[t])[1] = "raise"
        /\ todo' = [todo EXCEPT ![t] = stack]
    BY <1>5 DEF Unwind, At
  <2>2. Tight(rest) /\ ToSet(todo[t]) = {Head(todo[t])} \cup ToSet(rest)
    BY <1>2, <2>1, TightTail, TailFrames DEF WaitInv
  <2>3. \A f \in ToSet(todo[t]) : f[1] # "caught"
    <3>1. Shape(t, todo[t], generation)
      BY DEF PlacesInv
    <3>2. \A i \in 1..Len(todo[t]) : todo[t][i][1] # "caught"
      BY <3>1 DEF Shape, Allowed
    <3>3. QED
      BY <3>1, <3>2 DEF Shape, ToSet
  <2> HIDE DEF rest
  <2>4. Tight(stack) /\ ~Waits(stack)
    BY <2>2, <2>3, TightUnwound
  <2> HIDE DEF stack
  <2>5. \A c : ~Fails(todo[t], c)
    BY <2>1 DEF Fails
  <2>6. QED
    BY <1>1, <2>1, <2>4, <2>5, StackLoss
<1>6. QED
  BY <1>3, <1>4, <1>5

\* Frames on a stack that was empty.
LEMMA IdleLoss ==
  ASSUME LossInv, WaitInv, PlacesInv, UNCHANGED <<pending, event, up, transport>>,
         NEW t \in Threads, Idle(t), NEW a, NEW b, a[1] \in Unasked, b[1] \in Unasked,
         todo' = [todo EXCEPT ![t] = <<a, b>>]
  PROVE  LossInv'
<1> DEFINE stack == <<a, b>>
<1>1. MadeOf(stack, Unasked) /\ todo' = [todo EXCEPT ![t] = stack]
  BY MadeList
<1> HIDE DEF stack
<1>2. Tight(stack) /\ ~Waits(stack)
  BY <1>1, TightUnasked
<1>3. \A c : ~Fails(todo[t], c)
  BY DEF Idle, Fails
<1>4. QED
  BY <1>1, <1>2, <1>3, StackLoss

LEMMA ChannelLoss ==
  ASSUME LossInv, WaitInv, PlacesInv, ChannelNext, UNCHANGED peerVars
  PROVE  LossInv'
<1>1. UNCHANGED <<pending, event, up, transport>>
  BY DEF peerVars, requests
<1>2. ASSUME todo' = todo PROVE LossInv'
  BY <1>1, <1>2 DEF LossInv
<1>3. ASSUME NEW n \in Nodes, Accept(n) PROVE LossInv'
  <2>1. PICK g : Assemble(n, g)
    BY <1>3 DEF Accept
  <2>2. \/ todo' = todo
        \/ todo' = [todo EXCEPT ![Receiver(n)] = <<<<"published", g.packet>>, <<"swallow">>>>]
    BY <2>1 DEF Assemble
  <2>3. Receiver(n) \in Threads /\ Idle(Receiver(n))
    BY <1>3, ChannelAssumption DEF Accept
  <2>4. "published" \in Unasked /\ "swallow" \in Unasked
    BY DEF Unasked, Rounds
  <2>5. CASE todo' = [todo EXCEPT ![Receiver(n)] = <<<<"published", g.packet>>, <<"swallow">>>>]
    <3> DEFINE r == Receiver(n)
               a == <<"published", g.packet>>
               b == <<"swallow">>
    <3>1. /\ a[1] \in Unasked /\ b[1] \in Unasked /\ todo' = [todo EXCEPT ![r] = <<a, b>>]
          /\ r \in Threads /\ Idle(r)
      BY <2>3, <2>4, <2>5
    <3> HIDE DEF r, a, b
    <3>2. QED
      BY <1>1, <3>1, IdleLoss
  <2>6. QED
    BY <1>2, <2>2, <2>5
<1>4. ASSUME NEW t \in Threads, NEW n \in Nodes, Listen(t, n) \/ Unlisten(t, n) \/ Clear(t, n)
      PROVE  LossInv'
  <2>1. todo[t] # <<>> /\ Does(t, <<>>) /\ Head(todo[t])[1] \in {"listen", "unlisten", "clear"}
    BY <1>4 DEF Listen, Unlisten, Clear, At
  <2>2. MadeOf(<<>>, Unasked) /\ Head(todo[t])[1] \notin Near \cup {"fail"}
    BY <2>1, MadeList DEF Near
  <2>3. event \subseteq event' /\ up \subseteq up' /\ pending' = pending /\ transport' = transport
    BY <1>1
  <2>4. QED
    BY <2>1, <2>2, <2>3, StepLoss
<1>5. CASE Lose \/ Damage \/ Unheard \/ \E n \in Nodes : Prune(n)
  BY <1>2, <1>5 DEF Lose, Damage, Unheard, Prune
<1>6. QED
  BY <1>3, <1>4, <1>5 DEF ChannelNext

LEMMA DispatcherLoss ==
  ASSUME LossInv, WaitInv, PlacesInv, DispatcherNext PROVE LossInv'
<1>1. UNCHANGED <<pending, event, up, transport>>
  BY DispatcherKeepsPeer
<1>2. ASSUME NEW t \in Threads, NEW packet, Idle(t),
             todo' = [todo EXCEPT ![t] = <<<<"handle", packet>>, <<"free">>>>]
      PROVE  LossInv'
  <2> DEFINE a == <<"handle", packet>>
             b == <<"free">>
  <2>1. a[1] \in Unasked /\ b[1] \in Unasked /\ todo' = [todo EXCEPT ![t] = <<a, b>>]
    BY <1>2 DEF Unasked
  <2> HIDE DEF a, b
  <2>2. QED
    BY <1>1, <1>2, <2>1, IdleLoss
<1>3. ASSUME NEW t \in Threads, NEW frames, todo[t] # <<>>, Does(t, frames), MadeOf(frames, Unasked),
             Head(todo[t])[1] \notin Rounds \cup {"wait", "settled", "halt"}
      PROVE  LossInv'
  <2>1. event \subseteq event' /\ up \subseteq up' /\ pending' = pending /\ transport' = transport
    BY <1>1
  <2>2. Head(todo[t])[1] \notin Near \cup {"fail"}
    BY <1>3 DEF Near, Rounds, Sending
  <2>3. QED
    BY <1>3, <2>1, <2>2, StepLoss
<1>4. QED
  BY <1>2, <1>3, DispatcherFrames

LEMMA LossStep ==
  ASSUME LossInv, WaitInv, PlacesInv, [Next]_vars PROVE LossInv'
<1>1. CASE ChannelNext /\ UNCHANGED <<peerVars, dispatcherVars, calls>>
  BY <1>1, ChannelLoss
<1>2. ASSUME UNCHANGED <<todo, pending, event, up, transport>> PROVE LossInv'
  BY <1>2 DEF LossInv
<1>3. CASE PeerNext /\ UNCHANGED <<dispatcherVars, calls>>
  <2>1. ASSUME NEW n \in Nodes, Toggle(n) PROVE LossInv'
    BY <1>2, <2>1 DEF Toggle, requests
  <2>2. QED
    BY <1>3, <2>1, PeerLoss, SendLoss, SetTransportLoss, RegisterLoss, PeerStopLoss, WatchLoss
       DEF PeerNext
<1>4. CASE DispatcherNext /\ UNCHANGED calls
  BY <1>4, DispatcherLoss
<1>5. CASE \E t \in Threads : Call(t) \/ Leave(t) \/ Published(t)
  BY <1>5, CallsLoss DEF Call, Leave, Published
<1>6. CASE \E t \in Threads : Unwind(t) /\ UNCHANGED <<channelVars, peerVars, dispatcherVars, calls>>
  BY <1>6, CallsLoss
<1>7. CASE UNCHANGED vars
  BY <1>2, <1>7 DEF vars, peerVars, requests
<1>8. QED
  BY <1>1, <1>3, <1>4, <1>5, <1>6, <1>7 DEF Next, Terminating

LEMMA LossBegin == ASSUME Init PROVE LossInv
<1>1. /\ todo = [t \in Threads |-> IF \E n \in Nodes : t = Monitor(n) THEN <<<<"asleep">>>> ELSE <<>>]
      /\ pending = {}
  BY DEF Init, PeerInit
<1>2. MadeOf(<<<<"asleep">>>>, Unasked) /\ MadeOf(<<>>, Unasked)
  BY MadeList DEF Unasked, Rounds
<1>3. \A t \in Threads : Tight(todo[t])
  BY <1>1, <1>2, TightUnasked
<1>4. QED
  BY <1>1, <1>3 DEF LossInv

LEMMA WaitFollow == ASSUME WaitInv, LossInv PROVE NobodyIsLeftWaiting
<1>1. \A t \in Threads : /\ todo[t] \in Seq(ToSet(todo[t]))
                         /\ todo[t] # <<>> => Head(todo[t]) \in ToSet(todo[t])
  BY TailFrames DEF WaitInv, Ordered
<1>2. ASSUME NEW c \in Callers, At(c, "wait"), c \notin event
      PROVE  \/ c \in pending /\ NodeOf(c) \in up \cap transport
             \/ \E t \in Threads : (At(t, "halt") \/ At(t, "fail")) /\ c \in Arg(t)
  <2>1. Has(todo[c], "wait") /\ Waits(todo[c])
    BY <1>1, <1>2, PeerAssumption DEF At, Has, Waits
  <2>2. Answerable(c) \/ \E t \in Threads : Halts(todo[t], c)
    BY <1>2, <2>1 DEF WaitInv
  <2>3. Answerable(c) => NodeOf(c) \in transport \/ \E t \in Threads : Fails(todo[t], c)
    BY <1>2, <2>1 DEF LossInv, Answerable
  <2>4. QED
    BY <2>2, <2>3 DEF Answerable, Halts, Fails, At, Arg
<1>3. ASSUME NEW c \in pending PROVE Doing(c, "settled")
  <2>1. c \in Threads /\ Has(todo[c], "settled")
    BY DEF WaitInv
  <2>2. QED
    BY <2>1 DEF Has, Doing, ToSet
<1>4. QED
  BY <1>2, <1>3 DEF NobodyIsLeftWaiting

\* Who waits for an answer is pending with a peer that runs and takes the transport
\* to be available, or is about to be woken with an error, for any number of threads
\* that request, stop, start and look at the transport of their nodes; and who is
\* pending takes itself out at the end of its request, whatever is raised in it
\* (peer.py:178-213, 310-344, 497-517).
THEOREM WaitersAreAnswerable == Spec => []NobodyIsLeftWaiting
<1>1. Init => WaitInv /\ LossInv /\ PlacesInv
  BY WaitBegin, LossBegin, PlacesBegin
<1>2. WaitInv /\ LossInv /\ PlacesInv /\ [Next]_vars => (WaitInv /\ LossInv /\ PlacesInv)'
  BY WaitStep, LossStep, PlacesStep
<1>3. WaitInv /\ LossInv => NobodyIsLeftWaiting
  BY WaitFollow
<1>4. QED
  BY <1>1, <1>2, <1>3, PTL DEF Spec

-------------------------------------------------------------------------------
\* Who answers when the dispatcher has been stopped.

\* No handler stops the dispatcher that runs it.
StopsOutside ==
  \A plan \in Plans : \A call \in plan[1] :
    call[1] \in Workers => call[2] \notin {"down", "dispatcher_stop"}

\* Frames that neither stop the dispatcher nor bring it anything.
Calm == (Asking \cup Unasked) \ {"admit", "submit", "dispatcher_stop", "shutdown"}
Handlers == Calm \cup {"admit", "submit"}

\* The owner of this stack brings a job to the executor of generation g; it is
\* about to do this to it.
Asks(stack, g) == stack # <<>> /\ Head(stack)[1] \in {"admit", "submit"} /\ Head(stack)[2][2] = g
Ends(stack, name, g) == stack # <<>> /\ Head(stack)[1] = name /\ Head(stack)[2] = g

\* The stop() of generation g is about to shut its executor down, or waits for
\* its workers.
Shuts(g) == \E t \in Threads : Ends(todo[t], "shutdown", g)
Drains(g) == \E t \in Threads : Ends(todo[t], "drain", g)
Kept(g) == Active(g) \/ Shuts(g)

\* A worker is at work for generation g.
Serves(w, g) == ~Idle(w) /\ job[w] = g

\* The inductive invariant: a job is brought only to an executor that is kept or
\* refuses it, jobs wait only in one that is kept, and its workers are at work only
\* while it is kept or somebody waits for them.
SilentInv ==
  /\ \A t \in Threads : \A g : Asks(todo[t], g) => Kept(g) \/ g \in shut
  /\ \A g \in 1..generation : queue[g] # <<>> => Kept(g)
  /\ \A w \in Workers : \A g : Serves(w, g) => Kept(g) \/ Drains(g)
  /\ \A w \in Workers : MadeOf(todo[w], Handlers)
  /\ job = [w \in Workers |-> job[w]]
  /\ \A call \in calls : call[1] \in Workers => call[2] \notin {"down", "dispatcher_stop"}

\* A step keeps the invariant if an executor that is kept stays so, or is shut
\* down, empty and waited for; if what is new is for one that is kept; and if
\* nobody who is still at work is no longer waited for.
LEMMA SilentKept ==
  ASSUME SilentInv, calls' \subseteq calls, shut \subseteq shut', job' = [w \in Workers |-> job'[w]],
         \A g : Active(g) => Kept(g)',
         \A g : Shuts(g) =>
           Kept(g)' \/ (g \in shut' /\ Drains(g)' /\ (g \in 1..generation' => queue'[g] = <<>>)),
         \A g \in 1..generation' :
           queue'[g] # <<>> => Kept(g)' \/ (g \in 1..generation /\ queue[g] # <<>>),
         \A u \in Threads : \A g : Asks(todo'[u], g) => Asks(todo[u], g) \/ Kept(g) \/ g \in shut,
         \A w \in Workers :
           /\ MadeOf(todo'[w], Handlers)
           /\ \A g : Serves(w, g)' => Kept(g)' \/ Serves(w, g),
         \A g : Drains(g) => Drains(g)' \/ \A w \in Workers : ~Serves(w, g)
  PROVE  SilentInv'
<1>1. \A g : Kept(g) => Kept(g)' \/ g \in shut'
  BY DEF Kept
<1>2. ASSUME NEW u \in Threads, NEW g, Asks(todo'[u], g) PROVE Kept(g)' \/ g \in shut'
  <2>1. Kept(g) \/ g \in shut
    BY <1>2 DEF SilentInv
  <2>2. QED
    BY <1>1, <2>1
<1>3. ASSUME NEW g \in 1..generation', queue'[g] # <<>> PROVE Kept(g)'
  <2>1. g \in 1..generation /\ queue[g] # <<>> => Kept(g)
    BY DEF SilentInv
  <2>2. Kept(g) => Kept(g)'
    BY <1>3 DEF Kept
  <2>3. QED
    BY <1>3, <2>1, <2>2
<1>4. ASSUME NEW w \in Workers, NEW g, Serves(w, g)' PROVE Kept(g)' \/ Drains(g)'
  <2>1. CASE Serves(w, g)
    <3>1. Kept(g) \/ Drains(g)
      BY <2>1 DEF SilentInv
    <3>2. Kept(g) => Kept(g)' \/ Drains(g)'
      BY DEF Kept
    <3>3. Drains(g) => Drains(g)'
      BY <2>1
    <3>4. QED
      BY <3>1, <3>2, <3>3
  <2>2. QED
    BY <1>4, <2>1
<1>5. \A w \in Workers : MadeOf(todo'[w], Handlers)
  OBVIOUS
<1>6. \A call \in calls' : call[1] \in Workers => call[2] \notin {"down", "dispatcher_stop"}
  BY DEF SilentInv
<1>7. QED
  BY <1>2, <1>3, <1>4, <1>5, <1>6 DEF SilentInv

dispatching == <<executing, generation, shut, queue, job>>

\* A step that leaves the dispatcher alone and each stack too, or puts another one
\* there that brings nothing to an executor that would keep it in vain.
LEMMA StacksSilent ==
  ASSUME SilentInv, calls' \subseteq calls, UNCHANGED dispatching,
         \A u \in Threads :
           \/ todo'[u] = todo[u]
           \/ /\ \A g : ~Ends(todo[u], "shutdown", g)
              /\ \A g : Ends(todo[u], "drain", g) => Busy(g) = {}
              /\ \A g : Asks(todo'[u], g) => Kept(g) \/ g \in shut
              /\ u \in Workers => ~Idle(u) /\ MadeOf(todo'[u], Handlers)
  PROVE  SilentInv'
<1>1. UNCHANGED <<executing, generation, shut, queue, job>>
  BY DEF dispatching
<1>2. \A g : Shuts(g) => Shuts(g)'
  <2>1. ASSUME NEW g, NEW u \in Threads, Ends(todo[u], "shutdown", g)
        PROVE  Ends(todo'[u], "shutdown", g)
    BY <2>1
  <2>2. QED
    BY <2>1 DEF Shuts
<1>3. \A g : Active(g) => Active(g)'
  BY <1>1 DEF Active
<1>4. \A g : (Active(g) => Kept(g)') /\ (Shuts(g) => Kept(g)')
  BY <1>2, <1>3 DEF Kept
<1>5. ASSUME NEW g, Drains(g) PROVE Drains(g)' \/ \A w \in Workers : ~Serves(w, g)
  <2>1. PICK u \in Threads : Ends(todo[u], "drain", g)
    BY <1>5 DEF Drains
  <2>2. CASE todo'[u] = todo[u]
    BY <2>1, <2>2 DEF Drains
  <2>3. CASE Busy(g) = {}
    BY <2>3 DEF Busy, Serves
  <2>4. QED
    BY <2>1, <2>2, <2>3
<1>6. \A u \in Threads : \A g : Asks(todo'[u], g) => Asks(todo[u], g) \/ Kept(g) \/ g \in shut
  OBVIOUS
<1>7. ASSUME NEW w \in Workers
      PROVE  MadeOf(todo'[w], Handlers) /\ \A g : Serves(w, g)' => Serves(w, g)
  <2>1. w \in Threads /\ MadeOf(todo[w], Handlers)
    BY DispatcherAssumption DEF SilentInv
  <2>2. CASE todo'[w] = todo[w]
    BY <1>1, <2>1, <2>2 DEF Serves, Idle
  <2>3. CASE ~Idle(w) /\ MadeOf(todo'[w], Handlers)
    BY <1>1, <2>3 DEF Serves
  <2>4. QED
    BY <2>1, <2>2, <2>3
<1>8. shut \subseteq shut' /\ \A g \in 1..generation' : queue'[g] # <<>> => g \in 1..generation /\ queue[g] # <<>>
  BY <1>1
<1>9. job' = [w \in Workers |-> job'[w]]
  BY <1>1 DEF SilentInv
<1>10. QED
  BY <1>4, <1>5, <1>6, <1>7, <1>8, <1>9, SilentKept

\* The frames of a stack that is executed.
LEMMA BecomesFrames ==
  ASSUME NEW t, todo[t] \in Seq(ToSet(todo[t])), todo[t] # <<>>,
         NEW frames, frames \in Seq(ToSet(frames))
  PROVE  /\ Becomes(t, frames) \in Seq(ToSet(Becomes(t, frames)))
         /\ ToSet(Becomes(t, frames)) \subseteq ToSet(frames) \cup ToSet(Tail(todo[t]))
         /\ ToSet(Tail(todo[t])) \subseteq ToSet(todo[t])
<1> DEFINE rest == Tail(todo[t])
           S == ToSet(frames) \cup ToSet(rest)
           T == ToSet(todo[t])
<1>1. todo[t] \in Seq(T) /\ rest \in Seq(T)
  BY HeadTailProperties
<1> HIDE DEF T, rest
<1>2. rest \in Seq(ToSet(rest)) /\ ToSet(rest) \subseteq T
  <2>1. ToSet(rest) \subseteq T
    BY <1>1, ElementOfSeq DEF ToSet
  <2>2. QED
    BY <1>1, <2>1, SeqOfItself
<1>3. frames \in Seq(S) /\ rest \in Seq(S)
  BY <1>2, SeqWider
<1> HIDE DEF S
<1>4. frames \o rest \in Seq(S)
  BY <1>3, ConcatProperties
<1>5. Reached(frames \o rest) \in Seq(S)
  BY <1>4, ReachedType
<1>6. Becomes(t, frames) \in Seq(S)
  BY <1>5 DEF Becomes, rest
<1>7. ToSet(Becomes(t, frames)) \subseteq S
  BY <1>6, ElementOfSeq DEF ToSet
<1>8. QED
  BY <1>2, <1>6, <1>7, SeqOfItself DEF S, T, rest

\* What is at the top of a stack is on it.
LEMMA HeadFrame ==
  ASSUME NEW stack, stack \in Seq(ToSet(stack)), stack # <<>> PROVE Head(stack) \in ToSet(stack)
<1> DEFINE S == ToSet(stack)
<1>1. stack \in Seq(S)
  OBVIOUS
<1> HIDE DEF S
<1>2. Head(stack) \in S
  BY <1>1, HeadTailProperties
<1>3. QED
  BY <1>2 DEF S

\* A thread that executes its next frame, which neither shuts down an executor nor
\* waits for one that is at work.
LEMMA DoesSilent ==
  ASSUME SilentInv, OnceInv, PlacesInv, calls' \subseteq calls, UNCHANGED dispatching,
         NEW t \in Threads, todo[t] # <<>>, NEW frames, Does(t, frames), MadeOf(frames, Handlers),
         Head(todo[t])[1] # "shutdown",
         \A g : Ends(todo[t], "drain", g) => Busy(g) = {},
         \A f \in ToSet(frames) : f[1] \in {"admit", "submit"} => Kept(f[2][2]) \/ f[2][2] \in shut
  PROVE  SilentInv'
<1> DEFINE stack == Becomes(t, frames)
<1>1. todo[t] \in Seq(ToSet(todo[t])) /\ frames \in Seq(ToSet(frames))
  BY DEF OnceInv, AtTopOnly, MadeOf
<1>2. /\ stack \in Seq(ToSet(stack))
      /\ ToSet(stack) \subseteq ToSet(frames) \cup ToSet(Tail(todo[t]))
      /\ ToSet(Tail(todo[t])) \subseteq ToSet(todo[t])
  BY <1>1, BecomesFrames
<1>3. \A u \in Threads : todo'[u] = IF u = t THEN stack ELSE todo[u]
  BY DEF Does, PlacesInv
<1> HIDE DEF stack
<1>4. \A f \in ToSet(Tail(todo[t])) : f[1] \notin {"admit", "submit"}
  BY DEF OnceInv, AtTopOnly, Idly, Bringing
<1>5. ASSUME NEW g, Asks(stack, g) PROVE Kept(g) \/ g \in shut
  <2>1. stack # <<>> /\ Head(stack)[1] \in {"admit", "submit"} /\ Head(stack)[2][2] = g
    BY <1>5 DEF Asks
  <2>2. Head(stack) \in ToSet(stack)
    BY <1>2, <2>1, HeadFrame
  <2>3. Head(stack) \in ToSet(frames)
    BY <1>2, <1>4, <2>1, <2>2
  <2>4. QED
    BY <2>1, <2>3
<1>6. t \in Workers => ~Idle(t) /\ MadeOf(stack, Handlers)
  BY <1>2 DEF SilentInv, MadeOf, Idle
<1>7. \A g : ~Ends(todo[t], "shutdown", g)
  BY DEF Ends
<1>8. \A u \in Threads :
        \/ todo'[u] = todo[u]
        \/ /\ \A g : ~Ends(todo[u], "shutdown", g)
           /\ \A g : Ends(todo[u], "drain", g) => Busy(g) = {}
           /\ \A g : Asks(todo'[u], g) => Kept(g) \/ g \in shut
           /\ u \in Workers => ~Idle(u) /\ MadeOf(todo'[u], Handlers)
  BY <1>3, <1>5, <1>6, <1>7
<1>9. QED
  BY <1>8, StacksSilent

\* Frames that do nothing of that kind.
LEMMA CalmSilent ==
  ASSUME SilentInv, OnceInv, PlacesInv, calls' \subseteq calls, UNCHANGED dispatching,
         NEW t \in Threads, todo[t] # <<>>, NEW frames, Does(t, frames), MadeOf(frames, Calm),
         Head(todo[t])[1] \notin {"shutdown", "drain"}
  PROVE  SilentInv'
<1>1. MadeOf(frames, Handlers)
  BY DEF MadeOf, Handlers
<1>2. \A f \in ToSet(frames) : f[1] \notin {"admit", "submit"}
  BY DEF MadeOf, Calm
<1>3. \A g : ~Ends(todo[t], "drain", g)
  BY DEF Ends
<1>4. QED
  BY <1>1, <1>2, <1>3, DoesSilent

\* Lists of frames by their names.
LEMMA CalmList ==
  /\ MadeOf(<<>>, Calm)
  /\ \A name \in Calm : MadeOf(<<<<name>>>>, Calm) /\ \A argument : MadeOf(<<<<name, argument>>>>, Calm)
  /\ \A a, b : a[1] \in Calm /\ b[1] \in Calm => MadeOf(<<a, b>>, Calm)
  /\ \A a, b, c : a[1] \in Calm /\ b[1] \in Calm /\ c[1] \in Calm => MadeOf(<<a, b, c>>, Calm)
  /\ \A a, b, c, d : a[1] \in Calm /\ b[1] \in Calm /\ c[1] \in Calm /\ d[1] \in Calm
       => MadeOf(<<a, b, c, d>>, Calm)
<1>1. ASSUME NEW name \in Calm
      PROVE  MadeOf(<<<<name>>>>, Calm) /\ \A argument : MadeOf(<<<<name, argument>>>>, Calm)
  <2>1. <<name>>[1] \in Calm /\ \A argument : <<name, argument>>[1] \in Calm
    BY <1>1
  <2>2. \A a : a[1] \in Calm => MadeOf(<<a>>, Calm)
    BY MadeList
  <2>3. QED
    BY <2>1, <2>2
<1>2. QED
  BY <1>1, MadeList

LEMMA CalmNames ==
  {"send", "transmit", "sent", "refresh", "raise", "wait", "settled", "handed", "set", "fail",
   "swallow", "expire", "asleep", "monitor", "listen", "watch", "halt", "unlisten", "clear", "join",
   "published", "on_packet", "register", "unserve", "peer_stop", "peer_start", "serve",
   "dispatcher_start", "user", "answer", "handle", "free", "drain"} \subseteq Calm
  BY DEF Calm, Asking, Unasked, Rounds, Sending

\* The steps of the peer have nothing to do with the dispatcher.
LEMMA PeerSilent ==
  ASSUME SilentInv, OnceInv, PlacesInv, UNCHANGED <<dispatcherVars, calls>>, NEW t \in Threads,
         \/ Send(t) \/ Transmit(t) \/ SentPacket(t)
         \/ Register(t) \/ Wait(t) \/ Settled(t) \/ OnPacket(t)
         \/ Refresh(t) \/ SetTransport(t) \/ Fail(t)
         \/ Round(t) \/ Expire(t) \/ Wake(t)
         \/ PeerStart(t) \/ PeerStop(t) \/ Halt(t) \/ Join(t)
  PROVE  SilentInv'
<1>1. todo[t] # <<>> /\ Head(todo[t])[1] \notin {"shutdown", "drain"}
  BY DEF Send, Transmit, SentPacket, Register, Wait, Settled, OnPacket, Refresh, SetTransport,
         Fail, Round, Expire, Wake, PeerStart, PeerStop, Halt, Join, At
<1>2. UNCHANGED dispatching /\ calls' \subseteq calls
  BY DEF dispatcherVars, dispatching
<1>3. ASSUME NEW frames, MadeOf(frames, Calm), Does(t, frames) PROVE SilentInv'
  BY <1>1, <1>2, <1>3, CalmSilent
<1>4. \A name \in Calm : MadeOf(<<<<name>>>>, Calm) /\ \A argument : MadeOf(<<<<name, argument>>>>, Calm)
  BY CalmList
<1>5. MadeOf(<<>>, Calm)
  BY CalmList
<1>6. CASE SentPacket(t) \/ Wait(t) \/ Settled(t) \/ Fail(t) \/ Expire(t) \/ Halt(t) \/ Join(t)
  BY <1>3, <1>5, <1>6 DEF SentPacket, Wait, Settled, Fail, Expire, Halt, Join
<1>7. CASE Refresh(t) \/ SetTransport(t) \/ Wake(t)
  <2>1. {"set", "fail", "monitor"} \subseteq Calm
    BY CalmNames
  <2>2. PICK frames : Does(t, frames) /\ MadeOf(frames, Calm)
    BY <1>4, <1>5, <1>7, <2>1 DEF Refresh, SetTransport, Wake
  <2>3. QED
    BY <1>3, <2>2
<1>8. CASE Send(t) \/ Transmit(t)
  <2>1. MadeOf(<<<<"raise">>>>, Calm) /\ MadeOf(<<<<"refresh">>, <<"raise">>>>, Calm)
    BY CalmNames, CalmList
  <2>2. \A packet : MadeOf(<<<<"transmit", packet>>, <<"sent">>>>, Calm)
    BY CalmNames, CalmList
  <2>3. PICK frames : Does(t, frames) /\ MadeOf(frames, Calm)
    BY <1>5, <1>8, <2>1, <2>2 DEF Send, Transmit, Raises
  <2>4. QED
    BY <1>3, <2>3
<1>9. CASE Register(t)
  <2>1. \A packet : MadeOf(<<<<"send", packet>>, <<"wait">>, <<"settled", FALSE>>>>, Calm)
    BY CalmNames, CalmList
  <2>2. MadeOf(<<<<"raise">>>>, Calm)
    BY CalmNames, CalmList
  <2>3. PICK frames : Does(t, frames) /\ MadeOf(frames, Calm)
    BY <1>9, <2>1, <2>2 DEF Register, Raises
  <2>4. QED
    BY <1>3, <2>3
<1>10. CASE OnPacket(t)
  <2>1. \A packet, answer : MadeOf(<<<<"handed", packet>>, <<"send", answer>>>>, Calm)
    BY CalmNames, CalmList
  <2>2. \A packet : MadeOf(<<<<"handed", packet>>>>, Calm)
    BY CalmNames, CalmList
  <2>3. PICK frames : Does(t, frames) /\ MadeOf(frames, Calm)
    BY <1>5, <1>10, <2>1, <2>2 DEF OnPacket
  <2>4. QED
    BY <1>3, <2>3
<1>11. CASE Round(t)
  <2> DEFINE look == <<<<"set", NodeOf(t) \in ready>>>>
             rest == <<<<"expire">>, <<"asleep">>>>
  <2>1. MadeOf(look, Calm) /\ MadeOf(rest, Calm) /\ MadeOf(Probe(pings + 1), Calm)
    BY CalmNames, CalmList DEF Probe
  <2>2. Does(t, <<>>) \/ Does(t, look \o rest) \/ Does(t, look \o Probe(pings + 1) \o rest)
    BY <1>11 DEF Round
  <2> HIDE DEF look, rest
  <2>3. MadeOf(look \o rest, Calm) /\ MadeOf(look \o Probe(pings + 1) \o rest, Calm)
    BY <2>1, MadeConcat
  <2>4. QED
    BY <1>3, <1>5, <2>2, <2>3
<1>12. CASE PeerStart(t)
  <2>1. MadeOf(<<<<"listen">>, <<"watch">>>>, Calm)
    BY CalmNames, CalmList
  <2>2. QED
    BY <1>3, <1>5, <1>12, <2>1 DEF PeerStart
<1>13. CASE PeerStop(t)
  <2>1. \A mine : MadeOf(<<<<"halt", mine>>, <<"unlisten">>, <<"clear">>, <<"join">>>>, Calm)
    BY CalmNames, CalmList
  <2>2. PICK frames : Does(t, frames) /\ MadeOf(frames, Calm)
    BY <1>5, <1>13, <2>1 DEF PeerStop
  <2>3. QED
    BY <1>3, <2>2
<1>14. QED
  BY <1>6, <1>7, <1>8, <1>9, <1>10, <1>11, <1>12, <1>13

\* The monitor, whose stack is replaced, stops nothing.
LEMMA WatchSilent ==
  ASSUME SilentInv, OnceInv, PlacesInv, WaitInv, UNCHANGED <<dispatcherVars, calls>>,
         NEW t \in Threads, Watch(t)
  PROVE  SilentInv'
<1> DEFINE m == Monitor(NodeOf(t))
           stack == Becomes(t, <<>>)
           round == <<<<"monitor">>>>
<1>1. todo[t] # <<>> /\ Head(todo[t])[1] = "watch"
  BY DEF Watch, At
<1>2. todo[t] \in Seq(ToSet(todo[t])) /\ <<>> \in Seq(ToSet(<<>>)) /\ ToSet(<<>>) = {}
  BY DEF OnceInv, AtTopOnly, ToSet
<1>3. /\ stack \in Seq(ToSet(stack)) /\ ToSet(stack) \subseteq ToSet(Tail(todo[t]))
      /\ ToSet(Tail(todo[t])) \subseteq ToSet(todo[t])
  BY <1>1, <1>2, BecomesFrames
<1>4. \A f \in ToSet(Tail(todo[t])) : f[1] \notin {"admit", "submit"}
  BY <1>1 DEF OnceInv, AtTopOnly, Idly, Bringing
<1>5. todo' = [todo EXCEPT ![t] = stack, ![m] = round]
  BY DEF Watch
<1>6. m \in Monitors /\ m \notin Workers
  BY PeerAssumption, DispatcherAssumption DEF Monitors
<1>7. m \in Threads => MadeOf(todo[m], Rounds)
  BY <1>6 DEF WaitInv
<1> HIDE DEF m, stack
<1>8. round # <<>> /\ Head(round)[1] = "monitor"
  <2>1. Head(<<<<"monitor">>>>) = <<"monitor">>
    OBVIOUS
  <2>2. QED
    BY <2>1
<1> HIDE DEF round
<1>9. \A u \in Threads : todo'[u] = IF u = m THEN round ELSE IF u = t THEN stack ELSE todo[u]
  BY <1>5 DEF PlacesInv
<1>10. (\A g : ~Ends(todo[t], "shutdown", g) /\ ~Ends(todo[t], "drain", g)) /\ ~Idle(t)
  BY <1>1 DEF Ends, Idle
<1>11. m \in Threads => \A g : ~Ends(todo[m], "shutdown", g) /\ ~Ends(todo[m], "drain", g)
  <2>1. ASSUME m \in Threads, todo[m] # <<>> PROVE Head(todo[m])[1] \in Rounds
    <3>1. Head(todo[m]) \in ToSet(todo[m])
      BY <1>7, <2>1, HeadFrame DEF MadeOf
    <3>2. QED
      BY <1>7, <2>1, <3>1 DEF MadeOf
  <2>2. "shutdown" \notin Rounds /\ "drain" \notin Rounds
    BY DEF Rounds, Sending
  <2>3. QED
    BY <2>1, <2>2 DEF Ends
<1>12. stack # <<>> => Head(stack)[1] \notin {"admit", "submit"}
  BY <1>3, <1>4, HeadFrame
<1>13. t \in Workers => MadeOf(stack, Handlers)
  BY <1>3 DEF SilentInv, MadeOf
<1>14. ASSUME NEW u \in Threads
       PROVE  \/ todo'[u] = todo[u]
              \/ /\ \A g : ~Ends(todo[u], "shutdown", g)
                 /\ \A g : Ends(todo[u], "drain", g) => Busy(g) = {}
                 /\ \A g : Asks(todo'[u], g) => Kept(g) \/ g \in shut
                 /\ u \in Workers => ~Idle(u) /\ MadeOf(todo'[u], Handlers)
  <2>1. CASE u = m
    <3>1. \A g : ~Asks(todo'[u], g)
      BY <1>8, <1>9, <2>1 DEF Asks
    <3>2. QED
      BY <1>6, <1>11, <2>1, <3>1
  <2>2. CASE u # m /\ u = t
    <3>1. \A g : ~Asks(todo'[u], g)
      BY <1>9, <1>12, <2>2 DEF Asks
    <3>2. todo'[u] = stack
      BY <1>9, <2>2
    <3>3. QED
      BY <1>10, <1>13, <2>2, <3>1, <3>2
  <2>3. CASE u # m /\ u # t
    BY <1>9, <2>3
  <2>4. QED
    BY <2>1, <2>2, <2>3
<1>15. UNCHANGED dispatching /\ calls' \subseteq calls
  BY DEF dispatcherVars, dispatching
<1>16. QED
  BY <1>14, <1>15, StacksSilent

\* One stack is replaced.
LEMMA StackSilent ==
  ASSUME SilentInv, PlacesInv, calls' \subseteq calls, UNCHANGED dispatching,
         NEW t \in Threads, NEW stack, todo' = [todo EXCEPT ![t] = stack],
         \A g : ~Ends(todo[t], "shutdown", g) /\ ~Ends(todo[t], "drain", g),
         stack # <<>> => Head(stack)[1] \notin {"admit", "submit"},
         t \in Workers => ~Idle(t) /\ MadeOf(stack, Handlers)
  PROVE  SilentInv'
<1>1. \A u \in Threads : todo'[u] = IF u = t THEN stack ELSE todo[u]
  BY DEF PlacesInv
<1>2. \A g : ~Asks(stack, g)
  BY DEF Asks
<1>3. \A u \in Threads :
        \/ todo'[u] = todo[u]
        \/ /\ \A g : ~Ends(todo[u], "shutdown", g)
           /\ \A g : Ends(todo[u], "drain", g) => Busy(g) = {}
           /\ \A g : Asks(todo'[u], g) => Kept(g) \/ g \in shut
           /\ u \in Workers => ~Idle(u) /\ MadeOf(todo'[u], Handlers)
  BY <1>1, <1>2
<1>4. QED
  BY <1>3, StacksSilent

\* What may be called, on a worker and elsewhere.
LEMMA CommandCalm ==
  ASSUME NEW name \in Commands
  PROVE  /\ name \notin {"down", "dispatcher_stop"} => MadeOf(Command(name), Calm)
         /\ MadeOf(Command(name), Calm \cup {"dispatcher_stop"})
<1>1. /\ MadeOf(<<<<"register">>>>, Calm) /\ MadeOf(<<<<"peer_stop">>>>, Calm)
      /\ MadeOf(<<<<"peer_start">>>>, Calm) /\ MadeOf(<<<<"monitor">>>>, Calm)
      /\ MadeOf(<<<<"refresh">>>>, Calm)
  BY CalmNames, CalmList
<1>2. MadeOf(<<<<"peer_start">>, <<"serve">>, <<"dispatcher_start">>>>, Calm)
  BY CalmNames, CalmList
<1>3. name \notin {"down", "dispatcher_stop"} => MadeOf(Command(name), Calm)
  BY <1>1, <1>2 DEF Command, Commands
<1>4. \A frames : MadeOf(frames, Calm) => MadeOf(frames, Calm \cup {"dispatcher_stop"})
  BY DEF MadeOf
<1> DEFINE names == Calm \cup {"dispatcher_stop"}
<1>5. {"unserve", "dispatcher_stop", "peer_stop"} \subseteq names
  BY CalmNames
<1> HIDE DEF names
<1>6. /\ MadeOf(<<<<"unserve">>, <<"dispatcher_stop">>, <<"peer_stop">>>>, names)
      /\ MadeOf(<<<<"dispatcher_stop">>>>, names)
  BY <1>5, MadeList
<1>7. MadeOf(Command(name), names)
  BY <1>3, <1>4, <1>6 DEF Command, names
<1>8. QED
  BY <1>3, <1>7 DEF names

\* What is called, handlers that end, packets that are published, exceptions.
LEMMA CallsSilent ==
  ASSUME SilentInv, OnceInv, PlacesInv, WaitInv, UNCHANGED <<channelVars, peerVars, dispatcherVars>>,
         NEW t \in Threads,
         Call(t) \/ ((Leave(t) \/ Published(t) \/ Unwind(t)) /\ UNCHANGED calls)
  PROVE  SilentInv'
<1>1. UNCHANGED dispatching
  BY DEF dispatcherVars, dispatching
<1>2. CASE Call(t)
  <2>1. PICK call \in calls :
          /\ call[1] = t /\ calls' = calls \ {call}
          /\ IF t \in Workers
             THEN At(t, "user") /\ todo' = [todo EXCEPT ![t] = Command(call[2]) \o @]
             ELSE /\ Idle(t) \/ At(t, "asleep")
                  /\ todo' = [todo EXCEPT ![t] = Command(call[2])]
    BY <1>2 DEF Call
  <2> DEFINE name == call[2]
             frames == Command(name)
  <2>2. name \in Commands
    BY <2>1 DEF PlacesInv
  <2>3. t \in Workers => name \notin {"down", "dispatcher_stop"}
    BY <2>1 DEF SilentInv
  <2> HIDE DEF name
  <2>4. /\ MadeOf(frames, Calm \cup {"dispatcher_stop"})
        /\ t \in Workers => MadeOf(frames, Calm)
    BY <2>2, <2>3, CommandCalm
  <2>5. \A f \in ToSet(frames) : f[1] \notin {"admit", "submit"}
    BY <2>4 DEF MadeOf, Calm
  <2>6. frames \in Seq(ToSet(frames))
    BY <2>4 DEF MadeOf
  <2>7. CASE t \in Workers
    <3> DEFINE stack == frames \o todo[t]
    <3>1. At(t, "user") /\ todo' = [todo EXCEPT ![t] = stack]
      BY <2>1, <2>7 DEF name
    <3>2. todo[t] # <<>> /\ Head(todo[t])[1] = "user"
      BY <3>1 DEF At
    <3>3. /\ ToSet(todo[t]) = {Head(todo[t])} \cup ToSet(Tail(todo[t]))
          /\ todo[t] \in Seq(ToSet(todo[t]))
      BY <3>2, TailFrames DEF WaitInv, Ordered
    <3>4. \A f \in ToSet(Tail(todo[t])) : f[1] \notin {"admit", "submit"}
      BY <3>2 DEF OnceInv, AtTopOnly, Idly, Bringing
    <3>5. \A f \in ToSet(todo[t]) : f[1] \notin {"admit", "submit"}
      BY <3>2, <3>3, <3>4
    <3>6. MadeOf(frames, Handlers) /\ MadeOf(todo[t], Handlers)
      BY <2>4, <2>7 DEF MadeOf, Handlers, SilentInv
    <3> HIDE DEF frames
    <3>7. MadeOf(stack, Handlers)
      BY <3>6, MadeConcat
    <3>8. stack \in Seq(ToSet(stack)) /\ ToSet(stack) = ToSet(frames) \cup ToSet(todo[t])
      BY <2>6, <3>3, ConcatFrames
    <3> HIDE DEF stack
    <3>9. stack # <<>> => Head(stack)[1] \notin {"admit", "submit"}
      BY <2>5, <3>5, <3>8, HeadFrame
    <3>10. /\ \A g : ~Ends(todo[t], "shutdown", g) /\ ~Ends(todo[t], "drain", g)
           /\ ~Idle(t) /\ calls' \subseteq calls
      BY <2>1, <3>2 DEF Ends, Idle
    <3>11. QED
      BY <1>1, <3>1, <3>7, <3>9, <3>10, StackSilent
  <2>8. CASE t \notin Workers
    <3>1. (Idle(t) \/ At(t, "asleep")) /\ todo' = [todo EXCEPT ![t] = frames]
      BY <2>1, <2>8 DEF name
    <3> HIDE DEF frames
    <3>2. frames # <<>> => Head(frames)[1] \notin {"admit", "submit"}
      BY <2>5, <2>6, HeadFrame
    <3>3. /\ \A g : ~Ends(todo[t], "shutdown", g) /\ ~Ends(todo[t], "drain", g)
          /\ calls' \subseteq calls
      BY <2>1, <3>1 DEF At, Idle, Ends
    <3>4. QED
      BY <1>1, <2>8, <3>1, <3>2, <3>3, StackSilent
  <2>9. QED
    BY <2>7, <2>8
<1>3. CASE (Leave(t) \/ Published(t)) /\ UNCHANGED calls
  <2>1. todo[t] # <<>> /\ Head(todo[t])[1] \notin {"shutdown", "drain"}
    BY <1>3 DEF Leave, Published, At
  <2>2. MadeOf(<<>>, Calm) /\ \A packet : MadeOf(<<<<"on_packet", packet>>>>, Calm)
    BY CalmNames, CalmList
  <2>3. PICK frames : Does(t, frames) /\ MadeOf(frames, Calm)
    BY <1>3, <2>2 DEF Leave, Published
  <2>4. calls' \subseteq calls
    BY <1>3
  <2>5. QED
    BY <1>1, <2>1, <2>3, <2>4, CalmSilent
<1>4. CASE Unwind(t) /\ UNCHANGED calls
  <2> DEFINE rest == Tail(todo[t])
             stack == Unwound(rest)
  <2>1. /\ todo[t] # <<>> /\ Head(todo[t])[1] = "raise"
        /\ todo' = [todo EXCEPT ![t] = stack]
    BY <1>4 DEF Unwind, At
  <2>2. Ordered(rest) /\ ToSet(todo[t]) = {Head(todo[t])} \cup ToSet(rest)
    BY <2>1, TailFrames DEF WaitInv
  <2>3. \A f \in ToSet(todo[t]) : f[1] # "caught"
    <3>1. Shape(t, todo[t], generation)
      BY DEF PlacesInv
    <3>2. \A i \in 1..Len(todo[t]) : todo[t][i][1] # "caught"
      BY <3>1 DEF Shape, Allowed
    <3>3. QED
      BY <3>1, <3>2 DEF Shape, ToSet
  <2>4. Idly(rest)
    BY <2>1 DEF OnceInv, AtTopOnly
  <2> HIDE DEF rest
  <2>5. /\ Ordered(stack)
        /\ \A f \in ToSet(stack) : f = <<"raise">> \/ \E g \in ToSet(rest) : f[1] = g[1]
    BY <2>2, <2>3, UnwoundFrames
  <2>6. Idly(stack)
    BY <2>4, UnwoundIdly
  <2> HIDE DEF stack
  <2>7. stack # <<>> => Head(stack)[1] \notin {"admit", "submit"}
    BY <2>6, IdlyAtTop DEF Bringing
  <2>8. t \in Workers => MadeOf(stack, Handlers)
    <3>1. "raise" \in Handlers
      BY CalmNames DEF Handlers
    <3>2. t \in Workers => \A g \in ToSet(rest) : g[1] \in Handlers
      BY <2>2 DEF SilentInv, MadeOf
    <3>3. stack \in Seq(ToSet(stack))
      BY <2>5 DEF Ordered
    <3>4. QED
      BY <2>5, <3>1, <3>2, <3>3 DEF MadeOf
  <2>9. /\ \A g : ~Ends(todo[t], "shutdown", g) /\ ~Ends(todo[t], "drain", g)
        /\ ~Idle(t) /\ calls' \subseteq calls
    BY <1>4, <2>1 DEF Ends, Idle
  <2>10. QED
    BY <1>1, <2>1, <2>7, <2>8, <2>9, StackSilent
<1>5. QED
  BY <1>2, <1>3, <1>4

LEMMA ChannelSilent ==
  ASSUME SilentInv, OnceInv, PlacesInv, ChannelNext, UNCHANGED <<peerVars, dispatcherVars, calls>>
  PROVE  SilentInv'
<1>1. UNCHANGED dispatching /\ calls' \subseteq calls
  BY DEF dispatcherVars, dispatching
<1>2. ASSUME todo' = todo PROVE SilentInv'
  BY <1>1, <1>2, StacksSilent
<1>3. ASSUME NEW n \in Nodes, Accept(n) PROVE SilentInv'
  <2>1. PICK g : Assemble(n, g)
    BY <1>3 DEF Accept
  <2> DEFINE r == Receiver(n)
             stack == <<<<"published", g.packet>>, <<"swallow">>>>
  <2>2. todo' = todo \/ todo' = [todo EXCEPT ![r] = stack]
    BY <2>1 DEF Assemble
  <2>3. r \in Threads /\ Idle(r) /\ r \notin Workers
    BY <1>3, ChannelAssumption, DispatcherAssumption DEF Accept
  <2>4. stack # <<>> => Head(stack)[1] \notin {"admit", "submit"}
    <3>1. Head(stack) = <<"published", g.packet>>
      OBVIOUS
    <3>2. QED
      BY <3>1
  <2>5. \A h : ~Ends(todo[r], "shutdown", h) /\ ~Ends(todo[r], "drain", h)
    BY <2>3 DEF Ends, Idle
  <2> HIDE DEF r, stack
  <2>6. QED
    BY <1>1, <1>2, <2>2, <2>3, <2>4, <2>5, StackSilent
<1>4. ASSUME NEW t \in Threads, NEW n \in Nodes, Listen(t, n) \/ Unlisten(t, n) \/ Clear(t, n)
      PROVE  SilentInv'
  <2>1. todo[t] # <<>> /\ Does(t, <<>>) /\ Head(todo[t])[1] \notin {"shutdown", "drain"}
    BY <1>4 DEF Listen, Unlisten, Clear, At
  <2>2. QED
    BY <1>1, <2>1, CalmList, CalmSilent
<1>5. CASE Lose \/ Damage \/ Unheard \/ \E n \in Nodes : Prune(n)
  BY <1>2, <1>5 DEF Lose, Damage, Unheard, Prune
<1>6. QED
  BY <1>3, <1>4, <1>5 DEF ChannelNext

\* Only its own thread ends what a stop() does.
LEMMA OthersStop ==
  ASSUME NEW t \in Threads, \A u \in Threads \ {t} : todo'[u] = todo[u]
  PROVE  \A g : /\ Shuts(g) => Shuts(g)' \/ Ends(todo[t], "shutdown", g)
                /\ Drains(g) => Drains(g)' \/ Ends(todo[t], "drain", g)
<1>1. ASSUME NEW name, NEW g, NEW u \in Threads, Ends(todo[u], name, g), ~Ends(todo[t], name, g)
      PROVE  Ends(todo'[u], name, g)
  BY <1>1
<1>2. QED
  BY <1>1 DEF Shuts, Drains

\* A request is given to the executor of the dispatcher that is active.
LEMMA DispatchSilent ==
  ASSUME SilentInv, OnceInv, PlacesInv, NEW t \in Threads, Dispatch(t), UNCHANGED calls
  PROVE  SilentInv'
<1>0. \A g : ~Ends(todo[t], "drain", g)
  BY DEF Dispatch, At, Ends
<1>1. todo[t] # <<>> /\ Head(todo[t])[1] = "handed" /\ UNCHANGED dispatching /\ calls' \subseteq calls
  BY DEF Dispatch, At, dispatcherVars, dispatching
<1> DEFINE f == <<"admit", <<Arg(t), generation>>>>
           one == <<f>>
<1>2. CASE Does(t, <<>>)
  BY <1>1, <1>2, CalmList, CalmSilent
<1>3. CASE executing /\ Does(t, one)
  <2>1. f[1] = "admit" /\ f[2][2] = generation
    OBVIOUS
  <2> HIDE DEF f
  <2>2. MadeOf(one, Handlers)
    BY <2>1, MadeList DEF Handlers
  <2>3. ToSet(one) = {f}
    BY DEF ToSet
  <2>4. Kept(generation)
    BY <1>3 DEF Kept, Active
  <2> HIDE DEF one
  <2>5. \A h \in ToSet(one) : h[1] \in {"admit", "submit"} => Kept(h[2][2]) \/ h[2][2] \in shut
    BY <2>1, <2>3, <2>4
  <2>6. QED
    BY <1>0, <1>1, <1>3, <2>2, <2>5, DoesSilent
<1>4. QED
  BY <1>2, <1>3 DEF Dispatch

LEMMA AdmitSilent ==
  ASSUME SilentInv, OnceInv, PlacesInv, NEW t \in Threads, Admit(t), UNCHANGED calls
  PROVE  SilentInv'
<1>0. \A g : ~Ends(todo[t], "drain", g)
  BY DEF Admit, At, Ends
<1>1. todo[t] # <<>> /\ Head(todo[t])[1] = "admit" /\ UNCHANGED dispatching /\ calls' \subseteq calls
  BY DEF Admit, At, dispatching
<1>2. Kept(Arg(t)[2]) \/ Arg(t)[2] \in shut
  BY <1>1 DEF SilentInv, Asks, Arg
<1> DEFINE f == <<"submit", <<Arg(t)[1], Arg(t)[2]>>>>
           one == <<f>>
<1>3. CASE Does(t, <<>>) \/ Does(t, Respond("error", Arg(t)[1]))
  <2>1. \A packet : MadeOf(<<<<"send", packet>>, <<"swallow">>>>, Calm)
    BY CalmNames, CalmList
  <2>2. MadeOf(<<>>, Calm) /\ MadeOf(Respond("error", Arg(t)[1]), Calm)
    BY <2>1, CalmList DEF Respond
  <2>3. QED
    BY <1>1, <1>3, <2>2, CalmSilent
<1>4. CASE Does(t, one)
  <2>1. f[1] = "submit" /\ f[2][2] = Arg(t)[2]
    OBVIOUS
  <2> HIDE DEF f
  <2>2. MadeOf(one, Handlers)
    BY <2>1, MadeList DEF Handlers
  <2>3. ToSet(one) = {f}
    BY DEF ToSet
  <2> HIDE DEF one
  <2>4. \A h \in ToSet(one) : h[1] \in {"admit", "submit"} => Kept(h[2][2]) \/ h[2][2] \in shut
    BY <1>2, <2>1, <2>3
  <2>5. QED
    BY <1>0, <1>1, <1>4, <2>2, <2>4, DoesSilent
<1>5. QED
  BY <1>3, <1>4 DEF Admit

\* A job that is accepted waits in an executor that is kept.
LEMMA SubmitSilent ==
  ASSUME SilentInv, OnceInv, PlacesInv, NEW t \in Threads, Submit(t), UNCHANGED calls
  PROVE  SilentInv'
<1> DEFINE packet == Arg(t)[1]
           stack == Becomes(t, <<>>)
<1>0. PICK g : g = Arg(t)[2]
  OBVIOUS
<1>1. /\ todo[t] # <<>> /\ Head(todo[t])[1] = "submit" /\ Does(t, <<>>)
      /\ UNCHANGED <<executing, generation, shut, job>> /\ calls' \subseteq calls
  BY DEF Submit, At
<1>2. Kept(g) \/ g \in shut
  BY <1>0, <1>1 DEF SilentInv, Asks, Arg
<1>3. CASE g \in shut
  <2>1. UNCHANGED dispatching
    BY <1>0, <1>1, <1>3 DEF Submit, dispatching
  <2>2. QED
    BY <1>1, <2>1, CalmList, CalmSilent
<1>4. CASE g \notin shut
  <2>1. queue' = [queue EXCEPT ![g] = Append(@, packet)]
    BY <1>0, <1>4 DEF Submit
  <2>2. \A u \in Threads : todo'[u] = IF u = t THEN stack ELSE todo[u]
    BY <1>1 DEF Does, PlacesInv
  <2>3. todo[t] \in Seq(ToSet(todo[t])) /\ <<>> \in Seq(ToSet(<<>>)) /\ ToSet(<<>>) = {}
    BY DEF OnceInv, AtTopOnly, ToSet
  <2>4. /\ stack \in Seq(ToSet(stack)) /\ ToSet(stack) \subseteq ToSet(Tail(todo[t]))
        /\ ToSet(Tail(todo[t])) \subseteq ToSet(todo[t])
    BY <1>1, <2>3, BecomesFrames
  <2>5. \A f \in ToSet(Tail(todo[t])) : f[1] \notin {"admit", "submit"}
    BY <1>1 DEF OnceInv, AtTopOnly, Idly, Bringing
  <2> HIDE DEF stack
  <2>6. \A u \in Threads : \A h : Asks(todo'[u], h) => Asks(todo[u], h)
    <3>1. \A h : ~Asks(stack, h)
      BY <2>4, <2>5, HeadFrame DEF Asks
    <3>2. QED
      BY <2>2, <3>1
  <2>7. \A h : (Shuts(h) => Shuts(h)') /\ (Drains(h) => Drains(h)')
    <3>1. \A h : ~Ends(todo[t], "shutdown", h) /\ ~Ends(todo[t], "drain", h)
      BY <1>1 DEF Ends
    <3>2. \A u \in Threads \ {t} : todo'[u] = todo[u]
      BY <2>2
    <3>3. QED
      BY <3>1, <3>2, OthersStop
  <2>8. \A h : (Active(h) => Kept(h)') /\ (Shuts(h) => Kept(h)')
    BY <1>1, <2>7 DEF Kept, Active
  <2>9. Kept(g)'
    BY <1>2, <1>4, <2>8 DEF Kept
  <2>10. \A h \in 1..generation' : queue'[h] # <<>> => Kept(h)' \/ (h \in 1..generation /\ queue[h] # <<>>)
    <3> HIDE DEF packet
    <3>1. Queues(queue)
      BY DEF PlacesInv
    <3>2. \A h \in 1..Len(queue) : h # g => queue'[h] = queue[h]
      BY <2>1, <3>1 DEF Queues
    <3>3. generation' = generation /\ Len(queue) = generation
      BY <1>1 DEF PlacesInv
    <3>4. QED
      BY <2>9, <3>2, <3>3
  <2>11. ASSUME NEW w \in Workers
         PROVE  MadeOf(todo'[w], Handlers) /\ \A h : Serves(w, h)' => Serves(w, h)
    <3>1. w \in Threads /\ MadeOf(todo[w], Handlers) /\ ~Idle(t)
      BY <1>1, DispatcherAssumption DEF SilentInv, Idle
    <3>2. CASE w = t
      BY <1>1, <2>2, <2>4, <3>1, <3>2 DEF MadeOf, Serves
    <3>3. CASE w # t
      BY <1>1, <2>2, <3>1, <3>3 DEF Serves, Idle
    <3>4. QED
      BY <3>2, <3>3
  <2>12. shut \subseteq shut' /\ job' = [w \in Workers |-> job'[w]]
    BY <1>1 DEF SilentInv
  <2>13. QED
    BY <1>1, <2>6, <2>7, <2>8, <2>10, <2>11, <2>12, SilentKept
<1>5. QED
  BY <1>3, <1>4

\* A worker takes a job of an executor that is kept.
LEMMA WorkSilent ==
  ASSUME SilentInv, OnceInv, PlacesInv, NEW w \in Workers, Work(w), UNCHANGED calls
  PROVE  SilentInv'
<1>1. PICK g \in DOMAIN queue :
        /\ queue[g] # <<>> /\ job' = [job EXCEPT ![w] = g]
        /\ todo' = [todo EXCEPT ![w] = <<<<"handle", Head(queue[g])>>, <<"free">>>>]
        /\ queue' = [queue EXCEPT ![g] = Tail(@)]
  BY DEF Work
<1>2. /\ Idle(w) /\ UNCHANGED <<executing, generation, shut>> /\ calls' \subseteq calls
      /\ w \in Threads
  BY DispatcherAssumption DEF Work
<1>3. Queues(queue) /\ Len(queue) = generation /\ DOMAIN queue = 1..generation
  BY DEF PlacesInv, Queues
<1>4. Kept(g)
  BY <1>1, <1>3 DEF SilentInv
<1> DEFINE a == <<"handle", Head(queue[g])>>
           b == <<"free">>
           stack == <<a, b>>
<1>5. \A u \in Threads : todo'[u] = IF u = w THEN stack ELSE todo[u]
  BY <1>1 DEF PlacesInv
<1>6. a[1] \in Calm /\ b[1] \in Calm
  BY CalmNames
<1> HIDE DEF a, b
<1>7. MadeOf(stack, Handlers) /\ stack # <<>> /\ Head(stack) = a
  <2>1. a[1] \in Handlers /\ b[1] \in Handlers
    BY <1>6 DEF Handlers
  <2>2. QED
    BY <2>1, MadeList
<1> HIDE DEF stack
<1>8. \A h : ~Asks(stack, h)
  BY <1>6, <1>7 DEF Asks, Calm
<1>9. \A h : (Shuts(h) => Shuts(h)') /\ (Drains(h) => Drains(h)')
  <2>1. \A h : ~Ends(todo[w], "shutdown", h) /\ ~Ends(todo[w], "drain", h)
    BY <1>2 DEF Ends, Idle
  <2>2. \A u \in Threads \ {w} : todo'[u] = todo[u]
    BY <1>5
  <2>3. QED
    BY <1>2, <2>1, <2>2, OthersStop
<1>10. \A h : (Active(h) => Kept(h)') /\ (Shuts(h) => Kept(h)')
  BY <1>2, <1>9 DEF Kept, Active
<1>11. Kept(g)'
  BY <1>4, <1>10 DEF Kept
<1>12. ASSUME NEW v \in Workers
       PROVE  /\ MadeOf(todo'[v], Handlers)
              /\ \A h : Serves(v, h)' => Kept(h)' \/ Serves(v, h)
  <2>1. v \in Threads /\ MadeOf(todo[v], Handlers)
    BY DispatcherAssumption DEF SilentInv
  <2>2. CASE v = w
    <3>1. job'[v] = g
      BY <1>1, <2>2 DEF SilentInv
    <3>2. todo'[v] = stack
      BY <1>5, <2>1, <2>2
    <3>3. \A h : Serves(v, h)' => h = g
      BY <3>1 DEF Serves
    <3>4. QED
      BY <1>7, <1>11, <3>2, <3>3
  <2>3. CASE v # w
    BY <1>1, <1>5, <2>1, <2>3 DEF Serves, Idle
  <2>4. QED
    BY <2>2, <2>3
<1>13. \A h \in 1..generation' : queue'[h] # <<>> => Kept(h)' \/ (h \in 1..generation /\ queue[h] # <<>>)
  <2>1. \A h \in 1..generation : h # g => queue'[h] = queue[h]
    BY <1>1, <1>3 DEF Queues
  <2>2. QED
    BY <1>2, <1>11, <2>1
<1>14. \A u \in Threads : \A h : Asks(todo'[u], h) => Asks(todo[u], h)
  BY <1>5, <1>8
<1>15. shut \subseteq shut' /\ job' = [v \in Workers |-> job'[v]]
  BY <1>1, <1>2 DEF SilentInv
<1>16. QED
  BY <1>2, <1>9, <1>10, <1>12, <1>13, <1>14, <1>15, SilentKept

\* A generation begins, or none does: the executor of the last one is kept, or its
\* shutdown is the next thing to happen.
LEMMA GenerationSilent ==
  ASSUME SilentInv, OnceInv, PlacesInv, calls' \subseteq calls, UNCHANGED <<shut, job>>,
         UNCHANGED <<generation, queue>> \/ NextGeneration,
         NEW t \in Threads, todo[t] # <<>>, NEW frames, Does(t, frames),
         MadeOf(frames, Handlers \cup {"shutdown"}), t \in Workers => MadeOf(frames, Handlers),
         \A f \in ToSet(frames) : f[1] \notin {"admit", "submit"},
         Head(todo[t])[1] \notin {"shutdown", "drain"},
         \A g : Active(g) => Kept(g)'
  PROVE  SilentInv'
<1> DEFINE stack == Becomes(t, frames)
<1>1. todo[t] \in Seq(ToSet(todo[t])) /\ frames \in Seq(ToSet(frames))
  BY DEF OnceInv, AtTopOnly, MadeOf
<1>2. /\ stack \in Seq(ToSet(stack))
      /\ ToSet(stack) \subseteq ToSet(frames) \cup ToSet(Tail(todo[t]))
      /\ ToSet(Tail(todo[t])) \subseteq ToSet(todo[t])
  BY <1>1, BecomesFrames
<1>3. \A u \in Threads : todo'[u] = IF u = t THEN stack ELSE todo[u]
  BY DEF Does, PlacesInv
<1>4. \A f \in ToSet(Tail(todo[t])) : f[1] \notin {"admit", "submit"}
  BY DEF OnceInv, AtTopOnly, Idly, Bringing
<1> HIDE DEF stack
<1>5. \A u \in Threads : \A g : Asks(todo'[u], g) => Asks(todo[u], g)
  <2>1. \A g : ~Asks(stack, g)
    BY <1>2, <1>4, HeadFrame DEF Asks
  <2>2. QED
    BY <1>3, <2>1
<1>6. \A g : (Shuts(g) => Shuts(g)') /\ (Drains(g) => Drains(g)')
  <2>1. \A g : ~Ends(todo[t], "shutdown", g) /\ ~Ends(todo[t], "drain", g)
    BY DEF Ends
  <2>2. \A u \in Threads \ {t} : todo'[u] = todo[u]
    BY <1>3
  <2>3. QED
    BY <2>1, <2>2, OthersStop
<1>7. \A g : (Active(g) => Kept(g)') /\ (Shuts(g) => Kept(g)')
  BY <1>6 DEF Kept
<1>8. \A g \in 1..generation' : queue'[g] # <<>> => g \in 1..generation /\ queue[g] # <<>>
  <2>1. CASE UNCHANGED <<generation, queue>>
    BY <2>1
  <2>2. CASE NextGeneration
    <3>1. /\ queue \in Seq(ToSet(queue)) /\ Len(queue) = generation /\ generation \in Nat
      BY DEF PlacesInv, Queues
    <3>2. queue' = Append(queue, <<>>) /\ generation' = generation + 1
      BY <2>2 DEF NextGeneration
    <3>3. /\ \A g \in 1..generation : queue'[g] = queue[g]
          /\ queue'[generation + 1] = <<>>
      BY <3>1, <3>2, AppendProperties
    <3>4. \A g \in 1..(generation + 1) : g \in 1..generation \/ g = generation + 1
      BY <3>1
    <3>5. QED
      BY <3>2, <3>3, <3>4
  <2>3. QED
    BY <2>1, <2>2
<1>9. ASSUME NEW w \in Workers
      PROVE  MadeOf(todo'[w], Handlers) /\ \A g : Serves(w, g)' => Serves(w, g)
  <2>1. w \in Threads /\ MadeOf(todo[w], Handlers) /\ ~Idle(t)
    BY DispatcherAssumption DEF SilentInv, Idle
  <2>2. CASE w = t
    <3>1. todo'[w] = stack /\ MadeOf(frames, Handlers)
      BY <1>3, <2>1, <2>2
    <3>2. MadeOf(stack, Handlers)
      BY <1>2, <2>1, <2>2, <3>1 DEF MadeOf
    <3>3. QED
      BY <2>1, <2>2, <3>1, <3>2 DEF Serves
  <2>3. CASE w # t
    BY <1>3, <2>1, <2>3 DEF Serves, Idle
  <2>4. QED
    BY <2>2, <2>3
<1>10. shut \subseteq shut' /\ job' = [w \in Workers |-> job'[w]]
  BY DEF SilentInv
<1>11. QED
  BY <1>5, <1>6, <1>7, <1>8, <1>9, <1>10, SilentKept

LEMMA StartSilent ==
  ASSUME SilentInv, OnceInv, PlacesInv, NEW t \in Threads, DispatcherStart(t), UNCHANGED calls
  PROVE  SilentInv'
<1>1. /\ todo[t] # <<>> /\ Head(todo[t])[1] = "dispatcher_start" /\ Does(t, <<>>)
      /\ UNCHANGED <<shut, job>> /\ calls' \subseteq calls /\ executing' = TRUE
      /\ IF executing THEN UNCHANGED <<generation, queue>> ELSE NextGeneration
  BY DEF DispatcherStart, At
<1>2. MadeOf(<<>>, Handlers) /\ MadeOf(<<>>, Handlers \cup {"shutdown"}) /\ ToSet(<<>>) = {}
  BY MadeList DEF ToSet
<1>3. \A g : Active(g) => Kept(g)'
  <2>1. \A g : Active(g) => Active(g)'
    BY <1>1 DEF Active
  <2>2. QED
    BY <2>1 DEF Kept
<1>4. \A f \in ToSet(<<>>) : f[1] \notin {"admit", "submit"}
  BY <1>2
<1>5. UNCHANGED <<generation, queue>> \/ NextGeneration
  BY <1>1
<1>6. Head(todo[t])[1] \notin {"shutdown", "drain"}
  BY <1>1
<1>7. QED
  BY <1>1, <1>2, <1>3, <1>4, <1>5, <1>6, GenerationSilent

\* Who stops the dispatcher is no worker, and shuts its executor down next.
LEMMA StopSilent ==
  ASSUME SilentInv, OnceInv, PlacesInv, WaitInv, NEW t \in Threads, DispatcherStop(t), UNCHANGED calls
  PROVE  SilentInv'
<1>1. /\ todo[t] # <<>> /\ Head(todo[t])[1] = "dispatcher_stop"
      /\ UNCHANGED <<shut, job>> /\ calls' \subseteq calls /\ NextGeneration
  BY DEF DispatcherStop, At
<1>2. t \notin Workers
  <2>1. Head(todo[t]) \in ToSet(todo[t])
    BY <1>1, HeadFrame DEF OnceInv, AtTopOnly
  <2>2. "dispatcher_stop" \notin Handlers
    BY DEF Handlers, Calm
  <2>3. QED
    BY <1>1, <2>1, <2>2 DEF SilentInv, MadeOf
<1>3. Head(todo[t])[1] \notin {"shutdown", "drain"}
  BY <1>1
<1>4. CASE ~executing
  <2>1. Does(t, <<>>) /\ \A g : Active(g) => Kept(g)'
    BY <1>4 DEF DispatcherStop, Active
  <2>2. MadeOf(<<>>, Handlers \cup {"shutdown"}) /\ \A f \in ToSet(<<>>) : f[1] \notin {"admit", "submit"}
    BY MadeList DEF ToSet
  <2>3. QED
    BY <1>1, <1>2, <1>3, <2>1, <2>2, GenerationSilent
<1>5. CASE executing
  <2> DEFINE f == <<"shutdown", generation>>
             one == <<f>>
  <2>1. Does(t, one)
    BY <1>5 DEF DispatcherStop
  <2>2. f[1] = "shutdown" /\ f[2] = generation
    OBVIOUS
  <2> HIDE DEF f
  <2>3. MadeOf(one, Handlers \cup {"shutdown"})
    BY <2>2, MadeList
  <2>4. one # <<>> /\ Head(one) = f /\ ToSet(one) = {f}
    BY DEF ToSet
  <2>5. MadeOf(one, Unasked)
    BY <2>2, MadeList DEF Unasked
  <2> HIDE DEF one
  <2>6. Becomes(t, one) # <<>> /\ Head(Becomes(t, one)) = f
    <3>1. Ordered(one) /\ Head(one)[1] \notin Marks
      BY <2>2, <2>4, <2>5, UnaskedOrdered DEF Marks
    <3>2. QED
      BY <1>1, <2>4, <3>1, BecomesHead
  <2>7. todo'[t] = Becomes(t, one)
    BY <2>1 DEF Does, PlacesInv
  <2>8. ASSUME NEW g, g = generation PROVE Kept(g)'
    <3>1. Ends(todo'[t], "shutdown", g)
      BY <2>2, <2>6, <2>7, <2>8 DEF Ends
    <3>2. QED
      BY <3>1 DEF Kept, Shuts
  <2>9. \A g : Active(g) => Kept(g)'
    BY <2>8 DEF Active
  <2>10. \A h \in ToSet(one) : h[1] \notin {"admit", "submit"}
    BY <2>2, <2>4
  <2>11. QED
    BY <1>1, <1>2, <1>3, <2>1, <2>3, <2>9, <2>10, GenerationSilent
<1>6. QED
  BY <1>4, <1>5

\* The executor is shut down and empty, and its workers are waited for.
LEMMA ShutdownSilent ==
  ASSUME SilentInv, OnceInv, PlacesInv, WaitInv, NEW t \in Threads, Shutdown(t), UNCHANGED calls
  PROVE  SilentInv'
<1>0. PICK g : g = Arg(t)
  OBVIOUS
<1>1. /\ todo[t] # <<>> /\ Head(todo[t])[1] = "shutdown" /\ Head(todo[t])[2] = g
      /\ UNCHANGED <<executing, generation, job>> /\ calls' \subseteq calls
      /\ shut' = shut \cup {g} /\ queue' = [queue EXCEPT ![g] = <<>>]
  BY <1>0 DEF Shutdown, At, Arg
<1>2. t \notin Workers
  <2>1. Head(todo[t]) \in ToSet(todo[t])
    BY <1>1, HeadFrame DEF OnceInv, AtTopOnly
  <2>2. "shutdown" \notin Handlers
    BY DEF Handlers, Calm
  <2>3. QED
    BY <1>1, <2>1, <2>2 DEF SilentInv, MadeOf
<1> DEFINE f == <<"drain", g>>
           one == <<f>>
           stack == Becomes(t, one)
<1>3. Does(t, one)
  BY <1>0, <1>2 DEF Shutdown
<1>4. f[1] = "drain" /\ f[2] = g
  OBVIOUS
<1> HIDE DEF f
<1>5. one # <<>> /\ Head(one) = f
  OBVIOUS
<1>6. MadeOf(one, Unasked)
  BY <1>4, MadeList DEF Unasked
<1> HIDE DEF one
<1>7. stack # <<>> /\ Head(stack) = f
  <2>1. Ordered(one) /\ Head(one)[1] \notin Marks
    BY <1>4, <1>5, <1>6, UnaskedOrdered DEF Marks
  <2>2. QED
    BY <1>1, <1>5, <2>1, BecomesHead
<1>8. \A u \in Threads : todo'[u] = IF u = t THEN stack ELSE todo[u]
  BY <1>3 DEF Does, PlacesInv
<1> HIDE DEF stack
<1>9. \A u \in Threads : \A h : Asks(todo'[u], h) => Asks(todo[u], h)
  <2>1. \A h : ~Asks(stack, h)
    BY <1>4, <1>7 DEF Asks
  <2>2. QED
    BY <1>8, <2>1
<1>10. \A h : /\ Shuts(h) => Shuts(h)' \/ h = g
              /\ Drains(h) => Drains(h)'
  <2>1. \A h : (Ends(todo[t], "shutdown", h) => h = g) /\ ~Ends(todo[t], "drain", h)
    BY <1>1 DEF Ends
  <2>2. \A u \in Threads \ {t} : todo'[u] = todo[u]
    BY <1>8
  <2>3. QED
    BY <2>1, <2>2, OthersStop
<1>11. Drains(g)'
  <2>1. Ends(todo'[t], "drain", g)
    BY <1>4, <1>7, <1>8 DEF Ends
  <2>2. QED
    BY <2>1 DEF Drains
<1>12. Queues(queue) /\ Len(queue) = generation /\ g \in 1..generation
  <2>1. Allowed(t, Head(todo[t]), generation)
    BY <1>1, TopAllowed
  <2>2. QED
    BY <1>1, <2>1 DEF Allowed, PlacesInv
<1>13. queue'[g] = <<>> /\ \A h \in 1..generation : h # g => queue'[h] = queue[h]
  BY <1>1, <1>12 DEF Queues
<1>14. \A h : Active(h) => Kept(h)'
  BY <1>1 DEF Active, Kept
<1>15. \A h : Shuts(h) => Kept(h)' \/ (h \in shut' /\ Drains(h)' /\ (h \in 1..generation' => queue'[h] = <<>>))
  BY <1>1, <1>10, <1>11, <1>13 DEF Kept
<1>16. \A h \in 1..generation' : queue'[h] # <<>> => h \in 1..generation /\ queue[h] # <<>>
  BY <1>1, <1>13
<1>17. ASSUME NEW w \in Workers
       PROVE  MadeOf(todo'[w], Handlers) /\ \A h : Serves(w, h)' => Serves(w, h)
  <2>1. w \in Threads /\ w # t /\ MadeOf(todo[w], Handlers)
    BY <1>2, DispatcherAssumption DEF SilentInv
  <2>2. QED
    BY <1>1, <1>8, <2>1 DEF Serves, Idle
<1>18. shut \subseteq shut' /\ job' = [w \in Workers |-> job'[w]]
  BY <1>1 DEF SilentInv
<1>19. QED
  BY <1>1, <1>9, <1>10, <1>14, <1>15, <1>16, <1>17, <1>18, SilentKept

\* What workers do and what does not concern an executor.
LEMMA HandlersSilent ==
  ASSUME SilentInv, OnceInv, PlacesInv, NEW t \in Threads,
         Handle(t) \/ AnswerRequest(t) \/ Free(t) \/ Serve(t) \/ Drain(t), UNCHANGED calls
  PROVE  SilentInv'
<1>1. todo[t] # <<>> /\ UNCHANGED dispatching /\ calls' \subseteq calls
  BY DEF Handle, AnswerRequest, Free, Serve, Drain, At, dispatcherVars, dispatching
<1>2. MadeOf(<<>>, Calm)
  BY CalmList
<1>3. CASE Handle(t) \/ AnswerRequest(t) \/ Free(t) \/ Serve(t)
  <2>1. Head(todo[t])[1] \notin {"shutdown", "drain"}
    BY <1>3 DEF Handle, AnswerRequest, Free, Serve, At
  <2>2. \A answer : /\ MadeOf(<<<<"user">>, <<"swallow">>, <<"answer", answer>>>>, Calm)
                    /\ MadeOf(<<<<"answer", answer>>>>, Calm)
    BY CalmNames, CalmList
  <2>3. \A kind, packet : MadeOf(Respond(kind, packet), Calm)
    <3>1. \A packet : MadeOf(<<<<"send", packet>>, <<"swallow">>>>, Calm)
      BY CalmNames, CalmList
    <3>2. QED
      BY <1>2, <3>1 DEF Respond
  <2>4. PICK frames : Does(t, frames) /\ MadeOf(frames, Calm)
    BY <1>2, <1>3, <2>2, <2>3 DEF Handle, AnswerRequest, Free, Serve
  <2>5. QED
    BY <1>1, <2>1, <2>4, CalmSilent
<1>4. CASE Drain(t)
  <2>1. /\ Head(todo[t])[1] = "drain" /\ Does(t, <<>>) /\ Busy(Arg(t)) = {}
    BY <1>4 DEF Drain, At
  <2>2. \A g : Ends(todo[t], "drain", g) => Busy(g) = {}
    BY <2>1 DEF Ends, Arg
  <2>3. MadeOf(<<>>, Handlers) /\ ToSet(<<>>) = {}
    BY MadeList DEF ToSet
  <2>4. \A f \in ToSet(<<>>) : f[1] \in {"admit", "submit"} => Kept(f[2][2]) \/ f[2][2] \in shut
    BY <2>3
  <2>5. Head(todo[t])[1] # "shutdown"
    BY <2>1
  <2>6. QED
    BY <1>1, <2>1, <2>2, <2>3, <2>4, <2>5, DoesSilent
<1>5. QED
  BY <1>3, <1>4

LEMMA SilentStep ==
  ASSUME SilentInv, OnceInv, PlacesInv, WaitInv, [Next]_vars PROVE SilentInv'
<1>1. CASE ChannelNext /\ UNCHANGED <<peerVars, dispatcherVars, calls>>
  BY <1>1, ChannelSilent
<1>2. ASSUME UNCHANGED <<todo, calls, dispatcherVars>> PROVE SilentInv'
  <2>1. UNCHANGED dispatching /\ calls' \subseteq calls /\ todo' = todo
    BY <1>2 DEF dispatcherVars, dispatching
  <2>2. QED
    BY <2>1, StacksSilent
<1>3. CASE PeerNext /\ UNCHANGED <<dispatcherVars, calls>>
  <2>1. ASSUME NEW n \in Nodes, Toggle(n) PROVE SilentInv'
    BY <1>2, <1>3, <2>1 DEF Toggle
  <2>2. QED
    BY <1>3, <2>1, PeerSilent, WatchSilent DEF PeerNext
<1>4. CASE DispatcherNext /\ UNCHANGED calls
  BY <1>4, DispatchSilent, AdmitSilent, SubmitSilent, WorkSilent, HandlersSilent, StartSilent,
     StopSilent, ShutdownSilent DEF DispatcherNext
<1>5. CASE \E t \in Threads : Call(t) \/ Leave(t) \/ Published(t)
  BY <1>5, CallsSilent DEF Call, Leave, Published
<1>6. CASE \E t \in Threads : Unwind(t) /\ UNCHANGED <<channelVars, peerVars, dispatcherVars, calls>>
  BY <1>6, CallsSilent
<1>7. CASE UNCHANGED vars
  BY <1>2, <1>7 DEF vars
<1>8. QED
  BY <1>1, <1>3, <1>4, <1>5, <1>6, <1>7 DEF Next, Terminating

LEMMA SilentBegin == ASSUME StopsOutside, Init PROVE SilentInv
<1>1. /\ todo = [t \in Threads |-> IF \E n \in Nodes : t = Monitor(n) THEN <<<<"asleep">>>> ELSE <<>>]
      /\ generation = 1 /\ queue = <<<<>>>> /\ job = [w \in Workers |-> 0]
  BY DEF Init, DispatcherInit
<1>2. Head(<<<<"asleep">>>>)[1] = "asleep"
  OBVIOUS
<1>3. \A t \in Threads : \A g : ~Asks(todo[t], g)
  BY <1>1, <1>2 DEF Asks
<1>4. \A g \in 1..generation : queue[g] = <<>>
  BY <1>1
<1>5. \A w \in Workers : todo[w] = <<>>
  BY <1>1, DispatcherAssumption
<1>6. \A w \in Workers : MadeOf(todo[w], Handlers)
  BY <1>5, MadeList
<1>7. \A w \in Workers : \A g : ~Serves(w, g)
  BY <1>5 DEF Serves, Idle
<1>8. \A call \in calls : call[1] \in Workers => call[2] \notin {"down", "dispatcher_stop"}
  BY DEF Init, StopsOutside
<1>9. job = [w \in Workers |-> job[w]]
  BY <1>1
<1>10. QED
  BY <1>3, <1>4, <1>6, <1>7, <1>8, <1>9 DEF SilentInv

LEMMA SilentFollow == ASSUME SilentInv, OnceInv PROVE StoppedIsSilent
<1>1. ASSUME NEW w \in Workers, Doing(w, "send") \/ Doing(w, "transmit")
      PROVE  Active(job[w]) \/ \E t \in Threads : Doing(t, "shutdown") \/ At(t, "drain")
  <2>1. Serves(w, job[w])
    BY <1>1 DEF Doing, Serves, Idle
  <2>2. Kept(job[w]) \/ Drains(job[w])
    BY <2>1 DEF SilentInv
  <2>3. ASSUME NEW t \in Threads, NEW g, Ends(todo[t], "shutdown", g) PROVE Doing(t, "shutdown")
    <3>1. todo[t] \in Seq(ToSet(todo[t])) /\ todo[t] # <<>> /\ Head(todo[t])[1] = "shutdown"
      BY <2>3 DEF Ends, OnceInv, AtTopOnly
    <3>2. 1 \in DOMAIN todo[t] /\ todo[t][1] = Head(todo[t])
      BY <3>1
    <3>3. QED
      BY <3>1, <3>2 DEF Doing
  <2>4. ASSUME NEW t \in Threads, NEW g, Ends(todo[t], "drain", g) PROVE At(t, "drain")
    BY <2>4 DEF Ends, At
  <2>5. QED
    BY <2>2, <2>3, <2>4 DEF Kept, Shuts, Drains
<1>2. QED
  BY <1>1 DEF StoppedIsSilent

\* No worker answers for a dispatcher whose stop() has returned, for any number of
\* workers, requests and starts, if no handler stops the dispatcher that runs it:
\* stop() then waits for whoever is still at work (dispatch.py:187-203, 296-304).
THEOREM StoppedAnswersNothing ==
  ASSUME StopsOutside
  PROVE  Spec => []StoppedIsSilent
<1>1. Init => SilentInv /\ OnceInv /\ AckInv /\ PlacesInv /\ BytesInv /\ WaitInv
  BY SilentBegin, OnceBegin, AckBegin, PlacesBegin, BytesBegin, WaitBegin
<1>2. SilentInv /\ OnceInv /\ AckInv /\ PlacesInv /\ BytesInv /\ WaitInv /\ [Next]_vars
        => (SilentInv /\ OnceInv /\ AckInv /\ PlacesInv /\ BytesInv /\ WaitInv)'
  BY SilentStep, OnceStep, AckStep, PlacesStep, BytesStep, WaitStep
<1>3. SilentInv /\ OnceInv => StoppedIsSilent
  BY SilentFollow
<1>4. QED
  BY <1>1, <1>2, <1>3, PTL DEF Spec
===============================================================================
