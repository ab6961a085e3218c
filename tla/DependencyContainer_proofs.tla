---------------------- MODULE DependencyContainer_proofs -----------------------
(***************************************************************************)
(* Gates, instances and shutdown of the container, for any tokens,         *)
(* dependencies and threads.                                               *)
(***************************************************************************)
EXTENDS DependencyContainer, SequenceTheorems, TLAPS

Frames == [provider : Providers, at : Nat]

-------------------------------------------------------------------------------
\* Gates.

\* A thread has a stack exactly while it resolves, and resolves a token once.
StacksOK ==
  /\ \A t \in Threads : stack[t] # <<>> <=> pc[t] \in ResolveLabels
  /\ \A t \in Threads : \A i, j \in DOMAIN stack[t] :
       stack[t][i].provider[1] = stack[t][j].provider[1] => i = j

\* Who owns a gate resolves its provider.
OwnersResolve ==
  \A t \in Threads, p \in Providers :
    owner[p] = t => \E i \in DOMAIN stack[t] : stack[t][i].provider = p

GatesOK == StacksOK /\ OwnersResolve /\ CreatorOwnsGate

-------------------------------------------------------------------------------
\* Who cleans up what.

\* The thread that unregisters a token, from its claim on the disposal on.
Disposes(t) == pc[t] \in {"retire", "drain"} \/ (pc[t] = "close" /\ shutter # t)
ShutsDown(t) == pc[t] = "close" /\ shutter = t

RolesOK ==
  /\ \A t \in Threads :
       /\ pc[t] \in {"disposals", "wait_disposals", "retire_all"} => shutter = t
       /\ shutter = t => pc[t] \in {"disposals", "wait_disposals", "retire_all", "close"}
       /\ pc[t] \in {"begin", "commit"} \/ Disposes(t) \/ t \in replaces => target[t] \in Tokens
       /\ t \in replaces =>
            pc[t] \in {"begin", "join", "commit"} \/ Disposes(t)
       /\ Disposes(t) => target[t] \in disposals
  /\ \A t, u \in Threads :
       Disposes(t) /\ Disposes(u) /\ target[t] = target[u] => t = u

-------------------------------------------------------------------------------
\* Instances.

Of(i) == i[1][1]

InstancesOK ==
  /\ \A i \in tracked \cup disposed : i[2] <= created[i[1]]
  /\ tracked \cap disposed = {}
  /\ \A k \in Tokens : cached[k] # NoInstance =>
       /\ cached[k][1] = <<k, provider[k]>>
       /\ cached[k] \in tracked /\ cached[k] \notin disposing

\* Each instance that is being closed is claimed by one thread, which unregisters
\* its token or shuts down.
ClaimsOK ==
  /\ disposing \subseteq tracked
  /\ \A i \in disposing : \E t \in Threads : i \in toClose[t]
  /\ \A t \in Threads :
       /\ toClose[t] \subseteq disposing
       /\ \A u \in Threads \ {t} : toClose[t] \cap toClose[u] = {}
       /\ pc[t] # "close" => toClose[t] = {} /\ unclosed[t] = {}
       /\ Disposes(t) => \A i \in toClose[t] \cup unclosed[t] : Of(i) = target[t]
  /\ \A k \in Tokens : \A i \in pending[k] : Of(i) = k

-------------------------------------------------------------------------------
\* Retired gates and shutdown.

\* A registration that was replaced is retired, and nobody creates for it.
Gone(k, n) == <<k, n>> \in retired /\ owner[<<k, n>>] = NoThread

RetiredOK ==
  /\ \A k \in Tokens : provider[k] <= registrations[k]
  /\ \A k \in Tokens, n \in Numbers :
       n <= registrations[k] /\ n # provider[k] => Gone(k, n)
  /\ \A t \in Threads : \A i \in DOMAIN stack[t] :
       stack[t][i].provider[2] <= registrations[stack[t][i].provider[1]]
  /\ \A t \in Threads :
       pc[t] = "drain" /\ provider[target[t]] # 0 =>
         <<target[t], provider[target[t]]>> \in retired

AllGone == \A k \in Tokens : provider[k] # 0 => Gone(k, provider[k])

ShutdownOK ==
  /\ \A p \in Providers : \A n \in 1..created[p] : <<p, n>> \in tracked \cup disposed
  /\ \A t \in Threads :
       /\ pc[t] = "wait_disposals" => disposals \subseteq awaits[t]
       /\ pc[t] = "retire_all" \/ ShutsDown(t) => disposals = {}
       /\ pc[t] = "retire_all" =>
            /\ \A k \in toRetire[t] : provider[k] # 0
            /\ \A k \in Tokens \ toRetire[t] :
                 provider[k] # 0 => <<k, provider[k]>> \in retired
       /\ ShutsDown(t) => AllGone /\ tracked \subseteq toClose[t] \cup unclosed[t]
  /\ closed => AllGone /\ tracked = {} /\ disposals = {} /\ shutter = NoThread

DInv == TypeOK /\ GatesOK /\ RolesOK /\ InstancesOK /\ ClaimsOK /\ RetiredOK /\ ShutdownOK

-------------------------------------------------------------------------------
\* Stacks.

\* What the proofs about gates need to know of the types.
GateTypes ==
  /\ provider \in [Tokens -> Numbers \cup {0}]
  /\ owner \in [Providers -> Threads \cup {NoThread}]
  /\ pc \in [Threads -> {"idle"} \cup ResolveLabels \cup CleanupLabels]
  /\ stack \in [Threads -> Seq(Frames)]

\* They follow from the types of all variables.
LEMMA TypesOfGates == ASSUME TypeOK PROVE GateTypes
  BY DEF TypeOK, GateTypes, Frames

\* A stack that is not empty has a top frame.
LEMMA TopOfStack ==
  ASSUME GateTypes, NEW t \in Threads, stack[t] # <<>>
  PROVE  /\ Len(stack[t]) \in Nat /\ Len(stack[t]) >= 1
         /\ Len(stack[t]) \in DOMAIN stack[t]
         /\ DOMAIN stack[t] = 1..Len(stack[t])
         /\ Top(t) \in Frames /\ Resolved(t) \in Providers
         /\ Top(t) = stack[t][Len(stack[t])]
<1>1. stack[t] \in Seq(Frames)
  BY DEF GateTypes
<1>2. Len(stack[t]) \in Nat /\ Len(stack[t]) >= 1
  BY <1>1
<1>3. Top(t) \in Frames
  BY <1>1, <1>2 DEF Top
<1>4. QED
  BY <1>1, <1>2, <1>3 DEF Top, Resolved, Frames

\* Advancing a frame to its next parameter keeps its provider ...
LEMMA NextFrame ==
  ASSUME NEW f \in Frames
  PROVE  NextOf(f) \in Frames /\ NextOf(f).provider = f.provider
  BY DEF NextOf, Frames

\* ... and so does advancing one frame of a stack.
LEMMA AdvancedStack ==
  ASSUME NEW s \in Seq(Frames), NEW n \in 1..Len(s)
  PROVE  /\ [s EXCEPT ![n] = NextOf(@)] \in Seq(Frames)
         /\ Len([s EXCEPT ![n] = NextOf(@)]) = Len(s)
         /\ \A i \in 1..Len(s) : [s EXCEPT ![n] = NextOf(@)][i].provider = s[i].provider
<1>1. s[n] \in Frames
  OBVIOUS
<1>2. NextOf(s[n]) \in Frames /\ NextOf(s[n]).provider = s[n].provider
  BY <1>1, NextFrame
<1>3. QED
  BY <1>1, <1>2

\* A stack without its top.
LEMMA ShorterStack ==
  ASSUME NEW s \in Seq(Frames), Len(s) >= 1
  PROVE  /\ SubSeq(s, 1, Len(s) - 1) \in Seq(Frames)
         /\ Len(SubSeq(s, 1, Len(s) - 1)) = Len(s) - 1
         /\ \A i \in 1..(Len(s) - 1) : SubSeq(s, 1, Len(s) - 1)[i] = s[i]
<1>1. PICK n \in Nat : n = Len(s) - 1
  OBVIOUS
<1>2. \A i \in 1..n : s[i] \in Frames
  BY <1>1
<1>3. /\ SubSeq(s, 1, n) \in Seq(Frames)
      /\ Len(SubSeq(s, 1, n)) = IF 1 <= n THEN n - 1 + 1 ELSE 0
      /\ \A i \in 1..(n - 1 + 1) : SubSeq(s, 1, n)[i] = s[1 + i - 1]
  BY <1>2, SubSeqProperties
<1>4. \A i \in 1..n : SubSeq(s, 1, n)[i] = s[i]
  <2>1. TAKE i \in 1..n
  <2>2. i \in 1..(n - 1 + 1) /\ 1 + i - 1 = i
    OBVIOUS
  <2>3. QED
    BY <1>3, <2>2
<1>5. Len(SubSeq(s, 1, n)) = n
  BY <1>3
<1>6. QED
  BY <1>1, <1>3, <1>4, <1>5

\* Return() takes the top frame away and leaves the providers of the others.
LEMMA ReturnStack ==
  ASSUME GateTypes, NEW t \in Threads, stack[t] # <<>>, NEW ok \in BOOLEAN, Return(t, ok)
  PROVE  /\ stack' \in [Threads -> Seq(Frames)]
         /\ DOMAIN stack'[t] = 1..(Len(stack[t]) - 1)
         /\ stack'[t] # <<>> <=> pc'[t] \in ResolveLabels
         /\ \A i \in 1..(Len(stack[t]) - 1) :
              stack'[t][i].provider = stack[t][i].provider /\ InCreation(t, i)'
         /\ \A u \in Threads \ {t} : stack'[u] = stack[u] /\ pc'[u] = pc[u]
         /\ pc' \in [Threads -> {"idle"} \cup ResolveLabels \cup CleanupLabels]
         /\ Len(stack[t]) = 1 => pc'[t] = "idle"
         /\ Len(stack[t]) # 1 => pc'[t] = IF ok THEN "create" ELSE "giveup"
<1>1. stack[t] \in Seq(Frames) /\ Len(stack[t]) \in Nat /\ Len(stack[t]) >= 1
  BY TopOfStack DEF GateTypes
<1>2. PICK outer : outer = SubSeq(stack[t], 1, Len(stack[t]) - 1)
  OBVIOUS
<1> DEFINE n == Len(outer)
           next == IF n > 0 /\ ok THEN [outer EXCEPT ![n] = NextOf(@)] ELSE outer
<1>3. /\ outer \in Seq(Frames) /\ n = Len(stack[t]) - 1 /\ n \in Nat
      /\ \A i \in 1..n : outer[i] = stack[t][i]
  BY <1>1, <1>2, ShorterStack
<1>4. /\ next \in Seq(Frames) /\ Len(next) = n
      /\ \A i \in 1..n : next[i].provider = outer[i].provider
  <2>1. CASE n > 0 /\ ok
    <3>1. n \in 1..Len(outer)
      BY <1>3, <2>1
    <3>2. next = [outer EXCEPT ![n] = NextOf(@)]
      BY <2>1
    <3>3. QED
      BY <1>3, <3>1, <3>2, AdvancedStack
  <2>2. CASE ~(n > 0 /\ ok)
    BY <1>3, <2>2
  <2>3. QED
    BY <2>1, <2>2
<1>5. /\ stack' = [stack EXCEPT ![t] = next]
      /\ pc' = [pc EXCEPT ![t] = IF n = 0 THEN "idle" ELSE IF ok THEN "create" ELSE "giveup"]
  BY <1>2 DEF Return, Goto
<1>6. /\ stack'[t] = next
      /\ stack' \in [Threads -> Seq(Frames)]
      /\ \A u \in Threads \ {t} : stack'[u] = stack[u]
  <2> HIDE DEF next
  <2>1. QED
    BY <1>4, <1>5 DEF GateTypes
<1>7. /\ pc'[t] = IF n = 0 THEN "idle" ELSE IF ok THEN "create" ELSE "giveup"
      /\ \A u \in Threads \ {t} : pc'[u] = pc[u]
      /\ pc' \in [Threads -> {"idle"} \cup ResolveLabels \cup CleanupLabels]
  BY <1>5 DEF GateTypes, ResolveLabels
<1> HIDE DEF next
<1>8. PICK last \in Nat : last = n /\ last = Len(stack[t]) - 1
  BY <1>3
<1>9. /\ Len(next) = last /\ DOMAIN next = 1..last
      /\ (next = <<>> <=> last = 0)
  <2>1. Len(next) = last /\ next \in Seq(Frames)
    BY <1>4, <1>8
  <2>2. QED
    BY <2>1, EmptySeq
<1> HIDE DEF n
<1>10. stack'[t] # <<>> <=> pc'[t] \in ResolveLabels
  BY <1>6, <1>7, <1>8, <1>9 DEF ResolveLabels
<1>11. \A i \in 1..last : stack'[t][i].provider = stack[t][i].provider
  BY <1>3, <1>4, <1>6, <1>8
<1>12. \A i \in 1..last : InCreation(t, i)'
  BY <1>6, <1>7, <1>8, <1>9 DEF InCreation
<1>13. last = 0 <=> Len(stack[t]) = 1
  BY <1>1, <1>8
<1>14. QED
  BY <1>6, <1>7, <1>8, <1>9, <1>10, <1>11, <1>12, <1>13

-------------------------------------------------------------------------------
\* Gates.

\* A step of one thread keeps GatesOK if it takes and gives back only its own gates
\* and they are those of its stack.
LEMMA GatesOfOthers ==
  ASSUME GatesOK, NEW t \in Threads,
         \A u \in Threads \ {t} :
           /\ stack'[u] = stack[u] /\ pc'[u] = pc[u]
           /\ \A p \in Providers : owner'[p] = u <=> owner[p] = u,
         \A u \in Threads \ {t} : \A i \in DOMAIN stack[u] :
           stack[u][i].provider \in Providers,
         stack'[t] # <<>> <=> pc'[t] \in ResolveLabels,
         \A i, j \in DOMAIN stack'[t] :
           stack'[t][i].provider[1] = stack'[t][j].provider[1] => i = j,
         \A p \in Providers :
           owner'[p] = t => \E i \in DOMAIN stack'[t] : stack'[t][i].provider = p,
         \A i \in DOMAIN stack'[t] :
           owner'[stack'[t][i].provider] = t <=> InCreation(t, i)'
  PROVE  GatesOK'
<1>1. StacksOK'
  <2>1. SUFFICES ASSUME NEW u \in Threads, u # t
                 PROVE  /\ stack'[u] # <<>> <=> pc'[u] \in ResolveLabels
                        /\ \A i, j \in DOMAIN stack'[u] :
                             stack'[u][i].provider[1] = stack'[u][j].provider[1] => i = j
    BY Zenon DEF StacksOK
  <2>2. stack'[u] = stack[u] /\ pc'[u] = pc[u]
    BY <2>1
  <2>3. QED
    BY <2>2 DEF GatesOK, StacksOK
<1>2. OwnersResolve'
  BY DEF GatesOK, OwnersResolve
<1>3. CreatorOwnsGate'
  <2>1. SUFFICES ASSUME NEW u \in Threads, NEW i \in DOMAIN stack'[u], u # t
                 PROVE  owner'[stack'[u][i].provider] = u <=> InCreation(u, i)'
    BY DEF CreatorOwnsGate
  <2>2. stack'[u] = stack[u] /\ pc'[u] = pc[u]
    BY <2>1
  <2>3. InCreation(u, i)' <=> InCreation(u, i)
    BY <2>2 DEF InCreation
  <2>4. QED
    BY <2>1, <2>2, <2>3 DEF GatesOK, CreatorOwnsGate
<1>4. QED
  BY <1>1, <1>2, <1>3 DEF GatesOK

\* What is on a stack is a frame of a provider.
LEMMA FramesOfOthers ==
  ASSUME GateTypes, NEW u \in Threads, NEW i \in DOMAIN stack[u]
  PROVE  stack[u][i] \in Frames /\ stack[u][i].provider \in Providers
<1>1. stack[u] \in Seq(Frames)
  BY DEF GateTypes
<1>2. stack[u][i] \in Frames
  BY <1>1
<1>3. QED
  BY <1>2 DEF Frames

\* A thread moves within its resolution, or outside.
LEMMA GatesMove ==
  ASSUME GateTypes, GatesOK, NEW t \in Threads, NEW label,
         pc[t] \in ResolveLabels <=> label \in ResolveLabels,
         pc[t] \in {"create", "release", "giveup"}
           <=> label \in {"create", "release", "giveup"},
         Goto(t, label), UNCHANGED <<owner, stack>>
  PROVE  GatesOK'
<1>1. /\ pc'[t] = label /\ \A u \in Threads \ {t} : pc'[u] = pc[u]
  BY DEF Goto, GateTypes
<1>2. \A i \in DOMAIN stack[t] : InCreation(t, i)' <=> InCreation(t, i)
  BY <1>1 DEF InCreation
<1>3. StacksOK'
  BY <1>1 DEF GatesOK, StacksOK
<1>4. QED
  BY <1>1, <1>2, <1>3, GatesOfOthers, FramesOfOthers
     DEF GatesOK, StacksOK, OwnersResolve, CreatorOwnsGate

\* It returns from a frame whose gate it does not own.
LEMMA GatesReturn ==
  ASSUME GateTypes, GatesOK, NEW t \in Threads, NEW ok \in BOOLEAN, stack[t] # <<>>,
         pc[t] \notin {"create", "release", "giveup"}, Return(t, ok), UNCHANGED owner
  PROVE  GatesOK'
<1>1. PICK n \in Nat : n = Len(stack[t]) /\ n >= 1 /\ DOMAIN stack[t] = 1..n
  BY TopOfStack
<1>2. /\ \A i \in 1..(n - 1) :
           stack'[t][i].provider = stack[t][i].provider /\ InCreation(t, i)'
      /\ \A u \in Threads \ {t} : stack'[u] = stack[u] /\ pc'[u] = pc[u]
      /\ stack'[t] # <<>> <=> pc'[t] \in ResolveLabels
  BY <1>1, ReturnStack
<1>3. DOMAIN stack'[t] = 1..(n - 1)
  BY <1>1, ReturnStack
<1>4. \A i \in 1..(n - 1) : i \in DOMAIN stack[t] /\ i # n
  BY <1>1
<1>5. \A i, j \in DOMAIN stack'[t] :
        stack'[t][i].provider[1] = stack'[t][j].provider[1] => i = j
  <2>1. \A i, j \in 1..(n - 1) :
          stack[t][i].provider[1] = stack[t][j].provider[1] => i = j
    BY <1>4 DEF GatesOK, StacksOK
  <2>2. QED
    BY <1>2, <1>3, <2>1
<1>6. \A i \in 1..n : InCreation(t, i) <=> i # n
  BY <1>1 DEF InCreation
<1>7. \A i \in DOMAIN stack'[t] : InCreation(t, i)' /\ i \in 1..n /\ i # n
  BY <1>1, <1>2, <1>3, <1>4
<1>8. \A p \in Providers :
        owner'[p] = t => \E i \in DOMAIN stack'[t] : stack'[t][i].provider = p
  <2>1. SUFFICES ASSUME NEW p \in Providers, owner[p] = t
                 PROVE  \E i \in DOMAIN stack'[t] : stack'[t][i].provider = p
    OBVIOUS
  <2>2. PICK i \in DOMAIN stack[t] : stack[t][i].provider = p
    BY <2>1 DEF GatesOK, OwnersResolve
  <2>3. i \in 1..(n - 1)
    BY <1>1, <1>6, <2>1, <2>2 DEF GatesOK, CreatorOwnsGate
  <2>4. QED
    BY <1>2, <1>3, <2>2, <2>3
<1>9. \A i \in DOMAIN stack'[t] :
        owner'[stack'[t][i].provider] = t <=> InCreation(t, i)'
  BY <1>1, <1>2, <1>3, <1>6, <1>7 DEF GatesOK, CreatorOwnsGate
<1>10. QED
  BY <1>2, <1>5, <1>8, <1>9, GatesOfOthers, FramesOfOthers

\* It claims the gate of its top frame.
LEMMA GatesClaim ==
  ASSUME GateTypes, GatesOK, NoThread \notin Threads, NEW t \in Threads,
         pc[t] = "claim", stack[t] # <<>>, owner[Resolved(t)] = NoThread,
         owner' = [owner EXCEPT ![Resolved(t)] = t], Goto(t, "create"), UNCHANGED stack
  PROVE  GatesOK'
<1>1. PICK n \in Nat : n = Len(stack[t]) /\ n >= 1 /\ DOMAIN stack[t] = 1..n
  BY TopOfStack
<1>2. /\ pc'[t] = "create" /\ \A u \in Threads \ {t} : pc'[u] = pc[u]
  BY DEF Goto, GateTypes
<1>3. /\ Resolved(t) = stack[t][n].provider /\ Resolved(t) \in Providers
  BY <1>1, TopOfStack DEF Resolved, Top
<1>4. /\ owner'[Resolved(t)] = t
      /\ \A p \in Providers \ {Resolved(t)} : owner'[p] = owner[p]
  BY <1>3 DEF GateTypes
<1>5. \A i \in 1..n : InCreation(t, i)' /\ (InCreation(t, i) <=> i # n)
  BY <1>1, <1>2 DEF InCreation
<1>6. \A p \in Providers :
        owner'[p] = t => \E i \in DOMAIN stack'[t] : stack'[t][i].provider = p
  <2>1. TAKE p \in Providers
  <2>2. CASE p = Resolved(t)
    BY <1>1, <1>3, <2>2
  <2>3. CASE p # Resolved(t)
    BY <1>4, <2>3 DEF GatesOK, OwnersResolve
  <2>4. QED
    BY <2>2, <2>3
<1>7. \A i \in DOMAIN stack'[t] : owner'[stack'[t][i].provider] = t
  <2>1. TAKE i \in DOMAIN stack'[t]
  <2>2. stack[t][i].provider \in Providers
    BY FramesOfOthers
  <2>3. CASE i = n
    BY <1>3, <1>4, <2>3
  <2>4. CASE i # n
    <3>1. owner[stack[t][i].provider] = t
      BY <1>1, <1>5, <2>4 DEF GatesOK, CreatorOwnsGate
    <3>2. QED
      BY <1>4, <2>2, <3>1
  <2>5. QED
    BY <2>3, <2>4
<1>8. \A u \in Threads \ {t} : \A p \in Providers : owner'[p] = u <=> owner[p] = u
  BY <1>4
<1>9. stack'[t] # <<>> <=> pc'[t] \in ResolveLabels
  BY <1>2 DEF ResolveLabels
<1>10. QED
  <2>1. \A i \in DOMAIN stack'[t] : InCreation(t, i)'
    BY <1>1, <1>5
  <2>2. \A i, j \in DOMAIN stack'[t] :
          stack'[t][i].provider[1] = stack'[t][j].provider[1] => i = j
    BY DEF GatesOK, StacksOK
  <2>3. QED
    BY <1>2, <1>6, <1>7, <1>8, <1>9, <2>1, <2>2, GatesOfOthers, FramesOfOthers

\* It releases the gate of its top frame and returns from it.
LEMMA GatesRelease ==
  ASSUME GateTypes, GatesOK, NoThread \notin Threads, NEW t \in Threads,
         NEW ok \in BOOLEAN, pc[t] \in {"release", "giveup"}, stack[t] # <<>>,
         owner' = [owner EXCEPT ![Resolved(t)] = NoThread], Return(t, ok)
  PROVE  GatesOK'
<1>1. PICK n \in Nat : n = Len(stack[t]) /\ n >= 1 /\ DOMAIN stack[t] = 1..n
  BY TopOfStack
<1>2. /\ \A i \in 1..(n - 1) :
           stack'[t][i].provider = stack[t][i].provider /\ InCreation(t, i)'
      /\ \A u \in Threads \ {t} : stack'[u] = stack[u] /\ pc'[u] = pc[u]
      /\ stack'[t] # <<>> <=> pc'[t] \in ResolveLabels
  BY <1>1, ReturnStack
<1>3. DOMAIN stack'[t] = 1..(n - 1)
  BY <1>1, ReturnStack
<1>4. \A i \in 1..(n - 1) : i \in DOMAIN stack[t] /\ i # n
  BY <1>1
<1>5. \A i, j \in DOMAIN stack'[t] :
        stack'[t][i].provider[1] = stack'[t][j].provider[1] => i = j
  <2>1. \A i, j \in 1..(n - 1) :
          stack[t][i].provider[1] = stack[t][j].provider[1] => i = j
    BY <1>4 DEF GatesOK, StacksOK
  <2>2. QED
    BY <1>2, <1>3, <2>1
<1>6. \A i \in 1..n : InCreation(t, i) /\ owner[stack[t][i].provider] = t
  BY <1>1 DEF InCreation, GatesOK, CreatorOwnsGate
<1>7. \A i \in DOMAIN stack'[t] : InCreation(t, i)'
  BY <1>2, <1>3
<1>8. Resolved(t) = stack[t][n].provider /\ Resolved(t) \in Providers
  BY <1>1, TopOfStack DEF Resolved, Top
<1>9. /\ owner'[Resolved(t)] = NoThread /\ owner[Resolved(t)] = t
      /\ \A p \in Providers \ {Resolved(t)} : owner'[p] = owner[p]
  BY <1>1, <1>6, <1>8 DEF GateTypes
<1>10. \A p \in Providers :
        owner'[p] = t => \E i \in DOMAIN stack'[t] : stack'[t][i].provider = p
  <2>1. SUFFICES ASSUME NEW p \in Providers, owner'[p] = t
                 PROVE  \E i \in DOMAIN stack'[t] : stack'[t][i].provider = p
    OBVIOUS
  <2>2. owner[p] = t /\ p # Resolved(t)
    BY <1>9, <2>1
  <2>3. PICK i \in DOMAIN stack[t] : stack[t][i].provider = p
    BY <2>2 DEF GatesOK, OwnersResolve
  <2>4. i \in 1..(n - 1)
    BY <1>1, <1>8, <2>2, <2>3
  <2>5. QED
    BY <1>2, <1>3, <2>3, <2>4
<1>11. \A i \in DOMAIN stack'[t] : owner'[stack'[t][i].provider] = t
  <2>1. TAKE i \in DOMAIN stack'[t]
  <2>2. i \in 1..n /\ i # n /\ i \in DOMAIN stack[t] /\ n \in DOMAIN stack[t]
    BY <1>1, <1>3
  <2>3. stack[t][i].provider \in Providers /\ stack[t][i].provider # Resolved(t)
    BY <1>8, <2>2, FramesOfOthers DEF GatesOK, StacksOK
  <2>4. QED
    BY <1>2, <1>3, <1>6, <1>9, <2>2, <2>3
<1>12. \A u \in Threads \ {t} : \A p \in Providers : owner'[p] = u <=> owner[p] = u
  BY <1>9
<1>13. QED
  BY <1>2, <1>5, <1>7, <1>10, <1>11, <1>12, GatesOfOthers, FramesOfOthers

\* It begins to resolve a token that it is not resolving.
LEMMA GatesPush ==
  ASSUME GateTypes, GatesOK, NEW t \in Threads, NEW k \in Tokens, provider[k] # 0,
         pc[t] \in {"idle", "create"},
         \A i \in DOMAIN stack[t] : stack[t][i].provider[1] # k,
         stack' = [stack EXCEPT ![t] = Append(@, Frame(k))],
         Goto(t, "read"), UNCHANGED owner
  PROVE  GatesOK'
<1>1. Frame(k) \in Frames /\ Frame(k).provider = <<k, provider[k]>>
  BY DEF Frame, Frames, Providers, GateTypes
<1>2. stack[t] \in Seq(Frames)
  BY DEF GateTypes
<1>3. PICK n \in Nat : n = Len(stack[t]) /\ DOMAIN stack[t] = 1..n
  BY <1>2
<1>4. /\ stack'[t] = Append(stack[t], Frame(k))
      /\ \A u \in Threads \ {t} : stack'[u] = stack[u] /\ pc'[u] = pc[u]
      /\ pc'[t] = "read"
  BY DEF GateTypes, Goto
<1>5. /\ stack'[t] \in Seq(Frames) /\ stack'[t] # <<>> /\ Len(stack'[t]) = n + 1
      /\ \A i \in 1..n : stack'[t][i] = stack[t][i]
      /\ stack'[t][n + 1] = Frame(k)
  BY <1>1, <1>2, <1>3, <1>4, AppendProperties
<1>6. DOMAIN stack'[t] = 1..(n + 1)
  BY <1>3, <1>5
<1>7. stack'[t] # <<>> <=> pc'[t] \in ResolveLabels
  BY <1>4, <1>5 DEF ResolveLabels
<1>8. \A i, j \in DOMAIN stack'[t] :
        stack'[t][i].provider[1] = stack'[t][j].provider[1] => i = j
  <2>1. TAKE i, j \in DOMAIN stack'[t]
  <2>2. CASE i \in 1..n /\ j \in 1..n
    BY <1>3, <1>5, <2>2 DEF GatesOK, StacksOK
  <2>3. CASE i = n + 1 /\ j \in 1..n
    BY <1>1, <1>3, <1>5, <2>3
  <2>4. CASE j = n + 1 /\ i \in 1..n
    BY <1>1, <1>3, <1>5, <2>4
  <2>5. QED
    BY <1>3, <1>6, <2>2, <2>3, <2>4
<1>9. \A p \in Providers :
        owner'[p] = t => \E i \in 1..n : stack[t][i].provider = p
  BY <1>3 DEF GatesOK, OwnersResolve
<1>10. \A p \in Providers :
        owner'[p] = t => \E i \in DOMAIN stack'[t] : stack'[t][i].provider = p
  <2>1. \A i \in 1..n : i \in DOMAIN stack'[t] /\ stack'[t][i].provider = stack[t][i].provider
    BY <1>3, <1>5, <1>6
  <2>2. QED
    BY <1>9, <2>1
<1>11. \A i \in DOMAIN stack'[t] :
        owner'[stack'[t][i].provider] = t <=> InCreation(t, i)'
  <2>1. TAKE i \in DOMAIN stack'[t]
  <2>2. CASE i \in 1..n
    <3>1. n # 0 /\ stack[t] # <<>>
      BY <2>2, <1>3, EmptySeq
    <3>2. pc[t] = "create"
      BY <3>1 DEF GatesOK, StacksOK, ResolveLabels
    <3>3. InCreation(t, i)
      BY <1>3, <2>2, <3>2 DEF InCreation
    <3>4. InCreation(t, i)'
      BY <1>3, <1>5, <2>2 DEF InCreation
    <3>5. owner[stack[t][i].provider] = t
      BY <1>3, <2>2, <3>3 DEF GatesOK, CreatorOwnsGate
    <3>6. QED
      BY <1>5, <2>2, <3>4, <3>5
  <2>3. CASE i = n + 1
    <3>1. ~InCreation(t, i)'
      BY <1>3, <1>4, <1>5, <2>3 DEF InCreation
    <3>2. stack'[t][i].provider = <<k, provider[k]>> /\ <<k, provider[k]>> \in Providers
      BY <1>1, <1>5, <2>3 DEF Frames
    <3>3. owner[<<k, provider[k]>>] # t
      BY <1>3, <1>9, <3>2
    <3>4. QED
      BY <3>1, <3>2, <3>3
  <2>4. QED
    BY <1>3, <1>6, <2>2, <2>3
<1>12. QED
  BY <1>4, <1>7, <1>8, <1>10, <1>11, GatesOfOthers, FramesOfOthers

-------------------------------------------------------------------------------
\* Types.

\* What a thread does: it resolves, or it removes instances.
Resolution(t) == (\E k \in Tokens : Resolve(t, k)) \/ ResolveStep(t)

Cleanup(t) ==
  \/ \E k \in Tokens : Unregister(t, k) \/ Register(t, k)
  \/ Shutdown(t)
  \/ CleanupStep(t)

\* A resolution changes the types of few variables.
LEMMA TypesOfResolved ==
  ASSUME TypeOK, NotCleaning, GateTypes', registry' = registry,
         cached' \in [Tokens -> Instances \cup {NoInstance}],
         created' \in [Providers -> Nat], retired' = retired,
         waitsFor' \in [Threads -> Threads \cup {NoThread}]
  PROVE  TypeOK'
  BY DEF TypeOK, GateTypes, Frames, NotCleaning, registry, tracker, lifetime, claims, joins

\* A parameter of a factory is a token.
LEMMA NextParameter ==
  ASSUME ContainerAssumption, NEW k \in Tokens, NEW n \in Nat, n < Len(Depends[k])
  PROVE  Depends[k][n + 1] \in Tokens
<1>1. Depends[k] \in Seq(Tokens)
  BY DEF ContainerAssumption
<1>2. n + 1 \in 1..Len(Depends[k])
  BY <1>1
<1>3. QED
  BY <1>1, <1>2, ElementOfSeq

\* Resolution keeps the types.
LEMMA TypesOfResolution ==
  ASSUME ContainerAssumption, TypeOK, GatesOK, NEW t \in Threads,
         Resolution(t)
  PROVE  TypeOK'
<1> USE TypesOfGates
<1>1. ASSUME NEW k \in Tokens, Resolve(t, k) PROVE TypeOK'
  <2>1. Frame(k) \in Frames
    BY <1>1 DEF Resolve, CanResolve, Frame, Frames, Providers, GateTypes
  <2>2. <<Frame(k)>> \in Seq(Frames)
    BY <2>1
  <2>3. GateTypes'
    BY <1>1, <2>2 DEF Resolve, GateTypes, Goto, ResolveLabels, registry, gates
  <2>4. QED
    BY <1>1, <2>3, TypesOfResolved DEF Resolve, TypeOK, registry, instances, gates
<1> SUFFICES ASSUME ResolveStep(t) PROVE TypeOK'
  BY <1>1 DEF Resolution
<1>2. pc[t] \in ResolveLabels
  BY DEF ResolveStep, Read, Claim, BeginWait, EndWait, ResolveNext, Create, Prepared,
         FactoryRaises, Release, ResolveLabels
<1>3. stack[t] # <<>>
  BY <1>2 DEF GatesOK, StacksOK
<1>4. ASSUME NEW ok \in BOOLEAN, Return(t, ok) PROVE
        /\ stack' \in [Threads -> Seq(Frames)]
        /\ pc' \in [Threads -> {"idle"} \cup ResolveLabels \cup CleanupLabels]
  BY <1>3, <1>4, ReturnStack
<1>5. ASSUME NEW label \in ResolveLabels, Goto(t, label) PROVE
        pc' \in [Threads -> {"idle"} \cup ResolveLabels \cup CleanupLabels]
  BY <1>5 DEF Goto, GateTypes
<1>6. Resolved(t) \in Providers /\ Top(t) \in Frames
  BY <1>3, TopOfStack
<1>7. CASE Read(t)
  <2>1. GateTypes'
    BY <1>4, <1>5, <1>7 DEF Read, GateTypes, ResolveLabels, registry, gates
  <2>2. QED
    BY <1>7, <2>1, TypesOfResolved DEF Read, TypeOK, instances, gates
<1>8. CASE Claim(t)
  <2>1. GateTypes'
    BY <1>4, <1>5, <1>6, <1>8 DEF Claim, GateTypes, ResolveLabels, registry
  <2>2. QED
    BY <1>8, <2>1, TypesOfResolved DEF Claim, TypeOK, instances
<1>9. CASE BeginWait(t)
  <2>1. GateTypes'
    BY <1>4, <1>5, <1>9 DEF BeginWait, GateTypes, ResolveLabels, registry
  <2>2. waitsFor' \in [Threads -> Threads \cup {NoThread}]
    BY <1>6, <1>9 DEF BeginWait, TypeOK
  <2>3. QED
    BY <1>9, <2>1, <2>2, TypesOfResolved DEF BeginWait, TypeOK, instances
<1>10. CASE EndWait(t)
  <2>1. GateTypes'
    BY <1>4, <1>5, <1>10 DEF EndWait, GateTypes, ResolveLabels, registry
  <2>2. waitsFor' \in [Threads -> Threads \cup {NoThread}]
    BY <1>10 DEF EndWait, TypeOK
  <2>3. QED
    BY <1>10, <2>1, <2>2, TypesOfResolved DEF EndWait, TypeOK, instances
<1>11. CASE ResolveNext(t)
  <2> DEFINE k == Depends[Resolved(t)[1]][Top(t).at + 1]
  <2>1. k \in Tokens
    <3>1. Resolved(t)[1] \in Tokens /\ Top(t).at \in Nat
      BY <1>6 DEF Providers, Frames
    <3>2. QED
      BY <1>11, <3>1, NextParameter DEF ResolveNext
  <2>2. provider[k] # 0 => Frame(k) \in Frames
    BY <2>1 DEF Frame, Frames, Providers, GateTypes
  <2> HIDE DEF k
  <2>3. stack' \in [Threads -> Seq(Frames)]
    <3>1. CASE provider[k] # 0 /\ stack' = [stack EXCEPT ![t] = Append(@, Frame(k))]
      <4>1. Append(stack[t], Frame(k)) \in Seq(Frames)
        BY <2>2, <3>1, AppendProperties DEF GateTypes
      <4>2. QED
        BY <3>1, <4>1 DEF GateTypes
    <3>2. CASE UNCHANGED stack
      BY <3>2 DEF GateTypes
    <3>3. QED
      BY <1>11, <3>1, <3>2 DEF ResolveNext, CanResolve, k
  <2>4. GateTypes'
    BY <1>5, <1>11, <2>3 DEF ResolveNext, GateTypes, ResolveLabels, registry, gates
  <2>5. QED
    BY <1>11, <2>4, TypesOfResolved DEF ResolveNext, TypeOK, instances, gates
<1>12. CASE Create(t)
  <2>1. GateTypes'
    BY <1>5, <1>12 DEF Create, GateTypes, ResolveLabels, registry, gates
  <2>2. PICK p \in Providers : p = Resolved(t)
    BY <1>6
  <2>3. p[1] \in Tokens /\ <<p, created[p] + 1>> \in Instances
    BY DEF Providers, Instances, TypeOK
  <2>4. PICK i \in Instances : i = <<p, created[p] + 1>>
    BY <2>3
  <2>5. /\ created' = [created EXCEPT ![p] = @ + 1]
        /\ cached' = [cached EXCEPT ![p[1]] = IF provider[p[1]] = p[2] THEN i ELSE @]
        /\ tracked' = tracked \cup {i}
    BY <1>12, <2>2, <2>4 DEF Create
  <2>6. created' \in [Providers -> Nat] /\ tracked' \subseteq Instances
    BY <2>5 DEF TypeOK
  <2>7. cached' \in [Tokens -> Instances \cup {NoInstance}]
    BY <2>3, <2>5 DEF TypeOK
  <2>8. QED
    BY <1>12, <2>1, <2>6, <2>7
       DEF Create, TypeOK, GateTypes, Frames, registry, gates, lifetime, claims, joins
<1>13. CASE FactoryRaises(t)
  <2>1. GateTypes'
    BY <1>5, <1>13 DEF FactoryRaises, GateTypes, ResolveLabels, registry, gates
  <2>2. QED
    BY <1>13, <2>1, TypesOfResolved DEF FactoryRaises, TypeOK, instances, gates
<1>14. CASE Release(t)
  <2>1. (pc[t] = "release") \in BOOLEAN
    OBVIOUS
  <2>2. GateTypes'
    BY <1>4, <1>6, <1>14, <2>1 DEF Release, GateTypes, registry
  <2>3. QED
    BY <1>14, <2>2, TypesOfResolved DEF Release, TypeOK, instances
<1>15. QED
  BY <1>7, <1>8, <1>9, <1>10, <1>11, <1>12, <1>13, <1>14 DEF ResolveStep

\* A thread may wait for one attempt.
LEMMA AwaitOne ==
  ASSUME TypeOK, NEW t \in Threads, NEW what \in Tokens \cup {ShutdownDone},
         UNCHANGED awaits \/ awaits' = [awaits EXCEPT ![t] = {what}]
  PROVE  awaits' \in [Threads -> SUBSET (Tokens \cup {ShutdownDone})]
<1>1. PICK w \in SUBSET (Tokens \cup {ShutdownDone}) : w = {what}
  OBVIOUS
<1>2. UNCHANGED awaits \/ awaits' = [awaits EXCEPT ![t] = w]
  BY <1>1
<1>3. awaits \in [Threads -> SUBSET (Tokens \cup {ShutdownDone})]
  BY DEF TypeOK
<1>4. QED
  BY <1>2, <1>3

\* Cleanup keeps the types: who unregisters has a token, and who retires a gate has
\* a provider.
LEMMA TypesOfCleanup ==
  ASSUME ContainerAssumption, TypeOK, RolesOK, ShutdownOK, NEW t \in Threads,
         Cleanup(t)
  PROVE  TypeOK'
<1> USE DEF NotResolving
<1>0. \A k \in Tokens : provider[k] # 0 => <<k, provider[k]>> \in Providers
  BY DEF TypeOK, Providers
<1>1. ASSUME NEW k \in Tokens, Unregister(t, k) PROVE TypeOK'
  BY <1>1 DEF TypeOK, Unregister, Goto, CleanupLabels, registry, tracker, lifetime,
     claims, joins
<1>2. ASSUME NEW k \in Tokens, Register(t, k) PROVE TypeOK'
  BY <1>2 DEF TypeOK, Register, Goto, CleanupLabels, registry, tracker, lifetime, claims,
     joins
<1>3. ASSUME Shutdown(t) PROVE TypeOK'
  <2>1. pc' \in [Threads -> {"idle"} \cup ResolveLabels \cup CleanupLabels]
    <3>1. Goto(t, "disposals") \/ Goto(t, "join")
      BY <1>3, Zenon DEF Shutdown
    <3>2. QED
      BY <3>1 DEF TypeOK, Goto, CleanupLabels
  <2>2. /\ shutter' \in Threads \cup {NoThread}
        /\ awaits' \in [Threads -> SUBSET (Tokens \cup {ShutdownDone})]
    <3>1. \/ UNCHANGED awaits
          \/ awaits' = [awaits EXCEPT ![t] = {ShutdownDone}]
      BY <1>3, Zenon DEF Shutdown
    <3>2. shutter' = t \/ UNCHANGED shutter
      BY <1>3, Zenon DEF Shutdown
    <3>3. shutter' \in Threads \cup {NoThread}
      BY <3>2 DEF TypeOK
    <3>4. QED
      BY <3>1, <3>3, AwaitOne
  <2>3. QED
    BY <1>3, <2>1, <2>2 DEF TypeOK, Shutdown, registry, tracker, claims
<1>4. ASSUME ClaimDisposal(t) PROVE TypeOK'
  <2>1. pc' \in [Threads -> {"idle"} \cup ResolveLabels \cup CleanupLabels]
    <3>1. Goto(t, "idle") \/ Goto(t, "retire") \/ Goto(t, "join")
      BY <1>4, Zenon DEF ClaimDisposal, Idle
    <3>2. QED
      BY <3>1 DEF TypeOK, Goto, CleanupLabels
  <2>2. target[t] \in Tokens
    BY <1>4 DEF ClaimDisposal, RolesOK
  <2>3. /\ disposals' \subseteq Tokens
        /\ awaits' \in [Threads -> SUBSET (Tokens \cup {ShutdownDone})]
    <3>1. UNCHANGED awaits \/ awaits' = [awaits EXCEPT ![t] = {target[t]}]
      BY <1>4, Zenon DEF ClaimDisposal
    <3>2. UNCHANGED disposals \/ disposals' = disposals \cup {target[t]}
      BY <1>4, Zenon DEF ClaimDisposal
    <3>3. disposals' \subseteq Tokens
      BY <2>2, <3>2 DEF TypeOK
    <3>4. QED
      BY <2>2, <3>1, <3>3, AwaitOne
  <2>4. target' \in [Threads -> Tokens \cup {NoToken}] /\ replaces' \subseteq Threads
    BY <1>4 DEF TypeOK, ClaimDisposal, Idle
  <2>5. QED
    BY <1>4, <2>1, <2>3, <2>4 DEF TypeOK, ClaimDisposal, registry, tracker, lifetime, claims
<1>5. ASSUME Retire(t) PROVE TypeOK'
  <2>1. target[t] \in Tokens
    BY <1>5 DEF Retire, RolesOK, Disposes
  <2>2. retired' \subseteq Providers
    BY <1>0, <1>5, <2>1 DEF TypeOK, Retire
  <2>3. pc' \in [Threads -> {"idle"} \cup ResolveLabels \cup CleanupLabels]
    BY <1>5 DEF TypeOK, Retire, Goto, CleanupLabels
  <2>4. QED
    BY <1>5, <2>2, <2>3 DEF TypeOK, Retire, registry, tracker, lifetime, claims, joins
<1>6. ASSUME Detach(t) PROVE TypeOK'
  <2>1. pc' \in [Threads -> {"idle"} \cup ResolveLabels \cup CleanupLabels]
    <3>1. Goto(t, "close")
      BY <1>6 DEF Detach
    <3>2. QED
      BY <3>1 DEF TypeOK, Goto, CleanupLabels
  <2>2. PICK candidates : ClaimToClose(t, candidates)
    BY <1>6, Zenon DEF Detach
  <2>3. disposing' \subseteq Instances /\ toClose' \in [Threads -> SUBSET Instances]
    BY <2>2 DEF TypeOK, ClaimToClose
  <2>4. PICK k : /\ provider' = [provider EXCEPT ![k] = 0]
                 /\ cached' = [cached EXCEPT ![k] = NoInstance]
    BY <1>6, Zenon DEF Detach
  <2>5. /\ provider' \in [Tokens -> Numbers \cup {0}]
        /\ cached' \in [Tokens -> Instances \cup {NoInstance}]
    BY <2>4 DEF TypeOK
  <2>6. QED
    BY <1>6, <2>1, <2>3, <2>5 DEF TypeOK, Detach, lifetime, joins
<1>7. ASSUME EndUnregister(t) PROVE TypeOK'
  BY <1>7 DEF TypeOK, EndUnregister, Goto, CleanupLabels, Idle, Announce, registry,
     tracker, lifetime
<1>8. ASSUME Join(t) PROVE TypeOK'
  <2>1. \/ Goto(t, "commit") /\ UNCHANGED <<target, replaces>>
        \/ Idle(t)
    BY <1>8, Zenon DEF Join
  <2>2. /\ pc' \in [Threads -> {"idle"} \cup ResolveLabels \cup CleanupLabels]
        /\ target' \in [Threads -> Tokens \cup {NoToken}] /\ replaces' \subseteq Threads
    BY <2>1 DEF TypeOK, Goto, CleanupLabels, Idle
  <2>3. error' \in [Threads -> BOOLEAN]
    BY <1>8 DEF TypeOK, Join
  <2>4. QED
    BY <1>8, <2>2, <2>3 DEF TypeOK, Join, registry, tracker, lifetime, claims
<1>9. ASSUME Commit(t) PROVE TypeOK'
  <2>1. target[t] \in Tokens
    BY <1>9 DEF Commit, RolesOK
  <2>2. /\ provider' \in [Tokens -> Numbers \cup {0}]
        /\ registrations' \in [Tokens -> Numbers \cup {0}]
    <3>1. PICK n : n = registrations[target[t]]
      OBVIOUS
    <3>2. n \in Nat
      <4>1. registrations[target[t]] \in Numbers \cup {0}
        BY <2>1 DEF TypeOK
      <4>2. QED
        BY <3>1, <4>1 DEF Numbers, ContainerAssumption
    <3>3. n < MaxRegistrations => n + 1 \in Numbers
      BY <3>2 DEF Numbers, ContainerAssumption
    <3>4. CASE UNCHANGED registry
      BY <3>4 DEF TypeOK, registry
    <3>5. CASE ~UNCHANGED registry
      <4>1. /\ n < MaxRegistrations
            /\ provider' = [provider EXCEPT ![target[t]] = n + 1]
            /\ registrations' = [registrations EXCEPT ![target[t]] = n + 1]
        BY <1>9, <3>1, <3>5 DEF Commit
      <4>2. QED
        BY <2>1, <3>3, <4>1 DEF TypeOK
    <3>6. QED
      BY <3>4, <3>5
  <2>3. pc' \in [Threads -> {"idle"} \cup ResolveLabels \cup CleanupLabels]
    BY <1>9 DEF TypeOK, Commit, Idle, Goto
  <2>4. target' \in [Threads -> Tokens \cup {NoToken}] /\ replaces' \subseteq Threads
    BY <1>9 DEF TypeOK, Commit, Idle
  <2>5. QED
    BY <1>9, <2>2, <2>3, <2>4 DEF TypeOK, Commit, registry, tracker, lifetime, claims, joins
<1>10. ASSUME SeeDisposals(t) PROVE TypeOK'
  BY <1>10 DEF TypeOK, SeeDisposals, Goto, CleanupLabels, registry, tracker, lifetime,
     claims
<1>11. ASSUME DisposalsDone(t) PROVE TypeOK'
  BY <1>11 DEF TypeOK, DisposalsDone, Goto, CleanupLabels, registry, tracker, lifetime,
     joins
<1>12. ASSUME DisposalFailed(t) PROVE TypeOK'
  BY <1>12 DEF TypeOK, DisposalFailed, Goto, CleanupLabels, registry, tracker, claims
<1>13. ASSUME NEW k \in Tokens, RetireNext(t, k) PROVE TypeOK'
  <2>1. provider[k] # 0
    BY <1>13 DEF RetireNext, ShutdownOK
  <2>2. retired' \subseteq Providers /\ toRetire' \in [Threads -> SUBSET Tokens]
    BY <1>0, <1>13, <2>1 DEF TypeOK, RetireNext
  <2>3. QED
    BY <1>13, <2>2 DEF TypeOK, RetireNext, registry, tracker, lifetime, joins
<1>14. ASSUME DetachAll(t) PROVE TypeOK'
  BY <1>14 DEF TypeOK, DetachAll, Goto, CleanupLabels, ClaimToClose, registry, lifetime,
     joins
<1>15. ASSUME EndShutdown(t) PROVE TypeOK'
  BY <1>15 DEF TypeOK, EndShutdown, Goto, CleanupLabels, Announce, registry, tracker
<1>16. ASSUME NEW i \in toClose[t], CloseReturns(t, i) PROVE TypeOK'
  BY <1>16 DEF TypeOK, CloseReturns, registry, lifetime, joins
<1>17. ASSUME NEW i \in toClose[t], CloseRaises(t, i) PROVE TypeOK'
  <2>1. i \in Instances
    BY DEF TypeOK
  <2>2. unclosed' \in [Threads -> SUBSET Instances] /\ toClose' \in [Threads -> SUBSET Instances]
    BY <1>17, <2>1 DEF TypeOK, CloseRaises
  <2>3. QED
    BY <1>17, <2>2 DEF TypeOK, CloseRaises, registry, lifetime, joins
<1>18. QED
  BY <1>1, <1>2, <1>3, <1>4, <1>5, <1>6, <1>7, <1>8, <1>9, <1>10, <1>11, <1>12, <1>13,
     <1>14, <1>15, <1>16, <1>17 DEF Cleanup, CleanupStep

-------------------------------------------------------------------------------
\* Resolution: what its steps have in common.

Outside == {"idle"} \cup ResolveLabels

ResolvesOnly(t) ==
  /\ pc[t] \in Outside /\ pc'[t] \in Outside
  /\ \A u \in Threads \ {t} : pc'[u] = pc[u] /\ stack'[u] = stack[u]
  /\ UNCHANGED <<provider, registrations, retired, disposing, disposed, disposals,
                 pending, shutter, closed, target, replaces, toRetire, toClose,
                 unclosed, awaits>>
  /\ UNCHANGED <<cached, created, tracked>> \/ Create(t)

\* Only a gate that is not retired is taken.
TakesOpenGates ==
  \A p \in Providers : owner'[p] \in {owner[p], NoThread} \/ p \notin retired

\* What a thread begins to resolve is registered.
ResolvesRegistered(t) ==
  \A i \in DOMAIN stack'[t] :
    \/ \E j \in DOMAIN stack[t] : stack'[t][i].provider = stack[t][j].provider
    \/ \E k \in Tokens : provider[k] # 0 /\ stack'[t][i].provider = <<k, provider[k]>>

\* A return leaves the other threads and brings nothing new on a stack.
LEMMA ReturnIsResolution ==
  ASSUME GateTypes, GatesOK, NEW t \in Threads, NEW ok \in BOOLEAN, pc[t] \in ResolveLabels,
         Return(t, ok)
  PROVE  /\ pc'[t] \in Outside
         /\ \A u \in Threads \ {t} : pc'[u] = pc[u] /\ stack'[u] = stack[u]
         /\ ResolvesRegistered(t)
<1>1. stack[t] # <<>>
  BY DEF GatesOK, StacksOK
<1>2. PICK n \in Nat : n = Len(stack[t]) /\ n >= 1 /\ DOMAIN stack[t] = 1..n
  BY <1>1, TopOfStack
<1>3. /\ DOMAIN stack'[t] = 1..(n - 1)
      /\ \A i \in 1..(n - 1) : stack'[t][i].provider = stack[t][i].provider
      /\ \A u \in Threads \ {t} : stack'[u] = stack[u] /\ pc'[u] = pc[u]
      /\ n = 1 => pc'[t] = "idle"
      /\ n # 1 => pc'[t] \in {"create", "giveup"}
  BY <1>1, <1>2, ReturnStack
<1>4. ResolvesRegistered(t)
  <2>1. \A i \in 1..(n - 1) : i \in DOMAIN stack[t]
    BY <1>2
  <2>2. QED
    BY <1>3, <2>1 DEF ResolvesRegistered
<1>5. QED
  BY <1>3, <1>4 DEF Outside, ResolveLabels

\* A move within the resolution leaves the other threads.
LEMMA GotoIsResolution ==
  ASSUME GateTypes, NEW t \in Threads, NEW label \in ResolveLabels, Goto(t, label)
  PROVE  /\ pc'[t] \in Outside
         /\ \A u \in Threads \ {t} : pc'[u] = pc[u]
  BY DEF GateTypes, Goto, Outside

\* A call brings a registered provider on the stack.
LEMMA PushIsResolution ==
  ASSUME GateTypes, NEW t \in Threads, NEW k \in Tokens, provider[k] # 0,
         stack' = [stack EXCEPT ![t] = Append(@, Frame(k))]
  PROVE  /\ \A u \in Threads \ {t} : stack'[u] = stack[u]
         /\ ResolvesRegistered(t)
<1>1. Frame(k) \in Frames /\ Frame(k).provider = <<k, provider[k]>>
  BY DEF Frame, Frames, Providers, GateTypes
<1>2. stack[t] \in Seq(Frames) /\ stack'[t] = Append(stack[t], Frame(k))
  BY DEF GateTypes
<1>3. PICK n \in Nat : n = Len(stack[t]) /\ DOMAIN stack[t] = 1..n
  BY <1>2
<1>4. /\ Append(stack[t], Frame(k)) \in Seq(Frames)
      /\ Len(Append(stack[t], Frame(k))) = n + 1
      /\ \A i \in 1..n : Append(stack[t], Frame(k))[i] = stack[t][i]
      /\ Append(stack[t], Frame(k))[n + 1] = Frame(k)
  BY <1>1, <1>2, <1>3, AppendProperties
<1>5. DOMAIN stack'[t] = 1..(n + 1)
  BY <1>2, <1>3, <1>4
<1>6. ASSUME NEW i \in DOMAIN stack'[t] PROVE
        \/ \E j \in DOMAIN stack[t] : stack'[t][i].provider = stack[t][j].provider
        \/ \E l \in Tokens : provider[l] # 0 /\ stack'[t][i].provider = <<l, provider[l]>>
  <2>1. CASE i \in 1..n
    BY <1>2, <1>3, <1>4, <2>1
  <2>2. CASE i = n + 1
    BY <1>1, <1>2, <1>4, <2>2
  <2>3. QED
    BY <1>3, <1>5, <1>6, <2>1, <2>2
<1>7. QED
  BY <1>6 DEF ResolvesRegistered, GateTypes

\* resolve() of the application begins with an empty stack.
LEMMA ResolveIsPush ==
  ASSUME TypeOK, GatesOK, NEW t \in Threads, NEW k \in Tokens, Resolve(t, k)
  PROVE  /\ pc[t] = "idle" /\ provider[k] # 0 /\ Goto(t, "read") /\ UNCHANGED owner
         /\ stack' = [stack EXCEPT ![t] = Append(@, Frame(k))]
         /\ \A i \in DOMAIN stack[t] : stack[t][i].provider[1] # k
<1>1. stack[t] = <<>>
  BY DEF Resolve, GatesOK, StacksOK, ResolveLabels
<1>2. Append(<<>>, Frame(k)) = <<Frame(k)>>
  OBVIOUS
<1>3. QED
  BY <1>1, <1>2 DEF Resolve, CanResolve, gates

\* Every step of a resolution is of these kinds, and keeps GatesOK.
LEMMA ResolutionStep ==
  ASSUME ContainerAssumption, TypeOK, GatesOK, NEW t \in Threads,
         Resolution(t)
  PROVE  GatesOK' /\ ResolvesOnly(t) /\ TakesOpenGates /\ ResolvesRegistered(t)
<1> USE TypesOfGates
<1> DEFINE Kept == UNCHANGED <<provider, registrations, retired, disposing, disposed,
                               disposals, pending, shutter, closed, target, replaces,
                               toRetire, toClose, unclosed, awaits>>
<1>1. NoThread \notin Threads
  BY DEF ContainerAssumption
<1>2. ASSUME UNCHANGED stack PROVE
        ResolvesRegistered(t) /\ \A u \in Threads \ {t} : stack'[u] = stack[u]
  BY <1>2 DEF ResolvesRegistered
<1>3. ASSUME UNCHANGED owner PROVE TakesOpenGates
  BY <1>3 DEF TakesOpenGates
<1>4. ASSUME NEW k \in Tokens, Resolve(t, k) PROVE
        GatesOK' /\ ResolvesOnly(t) /\ TakesOpenGates /\ ResolvesRegistered(t)
  <2>1. /\ pc[t] = "idle" /\ provider[k] # 0 /\ Goto(t, "read") /\ UNCHANGED owner
        /\ stack' = [stack EXCEPT ![t] = Append(@, Frame(k))]
        /\ \A i \in DOMAIN stack[t] : stack[t][i].provider[1] # k
    BY <1>4, ResolveIsPush
  <2>2. GatesOK'
    BY <2>1, GatesPush
  <2>3. Kept /\ UNCHANGED <<cached, created, tracked>>
    BY <1>4 DEF Resolve, NotCleaning, registry, instances, gates, tracker, lifetime,
       claims, joins
  <2>4. QED
    BY <1>3, <2>1, <2>2, <2>3, PushIsResolution, GotoIsResolution
       DEF ResolvesOnly, Outside, ResolveLabels
<1> SUFFICES ASSUME ResolveStep(t)
             PROVE  GatesOK' /\ ResolvesOnly(t) /\ TakesOpenGates /\ ResolvesRegistered(t)
  BY <1>4 DEF Resolution
<1>5. pc[t] \in ResolveLabels /\ pc[t] \in Outside
  BY DEF ResolveStep, Read, Claim, BeginWait, EndWait, ResolveNext, Create, Prepared,
         FactoryRaises, Release, ResolveLabels, Outside
<1>6. stack[t] # <<>> /\ Resolved(t) \in Providers /\ Top(t) \in Frames
  BY <1>5, TopOfStack DEF GatesOK, StacksOK
<1>7. Kept /\ (UNCHANGED <<cached, created, tracked>> \/ Create(t))
  BY DEF ResolveStep, Read, Claim, BeginWait, EndWait, ResolveNext, Create,
         FactoryRaises, Release, NotCleaning,
         registry, instances, gates, tracker, lifetime, claims, joins
<1>8. ASSUME NEW ok \in BOOLEAN, Return(t, ok), TakesOpenGates, GatesOK' PROVE
        GatesOK' /\ ResolvesOnly(t) /\ TakesOpenGates /\ ResolvesRegistered(t)
  BY <1>5, <1>7, <1>8, ReturnIsResolution DEF ResolvesOnly
<1>9. ASSUME NEW label \in ResolveLabels, Goto(t, label), UNCHANGED stack,
             TakesOpenGates, GatesOK' PROVE
        GatesOK' /\ ResolvesOnly(t) /\ TakesOpenGates /\ ResolvesRegistered(t)
  BY <1>2, <1>5, <1>7, <1>9, GotoIsResolution DEF ResolvesOnly
<1> HIDE DEF Kept
<1>10. ASSUME NEW ok \in BOOLEAN, Return(t, ok), UNCHANGED owner,
              pc[t] \notin {"create", "release", "giveup"} PROVE
        GatesOK' /\ ResolvesOnly(t) /\ TakesOpenGates /\ ResolvesRegistered(t)
  BY <1>3, <1>6, <1>8, <1>10, GatesReturn
<1>11. ASSUME NEW label \in ResolveLabels, Goto(t, label), UNCHANGED <<owner, stack>>,
              pc[t] \in {"create", "release", "giveup"}
                <=> label \in {"create", "release", "giveup"} PROVE
        GatesOK' /\ ResolvesOnly(t) /\ TakesOpenGates /\ ResolvesRegistered(t)
  BY <1>3, <1>5, <1>9, <1>11, GatesMove
<1>12. {"read", "claim", "wait", "waiting", "create", "release", "giveup"} \subseteq ResolveLabels
  BY DEF ResolveLabels
<1>13. CASE Read(t)
  <2>1. pc[t] = "read" /\ UNCHANGED owner
    BY <1>13 DEF Read, gates
  <2>2. Return(t, TRUE) \/ (Goto(t, "claim") /\ UNCHANGED stack)
    BY <1>13, Zenon DEF Read
  <2>3. QED
    BY <1>10, <1>11, <1>12, <2>1, <2>2
<1>14. CASE Claim(t)
  <2>1. pc[t] = "claim"
    BY <1>14 DEF Claim
  <2>2. CASE Resolved(t) \in retired
    BY <1>10, <1>14, <2>1, <2>2 DEF Claim
  <2>3. CASE Resolved(t) \notin retired /\ owner[Resolved(t)] = NoThread
    <3>1. /\ owner' = [owner EXCEPT ![Resolved(t)] = t]
          /\ Goto(t, "create") /\ UNCHANGED stack
      BY <1>14, <2>3 DEF Claim
    <3>2. TakesOpenGates
      BY <1>6, <2>3, <3>1 DEF TakesOpenGates, GateTypes
    <3>3. GatesOK'
      BY <1>1, <1>6, <2>1, <2>3, <3>1, GatesClaim
    <3>4. QED
      BY <1>9, <1>12, <3>1, <3>2, <3>3
  <2>4. CASE Resolved(t) \notin retired /\ owner[Resolved(t)] # NoThread
    <3>1. Goto(t, "wait") /\ UNCHANGED <<owner, stack>>
      BY <1>14, <2>4 DEF Claim
    <3>2. QED
      BY <1>11, <1>12, <2>1, <3>1
  <2>5. QED
    BY <2>2, <2>3, <2>4
<1>15. CASE BeginWait(t)
  <2>1. pc[t] = "wait" /\ UNCHANGED owner
    BY <1>15 DEF BeginWait
  <2>2. \/ Return(t, FALSE)
        \/ UNCHANGED stack /\ (Goto(t, "read") \/ Goto(t, "waiting"))
    BY <1>15, Zenon DEF BeginWait
  <2>3. QED
    BY <1>10, <1>11, <1>12, <2>1, <2>2
<1>16. CASE EndWait(t)
  <2>1. pc[t] = "waiting" /\ UNCHANGED owner
    BY <1>16 DEF EndWait
  <2>2. Return(t, FALSE) \/ (UNCHANGED stack /\ Goto(t, "read"))
    BY <1>16, Zenon DEF EndWait
  <2>3. QED
    BY <1>10, <1>11, <1>12, <2>1, <2>2
<1>17. CASE ResolveNext(t)
  <2>1. pc[t] = "create" /\ UNCHANGED owner
    BY <1>17 DEF ResolveNext, gates
  <2>2. PICK k : k = Depends[Resolved(t)[1]][Top(t).at + 1]
    OBVIOUS
  <2>3. k \in Tokens
    <3>1. Resolved(t)[1] \in Tokens /\ Top(t).at \in Nat
      BY <1>6 DEF Providers, Frames
    <3>2. QED
      BY <1>17, <2>2, <3>1, NextParameter DEF ResolveNext
  <2>4. CASE CanResolve(k) /\ \A i \in DOMAIN stack[t] : stack[t][i].provider[1] # k
    <3>1. /\ stack' = [stack EXCEPT ![t] = Append(@, Frame(k))] /\ Goto(t, "read")
          /\ provider[k] # 0
      BY <1>17, <2>2, <2>4 DEF ResolveNext, CanResolve
    <3>2. GatesOK'
      BY <2>1, <2>3, <2>4, <3>1, GatesPush
    <3>3. QED
      BY <1>3, <1>5, <1>7, <1>12, <2>1, <2>3, <3>1, <3>2, PushIsResolution, GotoIsResolution
         DEF ResolvesOnly, Kept
  <2>5. CASE ~(CanResolve(k) /\ \A i \in DOMAIN stack[t] : stack[t][i].provider[1] # k)
    <3>1. Goto(t, "giveup") /\ UNCHANGED stack
      BY <1>17, <2>2, <2>5 DEF ResolveNext
    <3>2. QED
      BY <1>11, <1>12, <2>1, <3>1
  <2>6. QED
    BY <2>4, <2>5
<1>18. CASE Create(t) \/ FactoryRaises(t)
  <2>1. /\ pc[t] = "create" /\ UNCHANGED <<owner, stack>>
        /\ Goto(t, "release") \/ Goto(t, "giveup")
    BY <1>18 DEF Create, FactoryRaises, Prepared, gates
  <2>2. QED
    BY <1>11, <1>12, <2>1
<1>19. CASE Release(t)
  <2>1. PICK ok \in BOOLEAN : ok = (pc[t] = "release")
    OBVIOUS
  <2>2. /\ pc[t] \in {"release", "giveup"} /\ Return(t, ok)
        /\ owner' = [owner EXCEPT ![Resolved(t)] = NoThread]
    BY <1>19, <2>1 DEF Release
  <2>3. TakesOpenGates
    BY <1>6, <2>2 DEF TakesOpenGates, GateTypes
  <2>4. GatesOK'
    BY <1>1, <1>6, <2>2, GatesRelease
  <2>5. QED
    BY <1>8, <2>2, <2>3, <2>4
<1>20. QED
  BY <1>13, <1>14, <1>15, <1>16, <1>17, <1>18, <1>19 DEF ResolveStep

-------------------------------------------------------------------------------
\* What a resolution keeps.

\* Who creates an instance owns the gate of its provider.
LEMMA CreateStep ==
  ASSUME TypeOK, GatesOK, NEW t \in Threads, Create(t)
  PROVE  \E p \in Providers :
           /\ owner[p] = t /\ \E j \in DOMAIN stack[t] : stack[t][j].provider = p
           /\ p[1] \in Tokens /\ p = <<p[1], p[2]>> /\ created[p] \in Nat
           /\ created' = [created EXCEPT ![p] = @ + 1]
           /\ tracked' = tracked \cup {<<p, created[p] + 1>>}
           /\ cached' = [cached EXCEPT ![p[1]] =
                           IF provider[p[1]] = p[2] THEN <<p, created[p] + 1>> ELSE @]
<1>1. pc[t] = "create" /\ stack[t] # <<>>
  BY DEF Create, Prepared, GatesOK, StacksOK, ResolveLabels
<1>2. PICK p \in Providers : p = Resolved(t)
  BY <1>1, TypesOfGates, TopOfStack
<1>3. PICK n \in DOMAIN stack[t] : n = Len(stack[t]) /\ stack[t][n].provider = p
  BY <1>1, <1>2, TypesOfGates, TopOfStack DEF Resolved
<1>4. owner[p] = t
  BY <1>1, <1>3 DEF GatesOK, CreatorOwnsGate, InCreation
<1>5. p[1] \in Tokens /\ p = <<p[1], p[2]>>
  BY DEF Providers
<1>6. created[p] \in Nat
  BY DEF TypeOK
<1>7. /\ created' = [created EXCEPT ![p] = @ + 1]
      /\ tracked' = tracked \cup {<<p, created[p] + 1>>}
      /\ cached' = [cached EXCEPT ![p[1]] =
                      IF provider[p[1]] = p[2] THEN <<p, created[p] + 1>> ELSE @]
  BY <1>2 DEF Create
<1>8. QED
  BY <1>3, <1>4, <1>5, <1>6, <1>7

\* Who resolves neither disposes of a token nor shuts down.
LEMMA RolesOfResolution ==
  ASSUME RolesOK, NEW t \in Threads, ResolvesOnly(t)
  PROVE  RolesOK'
<1>1. \A u \in Threads : Disposes(u)' <=> Disposes(u)
  BY DEF ResolvesOnly, Disposes, Outside, ResolveLabels
<1>2. \A u \in Threads : u # t => pc'[u] = pc[u]
  BY DEF ResolvesOnly
<1>3. /\ pc[t] \notin CleanupLabels /\ pc'[t] \notin CleanupLabels
  BY DEF ResolvesOnly, Outside, ResolveLabels, CleanupLabels
<1>4. UNCHANGED <<shutter, target, replaces, disposals>>
  BY DEF ResolvesOnly
<1>5. QED
  BY <1>1, <1>2, <1>3, <1>4 DEF RolesOK, CleanupLabels

\* A resolution claims nothing to close.
LEMMA ClaimsOfResolution ==
  ASSUME TypeOK, GatesOK, ClaimsOK, NEW t \in Threads, ResolvesOnly(t)
  PROVE  ClaimsOK'
<1>1. \A u \in Threads : Disposes(u)' <=> Disposes(u)
  BY DEF ResolvesOnly, Disposes, Outside, ResolveLabels
<1>2. \A u \in Threads : pc'[u] = "close" <=> pc[u] = "close"
  BY DEF ResolvesOnly, Outside, ResolveLabels
<1>3. tracked \subseteq tracked'
  BY CreateStep DEF ResolvesOnly
<1>4. UNCHANGED <<disposing, toClose, unclosed, pending, target>>
  BY DEF ResolvesOnly
<1>5. QED
  BY <1>1, <1>2, <1>3, <1>4 DEF ClaimsOK

\* A new instance is the latest of its provider: neither closed nor being closed.
LEMMA InstancesOfResolution ==
  ASSUME TypeOK, GatesOK, ClaimsOK, InstancesOK, NEW t \in Threads, ResolvesOnly(t)
  PROVE  InstancesOK'
<1>1. UNCHANGED <<provider, disposing, disposed>>
  BY DEF ResolvesOnly
<1>2. CASE UNCHANGED <<cached, created, tracked>>
  BY <1>1, <1>2 DEF InstancesOK
<1>3. CASE Create(t)
  <2>1. PICK p \in Providers :
           /\ p[1] \in Tokens /\ p = <<p[1], p[2]>> /\ created[p] \in Nat
           /\ created' = [created EXCEPT ![p] = @ + 1]
           /\ tracked' = tracked \cup {<<p, created[p] + 1>>}
           /\ cached' = [cached EXCEPT ![p[1]] =
                           IF provider[p[1]] = p[2] THEN <<p, created[p] + 1>> ELSE @]
    BY <1>3, CreateStep
  <2> DEFINE i == <<p, created[p] + 1>>
  <2>2. i = <<p, created[p] + 1>> /\ i[1] = p /\ i[2] = created[p] + 1
    OBVIOUS
  <2> HIDE DEF i
  <2>3. i \notin tracked /\ i \notin disposed /\ i \notin disposing
    BY <2>1, <2>2 DEF InstancesOK, ClaimsOK
  <2>4. \A j \in tracked \cup disposed : j[2] <= created[j[1]] /\ j[1] \in Providers /\ j[2] \in Nat
    BY DEF InstancesOK, TypeOK, Instances
  <2>5. /\ created'[p] = created[p] + 1
        /\ \A q \in Providers \ {p} : created'[q] = created[q]
    BY <2>1 DEF TypeOK
  <2>6. \A j \in tracked' \cup disposed' : j[2] <= created'[j[1]]
    <3>1. TAKE j \in tracked' \cup disposed'
    <3>2. CASE j = i
      BY <2>2, <2>5, <3>2, <2>1
    <3>3. CASE j \in tracked \cup disposed
      <4>1. j[2] <= created[j[1]] /\ j[1] \in Providers /\ j[2] \in Nat
        BY <2>4, <3>3
      <4>2. CASE j[1] = p
        BY <2>1, <2>5, <4>1, <4>2
      <4>3. CASE j[1] # p
        BY <2>5, <4>1, <4>3
      <4>4. QED
        BY <4>2, <4>3
    <3>4. QED
      BY <1>1, <2>1, <2>2, <3>2, <3>3
  <2>7. tracked' \cap disposed' = {}
    BY <1>1, <2>1, <2>2, <2>3 DEF InstancesOK
  <2>8. ASSUME NEW k \in Tokens, cached'[k] # NoInstance PROVE
          /\ cached'[k][1] = <<k, provider'[k]>>
          /\ cached'[k] \in tracked' /\ cached'[k] \notin disposing'
    <3>1. CASE k = p[1] /\ provider[k] = p[2]
      <4>1. cached'[k] = i
        BY <2>1, <2>2, <3>1 DEF TypeOK
      <4>2. QED
        BY <1>1, <2>1, <2>2, <2>3, <3>1, <4>1
    <3>2. CASE ~(k = p[1] /\ provider[k] = p[2])
      <4>1. cached'[k] = cached[k]
        BY <2>1, <3>2 DEF TypeOK
      <4>2. QED
        BY <1>1, <2>1, <2>8, <4>1 DEF InstancesOK
    <3>3. QED
      BY <3>1, <3>2
  <2>9. QED
    BY <2>6, <2>7, <2>8 DEF InstancesOK
<1>4. QED
  BY <1>2, <1>3 DEF ResolvesOnly

\* No owner comes back to a retired gate.
LEMMA GoneStays ==
  ASSUME TypeOK, TakesOpenGates, retired \subseteq retired', NEW k, NEW n,
         <<k, n>> \in retired, owner[<<k, n>>] = NoThread
  PROVE  Gone(k, n)'
  BY DEF TypeOK, TakesOpenGates, Gone

\* A resolution registers and retires nothing.
LEMMA RetiredOfResolution ==
  ASSUME TypeOK, RetiredOK, NEW t \in Threads, ResolvesOnly(t), TakesOpenGates,
         ResolvesRegistered(t)
  PROVE  RetiredOK'
<1>1. /\ UNCHANGED <<provider, registrations, retired, target>>
      /\ \A u \in Threads \ {t} : pc'[u] = pc[u] /\ stack'[u] = stack[u]
      /\ pc'[t] # "drain"
  BY DEF ResolvesOnly, Outside, ResolveLabels
<1>2. \A k \in Tokens, n \in Numbers :
        n <= registrations'[k] /\ n # provider'[k] => Gone(k, n)'
  BY <1>1, GoneStays DEF RetiredOK, Gone
<1>3. \A u \in Threads : \A i \in DOMAIN stack'[u] :
        stack'[u][i].provider[2] <= registrations'[stack'[u][i].provider[1]]
  <2>1. TAKE u \in Threads
  <2>2. TAKE i \in DOMAIN stack'[u]
  <2>3. CASE u # t
    BY <1>1, <2>3 DEF RetiredOK
  <2>4. CASE u = t
    <3>1. CASE \E j \in DOMAIN stack[t] : stack'[t][i].provider = stack[t][j].provider
      BY <1>1, <2>4, <3>1 DEF RetiredOK
    <3>2. CASE \E k \in Tokens : stack'[t][i].provider = <<k, provider[k]>>
      BY <1>1, <2>4, <3>2 DEF RetiredOK
    <3>3. QED
      BY <2>4, <3>1, <3>2 DEF ResolvesRegistered
  <2>5. QED
    BY <2>3, <2>4
<1>4. \A u \in Threads :
        pc'[u] = "drain" /\ provider'[target'[u]] # 0 =>
          <<target'[u], provider'[target'[u]]>> \in retired'
  BY <1>1 DEF RetiredOK
<1>5. \A k \in Tokens : provider'[k] <= registrations'[k]
  BY <1>1 DEF RetiredOK
<1>6. QED
  BY <1>2, <1>3, <1>4, <1>5 DEF RetiredOK

\* Nothing is created once all gates are gone.
LEMMA GoneMeansNotCreated ==
  ASSUME ContainerAssumption, TypeOK, GatesOK, RetiredOK, AllGone, NEW t \in Threads
  PROVE  ~Create(t)
<1>1. SUFFICES ASSUME Create(t) PROVE FALSE
  OBVIOUS
<1>2. PICK p \in Providers :
        /\ owner[p] = t /\ \E j \in DOMAIN stack[t] : stack[t][j].provider = p
        /\ p[1] \in Tokens /\ p = <<p[1], p[2]>> /\ created[p] \in Nat
        /\ created' = [created EXCEPT ![p] = @ + 1]
        /\ tracked' = tracked \cup {<<p, created[p] + 1>>}
        /\ cached' = [cached EXCEPT ![p[1]] =
                        IF provider[p[1]] = p[2] THEN <<p, created[p] + 1>> ELSE @]
  BY <1>1, CreateStep, Zenon
<1>3. p[2] <= registrations[p[1]] /\ p[2] \in Numbers /\ p[2] # 0
  BY <1>2 DEF RetiredOK, Providers, Numbers
<1>4. Gone(p[1], p[2])
  BY <1>2, <1>3 DEF RetiredOK, AllGone
<1>5. QED
  BY <1>2, <1>4 DEF Gone, ContainerAssumption

\* It cannot create during the cleanup of a shutdown or after it.
LEMMA ShutdownOfResolution ==
  ASSUME ContainerAssumption, TypeOK, GatesOK, RetiredOK, InstancesOK, ShutdownOK,
         NEW t \in Threads, ResolvesOnly(t), TakesOpenGates
  PROVE  ShutdownOK'
<1>1. /\ UNCHANGED <<provider, retired, disposed, disposals, shutter, closed, toRetire,
                    toClose, unclosed, awaits>>
      /\ \A u \in Threads \ {t} : pc'[u] = pc[u]
      /\ pc'[t] \notin {"wait_disposals", "retire_all", "close"}
  BY DEF ResolvesOnly, Outside, ResolveLabels
<1>2. AllGone => AllGone' /\ UNCHANGED <<cached, created, tracked>>
  <2>1. SUFFICES ASSUME AllGone PROVE AllGone' /\ UNCHANGED <<cached, created, tracked>>
    OBVIOUS
  <2>2. UNCHANGED <<cached, created, tracked>>
    BY <2>1, GoneMeansNotCreated DEF ResolvesOnly
  <2>3. AllGone'
    BY <1>1, <2>1, GoneStays DEF AllGone, Gone
  <2>4. QED
    BY <2>2, <2>3
<1>3. \A p \in Providers : \A n \in 1..created'[p] : <<p, n>> \in tracked' \cup disposed'
  <2>1. CASE UNCHANGED <<cached, created, tracked>>
    BY <1>1, <2>1 DEF ShutdownOK
  <2>2. CASE Create(t)
    <3>1. PICK q \in Providers :
             /\ created[q] \in Nat
             /\ created' = [created EXCEPT ![q] = @ + 1]
             /\ tracked' = tracked \cup {<<q, created[q] + 1>>}
      BY <2>2, CreateStep
    <3>2. SUFFICES ASSUME NEW p \in Providers, NEW n \in 1..created'[p]
                   PROVE  <<p, n>> \in tracked' \cup disposed'
      OBVIOUS
    <3>3. CASE p = q /\ n = created[q] + 1
      BY <3>1, <3>3
    <3>4. CASE ~(p = q /\ n = created[q] + 1)
      <4>1. n \in 1..created[p]
        <5>1. created'[p] = IF p = q THEN created[q] + 1 ELSE created[p]
          BY <3>1 DEF TypeOK
        <5>2. QED
          BY <3>1, <3>2, <3>4, <5>1
      <4>2. QED
        BY <1>1, <3>1, <4>1 DEF ShutdownOK
    <3>5. QED
      BY <3>3, <3>4
  <2>3. QED
    BY <2>1, <2>2 DEF ResolvesOnly
<1>4. \A u \in Threads : ShutsDown(u)' => ShutsDown(u) /\ u # t
  BY <1>1 DEF ShutsDown
<1>5. ASSUME NEW u \in Threads PROVE
        /\ pc'[u] = "wait_disposals" => disposals' \subseteq awaits'[u]
        /\ pc'[u] = "retire_all" \/ ShutsDown(u)' => disposals' = {}
        /\ pc'[u] = "retire_all" =>
             /\ \A k \in toRetire'[u] : provider'[k] # 0
             /\ \A k \in Tokens \ toRetire'[u] :
                  provider'[k] # 0 => <<k, provider'[k]>> \in retired'
        /\ ShutsDown(u)' => AllGone' /\ tracked' \subseteq toClose'[u] \cup unclosed'[u]
  <2>1. CASE u = t
    BY <1>1, <1>4, <2>1
  <2>2. CASE u # t
    BY <1>1, <1>2, <1>4, <2>2 DEF ShutdownOK
  <2>3. QED
    BY <2>1, <2>2
<1>6. closed' => AllGone' /\ tracked' = {} /\ disposals' = {} /\ shutter' = NoThread
  BY <1>1, <1>2 DEF ShutdownOK
<1>7. QED
  BY <1>3, <1>5, <1>6 DEF ShutdownOK

-------------------------------------------------------------------------------
\* Cleanup.

\* Cleanup leaves gates and stacks alone.
LEMMA CleanupMoves ==
  ASSUME TypeOK,
         NEW t \in Threads, Cleanup(t)
  PROVE  /\ UNCHANGED <<owner, stack, created>>
         /\ pc[t] \notin ResolveLabels
         /\ \E label \in {"idle"} \cup CleanupLabels : Goto(t, label)
<1> DEFINE Moves == /\ UNCHANGED <<owner, stack, created>>
                    /\ pc[t] \notin ResolveLabels
                    /\ \E label \in {"idle"} \cup CleanupLabels : Goto(t, label)
<1>1. ASSUME UNCHANGED pc PROVE Goto(t, pc[t])
  BY <1>1 DEF Goto, TypeOK
<1>2. ASSUME NEW k \in Tokens, Unregister(t, k) PROVE Moves
  BY <1>1, <1>2 DEF Unregister, Goto, NotResolving, ResolveLabels, CleanupLabels
<1>3. ASSUME NEW k \in Tokens, Register(t, k) PROVE Moves
  BY <1>1, <1>3 DEF Register, Goto, NotResolving, ResolveLabels, CleanupLabels
<1>4. ASSUME Shutdown(t) PROVE Moves
  BY <1>1, <1>4 DEF Shutdown, Goto, NotResolving, ResolveLabels, CleanupLabels
<1>5. ASSUME ClaimDisposal(t) PROVE Moves
  BY <1>1, <1>5 DEF ClaimDisposal, Goto, Idle, NotResolving, ResolveLabels, CleanupLabels
<1>6. ASSUME Retire(t) PROVE Moves
  BY <1>1, <1>6 DEF Retire, Goto, NotResolving, ResolveLabels, CleanupLabels
<1>7. ASSUME Detach(t) PROVE Moves
  BY <1>1, <1>7 DEF Detach, Goto, NotResolving, ResolveLabels, CleanupLabels
<1>8. ASSUME EndUnregister(t) PROVE Moves
  BY <1>1, <1>8 DEF EndUnregister, Goto, Idle, NotResolving, ResolveLabels, CleanupLabels
<1>9. ASSUME Join(t) PROVE Moves
  BY <1>1, <1>9 DEF Join, Goto, Idle, NotResolving, ResolveLabels, CleanupLabels
<1>10. ASSUME Commit(t) PROVE Moves
  BY <1>1, <1>10 DEF Commit, Goto, Idle, NotResolving, ResolveLabels, CleanupLabels
<1>11. ASSUME SeeDisposals(t) PROVE Moves
  BY <1>1, <1>11 DEF SeeDisposals, Goto, NotResolving, ResolveLabels, CleanupLabels
<1>12. ASSUME DisposalsDone(t) PROVE Moves
  BY <1>1, <1>12 DEF DisposalsDone, Goto, NotResolving, ResolveLabels, CleanupLabels
<1>13. ASSUME DisposalFailed(t) PROVE Moves
  BY <1>1, <1>13 DEF DisposalFailed, Goto, NotResolving, ResolveLabels, CleanupLabels
<1>14. ASSUME NEW k \in Tokens, RetireNext(t, k) PROVE Moves
  BY <1>1, <1>14 DEF RetireNext, NotResolving, ResolveLabels, CleanupLabels
<1>15. ASSUME DetachAll(t) PROVE Moves
  BY <1>1, <1>15 DEF DetachAll, Goto, NotResolving, ResolveLabels, CleanupLabels
<1>16. ASSUME EndShutdown(t) PROVE Moves
  BY <1>1, <1>16 DEF EndShutdown, Goto, NotResolving, ResolveLabels, CleanupLabels
<1>17. ASSUME NEW i \in toClose[t], CloseReturns(t, i) PROVE Moves
  BY <1>1, <1>17 DEF CloseReturns, NotResolving, ResolveLabels, CleanupLabels
<1>18. ASSUME NEW i \in toClose[t], CloseRaises(t, i) PROVE Moves
  BY <1>1, <1>18 DEF CloseRaises, NotResolving, ResolveLabels, CleanupLabels
<1>19. QED
  BY <1>2, <1>3, <1>4, <1>5, <1>6, <1>7, <1>8, <1>9, <1>10, <1>11, <1>12, <1>13, <1>14,
     <1>15, <1>16, <1>17, <1>18 DEF Cleanup, CleanupStep

\* So it keeps GatesOK.
LEMMA GatesOfCleanup ==
  ASSUME TypeOK, GatesOK,
         NEW t \in Threads, Cleanup(t)
  PROVE  GatesOK'
<1>1. PICK label \in {"idle"} \cup CleanupLabels : Goto(t, label)
  BY CleanupMoves, Zenon
<1>2. label \notin ResolveLabels
  BY DEF ResolveLabels, CleanupLabels
<1>3. {"create", "release", "giveup"} \subseteq ResolveLabels
  BY DEF ResolveLabels
<1>4. pc[t] \notin ResolveLabels /\ UNCHANGED <<owner, stack>>
  BY CleanupMoves
<1>5. QED
  BY <1>1, <1>2, <1>3, <1>4, TypesOfGates, GatesMove

\* A step of one thread keeps the roles when its own is right afterwards, and when
\* nobody else disposes of what it disposes of.
LEMMA RolesMove ==
  ASSUME RolesOK, NEW t \in Threads,
         \A u \in Threads \ {t} :
           /\ pc'[u] = pc[u] /\ target'[u] = target[u]
           /\ u \in replaces' => u \in replaces
           /\ shutter' = u <=> shutter = u
           /\ Disposes(u) => target[u] \in disposals',
         pc'[t] \in {"disposals", "wait_disposals", "retire_all"} => shutter' = t,
         shutter' = t => pc'[t] \in {"disposals", "wait_disposals", "retire_all", "close"},
         pc'[t] \in {"begin", "commit"} \/ Disposes(t)' \/ t \in replaces'
           => target'[t] \in Tokens,
         t \in replaces' => pc'[t] \in {"begin", "join", "commit"} \/ Disposes(t)',
         Disposes(t)' => /\ target'[t] \in disposals'
                         /\ \A u \in Threads \ {t} : Disposes(u) => target[u] # target'[t]
  PROVE  RolesOK'
<1>1. \A u \in Threads \ {t} : Disposes(u)' <=> Disposes(u)
  BY DEF Disposes
<1>2. ASSUME NEW u \in Threads PROVE
        /\ pc'[u] \in {"disposals", "wait_disposals", "retire_all"} => shutter' = u
        /\ shutter' = u => pc'[u] \in {"disposals", "wait_disposals", "retire_all", "close"}
        /\ pc'[u] \in {"begin", "commit"} \/ Disposes(u)' \/ u \in replaces'
             => target'[u] \in Tokens
        /\ u \in replaces' => pc'[u] \in {"begin", "join", "commit"} \/ Disposes(u)'
        /\ Disposes(u)' => target'[u] \in disposals'
  <2>1. CASE u = t
    BY <2>1
  <2>2. CASE u # t
    BY <1>1, <2>2 DEF RolesOK
  <2>3. QED
    BY <2>1, <2>2
<1>3. \A u, v \in Threads :
        Disposes(u)' /\ Disposes(v)' /\ target'[u] = target'[v] => u = v
  BY <1>1 DEF RolesOK
<1>4. QED
  BY <1>2, <1>3 DEF RolesOK

\* A thread that goes on disposing of its token keeps its role.
LEMMA RolesKept ==
  ASSUME RolesOK, NEW t \in Threads, Disposes(t), Disposes(t)', shutter # t,
         pc'[t] \in {"retire", "drain", "close"},
         \A u \in Threads \ {t} : pc'[u] = pc[u],
         UNCHANGED <<shutter, disposals, target, replaces>>
  PROVE  RolesOK'
<1>1. \A u \in Threads \ {t} :
        /\ pc'[u] = pc[u] /\ target'[u] = target[u]
        /\ u \in replaces' => u \in replaces
        /\ shutter' = u <=> shutter = u
        /\ Disposes(u) => target[u] \in disposals'
  BY DEF RolesOK
<1>2. target'[t] \in Tokens /\ target'[t] \in disposals'
  BY DEF RolesOK
<1>3. \A u \in Threads \ {t} : Disposes(u) => target[u] # target'[t]
  BY DEF RolesOK
<1>4. QED
  BY <1>1, <1>2, <1>3, RolesMove

\* A thread that has no role afterwards leaves those of the others.
LEMMA RolesLeft ==
  ASSUME RolesOK, NEW t \in Threads, pc'[t] \in {"idle", "begin", "join", "commit"},
         pc'[t] \in {"begin", "commit"} \/ t \in replaces' => target'[t] \in Tokens,
         t \in replaces' => pc'[t] # "idle",
         shutter' # t,
         \A u \in Threads \ {t} :
           /\ pc'[u] = pc[u] /\ target'[u] = target[u]
           /\ u \in replaces' => u \in replaces
           /\ shutter' = u <=> shutter = u
           /\ Disposes(u) => target[u] \in disposals'
  PROVE  RolesOK'
<1>1. ~Disposes(t)'
  BY DEF Disposes
<1>2. QED
  BY <1>1, RolesMove

\* The same when its operation has ended.
LEMMA RolesIdle ==
  ASSUME RolesOK, NEW t \in Threads, pc'[t] = "idle", t \notin replaces',
         shutter # t, UNCHANGED shutter,
         \A u \in Threads \ {t} : pc'[u] = pc[u],
         \A u \in Threads \ {t} : target'[u] = target[u] /\ (u \in replaces' => u \in replaces),
         \A u \in Threads \ {t} : Disposes(u) => target[u] \in disposals'
  PROVE  RolesOK'
<1>1. \A u \in Threads \ {t} :
        /\ pc'[u] = pc[u] /\ target'[u] = target[u]
        /\ u \in replaces' => u \in replaces
        /\ shutter' = u <=> shutter = u
        /\ Disposes(u) => target[u] \in disposals'
  OBVIOUS
<1>2. QED
  BY <1>1, RolesLeft

\* A disposal or a shutdown has one owner from its claim to its end.
LEMMA RolesOfCleanup ==
  ASSUME TypeOK, RolesOK, ClaimsOK, NoThread \notin Threads,
         NEW t \in Threads, Cleanup(t)
  PROVE  RolesOK'
<1>0. /\ \A u \in Threads \ {t} : pc'[u] = pc[u]
      /\ \A label : Goto(t, label) => pc'[t] = label
  <2>1. pc \in [Threads -> {"idle"} \cup ResolveLabels \cup CleanupLabels]
    BY DEF TypeOK
  <2>2. QED
    BY <2>1, CleanupMoves DEF Goto
<1>1. ASSUME NEW k \in Tokens, Unregister(t, k) PROVE RolesOK'
  BY <1>0, <1>1 DEF Unregister, RolesOK, Disposes, TypeOK, lifetime, joins
<1>2. ASSUME NEW k \in Tokens, Register(t, k) PROVE RolesOK'
  BY <1>0, <1>2 DEF Register, RolesOK, Disposes, TypeOK, Open, lifetime, joins
<1>3. ASSUME Shutdown(t) PROVE RolesOK'
  <2>1. pc[t] = "idle" /\ UNCHANGED <<disposals, target, replaces>>
    BY <1>3 DEF Shutdown
  <2>2. t \notin replaces /\ shutter # t
    BY <2>1 DEF RolesOK, Disposes
  <2>3. \/ shutter = NoThread /\ shutter' = t /\ pc'[t] = "disposals"
        \/ UNCHANGED shutter /\ pc'[t] = "join"
    BY <1>0, <1>3, Zenon DEF Shutdown
  <2>4. ~Disposes(t)'
    BY <2>3 DEF Disposes
  <2>5. \A u \in Threads \ {t} :
          /\ shutter' = u <=> shutter = u
          /\ Disposes(u) => target[u] \in disposals'
    BY <2>1, <2>3 DEF RolesOK
  <2>6. QED
    BY <1>0, <2>1, <2>2, <2>3, <2>4, <2>5, RolesMove
<1>4. ASSUME ClaimDisposal(t) PROVE RolesOK'
  <2>1. pc[t] = "begin" /\ UNCHANGED shutter /\ target[t] \in Tokens /\ shutter # t
    BY <1>4 DEF ClaimDisposal, RolesOK, lifetime
  <2>2. CASE Idle(t) /\ UNCHANGED disposals
    <3>1. /\ pc'[t] = "idle" /\ t \notin replaces'
          /\ \A u \in Threads \ {t} : target'[u] = target[u] /\ (u \in replaces' => u \in replaces)
      BY <1>0, <2>2 DEF Idle, TypeOK
    <3>2. \A u \in Threads \ {t} : Disposes(u) => target[u] \in disposals'
      BY <2>2 DEF RolesOK
    <3>3. QED
      BY <1>0, <2>1, <3>1, <3>2, RolesIdle
  <2>3. CASE /\ UNCHANGED <<target, replaces>> /\ target[t] \notin disposals
             /\ disposals' = disposals \cup {target[t]} /\ pc'[t] = "retire"
    <3>1. \A u \in Threads \ {t} :
            Disposes(u) => target[u] \in disposals' /\ target[u] # target[t]
      BY <2>3 DEF RolesOK
    <3>2. Disposes(t)'
      BY <2>3 DEF Disposes
    <3>3. QED
      BY <1>0, <2>1, <2>3, <3>1, <3>2, RolesMove
  <2>4. CASE UNCHANGED <<target, replaces, disposals>> /\ pc'[t] = "join"
    <3>1. \A u \in Threads \ {t} : Disposes(u) => target[u] \in disposals'
      BY <2>4 DEF RolesOK
    <3>2. QED
      BY <1>0, <2>1, <2>4, <3>1, RolesLeft
  <2>5. QED
    BY <1>0, <1>4, <2>2, <2>3, <2>4, Zenon DEF ClaimDisposal
<1>5. ASSUME Retire(t) PROVE RolesOK'
  <2>1. pc[t] = "retire" /\ UNCHANGED <<shutter, disposals, target, replaces>>
    BY <1>5 DEF Retire, lifetime
  <2>2. pc'[t] = "drain"
    BY <1>0, <1>5 DEF Retire
  <2>3. Disposes(t) /\ Disposes(t)' /\ shutter # t
    BY <2>1, <2>2 DEF Disposes, RolesOK
  <2>4. QED
    BY <1>0, <2>1, <2>2, <2>3, RolesKept
<1>6. ASSUME Detach(t) PROVE RolesOK'
  <2>1. pc[t] = "drain" /\ UNCHANGED <<shutter, disposals, target, replaces>>
    BY <1>6 DEF Detach, lifetime
  <2>2. pc'[t] = "close"
    BY <1>0, <1>6 DEF Detach
  <2>3. Disposes(t) /\ Disposes(t)' /\ shutter # t
    BY <2>1, <2>2 DEF Disposes, RolesOK
  <2>4. QED
    BY <1>0, <2>1, <2>2, <2>3, RolesKept
<1>7. ASSUME EndUnregister(t) PROVE RolesOK'
  <2>1. /\ pc[t] = "close" /\ shutter # t /\ UNCHANGED shutter
        /\ disposals' = disposals \ {target[t]}
    BY <1>7 DEF EndUnregister, lifetime
  <2>2. Disposes(t) /\ target[t] \in Tokens
    BY <2>1 DEF RolesOK, Disposes
  <2>3. \A u \in Threads \ {t} : Disposes(u) => target[u] \in disposals'
    BY <2>1, <2>2 DEF RolesOK
  <2>4. CASE pc'[t] = "commit" /\ UNCHANGED <<target, replaces>>
    BY <1>0, <2>1, <2>2, <2>3, <2>4, RolesLeft
  <2>5. CASE Idle(t)
    <3>1. /\ pc'[t] = "idle" /\ t \notin replaces'
          /\ \A u \in Threads \ {t} : target'[u] = target[u] /\ (u \in replaces' => u \in replaces)
      BY <1>0, <2>5 DEF Idle, TypeOK
    <3>2. QED
      BY <1>0, <2>1, <2>3, <3>1, RolesIdle
  <2>6. QED
    BY <1>0, <1>7, <2>4, <2>5, Zenon DEF EndUnregister
<1>8. ASSUME Join(t) PROVE RolesOK'
  <2>1. pc[t] = "join" /\ UNCHANGED <<shutter, disposals>>
    BY <1>8 DEF Join, lifetime
  <2>2. CASE t \in replaces /\ Goto(t, "commit") /\ UNCHANGED <<target, replaces>>
    BY <1>0, <2>1, <2>2 DEF RolesOK, Disposes
  <2>3. CASE Idle(t)
    BY <1>0, <2>1, <2>3 DEF RolesOK, Disposes, Idle, TypeOK
  <2>4. QED
    BY <1>8, <2>2, <2>3, Zenon DEF Join
<1>9. ASSUME Commit(t) PROVE RolesOK'
  BY <1>0, <1>9 DEF Commit, RolesOK, Disposes, Idle, TypeOK, Open, lifetime, joins
<1>10. ASSUME SeeDisposals(t) PROVE RolesOK'
  BY <1>0, <1>10 DEF SeeDisposals, RolesOK, Disposes, TypeOK, lifetime
<1>11. ASSUME DisposalsDone(t) PROVE RolesOK'
  BY <1>0, <1>11 DEF DisposalsDone, RolesOK, Disposes, TypeOK, lifetime, joins
<1>12. ASSUME DisposalFailed(t) PROVE RolesOK'
  <2>1. /\ pc[t] = "wait_disposals" /\ shutter' = NoThread
        /\ UNCHANGED <<disposals, target, replaces>>
    BY <1>12 DEF DisposalFailed
  <2>2. pc'[t] = "idle"
    BY <1>0, <1>12 DEF DisposalFailed
  <2>3. t \notin replaces /\ shutter = t
    BY <2>1 DEF RolesOK, Disposes
  <2>4. \A u \in Threads \ {t} : Disposes(u) => target[u] \in disposals'
    BY <2>1 DEF RolesOK
  <2>5. \A u \in Threads : shutter' # u
    BY <2>1
  <2>6. QED
    BY <1>0, <2>1, <2>2, <2>3, <2>4, <2>5, RolesLeft
<1>13. ASSUME NEW k \in Tokens, RetireNext(t, k) PROVE RolesOK'
  BY <1>0, <1>13 DEF RetireNext, RolesOK, Disposes, TypeOK, lifetime, joins
<1>14. ASSUME DetachAll(t) PROVE RolesOK'
  BY <1>0, <1>14 DEF DetachAll, RolesOK, Disposes, TypeOK, lifetime, joins
<1>15. ASSUME EndShutdown(t) PROVE RolesOK'
  BY <1>0, <1>15 DEF EndShutdown, RolesOK, Disposes, TypeOK
<1>16. ASSUME NEW i \in toClose[t], CloseReturns(t, i) PROVE RolesOK'
  BY <1>0, <1>16 DEF CloseReturns, RolesOK, Disposes, TypeOK, lifetime, joins
<1>17. ASSUME NEW i \in toClose[t], CloseRaises(t, i) PROVE RolesOK'
  BY <1>0, <1>17 DEF CloseRaises, RolesOK, Disposes, TypeOK, lifetime, joins
<1>18. QED
  BY <1>1, <1>2, <1>3, <1>4, <1>5, <1>6, <1>7, <1>8, <1>9, <1>10, <1>11, <1>12, <1>13,
     <1>14, <1>15, <1>16, <1>17 DEF Cleanup, CleanupStep

\* What an unregister() takes away is what its token holds.
LEMMA DetachStep ==
  ASSUME TypeOK, RolesOK, InstancesOK, ClaimsOK, NEW t \in Threads, Detach(t)
  PROVE  \E k \in Tokens, claimed \in SUBSET tracked :
           /\ k = target[t] /\ GateIdle(k)
           /\ \A i \in claimed : i \notin disposing /\ Of(i) = k
           /\ disposing' = disposing \cup claimed
           /\ toClose' = [toClose EXCEPT ![t] = claimed]
           /\ provider' = [provider EXCEPT ![k] = 0]
           /\ cached' = [cached EXCEPT ![k] = NoInstance]
           /\ UNCHANGED <<registrations, retired, tracked, disposed, disposals, pending,
                          shutter, target, unclosed>>
<1>1. PICK k \in Tokens : k = target[t]
  BY DEF Detach, RolesOK, Disposes
<1>2. PICK candidates : candidates = IF pending[k] # {} THEN pending[k] ELSE {cached[k]}
  OBVIOUS
<1>3. PICK claimed : claimed = (candidates \cap tracked) \ disposing
  OBVIOUS
<1>4. /\ disposing' = disposing \cup claimed
      /\ toClose' = [toClose EXCEPT ![t] = claimed]
  BY <1>1, <1>2, <1>3 DEF Detach, ClaimToClose
<1>5. \A i \in claimed : Of(i) = k
  <2>1. TAKE i \in claimed
  <2>2. CASE i \in pending[k]
    BY <2>2 DEF ClaimsOK
  <2>3. CASE i = cached[k]
    <3>1. i \in Instances
      BY <1>3 DEF TypeOK
    <3>2. i # NoInstance
      <4>1. PICK p \in Providers, n \in Nat \ {0} : i = <<p, n>>
        BY <3>1 DEF Instances
      <4>2. QED
        BY <4>1 DEF NoInstance
    <3>3. QED
      BY <2>3, <3>2 DEF InstancesOK, Of
  <2>4. QED
    BY <1>2, <1>3, <2>2, <2>3
<1>6. /\ GateIdle(k)
      /\ provider' = [provider EXCEPT ![k] = 0]
      /\ cached' = [cached EXCEPT ![k] = NoInstance]
      /\ UNCHANGED <<registrations, retired, tracked, disposed, disposals, pending,
                     shutter, target, unclosed>>
  BY <1>1 DEF Detach, lifetime
<1>7. claimed \in SUBSET tracked /\ \A i \in claimed : i \notin disposing
  BY <1>3
<1>8. QED
  BY <1>1, <1>4, <1>5, <1>6, <1>7, Zenon

\* A step that claims and closes nothing, of a thread that disposes of nothing
\* afterwards ...
LEMMA ClaimsKept ==
  ASSUME ClaimsOK, NEW t \in Threads, pc[t] # "close", pc'[t] # "close", ~Disposes(t)',
         UNCHANGED <<tracked, disposing, toClose, unclosed, pending>>,
         \A u \in Threads \ {t} :
           /\ pc'[u] = pc[u] /\ target'[u] = target[u]
           /\ Disposes(u)' => Disposes(u)
  PROVE  ClaimsOK'
  BY DEF ClaimsOK

\* ... and one that claims what nobody is closing.
LEMMA ClaimsTaken ==
  ASSUME ClaimsOK, NEW t \in Threads, pc'[t] = "close",
         NEW claimed \in SUBSET tracked,
         \A i \in claimed : i \notin disposing,
         \/ shutter = t
         \/ \A i \in claimed : Of(i) = target[t],
         toClose[t] = {}, unclosed[t] = {}, disposing' = disposing \cup claimed,
         toClose'[t] = claimed,
         UNCHANGED <<tracked, unclosed, pending, target, shutter>>,
         \A u \in Threads \ {t} : pc'[u] = pc[u] /\ toClose'[u] = toClose[u]
  PROVE  ClaimsOK'
<1>1. disposing' \subseteq tracked'
  BY DEF ClaimsOK
<1>2. \A i \in disposing' : \E u \in Threads : i \in toClose'[u]
  <2>1. TAKE i \in disposing'
  <2>2. CASE i \in claimed
    BY <2>2
  <2>3. CASE i \in disposing
    <3>1. PICK u \in Threads : i \in toClose[u]
      BY <2>3 DEF ClaimsOK
    <3>2. QED
      BY <3>1
  <2>4. QED
    BY <2>2, <2>3
<1>3. \A u \in Threads : toClose'[u] \subseteq disposing'
  BY DEF ClaimsOK
<1>4. \A u, v \in Threads : u # v => toClose'[u] \cap toClose'[v] = {}
  BY DEF ClaimsOK
<1>5. \A u \in Threads : pc'[u] # "close" => toClose'[u] = {} /\ unclosed'[u] = {}
  BY DEF ClaimsOK
<1>6. \A u \in Threads :
        Disposes(u)' => \A i \in toClose'[u] \cup unclosed'[u] : Of(i) = target'[u]
  BY DEF ClaimsOK, Disposes
<1>7. QED
  BY <1>1, <1>2, <1>3, <1>4, <1>5, <1>6 DEF ClaimsOK

\* What is detached is cached no more, before it is closed.
LEMMA InstancesOfCleanup ==
  ASSUME TypeOK, RolesOK, ClaimsOK, InstancesOK,
         NEW t \in Threads, Cleanup(t)
  PROVE  InstancesOK'
<1>0. /\ \A u \in Threads \ {t} : pc'[u] = pc[u]
      /\ \A label : Goto(t, label) => pc'[t] = label
      /\ UNCHANGED <<owner, stack, created>>
  <2>1. pc \in [Threads -> {"idle"} \cup ResolveLabels \cup CleanupLabels]
    BY DEF TypeOK
  <2>2. QED
    BY <2>1, CleanupMoves DEF Goto
<1>1. ASSUME NEW k \in Tokens, Unregister(t, k) PROVE InstancesOK'
  BY <1>0, <1>1 DEF Unregister, TypeOK, InstancesOK, registry, tracker, lifetime
<1>2. ASSUME NEW k \in Tokens, Register(t, k) PROVE InstancesOK'
  BY <1>0, <1>2 DEF Register, TypeOK, InstancesOK, registry, tracker, lifetime
<1>3. ASSUME Shutdown(t) PROVE InstancesOK'
  BY <1>0, <1>3 DEF Shutdown, TypeOK, InstancesOK, registry, tracker
<1>4. ASSUME ClaimDisposal(t) PROVE InstancesOK'
  BY <1>0, <1>4 DEF ClaimDisposal, Idle, TypeOK, InstancesOK, registry, tracker, lifetime
<1>5. ASSUME Retire(t) PROVE InstancesOK'
  BY <1>0, <1>5 DEF Retire, TypeOK, InstancesOK, registry, tracker, lifetime
<1>6. ASSUME Detach(t) PROVE InstancesOK'
  <2>1. PICK k \in Tokens, claimed \in SUBSET tracked :
          /\ \A i \in claimed : i \notin disposing /\ Of(i) = k
          /\ disposing' = disposing \cup claimed
          /\ provider' = [provider EXCEPT ![k] = 0]
          /\ cached' = [cached EXCEPT ![k] = NoInstance]
          /\ UNCHANGED <<tracked, disposed>>
    BY <1>6, DetachStep
  <2>2. ASSUME NEW l \in Tokens, cached'[l] # NoInstance PROVE
          /\ cached'[l][1] = <<l, provider'[l]>>
          /\ cached'[l] \in tracked' /\ cached'[l] \notin disposing'
    <3>1. l # k /\ cached'[l] = cached[l] /\ provider'[l] = provider[l]
      BY <2>1, <2>2 DEF TypeOK
    <3>2. cached[l][1] = <<l, provider[l]>> /\ cached[l] \in tracked /\ cached[l] \notin disposing
      BY <2>2, <3>1 DEF InstancesOK
    <3>3. cached[l] \notin claimed
      BY <2>1, <3>1, <3>2 DEF Of
    <3>4. QED
      BY <2>1, <3>1, <3>2, <3>3
  <2>3. QED
    BY <1>0, <2>1, <2>2 DEF InstancesOK
<1>7. ASSUME EndUnregister(t) PROVE InstancesOK'
  BY <1>0, <1>7 DEF EndUnregister, Idle, TypeOK, InstancesOK, registry, tracker, lifetime
<1>8. ASSUME Join(t) PROVE InstancesOK'
  BY <1>0, <1>8 DEF Join, Idle, TypeOK, InstancesOK, registry, tracker, lifetime
<1>9. ASSUME Commit(t) PROVE InstancesOK'
  <2>1. UNCHANGED <<cached, tracked, disposing, disposed>>
    BY <1>9 DEF Commit, tracker
  <2>2. ASSUME NEW k \in Tokens, cached[k] # NoInstance PROVE provider'[k] = provider[k]
    <3>1. cached[k] \in Instances /\ cached[k][1] = <<k, provider[k]>>
      BY <2>2 DEF TypeOK, InstancesOK
    <3>2. provider[k] # 0
      BY <3>1 DEF Instances, Providers, Numbers
    <3>3. QED
      BY <1>9, <3>2 DEF Commit, TypeOK, registry
  <2>3. QED
    BY <1>0, <2>1, <2>2 DEF InstancesOK
<1>10. ASSUME SeeDisposals(t) PROVE InstancesOK'
  BY <1>0, <1>10 DEF SeeDisposals, TypeOK, InstancesOK, registry, tracker, lifetime
<1>11. ASSUME DisposalsDone(t) PROVE InstancesOK'
  BY <1>0, <1>11 DEF DisposalsDone, TypeOK, InstancesOK, registry, tracker, lifetime
<1>12. ASSUME DisposalFailed(t) PROVE InstancesOK'
  BY <1>0, <1>12 DEF DisposalFailed, TypeOK, InstancesOK, registry, tracker
<1>13. ASSUME NEW k \in Tokens, RetireNext(t, k) PROVE InstancesOK'
  BY <1>0, <1>13 DEF RetireNext, TypeOK, InstancesOK, registry, tracker, lifetime
<1>14. ASSUME DetachAll(t) PROVE InstancesOK'
  BY <1>0, <1>14 DEF DetachAll, TypeOK, InstancesOK, registry, lifetime
<1>15. ASSUME EndShutdown(t) PROVE InstancesOK'
  BY <1>0, <1>15 DEF EndShutdown, TypeOK, InstancesOK, registry, tracker
<1>16. ASSUME NEW i \in toClose[t], CloseReturns(t, i) PROVE InstancesOK'
  <2>1. /\ i \in tracked /\ i \in disposing /\ tracked' = tracked \ {i}
        /\ disposed' = disposed \cup {i} /\ disposing' = disposing \ {i}
        /\ UNCHANGED <<cached, provider>>
    BY <1>16 DEF CloseReturns, ClaimsOK, registry
  <2>2. QED
    BY <1>0, <2>1 DEF InstancesOK
<1>17. ASSUME NEW i \in toClose[t], CloseRaises(t, i) PROVE InstancesOK'
  BY <1>0, <1>17 DEF CloseRaises, TypeOK, InstancesOK, registry, lifetime
<1>18. QED
  BY <1>1, <1>2, <1>3, <1>4, <1>5, <1>6, <1>7, <1>8, <1>9, <1>10, <1>11, <1>12, <1>13,
     <1>14, <1>15, <1>16, <1>17 DEF Cleanup, CleanupStep

\* What one thread has claimed to close no other claims.
LEMMA ClaimsOfCleanup ==
  ASSUME TypeOK, RolesOK, InstancesOK, ClaimsOK, NoThread \notin Threads,
         NEW t \in Threads, Cleanup(t)
  PROVE  ClaimsOK'
<1>0. /\ \A u \in Threads \ {t} : pc'[u] = pc[u]
      /\ \A label : Goto(t, label) => pc'[t] = label
      /\ UNCHANGED <<owner, stack, created>>
  <2>1. pc \in [Threads -> {"idle"} \cup ResolveLabels \cup CleanupLabels]
    BY DEF TypeOK
  <2>2. QED
    BY <2>1, CleanupMoves DEF Goto
<1>1. ASSUME NEW k \in Tokens, Unregister(t, k) PROVE ClaimsOK'
  BY <1>0, <1>1 DEF Unregister, TypeOK, ClaimsOK, Disposes, tracker, lifetime, claims
<1>2. ASSUME NEW k \in Tokens, Register(t, k) PROVE ClaimsOK'
  BY <1>0, <1>2 DEF Register, TypeOK, ClaimsOK, Disposes, tracker, lifetime, claims
<1>3. ASSUME Shutdown(t) PROVE ClaimsOK'
  <2>1. pc[t] = "idle" /\ pc'[t] # "close" /\ ~Disposes(t)'
    BY <1>0, <1>3 DEF Shutdown, Disposes
  <2>2. UNCHANGED <<tracked, disposing, toClose, unclosed, pending, target>>
    BY <1>3 DEF Shutdown, tracker, claims
  <2>3. \A u \in Threads \ {t} : Disposes(u)' => Disposes(u)
    BY <1>0, <1>3 DEF Shutdown, Disposes
  <2>4. QED
    BY <1>0, <2>1, <2>2, <2>3, ClaimsKept
<1>4. ASSUME ClaimDisposal(t) PROVE ClaimsOK'
  <2>1. /\ pc[t] = "begin"
        /\ UNCHANGED <<tracked, disposing, toClose, unclosed, pending, shutter>>
    BY <1>4 DEF ClaimDisposal, tracker, claims, lifetime
  <2>2. \A u \in Threads \ {t} : target'[u] = target[u]
    BY <1>4 DEF ClaimDisposal, Idle, TypeOK
  <2>3. \A u \in Threads : Disposes(u)' /\ u # t => Disposes(u)
    BY <1>0, <2>1 DEF Disposes
  <2>4. pc'[t] \in {"idle", "retire", "join"}
    BY <1>0, <1>4, Zenon DEF ClaimDisposal, Idle
  <2>5. toClose[t] = {} /\ unclosed[t] = {}
    BY <2>1 DEF ClaimsOK
  <2>6. QED
    BY <1>0, <2>1, <2>2, <2>3, <2>4, <2>5 DEF ClaimsOK
<1>5. ASSUME Retire(t) PROVE ClaimsOK'
  BY <1>0, <1>5 DEF Retire, TypeOK, ClaimsOK, Disposes, tracker, lifetime, claims
<1>6. ASSUME Detach(t) PROVE ClaimsOK'
  <2>1. PICK k \in Tokens, claimed \in SUBSET tracked :
          /\ k = target[t]
          /\ \A i \in claimed : i \notin disposing /\ Of(i) = k
          /\ disposing' = disposing \cup claimed
          /\ toClose' = [toClose EXCEPT ![t] = claimed]
          /\ UNCHANGED <<tracked, unclosed, pending, target, shutter>>
    BY <1>6, DetachStep
  <2>2. pc[t] = "drain" /\ pc'[t] = "close"
    BY <1>0, <1>6 DEF Detach
  <2>3. toClose'[t] = claimed /\ \A u \in Threads \ {t} : toClose'[u] = toClose[u]
    BY <2>1 DEF TypeOK
  <2>4. toClose[t] = {} /\ unclosed[t] = {}
    BY <2>2 DEF ClaimsOK
  <2>5. QED
    BY <1>0, <2>1, <2>2, <2>3, <2>4, ClaimsTaken
<1>7. ASSUME EndUnregister(t) PROVE ClaimsOK'
  BY <1>0, <1>7 DEF EndUnregister, Idle, TypeOK, ClaimsOK, Disposes, tracker, lifetime
<1>8. ASSUME Join(t) PROVE ClaimsOK'
  <2>1. pc[t] = "join" /\ pc'[t] # "close" /\ ~Disposes(t)'
    BY <1>0, <1>8 DEF Join, Disposes, Idle
  <2>2. /\ UNCHANGED <<tracked, disposing, toClose, unclosed, pending, shutter>>
        /\ \A u \in Threads \ {t} : target'[u] = target[u]
    BY <1>8 DEF Join, Idle, TypeOK, tracker, claims, lifetime
  <2>3. \A u \in Threads \ {t} : Disposes(u)' => Disposes(u)
    BY <1>0, <2>2 DEF Disposes
  <2>4. QED
    BY <1>0, <2>1, <2>2, <2>3, ClaimsKept
<1>9. ASSUME Commit(t) PROVE ClaimsOK'
  BY <1>0, <1>9 DEF Commit, Idle, TypeOK, ClaimsOK, Disposes, tracker, lifetime, claims
<1>10. ASSUME SeeDisposals(t) PROVE ClaimsOK'
  BY <1>0, <1>10 DEF SeeDisposals, TypeOK, ClaimsOK, Disposes, tracker, lifetime, claims
<1>11. ASSUME DisposalsDone(t) PROVE ClaimsOK'
  BY <1>0, <1>11 DEF DisposalsDone, TypeOK, ClaimsOK, Disposes, tracker, lifetime
<1>12. ASSUME DisposalFailed(t) PROVE ClaimsOK'
  <2>1. pc[t] = "wait_disposals" /\ pc'[t] = "idle" /\ ~Disposes(t)' /\ shutter = t
    BY <1>0, <1>12 DEF DisposalFailed, Disposes, RolesOK
  <2>2. UNCHANGED <<tracked, disposing, toClose, unclosed, pending, target>>
    BY <1>12 DEF DisposalFailed, tracker, claims
  <2>3. \A u \in Threads \ {t} : Disposes(u)' => Disposes(u)
    BY <1>0, <2>1 DEF Disposes
  <2>4. QED
    BY <1>0, <2>1, <2>2, <2>3, ClaimsKept
<1>13. ASSUME NEW k \in Tokens, RetireNext(t, k) PROVE ClaimsOK'
  BY <1>0, <1>13 DEF RetireNext, TypeOK, ClaimsOK, Disposes, tracker, lifetime
<1>14. ASSUME DetachAll(t) PROVE ClaimsOK'
  <2>1. PICK claimed \in SUBSET tracked :
          /\ \A i \in claimed : i \notin disposing
          /\ disposing' = disposing \cup claimed
          /\ toClose' = [toClose EXCEPT ![t] = claimed]
          /\ UNCHANGED <<tracked, unclosed, pending, target, shutter>>
    BY <1>14 DEF DetachAll, ClaimToClose, lifetime
  <2>2. pc[t] = "retire_all" /\ pc'[t] = "close" /\ shutter = t
    BY <1>0, <1>14 DEF DetachAll, RolesOK
  <2>3. toClose'[t] = claimed /\ \A u \in Threads \ {t} : toClose'[u] = toClose[u]
    BY <2>1 DEF TypeOK
  <2>4. toClose[t] = {} /\ unclosed[t] = {}
    BY <2>2 DEF ClaimsOK
  <2>5. QED
    BY <1>0, <2>1, <2>2, <2>3, <2>4, ClaimsTaken
<1>15. ASSUME EndShutdown(t) PROVE ClaimsOK'
  BY <1>0, <1>15 DEF EndShutdown, TypeOK, ClaimsOK, Disposes, tracker
<1>16. ASSUME NEW i \in toClose[t], CloseReturns(t, i) PROVE ClaimsOK'
  BY <1>0, <1>16 DEF CloseReturns, TypeOK, ClaimsOK, Disposes, lifetime
<1>17. ASSUME NEW i \in toClose[t], CloseRaises(t, i) PROVE ClaimsOK'
  BY <1>0, <1>17 DEF CloseRaises, TypeOK, ClaimsOK, Disposes, lifetime
<1>18. QED
  BY <1>1, <1>2, <1>3, <1>4, <1>5, <1>6, <1>7, <1>8, <1>9, <1>10, <1>11, <1>12, <1>13,
     <1>14, <1>15, <1>16, <1>17 DEF Cleanup, CleanupStep

\* A step that registers nothing keeps RetiredOK when it retires what is drained.
LEMMA RetiredKept ==
  ASSUME RetiredOK, NEW t \in Threads,
         \A u \in Threads \ {t} : pc'[u] = pc[u] /\ target'[u] = target[u],
         UNCHANGED <<provider, registrations, owner, stack>>, retired \subseteq retired',
         pc'[t] = "drain" /\ provider'[target'[t]] # 0 =>
           <<target'[t], provider'[target'[t]]>> \in retired'
  PROVE  RetiredOK'
<1>1. \A k, n : Gone(k, n) => Gone(k, n)'
  BY DEF Gone
<1>2. /\ \A k \in Tokens : provider'[k] <= registrations'[k]
      /\ \A k \in Tokens, n \in Numbers :
           n <= registrations'[k] /\ n # provider'[k] => Gone(k, n)'
  BY <1>1 DEF RetiredOK
<1>3. \A u \in Threads : \A i \in DOMAIN stack'[u] :
        stack'[u][i].provider[2] <= registrations'[stack'[u][i].provider[1]]
  BY DEF RetiredOK
<1>4. \A u \in Threads :
        pc'[u] = "drain" /\ provider'[target'[u]] # 0 =>
          <<target'[u], provider'[target'[u]]>> \in retired'
  BY DEF RetiredOK
<1>5. QED
  BY <1>2, <1>3, <1>4 DEF RetiredOK

\* A provider leaves the registry after its gate was retired and became idle.
LEMMA RetiredOfCleanup ==
  ASSUME ContainerAssumption, TypeOK, InstancesOK, ClaimsOK, RolesOK, RetiredOK,
         NEW t \in Threads, Cleanup(t)
  PROVE  RetiredOK'
<1>0. /\ \A u \in Threads \ {t} : pc'[u] = pc[u]
      /\ \A label : Goto(t, label) => pc'[t] = label
      /\ UNCHANGED <<owner, stack, created>>
  <2>1. pc \in [Threads -> {"idle"} \cup ResolveLabels \cup CleanupLabels]
    BY DEF TypeOK
  <2>2. QED
    BY <2>1, CleanupMoves DEF Goto
<1>1. ASSUME NEW k \in Tokens, Unregister(t, k) PROVE RetiredOK'
  <2>1. /\ UNCHANGED <<provider, registrations, retired>>
        /\ \A u \in Threads \ {t} : target'[u] = target[u]
    BY <1>1 DEF Unregister, TypeOK, registry
  <2>2. pc'[t] \in {"begin", "commit"}
    BY <1>0, <1>1 DEF Unregister
  <2>3. QED
    BY <1>0, <2>1, <2>2, RetiredKept
<1>2. ASSUME NEW k \in Tokens, Register(t, k) PROVE RetiredOK'
  <2>1. /\ UNCHANGED <<provider, registrations, retired>>
        /\ \A u \in Threads \ {t} : target'[u] = target[u]
    BY <1>2 DEF Register, TypeOK, registry
  <2>2. pc'[t] \in {"begin", "commit"}
    BY <1>0, <1>2 DEF Register
  <2>3. QED
    BY <1>0, <2>1, <2>2, RetiredKept
<1>3. ASSUME Shutdown(t) PROVE RetiredOK'
  <2>1. UNCHANGED <<provider, registrations, retired, target>>
    BY <1>3 DEF Shutdown, registry
  <2>2. pc'[t] \in {"disposals", "join"}
    BY <1>0, <1>3, Zenon DEF Shutdown
  <2>3. QED
    BY <1>0, <2>1, <2>2, RetiredKept
<1>4. ASSUME ClaimDisposal(t) PROVE RetiredOK'
  <2>1. /\ UNCHANGED <<provider, registrations, retired>> /\ pc'[t] # "drain"
        /\ \A u \in Threads \ {t} : target'[u] = target[u]
    BY <1>0, <1>4 DEF ClaimDisposal, Idle, TypeOK, registry
  <2>2. QED
    BY <1>0, <2>1 DEF RetiredOK, Gone
<1>5. ASSUME Retire(t) PROVE RetiredOK'
  <2>1. /\ UNCHANGED <<provider, registrations, target>> /\ retired \subseteq retired'
        /\ provider[target[t]] # 0 => <<target[t], provider[target[t]]>> \in retired'
    BY <1>5 DEF Retire, registry
  <2>2. QED
    BY <1>0, <2>1, RetiredKept
<1>6. ASSUME Detach(t) PROVE RetiredOK'
  <2>1. PICK k \in Tokens :
          /\ k = target[t] /\ GateIdle(k)
          /\ provider' = [provider EXCEPT ![k] = 0]
          /\ UNCHANGED <<registrations, retired, target>>
    BY <1>6, DetachStep
  <2>2. pc[t] = "drain" /\ pc'[t] = "close"
    BY <1>0, <1>6 DEF Detach
  <2>3. provider'[k] = 0 /\ \A l \in Tokens \ {k} : provider'[l] = provider[l]
    BY <2>1 DEF TypeOK
  <2>4. \A l \in Tokens : provider'[l] <= registrations'[l]
    <3>1. registrations[k] \in Numbers \cup {0}
      BY DEF TypeOK
    <3>2. 0 <= registrations[k]
      BY <3>1 DEF Numbers, ContainerAssumption
    <3>3. QED
      BY <2>1, <2>3, <3>2 DEF RetiredOK
  <2>5. ASSUME NEW l \in Tokens, NEW n \in Numbers, n <= registrations[l], n # provider'[l]
        PROVE  Gone(l, n)'
    <3>1. CASE n # provider[l]
      BY <1>0, <2>1, <2>5, <3>1 DEF RetiredOK, Gone
    <3>2. CASE n = provider[l]
      <4>1. l = k /\ provider[k] # 0
        BY <2>3, <2>5, <3>2 DEF Numbers
      <4>2. Gone(l, n)
        BY <2>1, <2>2, <3>2, <4>1 DEF RetiredOK, Gone, GateIdle
      <4>3. QED
        BY <1>0, <2>1, <4>2 DEF Gone
    <3>3. QED
      BY <3>1, <3>2
  <2>6. ASSUME NEW u \in Threads, pc'[u] = "drain", provider'[target[u]] # 0
        PROVE  <<target[u], provider'[target[u]]>> \in retired
    <3>1. u # t /\ pc[u] = "drain"
      BY <1>0, <2>2, <2>6
    <3>2. target[u] \in Tokens \ {k}
      BY <2>1, <2>2, <3>1 DEF RolesOK, Disposes
    <3>3. QED
      BY <2>3, <2>6, <3>1, <3>2 DEF RetiredOK
  <2>7. QED
    BY <1>0, <2>1, <2>4, <2>5, <2>6 DEF RetiredOK
<1>7. ASSUME EndUnregister(t) PROVE RetiredOK'
  <2>1. UNCHANGED <<provider, registrations, retired>>
    BY <1>7 DEF EndUnregister, registry
  <2>2. \A u \in Threads \ {t} : target'[u] = target[u]
    BY <1>7 DEF EndUnregister, Idle, TypeOK
  <2>3. pc'[t] \in {"commit", "idle"}
    BY <1>0, <1>7, Zenon DEF EndUnregister, Idle
  <2>4. QED
    BY <1>0, <2>1, <2>2, <2>3, RetiredKept
<1>8. ASSUME Join(t) PROVE RetiredOK'
  <2>1. /\ UNCHANGED <<provider, registrations, retired>> /\ pc'[t] # "drain"
        /\ \A u \in Threads \ {t} : target'[u] = target[u]
    BY <1>0, <1>8 DEF Join, Idle, TypeOK, registry
  <2>2. QED
    BY <1>0, <2>1 DEF RetiredOK, Gone
<1>9. ASSUME Commit(t) PROVE RetiredOK'
  <2>1. /\ UNCHANGED retired /\ pc'[t] = "idle"
        /\ \A u \in Threads \ {t} : target'[u] = target[u]
    BY <1>0, <1>9 DEF Commit, Idle, TypeOK
  <2>2. CASE UNCHANGED <<provider, registrations>>
    BY <1>0, <2>1, <2>2 DEF RetiredOK, Gone
  <2>3. CASE ~UNCHANGED <<provider, registrations>>
    <3>1. PICK k \in Tokens :
            /\ provider[k] = 0 /\ k \notin disposals
            /\ provider' = [provider EXCEPT ![k] = registrations[k] + 1]
            /\ registrations' = [registrations EXCEPT ![k] = @ + 1]
      BY <1>9, <2>3 DEF Commit, RolesOK, registry
    <3>2. PICK r \in Nat : r = registrations[k]
      <4>1. registrations[k] \in Numbers \cup {0}
        BY DEF TypeOK
      <4>2. QED
        BY <4>1 DEF Numbers, ContainerAssumption
    <3>3. /\ provider'[k] = r + 1 /\ registrations'[k] = r + 1
          /\ \A l \in Tokens \ {k} :
               provider'[l] = provider[l] /\ registrations'[l] = registrations[l]
      BY <3>1, <3>2 DEF TypeOK
    <3>4. \A l \in Tokens : provider'[l] <= registrations'[l]
      <4>1. \A l \in Tokens : provider[l] <= registrations[l]
        BY DEF RetiredOK
      <4>2. r + 1 <= r + 1
        BY <3>2
      <4>3. QED
        BY <3>3, <4>1, <4>2
    <3>5. ASSUME NEW l \in Tokens, NEW n \in Numbers, n <= registrations'[l], n # provider'[l]
          PROVE  Gone(l, n)'
      <4>1. n <= registrations[l] /\ n # provider[l]
        <5>1. CASE l # k
          BY <3>3, <3>5, <5>1
        <5>2. CASE l = k
          BY <3>1, <3>2, <3>3, <3>5, <5>2 DEF Numbers
        <5>3. QED
          BY <5>1, <5>2
      <4>2. QED
        BY <1>0, <2>1, <4>1 DEF RetiredOK, Gone
    <3>6. ASSUME NEW u \in Threads, NEW i \in DOMAIN stack[u]
          PROVE  stack[u][i].provider[2] <= registrations'[stack[u][i].provider[1]]
      <4>1. stack[u][i].provider \in Providers
        BY TypesOfGates, FramesOfOthers
      <4>2. PICK q \in Providers : q = stack[u][i].provider
        BY <4>1
      <4>3. q[1] \in Tokens /\ q[2] \in Nat /\ q[2] <= registrations[q[1]]
        BY <4>2 DEF RetiredOK, Providers, Numbers
      <4>4. q[2] <= registrations'[q[1]]
        <5>1. registrations'[q[1]] = registrations[q[1]] \/ registrations'[q[1]] = registrations[q[1]] + 1
          BY <3>2, <3>3, <4>3
        <5>2. PICK m : m = registrations[q[1]]
          OBVIOUS
        <5>3. m \in Nat
          <6>1. m \in Numbers \cup {0}
            BY <4>3, <5>2 DEF TypeOK
          <6>2. QED
            BY <6>1 DEF Numbers, ContainerAssumption
        <5>4. q[2] <= m /\ q[2] <= m + 1
          BY <4>3, <5>2, <5>3
        <5>5. QED
          BY <5>1, <5>2, <5>4
      <4>5. QED
        BY <4>2, <4>4
    <3>7. ASSUME NEW u \in Threads, pc'[u] = "drain", provider'[target'[u]] # 0
          PROVE  <<target'[u], provider'[target'[u]]>> \in retired'
      <4>1. u # t /\ pc[u] = "drain" /\ target'[u] = target[u]
        BY <1>0, <2>1, <3>7
      <4>2. target[u] \in Tokens \ {k}
        BY <3>1, <4>1 DEF RolesOK, Disposes
      <4>3. provider'[target'[u]] = provider[target[u]]
        BY <3>3, <4>1, <4>2
      <4>4. <<target[u], provider[target[u]]>> \in retired
        BY <3>7, <4>1, <4>3 DEF RetiredOK
      <4>5. QED
        BY <2>1, <4>1, <4>3, <4>4
    <3>8. QED
      BY <1>0, <2>1, <3>4, <3>5, <3>6, <3>7 DEF RetiredOK
  <2>4. QED
    BY <2>2, <2>3
<1>10. ASSUME SeeDisposals(t) PROVE RetiredOK'
  <2>1. UNCHANGED <<provider, registrations, target>> /\ retired \subseteq retired'
    BY <1>10 DEF SeeDisposals, registry
  <2>2. pc'[t] = "wait_disposals"
    BY <1>0, <1>10 DEF SeeDisposals
  <2>3. QED
    BY <1>0, <2>1, <2>2, RetiredKept
<1>11. ASSUME DisposalsDone(t) PROVE RetiredOK'
  <2>1. UNCHANGED <<provider, registrations, target>> /\ retired \subseteq retired'
    BY <1>11 DEF DisposalsDone, registry
  <2>2. pc'[t] = "retire_all"
    BY <1>0, <1>11 DEF DisposalsDone
  <2>3. QED
    BY <1>0, <2>1, <2>2, RetiredKept
<1>12. ASSUME DisposalFailed(t) PROVE RetiredOK'
  <2>1. UNCHANGED <<provider, registrations, target>> /\ retired \subseteq retired'
    BY <1>12 DEF DisposalFailed, registry
  <2>2. pc'[t] = "idle"
    BY <1>0, <1>12 DEF DisposalFailed
  <2>3. QED
    BY <1>0, <2>1, <2>2, RetiredKept
<1>13. ASSUME NEW k \in Tokens, RetireNext(t, k) PROVE RetiredOK'
  <2>1. UNCHANGED <<provider, registrations, target>> /\ retired \subseteq retired'
    BY <1>13 DEF RetireNext, registry
  <2>2. pc'[t] # "drain"
    BY <1>13 DEF RetireNext
  <2>3. QED
    BY <1>0, <2>1, <2>2, RetiredKept
<1>14. ASSUME DetachAll(t) PROVE RetiredOK'
  <2>1. UNCHANGED <<provider, registrations, target>> /\ retired \subseteq retired'
    BY <1>14 DEF DetachAll, registry
  <2>2. pc'[t] = "close"
    BY <1>0, <1>14 DEF DetachAll
  <2>3. QED
    BY <1>0, <2>1, <2>2, RetiredKept
<1>15. ASSUME EndShutdown(t) PROVE RetiredOK'
  <2>1. UNCHANGED <<provider, registrations, target>> /\ retired \subseteq retired'
    BY <1>15 DEF EndShutdown, registry
  <2>2. pc'[t] = "idle"
    BY <1>0, <1>15 DEF EndShutdown
  <2>3. QED
    BY <1>0, <2>1, <2>2, RetiredKept
<1>16. ASSUME NEW i \in toClose[t], CloseReturns(t, i) PROVE RetiredOK'
  <2>1. UNCHANGED <<provider, registrations, target>> /\ retired \subseteq retired'
    BY <1>16 DEF CloseReturns, registry
  <2>2. pc'[t] # "drain"
    BY <1>16 DEF CloseReturns
  <2>3. QED
    BY <1>0, <2>1, <2>2, RetiredKept
<1>17. ASSUME NEW i \in toClose[t], CloseRaises(t, i) PROVE RetiredOK'
  <2>1. UNCHANGED <<provider, registrations, target>> /\ retired \subseteq retired'
    BY <1>17 DEF CloseRaises, registry
  <2>2. pc'[t] # "drain"
    BY <1>17 DEF CloseRaises
  <2>3. QED
    BY <1>0, <2>1, <2>2, RetiredKept
<1>18. QED
  BY <1>1, <1>2, <1>3, <1>4, <1>5, <1>6, <1>7, <1>8, <1>9, <1>10, <1>11, <1>12, <1>13,
     <1>14, <1>15, <1>16, <1>17 DEF Cleanup, CleanupStep

\* A shutdown waits for the disposals it found, no other begins, and it takes what
\* is left.
LEMMA ShutdownOfCleanup ==
  ASSUME TypeOK, RolesOK, ClaimsOK, RetiredOK, ShutdownOK, NoThread \notin Threads,
         NEW t \in Threads, Cleanup(t)
  PROVE  ShutdownOK'
<1>0. /\ \A u \in Threads \ {t} : pc'[u] = pc[u]
      /\ \A label : Goto(t, label) => pc'[t] = label
      /\ UNCHANGED <<owner, stack, created>>
  <2>1. pc \in [Threads -> {"idle"} \cup ResolveLabels \cup CleanupLabels]
    BY DEF TypeOK
  <2>2. QED
    BY <2>1, CleanupMoves DEF Goto
<1>1. ASSUME NEW k \in Tokens, Unregister(t, k) PROVE ShutdownOK'
  BY <1>0, <1>1 DEF Unregister, TypeOK, ShutdownOK, ShutsDown, AllGone, Gone, registry,
     tracker, lifetime, claims, joins
<1>2. ASSUME NEW k \in Tokens, Register(t, k) PROVE ShutdownOK'
  BY <1>0, <1>2 DEF Register, TypeOK, ShutdownOK, ShutsDown, AllGone, Gone, Open,
     registry, tracker, lifetime, claims, joins
<1>3. ASSUME Shutdown(t) PROVE ShutdownOK'
  BY <1>0, <1>3 DEF Shutdown, TypeOK, ShutdownOK, ShutsDown, AllGone, Gone, registry,
     tracker, claims
<1>4. ASSUME ClaimDisposal(t) PROVE ShutdownOK'
  <2>1. UNCHANGED <<provider, retired, tracked, disposed, shutter, closed,
                  toRetire, toClose, unclosed>>
    BY <1>4 DEF ClaimDisposal, registry, tracker, lifetime, claims
  <2>2. CASE ~Open
    <3>1. pc'[t] = "idle" /\ UNCHANGED <<disposals, awaits>>
      BY <1>0, <1>4, <2>2 DEF ClaimDisposal, Idle
    <3>2. QED
      BY <1>0, <2>1, <3>1 DEF ShutdownOK, ShutsDown, AllGone, Gone
  <2>3. CASE Open
    <3>1. pc'[t] \in {"retire", "join"} /\ ~closed /\ shutter = NoThread
      BY <1>0, <1>4, <2>3 DEF ClaimDisposal, Open
    <3>2. \A u \in Threads : pc'[u] \notin {"wait_disposals", "retire_all"} /\ ~ShutsDown(u)'
      BY <1>0, <2>1, <3>1 DEF RolesOK, ShutsDown
    <3>3. QED
      BY <1>0, <2>1, <3>1, <3>2 DEF ShutdownOK
  <2>4. QED
    BY <2>2, <2>3
<1>5. ASSUME Retire(t) PROVE ShutdownOK'
  BY <1>0, <1>5 DEF Retire, TypeOK, ShutdownOK, ShutsDown, AllGone, Gone, registry,
     tracker, lifetime, claims, joins
<1>6. ASSUME Detach(t) PROVE ShutdownOK'
  <2>1. /\ pc[t] = "drain" /\ pc'[t] = "close" /\ disposals # {}
        /\ UNCHANGED <<retired, tracked, disposed, shutter, closed, disposals, awaits>>
    BY <1>0, <1>6 DEF Detach, RolesOK, Disposes, lifetime, joins
  <2>2. ~closed /\ \A u \in Threads : pc[u] # "retire_all" /\ ~ShutsDown(u)
    BY <2>1 DEF ShutdownOK
  <2>3. shutter # t
    BY <2>1 DEF RolesOK
  <2>4. \A u \in Threads : pc'[u] # "retire_all" /\ ~ShutsDown(u)'
    BY <1>0, <2>1, <2>2, <2>3 DEF ShutsDown
  <2>5. \A u \in Threads : pc'[u] = "wait_disposals" => pc[u] = "wait_disposals"
    BY <1>0, <2>1
  <2>6. QED
    BY <1>0, <2>1, <2>2, <2>4, <2>5 DEF ShutdownOK
<1>7. ASSUME EndUnregister(t) PROVE ShutdownOK'
  <2>1. PICK k \in Tokens :
          /\ k \in disposals /\ disposals' = disposals \ {k}
          /\ \A u \in Threads : awaits'[u] = awaits[u] \ {k}
    BY <1>7 DEF EndUnregister, Announce, RolesOK, Disposes
  <2>2. /\ UNCHANGED <<tracked, disposed, shutter, closed>> /\ shutter # t
        /\ pc'[t] \in {"commit", "idle"}
    BY <1>0, <1>7 DEF EndUnregister, Idle, tracker, lifetime
  <2>3. ~closed /\ \A u \in Threads : pc[u] # "retire_all" /\ ~ShutsDown(u)
    BY <2>1 DEF ShutdownOK
  <2>4. \A u \in Threads : pc'[u] # "retire_all" /\ ~ShutsDown(u)'
    BY <1>0, <2>2, <2>3 DEF ShutsDown
  <2>5. \A u \in Threads : pc'[u] = "wait_disposals" => pc[u] = "wait_disposals"
    BY <1>0, <2>2
  <2>6. \A u \in Threads : pc'[u] = "wait_disposals" => disposals' \subseteq awaits'[u]
    BY <2>1, <2>5 DEF ShutdownOK
  <2>7. QED
    BY <1>0, <2>2, <2>3, <2>4, <2>6 DEF ShutdownOK
<1>8. ASSUME Join(t) PROVE ShutdownOK'
  BY <1>0, <1>8 DEF Join, Idle, TypeOK, ShutdownOK, ShutsDown, AllGone, Gone, registry,
     tracker, lifetime, claims
<1>9. ASSUME Commit(t) PROVE ShutdownOK'
  <2>1. /\ pc'[t] = "idle"
        /\ UNCHANGED <<retired, tracked, disposed, shutter, closed, disposals, toRetire,
                       toClose, unclosed, awaits>>
    BY <1>0, <1>9 DEF Commit, Idle, tracker, lifetime, claims, joins
  <2>2. CASE UNCHANGED provider
    BY <1>0, <2>1, <2>2 DEF ShutdownOK, ShutsDown, AllGone, Gone
  <2>3. CASE ~UNCHANGED provider
    <3>1. ~closed /\ shutter = NoThread
      BY <1>9, <2>3 DEF Commit, Open, registry
    <3>2. \A u \in Threads : pc'[u] \notin {"wait_disposals", "retire_all"} /\ ~ShutsDown(u)'
      BY <1>0, <2>1, <3>1 DEF RolesOK, ShutsDown
    <3>3. QED
      BY <1>0, <2>1, <3>1, <3>2 DEF ShutdownOK
  <2>4. QED
    BY <2>2, <2>3
<1>10. ASSUME SeeDisposals(t) PROVE ShutdownOK'
  BY <1>0, <1>10 DEF SeeDisposals, TypeOK, ShutdownOK, ShutsDown, AllGone, Gone, registry,
     tracker, lifetime, claims
<1>11. ASSUME DisposalsDone(t) PROVE ShutdownOK'
  BY <1>0, <1>11 DEF DisposalsDone, TypeOK, ShutdownOK, ShutsDown, AllGone, Gone,
     registry, tracker, lifetime, joins
<1>12. ASSUME DisposalFailed(t) PROVE ShutdownOK'
  <2>1. /\ pc[t] = "wait_disposals" /\ pc'[t] = "idle" /\ shutter = t
        /\ UNCHANGED <<tracked, disposed, closed>>
    BY <1>0, <1>12 DEF DisposalFailed, RolesOK, tracker
  <2>2. ~closed
    BY <2>1 DEF ShutdownOK
  <2>3. shutter' = NoThread
    BY <1>12 DEF DisposalFailed
  <2>4. \A u \in Threads : pc'[u] \notin {"wait_disposals", "retire_all"} /\ ~ShutsDown(u)'
    BY <1>0, <2>1, <2>3 DEF RolesOK, ShutsDown
  <2>5. QED
    BY <1>0, <2>1, <2>2, <2>4 DEF ShutdownOK
<1>13. ASSUME NEW k \in Tokens, RetireNext(t, k) PROVE ShutdownOK'
  BY <1>0, <1>13 DEF RetireNext, TypeOK, ShutdownOK, ShutsDown, AllGone, Gone, registry,
     tracker, lifetime, joins
<1>14. ASSUME DetachAll(t) PROVE ShutdownOK'
  <2>1. /\ pc[t] = "retire_all" /\ pc'[t] = "close" /\ shutter = t
        /\ toRetire[t] = {} /\ RetiredIdle(t)
        /\ UNCHANGED <<provider, retired, tracked, disposed, shutter, closed, disposals>>
    BY <1>0, <1>14 DEF DetachAll, RolesOK, registry, lifetime
  <2>2. disposals = {} /\ ~closed
    BY <2>1 DEF ShutdownOK
  <2>3. AllGone
    BY <2>1 DEF AllGone, Gone, RetiredIdle, GateIdle, ShutdownOK
  <2>4. disposing = {}
    <3>1. SUFFICES ASSUME NEW i \in disposing PROVE FALSE
      OBVIOUS
    <3>2. PICK u \in Threads : i \in toClose[u]
      BY DEF ClaimsOK
    <3>3. pc[u] = "close" /\ u # t
      BY <2>1, <3>2 DEF ClaimsOK
    <3>4. target[u] \in disposals
      BY <2>1, <3>3 DEF RolesOK, Disposes
    <3>5. QED
      BY <2>2, <3>4
  <2>5. toClose'[t] = tracked
    BY <1>14, <2>4 DEF DetachAll, ClaimToClose, TypeOK
  <2>6. \A u \in Threads \ {t} : pc'[u] \notin {"wait_disposals", "retire_all"} /\ ~ShutsDown(u)'
    BY <1>0, <2>1 DEF RolesOK, ShutsDown
  <2>7. AllGone'
    BY <1>0, <2>1, <2>3 DEF AllGone, Gone
  <2>8. QED
    BY <1>0, <2>1, <2>2, <2>5, <2>6, <2>7 DEF ShutdownOK
<1>15. ASSUME EndShutdown(t) PROVE ShutdownOK'
  BY <1>0, <1>15 DEF EndShutdown, TypeOK, ShutdownOK, ShutsDown, AllGone, Gone, registry,
     tracker
<1>16. ASSUME NEW i \in toClose[t], CloseReturns(t, i) PROVE ShutdownOK'
  BY <1>0, <1>16 DEF CloseReturns, TypeOK, ShutdownOK, ShutsDown, AllGone, Gone, registry,
     lifetime, joins
<1>17. ASSUME NEW i \in toClose[t], CloseRaises(t, i) PROVE ShutdownOK'
  BY <1>0, <1>17 DEF CloseRaises, TypeOK, ShutdownOK, ShutsDown, AllGone, Gone, registry,
     lifetime, joins
<1>18. QED
  BY <1>1, <1>2, <1>3, <1>4, <1>5, <1>6, <1>7, <1>8, <1>9, <1>10, <1>11, <1>12, <1>13,
     <1>14, <1>15, <1>16, <1>17 DEF Cleanup, CleanupStep

-------------------------------------------------------------------------------
\* The theorems.

\* The invariant holds initially ...
LEMMA DInit == ContainerAssumption /\ Init => DInv
<1> SUFFICES ASSUME ContainerAssumption, Init PROVE DInv
  OBVIOUS
<1>1. TypeOK
  <2>1. 1 \in Numbers
    BY DEF Numbers, ContainerAssumption
  <2>2. <<>> \in Seq([provider : Providers, at : Nat])
    OBVIOUS
  <2>3. stack \in [Threads -> Seq([provider : Providers, at : Nat])]
    BY <2>2 DEF Init
  <2>4. pc \in [Threads -> {"idle"} \cup ResolveLabels \cup CleanupLabels]
    BY DEF Init
  <2>5. /\ provider \in [Tokens -> Numbers \cup {0}]
        /\ registrations \in [Tokens -> Numbers \cup {0}]
    BY <2>1 DEF Init
  <2>6. /\ cached \in [Tokens -> Instances \cup {NoInstance}]
        /\ created \in [Providers -> Nat]
        /\ owner \in [Providers -> Threads \cup {NoThread}]
    BY DEF Init
  <2>7. /\ toRetire \in [Threads -> SUBSET Tokens]
        /\ toClose \in [Threads -> SUBSET Instances]
        /\ unclosed \in [Threads -> SUBSET Instances]
        /\ awaits \in [Threads -> SUBSET (Tokens \cup {ShutdownDone})]
        /\ pending \in [Tokens -> SUBSET Instances]
    BY DEF Init
  <2>8. QED
    BY <2>3, <2>4, <2>5, <2>6, <2>7 DEF Init, TypeOK
<1>2. GatesOK
  BY DEF Init, GatesOK, StacksOK, OwnersResolve, CreatorOwnsGate, ResolveLabels,
     ContainerAssumption
<1>3. RolesOK
  BY DEF Init, RolesOK, Disposes, ContainerAssumption
<1>4. InstancesOK /\ ClaimsOK
  BY DEF Init, InstancesOK, ClaimsOK, Disposes
<1>5. RetiredOK
  BY DEF Init, RetiredOK, Gone, Numbers
<1>6. ShutdownOK
  BY DEF Init, ShutdownOK, ShutsDown
<1>7. QED
  BY <1>1, <1>2, <1>3, <1>4, <1>5, <1>6 DEF DInv

\* ... and every step keeps it.
LEMMA DStep == ContainerAssumption /\ DInv /\ [Next]_vars => DInv'
<1> SUFFICES ASSUME ContainerAssumption, DInv, [Next]_vars PROVE DInv'
  OBVIOUS
<1> USE DEF DInv
<1>1. NoThread \notin Threads
  BY DEF ContainerAssumption
<1>2. CASE UNCHANGED vars
  <2>1. /\ UNCHANGED registry /\ UNCHANGED instances /\ UNCHANGED gates /\ UNCHANGED tracker
        /\ UNCHANGED <<disposals, pending, pc, stack, target, replaces>>
        /\ UNCHANGED lifetime /\ UNCHANGED claims /\ UNCHANGED joins
    BY <1>2 DEF vars
  <2>2. UNCHANGED <<provider, registrations, cached, created, owner, retired, waitsFor,
                    tracked, disposing, disposed, disposals, pending, shutter, closed,
                    cleanupFailed, pc, stack, target, replaces, toRetire, toClose,
                    unclosed, awaits, error>>
    BY <2>1 DEF registry, instances, gates, tracker, lifetime, claims, joins
  <2>3. TypeOK'
    BY <2>2 DEF TypeOK
  <2>4. GatesOK'
    BY <2>2 DEF GatesOK, StacksOK, OwnersResolve, CreatorOwnsGate, InCreation
  <2>5. RolesOK' /\ InstancesOK' /\ ClaimsOK'
    BY <2>2 DEF RolesOK, InstancesOK, ClaimsOK, Disposes
  <2>6. RetiredOK' /\ ShutdownOK'
    BY <2>2 DEF RetiredOK, ShutdownOK, ShutsDown, AllGone, Gone
  <2>7. QED
    BY <2>3, <2>4, <2>5, <2>6
<1>3. ASSUME NEW t \in Threads, Resolution(t) PROVE DInv'
  <2>1. GatesOK' /\ ResolvesOnly(t) /\ TakesOpenGates /\ ResolvesRegistered(t)
    BY <1>3, ResolutionStep
  <2>2. TypeOK'
    BY <1>3, TypesOfResolution
  <2>3. RolesOK' /\ ClaimsOK' /\ InstancesOK' /\ RetiredOK' /\ ShutdownOK'
    BY <2>1, RolesOfResolution, ClaimsOfResolution, InstancesOfResolution,
       RetiredOfResolution, ShutdownOfResolution
  <2>4. QED
    BY <2>1, <2>2, <2>3
<1>4. ASSUME NEW t \in Threads, Cleanup(t) PROVE DInv'
  BY <1>1, <1>4, TypesOfCleanup, GatesOfCleanup, RolesOfCleanup, InstancesOfCleanup,
     ClaimsOfCleanup, RetiredOfCleanup, ShutdownOfCleanup
<1>5. QED
  BY <1>2, <1>3, <1>4, Zenon DEF Next, Resolution, Cleanup

\* The invariant that the theorems follow from: gates and stacks agree, everybody
\* who disposes of a token has claimed it, and what was replaced stays retired.
THEOREM ContainerInvariant == Spec => []DInv
<1>1. QED
  BY ContainerAssumption, DInit, DStep, PTL DEF Spec

\* The variables of the container keep their types: in particular the shutdown
\* retires only gates of registered providers (DependencyContainer._retire_all).
THEOREM TypeCorrect == Spec => []TypeOK
<1>1. DInv => TypeOK
  BY DEF DInv
<1>2. QED
  BY <1>1, ContainerInvariant, PTL

\* Who creates an instance owns the gate of its provider, so that no two threads
\* create for the same provider (InitializationGate).
THEOREM OneCreator == Spec => []CreatorOwnsGate
<1>1. DInv => CreatorOwnsGate
  BY DEF DInv, GatesOK
<1>2. QED
  BY <1>1, ContainerInvariant, PTL

\* What resolve() can return is owned by the container and not being closed.
THEOREM NothingClosedIsServed == Spec => []CachedIsAlive
<1>1. DInv => CachedIsAlive
  BY DEF DInv, InstancesOK, CachedIsAlive
<1>2. QED
  BY <1>1, ContainerInvariant, PTL

\* No instance is closed twice, whoever unregisters or shuts down
\* (ResourceTracker.claim).
THEOREM ClosedOnce == Spec => []ClosesOnce
<1>1. DInv => ClosesOnce
  BY DEF DInv, InstancesOK, ClaimsOK, ClosesOnce
<1>2. QED
  BY <1>1, ContainerInvariant, PTL

\* A container that counts as closed has closed all it created (shutdown()).
THEOREM ClosedIsEmpty == Spec => []ClosedMeansDisposed
<1>1. DInv => ClosedMeansDisposed
  BY DEF DInv, ShutdownOK, ClosedMeansDisposed
<1>2. QED
  BY <1>1, ContainerInvariant, PTL

===============================================================================
