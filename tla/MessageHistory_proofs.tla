------------------------- MODULE MessageHistory_proofs -------------------------
(***************************************************************************)
(* What flush(), query(), clear() and close() promise, the order of what   *)
(* is stored, and the end of a failed attachment: for every capacity,      *)
(* batch size and retention limit, and any number of clients.              *)
(***************************************************************************)
EXTENDS MessageHistory, SequenceTheorems, TLAPS

\* The types of what the promises are about: everything but the attachments.
CoreType ==
  /\ written \in Seq(Nat) /\ cleared \subseteq Nat
  /\ queue \in Seq(Nat) /\ batch \in Seq(Nat) /\ accepted \in Seq(Nat)
  /\ processed \in Nat /\ delivered \in Nat
  /\ pc \in [Clients -> {"idle", "link", "register", "cancel", "flush", "flushed",
                        "join", "check"}]
  /\ call \in [Clients -> {"flush", "query", "clear", "close"}]
  /\ boundary \in [Clients -> Nat]

\* Every record append() took is worked through, in the writer's hands or
\* queued, in this order.
InLine ==
  /\ Len(accepted) = processed + Len(batch) + Len(queue)
  /\ \A i \in 1..Len(batch) : batch[i] = accepted[processed + i]
  /\ \A i \in 1..Len(queue) : queue[i] = accepted[processed + Len(batch) + i]

\* What the writer holds in each place; a history without a writer has nothing
\* queued.
WriterHolds ==
  /\ kind = "memory" => queue = <<>> /\ batch = <<>> /\ writer = "wait" /\ ~stopping
  /\ writer \in {"wait", "ended"} => batch = <<>>
  /\ writer = "ended" => queue = <<>> /\ stopping
  /\ writer = "settle" => failure \/ Settled(processed + Len(batch))

\* What was worked through is settled, unless the failure says otherwise.
ProcessedIsSettled == failure \/ Settled(processed)

\* A history is closed after its writer has ended, and a close() that flushes
\* has seen it end.
ClosedAfterWriter ==
  /\ closed => kind = "memory" \/ writer = "ended"
  /\ \A c \in Clients :
       pc[c] \in {"flush", "flushed"} /\ call[c] = "close" => writer = "ended"

FlushedIsSettled ==
  \A c \in Clients :
    pc[c] = "flushed" => boundary[c] <= processed /\ Settled(boundary[c])

\* What a reopened database starts from.
StoredType == stored \in Seq(Nat)

\* The inductive invariant, together with StoredType.
HInv ==
  /\ CoreType /\ InLine /\ WriterHolds /\ ProcessedIsSettled /\ ClosedAfterWriter
  /\ FlushedIsSettled

-------------------------------------------------------------------------------
\* A prefix stays settled: append() adds at the end of accepted, and what was
\* stored stays stored or becomes what clear() deleted.
Grows ==
  /\ Len(accepted) <= Len(accepted')
  /\ \A i \in 1..Len(accepted) : accepted'[i] = accepted[i]
  /\ Elements(written) \cup cleared \subseteq Elements(written') \cup cleared'

LEMMA SettledKept ==
  ASSUME CoreType, Grows, NEW n \in Nat, n <= Len(accepted), Settled(n)
  PROVE  \A i \in 1..n : accepted'[i] \in Elements(written') \cup cleared'
<1>1. SUFFICES ASSUME NEW i \in 1..n
               PROVE  accepted'[i] \in Elements(written') \cup cleared'
  OBVIOUS
<1>2. Len(accepted) \in Nat
  BY DEF CoreType
<1>3. i \in 1..Len(accepted)
  BY <1>2
<1>4. accepted'[i] = accepted[i] /\ accepted[i] \in Elements(written) \cup cleared
  BY <1>3 DEF Grows, Settled
<1>5. QED
  BY <1>4 DEF Grows

\* A shorter prefix of a settled one is settled.
LEMMA SettledPrefix ==
  ASSUME NEW m \in Nat, NEW n \in Nat, m <= n, Settled(n)
  PROVE  Settled(m)
  BY DEF Settled

\* What a client may still rely on: its boundary was passed, and stays passed.
LEMMA FlushedKept ==
  ASSUME HInv, Grows, processed' \in Nat, processed <= processed',
         NEW c \in Clients, pc[c] = "flushed", boundary'[c] = boundary[c]
  PROVE  boundary'[c] <= processed' /\ Settled(boundary[c])'
<1>1. boundary[c] \in Nat /\ boundary[c] <= processed /\ Settled(boundary[c])
  BY DEF HInv, CoreType, FlushedIsSettled
<1>2. processed \in Nat /\ Len(accepted) \in Nat /\ Len(batch) \in Nat /\ Len(queue) \in Nat
  BY DEF HInv, CoreType
<1>3. boundary[c] <= Len(accepted)
  BY <1>1, <1>2 DEF HInv, InLine
<1>4. \A i \in 1..boundary[c] : accepted'[i] \in Elements(written') \cup cleared'
  BY <1>1, <1>3, SettledKept DEF HInv
<1>5. QED
  BY <1>1, <1>2, <1>4 DEF Settled

-------------------------------------------------------------------------------
\* The steps that touch neither the writer nor what is stored: the clients' own
\* places, and the attachments.
core == <<kind, written, cleared, closed, queue, batch, accepted, processed,
          failure, stopping, writer>>

LEMMA CoreKept ==
  ASSUME HInv, UNCHANGED core, delivered' \in Nat,
         pc' \in [Clients -> {"idle", "link", "register", "cancel", "flush",
                             "flushed", "join", "check"}],
         call' \in [Clients -> {"flush", "query", "clear", "close"}],
         boundary' \in [Clients -> Nat],
         \A c \in Clients :
           pc'[c] \in {"flush", "flushed"} /\ call'[c] = "close" => writer = "ended",
         \A c \in Clients :
           pc'[c] = "flushed" => boundary'[c] <= processed /\ (Settled(boundary[c]))'
  PROVE  HInv'
<1>1. CoreType'
  BY DEF HInv, CoreType, core
<1>2. InLine' /\ ProcessedIsSettled' /\ WriterHolds'
  BY DEF HInv, InLine, ProcessedIsSettled, WriterHolds, Settled, core
<1>3. ClosedAfterWriter'
  BY DEF HInv, ClosedAfterWriter, core
<1>4. FlushedIsSettled'
  BY DEF FlushedIsSettled, core
<1>5. QED
  BY <1>1, <1>2, <1>3, <1>4 DEF HInv

\* The router's steps that append nothing, and the clients' that attach and detach.
LEMMA QuietStep ==
  ASSUME HInv, Deliver \/ Report \/ Detach \/ FinishDetach \/ UNCHANGED vars
  PROVE  HInv'
<1>1. /\ UNCHANGED core /\ pc' = pc /\ call' = call /\ boundary' = boundary
      /\ delivered' \in Nat
  BY DEF HInv, CoreType, Deliver, Report, Detach, FinishDetach, vars, store, thread,
         ingress, clients, core
<1>2. \A c \in Clients :
        pc[c] = "flushed" => boundary'[c] <= processed /\ Settled(boundary[c])'
  BY <1>1 DEF HInv, FlushedIsSettled, Settled, core
<1>3. QED
  BY <1>1, <1>2, CoreKept DEF HInv, CoreType, ClosedAfterWriter

LEMMA AttachStep ==
  ASSUME HInv, NEW c \in Clients,
         Attach(c) \/ Link(c) \/ Register(c) \/ Cancel(c) \/ FinishCancel(c)
  PROVE  HInv'
<1>1. /\ UNCHANGED core /\ call' = call /\ boundary' = boundary
      /\ delivered' \in Nat
  BY DEF HInv, CoreType, Attach, Link, Register, Cancel, FinishCancel, store, thread,
         ingress, clients, core
<1>2. PICK label \in {"link", "register", "idle", "cancel"} :
        pc' = [pc EXCEPT ![c] = label]
  BY DEF Attach, Link, Register, Cancel, FinishCancel, Goto
<1>3. /\ pc' \in [Clients -> {"idle", "link", "register", "cancel", "flush",
                             "flushed", "join", "check"}]
      /\ \A d \in Clients : pc'[d] \in {"flush", "flushed"} => pc'[d] = pc[d]
  BY <1>2 DEF HInv, CoreType
<1>4. \A d \in Clients :
        pc'[d] = "flushed" => boundary'[d] <= processed /\ Settled(boundary[d])'
  BY <1>1, <1>3 DEF HInv, FlushedIsSettled, Settled, core
<1>5. QED
  BY <1>1, <1>3, <1>4, CoreKept DEF HInv, CoreType, ClosedAfterWriter

\* The clients' steps towards a flush, and those that end in a raise.
LEMMA FlushStep ==
  ASSUME HInv, NEW c \in Clients,
         \/ Operation(c) \/ FlushPasses(c) \/ FlushTimesOut(c)
         \/ Joined(c) \/ JoinTimesOut(c)
  PROVE  HInv'
<1>1. UNCHANGED core /\ delivered' \in Nat
  BY DEF HInv, CoreType, Operation, FlushPasses, FlushTimesOut, Joined, JoinTimesOut,
         store, thread, ingress, core
<1>2. Len(accepted) \in Nat
  BY DEF HInv, CoreType
<1>3. /\ pc' \in [Clients -> {"idle", "link", "register", "cancel", "flush",
                             "flushed", "join", "check"}]
      /\ call' \in [Clients -> {"flush", "query", "clear", "close"}]
      /\ boundary' \in [Clients -> Nat]
  <2>1. CASE Operation(c)
    BY <1>2, <2>1 DEF HInv, CoreType, Operation, BeginFlush, Goto
  <2>0. ASSUME FlushRaises(c)
        PROVE  /\ pc' \in [Clients -> {"idle", "link", "register", "cancel", "flush",
                                       "flushed", "join", "check"}]
               /\ call' \in [Clients -> {"flush", "query", "clear", "close"}]
               /\ boundary' \in [Clients -> Nat]
    <3>1. CASE Goto(c, "check") /\ UNCHANGED <<call, boundary>>
      BY <3>1 DEF HInv, CoreType, Goto
    <3>2. CASE Return(c)
      BY <3>2 DEF HInv, CoreType, Goto, Return
    <3>3. QED
      BY <2>0, <3>1, <3>2 DEF FlushRaises
  <2>2. CASE FlushPasses(c)
    <3>1. CASE Goto(c, "flushed") /\ UNCHANGED <<call, boundary>>
      BY <3>1 DEF HInv, CoreType, Goto
    <3>2. QED
      BY <2>0, <2>2, <3>1 DEF FlushPasses
  <2>3. CASE FlushTimesOut(c)
    BY <2>0, <2>3 DEF FlushTimesOut
  <2>4. CASE Joined(c)
    BY <1>2, <2>4 DEF HInv, CoreType, Joined, BeginFlush, Goto
  <2>5. CASE JoinTimesOut(c)
    BY <2>5 DEF HInv, CoreType, JoinTimesOut, Goto
  <2>6. QED
    BY <2>1, <2>2, <2>3, <2>4, <2>5
<1>4. \A d \in Clients \ {c} :
        pc'[d] = pc[d] /\ call'[d] = call[d] /\ boundary'[d] = boundary[d]
  BY DEF HInv, CoreType, Operation, FlushPasses, FlushTimesOut, Joined,
     JoinTimesOut, FlushRaises, BeginFlush, Goto, Return
<1>5. /\ pc'[c] \in {"flush", "flushed"} /\ call'[c] = "close" => writer = "ended"
      /\ pc'[c] = "flushed" =>
           processed >= boundary[c] /\ ~failure /\ boundary'[c] = boundary[c]
  BY DEF HInv, CoreType, ClosedAfterWriter, Operation, FlushPasses, FlushTimesOut,
     Joined, JoinTimesOut, FlushRaises, BeginFlush, Goto, Return
<1>6. ASSUME NEW d \in Clients, pc'[d] = "flushed"
      PROVE  boundary'[d] <= processed /\ Settled(boundary[d])'
  <2>1. boundary'[d] <= processed /\ Settled(boundary[d]) /\ boundary'[d] = boundary[d]
    <3>1. CASE d = c
      <4>1. boundary[c] \in Nat /\ processed \in Nat /\ boundary[c] <= processed
        BY <1>5, <1>6, <3>1 DEF HInv, CoreType
      <4>2. Settled(processed)
        BY <1>5, <1>6, <3>1 DEF HInv, ProcessedIsSettled
      <4>3. QED
        BY <1>5, <1>6, <3>1, <4>1, <4>2, SettledPrefix
    <3>2. CASE d # c
      BY <1>4, <1>6, <3>2 DEF HInv, FlushedIsSettled
    <3>3. QED
      BY <3>1, <3>2
  <2>2. QED
    BY <1>1, <2>1 DEF Settled, core
<1>7. \A d \in Clients :
        pc'[d] \in {"flush", "flushed"} /\ call'[d] = "close" => writer = "ended"
  BY <1>4, <1>5 DEF HInv, ClosedAfterWriter
<1>8. QED
  BY <1>1, <1>3, <1>6, <1>7, CoreKept

-------------------------------------------------------------------------------
\* The steps of the writer, and of the router's thread that appends.  None of
\* them moves a client, so what a client may rely on is kept if records only grow.
LEMMA ClientsKept ==
  ASSUME HInv, Grows, processed' \in Nat, processed <= processed',
         UNCHANGED <<pc, call, boundary>>, kind' = kind, closed' = closed,
         writer = "ended" => writer' = "ended"
  PROVE  FlushedIsSettled' /\ ClosedAfterWriter'
<1>1. FlushedIsSettled'
  <2>1. SUFFICES ASSUME NEW c \in Clients, pc'[c] = "flushed"
                 PROVE  boundary'[c] <= processed' /\ Settled(boundary[c])'
    BY DEF FlushedIsSettled
  <2>2. QED
    BY <2>1, FlushedKept
<1>2. ClosedAfterWriter'
  BY DEF HInv, ClosedAfterWriter
<1>3. QED
  BY <1>1, <1>2

LEMMA TakeStep == ASSUME HInv, HistoryAssumption, Take PROVE HInv'
<1>1. PICK n \in Nat :
        /\ n <= Len(queue)
        /\ batch' = SubSeq(queue, 1, n) /\ queue' = SubSeq(queue, n + 1, Len(queue))
  <2>1. Len(queue) \in Nat /\ BatchSize \in Nat
    BY DEF HInv, CoreType, HistoryAssumption
  <2>2. /\ Least(Len(queue), BatchSize) \in Nat
        /\ Least(Len(queue), BatchSize) <= Len(queue)
    BY <2>1 DEF Least
  <2>3. QED
    BY <2>2 DEF Take
<1>2. /\ batch = <<>> /\ writer = "wait" /\ kind # "memory" /\ writer' = "write"
      /\ UNCHANGED <<kind, written, cleared, closed, accepted, processed, failure,
                     stopping, delivered, pc, call, boundary>>
  BY DEF HInv, WriterHolds, Take, store, ingress, clients
<1>3. /\ batch' \in Seq(Nat) /\ Len(batch') = n
      /\ \A i \in 1..n : batch'[i] = queue[i]
  BY <1>1 DEF HInv, CoreType
<1>4. /\ queue' \in Seq(Nat) /\ Len(queue') = Len(queue) - n
      /\ \A i \in 1..(Len(queue) - n) : queue'[i] = queue[n + i]
  BY <1>1 DEF HInv, CoreType
<1>5. CoreType'
  BY <1>2, <1>3, <1>4 DEF HInv, CoreType
<1>6. InLine'
  <2>1. /\ processed \in Nat /\ Len(queue) \in Nat /\ Len(batch) = 0
        /\ Len(accepted) = processed + Len(queue)
        /\ \A i \in 1..Len(queue) : queue[i] = accepted[processed + i]
    BY <1>2 DEF HInv, CoreType, InLine
  <2>2. ASSUME NEW i \in 1..n PROVE batch'[i] = accepted[processed + i]
    <3>1. i \in 1..Len(queue)
      BY <1>1, <2>1
    <3>2. QED
      BY <1>3, <2>1, <3>1
  <2>3. \A i \in 1..(Len(queue) - n) : queue'[i] = accepted[processed + n + i]
    <3>1. TAKE i \in 1..(Len(queue) - n)
    <3>2. n + i \in 1..Len(queue)
      BY <1>1, <2>1
    <3>3. queue'[i] = accepted[processed + (n + i)]
      BY <1>4, <2>1, <3>2
    <3>4. QED
      BY <2>1, <3>3
  <2>4. /\ Len(batch') = n /\ Len(queue') = Len(queue) - n
        /\ accepted' = accepted /\ processed' = processed
    BY <1>2, <1>3, <1>4
  <2>5. Len(accepted') = processed' + Len(batch') + Len(queue')
    BY <2>1, <2>4
  <2>6. \A i \in 1..Len(batch') : batch'[i] = accepted'[processed' + i]
    BY <2>2, <2>4
  <2>7. \A i \in 1..Len(queue') : queue'[i] = accepted'[processed' + Len(batch') + i]
    BY <2>3, <2>4
  <2>8. QED
    BY <2>5, <2>6, <2>7 DEF InLine
<1>7. WriterHolds' /\ ProcessedIsSettled'
  BY <1>2 DEF HInv, WriterHolds, ProcessedIsSettled, Settled
<1>8. Grows
  BY <1>2 DEF HInv, CoreType, Grows
<1>9. QED
  BY <1>2, <1>5, <1>6, <1>7, <1>8, ClientsKept DEF HInv, CoreType

\* What was stored stays stored when a batch follows it.
LEMMA ElementsKept ==
  ASSUME NEW s \in Seq(Nat), NEW t \in Seq(Nat), Len(s) <= Len(t),
         \A i \in 1..Len(s) : t[i] = s[i]
  PROVE  Elements(s) \subseteq Elements(t)
<1>1. SUFFICES ASSUME NEW x \in Elements(s) PROVE x \in Elements(t)
  OBVIOUS
<1>2. PICK i \in DOMAIN s : x = s[i]
  BY DEF Elements
<1>3. i \in 1..Len(s) /\ i \in DOMAIN t
  OBVIOUS
<1>4. QED
  BY <1>2, <1>3 DEF Elements

LEMMA WriteBatchStep == ASSUME HInv, WriteBatch PROVE HInv'
<1>1. /\ writer = "write" /\ writer' = "settle" /\ written' = written \o batch
      /\ UNCHANGED <<kind, cleared, closed, queue, batch, accepted, processed,
                     failure, stopping, delivered, pc, call, boundary>>
  BY DEF WriteBatch, Store, ingress, clients
<1>2. /\ written' \in Seq(Nat) /\ Len(written') = Len(written) + Len(batch)
      /\ \A i \in 1..Len(written) : written'[i] = written[i]
      /\ \A i \in 1..Len(batch) : written'[Len(written) + i] = batch[i]
  BY <1>1 DEF HInv, CoreType
<1>3. Elements(written) \subseteq Elements(written')
  <2>1. written \in Seq(Nat) /\ Len(written) \in Nat /\ Len(batch) \in Nat
    BY DEF HInv, CoreType
  <2>2. written' \in Seq(Nat) /\ Len(written) <= Len(written')
    BY <1>2, <2>1
  <2>3. \A i \in 1..Len(written) : written'[i] = written[i]
    BY <1>2
  <2>4. QED
    BY <2>1, <2>2, <2>3, ElementsKept
<1>4. Elements(batch) \subseteq Elements(written')
  <2>1. SUFFICES ASSUME NEW i \in 1..Len(batch) PROVE batch[i] \in Elements(written')
    BY DEF HInv, CoreType, Elements
  <2>2. Len(written) + i \in DOMAIN written'
    BY <1>2 DEF HInv, CoreType
  <2>3. QED
    BY <1>2, <2>2 DEF Elements
<1>5. Grows
  BY <1>1, <1>3 DEF HInv, CoreType, Grows
<1>6. CoreType' /\ InLine'
  BY <1>1, <1>2 DEF HInv, CoreType, InLine
<1>7. ASSUME ~failure
      PROVE  /\ \A i \in 1..processed : accepted'[i] \in Elements(written') \cup cleared'
             /\ \A i \in 1..(processed + Len(batch)) :
                  accepted'[i] \in Elements(written') \cup cleared'
  <2>1. /\ processed \in Nat /\ Len(batch) \in Nat /\ Len(queue) \in Nat
        /\ processed <= Len(accepted)
    BY DEF HInv, CoreType, InLine
  <2>2. \A i \in 1..processed : accepted'[i] \in Elements(written') \cup cleared'
    <3>1. CoreType /\ Settled(processed)
      BY <1>7 DEF HInv, ProcessedIsSettled
    <3>2. QED
      BY <1>5, <2>1, <3>1, SettledKept
  <2>3. ASSUME NEW i \in 1..Len(batch)
        PROVE  accepted'[processed + i] \in Elements(written')
    <3>1. batch[i] = accepted[processed + i] /\ batch[i] \in Elements(batch)
      BY DEF HInv, CoreType, InLine, Elements
    <3>2. QED
      BY <1>1, <1>4, <3>1
  <2>4. ASSUME NEW i \in 1..(processed + Len(batch)), ~(i <= processed)
        PROVE  accepted'[i] \in Elements(written')
    <3>1. i - processed \in 1..Len(batch) /\ processed + (i - processed) = i
      BY <2>1, <2>4
    <3>2. QED
      BY <2>3, <3>1
  <2>5. QED
    BY <2>1, <2>2, <2>4
<1>8. ProcessedIsSettled' /\ WriterHolds'
  BY <1>1, <1>7 DEF HInv, ProcessedIsSettled, WriterHolds, Settled
<1>9. QED
  BY <1>1, <1>5, <1>6, <1>8, ClientsKept DEF HInv, CoreType

LEMMA WriteFailsStep == ASSUME HInv, WriteFails PROVE HInv'
<1>1. /\ writer = "write" /\ writer' = "settle" /\ failure'
      /\ UNCHANGED <<kind, written, cleared, closed, queue, batch, accepted, processed,
                     stopping, delivered, pc, call, boundary>>
  BY DEF WriteFails, store, ingress, clients
<1>2. CoreType' /\ InLine' /\ Grows
  BY <1>1 DEF HInv, CoreType, InLine, Grows
<1>3. ProcessedIsSettled' /\ WriterHolds'
  BY <1>1 DEF HInv, ProcessedIsSettled, WriterHolds
<1>4. QED
  BY <1>1, <1>2, <1>3, ClientsKept DEF HInv, CoreType

LEMMA SettleStep == ASSUME HInv, Settle PROVE HInv'
<1>1. /\ writer = "settle" /\ writer' = "wait" /\ kind # "memory"
      /\ processed' = processed + Len(batch) /\ batch' = <<>>
      /\ UNCHANGED <<kind, written, cleared, closed, queue, accepted, failure,
                     stopping, delivered, pc, call, boundary>>
  BY DEF HInv, WriterHolds, Settle, store, ingress, clients
<1>2. /\ batch' \in Seq(Nat) /\ Len(batch') = 0 /\ processed' \in Nat
      /\ processed <= processed'
  BY <1>1 DEF HInv, CoreType
<1>3. CoreType' /\ Grows
  BY <1>1, <1>2 DEF HInv, CoreType, Grows
<1>4. InLine'
  <2>1. /\ Len(accepted') = processed' + Len(batch') + Len(queue')
        /\ \A i \in 1..Len(queue') : queue'[i] = accepted'[processed' + Len(batch') + i]
    <3>1. processed' + Len(batch') = processed + Len(batch)
      BY <1>1, <1>2 DEF HInv, CoreType
    <3>2. QED
      BY <1>1, <3>1 DEF HInv, InLine
  <2>2. \A i \in 1..Len(batch') : batch'[i] = accepted'[processed' + i]
    BY <1>2
  <2>3. QED
    BY <2>1, <2>2 DEF InLine
<1>5. ProcessedIsSettled' /\ WriterHolds'
  BY <1>1 DEF HInv, ProcessedIsSettled, WriterHolds, Settled
<1>6. QED
  BY <1>1, <1>2, <1>3, <1>4, <1>5, ClientsKept DEF HInv, CoreType

LEMMA EndWriterStep == ASSUME HInv, EndWriter PROVE HInv'
<1>1. /\ writer = "wait" /\ writer' = "ended" /\ queue = <<>> /\ stopping
      /\ UNCHANGED <<kind, written, cleared, closed, queue, batch, accepted, processed,
                     failure, stopping, delivered, pc, call, boundary>>
  BY DEF EndWriter, store, ingress, clients
<1>2. CoreType' /\ InLine' /\ Grows
  BY <1>1 DEF HInv, CoreType, InLine, Grows
<1>3. ProcessedIsSettled' /\ WriterHolds'
  BY <1>1 DEF HInv, ProcessedIsSettled, WriterHolds, Settled
<1>4. QED
  BY <1>1, <1>2, <1>3, ClientsKept DEF HInv, CoreType

\* What append() does to the records: one more at the end, or none.
LEMMA AcceptedGrows ==
  ASSUME NEW s \in Seq(Nat), NEW r \in Nat
  PROVE  /\ Append(s, r) \in Seq(Nat) /\ Len(Append(s, r)) = Len(s) + 1
         /\ \A i \in 1..Len(s) : Append(s, r)[i] = s[i]
         /\ Append(s, r)[Len(s) + 1] = r
  OBVIOUS

LEMMA SubmitStep == ASSUME HInv, Submit PROVE HInv'
<1>1. /\ kind # "memory"
      /\ UNCHANGED <<kind, written, cleared, closed, batch, processed, stopping, writer,
                     delivered, pc, call, boundary>>
  BY DEF Submit, store, clients
<1>2. CASE UNCHANGED <<queue, accepted>> /\ (failure => failure')
  <2>1. CoreType' /\ InLine' /\ Grows
    BY <1>1, <1>2 DEF HInv, CoreType, InLine, Grows
  <2>2. ProcessedIsSettled' /\ WriterHolds'
    BY <1>1, <1>2 DEF HInv, ProcessedIsSettled, WriterHolds, Settled
  <2>3. QED
    BY <1>1, <2>1, <2>2, ClientsKept DEF HInv, CoreType
<1>3. CASE /\ queue' = Append(queue, delivered) /\ accepted' = Append(accepted, delivered)
           /\ ~stopping /\ failure' = failure
  <2>1. /\ queue' \in Seq(Nat) /\ Len(queue') = Len(queue) + 1
        /\ \A i \in 1..Len(queue) : queue'[i] = queue[i]
        /\ queue'[Len(queue) + 1] = delivered
    BY <1>3, AcceptedGrows DEF HInv, CoreType
  <2>2. /\ accepted' \in Seq(Nat) /\ Len(accepted') = Len(accepted) + 1
        /\ \A i \in 1..Len(accepted) : accepted'[i] = accepted[i]
        /\ accepted'[Len(accepted) + 1] = delivered
    BY <1>3, AcceptedGrows DEF HInv, CoreType
  <2>3. /\ processed \in Nat /\ Len(batch) \in Nat /\ Len(queue) \in Nat
        /\ Len(accepted) = processed + Len(batch) + Len(queue)
    BY DEF HInv, CoreType, InLine
  <2>4. CoreType' /\ Grows
    <3>1. CoreType'
      BY <1>1, <2>1, <2>2 DEF HInv, CoreType
    <3>2. Len(accepted) <= Len(accepted')
      BY <2>2, <2>3
    <3>3. Grows
      BY <1>1, <2>2, <3>2 DEF Grows
    <3>4. QED
      BY <3>1, <3>3
  <2>5. InLine'
    <3>1. ASSUME NEW i \in 1..Len(batch)
          PROVE  batch'[i] = accepted'[processed' + i]
      <4>1. processed + i \in 1..Len(accepted)
        BY <2>3
      <4>2. batch[i] = accepted[processed + i]
        BY DEF HInv, InLine
      <4>3. QED
        BY <1>1, <2>2, <4>1, <4>2
    <3>2. ASSUME NEW i \in 1..Len(queue')
          PROVE  queue'[i] = accepted'[processed' + Len(batch') + i]
      <4>1. CASE i \in 1..Len(queue)
        <5>1. processed + Len(batch) + i \in 1..Len(accepted)
          BY <2>3, <4>1
        <5>2. queue[i] = accepted[processed + Len(batch) + i]
          BY <4>1 DEF HInv, InLine
        <5>3. QED
          BY <1>1, <2>1, <2>2, <4>1, <5>1, <5>2
      <4>2. CASE i = Len(queue) + 1
        <5>1. processed + Len(batch) + i = Len(accepted) + 1
          BY <2>3, <4>2
        <5>2. QED
          BY <1>1, <2>1, <2>2, <4>2, <5>1
      <4>3. QED
        BY <2>1, <2>3, <3>2, <4>1, <4>2
    <3>3. QED
      BY <1>1, <2>1, <2>2, <2>3, <3>1, <3>2 DEF InLine
  <2>6. ASSUME NEW n \in Nat, n <= Len(accepted), Settled(n)
        PROVE  Settled(n)'
    BY <1>1, <2>2, <2>3, <2>6 DEF Settled
  <2>7. ProcessedIsSettled' /\ WriterHolds'
    <3>1. /\ processed \in Nat /\ processed <= Len(accepted)
          /\ processed + Len(batch) \in Nat /\ processed + Len(batch) <= Len(accepted)
      BY <2>3
    <3>2. Settled(processed) => Settled(processed)'
      BY <1>1, <2>6, <3>1 DEF Settled
    <3>3. Settled(processed + Len(batch)) => Settled(processed + Len(batch))'
      BY <1>1, <2>6, <3>1 DEF Settled
    <3>4. ProcessedIsSettled'
      BY <1>3, <3>2 DEF HInv, ProcessedIsSettled
    <3>5. WriterHolds'
      BY <1>1, <1>3, <3>3 DEF HInv, WriterHolds
    <3>6. QED
      BY <3>4, <3>5
  <2>8. QED
    BY <1>1, <2>3, <2>4, <2>5, <2>7, ClientsKept DEF HInv, CoreType
<1>4. QED
  BY <1>2, <1>3 DEF Submit, Fails

LEMMA AppendNowStep == ASSUME HInv, AppendNow PROVE HInv'
<1>1. /\ kind = "memory" /\ queue = <<>> /\ batch = <<>> /\ writer = "wait" /\ ~stopping
      /\ UNCHANGED <<kind, cleared, closed, queue, batch, failure, stopping, writer,
                     delivered, pc, call, boundary>>
  BY DEF HInv, WriterHolds, AppendNow, Store, store, clients
<1>2. CASE UNCHANGED <<written, accepted, processed>>
  <2>1. CoreType' /\ InLine' /\ Grows
    BY <1>1, <1>2 DEF HInv, CoreType, InLine, Grows
  <2>2. ProcessedIsSettled' /\ WriterHolds'
    BY <1>1, <1>2 DEF HInv, ProcessedIsSettled, WriterHolds, Settled
  <2>3. QED
    BY <1>1, <1>2, <2>1, <2>2, ClientsKept DEF HInv, CoreType
<1>3. CASE /\ written' = written \o <<delivered>>
           /\ accepted' = Append(accepted, delivered) /\ processed' = processed + 1
  <2>1. /\ accepted' \in Seq(Nat) /\ Len(accepted') = Len(accepted) + 1
        /\ \A i \in 1..Len(accepted) : accepted'[i] = accepted[i]
        /\ accepted'[Len(accepted) + 1] = delivered
    BY <1>3, AcceptedGrows DEF HInv, CoreType
  <2>2. /\ written' \in Seq(Nat) /\ Len(written') = Len(written) + 1
        /\ \A i \in 1..Len(written) : written'[i] = written[i]
        /\ written'[Len(written) + 1] = delivered
    BY <1>3 DEF HInv, CoreType
  <2>3. /\ processed \in Nat /\ Len(accepted) = processed /\ Len(written) \in Nat
        /\ Len(batch) = 0 /\ Len(queue) = 0
    BY <1>1 DEF HInv, CoreType, InLine
  <2>4. delivered \in Elements(written')
    <3>1. Len(written) + 1 \in DOMAIN written'
      BY <2>2, <2>3
    <3>2. QED
      BY <2>2, <3>1 DEF Elements
  <2>5. Elements(written) \subseteq Elements(written')
    <3>1. written \in Seq(Nat) /\ Len(written) <= Len(written')
      BY <2>2, <2>3 DEF HInv, CoreType
    <3>2. QED
      BY <2>2, <3>1, ElementsKept
  <2>6. CoreType' /\ InLine'
    BY <1>1, <1>3, <2>1, <2>2, <2>3 DEF HInv, CoreType, InLine
  <2>7. Grows
    BY <1>1, <2>1, <2>3, <2>5 DEF Grows
  <2>8. ASSUME ~failure
        PROVE  \A i \in 1..(processed + 1) : accepted'[i] \in Elements(written') \cup cleared'
    <3>1. \A i \in 1..processed : accepted'[i] \in Elements(written') \cup cleared'
      BY <2>3, <2>7, <2>8, SettledKept DEF HInv, ProcessedIsSettled
    <3>2. accepted'[processed + 1] \in Elements(written')
      BY <2>1, <2>3, <2>4
    <3>3. QED
      BY <2>3, <3>1, <3>2
  <2>9. ProcessedIsSettled' /\ WriterHolds'
    BY <1>1, <1>3, <2>8 DEF HInv, ProcessedIsSettled, WriterHolds, Settled
  <2>10. QED
    BY <1>1, <1>3, <2>3, <2>6, <2>7, <2>9, ClientsKept DEF HInv, CoreType
<1>4. QED
  BY <1>2, <1>3 DEF AppendNow, Store, store

-------------------------------------------------------------------------------
\* The clients' steps that change what is stored, or close the history.
LEMMA ReturnType ==
  ASSUME HInv, NEW c \in Clients, Return(c)
  PROVE  /\ pc' \in [Clients -> {"idle", "link", "register", "cancel", "flush",
                                "flushed", "join", "check"}]
         /\ call' \in [Clients -> {"flush", "query", "clear", "close"}]
         /\ boundary' \in [Clients -> Nat]
         /\ pc'[c] = "idle"
         /\ \A d \in Clients \ {c} :
              pc'[d] = pc[d] /\ call'[d] = call[d] /\ boundary'[d] = boundary[d]
  BY DEF HInv, CoreType, Return, Goto

\* A client that returned relies on nothing; for the others records only grow.
LEMMA OthersKept ==
  ASSUME HInv, NEW c \in Clients, Return(c), Grows, UNCHANGED <<kind, processed, writer>>,
         closed' => closed \/ kind = "memory" \/ writer = "ended"
  PROVE  FlushedIsSettled' /\ ClosedAfterWriter'
<1>1. FlushedIsSettled'
  <2>1. SUFFICES ASSUME NEW d \in Clients, pc'[d] = "flushed"
                 PROVE  boundary'[d] <= processed' /\ Settled(boundary[d])'
    BY DEF FlushedIsSettled
  <2>2. d # c /\ pc[d] = "flushed" /\ boundary'[d] = boundary[d]
    BY <2>1, ReturnType
  <2>3. processed' \in Nat /\ processed <= processed'
    BY DEF HInv, CoreType
  <2>4. QED
    BY <2>2, <2>3, FlushedKept
<1>2. ClosedAfterWriter'
  BY ReturnType DEF HInv, ClosedAfterWriter
<1>3. QED
  BY <1>1, <1>2

LEMMA CompleteStep == ASSUME HInv, NEW c \in Clients, Complete(c) PROVE HInv'
<1>1. /\ Return(c) /\ pc[c] = "flushed"
      /\ UNCHANGED <<kind, queue, batch, accepted, processed, failure, stopping, writer,
                     delivered>>
  BY DEF Complete, thread, ingress
<1>2. /\ written' \in Seq(Nat) /\ cleared' \subseteq Nat
      /\ Elements(written) \cup cleared \subseteq Elements(written') \cup cleared'
  <2>1. CASE written' = <<>> /\ cleared' = cleared \cup Elements(written)
    <3>1. Elements(written) \subseteq Nat
      BY DEF HInv, CoreType, Elements
    <3>2. written' \in Seq(Nat)
      BY <2>1
    <3>3. QED
      BY <2>1, <3>1, <3>2 DEF HInv, CoreType
  <2>2. CASE written' = written /\ cleared' = cleared
    BY <2>2 DEF HInv, CoreType
  <2>3. QED
    BY <2>1, <2>2 DEF Complete, store
<1>3. closed' => closed \/ kind = "memory" \/ writer = "ended"
  BY DEF HInv, ClosedAfterWriter, Complete, store
<1>4. Grows
  BY <1>1, <1>2 DEF HInv, CoreType, Grows
<1>5. CoreType' /\ InLine'
  BY <1>1, <1>2, ReturnType DEF HInv, CoreType, InLine
<1>6. ASSUME NEW n \in Nat, n <= Len(accepted), Settled(n)
      PROVE  Settled(n)'
  BY <1>4, <1>6, SettledKept DEF HInv, Settled
<1>7. ProcessedIsSettled' /\ WriterHolds'
  <2>1. /\ processed \in Nat /\ processed <= Len(accepted)
        /\ processed + Len(batch) \in Nat /\ processed + Len(batch) <= Len(accepted)
    BY DEF HInv, CoreType, InLine
  <2>2. failure \/ (Settled(processed))'
    BY <1>1, <1>6, <2>1 DEF HInv, ProcessedIsSettled, Settled
  <2>3. writer = "settle" => failure \/ (Settled(processed + Len(batch)))'
    BY <1>1, <1>6, <2>1 DEF HInv, WriterHolds, Settled
  <2>4. QED
    BY <1>1, <2>2, <2>3 DEF HInv, ProcessedIsSettled, WriterHolds
<1>8. QED
  BY <1>1, <1>3, <1>4, <1>5, <1>7, OthersKept DEF HInv

LEMMA CloseStep ==
  ASSUME HInv, NEW c \in Clients, CloseMemory(c) \/ Close(c) \/ CheckWriter(c)
  PROVE  HInv'
<1>1. /\ UNCHANGED <<kind, written, cleared, queue, batch, accepted, processed, failure,
                     writer, delivered>>
      /\ closed' => closed \/ kind = "memory" \/ writer = "ended"
      /\ stopping => stopping'
      /\ kind = "memory" => stopping' = stopping
  <2>1. CASE CloseMemory(c)
    BY <2>1 DEF CloseMemory, thread, ingress
  <2>2. CASE Close(c)
    <3>1. kind # "memory" /\ stopping' = TRUE /\ closed' = closed
      BY <2>2 DEF Close, store
    <3>2. UNCHANGED <<kind, written, cleared, queue, batch, accepted, processed,
                      failure, writer, delivered>>
      BY <2>2 DEF Close, store, ingress
    <3>3. QED
      BY <3>1, <3>2
  <2>3. CASE CheckWriter(c)
    BY <2>3 DEF CheckWriter, thread, ingress
  <2>4. QED
    BY <2>1, <2>2, <2>3
<1>2. /\ pc' \in [Clients -> {"idle", "link", "register", "cancel", "flush",
                             "flushed", "join", "check"}]
      /\ call' \in [Clients -> {"flush", "query", "clear", "close"}]
      /\ boundary' \in [Clients -> Nat]
      /\ \A d \in Clients : pc'[d] \in {"flush", "flushed"} =>
           pc'[d] = pc[d] /\ call'[d] = call[d] /\ boundary'[d] = boundary[d]
  <2>1. CASE CloseMemory(c)
    BY <2>1 DEF HInv, CoreType, CloseMemory, clients
  <2>2. CASE Close(c)
    BY <2>2 DEF HInv, CoreType, Close, Goto
  <2>3. CASE CheckWriter(c)
    <3>1. Return(c)
      BY <2>3 DEF CheckWriter
    <3>2. QED
      BY <3>1, ReturnType
  <2>4. QED
    BY <2>1, <2>2, <2>3
<1>3. CoreType' /\ InLine' /\ Grows
  BY <1>1, <1>2 DEF HInv, CoreType, InLine, Grows
<1>4. ProcessedIsSettled' /\ WriterHolds'
  BY <1>1 DEF HInv, ProcessedIsSettled, WriterHolds, Settled
<1>5. ClosedAfterWriter'
  BY <1>1, <1>2 DEF HInv, ClosedAfterWriter
<1>6. FlushedIsSettled'
  BY <1>1, <1>2 DEF HInv, FlushedIsSettled, Settled
<1>7. QED
  BY <1>3, <1>4, <1>5, <1>6 DEF HInv

-------------------------------------------------------------------------------
\* The newest records of a history are records.
LEMMA TrimType ==
  ASSUME HistoryAssumption, NEW s \in Seq(Nat)
  PROVE  Trim(s) \in Seq(Nat)
<1>1. CASE Len(s) <= Limit
  BY <1>1 DEF Trim
<1>2. CASE ~(Len(s) <= Limit)
  <2>1. Len(s) - Limit + 1 \in 1..Len(s)
    BY <1>2 DEF HistoryAssumption
  <2>2. SubSeq(s, Len(s) - Limit + 1, Len(s)) \in Seq(Nat)
    BY <2>1
  <2>3. QED
    BY <1>2, <2>2 DEF Trim
<1>3. QED
  BY <1>1, <1>2

LEMMA StoredTypeStep ==
  ASSUME HistoryAssumption, HInv, StoredType, [Next]_vars PROVE StoredType'
<1>1. ASSUME NEW more \in Seq(Nat), Store(more) PROVE StoredType'
  <2>1. stored \o more \in Seq(Nat)
    BY DEF StoredType
  <2>2. QED
    BY <1>1, <2>1, TrimType DEF Store, StoredType
<1>2. CASE WriteBatch
  BY <1>1, <1>2 DEF WriteBatch, HInv, CoreType
<1>3. CASE AppendNow
  <2>1. <<delivered>> \in Seq(Nat)
    BY DEF HInv, CoreType
  <2>2. QED
    BY <1>1, <1>3, <2>1 DEF AppendNow, StoredType, store
<1>4. CASE Reopen
  BY <1>4, TrimType DEF Reopen, Opened, StoredType
<1>5. CASE Take \/ WriteFails \/ Settle \/ EndWriter
  BY <1>5 DEF Take, WriteFails, Settle, EndWriter, store, StoredType
<1>6. CASE Deliver \/ Submit \/ Report \/ Detach \/ FinishDetach \/ UNCHANGED vars
  BY <1>6 DEF Deliver, Submit, Report, Detach, FinishDetach, vars, store, StoredType
<1>7. ASSUME NEW c \in Clients, ClientStep(c) PROVE StoredType'
  <2>1. CASE Attach(c) \/ Link(c) \/ Register(c) \/ Cancel(c) \/ FinishCancel(c)
    BY <2>1 DEF Attach, Link, Register, Cancel, FinishCancel, store, StoredType
  <2>2. CASE Operation(c) \/ FlushPasses(c) \/ FlushTimesOut(c) \/ Joined(c)
             \/ JoinTimesOut(c)
    BY <2>2 DEF Operation, FlushPasses, FlushTimesOut, Joined, JoinTimesOut, store,
       StoredType
  <2>3. CASE Complete(c)
    <3>1. stored' = <<>> \/ stored' = stored
      BY <2>3 DEF Complete, store
    <3>2. <<>> \in Seq(Nat)
      OBVIOUS
    <3>3. QED
      BY <3>1, <3>2 DEF StoredType
  <2>4. CASE CloseMemory(c) \/ Close(c) \/ CheckWriter(c)
    BY <2>4 DEF CloseMemory, Close, CheckWriter, store, StoredType
  <2>5. QED
    BY <1>7, <2>1, <2>2, <2>3, <2>4 DEF ClientStep
<1>8. QED
  BY <1>2, <1>3, <1>4, <1>5, <1>6, <1>7 DEF Next, WriterStep, RouterStep

LEMMA InitHolds == ASSUME Init PROVE HInv
<1>1. CoreType
  BY DEF Init, WriterInit, CoreType
<1>2. InLine /\ ProcessedIsSettled
  BY DEF Init, WriterInit, InLine, ProcessedIsSettled, Settled
<1>3. WriterHolds /\ ClosedAfterWriter /\ FlushedIsSettled
  BY DEF Init, WriterInit, WriterHolds, ClosedAfterWriter, FlushedIsSettled
<1>4. QED
  BY <1>1, <1>2, <1>3 DEF HInv

LEMMA ReopenStep == ASSUME HistoryAssumption, HInv, StoredType, Reopen PROVE HInv'
<1>1. /\ written' \in Seq(Nat) /\ cleared' = {} /\ ~closed' /\ kind' = "sqlite"
      /\ queue' = <<>> /\ batch' = <<>> /\ accepted' = <<>> /\ processed' = 0
      /\ failure' = FALSE /\ stopping' = FALSE /\ writer' = "wait"
      /\ delivered' = delivered
      /\ pc' = [c \in Clients |-> "idle"] /\ call' = [c \in Clients |-> "flush"]
      /\ boundary' = [c \in Clients |-> 0]
  BY TrimType DEF Reopen, Opened, StoredType
<1>2. CoreType'
  BY <1>1 DEF HInv, CoreType
<1>3. InLine' /\ ProcessedIsSettled'
  BY <1>1 DEF InLine, ProcessedIsSettled, Settled
<1>4. WriterHolds' /\ ClosedAfterWriter' /\ FlushedIsSettled'
  BY <1>1 DEF WriterHolds, ClosedAfterWriter, FlushedIsSettled
<1>5. QED
  BY <1>2, <1>3, <1>4 DEF HInv

LEMMA StepHolds ==
  ASSUME HistoryAssumption, HInv, StoredType, [Next]_vars PROVE HInv'
<1>1. CASE WriterStep
  BY <1>1, TakeStep, WriteBatchStep, WriteFailsStep, SettleStep, EndWriterStep
     DEF WriterStep
<1>2. CASE RouterStep
  BY <1>2, QuietStep, SubmitStep, AppendNowStep DEF RouterStep
<1>3. ASSUME NEW c \in Clients, ClientStep(c) PROVE HInv'
  BY <1>3, AttachStep, FlushStep, CompleteStep, CloseStep DEF ClientStep
<1>4. CASE Reopen
  BY <1>4, ReopenStep
<1>5. CASE UNCHANGED vars
  BY <1>5, QuietStep
<1>6. QED
  BY <1>1, <1>2, <1>3, <1>4, <1>5 DEF Next

\* HInv is an invariant: what was appended is stored, deleted by clear(), in the
\* hands of the writer, queued, or lost with a failure that says so
\* (recording.py:63-107).
THEOREM HistoryInvariant == Spec => [](HInv /\ StoredType)
<1>1. Init => HInv /\ StoredType
  <2>1. ASSUME Init PROVE stored = <<>>
    BY <2>1 DEF Init
  <2>2. <<>> \in Seq(Nat)
    OBVIOUS
  <2>3. QED
    BY <2>1, <2>2, InitHolds DEF StoredType
<1>2. (HInv /\ StoredType) /\ [Next]_vars => (HInv /\ StoredType)'
  BY HistoryAssumption, StepHolds, StoredTypeStep
<1>3. QED
  BY <1>1, <1>2, PTL DEF Spec

\* The failure of a history says whether anything is missing that its writer has
\* worked through (recording.py:1, 93-107).
THEOREM LossReported == Spec => []LossIsReported
<1>1. HInv => LossIsReported
  BY DEF HInv, CoreType, InLine, ProcessedIsSettled, LossIsReported, Least
<1>2. QED
  BY <1>1, HistoryInvariant, PTL

\* A flush that passed leaves nothing behind that was appended before it began,
\* and a closed history holds nothing in a writer (recording.py:122-128,
\* history.py:189-201).
THEOREM PromisesKept == Spec => []SettledWhenPromised
<1>1. ASSUME HInv PROVE SettledWhenPromised
  <2>1. /\ processed \in Nat /\ Len(accepted) \in Nat /\ Len(batch) \in Nat
        /\ Len(queue) \in Nat /\ Len(accepted) = processed + Len(batch) + Len(queue)
    BY <1>1 DEF HInv, CoreType, InLine
  <2>2. ASSUME NEW c \in Clients, pc[c] = "flushed"
        PROVE  boundary[c] <= Len(accepted) /\ Settled(boundary[c])
    BY <1>1, <2>1, <2>2 DEF HInv, CoreType, FlushedIsSettled
  <2>3. ASSUME closed
        PROVE  queue = <<>> /\ batch = <<>> /\ (failure \/ Settled(Len(accepted)))
    <3>1. queue = <<>> /\ batch = <<>>
      BY <1>1, <2>3 DEF HInv, ClosedAfterWriter, WriterHolds
    <3>2. Len(accepted) = processed
      BY <2>1, <3>1
    <3>3. QED
      BY <1>1, <3>1, <3>2 DEF HInv, ProcessedIsSettled
  <2>4. QED
    BY <2>2, <2>3 DEF SettledWhenPromised
<1>2. QED
  BY <1>1, HistoryInvariant, PTL
-------------------------------------------------------------------------------
\* Records are stored in the order in which they were received.

Increasing(s) == \A i, j \in DOMAIN s : i < j => s[i] < s[j]

\* No record of the sequence comes after the limit, nor on it where it is open.
Below(s, limit) == \A i \in DOMAIN s : s[i] < limit

\* The number of the first record of accepted that the writer may still store.
NextToStore ==
  IF writer = "settle" THEN processed + Len(batch) + 1 ELSE processed + 1

\* What append() takes is newer than what it took, and what is still to be
\* stored is newer than what is stored.
InOrder ==
  /\ Increasing(accepted) /\ Increasing(written)
  /\ Below(accepted, delivered + 1) /\ Below(written, delivered + 1)
  /\ recorder = "append" => Below(accepted, delivered) /\ Below(written, delivered)
  /\ \A k \in NextToStore..Len(accepted) : Below(written, accepted[k])

\* Retention keeps the newest.
KeepsNewest == stored = Trim(written)

\* What Trim() leaves: the end of the sequence, at most Limit records of it.
LEMMA TrimIsEnd ==
  ASSUME HistoryAssumption, NEW s \in Seq(Nat)
  PROVE  /\ Trim(s) \in Seq(Nat)
         /\ Len(Trim(s)) = IF Len(s) <= Limit THEN Len(s) ELSE Limit
         /\ \A i \in 1..Len(Trim(s)) : Trim(s)[i] = s[Len(s) - Len(Trim(s)) + i]
<1>1. Limit \in Nat \ {0} /\ Len(s) \in Nat
  BY DEF HistoryAssumption
<1>2. CASE Len(s) <= Limit
  BY <1>1, <1>2 DEF Trim
<1>3. CASE Len(s) > Limit
  <2>1. Len(s) - Limit + 1 \in 1..Len(s)
    BY <1>1, <1>3
  <2>2. PICK m \in 1..Len(s), n \in Nat : m = Len(s) - Limit + 1 /\ n = Len(s)
    BY <1>1, <2>1
  <2>3. \A i \in m..n : s[i] \in Nat
    BY <2>2, ElementOfSeq
  <2>4. m <= n /\ n - m + 1 = Limit
    BY <1>1, <2>2
  <2>5. /\ SubSeq(s, m, n) \in Seq(Nat)
        /\ Len(SubSeq(s, m, n)) = IF m <= n THEN n - m + 1 ELSE 0
        /\ \A i \in 1..(n - m + 1) : SubSeq(s, m, n)[i] = s[m + i - 1]
    BY <2>2, <2>3, SubSeqProperties
  <2>6. Trim(s) = SubSeq(s, m, n)
    BY <1>1, <1>3, <2>2 DEF Trim
  <2>7. Trim(s) \in Seq(Nat) /\ Len(Trim(s)) = Limit
    BY <2>4, <2>5, <2>6
  <2>8. ASSUME NEW i \in 1..Limit PROVE Trim(s)[i] = s[Len(s) - Limit + i]
    <3>1. m + i - 1 = Len(s) - Limit + i
      BY <1>1, <2>2
    <3>2. QED
      BY <2>4, <2>5, <2>6, <3>1
  <2>9. QED
    BY <1>1, <1>3, <2>7, <2>8
<1>4. QED
  BY <1>1, <1>2, <1>3

\* It makes no difference whether what is cut off was still there when more came.
LEMMA TrimTwice ==
  ASSUME HistoryAssumption, NEW s \in Seq(Nat), NEW r \in Seq(Nat)
  PROVE  Trim(Trim(s) \o r) = Trim(s \o r)
<1>1. Limit \in Nat \ {0} /\ Len(s) \in Nat /\ Len(r) \in Nat
  BY DEF HistoryAssumption
<1>2. DEFINE k == Len(Trim(s))
<1>3. /\ Trim(s) \in Seq(Nat) /\ k = IF Len(s) <= Limit THEN Len(s) ELSE Limit
      /\ \A i \in 1..k : Trim(s)[i] = s[Len(s) - k + i]
  BY TrimIsEnd
<1>4. k \in Nat /\ k <= Len(s) /\ k <= Limit
  BY <1>1, <1>3
<1>5. DEFINE long == s \o r
             short == Trim(s) \o r
<1>6. /\ long \in Seq(Nat) /\ Len(long) = Len(s) + Len(r)
      /\ \A i \in 1..(Len(s) + Len(r)) :
           long[i] = IF i <= Len(s) THEN s[i] ELSE r[i - Len(s)]
  BY ConcatProperties
<1>7. /\ short \in Seq(Nat) /\ Len(short) = k + Len(r)
      /\ \A i \in 1..(k + Len(r)) :
           short[i] = IF i <= k THEN Trim(s)[i] ELSE r[i - k]
  BY <1>3, ConcatProperties
<1>8. \A i \in 1..(k + Len(r)) : short[i] = long[Len(s) - k + i]
  <2>1. TAKE i \in 1..(k + Len(r))
  <2>2. Len(s) - k + i \in 1..(Len(s) + Len(r))
    BY <1>1, <1>4
  <2>3. CASE i <= k
    <3>1. i \in 1..k /\ Len(s) - k + i <= Len(s)
      BY <1>1, <1>4, <2>3
    <3>2. QED
      BY <1>3, <1>6, <1>7, <2>2, <2>3, <3>1
  <2>4. CASE ~(i <= k)
    <3>1. ~(Len(s) - k + i <= Len(s)) /\ Len(s) - k + i - Len(s) = i - k
      BY <1>1, <1>4, <2>4
    <3>2. QED
      BY <1>6, <1>7, <2>2, <2>4, <3>1
  <2>5. QED
    BY <2>3, <2>4
<1> HIDE DEF k, long, short
<1>9. /\ Trim(long) \in Seq(Nat) /\ Trim(short) \in Seq(Nat)
      /\ Len(Trim(long)) = IF Len(long) <= Limit THEN Len(long) ELSE Limit
      /\ Len(Trim(short)) = IF Len(short) <= Limit THEN Len(short) ELSE Limit
      /\ \A i \in 1..Len(Trim(long)) :
           Trim(long)[i] = long[Len(long) - Len(Trim(long)) + i]
      /\ \A i \in 1..Len(Trim(short)) :
           Trim(short)[i] = short[Len(short) - Len(Trim(short)) + i]
  BY <1>6, <1>7, TrimIsEnd
<1>10. Len(Trim(long)) = Len(Trim(short))
  <2>1. /\ Len(long) = Len(s) + Len(r) /\ Len(short) = k + Len(r)
        /\ k = IF Len(s) <= Limit THEN Len(s) ELSE Limit
    BY <1>3, <1>6, <1>7
  <2>2. (IF Len(long) <= Limit THEN Len(long) ELSE Limit)
          = IF Len(short) <= Limit THEN Len(short) ELSE Limit
    <3>1. CASE Len(s) <= Limit
      BY <2>1, <3>1
    <3>2. CASE ~(Len(s) <= Limit)
      <4>1. k = Limit
        BY <2>1, <3>2
      <4>2. Len(long) > Limit /\ Len(short) >= Limit
        BY <1>1, <2>1, <3>2, <4>1
      <4>3. Len(long) \in Nat /\ Len(short) \in Nat
        BY <1>1, <1>4, <2>1
      <4>4. QED
        BY <1>1, <4>2, <4>3
    <3>3. QED
      BY <3>1, <3>2
  <2>3. /\ Len(Trim(long)) = IF Len(long) <= Limit THEN Len(long) ELSE Limit
        /\ Len(Trim(short)) = IF Len(short) <= Limit THEN Len(short) ELSE Limit
    BY <1>9
  <2>4. QED
    BY <2>2, <2>3
<1>11. ASSUME NEW i \in 1..Len(Trim(long))
       PROVE  Trim(long)[i] = Trim(short)[i]
  <2>1. /\ Len(Trim(long)) \in Nat /\ Len(Trim(long)) <= k + Len(r)
        /\ Len(long) = Len(s) + Len(r) /\ Len(short) = k + Len(r)
    <3>1. Len(short) \in Nat /\ Len(Trim(long)) \in Nat
      BY <1>7, <1>9
    <3>2. Len(Trim(short)) <= Len(short)
      BY <1>1, <1>9, <3>1
    <3>3. QED
      BY <1>6, <1>7, <1>10, <3>1, <3>2
  <2>2. i \in Int /\ 1 <= i /\ i <= Len(Trim(long))
    BY <2>1
  <2>3. k + Len(r) - Len(Trim(long)) + i \in 1..(k + Len(r))
    BY <1>1, <1>4, <2>1, <2>2
  <2>4. Len(s) - k + (k + Len(r) - Len(Trim(long)) + i) = Len(long) - Len(Trim(long)) + i
    BY <1>1, <1>4, <2>1, <2>2
  <2>5. short[k + Len(r) - Len(Trim(long)) + i] = long[Len(long) - Len(Trim(long)) + i]
    BY <1>8, <2>3, <2>4
  <2>6. Trim(short)[i] = short[k + Len(r) - Len(Trim(long)) + i]
    <3>1. i \in 1..Len(Trim(short))
      BY <1>10
    <3>2. Len(short) - Len(Trim(short)) + i = k + Len(r) - Len(Trim(long)) + i
      BY <1>1, <1>4, <1>10, <2>1, <2>2
    <3>3. QED
      BY <1>9, <3>1, <3>2
  <2>7. QED
    BY <1>9, <2>5, <2>6
<1>12. Trim(long) = Trim(short)
  BY <1>9, <1>10, <1>11, SeqEqual
<1>13. QED
  BY <1>12 DEF long, short

\* What is left is left, and in order.
LEMMA TrimAgain ==
  ASSUME HistoryAssumption, NEW s \in Seq(Nat)
  PROVE  Trim(Trim(s)) = Trim(s)
<1>1. Trim(s) \in Seq(Nat) /\ Len(Trim(s)) <= Limit
  BY TrimIsEnd DEF HistoryAssumption
<1>2. QED
  BY <1>1 DEF Trim

LEMMA TrimInOrder ==
  ASSUME HistoryAssumption, NEW s \in Seq(Nat), NEW limit \in Nat,
         Increasing(s), Below(s, limit)
  PROVE  Increasing(Trim(s)) /\ Below(Trim(s), limit)
<1>1. /\ Trim(s) \in Seq(Nat) /\ Len(Trim(s)) <= Len(s) /\ Len(s) \in Nat
      /\ Len(Trim(s)) \in Nat
      /\ \A i \in 1..Len(Trim(s)) : Trim(s)[i] = s[Len(s) - Len(Trim(s)) + i]
  BY TrimIsEnd DEF HistoryAssumption
<1>2. \A i \in 1..Len(Trim(s)) : Len(s) - Len(Trim(s)) + i \in 1..Len(s)
  BY <1>1
<1>3. ASSUME NEW i \in 1..Len(Trim(s)) PROVE Trim(s)[i] < limit
  <2>1. Len(s) - Len(Trim(s)) + i \in DOMAIN s
    BY <1>2
  <2>2. QED
    BY <1>1, <2>1 DEF Below
<1>4. ASSUME NEW i \in 1..Len(Trim(s)), NEW j \in 1..Len(Trim(s)), i < j
      PROVE  Trim(s)[i] < Trim(s)[j]
  <2>0. i \in Int /\ j \in Int /\ Len(s) - Len(Trim(s)) \in Int
    BY <1>1
  <2>4. Len(s) - Len(Trim(s)) + i < Len(s) - Len(Trim(s)) + j
    BY <1>4, <2>0
  <2>1. /\ Len(s) - Len(Trim(s)) + i \in DOMAIN s
        /\ Len(s) - Len(Trim(s)) + j \in DOMAIN s
        /\ Len(s) - Len(Trim(s)) + i < Len(s) - Len(Trim(s)) + j
    BY <1>2, <2>4
  <2>2. s[Len(s) - Len(Trim(s)) + i] < s[Len(s) - Len(Trim(s)) + j]
    BY <2>1 DEF Increasing
  <2>3. QED
    BY <1>1, <2>2
<1>5. Below(Trim(s), limit)
  BY <1>1, <1>3 DEF Below
<1>6. Increasing(Trim(s))
  <2>1. DOMAIN Trim(s) = 1..Len(Trim(s))
    BY <1>1
  <2>2. QED
    BY <1>4, <2>1 DEF Increasing
<1>7. QED
  BY <1>5, <1>6

LEMMA InOrderAppended ==
  ASSUME NEW s \in Seq(Nat), NEW n \in Nat, Increasing(s), Below(s, n)
  PROVE  Increasing(Append(s, n)) /\ Below(Append(s, n), n + 1)
<1>1. /\ Append(s, n) \in Seq(Nat) /\ Len(Append(s, n)) = Len(s) + 1 /\ Len(s) \in Nat
      /\ \A i \in 1..Len(s) : Append(s, n)[i] = s[i] /\ s[i] \in Nat /\ s[i] < n
      /\ Append(s, n)[Len(s) + 1] = n
  BY AcceptedGrows DEF Below
<1>2. QED
  BY <1>1 DEF Increasing, Below

\* The steps after which nothing more is to be stored than before.
LEMMA OrderKept ==
  ASSUME HInv, InOrder, UNCHANGED <<accepted, written, delivered>>,
         recorder' = "append" => recorder = "append",
         NextToStore \in Nat, NextToStore' \in Nat, NextToStore <= NextToStore'
  PROVE  InOrder'
<1>1. \A k \in NextToStore'..Len(accepted) : k \in NextToStore..Len(accepted)
  BY DEF HInv, CoreType
<1>2. QED
  BY <1>1 DEF InOrder, Increasing, Below

LEMMA NextToStoreType ==
  ASSUME HInv, HInv' \/ UNCHANGED vars
  PROVE  NextToStore \in Nat /\ NextToStore' \in Nat /\ Len(batch) \in Nat
<1>1. /\ processed \in Nat /\ Len(batch) \in Nat
      /\ processed' \in Nat /\ Len(batch') \in Nat
  BY DEF HInv, CoreType, vars, thread
<1>2. NextToStore \in Nat
  BY <1>1 DEF NextToStore
<1>3. NextToStore' \in Nat
  <2>1. NextToStore' = processed' + 1 \/ NextToStore' = processed' + Len(batch') + 1
    BY DEF NextToStore
  <2>2. QED
    BY <1>1, <2>1
<1>4. QED
  BY <1>1, <1>2, <1>3

LEMMA WriterKeepsOrder ==
  ASSUME HistoryAssumption, HInv, HInv', InOrder, WriterStep PROVE InOrder'
<1>0. NextToStore \in Nat /\ NextToStore' \in Nat /\ Len(batch) \in Nat
  BY NextToStoreType
<1>1. CASE Take
  <2>1. /\ UNCHANGED <<accepted, written, delivered, recorder, processed>>
        /\ writer = "wait" /\ writer' = "write"
    BY <1>1 DEF Take, store, ingress
  <2>2. QED
    BY <1>0, <2>1, OrderKept DEF NextToStore
<1>2. CASE WriteFails
  <2>1. /\ UNCHANGED <<accepted, written, delivered, recorder, processed, batch>>
        /\ writer = "write" /\ writer' = "settle"
    BY <1>2 DEF WriteFails, store, ingress
  <2>2. QED
    BY <1>0, <2>1, OrderKept DEF NextToStore, HInv, CoreType
<1>3. CASE Settle
  <2>1. /\ UNCHANGED <<accepted, written, delivered, recorder>>
        /\ writer = "settle" /\ writer' = "wait" /\ processed' = processed + Len(batch)
    BY <1>3 DEF Settle, store, ingress
  <2>2. QED
    BY <1>0, <2>1, OrderKept DEF NextToStore, HInv, CoreType
<1>4. CASE EndWriter
  <2>1. /\ UNCHANGED <<accepted, written, delivered, recorder, processed, batch>>
        /\ writer = "wait" /\ writer' = "ended"
    BY <1>4 DEF EndWriter, store, ingress
  <2>2. QED
    BY <1>0, <2>1, OrderKept DEF NextToStore
<1>5. CASE WriteBatch
  <2>1. /\ UNCHANGED <<accepted, delivered, recorder, processed, batch>>
        /\ writer = "write" /\ writer' = "settle" /\ written' = written \o batch
    BY <1>5 DEF WriteBatch, Store, ingress
  <2>2. /\ processed \in Nat /\ Len(written) \in Nat /\ Len(accepted) \in Nat
        /\ written \in Seq(Nat) /\ batch \in Seq(Nat) /\ accepted \in Seq(Nat)
        /\ processed + Len(batch) <= Len(accepted)
        /\ \A i \in 1..Len(batch) : batch[i] = accepted[processed + i]
    <3>1. /\ processed \in Nat /\ Len(written) \in Nat /\ Len(accepted) \in Nat
          /\ Len(batch) \in Nat /\ Len(queue) \in Nat
          /\ written \in Seq(Nat) /\ batch \in Seq(Nat) /\ accepted \in Seq(Nat)
      BY <1>0 DEF HInv, CoreType
    <3>2. /\ Len(accepted) = processed + Len(batch) + Len(queue)
          /\ \A i \in 1..Len(batch) : batch[i] = accepted[processed + i]
      BY <1>0 DEF HInv, InLine
    <3>3. processed + Len(batch) <= Len(accepted)
      BY <3>1, <3>2
    <3>4. QED
      BY <3>1, <3>2, <3>3
  <2>3. /\ written' \in Seq(Nat) /\ Len(written') = Len(written) + Len(batch)
        /\ \A i \in 1..Len(written') :
             written'[i] = IF i <= Len(written) THEN written[i]
                           ELSE accepted[processed + (i - Len(written))]
    <3>1. /\ written' \in Seq(Nat) /\ Len(written') = Len(written) + Len(batch)
          /\ \A i \in 1..Len(written') :
               written'[i] = IF i <= Len(written) THEN written[i]
                             ELSE batch[i - Len(written)]
      BY <2>1, <2>2, ConcatProperties
    <3>2. ASSUME NEW i \in 1..Len(written'), ~(i <= Len(written))
          PROVE  batch[i - Len(written)] = accepted[processed + (i - Len(written))]
      BY <1>0, <2>2, <3>1, <3>2
    <3>3. QED
      BY <3>1, <3>2
  <2>4. ASSUME NEW i \in 1..Len(written'), ~(i <= Len(written))
        PROVE  processed + (i - Len(written)) \in NextToStore..(processed + Len(batch))
    BY <1>0, <2>1, <2>2, <2>3, <2>4 DEF NextToStore
  <2>5. Increasing(written')
    <3>1. ASSUME NEW i \in 1..Len(written'), NEW j \in 1..Len(written'), i < j
          PROVE  written'[i] < written'[j]
      <4>1. CASE j <= Len(written)
        <5>1. i <= Len(written) /\ i \in DOMAIN written /\ j \in DOMAIN written
          <6>1. i \in Nat /\ j \in Nat /\ i >= 1 /\ j >= 1
            BY <2>3, <3>1
          <6>2. i \in 1..Len(written) /\ j \in 1..Len(written)
            BY <2>2, <3>1, <4>1, <6>1
          <6>3. QED
            BY <2>2, <6>2
        <5>2. written[i] < written[j]
          BY <3>1, <5>1 DEF InOrder, Increasing
        <5>3. QED
          BY <2>3, <4>1, <5>1, <5>2
      <4>2. CASE ~(j <= Len(written)) /\ i <= Len(written)
        <5>1. i \in DOMAIN written
          BY <2>2, <2>3, <4>2
        <5>4. processed + (j - Len(written)) \in NextToStore..(processed + Len(batch))
          BY <2>4, <4>2
        <5>5. processed + (j - Len(written)) \in NextToStore..Len(accepted)
          BY <1>0, <2>2, <5>4
        <5>2. written[i] < accepted[processed + (j - Len(written))]
          BY <5>1, <5>5 DEF InOrder, Below
        <5>3. QED
          BY <2>3, <4>2, <5>2
      <4>3. CASE ~(j <= Len(written)) /\ ~(i <= Len(written))
        <5>3. /\ processed + (i - Len(written)) \in NextToStore..(processed + Len(batch))
              /\ processed + (j - Len(written)) \in NextToStore..(processed + Len(batch))
          BY <2>4, <4>3
        <5>4. NextToStore > 0
          BY <2>2, <1>0 DEF NextToStore
        <5>5. /\ processed + (i - Len(written)) \in DOMAIN accepted
              /\ processed + (j - Len(written)) \in DOMAIN accepted
          <6>1. \A k \in NextToStore..(processed + Len(batch)) : k \in DOMAIN accepted
            BY <1>0, <2>2, <5>4
          <6>2. QED
            BY <5>3, <6>1
        <5>1. /\ processed + (i - Len(written)) \in DOMAIN accepted
              /\ processed + (j - Len(written)) \in DOMAIN accepted
              /\ processed + (i - Len(written)) < processed + (j - Len(written))
          BY <2>2, <2>3, <3>1, <5>5
        <5>2. QED
          BY <2>3, <4>3, <5>1 DEF InOrder, Increasing
      <4>4. QED
        BY <2>2, <2>3, <3>1, <4>1, <4>2, <4>3
    <3>2. QED
      BY <2>3, <3>1 DEF Increasing
  <2>6. ASSUME NEW limit \in Nat, Below(written, limit), Below(accepted, limit)
        PROVE  Below(written', limit)
    <3>1. ASSUME NEW i \in 1..Len(written') PROVE written'[i] < limit
      <4>1. CASE i <= Len(written)
        <5>1. i \in DOMAIN written
          BY <2>2, <2>3, <4>1
        <5>2. QED
          BY <2>3, <2>6, <4>1, <5>1 DEF Below
      <4>2. CASE ~(i <= Len(written))
        <5>3. processed + (i - Len(written)) \in NextToStore..(processed + Len(batch))
          BY <2>4, <4>2
        <5>4. NextToStore > 0
          BY <2>2, <1>0 DEF NextToStore
        <5>1. processed + (i - Len(written)) \in DOMAIN accepted
          BY <1>0, <2>2, <5>3, <5>4
        <5>2. QED
          BY <2>3, <2>6, <4>2, <5>1 DEF Below
      <4>3. QED
        BY <4>1, <4>2
    <3>2. QED
      BY <2>3, <3>1 DEF Below
  <2>7. ASSUME NEW k \in NextToStore'..Len(accepted')
        PROVE  Below(written', accepted'[k])
    <3>1. k \in NextToStore..Len(accepted) /\ k > processed + Len(batch) /\ k \in DOMAIN accepted
      BY <1>0, <2>1, <2>2 DEF NextToStore
    <3>2. ASSUME NEW i \in 1..Len(written') PROVE written'[i] < accepted[k]
      <4>1. CASE i <= Len(written)
        <5>1. i \in DOMAIN written /\ Below(written, accepted[k])
          BY <2>2, <3>1, <4>1 DEF InOrder
        <5>2. QED
          BY <2>3, <4>1, <5>1 DEF Below
      <4>2. CASE ~(i <= Len(written))
        <5>3. processed + (i - Len(written)) \in NextToStore..(processed + Len(batch))
          BY <2>4, <4>2
        <5>4. NextToStore > 0
          BY <2>2, <1>0 DEF NextToStore
        <5>1. /\ processed + (i - Len(written)) \in DOMAIN accepted
              /\ processed + (i - Len(written)) < k
          <6>1. PICK place \in NextToStore..(processed + Len(batch)) :
                  place = processed + (i - Len(written))
            BY <5>3
          <6>2. PICK m \in Nat : m = processed + Len(batch)
            BY <2>2
          <6>3. place \in Nat /\ place >= 1 /\ place <= m
            BY <1>0, <5>4, <6>1, <6>2
          <6>4. m <= Len(accepted) /\ m < k
            BY <2>2, <3>1, <6>2
          <6>5. place <= Len(accepted) /\ place < k
            BY <2>2, <3>1, <6>3, <6>4
          <6>6. QED
            BY <2>2, <6>1, <6>3, <6>5
        <5>2. QED
          BY <2>3, <3>1, <4>2, <5>1 DEF InOrder, Increasing
      <4>3. QED
        BY <4>1, <4>2
    <3>3. QED
      BY <2>1, <2>3, <3>2 DEF Below
  <2>8. delivered \in Nat /\ delivered + 1 \in Nat
    BY DEF HInv, CoreType
  <2>9. QED
    BY <2>1, <2>5, <2>6, <2>7, <2>8 DEF InOrder
<1>6. QED
  BY <1>1, <1>2, <1>3, <1>4, <1>5 DEF WriterStep

LEMMA RouterKeepsOrder ==
  ASSUME HInv, HInv', InOrder, RouterStep PROVE InOrder'
<1>0. /\ NextToStore \in Nat /\ NextToStore' \in Nat /\ delivered \in Nat
      /\ written \in Seq(Nat) /\ accepted \in Seq(Nat)
  BY NextToStoreType DEF HInv, CoreType
<1>1. CASE Deliver
  <2>1. /\ UNCHANGED <<accepted, written, processed, batch, writer>>
        /\ delivered' = delivered + 1
    BY <1>1 DEF Deliver, store, thread
  <2>2. ASSUME NEW s \in Seq(Nat), Below(s, delivered + 1)
        PROVE  Below(s, delivered' + 1) /\ Below(s, delivered')
    BY <1>0, <2>1, <2>2 DEF Below
  <2>3. QED
    BY <1>0, <2>1, <2>2 DEF InOrder, NextToStore
<1>2. CASE Report \/ Detach \/ FinishDetach
  <2>1. UNCHANGED <<accepted, written, delivered, processed, batch, writer>>
    BY <1>2 DEF Report, Detach, FinishDetach, store, thread
  <2>2. recorder' # "append"
    BY <1>2 DEF Report, Detach, FinishDetach
  <2>3. QED
    BY <1>0, <2>1, <2>2, OrderKept DEF NextToStore
<1>3. CASE Submit
  <2>1. /\ UNCHANGED <<written, delivered, processed, batch, writer>>
        /\ recorder = "append" /\ recorder' # "append"
    BY <1>3 DEF Submit, Fails, store
  <2>2. CASE accepted' = accepted
    BY <1>0, <2>1, <2>2, OrderKept DEF NextToStore
  <2>3. CASE accepted' = Append(accepted, delivered)
    <3>1. /\ Increasing(accepted') /\ Below(accepted', delivered' + 1)
          /\ Below(written, delivered)
      BY <1>0, <2>1, <2>3, InOrderAppended DEF InOrder
    <3>2. /\ Len(accepted') = Len(accepted) + 1 /\ Len(accepted) \in Nat
          /\ \A i \in 1..Len(accepted) : accepted'[i] = accepted[i]
          /\ accepted'[Len(accepted) + 1] = delivered
      BY <1>0, <2>3, AcceptedGrows
    <3>3. ASSUME NEW k \in NextToStore'..Len(accepted')
          PROVE  Below(written', accepted'[k])
      <4>1. CASE k = Len(accepted) + 1
        BY <2>1, <3>1, <3>2, <4>1
      <4>2. CASE k # Len(accepted) + 1
        <5>1. k \in NextToStore..Len(accepted) /\ k \in 1..Len(accepted)
          BY <1>0, <2>1, <3>2, <4>2 DEF NextToStore, HInv, CoreType
        <5>2. QED
          BY <2>1, <3>2, <5>1 DEF InOrder
      <4>3. QED
        BY <4>1, <4>2
    <3>4. QED
      BY <2>1, <3>1, <3>3 DEF InOrder
  <2>4. QED
    BY <1>3, <2>2, <2>3 DEF Submit
<1>4. CASE AppendNow
  <2>1. /\ UNCHANGED <<delivered, batch, writer>>
        /\ recorder = "append" /\ recorder' # "append"
        /\ kind = "memory" /\ kind' = "memory"
    BY <1>4 DEF AppendNow, Fails
  <2>2. CASE UNCHANGED <<accepted, written, processed>>
    BY <1>0, <2>1, <2>2, OrderKept DEF NextToStore
  <2>3. CASE accepted' = Append(accepted, delivered) /\ written' = written \o <<delivered>>
    <3>1. written' = Append(written, delivered)
      BY <1>0, <2>3
    <3>2. /\ Increasing(accepted') /\ Below(accepted', delivered' + 1)
          /\ Increasing(written') /\ Below(written', delivered' + 1)
      BY <1>0, <2>1, <2>3, <3>1, InOrderAppended DEF InOrder
    <3>3. NextToStore' > Len(accepted') /\ Len(accepted') \in Nat
      <4>1. queue' = <<>> /\ batch' = <<>> /\ writer' = "wait"
        BY <2>1 DEF HInv, WriterHolds
      <4>2. processed' \in Nat /\ Len(accepted') = processed' + Len(batch') + Len(queue')
        BY DEF HInv, CoreType, InLine
      <4>3. Len(batch') = 0 /\ Len(queue') = 0
        BY <4>1
      <4>4. Len(accepted') = processed' + 0 + 0
        BY <4>2, <4>3, Zenon
      <4>7. \A n \in Nat : n + 0 + 0 = n
        OBVIOUS
      <4>8. Len(accepted') = processed'
        BY <4>2, <4>4, <4>7, Zenon
      <4>5. NextToStore' = processed' + 1
        BY <4>1 DEF NextToStore
      <4>6. QED
        BY <4>2, <4>5, <4>8
    <3>4. QED
      BY <1>0, <2>1, <3>2, <3>3 DEF InOrder
  <2>4. QED
    BY <1>4, <2>2, <2>3 DEF AppendNow, Store, store
<1>5. QED
  BY <1>1, <1>2, <1>3, <1>4 DEF RouterStep

LEMMA ClientsKeepOrder ==
  ASSUME HInv, HInv', InOrder, NEW c \in Clients, ClientStep(c) \/ UNCHANGED vars
  PROVE  InOrder'
<1>0. NextToStore \in Nat /\ NextToStore' \in Nat
  BY NextToStoreType
<1>1. UNCHANGED <<accepted, delivered, recorder, processed, batch, writer>>
  <2>1. CASE Attach(c) \/ Link(c) \/ Register(c) \/ Cancel(c) \/ FinishCancel(c)
    BY <2>1 DEF Attach, Link, Register, Cancel, FinishCancel, thread, ingress
  <2>2. CASE Operation(c) \/ FlushPasses(c) \/ FlushTimesOut(c) \/ Complete(c)
    BY <2>2 DEF Operation, FlushPasses, FlushTimesOut, Complete, thread, ingress
  <2>3. CASE CloseMemory(c) \/ Close(c) \/ Joined(c) \/ JoinTimesOut(c) \/ CheckWriter(c)
    BY <2>3 DEF CloseMemory, Close, Joined, JoinTimesOut, CheckWriter, thread, ingress
  <2>4. QED
    BY <2>1, <2>2, <2>3 DEF ClientStep, vars, thread, ingress
<1>2. CASE written' = written
  BY <1>0, <1>1, <1>2, OrderKept DEF NextToStore
<1>3. CASE written' = <<>>
  <2>1. DOMAIN written' = {}
    BY <1>3
  <2>2. QED
    BY <1>0, <1>1, <2>1 DEF InOrder, Increasing, Below, NextToStore
<1>4. written' = written \/ written' = <<>>
  <2>1. CASE Attach(c) \/ Link(c) \/ Register(c) \/ Cancel(c) \/ FinishCancel(c)
    BY <2>1 DEF Attach, Link, Register, Cancel, FinishCancel, store
  <2>2. CASE Operation(c) \/ FlushPasses(c) \/ FlushTimesOut(c) \/ Complete(c)
    BY <2>2 DEF Operation, FlushPasses, FlushTimesOut, Complete, store
  <2>3. CASE CloseMemory(c) \/ Close(c) \/ Joined(c) \/ JoinTimesOut(c) \/ CheckWriter(c)
    BY <2>3 DEF CloseMemory, Close, Joined, JoinTimesOut, CheckWriter, store
  <2>4. QED
    BY <2>1, <2>2, <2>3 DEF ClientStep, vars, store
<1>5. QED
  BY <1>2, <1>3, <1>4

LEMMA OrderStep ==
  ASSUME HistoryAssumption, HInv, HInv', StoredType, InOrder, KeepsNewest, [Next]_vars
  PROVE  InOrder'
<1>1. CASE Reopen
  <2>1. /\ written' = Trim(stored) /\ accepted' = <<>> /\ delivered' = delivered
        /\ recorder' = "idle"
    BY <1>1 DEF Reopen, Opened
  <2>2. written \in Seq(Nat) /\ delivered + 1 \in Nat
    BY DEF HInv, CoreType
  <2>3. Increasing(stored) /\ Below(stored, delivered + 1)
    BY <2>2, TrimInOrder DEF InOrder, KeepsNewest
  <2>4. Increasing(written') /\ Below(written', delivered + 1)
    BY <2>1, <2>2, <2>3, TrimInOrder DEF StoredType
  <2>5. DOMAIN accepted' = {} /\ Len(accepted') = 0 /\ NextToStore' \in Nat /\ NextToStore' > 0
    <3>1. processed' \in Nat /\ Len(batch') \in Nat
      BY DEF HInv, CoreType
    <3>2. NextToStore' = processed' + 1 \/ NextToStore' = processed' + Len(batch') + 1
      BY DEF NextToStore
    <3>3. QED
      BY <2>1, <3>1, <3>2
  <2>6. QED
    BY <2>1, <2>4, <2>5 DEF InOrder, Increasing, Below
<1>2. CASE UNCHANGED vars
  <2>1. /\ UNCHANGED <<accepted, written, delivered, recorder, processed, batch, writer>>
        /\ NextToStore \in Nat
    BY <1>2, NextToStoreType DEF vars, store, thread, ingress
  <2>2. QED
    BY <2>1, OrderKept DEF NextToStore
<1>3. QED
  BY <1>1, <1>2, WriterKeepsOrder, RouterKeepsOrder, ClientsKeepOrder DEF Next

LEMMA NewestStep ==
  ASSUME HistoryAssumption, HInv, StoredType, KeepsNewest, [Next]_vars
  PROVE  KeepsNewest'
<1>0. written \in Seq(Nat) /\ batch \in Seq(Nat) /\ delivered \in Nat
  BY DEF HInv, CoreType
<1>1. ASSUME NEW more \in Seq(Nat), Store(more) PROVE KeepsNewest'
  BY <1>0, <1>1, TrimTwice DEF Store, KeepsNewest
<1>2. CASE WriteBatch
  BY <1>0, <1>1, <1>2 DEF WriteBatch
<1>3. CASE AppendNow
  <2>1. <<delivered>> \in Seq(Nat)
    BY <1>0
  <2>2. QED
    BY <1>1, <1>3, <2>1 DEF AppendNow, KeepsNewest, store
<1>4. CASE Reopen
  <2>1. stored' = Trim(stored) /\ written' = Trim(stored)
    BY <1>4 DEF Reopen, Opened
  <2>2. QED
    BY <2>1, TrimAgain DEF StoredType, KeepsNewest
<1>5. CASE Take \/ WriteFails \/ Settle \/ EndWriter
  BY <1>5 DEF Take, WriteFails, Settle, EndWriter, store, KeepsNewest
<1>6. CASE Deliver \/ Submit \/ Report \/ Detach \/ FinishDetach \/ UNCHANGED vars
  BY <1>6 DEF Deliver, Submit, Report, Detach, FinishDetach, vars, store, KeepsNewest
<1>7. ASSUME NEW c \in Clients, ClientStep(c) PROVE KeepsNewest'
  <2>1. CASE Attach(c) \/ Link(c) \/ Register(c) \/ Cancel(c) \/ FinishCancel(c)
    BY <2>1 DEF Attach, Link, Register, Cancel, FinishCancel, store, KeepsNewest
  <2>2. CASE Operation(c) \/ FlushPasses(c) \/ FlushTimesOut(c) \/ Joined(c)
             \/ JoinTimesOut(c)
    BY <2>2 DEF Operation, FlushPasses, FlushTimesOut, Joined, JoinTimesOut, store,
       KeepsNewest
  <2>3. CASE Complete(c)
    <3>1. UNCHANGED <<stored, written>> \/ (stored' = <<>> /\ written' = <<>>)
      BY <2>3 DEF Complete, store
    <3>2. Trim(<<>>) = <<>>
      BY DEF Trim, HistoryAssumption
    <3>3. QED
      BY <3>1, <3>2 DEF KeepsNewest
  <2>4. CASE CloseMemory(c) \/ Close(c) \/ CheckWriter(c)
    BY <2>4 DEF CloseMemory, Close, CheckWriter, store, KeepsNewest
  <2>5. QED
    BY <1>7, <2>1, <2>2, <2>3, <2>4 DEF ClientStep
<1>8. QED
  BY <1>2, <1>3, <1>4, <1>5, <1>6, <1>7 DEF Next, WriterStep, RouterStep

\* The history holds the newest records stored since the last clear(), in the
\* order in which they were received, whatever its capacity, batch size and
\* limit, and through a restart (history.py:253-255, 279-286).
THEOREM HistoryInOrder == Spec => []OldestFirst
<1>1. Init => InOrder /\ KeepsNewest
  <2>1. SUFFICES ASSUME Init PROVE InOrder /\ KeepsNewest
    OBVIOUS
  <2>2. /\ accepted = <<>> /\ written = <<>> /\ stored = <<>> /\ processed = 0
        /\ batch = <<>> /\ writer = "wait"
    BY <2>1 DEF Init, WriterInit
  <2>3. InOrder
    BY <2>2 DEF InOrder, Increasing, Below, NextToStore
  <2>4. Trim(<<>>) = <<>>
    BY DEF Trim, HistoryAssumption
  <2>5. QED
    BY <2>2, <2>3, <2>4 DEF KeepsNewest
<1>2. /\ HInv /\ StoredType /\ InOrder /\ KeepsNewest /\ [Next]_vars /\ HInv'
      => (InOrder /\ KeepsNewest)'
  BY HistoryAssumption, OrderStep, NewestStep
<1>3. InOrder /\ KeepsNewest => OldestFirst
  BY DEF InOrder, KeepsNewest, Increasing, OldestFirst
<1>4. QED
  BY <1>1, <1>2, <1>3, HistoryInvariant, PTL DEF Spec
-------------------------------------------------------------------------------
\* Who may end an attachment.

Attachment == [source : BOOLEAN, linked : BOOLEAN, live : BOOLEAN, failed : BOOLEAN,
               reports : Nat]
Last == Len(attachments)

AttachType ==
  /\ attachments \in Seq(Attachment)
  /\ recorder \in {"idle", "append", "report", "detach", "cancel"}
  /\ recording \in Nat /\ attached \in Nat
  /\ recorder # "idle" => recording \in DOMAIN attachments

\* The last attachment, and no other, is being attached or detached, by one
\* client at a time.
ChangesLast ==
  /\ \A c \in Clients : pc[c] = "link" =>
       Last > 0 /\ attachments[Last].source /\ attachments[Last].live
       /\ ~attachments[Last].linked
  /\ \A c \in Clients : pc[c] = "register" =>
       Last > 0 /\ attachments[Last].source /\ attachments[Last].linked
  /\ \A c \in Clients : pc[c] \in {"link", "register"} => attached = 0
  /\ \A c \in Clients : pc[c] = "cancel" =>
       attached # 0 /\ ~attachments[Last].live /\ recorder # "cancel"
  /\ \A c, d \in Clients :
       pc[c] \in {"link", "register", "cancel"} /\ pc[d] \in {"link", "register", "cancel"}
       => c = d

\* The router's thread detaches the last attachment, after it ended it.
DetachesLast ==
  recorder = "cancel" =>
    /\ recording = Last
    /\ attachments[Last].source /\ attachments[Last].linked /\ ~attachments[Last].live

\* Only the last attachment can be subscribed, and it is while it is registered.
OneSubscription ==
  /\ attached # 0 => attached = Last /\ attachments[Last].source
  /\ \A a \in DOMAIN attachments :
       /\ attachments[a].source => a = Last /\ (RuntimeLocked \/ attached = a)
       /\ attachments[a].live => attachments[a].source
       /\ ~attachments[a].linked => a = Last /\ \E c \in Clients : pc[c] = "link"
       /\ attachments[a].source /\ ~attachments[a].live =>
            recorder = "cancel" \/ \E c \in Clients : pc[c] = "cancel"

\* The place of the router's thread says what it has done about the failure.
ReportsOnce ==
  \A a \in DOMAIN attachments :
    LET mine == attachments[a]
        at == IF recorder # "idle" /\ recording = a THEN recorder ELSE "idle"
    IN /\ at = "append" => ~mine.failed
       /\ at \in {"report", "detach", "cancel"} => mine.failed
       /\ mine.reports = IF mine.failed /\ at # "report" THEN 1 ELSE 0
       /\ mine.failed /\ at = "idle" /\ mine.live => RuntimeLocked

\* The inductive invariant of the attachments.
AInv == AttachType /\ ChangesLast /\ DetachesLast /\ OneSubscription /\ ReportsOnce

-------------------------------------------------------------------------------
\* What a step does to one attachment.
LEMMA OneChanges ==
  ASSUME attachments \in Seq(Attachment), NEW a \in DOMAIN attachments,
         NEW mine \in Attachment, attachments' = [attachments EXCEPT ![a] = mine]
  PROVE  /\ attachments' \in Seq(Attachment) /\ Last' = Last /\ Last \in Nat
         /\ DOMAIN attachments = 1..Last /\ DOMAIN attachments' = 1..Last
         /\ attachments'[a] = mine
         /\ \A b \in 1..Last : b # a => attachments'[b] = attachments[b]
<1>1. Last \in Nat /\ DOMAIN attachments = 1..Last
  BY DEF Last
<1>2. attachments' \in Seq(Attachment) /\ Len(attachments') = Len(attachments)
  BY ExceptSeq
<1>3. QED
  BY <1>1, <1>2 DEF Last

LEMMA AttachmentsKept ==
  ASSUME AInv, UNCHANGED <<attachments, attached, recorder, recording>>,
         \A c \in Clients : pc'[c] = pc[c]
           \/ (/\ pc[c] \notin {"link", "register", "cancel"}
               /\ pc'[c] \notin {"link", "register", "cancel"})
  PROVE  AInv'
<1>1. \A c \in Clients : \A label \in {"link", "register", "cancel"} :
        pc'[c] = label <=> pc[c] = label
  OBVIOUS
<1>2. RuntimeLocked' <=> RuntimeLocked
  BY <1>1 DEF RuntimeLocked
<1>3. Last' = Last
  BY DEF Last
<1>4. AttachType'
  BY DEF AInv, AttachType
<1>5. ChangesLast'
  BY <1>1, <1>3 DEF AInv, ChangesLast
<1>6. DetachesLast'
  BY <1>3 DEF AInv, DetachesLast
<1>7. OneSubscription'
  BY <1>1, <1>2, <1>3 DEF AInv, OneSubscription
<1>8. ReportsOnce'
  BY <1>2 DEF AInv, ReportsOnce
<1>9. QED
  BY <1>4, <1>5, <1>6, <1>7, <1>8 DEF AInv

\* The next envelope: record() of a sound attachment, if there is one.
LEMMA DeliverKeeps == ASSUME AInv, Deliver PROVE AInv'
<1>1. UNCHANGED <<attachments, attached, pc>> /\ recorder = "idle"
  BY DEF Deliver, subscriptions, clients
<1>2. CASE UNCHANGED <<recorder, recording>>
  BY <1>1, <1>2, AttachmentsKept
<1>3. ASSUME NEW a \in DOMAIN attachments, attachments[a].source,
             ~attachments[a].failed, recorder' = "append", recording' = a
      PROVE  AInv'
  <2>1. Last' = Last /\ (RuntimeLocked' <=> RuntimeLocked) /\ Last \in Nat
    BY <1>1 DEF Last, RuntimeLocked, AInv, AttachType
  <2>2. AttachType'
    <3>1. a \in Nat
      BY DEF AInv, AttachType
    <3>2. QED
      BY <1>1, <1>3, <3>1 DEF AInv, AttachType
  <2>3. ChangesLast' /\ DetachesLast'
    BY <1>1, <1>3, <2>1 DEF AInv, ChangesLast, DetachesLast
  <2>4. OneSubscription'
    BY <1>1, <1>3, <2>1 DEF AInv, OneSubscription
  <2>5. ReportsOnce'
    BY <1>1, <1>3, <2>1 DEF AInv, ReportsOnce
  <2>6. QED
    BY <2>2, <2>3, <2>4, <2>5 DEF AInv
<1>4. QED
  BY <1>2, <1>3 DEF Deliver

\* append() has raised: the failure is remembered, to be reported.
LEMMA FailsKeeps ==
  ASSUME AInv, recorder = "append", Fails, UNCHANGED <<recording, attached, pc>>
  PROVE  AInv'
<1> DEFINE a == recording
           mine == [attachments[a] EXCEPT !.failed = TRUE]
<1>1. a \in DOMAIN attachments /\ attachments \in Seq(Attachment)
  BY DEF AInv, AttachType
<1>2. attachments[a] \in Attachment
  BY <1>1
<1>3. /\ mine \in Attachment /\ mine.failed
      /\ mine.source = attachments[a].source /\ mine.linked = attachments[a].linked
      /\ mine.live = attachments[a].live /\ mine.reports = attachments[a].reports
  BY <1>2 DEF Attachment
<1>4. attachments' = [attachments EXCEPT ![a] = mine]
  BY DEF Fails
<1>5. /\ attachments' \in Seq(Attachment) /\ Last' = Last /\ Last \in Nat
      /\ DOMAIN attachments = 1..Last /\ DOMAIN attachments' = 1..Last
      /\ attachments'[a] = mine
      /\ \A b \in 1..Last : b # a => attachments'[b] = attachments[b]
  BY <1>1, <1>3, <1>4, OneChanges
<1> HIDE DEF mine
<1>6. /\ RuntimeLocked' <=> RuntimeLocked
      /\ recorder' = "report" /\ recording' = a /\ pc' = pc /\ attached' = attached
  BY DEF RuntimeLocked, Fails
<1>7. \A b \in 1..Last : /\ attachments'[b].source = attachments[b].source
                         /\ attachments'[b].linked = attachments[b].linked
                         /\ attachments'[b].live = attachments[b].live
  BY <1>3, <1>5
<1> HIDE DEF a
<1>8. AttachType'
  BY <1>1, <1>5, <1>6 DEF AInv, AttachType
<1>9. ChangesLast' /\ DetachesLast'
  <2>1. Last > 0 => Last \in 1..Last
    BY <1>5
  <2>2. \A c \in Clients : pc[c] = "cancel" => Last > 0
    <3>1. Last \in Nat
      BY <1>5
    <3>2. \A c \in Clients : pc[c] = "cancel" => Last # 0
      BY DEF AInv, ChangesLast, OneSubscription
    <3>3. QED
      BY <3>1, <3>2
  <2>3. ChangesLast'
    BY <1>5, <1>6, <1>7, <2>1, <2>2 DEF AInv, ChangesLast
  <2>4. QED
    BY <1>6, <2>3 DEF DetachesLast
<1>10. OneSubscription'
  BY <1>5, <1>6, <1>7 DEF AInv, OneSubscription
<1>11. ReportsOnce'
  <2>1. attachments[a].reports = 0
    BY <1>1 DEF AInv, ReportsOnce, a
  <2>2. QED
    BY <1>3, <1>5, <1>6, <2>1 DEF AInv, ReportsOnce, a
<1>12. QED
  BY <1>8, <1>9, <1>10, <1>11 DEF AInv

LEMMA AppendKeeps == ASSUME AInv, Submit \/ AppendNow PROVE AInv'
<1>1. UNCHANGED <<recording, attached, pc>> /\ recorder = "append"
  BY DEF Submit, AppendNow, clients
<1>2. CASE Fails
  BY <1>1, <1>2, FailsKeeps
<1>3. CASE recorder' = "idle" /\ attachments' = attachments
  <2>1. Last' = Last /\ (RuntimeLocked' <=> RuntimeLocked)
    BY <1>1, <1>3 DEF Last, RuntimeLocked
  <2>2. AttachType'
    BY <1>1, <1>3 DEF AInv, AttachType
  <2>3. ChangesLast' /\ DetachesLast'
    BY <1>1, <1>3, <2>1 DEF AInv, ChangesLast, DetachesLast
  <2>4. OneSubscription'
    BY <1>1, <1>3, <2>1 DEF AInv, OneSubscription
  <2>5. ReportsOnce'
    BY <1>1, <1>3, <2>1 DEF AInv, ReportsOnce
  <2>6. QED
    BY <2>2, <2>3, <2>4, <2>5 DEF AInv
<1>4. QED
  BY <1>2, <1>3 DEF Submit, AppendNow

LEMMA ReportKeeps == ASSUME AInv, Report PROVE AInv'
<1> DEFINE a == recording
           mine == [attachments[a] EXCEPT !.reports = @ + 1]
<1>1. /\ a \in DOMAIN attachments /\ attachments \in Seq(Attachment)
      /\ recorder = "report"
  BY DEF AInv, AttachType, Report
<1>2. attachments[a] \in Attachment
  BY <1>1
<1>3. /\ mine \in Attachment /\ mine.failed = attachments[a].failed
      /\ mine.source = attachments[a].source /\ mine.linked = attachments[a].linked
      /\ mine.live = attachments[a].live /\ mine.reports = attachments[a].reports + 1
  BY <1>2 DEF Attachment
<1>4. attachments' = [attachments EXCEPT ![a] = mine]
  BY DEF Report
<1>5. /\ attachments' \in Seq(Attachment) /\ Last' = Last /\ Last \in Nat
      /\ DOMAIN attachments = 1..Last /\ DOMAIN attachments' = 1..Last
      /\ attachments'[a] = mine
      /\ \A b \in 1..Last : b # a => attachments'[b] = attachments[b]
  BY <1>1, <1>3, <1>4, OneChanges
<1> HIDE DEF mine
<1>6. /\ recorder' = "detach" /\ recording' = a /\ attached' = attached /\ pc' = pc
  BY DEF Report, clients
<1>7. RuntimeLocked' <=> RuntimeLocked
  BY <1>6 DEF RuntimeLocked
<1>8. \A b \in 1..Last : /\ attachments'[b].source = attachments[b].source
                         /\ attachments'[b].linked = attachments[b].linked
                         /\ attachments'[b].live = attachments[b].live
                         /\ attachments'[b].failed = attachments[b].failed
  BY <1>3, <1>5
<1>9. AttachType'
  BY <1>1, <1>5, <1>6 DEF AInv, AttachType
<1> HIDE DEF a
<1>10. \A c \in Clients : pc[c] = "cancel" => Last # 0
  BY DEF AInv, ChangesLast, OneSubscription
<1>11. Last # 0 => Last \in 1..Last
  BY <1>5
<1>12. ChangesLast'
  BY <1>5, <1>6, <1>8, <1>10, <1>11 DEF AInv, ChangesLast
<1>13. DetachesLast'
  BY <1>6 DEF DetachesLast
<1>14. OneSubscription'
  BY <1>1, <1>5, <1>6, <1>7, <1>8 DEF AInv, OneSubscription
<1>15. ReportsOnce'
  <2>1. attachments[a].failed /\ attachments[a].reports = 0
    BY <1>1 DEF AInv, ReportsOnce, a
  <2>2. mine.failed /\ mine.reports = 1
    BY <1>3, <2>1
  <2>3. QED
    BY <1>1, <1>5, <1>6, <1>7, <2>2 DEF AInv, ReportsOnce, a
<1>16. QED
  BY <1>9, <1>12, <1>13, <1>14, <1>15 DEF AInv

\* record() cancels its own subscription, unless there is nothing to cancel.
LEMMA DetachKeeps == ASSUME AInv, Detach PROVE AInv'
<1>1. /\ recording \in DOMAIN attachments /\ attachments \in Seq(Attachment)
      /\ recorder = "detach" /\ attachments[recording] \in Attachment
  BY DEF AInv, AttachType, Detach
<1>2. recording' = recording /\ attached' = attached /\ pc' = pc
  BY DEF Detach, clients
<1>3. RuntimeLocked' <=> RuntimeLocked
  BY <1>2 DEF RuntimeLocked
<1>4. CASE /\ attachments' = attachments /\ recorder' = "idle"
           /\ ~attachments[recording].linked \/ ~attachments[recording].live
  <2>1. Last' = Last
    BY <1>4 DEF Last
  <2>2. AttachType'
    BY <1>2, <1>4 DEF AInv, AttachType
  <2>3. ChangesLast' /\ DetachesLast'
    BY <1>2, <1>4, <2>1 DEF AInv, ChangesLast, DetachesLast
  <2>4. OneSubscription'
    BY <1>1, <1>2, <1>3, <1>4, <2>1 DEF AInv, OneSubscription
  <2>5. attachments[recording].live => RuntimeLocked
    BY <1>1, <1>4 DEF AInv, OneSubscription, RuntimeLocked
  <2>6. ReportsOnce'
    BY <1>1, <1>2, <1>3, <1>4, <2>5 DEF AInv, ReportsOnce
  <2>7. QED
    BY <2>2, <2>3, <2>4, <2>6 DEF AInv
<1>5. CASE /\ attachments[recording].linked /\ attachments[recording].live
           /\ attachments' = [attachments EXCEPT ![recording].live = FALSE]
           /\ recorder' = "cancel"
  <2> DEFINE a == recording
             mine == [attachments[a] EXCEPT !.live = FALSE]
  <2>1. /\ mine \in Attachment /\ mine.failed = attachments[a].failed
        /\ mine.source = attachments[a].source /\ mine.linked = attachments[a].linked
        /\ ~mine.live /\ mine.reports = attachments[a].reports
    BY <1>1 DEF Attachment
  <2>2. attachments' = [attachments EXCEPT ![a] = mine]
    BY <1>5
  <2>3. /\ attachments' \in Seq(Attachment) /\ Last' = Last /\ Last \in Nat
        /\ DOMAIN attachments = 1..Last /\ DOMAIN attachments' = 1..Last
        /\ attachments'[a] = mine
        /\ \A b \in 1..Last : b # a => attachments'[b] = attachments[b]
    BY <1>1, <2>1, <2>2, OneChanges
  <2> HIDE DEF mine
  <2>4. a = Last /\ attachments[a].source
    BY <1>1, <1>5 DEF AInv, OneSubscription
  <2>5. AttachType'
    BY <1>1, <1>2, <1>5, <2>3 DEF AInv, AttachType
  <2>6. DetachesLast'
    BY <1>2, <1>5, <2>1, <2>3, <2>4 DEF DetachesLast
  <2>7. /\ \A c \in Clients : pc[c] # "link" /\ pc[c] # "cancel"
    BY <1>5, <2>4 DEF AInv, ChangesLast
  <2>8. ChangesLast'
    BY <1>2, <1>5, <2>1, <2>3, <2>4, <2>7 DEF AInv, ChangesLast
  <2>9. OneSubscription'
    BY <1>2, <1>3, <1>5, <2>1, <2>3, <2>4 DEF AInv, OneSubscription
  <2>10. ReportsOnce'
    <3>1. attachments[a].failed /\ attachments[a].reports = 1
      BY <1>1 DEF AInv, ReportsOnce
    <3>2. QED
      BY <1>1, <1>2, <1>3, <1>5, <2>1, <2>3, <3>1 DEF AInv, ReportsOnce
  <2>11. QED
    BY <2>5, <2>6, <2>8, <2>9, <2>10 DEF AInv
<1>6. QED
  BY <1>4, <1>5 DEF Detach

\* Whoever ended the last attachment takes its subscription back.
LEMMA UnsubscribeKeeps ==
  ASSUME AInv, ~RuntimeLocked, Last # 0, ~attachments[Last].live,
         recorder' = recorder \/ (recorder = "cancel" /\ recorder' = "idle"),
         recorder' # "cancel", recording' = recording,
         Unsubscribe(Last),
         \A c \in Clients : pc'[c] \notin {"link", "register", "cancel"}
  PROVE  AInv'
<1> DEFINE a == Last
           mine == [attachments[a] EXCEPT !.source = FALSE]
<1>1. /\ attachments \in Seq(Attachment) /\ a \in DOMAIN attachments
      /\ attachments[a] \in Attachment
  <2>1. attachments \in Seq(Attachment)
    BY DEF AInv, AttachType
  <2>2. Len(attachments) \in Nat /\ DOMAIN attachments = 1..Len(attachments)
    BY <2>1
  <2>3. QED
    BY <2>1, <2>2 DEF Last
<1>2. /\ mine \in Attachment /\ ~mine.source /\ mine.failed = attachments[a].failed
      /\ mine.linked = attachments[a].linked /\ ~mine.live
      /\ mine.reports = attachments[a].reports
  BY <1>1 DEF Attachment
<1>3. attachments' = [attachments EXCEPT ![a] = mine] /\ attached' = 0
  BY DEF Unsubscribe
<1>4. /\ attachments' \in Seq(Attachment) /\ Last' = a /\ Last \in Nat
      /\ DOMAIN attachments = 1..Last /\ DOMAIN attachments' = 1..Last
      /\ attachments'[a] = mine
      /\ \A b \in 1..Last : b # a => attachments'[b] = attachments[b]
  BY <1>1, <1>2, <1>3, OneChanges
<1> HIDE DEF mine, a
<1>5. a = Last
  BY DEF a
<1>6. ~RuntimeLocked'
  BY DEF RuntimeLocked
<1>7. AttachType'
  BY <1>3, <1>4 DEF AInv, AttachType
<1>8. ChangesLast' /\ DetachesLast'
  BY DEF ChangesLast, DetachesLast
<1>9. \A b \in 1..Last : attachments[b].linked
  BY <1>4 DEF AInv, OneSubscription, RuntimeLocked
<1>10. OneSubscription'
  <2>1. \A b \in 1..Last : /\ ~attachments'[b].source /\ ~attachments'[b].live
                           /\ attachments'[b].linked
    BY <1>1, <1>2, <1>4, <1>5, <1>9 DEF AInv, OneSubscription
  <2>2. QED
    BY <1>3, <1>4, <2>1 DEF OneSubscription
<1>11. ReportsOnce'
  <2>1. \A b \in 1..Last : /\ attachments'[b].failed = attachments[b].failed
                           /\ attachments'[b].reports = attachments[b].reports
                           /\ ~attachments'[b].live
    BY <1>1, <1>2, <1>4, <1>5 DEF AInv, OneSubscription
  <2>2. QED
    BY <1>4, <2>1 DEF AInv, ReportsOnce
<1>12. QED
  BY <1>7, <1>8, <1>10, <1>11 DEF AInv

LEMMA FinishesKeep ==
  ASSUME AInv, pc \in [Clients -> {"idle", "link", "register", "cancel", "flush",
                                   "flushed", "join", "check"}],
         FinishDetach \/ \E c \in Clients : FinishCancel(c)
  PROVE  AInv'
<1>1. CASE FinishDetach
  <2>1. /\ recorder = "cancel" /\ ~RuntimeLocked /\ recording = Last
        /\ ~attachments[Last].live /\ pc' = pc /\ recording' = recording
        /\ recorder' = "idle" /\ Unsubscribe(Last)
    BY <1>1 DEF FinishDetach, AInv, DetachesLast, clients
  <2>2. Last # 0
    <3>1. recording \in DOMAIN attachments /\ attachments \in Seq(Attachment)
      BY <2>1 DEF AInv, AttachType
    <3>2. recording # 0
      BY <3>1
    <3>3. QED
      BY <2>1, <3>2
  <2>3. \A c \in Clients : pc'[c] \notin {"link", "register", "cancel"}
    BY <2>1 DEF AInv, ChangesLast, RuntimeLocked
  <2>4. QED
    BY <2>1, <2>2, <2>3, UnsubscribeKeeps
<1>2. ASSUME NEW c \in Clients, FinishCancel(c) PROVE AInv'
  <2>1. /\ pc[c] = "cancel" /\ ~RuntimeLocked /\ Unsubscribe(Last)
        /\ recording' = recording /\ recorder' = recorder
        /\ pc' = [pc EXCEPT ![c] = "idle"]
    BY <1>2 DEF FinishCancel, Goto, ingress, Last
  <2>2. Last # 0 /\ ~attachments[Last].live /\ recorder # "cancel"
    BY <2>1 DEF AInv, ChangesLast, OneSubscription
  <2>3. \A d \in Clients : pc'[d] \notin {"link", "register", "cancel"}
    BY <2>1 DEF AInv, ChangesLast, RuntimeLocked
  <2>4. QED
    BY <2>1, <2>2, <2>3, UnsubscribeKeeps
<1>3. QED
  BY <1>1, <1>2

\* add_history() subscribes: whatever was attached before is no longer subscribed.
LEMMA AttachKeeps ==
  ASSUME AInv, NEW c \in Clients, Attach(c),
         pc \in [Clients -> {"idle", "link", "register", "cancel", "flush", "flushed",
                             "join", "check"}]
  PROVE  AInv'
<1> DEFINE new == [source |-> TRUE, linked |-> FALSE, live |-> TRUE, failed |-> FALSE,
                   reports |-> 0]
<1>1. /\ attachments \in Seq(Attachment) /\ new \in Attachment
      /\ attachments' = Append(attachments, new)
  BY DEF AInv, AttachType, Attachment, Attach
<1>2. /\ attachments' \in Seq(Attachment) /\ Last \in Nat /\ Last' = Last + 1
      /\ DOMAIN attachments = 1..Last /\ DOMAIN attachments' = 1..Last'
      /\ \A b \in 1..Last : attachments'[b] = attachments[b]
      /\ attachments'[Last'] = new
  <2>1. /\ Append(attachments, new) \in Seq(Attachment)
        /\ Len(Append(attachments, new)) = Len(attachments) + 1
        /\ \A b \in 1..Len(attachments) : Append(attachments, new)[b] = attachments[b]
        /\ Append(attachments, new)[Len(attachments) + 1] = new
    BY <1>1, AppendProperties
  <2>2. QED
    BY <1>1, <2>1 DEF Last
<1>3. \A b \in 1..Last' : b \in 1..Last \/ b = Last'
  BY <1>2
<1>4. /\ new.source /\ ~new.linked /\ new.live /\ ~new.failed /\ new.reports = 0
  OBVIOUS
<1> HIDE DEF new
<1>5. /\ ~RuntimeLocked /\ attached = 0 /\ attached' = 0 /\ recorder' = recorder
      /\ recording' = recording /\ pc' = [pc EXCEPT ![c] = "link"]
  BY DEF Attach, Goto, ingress
<1>6. RuntimeLocked' /\ pc'[c] = "link" /\ \A d \in Clients : d # c => pc'[d] = pc[d]
  BY <1>5 DEF RuntimeLocked
<1>7. \A d \in Clients : pc[d] \notin {"link", "register", "cancel"}
  BY <1>5 DEF AInv, ChangesLast, RuntimeLocked
<1>8. \A b \in 1..Last : ~attachments[b].source /\ ~attachments[b].live
                         /\ attachments[b].linked
  <2>1. \A b \in 1..Last : b # 0
    BY <1>2
  <2>2. QED
    BY <1>2, <1>5, <1>7, <2>1 DEF AInv, OneSubscription
<1>9. recorder # "cancel"
  <2>1. SUFFICES ASSUME recorder = "cancel" PROVE FALSE
    OBVIOUS
  <2>2. recording \in 1..Last /\ recording = Last /\ attachments[Last].source
    BY <1>2, <2>1 DEF AInv, AttachType, DetachesLast
  <2>3. QED
    BY <1>8, <2>2
<1>10. AttachType'
  <2>1. \A b \in 1..Last : b \in 1..Last'
    BY <1>2
  <2>2. QED
    BY <1>2, <1>5, <2>1 DEF AInv, AttachType
<1>11. ChangesLast'
  <2>1. Last' > 0
    BY <1>2
  <2>2. QED
    BY <1>2, <1>4, <1>5, <1>6, <1>7, <2>1 DEF ChangesLast
<1>12. DetachesLast'
  BY <1>5, <1>9 DEF DetachesLast
<1>13. OneSubscription'
  BY <1>2, <1>3, <1>4, <1>5, <1>6, <1>8 DEF OneSubscription
<1>14. ReportsOnce'
  <2>1. recorder # "idle" => recording # Last'
    BY <1>2 DEF AInv, AttachType
  <2>2. QED
    BY <1>2, <1>3, <1>4, <1>5, <1>6, <2>1 DEF AInv, ReportsOnce
<1>15. QED
  BY <1>10, <1>11, <1>12, <1>13, <1>14 DEF AInv

\* add_history() links the subscription, so that record() can cancel it.
LEMMA LinkKeeps ==
  ASSUME AInv, NEW c \in Clients, Link(c),
         pc \in [Clients -> {"idle", "link", "register", "cancel", "flush", "flushed",
                             "join", "check"}]
  PROVE  AInv'
<1> DEFINE a == Last
           mine == [attachments[a] EXCEPT !.linked = TRUE]
<1>1. /\ pc[c] = "link" /\ a > 0 /\ attachments[a].source /\ attachments[a].live
      /\ attached = 0
  BY DEF AInv, ChangesLast, Link
<1>2. /\ attachments \in Seq(Attachment) /\ a \in DOMAIN attachments
      /\ attachments[a] \in Attachment
  <2>1. attachments \in Seq(Attachment)
    BY DEF AInv, AttachType
  <2>2. Len(attachments) \in Nat /\ DOMAIN attachments = 1..Len(attachments)
    BY <2>1
  <2>3. QED
    BY <1>1, <2>1, <2>2 DEF Last
<1>3. /\ mine \in Attachment /\ mine.source /\ mine.linked /\ mine.live
      /\ mine.failed = attachments[a].failed /\ mine.reports = attachments[a].reports
  BY <1>1, <1>2 DEF Attachment
<1>4. attachments' = [attachments EXCEPT ![a] = mine]
  BY DEF Link, Last
<1>5. /\ attachments' \in Seq(Attachment) /\ Last' = Last /\ Last \in Nat
      /\ DOMAIN attachments = 1..Last /\ DOMAIN attachments' = 1..Last
      /\ attachments'[a] = mine
      /\ \A b \in 1..Last : b # a => attachments'[b] = attachments[b]
  BY <1>2, <1>3, <1>4, OneChanges
<1> HIDE DEF mine, a
<1>6. a = Last
  BY DEF a
<1>7. /\ recorder' = recorder /\ recording' = recording /\ attached' = 0
      /\ pc' = [pc EXCEPT ![c] = "register"]
  BY <1>1 DEF Link, Goto, ingress
<1>8. /\ pc'[c] = "register" /\ RuntimeLocked'
      /\ \A d \in Clients : d # c => pc'[d] = pc[d]
  BY <1>7 DEF RuntimeLocked
<1>9. \A d \in Clients : d # c => pc'[d] \notin {"link", "register", "cancel"}
  BY <1>1, <1>8 DEF AInv, ChangesLast
<1>10. recorder # "cancel"
  BY <1>1, <1>6 DEF AInv, DetachesLast
<1>11. AttachType'
  BY <1>5, <1>7 DEF AInv, AttachType
<1>12. ChangesLast'
  BY <1>1, <1>3, <1>5, <1>6, <1>7, <1>8, <1>9 DEF ChangesLast
<1>13. DetachesLast'
  BY <1>7, <1>10 DEF DetachesLast
<1>14. OneSubscription'
  <2>1. \A b \in 1..Last : b # a => /\ ~attachments[b].source /\ ~attachments[b].live
                                    /\ attachments[b].linked
    BY <1>5, <1>6 DEF AInv, OneSubscription
  <2>2. QED
    BY <1>3, <1>5, <1>6, <1>7, <1>8, <2>1 DEF OneSubscription
<1>15. ReportsOnce'
  BY <1>1, <1>2, <1>3, <1>5, <1>7, <1>8 DEF AInv, ReportsOnce
<1>16. QED
  BY <1>11, <1>12, <1>13, <1>14, <1>15 DEF AInv

\* add_history() registers what it attached, or takes it back if it failed meanwhile.
LEMMA RegisterKeeps ==
  ASSUME AInv, NEW c \in Clients, Register(c),
         pc \in [Clients -> {"idle", "link", "register", "cancel", "flush", "flushed",
                             "join", "check"}]
  PROVE  AInv'
<1>1. /\ pc[c] = "register" /\ Last > 0 /\ attachments[Last].source
      /\ attachments[Last].linked /\ attached = 0
  BY DEF AInv, ChangesLast, Register
<1>2. /\ attachments \in Seq(Attachment) /\ Last \in DOMAIN attachments /\ Last \in Nat
      /\ attachments[Last] \in Attachment
  <2>1. attachments \in Seq(Attachment)
    BY DEF AInv, AttachType
  <2>2. Len(attachments) \in Nat /\ DOMAIN attachments = 1..Len(attachments)
    BY <2>1
  <2>3. QED
    BY <1>1, <2>1, <2>2 DEF Last
<1>3. /\ recorder' = recorder /\ recording' = recording
      /\ pc' = [pc EXCEPT ![c] = "idle"]
  BY DEF Register, Goto, ingress
<1>4. pc'[c] = "idle" /\ \A d \in Clients : d # c => pc'[d] = pc[d]
  BY <1>3
<1>5. \A d \in Clients : pc'[d] \notin {"link", "register", "cancel"}
  BY <1>1, <1>4 DEF AInv, ChangesLast
<1>6. \A d \in Clients : pc[d] # "cancel" /\ pc[d] # "link"
  BY <1>1, <1>4, <1>5
<1>7. \A b \in DOMAIN attachments : attachments[b].linked
  BY <1>6 DEF AInv, OneSubscription
<1>8. ~RuntimeLocked'
  BY <1>5 DEF RuntimeLocked
<1>9. ChangesLast'
  BY <1>5 DEF ChangesLast
<1>10. CASE /\ ~attachments[Last].failed \/ ~attachments[Last].live
            /\ attached' = Last /\ attachments' = attachments
  <2>1. Last' = Last
    BY <1>10 DEF Last
  <2>2. AttachType'
    BY <1>2, <1>3, <1>10 DEF AInv, AttachType
  <2>3. DetachesLast'
    BY <1>3, <1>10, <2>1 DEF AInv, DetachesLast
  <2>4. OneSubscription'
    BY <1>1, <1>3, <1>6, <1>7, <1>10, <2>1 DEF AInv, OneSubscription
  <2>5. \A b \in DOMAIN attachments : ~attachments[b].failed \/ ~attachments[b].live
    BY <1>10 DEF AInv, OneSubscription
  <2>6. ReportsOnce'
    BY <1>3, <1>10, <2>5 DEF AInv, ReportsOnce
  <2>7. QED
    BY <1>9, <2>2, <2>3, <2>4, <2>6 DEF AInv
<1>11. CASE /\ attachments[Last].failed /\ attachments[Last].live
            /\ attached' = 0
            /\ attachments' = [attachments EXCEPT ![Last].live = FALSE,
                                                  ![Last].source = FALSE]
  <2> DEFINE a == Last
             mine == [attachments[a] EXCEPT !.live = FALSE, !.source = FALSE]
  <2>1. /\ mine \in Attachment /\ ~mine.source /\ mine.linked /\ ~mine.live
        /\ mine.failed = attachments[a].failed /\ mine.reports = attachments[a].reports
    BY <1>1, <1>2 DEF Attachment
  <2>2. attachments' = [attachments EXCEPT ![a] = mine]
    BY <1>2, <1>11
  <2>3. /\ attachments' \in Seq(Attachment) /\ Last' = Last /\ Last \in Nat
        /\ DOMAIN attachments = 1..Last /\ DOMAIN attachments' = 1..Last
        /\ attachments'[a] = mine
        /\ \A b \in 1..Last : b # a => attachments'[b] = attachments[b]
    BY <1>2, <2>1, <2>2, OneChanges
  <2> HIDE DEF mine, a
  <2>4. a = Last
    BY DEF a
  <2>5. \A b \in 1..Last : ~attachments'[b].source /\ ~attachments'[b].live
                           /\ attachments'[b].linked
    BY <1>7, <2>1, <2>3, <2>4 DEF AInv, OneSubscription
  <2>6. AttachType'
    BY <1>3, <1>11, <2>3 DEF AInv, AttachType
  <2>7. DetachesLast'
    BY <1>3, <1>11 DEF AInv, DetachesLast
  <2>8. OneSubscription'
    BY <1>11, <2>3, <2>5 DEF OneSubscription
  <2>9. ReportsOnce'
    BY <1>2, <1>3, <2>1, <2>3, <2>4, <2>5 DEF AInv, ReportsOnce
  <2>10. QED
    BY <1>9, <2>6, <2>7, <2>8, <2>9 DEF AInv
<1>12. QED
  BY <1>10, <1>11 DEF Register, Last

\* The owner, or the runtime's close(), ends the attachment.
LEMMA CancelKeeps ==
  ASSUME AInv, NEW c \in Clients, Cancel(c),
         pc \in [Clients -> {"idle", "link", "register", "cancel", "flush", "flushed",
                             "join", "check"}]
  PROVE  AInv'
<1> DEFINE a == Last
           mine == [attachments[a] EXCEPT !.live = FALSE]
<1>1. /\ ~RuntimeLocked /\ attached # 0 /\ attached = a /\ attachments[a].live
      /\ attachments[a].source
  BY DEF AInv, OneSubscription, Cancel
<1>2. /\ attachments \in Seq(Attachment) /\ a \in DOMAIN attachments
      /\ attachments[a] \in Attachment
  <2>1. attachments \in Seq(Attachment)
    BY DEF AInv, AttachType
  <2>2. Len(attachments) \in Nat /\ DOMAIN attachments = 1..Len(attachments)
    BY <2>1
  <2>3. QED
    BY <1>1, <2>1, <2>2 DEF Last
<1>3. /\ mine \in Attachment /\ mine.source /\ ~mine.live
      /\ mine.linked = attachments[a].linked
      /\ mine.failed = attachments[a].failed /\ mine.reports = attachments[a].reports
  BY <1>1, <1>2 DEF Attachment
<1>4. attachments' = [attachments EXCEPT ![a] = mine]
  BY <1>1 DEF Cancel
<1>5. /\ attachments' \in Seq(Attachment) /\ Last' = Last /\ Last \in Nat
      /\ DOMAIN attachments = 1..Last /\ DOMAIN attachments' = 1..Last
      /\ attachments'[a] = mine
      /\ \A b \in 1..Last : b # a => attachments'[b] = attachments[b]
  BY <1>2, <1>3, <1>4, OneChanges
<1> HIDE DEF mine, a
<1>6. a = Last
  BY DEF a
<1>7. /\ recorder' = recorder /\ recording' = recording /\ attached' = attached
      /\ pc' = [pc EXCEPT ![c] = "cancel"]
  BY DEF Cancel, Goto, ingress
<1>8. /\ pc'[c] = "cancel" /\ \A d \in Clients : d # c => pc'[d] = pc[d]
  BY <1>7
<1>9. \A d \in Clients : pc[d] \notin {"link", "register", "cancel"}
  BY <1>1, <1>6 DEF AInv, ChangesLast, RuntimeLocked
<1>10. recorder # "cancel"
  BY <1>1, <1>6 DEF AInv, DetachesLast
<1>11. AttachType'
  BY <1>5, <1>7 DEF AInv, AttachType
<1>12. ChangesLast'
  BY <1>1, <1>3, <1>5, <1>6, <1>7, <1>8, <1>9, <1>10 DEF ChangesLast
<1>13. DetachesLast'
  BY <1>7, <1>10 DEF DetachesLast
<1>14. OneSubscription'
  <2>1. \A b \in 1..Last : attachments[b].linked
    BY <1>5, <1>9 DEF AInv, OneSubscription
  <2>2. \A b \in 1..Last : b # a => ~attachments[b].source /\ ~attachments[b].live
    BY <1>5, <1>6 DEF AInv, OneSubscription
  <2>3. \E d \in Clients : pc'[d] = "cancel"
    BY <1>8
  <2>4. QED
    BY <1>1, <1>2, <1>3, <1>5, <1>6, <1>7, <2>1, <2>2, <2>3 DEF OneSubscription
<1>15. ReportsOnce'
  BY <1>1, <1>2, <1>3, <1>5, <1>7 DEF AInv, ReportsOnce
<1>16. QED
  BY <1>11, <1>12, <1>13, <1>14, <1>15 DEF AInv

LEMMA AttachmentsStep ==
  ASSUME HInv, AInv, [Next]_vars PROVE AInv'
<1>0. pc \in [Clients -> {"idle", "link", "register", "cancel", "flush", "flushed",
                          "join", "check"}]
  BY DEF HInv, CoreType
<1>1. CASE WriterStep \/ UNCHANGED vars
  BY <1>1, AttachmentsKept DEF WriterStep, Take, WriteBatch, WriteFails, Settle,
     EndWriter, vars, subscriptions, ingress, clients
<1>2. CASE RouterStep
  BY <1>0, <1>2, DeliverKeeps, AppendKeeps, ReportKeeps, DetachKeeps, FinishesKeep
     DEF RouterStep
<1>3. CASE Reopen
  <2>1. /\ attachments' = <<>> /\ attached' = 0 /\ recorder' = "idle" /\ recording' = 0
        /\ \A c \in Clients : pc'[c] = "idle"
    BY <1>3 DEF Reopen
  <2>2. DOMAIN attachments' = {} /\ Last' = 0 /\ attachments' \in Seq(Attachment)
    BY <2>1 DEF Last
  <2>3. AttachType'
    BY <2>1, <2>2 DEF AttachType
  <2>4. QED
    BY <2>1, <2>2, <2>3 DEF AInv, ChangesLast, DetachesLast, OneSubscription, ReportsOnce
<1>4. ASSUME NEW c \in Clients, ClientStep(c) PROVE AInv'
  <2>1. CASE Attach(c) \/ Link(c) \/ Register(c) \/ Cancel(c) \/ FinishCancel(c)
    BY <1>0, <2>1, AttachKeeps, LinkKeeps, RegisterKeeps, CancelKeeps, FinishesKeep
  <2>2. ASSUME UNCHANGED <<attachments, attached, recorder, recording>>,
               pc[c] \notin {"link", "register", "cancel"}, NEW label,
               label \notin {"link", "register", "cancel"},
               pc' = [pc EXCEPT ![c] = label]
        PROVE  AInv'
    BY <1>0, <2>2, AttachmentsKept
  <2>3. CASE Operation(c)
    BY <2>2, <2>3 DEF Operation, BeginFlush, Goto, subscriptions, ingress
  <2>4. CASE FlushPasses(c)
    BY <2>2, <2>4 DEF FlushPasses, FlushRaises, Return, Goto, subscriptions, ingress
  <2>5. CASE FlushTimesOut(c)
    BY <2>2, <2>5 DEF FlushTimesOut, FlushRaises, Return, Goto, subscriptions, ingress
  <2>6. CASE Complete(c)
    BY <2>2, <2>6 DEF Complete, Return, Goto, subscriptions, ingress
  <2>7. CASE CloseMemory(c)
    BY <2>7, AttachmentsKept DEF CloseMemory, subscriptions, ingress, clients
  <2>8. CASE Close(c) \/ Joined(c) \/ JoinTimesOut(c)
    BY <2>2, <2>8 DEF Close, Joined, JoinTimesOut, BeginFlush, Goto, subscriptions,
       ingress
  <2>9. CASE CheckWriter(c)
    BY <2>2, <2>9 DEF CheckWriter, Return, Goto, subscriptions, ingress
  <2>10. QED
    BY <1>4, <2>1, <2>3, <2>4, <2>5, <2>6, <2>7, <2>8, <2>9 DEF ClientStep
<1>5. QED
  BY <1>1, <1>2, <1>3, <1>4 DEF Next

\* An attachment whose append() fails is reported once, and once the threads that
\* attach and detach are through it is no longer subscribed and the history is
\* free, whoever came first (runtime.py:207-236).
THEOREM FailureDetaches == Spec => []FailureEndsAttachment
<1>1. Init => AInv
  <2>1. SUFFICES ASSUME Init PROVE AInv
    OBVIOUS
  <2>2. /\ attachments = <<>> /\ attached = 0 /\ recorder = "idle" /\ recording = 0
        /\ \A c \in Clients : pc[c] = "idle"
    BY <2>1 DEF Init
  <2>3. DOMAIN attachments = {} /\ Last = 0 /\ attachments \in Seq(Attachment)
    BY <2>2 DEF Last
  <2>4. AttachType
    BY <2>2, <2>3 DEF AttachType
  <2>5. QED
    BY <2>2, <2>3, <2>4 DEF AInv, ChangesLast, DetachesLast, OneSubscription, ReportsOnce
<1>2. HInv /\ AInv /\ [Next]_vars => AInv'
  BY AttachmentsStep
<1>3. AInv => FailureEndsAttachment
  <2>1. SUFFICES ASSUME AInv, NEW a \in DOMAIN attachments
                 PROVE  LET mine == attachments[a]
                            busy == recorder # "idle" /\ recording = a
                            changing == a = Len(attachments)
                              /\ \E c \in Clients : pc[c] \in {"link", "register", "cancel"}
                        IN /\ mine.reports <= 1
                           /\ mine.failed /\ ~busy => mine.reports = 1
                           /\ mine.failed /\ ~busy /\ ~changing =>
                                ~mine.source /\ attached # a
    BY DEF FailureEndsAttachment
  <2>2. attachments[a].reports <= 1
    BY <2>1 DEF AInv, ReportsOnce
  <2>3. ASSUME attachments[a].failed, ~(recorder # "idle" /\ recording = a)
        PROVE  attachments[a].reports = 1 /\ (attachments[a].live => RuntimeLocked)
    BY <2>1, <2>3 DEF AInv, ReportsOnce
  <2>4. ASSUME attachments[a].failed, ~(recorder # "idle" /\ recording = a),
               ~(a = Len(attachments)
                 /\ \E c \in Clients : pc[c] \in {"link", "register", "cancel"})
        PROVE  ~attachments[a].source /\ attached # a
    <3>1. a # 0
      BY <2>1 DEF AInv, AttachType
    <3>2. ASSUME attachments[a].source PROVE FALSE
      <4>1. a = Last
        BY <2>1, <3>2 DEF AInv, OneSubscription
      <4>2. \A c \in Clients : pc[c] \notin {"link", "register", "cancel"}
        BY <2>4, <4>1 DEF Last
      <4>3. ~attachments[a].live
        BY <2>3, <2>4, <4>2 DEF RuntimeLocked
      <4>4. recorder = "cancel"
        BY <2>1, <3>2, <4>2, <4>3 DEF AInv, OneSubscription
      <4>5. QED
        BY <2>1, <2>4, <4>1, <4>4 DEF AInv, DetachesLast
    <3>3. attached # a
      BY <2>1, <3>1, <3>2 DEF AInv, OneSubscription
    <3>4. QED
      BY <3>2, <3>3
  <2>5. QED
    BY <2>2, <2>3, <2>4
<1>4. QED
  BY <1>1, <1>2, <1>3, HistoryInvariant, PTL DEF Spec
===============================================================================
