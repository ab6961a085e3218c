---------------------------- MODULE MessageHistory ----------------------------
\* A message history attached to a running router (mavlink/history.py,
\* mavlink/recording.py, MavlinkRuntime.add_history).  The router's thread calls
\* record() for each envelope, a writer thread stores batches, and clients
\* flush, query, clear, close, attach and detach the history meanwhile.  The
\* process may end at any moment and another open what it left on the disk.
\*
\* A record is the number of its envelope.  Which rows a query selects, and how
\* a payload is encoded, are left out; that encoding or the database may fail is
\* not.  The writer's flush interval is time: it may take a batch of any size.
EXTENDS Integers, Sequences

CONSTANTS
  Clients,      \* the threads that use the history and the runtime
  Kinds,        \* "memory", "background" (MessageHistory), "sqlite"
  Capacity,     \* queue_capacity of the writer
  BatchSize,    \* batch_size of the writer
  Limit,        \* the retention limit of the history
  MaxRecords,   \* bound: envelopes the router delivers
  MaxAttaches,  \* bound: calls of add_history() in one process
  MaxReopens    \* bound: processes after the first

ASSUME HistoryAssumption ==
  /\ Kinds \subseteq {"memory", "background", "sqlite"}
  /\ Capacity \in Nat \ {0} /\ BatchSize \in Nat \ {0} /\ Limit \in Nat \ {0}
  /\ MaxRecords \in Nat /\ MaxAttaches \in Nat /\ MaxReopens \in Nat

VARIABLES
  kind,         \* which history this is
  stored,       \* _records, or the table of the database: the oldest first
  closed,       \* _closed of the history
  written,      \* auxiliary: the records stored since the last clear()
  cleared,      \* auxiliary: the records of this process that clear() deleted
  queue,        \* _queue of the writer
  batch,        \* the records the writer has taken
  accepted,     \* the records append() took; its length is _submitted
  processed,    \* _processed
  failure,      \* failure is not None
  stopping,     \* _closed of the writer
  writer,       \* where the writer's thread is
  delivered,    \* envelopes the router has delivered so far
  recorder,     \* where the router's thread is in record()
  recording,    \* the attachment whose record() it runs
  attachments,  \* what add_history() made, call by call
  attached,     \* the one in _histories, or 0
  pc,           \* where each client is
  call,         \* the operation that flushes for it
  boundary,     \* what _submitted was when its flush began
  reopens       \* processes after the first

store == <<stored, closed, written, cleared>>
thread == <<queue, batch, accepted, processed, failure, stopping, writer>>
ingress == <<delivered, recorder, recording>>
subscriptions == <<attachments, attached>>
clients == <<pc, call, boundary>>
vars == <<kind, store, thread, ingress, subscriptions, clients, reopens>>

Elements(s) == {s[i] : i \in DOMAIN s}
Least(m, n) == IF m < n THEN m ELSE n

\* A writer that has just been created, with its thread.
WriterInit ==
  /\ queue = <<>> /\ batch = <<>> /\ accepted = <<>> /\ processed = 0
  /\ failure = FALSE /\ stopping = FALSE /\ writer = "wait"

\* A history that has just been opened on the rows that were left, and its writer.
Opened(rows) ==
  /\ stored' = rows /\ written' = rows
  /\ closed' = FALSE /\ cleared' = {}
  /\ queue' = <<>> /\ batch' = <<>> /\ accepted' = <<>> /\ processed' = 0
  /\ failure' = FALSE /\ stopping' = FALSE /\ writer' = "wait"

Init ==
  /\ kind \in Kinds
  /\ stored = <<>> /\ written = <<>> /\ closed = FALSE /\ cleared = {}
  /\ WriterInit
  /\ delivered = 0 /\ recorder = "idle" /\ recording = 0
  /\ attachments = <<>> /\ attached = 0
  /\ pc = [c \in Clients |-> "idle"]
  /\ call = [c \in Clients |-> "flush"]
  /\ boundary = [c \in Clients |-> 0]
  /\ reopens = 0

\* The newest Limit records: what deque(maxlen) and _trim() leave.
Trim(rows) ==
  IF Len(rows) <= Limit THEN rows ELSE SubSeq(rows, Len(rows) - Limit + 1, Len(rows))

\* _append_batch() and _write_batch(): all of the batch or, if encoding or the
\* database fails, nothing of it.
Store(rows) ==
  /\ stored' = Trim(stored \o rows)
  /\ written' = written \o rows
  /\ UNCHANGED <<closed, cleared>>

-------------------------------------------------------------------------------
\* The writer's thread (HistoryWriter._run).

Take ==
  /\ kind # "memory" /\ writer = "wait" /\ queue # <<>>
  /\ LET n == Least(Len(queue), BatchSize) IN
       /\ batch' = SubSeq(queue, 1, n)
       /\ queue' = SubSeq(queue, n + 1, Len(queue))
  /\ writer' = "write"
  /\ UNCHANGED <<kind, store, accepted, processed, failure, stopping, ingress,
                 subscriptions, clients, reopens>>

WriteBatch ==
  /\ writer = "write" /\ ~closed
  /\ Store(batch)
  /\ writer' = "settle"
  /\ UNCHANGED <<kind, queue, batch, accepted, processed, failure, stopping,
                 ingress, subscriptions, clients, reopens>>

\* Mutant: a batch that could not be written is put back, behind what came since.
WriteRetries ==
  /\ writer = "write"
  /\ queue' = queue \o batch
  /\ failure' = TRUE
  /\ batch' = <<>>
  /\ writer' = "wait"
  /\ UNCHANGED <<kind, store, accepted, processed, stopping, ingress,
                 subscriptions, clients, reopens>>

\* A batch that cannot be encoded, a database error, or a closed history.
WriteFails ==
  /\ writer = "write"
  /\ failure' = TRUE
  /\ writer' = "settle"
  /\ UNCHANGED <<kind, store, queue, batch, accepted, processed, stopping,
                 ingress, subscriptions, clients, reopens>>

Settle ==
  /\ writer = "settle"
  /\ processed' = processed + Len(batch)
  /\ batch' = <<>>
  /\ writer' = "wait"
  /\ UNCHANGED <<kind, store, queue, accepted, failure, stopping, ingress,
                 subscriptions, clients, reopens>>

EndWriter ==
  /\ writer = "wait" /\ queue = <<>> /\ stopping
  /\ writer' = "ended"
  /\ UNCHANGED <<kind, store, queue, batch, accepted, processed, failure, stopping,
                 ingress, subscriptions, clients, reopens>>

WriterStep == Take \/ WriteBatch \/ WriteFails \/ Settle \/ EndWriter

-------------------------------------------------------------------------------
\* The router's thread: the next envelope, and record() if one is subscribed.

Deliver ==
  /\ recorder = "idle" /\ delivered < MaxRecords
  /\ delivered' = delivered + 1
  /\ \/ \E a \in DOMAIN attachments :
          /\ attachments[a].source /\ ~attachments[a].failed
          /\ recorder' = "append" /\ recording' = a
     \/ /\ \A a \in DOMAIN attachments :
             attachments[a].source => attachments[a].failed
        /\ UNCHANGED <<recorder, recording>>
  /\ UNCHANGED <<kind, store, thread, subscriptions, clients, reopens>>

\* append() raised: record() remembers it and goes on to report it.
Fails ==
  /\ attachments' = [attachments EXCEPT ![recording].failed = TRUE]
  /\ recorder' = "report"

\* submit(): taken while the writer is open, sound and has room.
Submit ==
  /\ recorder = "append" /\ kind # "memory"
  /\ \/ /\ ~stopping /\ ~failure /\ Len(queue) < Capacity
        /\ queue' = Append(queue, delivered)
        /\ accepted' = Append(accepted, delivered)
        /\ recorder' = "idle"
        /\ UNCHANGED <<failure, attachments>>
     \/ /\ stopping \/ failure \/ Len(queue) >= Capacity
        /\ failure' = (failure \/ ~stopping)
        /\ Fails
        /\ UNCHANGED <<queue, accepted>>
  /\ UNCHANGED <<kind, store, batch, processed, stopping, writer, delivered,
                 recording, attached, clients, reopens>>

\* append() of a history without a writer.
AppendNow ==
  /\ recorder = "append" /\ kind = "memory"
  /\ \/ /\ ~closed
        /\ Store(<<delivered>>)
        /\ accepted' = Append(accepted, delivered)
        /\ processed' = processed + 1
        /\ recorder' = "idle"
        /\ UNCHANGED attachments
     \/ /\ Fails
        /\ UNCHANGED <<store, accepted, processed>>
  /\ UNCHANGED <<kind, queue, batch, failure, stopping, writer, delivered,
                 recording, attached, clients, reopens>>

Report ==
  /\ recorder = "report"
  /\ attachments' = [attachments EXCEPT ![recording].reports = @ + 1]
  /\ recorder' = "detach"
  /\ UNCHANGED <<kind, store, thread, delivered, recording, attached, clients,
                 reopens>>

\* attached.cancel() of record(): nothing to cancel before add_history() has
\* linked the subscription, or after somebody else began to.
Detach ==
  /\ recorder = "detach"
  /\ LET mine == attachments[recording] IN
       \/ /\ mine.linked /\ mine.live
          /\ attachments' = [attachments EXCEPT ![recording].live = FALSE]
          /\ recorder' = "cancel"
       \/ /\ ~mine.linked \/ ~mine.live
          /\ recorder' = "idle"
          /\ UNCHANGED attachments
  /\ UNCHANGED <<kind, store, thread, delivered, recording, attached, clients,
                 reopens>>

\* The runtime's lock, which add_history() holds from its first step to its last.
RuntimeLocked == \E c \in Clients : pc[c] \in {"link", "register"}

\* cancel() of add_history(), under the lock.
Unsubscribe(a) ==
  /\ attachments' = [attachments EXCEPT ![a].source = FALSE]
  /\ attached' = 0

FinishDetach ==
  /\ recorder = "cancel" /\ ~RuntimeLocked
  /\ Unsubscribe(recording)
  /\ recorder' = "idle"
  /\ UNCHANGED <<kind, store, thread, delivered, recording, clients, reopens>>

RouterStep ==
  Deliver \/ Submit \/ AppendNow \/ Report \/ Detach \/ FinishDetach

-------------------------------------------------------------------------------
\* Clients: attaching and detaching (MavlinkRuntime.add_history).

Goto(c, label) == pc' = [pc EXCEPT ![c] = label]
Return(c) ==
  /\ Goto(c, "idle")
  /\ call' = [call EXCEPT ![c] = "flush"]
  /\ boundary' = [boundary EXCEPT ![c] = 0]

\* router.envelopes.subscribe(record): from now on record() runs.
Attach(c) ==
  /\ pc[c] = "idle" /\ ~RuntimeLocked
  /\ ~closed /\ attached = 0
  /\ Len(attachments) < MaxAttaches
  /\ attachments' = Append(attachments,
       [source |-> TRUE, linked |-> FALSE, live |-> TRUE, failed |-> FALSE,
        reports |-> 0])
  /\ Goto(c, "link")
  /\ UNCHANGED <<kind, store, thread, ingress, attached, call, boundary, reopens>>

\* attachment["subscription"] = subscription
Link(c) ==
  /\ pc[c] = "link"
  /\ attachments' = [attachments EXCEPT ![Len(attachments)].linked = TRUE]
  /\ Goto(c, "register")
  /\ UNCHANGED <<kind, store, thread, ingress, attached, call, boundary, reopens>>

\* Mutant: add_history() does not look whether record() failed before it was through.
RegisterAnyway(c) ==
  /\ pc[c] = "register"
  /\ attached' = Len(attachments)
  /\ Goto(c, "idle")
  /\ UNCHANGED <<kind, store, thread, ingress, attachments, call, boundary,
                 reopens>>

\* self._histories[history] = subscription; if failed: subscription.cancel()
Register(c) ==
  /\ pc[c] = "register"
  /\ LET a == Len(attachments)
         cancels == attachments[a].failed /\ attachments[a].live IN
       /\ attached' = IF cancels THEN 0 ELSE a
       /\ attachments' = IF cancels
            THEN [attachments EXCEPT ![a].live = FALSE, ![a].source = FALSE]
            ELSE attachments
  /\ Goto(c, "idle")
  /\ UNCHANGED <<kind, store, thread, ingress, call, boundary, reopens>>

\* cancel() of the subscription by its owner, or by the runtime's close().
Cancel(c) ==
  /\ pc[c] = "idle" /\ attached # 0 /\ attachments[attached].live
  /\ ~RuntimeLocked
  /\ attachments' = [attachments EXCEPT ![attached].live = FALSE]
  /\ Goto(c, "cancel")
  /\ UNCHANGED <<kind, store, thread, ingress, attached, call, boundary, reopens>>

FinishCancel(c) ==
  /\ pc[c] = "cancel" /\ ~RuntimeLocked
  /\ Unsubscribe(Len(attachments))
  /\ Goto(c, "idle")
  /\ UNCHANGED <<kind, store, thread, ingress, call, boundary, reopens>>

-------------------------------------------------------------------------------
\* Clients: flush(), query(), clear() and close().

BeginFlush(c, operation) ==
  /\ call' = [call EXCEPT ![c] = operation]
  /\ boundary' = [boundary EXCEPT ![c] = Len(accepted)]
  /\ Goto(c, "flush")

Operation(c) ==
  /\ pc[c] = "idle"
  /\ \E operation \in {"flush", "query", "clear"} : BeginFlush(c, operation)
  /\ UNCHANGED <<kind, store, thread, ingress, subscriptions, reopens>>

\* What a raised flush() does to the operation it is part of.
FlushRaises(c) ==
  \/ /\ call[c] = "close"
     /\ Goto(c, "check") /\ UNCHANGED <<call, boundary>>
  \/ call[c] # "close" /\ Return(c)

\* The writer has worked through the boundary; then the failure is looked at.
FlushPasses(c) ==
  /\ pc[c] = "flush" /\ processed >= boundary[c]
  /\ \/ failure /\ FlushRaises(c)
     \/ ~failure /\ Goto(c, "flushed") /\ UNCHANGED <<call, boundary>>
  /\ UNCHANGED <<kind, store, thread, ingress, subscriptions, reopens>>

FlushTimesOut(c) ==
  /\ pc[c] = "flush" /\ processed < boundary[c]
  /\ FlushRaises(c)
  /\ UNCHANGED <<kind, store, thread, ingress, subscriptions, reopens>>

\* What follows the flush.  query() only reads, and raises, like clear(), if
\* the history is closed.
Complete(c) ==
  /\ pc[c] = "flushed"
  /\ \/ /\ call[c] = "clear" /\ ~closed
        /\ stored' = <<>> /\ written' = <<>>
        /\ cleared' = cleared \cup Elements(written)
        /\ UNCHANGED closed
     \/ /\ call[c] = "close"
        /\ closed' = TRUE
        /\ UNCHANGED <<stored, written, cleared>>
     \/ /\ call[c] \in {"flush", "query"} \/ closed
        /\ UNCHANGED store
  /\ Return(c)
  /\ UNCHANGED <<kind, thread, ingress, subscriptions, reopens>>

\* close() of a history without a writer only marks it.
CloseMemory(c) ==
  /\ pc[c] = "idle" /\ kind = "memory"
  /\ closed' = TRUE
  /\ UNCHANGED <<kind, stored, written, cleared, thread, ingress, subscriptions,
                 clients, reopens>>

Close(c) ==
  /\ pc[c] = "idle" /\ kind # "memory"
  /\ stopping' = TRUE
  /\ Goto(c, "join")
  /\ UNCHANGED <<kind, store, queue, batch, accepted, processed, failure, writer,
                 ingress, subscriptions, call, boundary, reopens>>

Joined(c) ==
  /\ pc[c] = "join" /\ writer = "ended"
  /\ BeginFlush(c, "close")
  /\ UNCHANGED <<kind, store, thread, ingress, subscriptions, reopens>>

JoinTimesOut(c) ==
  /\ pc[c] = "join" /\ writer # "ended"
  /\ Goto(c, "check")
  /\ UNCHANGED <<kind, store, thread, ingress, subscriptions, call, boundary,
                 reopens>>

\* Mutant: close() marks the history although its writer is still at work.
CheckWriterBlindly(c) ==
  /\ pc[c] = "check"
  /\ closed' = TRUE
  /\ Return(c)
  /\ UNCHANGED <<kind, stored, written, cleared, thread, ingress, subscriptions,
                 reopens>>

\* The writer's close() raised: the history stays open while the writer runs.
CheckWriter(c) ==
  /\ pc[c] = "check"
  /\ closed' = (closed \/ writer = "ended")
  /\ Return(c)
  /\ UNCHANGED <<kind, stored, written, cleared, thread, ingress, subscriptions,
                 reopens>>

ClientStep(c) ==
  \/ Attach(c) \/ Link(c) \/ Register(c) \/ Cancel(c) \/ FinishCancel(c)
  \/ Operation(c) \/ FlushPasses(c) \/ FlushTimesOut(c) \/ Complete(c)
  \/ CloseMemory(c) \/ Close(c) \/ Joined(c) \/ JoinTimesOut(c) \/ CheckWriter(c)

-------------------------------------------------------------------------------
\* The process ends, in whatever state it is, and another one opens the database
\* with the rows of the transactions that committed.  (A history in memory is
\* gone: the next process is in an initial state.)
Reopen ==
  /\ kind = "sqlite" /\ reopens < MaxReopens
  /\ reopens' = reopens + 1
  /\ Opened(Trim(stored))
  /\ recorder' = "idle" /\ recording' = 0
  /\ attachments' = <<>> /\ attached' = 0
  /\ pc' = [c \in Clients |-> "idle"]
  /\ call' = [c \in Clients |-> "flush"]
  /\ boundary' = [c \in Clients |-> 0]
  /\ UNCHANGED <<kind, delivered>>

Next == WriterStep \/ RouterStep \/ (\E c \in Clients : ClientStep(c)) \/ Reopen

Spec == Init /\ [][Next]_vars
-------------------------------------------------------------------------------
TypeOK ==
  /\ kind \in Kinds
  /\ stored \in Seq(Nat) /\ written \in Seq(Nat) /\ cleared \subseteq Nat
  /\ closed \in BOOLEAN /\ failure \in BOOLEAN /\ stopping \in BOOLEAN
  /\ queue \in Seq(Nat) /\ batch \in Seq(Nat) /\ accepted \in Seq(Nat)
  /\ processed \in Nat /\ delivered \in Nat /\ reopens \in Nat
  /\ writer \in {"wait", "write", "settle", "ended"}
  /\ recorder \in {"idle", "append", "report", "detach", "cancel"}
  /\ attachments \in Seq([source : BOOLEAN, linked : BOOLEAN, live : BOOLEAN,
                          failed : BOOLEAN, reports : Nat])
  /\ recording \in Nat /\ attached \in Nat
  /\ pc \in [Clients -> {"idle", "link", "register", "cancel", "flush", "flushed",
                        "join", "check"}]
  /\ call \in [Clients -> {"flush", "query", "clear", "close"}]
  /\ boundary \in [Clients -> Nat]

\* The first n records append() took were stored, if clear() did not delete
\* them since.
Settled(n) == \A i \in 1..n : accepted[i] \in Elements(written) \cup cleared

\* Loss is reported: of what the writer has worked through, nothing is missing
\* unless the failure says so (recording.py:1, 93-107).
LossIsReported == failure \/ Settled(Least(processed, Len(accepted)))

\* A promise is kept whatever the writer, the router and other callers do
\* meanwhile.  A flush that passed, on its own or in query(), clear() and
\* close(), leaves nothing behind that was appended before it began
\* (recording.py:122-128); and a history that is closed has no writer any more
\* that still holds records (history.py:189-201, docs/en/mavlink.md:364-366).
SettledWhenPromised ==
  /\ \A c \in Clients :
       pc[c] = "flushed" => boundary[c] <= Len(accepted) /\ Settled(boundary[c])
  /\ closed => queue = <<>> /\ batch = <<>> /\ (failure \/ Settled(Len(accepted)))

\* The history holds the newest Limit records stored since the last clear(),
\* each once, in the order in which they were received, those of earlier
\* processes included (history.py:253-255, 279-286).
OldestFirst ==
  /\ stored = Trim(written)
  /\ \A i, j \in DOMAIN written : i < j => written[i] < written[j]

\* A failed append() is reported once, and ends the attachment even if it comes
\* before add_history() has returned or while its owner cancels it: when the
\* threads that do so are through, no envelope goes to that record() and the
\* history can be attached again (runtime.py:207-236, docs/en/mavlink.md:362).
FailureEndsAttachment ==
  \A a \in DOMAIN attachments :
    LET mine == attachments[a]
        busy == recorder # "idle" /\ recording = a
        changing == a = Len(attachments)
                    /\ \E c \in Clients : pc[c] \in {"link", "register", "cancel"}
    IN /\ mine.reports <= 1
       /\ mine.failed /\ ~busy => mine.reports = 1
       /\ mine.failed /\ ~busy /\ ~changing => ~mine.source /\ attached # a

===============================================================================
