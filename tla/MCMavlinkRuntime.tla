-------------------------- MODULE MCMavlinkRuntime ---------------------------
EXTENDS MavlinkRuntime

CONSTANTS c1, c2, c3, reader, monitor, handler

MCThreads == {c1, c2, c3, reader, monitor, handler}

\* Heartbeats of two autopilots and telemetry of the second.
MCKinds == {"hb1", "hb2", "tel2"}
MCSource(kind) == IF kind = "hb1" THEN 1 ELSE 2
MCIsHeartbeat(kind) == kind \in {"hb1", "hb2"}

MCInboxes == {<<"tel2", "hb2">>, <<"hb2", "hb1">>}
OneInbox == {<<"tel2", "hb2">>}

\* What may be called at the same time, from the application and from callbacks.
MCPlans == {
  {<<c1, "start">>, <<c1, "tel2">>, <<monitor, "stop">>},
  {<<c1, "start">>, <<c1, "prune">>, <<c2, "remove">>},
  {<<c1, "start">>, <<reader, "stop">>, <<c2, "reconnect">>},
  {<<c1, "reconnect">>, <<c2, "disconnect">>},
  {<<c1, "start">>, <<handler, "stop">>},
  {<<c1, "start">>, <<c2, "close">>, <<c3, "close">>},
  {<<c1, "start">>, <<c2, "close">>, <<reader, "close">>}
}

\* The clock does not reach the second tick before a command that no timeout
\* concerns is called, nor while close() runs.
ClockWaits ==
  clock = 2 =>
    /\ \A call \in calls :
         call[1] = monitor \/ call[2] \in {"tel2", "prune", "remove"}
    /\ ~closing

\* The handler calls stop() while a client does.
MCHandlerPlans == {{<<c1, "start">>, <<c1, "stop">>, <<handler, "stop">>}}
==============================================================================
