--------------------------- MODULE MCMavlinkExchange --------------------------
EXTENDS MavlinkExchange

CONSTANTS c1, c2, c3, worker, gcs, uav, gcsReader, uavReader, gcsMonitor, uavMonitor, gcsOwner, uavOwner

MCThreads == {c1, c2, c3, worker, gcsReader, uavReader, gcsMonitor, uavMonitor, gcsOwner, uavOwner}
MCNodeOf(t) == IF t \in {c1, c2, c3, gcsReader, gcsMonitor, gcsOwner} THEN gcs ELSE uav
MCReceiver(n) == IF n = gcs THEN gcsReader ELSE uavReader
MCMonitor(n) == IF n = gcs THEN gcsMonitor ELSE uavMonitor
MCPeer(n) == IF n = gcs THEN uav ELSE gcs

\* Only requests are too large for one fragment.
MCParts(kind) == IF kind = "request" THEN 2 ELSE 1

\* What may be called at the same time on both nodes.
MCPlans == {
  <<{<<c1, "request">>, <<c2, "request">>}, 0>>,
  <<{<<c1, "request">>, <<c3, "request">>}, 0>>,
  <<{<<c1, "request">>}, 3>>,
  <<{<<c1, "request">>, <<gcsOwner, "stop">>, <<gcsOwner, "start">>}, 0>>,
  <<{<<gcsOwner, "stop">>, <<gcsOwner, "start">>, <<gcsMonitor, "round">>}, 0>>,
  <<{<<c1, "request">>, <<uavOwner, "down">>, <<uavOwner, "up">>}, 0>>,
  <<{<<c1, "request">>, <<worker, "dispatcher_stop">>, <<uavOwner, "up">>}, 0>>,
  <<{<<c1, "request">>, <<gcsMonitor, "round">>}, 1>>,
  <<{<<c1, "request">>, <<gcsOwner, "refresh">>}, 2>>
}
==============================================================================
