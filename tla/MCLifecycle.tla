---------------------------- MODULE MCLifecycle -----------------------------
(***************************************************************************)
(* Instances of Lifecycle for TLC.                                         *)
(***************************************************************************)
EXTENDS Lifecycle

CONSTANTS db, cache, api

TwoIds == {db, api}
ThreeIds == {db, cache, api}

\* api needs db
TwoBoot == {<<api, db>>}
\* api needs cache, cache needs db
Chain == {<<api, cache>>, <<cache, db>>}

\* start_and_wait begins with a start_all.
Concurrent == AllOps \ {"start_all", "start_all_with_timeout"}
\* A single task that waits would wait for ever.
Sequential == AllOps \ {"wait"}
StartAndStop == {"start", "stop"}
TimedStart == {"start_all_with_timeout", "start", "stop"}
WaitForStop == {"start_and_wait", "stop_all"}
=============================================================================
