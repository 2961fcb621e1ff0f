---------------------------- MODULE MCAnalytics ----------------------------
(***************************************************************************)
(* A small instance of Analytics for TLC.                                  *)
(***************************************************************************)
EXTENDS Analytics, TLC

CONSTANTS r1, r2, d1, d2, a1, e1, e2, v1, c1

Batch(token, device, events_) ==
    [kind |-> "track", token |-> token, device |-> device, anonymous_id |-> a1,
     user |-> Null, valid |-> TRUE, batch |-> events_]

\* Two devices of one project send an event each, the second also one that the
\* first has sent, with other properties.
TwoDeviceCalls ==
    r1 :> Batch(1, d1, <<[id |-> e1, body |-> "props"]>>) @@
    r2 :> Batch(1, d2, <<[id |-> e1, body |-> "props"], [id |-> e2, body |-> "props"]>>)

BothOfFirst == [d \in DeviceIds |-> 1]
=============================================================================
