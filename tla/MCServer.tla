------------------------------ MODULE MCServer ------------------------------
(***************************************************************************)
(* Small executions of Server for TLC: what the requests of each run carry.*)
(***************************************************************************)
EXTENDS Server, TLC

CONSTANTS r1, r2, r3, r4, r5, d1, d2, a1, a2, e1, e2

TrackCall(token, device, batch) ==
    [kind |-> "track", token |-> token, device |-> device, anonymous_id |-> a1,
     user |-> Null, valid |-> TRUE, batch |-> batch]

DeviceCall(token, device) ==
    [kind |-> "device", token |-> token, device |-> device, anonymous_id |-> a1,
     user |-> Null, valid |-> TRUE, batch |-> <<>>]

IdentifyCall(token, device, anonymous_id) ==
    [kind |-> "identify", token |-> token, device |-> device,
     anonymous_id |-> anonymous_id, user |-> Null, valid |-> TRUE, batch |-> <<>>]

Malformed(call) == [call EXCEPT !.valid = FALSE]

Event(id, body) == [id |-> id, body |-> body]

\* Device d1 belongs to project 1, d2 to project 2, or both to none yet.
RegisteredBoth == [d \in DeviceIds |-> IF d = d1 THEN 1 ELSE 2]
NoneRegistered == [d \in DeviceIds |-> Null]

\* A batch, the same batch again under another token, and a batch of another
\* device that sends one of the ids twice.
RetryCalls ==
    r1 :> TrackCall(1, d1, <<Event(e1, "props"), Event(e2, "plain")>>) @@
    r2 :> TrackCall(2, d1, <<Event(e1, "props"), Event(e2, "plain")>>) @@
    r3 :> TrackCall(2, d2, <<Event(e2, "badprops"), Event(e1, "invalid"), Event(e1, "props")>>)

\* Two calls name the same user of project 1, for different devices, and one a
\* user of project 2, while d1 is registered (anew, if its project is deleted)
\* in project 2 and an event of it is sent.
IdentityCalls ==
    r1 :> IdentifyCall(1, d1, a1) @@
    r2 :> IdentifyCall(2, d2, a2) @@
    r3 :> DeviceCall(2, d1) @@
    r4 :> TrackCall(2, d1, <<Event(e1, "props")>>) @@
    r5 :> IdentifyCall(1, d2, a1)

\* A call under a token that may come to be, and a batch over the limit of 1.
TokenCalls ==
    r1 :> Malformed(DeviceCall(3, d1)) @@
    r2 :> TrackCall(1, d1, <<Event(e1, "plain"), Event(e1, "plain")>>)

ConsoleSymmetry == Permutations(Admins)
=============================================================================
