---------------------------- MODULE MCCloudLink ----------------------------
(* Instances of CloudLink for TLC.                                         *)
EXTENDS CloudLink

MCSlots == 1 .. 3
NoPlan == [requests |-> 0, attempts |-> 0, faults |-> 0, crashes |-> 0, clicks |-> 0, calls |-> 3,
           owner |-> {}, boot |-> FALSE, portal |-> FALSE]

\* Two clicks of the owner race the device's polls of one request.
DeviceFlow == [NoPlan EXCEPT !.requests = 1, !.faults = 1, !.clicks = 2,
                             !.owner = {"approve", "deny"}]
\* The boot file, answers lost, a restart, the owner confirms or revokes.
BootFile == [NoPlan EXCEPT !.attempts = 3, !.faults = 1, !.crashes = 1, !.clicks = 1,
                           !.owner = {"confirm", "revoke", "revokeFrame"}, !.boot = TRUE]
\* Both flows from the portal, with disconnects.
Portal == [NoPlan EXCEPT !.requests = 1, !.attempts = 1, !.clicks = 1, !.calls = 2,
                         !.owner = {"approve", "lookup"}, !.portal = TRUE]
MCPlans == {DeviceFlow, BootFile, Portal}
=============================================================================
