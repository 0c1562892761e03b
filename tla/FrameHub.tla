------------------------------ MODULE FrameHub ------------------------------
(***************************************************************************)
(* Command delivery to one managed frame: the hub process                  *)
(* (cloud/apps/frame-hub/src/hub.ts), the web routes that queue commands   *)
(* and revoke the frame (cloud/apps/auth-web), and the device at the other *)
(* end of the management socket (frameos/src/frameos/cloud/hub_client.nim).*)
(*                                                                         *)
(* The hub is single threaded but asynchronous: code between two awaits is *)
(* one step, and every awaited database statement is a step of its own     *)
(* that commits at any later moment (the pool has several connections).    *)
(* A session is one accepted WebSocket; it is used once.                   *)
(***************************************************************************)
EXTENDS CommandRows, Sequences

CONSTANTS
  MaxSession,   \* bound: device sockets the hub accepts
  Waker,        \* concurrent wakeSession calls (NOTIFY and sweep)
  Request,      \* concurrent web requests that queue a command
  Superseding,  \* the types whose route calls supersedePendingCommands first
  Verdicts,     \* what the device may answer, a subset of BOOLEAN
  MaxBuffered,  \* commands a socket buffers before the hub backs off
  MaxFaults,    \* bound: connections that break while the hub thinks them open
  MaxAborts,    \* bound: web requests that die between their statements
  MaxCrashes,   \* bound: crashes of the hub process
  MaxIdleWakes, \* bound: wake-ups that find nothing to do
  MayRevoke     \* bound: whether the owner may revoke the frame

ASSUME HubAssumption ==
  /\ MaxSession \in Nat
  /\ Epochs = 0 .. MaxSession
  /\ Superseding \subseteq Kinds
  /\ MaxBuffered \in Nat /\ MaxFaults \in Nat
  /\ MaxAborts \in Nat /\ MaxCrashes \in Nat /\ MaxIdleWakes \in Nat
  /\ Verdicts \subseteq BOOLEAN /\ Verdicts # {}
  /\ MayRevoke \in BOOLEAN

\* Sessions are numbered in the order their sockets are accepted.
Session == 1 .. MaxSession
NoSession == 0

VARIABLES
  (* the database *)
  rows,       \* frame_commands
  connected,  \* frames.connected
  owner,      \* frames.hub_session_id
  revoked,    \* frames.status = 'revoked'
  linkDead,   \* linked_clients.revoked_at is set
  (* the hub's memory *)
  up,         \* the process runs
  live,       \* deviceSessions.get(frame)
  epoch,      \* sessions activated so far: the clock of sent_at
  sock,       \* ws.readyState; "closed" is also session.closed
  act,        \* where the session's activation is
  ready,      \* session.ready
  handled,    \* session.disconnectHandled
  offline,    \* the session's disconnect UPDATE is in flight
  cutoff,     \* activation number, the cutoff of the first redelivery
  drain,      \* the session's drainCommands loop
  wake,       \* the wakeSession calls in progress
  (* the sockets and the device *)
  toDevice,   \* hub -> device, written and not yet read
  toHub,      \* device -> hub, acks not yet handled
  dev,        \* the socket the device is using
  greeted,    \* the device has read `ready` on it
  executed,   \* commands the device has carried out at least once
  shown,      \* per superseding type, the command carried out last
  (* the web process *)
  queued,     \* commands inserted so far
  request,    \* the web requests in progress
  revoking,   \* where revokeFrame is
  (* budgets *)
  faults, aborts, crashes, idleWakes

database == <<rows, connected, owner, revoked, linkDead>>
memory   == <<up, live, epoch, sock, act, ready, handled, offline, cutoff,
              drain, wake>>
device   == <<toDevice, toHub, dev, greeted, executed, shown>>
web      == <<queued, request, revoking>>
budgets  == <<faults, aborts, crashes, idleWakes>>
vars == <<database, memory, device, web, budgets>>

frameRow == <<connected, owner, revoked, linkDead>>

\* On the wire a command is its number; the hub's `ready` message is 0.
Ready == 0
Message == Cmd \cup {Ready}
Ack == [cmd : Cmd, ok : BOOLEAN]

Phase == {"handshake", "check", "claim", "online", "outdated", "requeue",
          "greet", "drain", "finish", "done"}
DrainLoop == [pc : {"idle", "select", "send", "mark"},
              batch : SUBSET Cmd, stamp : Epochs, again : BOOLEAN]
NoDrain == [pc |-> "idle", batch |-> {}, stamp |-> 0, again |-> FALSE]
WakeCall == [pc : {"idle", "check", "kick", "outdated", "requeue"},
             of : Session \cup {NoSession}]
NoWake == [pc |-> "idle", of |-> NoSession]
WebRequest == [pc : {"idle", "supersede", "insert"}, kind : Kinds \cup {"none"}]
NoRequest == [pc |-> "idle", kind |-> "none"]

\* What the hub reads to decide whether a frame may be served.
isFrameRevoked == linkDead \/ revoked

First(S) == CHOOSE c \in S : \A d \in S : c <= d

-----------------------------------------------------------------------------
(* Synchronous pieces of hub code, used by the actions.                    *)

\* ws.close(code, reason): readyState becomes CLOSING.
Closing(state) == IF state = "open" THEN "closing" ELSE state

\* Faulty variant: the session map is cleared whoever holds the frame.
markDisconnectedUnguarded(s) ==
  IF handled[s]
  THEN UNCHANGED <<handled, live, offline>>
  ELSE /\ handled' = [handled EXCEPT ![s] = TRUE]
       /\ live' = NoSession
       /\ offline' = [offline EXCEPT ![s] = TRUE]

\* The part of markDeviceDisconnected before its first await.
markDeviceDisconnected(s) ==
  IF handled[s]
  THEN UNCHANGED <<handled, live, offline>>
  ELSE /\ handled' = [handled EXCEPT ![s] = TRUE]
       /\ live' = IF live = s THEN NoSession ELSE live
       /\ offline' = [offline EXCEPT ![s] = TRUE]

\* The head of drainCommands: one loop per session, a second call during a
\* pass asks for one more pass and returns.
DrainStarts(s) == ready[s] /\ sock[s] # "closed" /\ drain[s].pc = "idle"

drainCommands(s) ==
  drain' = IF DrainStarts(s) THEN [drain EXCEPT ![s].pc = "select"]
           ELSE IF ~ready[s] \/ sock[s] = "closed" THEN drain
           ELSE [drain EXCEPT ![s].again = TRUE]

Advance(s, from, to) ==
  /\ up
  /\ act[s] = from
  /\ act' = [act EXCEPT ![s] = to]

-----------------------------------------------------------------------------
(* A device connects: upgrade, challenge, activation.                      *)

\* handleUpgrade and attachDeviceSocket: the bearer token is accepted.
Connect(s) ==
  /\ up
  /\ dev = NoSession
  /\ sock[s] = "unused" /\ \A t \in 1 .. s - 1 : sock[t] # "unused"
  /\ ~isFrameRevoked
  /\ sock' = [sock EXCEPT ![s] = "open"]
  /\ dev' = s
  /\ greeted' = FALSE
  /\ UNCHANGED <<database, web, budgets, up, live, epoch, act, ready, handled,
                 offline, cutoff, drain, wake, toDevice, toHub, executed,
                 shown>>

\* handleDeviceMessage: hello and a valid auth have arrived.
Authenticate(s) ==
  /\ sock[s] \in {"open", "closing"}
  /\ Advance(s, "handshake", "check")
  /\ UNCHANGED <<database, device, web, budgets, up, live, epoch, sock, ready,
                 handled, offline, cutoff, drain, wake>>

\* The auth timer (4408) or a bad signature (4401): only before ready.
RejectHandshake(s) ==
  /\ up
  /\ sock[s] = "open" /\ ~ready[s]
  /\ faults < MaxFaults
  /\ faults' = faults + 1
  /\ sock' = [sock EXCEPT ![s] = "closing"]
  /\ UNCHANGED <<database, device, web, aborts, crashes, idleWakes, up, live,
                 epoch, act, ready, handled, offline, cutoff, drain, wake>>

\* activateDeviceSession, the revocation recheck: the read ...
ActivateCheck(s) ==
  /\ IF isFrameRevoked
     THEN /\ Advance(s, "check", "done")
          /\ sock' = [sock EXCEPT ![s] = Closing(@)]
     ELSE /\ Advance(s, "check", "claim")
          /\ UNCHANGED sock
  /\ UNCHANGED <<database, device, web, budgets, up, live, epoch, ready,
                 handled, offline, cutoff, drain, wake>>

\* ... and what runs when it returns, up to the next await: the session takes
\* the frame, the previous one is told to close (4409).
ActivateClaim(s) ==
  /\ Advance(s, "claim", "online")
  /\ ready' = [ready EXCEPT ![s] = TRUE]
  /\ sock' = IF live = NoSession THEN sock
             ELSE [sock EXCEPT ![live] = Closing(@)]
  /\ live' = s
  /\ epoch' = epoch + 1
  /\ cutoff' = [cutoff EXCEPT ![s] = epoch + 1]
  /\ UNCHANGED <<database, device, web, budgets, up, handled, offline, drain,
                 wake>>

\* UPDATE frames SET connected = true, hub_session_id = s.
ActivateOnline(s) ==
  /\ Advance(s, "online", "outdated")
  /\ connected' = TRUE
  /\ owner' = s
  /\ UNCHANGED <<rows, revoked, linkDead, device, web, budgets, up, live,
                 epoch, sock, ready, handled, offline, cutoff, drain, wake>>

\* The statements on the queue: expire and drop outdated, then requeue.
ActivateQueue(s) ==
  /\ \/ /\ Advance(s, "outdated", "requeue")
        /\ LET t == expireStaleCommands(rows) IN
             rows' = dropOutdated(t, SentBefore(t, cutoff[s]))
        /\ UNCHANGED cutoff
     \/ /\ Advance(s, "requeue", "greet")
        /\ rows' = requeueLost(rows, SentBefore(rows, cutoff[s]))
        /\ cutoff' = [cutoff EXCEPT ![s] = 0]
  /\ UNCHANGED <<frameRow, device, web, budgets, up, live, epoch, sock, ready,
                 handled, offline, drain, wake>>

\* `ready` is sent if the socket is still open, and the queue is drained; the
\* activation waits for its own loop, but not for one a wake-up has started.
ActivateGreet(s) ==
  /\ Advance(s, "greet", IF DrainStarts(s) THEN "drain" ELSE "finish")
  /\ toDevice' = IF sock[s] = "open"
                 THEN [toDevice EXCEPT ![s] = Append(@, Ready)]
                 ELSE toDevice
  /\ drainCommands(s)
  /\ UNCHANGED <<database, toHub, dev, greeted, executed, shown, web, budgets,
                 up, live, epoch, sock, ready, handled, offline, cutoff, wake>>

\* The end of activation: catch up with a close event that raced past.
ActivateFinish(s) ==
  /\ Advance(s, "finish", "done")
  /\ IF sock[s] = "closed" THEN markDeviceDisconnected(s)
                           ELSE UNCHANGED <<handled, live, offline>>
  /\ UNCHANGED <<database, device, web, budgets, up, epoch, sock, ready,
                 cutoff, drain, wake>>

-----------------------------------------------------------------------------
(* A device disconnects.                                                   *)

\* The ws "close" event.  An open socket breaks within the fault budget, one
\* the device has left is ended by the heartbeat or the auth timer, a closing
\* one always gets there.  Acks still on the wire may be lost, the latest first.
CloseEvent(s) ==
  /\ up
  /\ \/ /\ sock[s] = "open" /\ faults < MaxFaults
        /\ faults' = faults + 1
     \/ /\ sock[s] = "open" /\ dev # s
        /\ UNCHANGED faults
     \/ /\ sock[s] = "closing"
        /\ UNCHANGED faults
  /\ sock' = [sock EXCEPT ![s] = "closed"]
  /\ IF ready[s] THEN markDeviceDisconnected(s)
                 ELSE UNCHANGED <<handled, live, offline>>
  /\ \E n \in 0 .. Len(toHub[s]) :
        toHub' = [toHub EXCEPT ![s] = SubSeq(@, 1, n)]
  /\ UNCHANGED <<database, web, aborts, crashes, idleWakes, up, epoch, act,
                 ready, cutoff, drain, wake, toDevice, dev, greeted, executed, shown>>

\* The guarded UPDATE of markDeviceDisconnected commits.
CommitOffline(s) ==
  /\ up
  /\ offline[s]
  /\ offline' = [offline EXCEPT ![s] = FALSE]
  /\ connected' = IF owner = s THEN FALSE ELSE connected
  /\ UNCHANGED <<rows, owner, revoked, linkDead, device, web, budgets, up,
                 live, epoch, sock, act, ready, handled, cutoff, drain, wake>>

-----------------------------------------------------------------------------
(* The drain loop.                                                         *)

\* What the loop does when the snapshot is used up: one more pass if a call
\* came in meanwhile, else the end.
NextPass(d) == IF d.again THEN [NoDrain EXCEPT !.pc = "select"] ELSE NoDrain

DrainStep(s, from, d) ==
  /\ up
  /\ drain[s].pc = from
  /\ drain' = [drain EXCEPT ![s] = d]
  /\ act' = IF d.pc = "idle" /\ act[s] = "drain"
            THEN [act EXCEPT ![s] = "finish"] ELSE act

\* Expire what is due and take a snapshot of what is pending.
DrainSelect(s) ==
  /\ rows' = expireStaleCommands(rows)
  /\ DrainStep(s, "select",
       IF Pending(rows') = {} THEN NextPass(drain[s])
       ELSE [drain[s] EXCEPT !.pc = "send", !.batch = Pending(rows')])
  /\ UNCHANGED <<frameRow, device, web, budgets, up, live, epoch, sock, ready,
                 handled, offline, cutoff, wake>>

\* One iteration: write the oldest command of the snapshot to the socket, or
\* return early from a socket that is not open or not draining.
DrainSend(s) ==
  /\ IF sock[s] = "open" /\ Len(toDevice[s]) < MaxBuffered
     THEN /\ DrainStep(s, "send",
               [drain[s] EXCEPT !.pc = "mark", !.stamp = epoch])
          /\ toDevice' =
               [toDevice EXCEPT ![s] = Append(@, First(drain[s].batch))]
     ELSE /\ DrainStep(s, "send", NoDrain)
          /\ UNCHANGED toDevice
  /\ UNCHANGED <<database, toHub, dev, greeted, executed, shown, web, budgets,
                 up, live, epoch, sock, ready, handled, offline, cutoff, wake>>

\* UPDATE ... SET status = 'sent' WHERE status = 'pending' commits.
DrainMark(s) ==
  LET c == First(drain[s].batch)
      rest == drain[s].batch \ {c} IN
  /\ DrainStep(s, "mark",
       IF rest = {} THEN NextPass(drain[s])
       ELSE [drain[s] EXCEPT !.pc = "send", !.batch = rest, !.stamp = 0])
  /\ rows' = markSent(rows, c, drain[s].stamp)
  /\ UNCHANGED <<frameRow, device, web, budgets, up, live, epoch, sock, ready,
                 handled, offline, cutoff, wake>>

-----------------------------------------------------------------------------
(* wakeSession: run by a NOTIFY and, for every ready session, by the sweep *)
(* each 30 seconds, so at any moment.                                      *)

WakeStep(w, from, to) ==
  /\ up
  /\ wake[w].pc = from
  /\ wake' = [wake EXCEPT ![w] = to]

\* Faulty variant: only sessions with commands are swept.
CommandsToDo ==
  \E c \in Cmd : rows[c].status = "pending" \/ c \in SentTooLongAgo(rows)

\* When a wake-up matters: all others are bounded by MaxIdleWakes.
WorkToDo ==
  \/ isFrameRevoked
  \/ \E c \in Cmd : rows[c].status = "pending" \/ c \in SentTooLongAgo(rows)

WakeStart(w) ==
  /\ live # NoSession /\ ready[live] /\ sock[live] # "closed"
  /\ \/ WorkToDo /\ UNCHANGED idleWakes
     \/ /\ ~WorkToDo /\ idleWakes < MaxIdleWakes
        /\ idleWakes' = idleWakes + 1
  /\ WakeStep(w, "idle", [pc |-> "check", of |-> live])
  /\ UNCHANGED <<database, device, web, faults, aborts, crashes, up, live, epoch, sock, act,
                 ready, handled, offline, cutoff, drain>>

\* The revocation check; a revoked frame's session is kicked
\* (kickRevokedSession): marked disconnected first, closed once that commits,
\* or at once if the disconnect was already under way.
WakeCheck(w) ==
  LET s == wake[w].of IN
  /\ wake[w].pc = "check"
  /\ IF ~isFrameRevoked
     THEN /\ WakeStep(w, "check", [wake[w] EXCEPT !.pc = "outdated"])
          /\ UNCHANGED <<handled, live, offline, sock>>
     ELSE /\ markDeviceDisconnected(s)
          /\ IF handled[s]
             THEN /\ WakeStep(w, "check", NoWake)
                  /\ sock' = [sock EXCEPT ![s] = Closing(@)]
             ELSE /\ WakeStep(w, "check", [wake[w] EXCEPT !.pc = "kick"])
                  /\ UNCHANGED sock
  /\ UNCHANGED <<database, device, web, budgets, up, epoch, act, ready,
                 cutoff, drain>>

WakeKick(w) ==
  /\ WakeStep(w, "kick", NoWake)
  /\ ~offline[wake[w].of]
  /\ sock' = [sock EXCEPT ![wake[w].of] = Closing(@)]
  /\ UNCHANGED <<database, device, web, budgets, up, live, epoch, act, ready,
                 handled, offline, cutoff, drain>>

\* redeliverSentCommands with the sweep's grace period: its two statements,
\* the drain right after the second.
WakeOutdated(w) ==
  /\ WakeStep(w, "outdated", [wake[w] EXCEPT !.pc = "requeue"])
  /\ rows' = dropOutdated(rows, SentTooLongAgo(rows))
  /\ UNCHANGED <<frameRow, device, web, budgets, up, live, epoch, sock, act,
                 ready, handled, offline, cutoff, drain>>

WakeRequeue(w) ==
  /\ WakeStep(w, "requeue", NoWake)
  /\ rows' = requeueLost(rows, SentTooLongAgo(rows))
  /\ drainCommands(wake[w].of)
  /\ UNCHANGED <<frameRow, device, web, budgets, up, live, epoch, sock, act,
                 ready, handled, offline, cutoff>>

\* The global expiry at the head of runSweep.
SweepExpire ==
  /\ up
  /\ rows' = expireStaleCommands(rows)
  /\ UNCHANGED <<frameRow, memory, device, web, budgets>>

-----------------------------------------------------------------------------
(* The device, and its acks.                                               *)

\* runHandshake drops what it reads before `ready`; after it, every command is
\* carried out and acked (handleCloudVerb).  A repeat is carried out again.
DeviceRead(s) ==
  /\ dev = s
  /\ toDevice[s] # <<>>
  /\ Len(toHub[s]) < MaxBuffered
  /\ LET m == Head(toDevice[s]) IN
       IF m = Ready
       THEN /\ greeted' = TRUE
            /\ UNCHANGED <<toHub, executed, shown>>
       ELSE IF ~greeted
       THEN UNCHANGED <<toHub, greeted, executed, shown>>
       ELSE /\ executed' = executed \cup {m}
            /\ shown' = IF rows[m].kind \in Superseding
                        THEN [shown EXCEPT ![rows[m].kind] = m] ELSE shown
            /\ \E ok \in Verdicts :
                 toHub' = IF sock[s] = "closed" THEN toHub
                          ELSE [toHub EXCEPT
                                  ![s] = Append(@, [cmd |-> m, ok |-> ok])]
            /\ UNCHANGED greeted
  /\ toDevice' = [toDevice EXCEPT ![s] = Tail(@)]
  /\ UNCHANGED <<database, memory, dev, web, budgets>>

\* The device's side of the socket ends: the hub closed it, or the device lost
\* it (idle timeout, reboot) while the hub still thinks it open.
DeviceLeave(s) ==
  /\ dev = s
  /\ \/ /\ sock[s] = "open" /\ faults < MaxFaults
        /\ faults' = faults + 1
     \/ /\ sock[s] # "open"
        /\ UNCHANGED faults
  /\ dev' = NoSession
  /\ greeted' = FALSE
  /\ toDevice' = [toDevice EXCEPT ![s] = <<>>]
  /\ UNCHANGED <<database, memory, toHub, executed, shown, web, aborts,
                 crashes, idleWakes>>

\* handleAck: messages of a session are handled one at a time, in order, and
\* not before the activation they queue behind.  A closed session's backlog
\* is still handled.
HandleAck(s) ==
  /\ up
  /\ act[s] = "done"
  /\ toHub[s] # <<>>
  /\ LET a == Head(toHub[s]) IN rows' = settleAck(rows, a.cmd, a.ok)
  /\ toHub' = [toHub EXCEPT ![s] = Tail(@)]
  /\ UNCHANGED <<frameRow, memory, toDevice, dev, greeted, executed, shown,
                 web, budgets>>

-----------------------------------------------------------------------------
(* The web routes.                                                         *)

\* A route has read the frame row (409 unless it is active).
RequestStart(r, k) ==
  /\ request[r].pc = "idle"
  /\ queued < MaxCmd
  /\ ~revoked
  /\ request' = [request EXCEPT
       ![r] = [pc |-> IF k \in Superseding THEN "supersede" ELSE "insert",
               kind |-> k]]
  /\ UNCHANGED <<database, memory, device, queued, revoking, budgets>>

RequestSupersede(r) ==
  /\ request[r].pc = "supersede"
  /\ rows' = supersedePendingCommands(rows, request[r].kind)
  /\ request' = [request EXCEPT ![r].pc = "insert"]
  /\ UNCHANGED <<frameRow, memory, device, queued, revoking, budgets>>

RequestInsert(r) ==
  /\ request[r].pc = "insert"
  /\ queued < MaxCmd
  /\ rows' = enqueueFrameCommand(rows, queued + 1, request[r].kind)
  /\ queued' = queued + 1
  /\ request' = [request EXCEPT ![r] = NoRequest]
  /\ UNCHANGED <<frameRow, memory, device, revoking, budgets>>

\* The web process dies, or its insert fails, after the supersede committed.
RequestAbort(r) ==
  /\ request[r].pc = "insert"
  /\ aborts < MaxAborts
  /\ aborts' = aborts + 1
  /\ request' = [request EXCEPT ![r] = NoRequest]
  /\ UNCHANGED <<database, memory, device, queued, revoking, faults, crashes,
                 idleWakes>>

\* revokeFrame: three UPDATEs without a transaction.
RevokeLink ==
  /\ MayRevoke /\ revoking = "no"
  /\ revoking' = "frame"
  /\ linkDead' = TRUE
  /\ UNCHANGED <<rows, connected, owner, revoked, memory, device, queued,
                 request, budgets>>

RevokeRow ==
  /\ revoking = "frame"
  /\ revoking' = "commands"
  /\ revoked' = TRUE
  /\ connected' = FALSE
  /\ UNCHANGED <<rows, owner, linkDead, memory, device, queued, request,
                 budgets>>

RevokeCommands ==
  /\ revoking = "commands"
  /\ revoking' = "done"
  /\ rows' = expireRevoked(rows)
  /\ UNCHANGED <<frameRow, memory, device, queued, request, budgets>>

-----------------------------------------------------------------------------
(* Time, and the hub process.                                              *)

TtlPasses(c) ==
  /\ rows[c].status \in Live /\ rows[c].kind \in Timed /\ ~rows[c].due
  /\ rows' = passTtl(rows, c)
  /\ UNCHANGED <<frameRow, memory, device, web, budgets>>

\* The grace period (3 minutes) is far longer than a statement takes: it does
\* not end in the middle of an activation, of a drain that has a snapshot, or
\* between the two statements of a redelivery or of a web request.
GracePasses(c) ==
  /\ rows[c].status = "sent" /\ ~rows[c].overdue
  /\ \A w \in Waker : wake[w].pc # "requeue"
  /\ \A r \in Request : request[r].pc # "insert"
  /\ \A s \in Session : /\ act[s] \in {"handshake", "done"}
                        /\ drain[s].batch = {}
  /\ rows' = passGrace(rows, c)
  /\ UNCHANGED <<frameRow, memory, device, web, budgets>>

\* The process dies: memory, sockets and statements in flight are gone.
Crash ==
  /\ up
  /\ crashes < MaxCrashes
  /\ crashes' = crashes + 1
  /\ up' = FALSE
  /\ live' = NoSession
  /\ sock' = [s \in Session |-> IF sock[s] = "unused" THEN "unused"
                                                     ELSE "closed"]
  /\ act' = [s \in Session |-> IF sock[s] = "unused" THEN act[s] ELSE "done"]
  /\ offline' = [s \in Session |-> FALSE]
  /\ drain' = [s \in Session |-> NoDrain]
  /\ wake' = [w \in Waker |-> NoWake]
  /\ toHub' = [s \in Session |-> <<>>]
  /\ UNCHANGED <<database, epoch, ready, handled, cutoff, toDevice, dev,
                 greeted, executed, shown, web, faults, aborts, idleWakes>>

\* startHub: no session can be live, so every connected row is cleared.
Boot ==
  /\ ~up
  /\ up' = TRUE
  /\ connected' = FALSE
  /\ owner' = IF connected THEN NoSession ELSE owner
  /\ UNCHANGED <<rows, revoked, linkDead, live, epoch, sock, act, ready,
                 handled, offline, cutoff, drain, wake, device, web, budgets>>

-----------------------------------------------------------------------------

Init ==
  /\ rows = EmptyTable
  /\ connected = FALSE /\ owner = NoSession
  /\ revoked = FALSE /\ linkDead = FALSE
  /\ up = TRUE /\ live = NoSession /\ epoch = 0
  /\ sock = [s \in Session |-> "unused"]
  /\ act = [s \in Session |-> "handshake"]
  /\ ready = [s \in Session |-> FALSE]
  /\ handled = [s \in Session |-> FALSE]
  /\ offline = [s \in Session |-> FALSE]
  /\ cutoff = [s \in Session |-> 0]
  /\ drain = [s \in Session |-> NoDrain]
  /\ wake = [w \in Waker |-> NoWake]
  /\ toDevice = [s \in Session |-> <<>>]
  /\ toHub = [s \in Session |-> <<>>]
  /\ dev = NoSession /\ greeted = FALSE
  /\ executed = {}
  /\ shown = [k \in Superseding |-> 0]
  /\ queued = 0
  /\ request = [r \in Request |-> NoRequest]
  /\ revoking = "no"
  /\ faults = 0 /\ aborts = 0 /\ crashes = 0 /\ idleWakes = 0

Activation(s) ==
  \/ Authenticate(s) \/ ActivateCheck(s) \/ ActivateClaim(s)
  \/ ActivateOnline(s) \/ ActivateQueue(s) \/ ActivateGreet(s)
  \/ ActivateFinish(s)

Drain(s) ==
  DrainSelect(s) \/ DrainSend(s) \/ DrainMark(s)

Wake(w) ==
  \/ WakeStart(w) \/ WakeCheck(w) \/ WakeKick(w)
  \/ WakeOutdated(w) \/ WakeRequeue(w)

Requests(r) ==
  \/ \E k \in Kinds : RequestStart(r, k)
  \/ RequestSupersede(r) \/ RequestInsert(r) \/ RequestAbort(r)

Revoke == RevokeLink \/ RevokeRow \/ RevokeCommands

Next ==
  \/ \E s \in Session :
       \/ Connect(s) \/ RejectHandshake(s) \/ Activation(s)
       \/ CloseEvent(s) \/ CommitOffline(s) \/ Drain(s)
       \/ DeviceRead(s) \/ DeviceLeave(s) \/ HandleAck(s)
  \/ \E w \in Waker : Wake(w)
  \/ \E r \in Request : Requests(r)
  \/ SweepExpire
  \/ Revoke
  \/ \E c \in Cmd : TtlPasses(c) \/ GracePasses(c)
  \/ Crash \/ Boot

Spec == Init /\ [][Next]_vars
-----------------------------------------------------------------------------
(* Fairness.  A statement that was issued commits, code that may run runs  *)
(* (the hub is an event loop), a closing socket closes, the sweep timer    *)
(* wakes every ready session again and again, and the grace period ends.   *)
(* The device redials while it has no socket, answers the challenge, reads *)
(* what arrives and notices a socket the hub has closed.  Faults, new      *)
(* requests and revocation are never forced.                               *)
Closes(s) == (sock[s] = "closing" \/ dev # s) /\ CloseEvent(s)
NoticesClose(s) == sock[s] # "open" /\ DeviceLeave(s)

Fairness ==
  /\ \A s \in Session :
       /\ WF_vars(Activation(s)) /\ WF_vars(Drain(s)) /\ WF_vars(CommitOffline(s))
       /\ WF_vars(HandleAck(s)) /\ WF_vars(Closes(s))
       /\ WF_vars(Connect(s)) /\ WF_vars(DeviceRead(s)) /\ WF_vars(NoticesClose(s))
  /\ \A w \in Waker : WF_vars(Wake(w))
  /\ \A r \in Request : WF_vars(RequestSupersede(r) \/ RequestInsert(r))
  /\ \A c \in Cmd : WF_vars(GracePasses(c))
  /\ WF_vars(SweepExpire) /\ WF_vars(Boot)

FairSpec == Spec /\ Fairness

-----------------------------------------------------------------------------
(* Properties.                                                             *)

DatabaseTypeOK ==
  /\ rows \in Table
  /\ connected \in BOOLEAN /\ owner \in Session \cup {NoSession}
  /\ revoked \in BOOLEAN /\ linkDead \in BOOLEAN

MemoryTypeOK ==
  /\ up \in BOOLEAN /\ live \in Session \cup {NoSession} /\ epoch \in Nat
  /\ sock \in [Session -> {"unused", "open", "closing", "closed"}]
  /\ act \in [Session -> Phase]
  /\ ready \in [Session -> BOOLEAN] /\ handled \in [Session -> BOOLEAN]
  /\ offline \in [Session -> BOOLEAN]
  /\ cutoff \in [Session -> Epochs]
  /\ drain \in [Session -> DrainLoop]
  /\ wake \in [Waker -> WakeCall]

DeviceTypeOK ==
  /\ toDevice \in [Session -> Seq(Message)]
  /\ toHub \in [Session -> Seq(Ack)]
  /\ dev \in Session \cup {NoSession} /\ greeted \in BOOLEAN
  /\ executed \in SUBSET Cmd
  /\ shown \in [Superseding -> 0 .. MaxCmd]

WebTypeOK ==
  /\ queued \in 0 .. MaxCmd
  /\ request \in [Request -> WebRequest]
  /\ revoking \in {"no", "frame", "commands", "done"}
  /\ faults \in Nat /\ aborts \in Nat /\ crashes \in Nat /\ idleWakes \in Nat

\* Every variable keeps its type.
TypeOK == DatabaseTypeOK /\ MemoryTypeOK /\ DeviceTypeOK /\ WebTypeOK

\* A command that was settled stays as it was settled: no late ack, stale drain
\* snapshot, redelivery, supersede or revocation touches the row again.
SettledIsFinal ==
  [][\A c \in Cmd : rows[c].status \in Settled => rows'[c] = rows[c]]_vars

\* A command shows a verdict of the device only if the device carried it out,
\* whatever sockets broke, were superseded or were redelivered to.
VerdictMeansExecuted ==
  \A c \in Cmd : rows[c].status \in {"acked", "failed"} => c \in executed

\* A frame has one live socket: an activated session whose socket is open and
\* that is not being kicked is the one deviceSessions holds, even when an old
\* session's activation resumes late.
OneLiveSocket ==
  \A s \in Session :
    ready[s] /\ sock[s] = "open" /\ ~handled[s] => live = s

\* A row dropped as superseded has, or is about to get, a newer command of its
\* type (as long as the request that replaces it does not die half way).
SupersededHasSuccessor ==
  \A c \in Cmd : rows[c].error = "superseded" =>
    \/ \E d \in Cmd : d > c /\ rows[d].kind = rows[c].kind
    \/ \E r \in Request : request[r].pc = "insert"
                          /\ request[r].kind = rows[c].kind

\* The device never goes back from a newer to an older payload of a type whose
\* route supersedes.  It holds as long as no two requests interleave (README,
\* findings).
NeverRollBack == [][\A k \in Superseding : shown'[k] >= shown[k]]_vars

\* A revoked frame loses its live session for good.
RevokedGoesDark == revoked ~> [](live = NoSession)

\* Every queued command is settled in the end, unless the frame is revoked or
\* the device has no socket left to redial with (the model's bound).
OutOfSockets == dev = NoSession /\ \A s \in Session : sock[s] # "unused"

EveryCommandSettles ==
  \A c \in Cmd : rows[c].status \in Live
                  ~> rows[c].status \in Settled \/ isFrameRevoked \/ OutOfSockets

-----------------------------------------------------------------------------
(* FrameHub implements CommandContract.                                    *)

PublicName(status) == IF status \in Live THEN "queued"
                      ELSE IF status = "expired" THEN "dropped" ELSE status

publicStatus == [c \in Cmd |-> PublicName(rows[c].status)]

Contract == INSTANCE CommandContract WITH status <- publicStatus

\* Every statement of the web, of the hub and every message of the device is a
\* step the command contract allows, or none: nothing settles a command twice
\* or undoes it, and no verdict is shown that the device did not give.
ContractHolds == Contract!Spec

-----------------------------------------------------------------------------
(* What the comments and the protocol document say of the hub, and what it *)
(* does not do (see README, findings).                                     *)

\* docs/cloud-frames.md: an unacked command "stays queued and is redelivered on
\* the next session"; only a type whose route replaces it may be superseded.
UnackedStaysQueued ==
  \A c \in Cmd : rows[c].error = "superseded" => rows[c].kind \in Superseding

\* hub.ts: a late close event "cannot clobber" a newer session: once nothing is
\* in flight, the frame is shown online exactly if it has a live session.
NothingInFlight ==
  /\ up
  /\ \A s \in Session : act[s] \in {"handshake", "done"} /\ ~offline[s]
  /\ \A w \in Waker : wake[w].pc = "idle"

OnlineMatchesLive ==
  NothingInFlight /\ ~isFrameRevoked => (connected <=> live # NoSession)
=============================================================================
