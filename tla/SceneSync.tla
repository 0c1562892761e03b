----------------------------- MODULE SceneSync ------------------------------
(***************************************************************************)
(* What a frame should show, what it was sent, and what it says it shows:  *)
(* the assignments an account keeps for a frame, the set_scenes commands   *)
(* pushed for them, and the two checksums the frames page compares to tell *)
(* "in sync" from "sync pending".                                          *)
(*                                                                         *)
(* Three parties write these without a transaction between them: the       *)
(* assignment route (cloud/apps/auth-web, frames/[frameId]/scenes), the    *)
(* preview route (event/uploadScenes), and the hub, which copies what the  *)
(* device reports in hello, state and scene_ack.  One action is one        *)
(* statement of theirs, or one message of the device.                      *)
(*                                                                         *)
(* A payload is the set of scenes in it, and stands for its checksum.      *)
(* Positions, versions and content are left out.  The rows of the queue    *)
(* and the statements on them are those of CommandRows; set_scenes has no  *)
(* TTL.                                                                    *)
(***************************************************************************)
EXTENDS CommandRows, Sequences

CONSTANTS
  Scene,       \* the store's scenes
  NoScene,     \* no scene of the store
  Asks,        \* the scene sets a request may name
  MaxRequest,  \* bound: web requests
  MaxSession,  \* bound: device sockets
  MaxBuffered, \* commands a socket buffers before the hub backs off
  MaxFaults,   \* bound: sockets that break, requests that die half way
  MaxStates    \* bound: state messages the device sends of its own accord

ASSUME SyncAssumption ==
  /\ Kinds = {"set_scenes"} /\ Timed = {}
  /\ NoScene \notin Scene
  /\ Asks \subseteq SUBSET Scene
  /\ MaxRequest \in Nat
  /\ MaxSession \in Nat /\ Epochs = 0 .. MaxSession
  /\ MaxBuffered \in Nat /\ MaxFaults \in Nat /\ MaxStates \in Nat

\* Requests and sessions are numbered in the order they begin.
Request == 1 .. MaxRequest
Session == 1 .. MaxSession
NoSession == 0

Payload == SUBSET Scene

\* A checksum column that was never written, and the device's "".
Unset == {NoScene}
Checksum == Payload \cup {Unset}

VARIABLES
  (* the database *)
  assignments,  \* committed rows of frame_scene_assignments
  assigned,     \* frames.assigned_checksum
  reported,     \* frames.scenes_checksum
  rows,         \* frame_commands
  payload,      \* their payloads
  queued,       \* commands inserted so far
  (* the web *)
  request,      \* the requests
  (* the hub *)
  step,         \* where the session is, from hello to its message loop
  live,         \* deviceSessions.get(frame)
  kicked,       \* sessions the hub has closed
  epoch,        \* sessions activated so far: the clock of sent_at
  cutoff,       \* activation number of the session
  batch,        \* the snapshot of the session's drain
  waking,       \* a wake-up is between the two statements of its redelivery
  (* the device and its sockets *)
  dev,          \* the socket in use
  hello,        \* the checksum in the session's hello
  toDevice,     \* commands written and not yet read
  toHub,        \* messages not yet handled
  applied,      \* ctx.scenesChecksum, kept in the link file
  (* history and budgets *)
  torn,         \* two assignments overlapped, or a request died half way
  crossed,      \* a request superseded between another's supersede and push
  overtaken,    \* a report of an old session was written over a newer one
  faults, states

database == <<assignments, assigned, reported, rows, payload, queued>>
hub      == <<step, live, kicked, epoch, cutoff, batch, waking>>
device   == <<dev, hello, toDevice, toHub, applied>>
history  == <<torn, crossed, overtaken>>
budgets  == <<faults, states>>
vars == <<database, request, hub, device, history, budgets>>

\* A row of frame_scene_assignments: the scene and the request that wrote it.
Assignment == [scene : Scene, by : Request]
ScenesOf(which) == {a.scene : a \in which}
RowsFor(r, ask) == {[scene |-> s, by |-> r] : s \in ask}

\* Inside the assignment's transaction, and after it.
InTransaction == {"delete", "insert", "build", "commit"}
AfterCommit == {"update", "supersede", "push"}
WebRequest == [pc : {"idle", "done"} \cup InTransaction \cup AfterCommit,
               kind : {"none", "assign", "preview"},
               ask : Payload,             \* the scenes asked for
               gone : SUBSET Assignment,  \* the rows its DELETE removes
               sum : Checksum]            \* the payload it pushes
NoRequest == [pc |-> "idle", kind |-> "none", ask |-> {}, gone |-> {},
              sum |-> Unset]

\* A session goes from its handshake through the statements of its activation
\* to its message loop ("ready").
Phase == {"unused", "hello", "report", "outdated", "requeue", "greet", "ready",
          "lost",    \* the handshake never arrived
          "closed"}  \* closed by the hub before `ready` could be sent

\* What a device sends: an ack, or a message with its checksum.
Message == [type : {"ack"}, cmd : Cmd, ok : BOOLEAN]
             \cup [type : {"report"}, sum : Checksum]
Ack(c, ok) == [type |-> "ack", cmd |-> c, ok |-> ok]
Report(sum) == [type |-> "report", sum |-> sum]

First(S) == CHOOSE c \in S : \A d \in S : c <= d

-----------------------------------------------------------------------------
(* POST frames/[frameId]/scenes.  The transaction is READ COMMITTED: a     *)
(* statement sees what was committed when it began, and a row another      *)
(* transaction has deleted or inserted is waited for.                      *)

InProgress(r) == request[r].pc \notin {"idle", "done"}

NoRequestInProgress == \A r \in Request : ~InProgress(r)

Begins(r) == /\ request[r].pc = "idle"
             /\ \A q \in 1 .. r - 1 : request[q].pc # "idle"

At(r, from, to) ==
  /\ request[r].pc = from
  /\ request' = [request EXCEPT ![r].pc = to]

\* Rows that another transaction has deleted and not yet committed.
LockedFor(r) ==
  assignments \cap UNION {request[q].gone : q \in {p \in Request \ {r} :
                            request[p].pc \in {"insert", "build", "commit"}}}

\* Scenes that another transaction has inserted and not yet committed.
InsertedBeside(r) ==
  UNION {request[q].ask : q \in {p \in Request \ {r} :
           request[p].pc \in {"build", "commit"}}}

\* The frame is active and the scenes are accessible; DELETE begins.
AssignBegin(r, ask) ==
  /\ Begins(r)
  /\ request' = [request EXCEPT
       ![r] = [pc |-> "delete", kind |-> "assign", ask |-> ask,
               gone |-> assignments, sum |-> Unset]]
  /\ torn' = (torn \/ \E q \in Request : InProgress(q)
                                         /\ request[q].kind = "assign")
  /\ UNCHANGED <<database, hub, device, crossed, overtaken, budgets>>

\* DELETE removes what it saw, except what is gone meanwhile.
AssignDelete(r) ==
  /\ request[r].pc = "delete"
  /\ request[r].gone \cap LockedFor(r) = {}
  /\ request' = [request EXCEPT ![r].pc = "insert",
                                ![r].gone = @ \cap assignments]
  /\ UNCHANGED <<database, hub, device, history, budgets>>

\* INSERT; a scene that is assigned already violates the unique index, and the
\* request ends with an error.
AssignInsert(r) ==
  LET ask == request[r].ask
      twice == {a \in assignments \ request[r].gone : a.scene \in ask} IN
  /\ ask \cap InsertedBeside(r) = {}
  /\ twice \cap LockedFor(r) = {}
  /\ At(r, "insert", IF twice = {} THEN "build" ELSE "done")
  /\ UNCHANGED <<database, hub, device, history, budgets>>

\* buildScenesPayloadForFrame reads the assignments back and digests them.
AssignBuild(r) ==
  /\ request[r].pc = "build"
  /\ request' = [request EXCEPT
       ![r].pc = "commit",
       ![r].sum = ScenesOf(assignments \ request[r].gone) \cup request[r].ask]
  /\ UNCHANGED <<database, hub, device, history, budgets>>

AssignCommit(r) ==
  /\ At(r, "commit", "update")
  /\ assignments' = (assignments \ request[r].gone)
                      \cup RowsFor(r, request[r].ask)
  /\ UNCHANGED <<assigned, reported, rows, payload, queued, hub, device,
                 history, budgets>>

\* A payload error, a failed statement or a crash: the transaction is undone.
AssignRollback(r) ==
  /\ request[r].pc \in InTransaction
  /\ request' = [request EXCEPT ![r].pc = "done"]
  /\ UNCHANGED <<database, hub, device, history, budgets>>

\* UPDATE frames SET assigned_checksum.
AssignUpdate(r) ==
  /\ At(r, "update", "supersede")
  /\ assigned' = request[r].sum
  /\ UNCHANGED <<assignments, reported, rows, payload, queued, hub, device,
                 history, budgets>>

-----------------------------------------------------------------------------
(* POST frames/[frameId]/event/uploadScenes, and what both routes do last. *)

PreviewBegin(r, sum) ==
  /\ Begins(r)
  /\ sum # {}
  /\ request' = [request EXCEPT
       ![r] = [pc |-> "supersede", kind |-> "preview", ask |-> {},
               gone |-> {}, sum |-> sum]]
  /\ UNCHANGED <<database, hub, device, history, budgets>>

RequestSupersede(r) ==
  /\ At(r, "supersede", "push")
  /\ rows' = supersedePendingCommands(rows, "set_scenes")
  /\ crossed' = (crossed \/ \E q \in Request \ {r} : request[q].pc = "push")
  /\ UNCHANGED <<assignments, assigned, reported, payload, queued, hub, device,
                 torn, overtaken, budgets>>

RequestPush(r) ==
  /\ At(r, "push", "done")
  /\ queued < MaxCmd
  /\ queued' = queued + 1
  /\ rows' = enqueueFrameCommand(rows, queued + 1, "set_scenes")
  /\ payload' = [payload EXCEPT ![queued + 1] = request[r].sum]
  /\ UNCHANGED <<assignments, assigned, reported, hub, device, history, budgets>>

\* The web process dies, or a statement after the transaction fails.
RequestAbort(r) ==
  /\ request[r].pc \in AfterCommit
  /\ faults < MaxFaults
  /\ faults' = faults + 1
  /\ request' = [request EXCEPT ![r].pc = "done"]
  /\ torn' = TRUE
  /\ UNCHANGED <<database, hub, device, crossed, overtaken, states>>

-----------------------------------------------------------------------------
(* The hub: activation, wake-ups, drains, and the messages of a session.   *)

HubStep(s, from, to) ==
  /\ step[s] = from
  /\ step' = [step EXCEPT ![s] = to]

\* A session takes the frame at its claim; its activation then has statements
\* to run before its messages are handled.
Claimed == {"report", "outdated", "requeue", "greet", "ready"}
Resting == {"unused", "hello", "ready", "lost", "closed"}

\* A write in the name of session s comes after a newer session's hello.
Late(s) == \E t \in Session : t > s /\ step[t] \in Claimed \ {"report"}

\* Faulty variant: the cutoff lies one activation ahead.
ActivateClaimAhead(s) ==
  /\ HubStep(s, "hello", "report")
  /\ live' = s
  /\ kicked' = IF live = NoSession THEN kicked ELSE kicked \cup {live}
  /\ epoch' = epoch + 1
  /\ cutoff' = [cutoff EXCEPT ![s] = epoch + 2]
  /\ UNCHANGED <<database, request, batch, waking, device, history, budgets>>

\* activateDeviceSession up to its first UPDATE: the session takes the frame
\* and the previous one is closed.  The handshake was received, if not lost;
\* the device may have left the socket meanwhile.
ActivateClaim(s) ==
  /\ HubStep(s, "hello", "report")
  /\ live' = s
  /\ kicked' = IF live = NoSession THEN kicked ELSE kicked \cup {live}
  /\ epoch' = epoch + 1
  /\ cutoff' = [cutoff EXCEPT ![s] = epoch + 1]
  /\ UNCHANGED <<database, request, batch, waking, device, history, budgets>>

\* UPDATE frames SET scenes_checksum = the one of hello.
ActivateReport(s) ==
  /\ HubStep(s, "report", "outdated")
  /\ reported' = hello[s]
  /\ overtaken' = (overtaken \/ Late(s))
  /\ UNCHANGED <<assignments, assigned, rows, payload, queued, request, live,
                 kicked, epoch, cutoff, batch, waking, device, torn, crossed,
                 budgets>>

\* redeliverSentCommands with the activation as the cutoff.
ActivateQueue(s) ==
  /\ \/ /\ HubStep(s, "outdated", "requeue")
        /\ rows' = dropOutdated(rows, SentBefore(rows, cutoff[s]))
     \/ /\ HubStep(s, "requeue", "greet")
        /\ rows' = requeueLost(rows, SentBefore(rows, cutoff[s]))
  /\ UNCHANGED <<assignments, assigned, reported, payload, queued, request,
                 live, kicked, epoch, cutoff, batch, waking, device, history,
                 budgets>>

\* `ready` goes out, unless the socket was closed meanwhile; messages are
\* handled from here.
ActivateGreet(s) ==
  /\ HubStep(s, "greet", IF s \in kicked THEN "closed" ELSE "ready")
  /\ UNCHANGED <<database, request, live, kicked, epoch, cutoff, batch, waking,
                 device, history, budgets>>

\* wakeSession, by NOTIFY or sweep, of the session that holds the frame: its
\* redeliverSentCommands takes what was sent too long ago.  Its drain is
\* DrainSelect.
WakeOutdated ==
  /\ live # NoSession
  /\ ~waking /\ SentTooLongAgo(rows) # {}
  /\ waking' = TRUE
  /\ rows' = dropOutdated(rows, SentTooLongAgo(rows))
  /\ UNCHANGED <<assignments, assigned, reported, payload, queued, request, step,
                 live, kicked, epoch, cutoff, batch, device, history, budgets>>

WakeRequeue ==
  /\ waking
  /\ waking' = FALSE
  /\ rows' = requeueLost(rows, SentTooLongAgo(rows))
  /\ UNCHANGED <<assignments, assigned, reported, payload, queued, request, step,
                 live, kicked, epoch, cutoff, batch, device, history, budgets>>

\* The sweep's grace period ends for a command that was not acked.  It is far
\* longer than a statement takes: it does not end in the middle of a request, of
\* an activation, a drain or a redelivery.
GracePasses(c) ==
  /\ rows[c].status = "sent" /\ ~rows[c].overdue
  /\ NoRequestInProgress /\ ~waking
  /\ \A s \in Session : step[s] \in Resting /\ batch[s] = {}
  /\ rows' = passGrace(rows, c)
  /\ UNCHANGED <<assignments, assigned, reported, payload, queued, request, hub,
                 device, history, budgets>>

\* drainCommands takes a snapshot of the pending commands, at the end of the
\* activation or, once the session has the frame, in a wake-up ...
DrainSelect(s) ==
  /\ s = live /\ s \notin kicked /\ step[s] \in Claimed
  /\ batch[s] = {} /\ Pending(rows) # {}
  /\ batch' = [batch EXCEPT ![s] = Pending(rows)]
  /\ UNCHANGED <<database, request, step, live, kicked, epoch, cutoff, waking,
                 device, history, budgets>>

\* ... and writes one after the other, marking it sent; it stops at a socket
\* that is closed or not draining.  What is written to a socket the device has
\* left is lost, and what comes before `ready` is dropped by its handshake.
DrainSend(s) ==
  LET c == First(batch[s]) IN
  /\ batch[s] # {}
  /\ IF s \in kicked \/ Len(toDevice[s]) >= MaxBuffered
     THEN /\ batch' = [batch EXCEPT ![s] = {}]
          /\ UNCHANGED <<rows, toDevice>>
     ELSE /\ batch' = [batch EXCEPT ![s] = @ \ {c}]
          /\ rows' = markSent(rows, c, epoch)
          /\ toDevice' = IF dev = s /\ step[s] = "ready"
                         THEN [toDevice EXCEPT ![s] = Append(@, c)]
                         ELSE toDevice
  /\ UNCHANGED <<assignments, assigned, reported, payload, queued, request,
                 step, live, kicked, epoch, cutoff, waking, dev, hello, toHub,
                 applied, history, budgets>>

\* handleAck, handleSceneAck and handleState: one message at a time per session,
\* also after its socket was closed.
HandleMessage(s) ==
  /\ step[s] = "ready" /\ toHub[s] # <<>>
  /\ toHub' = [toHub EXCEPT ![s] = Tail(@)]
  /\ LET m == Head(toHub[s]) IN
       \/ /\ m.type = "ack"
          /\ rows' = settleAck(rows, m.cmd, m.ok)
          /\ UNCHANGED <<reported, overtaken>>
       \/ /\ m.type = "report"
          /\ reported' = m.sum
          /\ overtaken' = (overtaken \/ Late(s))
          /\ UNCHANGED rows
  /\ UNCHANGED <<assignments, assigned, payload, queued, request, hub, dev,
                 hello, toDevice, applied, torn, crossed, budgets>>

-----------------------------------------------------------------------------
(* The device.                                                             *)

\* runHubSession dials, runHandshake says hello with the checksum on file.
Connect(s) ==
  /\ dev = NoSession
  /\ step[s] = "unused" /\ \A t \in 1 .. s - 1 : step[t] # "unused"
  /\ dev' = s
  /\ step' = [step EXCEPT ![s] = "hello"]
  /\ hello' = [hello EXCEPT ![s] = applied]
  /\ UNCHANGED <<database, request, live, kicked, epoch, cutoff, batch, waking,
                 toDevice, toHub, applied, history, budgets>>

\* Faulty variant: the checksum of a refused push is kept.
DeviceReadKeepsRefused(s) ==
  /\ dev = s /\ toDevice[s] # <<>>
  /\ Len(toHub[s]) < MaxBuffered
  /\ toDevice' = [toDevice EXCEPT ![s] = Tail(@)]
  /\ LET c == Head(toDevice[s]) IN
       /\ applied' = payload[c]
       /\ \/ toHub' = [toHub EXCEPT ![s] = Append(@, Ack(c, FALSE))]
          \/ toHub' = [toHub EXCEPT
               ![s] = @ \o <<Ack(c, TRUE), Report(payload[c])>>]
  /\ UNCHANGED <<database, request, hub, dev, hello, history, budgets>>

\* handleSetScenes: refused, or queued for the runner, the checksum kept, and
\* acked with a scene_ack behind the ack.
DeviceRead(s) ==
  /\ dev = s /\ toDevice[s] # <<>>
  /\ Len(toHub[s]) < MaxBuffered
  /\ toDevice' = [toDevice EXCEPT ![s] = Tail(@)]
  /\ LET c == Head(toDevice[s]) IN
       \/ /\ toHub' = [toHub EXCEPT ![s] = Append(@, Ack(c, FALSE))]
          /\ UNCHANGED applied
       \/ /\ applied' = payload[c]
          /\ toHub' = [toHub EXCEPT
               ![s] = @ \o <<Ack(c, TRUE), Report(payload[c])>>]
  /\ UNCHANGED <<database, request, hub, dev, hello, history, budgets>>

\* The active scene changed: a state message with the checksum.
DeviceState(s) ==
  /\ dev = s /\ step[s] = "ready"
  /\ states < MaxStates
  /\ states' = states + 1
  /\ toHub' = [toHub EXCEPT ![s] = Append(@, Report(applied))]
  /\ UNCHANGED <<database, request, hub, dev, hello, toDevice, applied,
                 history, faults>>

\* The socket ends: the hub closed it, or it broke.  What the hub has not yet
\* received is lost, the latest first, and so may be the handshake.
DeviceLeave(s) ==
  /\ dev = s
  /\ \/ s \in kicked /\ UNCHANGED faults
     \/ /\ s \notin kicked /\ faults < MaxFaults
        /\ faults' = faults + 1
  /\ dev' = NoSession
  /\ toDevice' = [toDevice EXCEPT ![s] = <<>>]
  /\ \E n \in 0 .. Len(toHub[s]) :
        toHub' = [toHub EXCEPT ![s] = SubSeq(@, 1, n)]
  /\ \/ UNCHANGED step
     \/ HubStep(s, "hello", "lost")
  /\ UNCHANGED <<database, request, live, kicked, epoch, cutoff, batch, waking,
                 hello, applied, history, states>>

-----------------------------------------------------------------------------

Init ==
  /\ assignments = {} /\ assigned = Unset /\ reported = Unset
  /\ rows = EmptyTable /\ payload = [c \in Cmd |-> Unset] /\ queued = 0
  /\ request = [r \in Request |-> NoRequest]
  /\ step = [s \in Session |-> "unused"]
  /\ live = NoSession /\ kicked = {} /\ epoch = 0
  /\ cutoff = [s \in Session |-> 0]
  /\ batch = [s \in Session |-> {}] /\ waking = FALSE
  /\ dev = NoSession /\ applied = Unset
  /\ hello = [s \in Session |-> Unset]
  /\ toDevice = [s \in Session |-> <<>>]
  /\ toHub = [s \in Session |-> <<>>]
  /\ torn = FALSE /\ crossed = FALSE /\ overtaken = FALSE
  /\ faults = 0 /\ states = 0

RequestStep(r) ==
  \/ AssignDelete(r) \/ AssignInsert(r) \/ AssignBuild(r) \/ AssignCommit(r)
  \/ AssignUpdate(r) \/ RequestSupersede(r) \/ RequestPush(r)

Activation(s) ==
  \/ ActivateClaim(s) \/ ActivateReport(s) \/ ActivateQueue(s) \/ ActivateGreet(s)
Wake == WakeOutdated \/ WakeRequeue
Drain(s) == DrainSelect(s) \/ DrainSend(s)

Next ==
  \/ \E r \in Request :
       \/ \E set \in Asks : AssignBegin(r, set) \/ PreviewBegin(r, set)
       \/ RequestStep(r) \/ AssignRollback(r) \/ RequestAbort(r)
  \/ \E s \in Session :
       \/ Activation(s) \/ Drain(s) \/ HandleMessage(s)
       \/ Connect(s) \/ DeviceRead(s) \/ DeviceState(s) \/ DeviceLeave(s)
  \/ Wake
  \/ \E c \in Cmd : GracePasses(c)

Spec == Init /\ [][Next]_vars

-----------------------------------------------------------------------------
(* Properties.                                                             *)

\* Every variable keeps its type.
TypeOK ==
  /\ assignments \in SUBSET Assignment
  /\ assigned \in Checksum /\ reported \in Checksum
  /\ rows \in Table /\ payload \in [Cmd -> Checksum] /\ queued \in 0 .. MaxCmd
  /\ request \in [Request -> WebRequest]
  /\ step \in [Session -> Phase]
  /\ live \in Session \cup {NoSession} /\ kicked \in SUBSET Session
  /\ epoch \in Epochs /\ cutoff \in [Session -> Epochs]
  /\ batch \in [Session -> SUBSET Cmd] /\ waking \in BOOLEAN
  /\ dev \in Session \cup {NoSession} /\ applied \in Checksum
  /\ hello \in [Session -> Checksum]
  /\ toDevice \in [Session -> Seq(Cmd)] /\ toHub \in [Session -> Seq(Message)]
  /\ torn \in BOOLEAN /\ crossed \in BOOLEAN /\ overtaken \in BOOLEAN
  /\ faults \in Nat /\ states \in Nat

\* Nothing is under way and the device is connected.
AtRest ==
  /\ NoRequestInProgress
  /\ \A c \in Cmd : rows[c].status \notin Live
  /\ dev # NoSession /\ dev \notin kicked /\ step[dev] = "ready"
  /\ \A s \in Session : /\ step[s] \in {"unused", "ready", "lost", "closed"}
                        /\ batch[s] = {} /\ toDevice[s] = <<>> /\ toHub[s] = <<>>

\* The frames page tells the truth: once everything has settled, "in sync" is
\* shown exactly if the device was given what is assigned.  Lost and
\* redelivered commands, lost acks and refused pushes do not spoil it; two
\* overlapping assignments, a request that died half way, and a report of an
\* old session handled after a newer hello do (README, findings).
PageTellsTruth ==
  AtRest /\ ~torn /\ ~overtaken =>
    (assigned = reported /\ assigned # Unset
       <=> applied = ScenesOf(assignments) /\ assigned # Unset)

\* A push that was acked as applied is what the device has, if it is the newest:
\* however many sockets it took, whatever was written before `ready`, sent twice
\* or sent too long ago.  Two requests of which one supersedes between the
\* other's supersede and push spoil it (README, findings).
NewestPushWins ==
  ~crossed =>
    \A c \in Cmd : c = queued /\ rows[c].status = "acked" => applied = payload[c]

\* scenes/route.ts: committing the new assignments while failing to enqueue the
\* push would leave GET listing scenes the device was never sent.
ListedWasPushed ==
  NoRequestInProgress /\ assigned # Unset =>
    \E c \in Cmd : rows[c].status # "absent" /\ payload[c] = ScenesOf(assignments)
=============================================================================
