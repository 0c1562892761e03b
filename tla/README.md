# FrameOS in TLA+

A verification development for FrameOS: TLA+ modules of the parts of the system
whose correctness depends on the order in which processes, statements and
messages interleave, the TLC configurations that check them on small instances,
and theorems checked by TLAPS. `PROJECT.json` lists the components, runs,
hazards, findings and theorems in machine-readable form, and maps every
definition to the source lines it translates. Paths below are relative to the
repository.

Contents: 1 inventory of the system, 2 how the modules correspond to the code,
3 runs and bounds, 4 fairness, 5 proofs, 6 findings, 7 what is not modelled,
8 plan.

## 1. Inventory

FrameOS runs on e-ink and other displays and is managed either by a self-hosted
backend or by a cloud service.

| Part | State it keeps | Operations | Talks to |
|---|---|---|---|
| Frame hub, `cloud/apps/frame-hub/src/hub.ts` | `deviceSessions` (frame -> one live session), per session `ready`, `closed`, `disconnectHandled`, `draining`, `drainQueued`, a queue of incoming messages | upgrade, challenge, activate, drain, redeliver, acknowledge, sweep, heartbeat, disconnect, revocation kick, telemetry, asset streams, browser fan-out | PostgreSQL (await per statement, LISTEN), device WebSockets, browser WebSockets |
| Command queue, `cloud/packages/db/src/schema.ts`, `cloud/apps/auth-web/src/lib/frames.ts` and the frame routes | `frame_commands` rows, `frames.connected`, `hub_session_id`, `status`, `linked_clients.revoked_at` | enqueue, supersede, revoke; assign scenes, push settings, send a verb | PostgreSQL, NOTIFY to the hub |
| Scene assignments and sync status, `auth-web/app/api/frames/[frameId]/{scenes,event}`, `buildScenesPayloadForFrame`, the frames page | `frame_scene_assignments`, `frames.assigned_checksum`, `frames.scenes_checksum` | assign, preview, report, show "in sync" or "sync pending" | the command queue, the hub's copy of what the device reports |
| Device management client, `frameos/src/frameos/cloud/hub_client.nim` | socket, `scenesChecksum`, granted scopes, auth failure streak, backoff | dial, handshake, carry out verbs, ack, report, demote to standalone after three rejections | hub, runner (event channel), persisted state |
| Enrollment and link state, `frameos/src/frameos/cloud/{enrollment,link_state,identity}.nim` | key pair, link file, pending enrollment, generation counter | redeem a claim token, save, clear, demote | auth-web over HTTP |
| Device flow, `cloud/apps/auth-web/src/lib/device-flow.ts`, `app/api/device/*`, `app/api/frames/enroll` | device requests, claim and redemption tokens, quotas | request, approve, deny, poll, claim, expire | PostgreSQL |
| Runner, `frameos/src/frameos/runner.nim`, `channels.nim`, `scenes.nim` | current scene, `triggerRenderNext`, `isRendering`, sleep future, event channel (bounded) | render loop, message loop, scene change, scene upload | channels from server, hub client, scheduler and drivers |
| Boot guard, `frameos/src/frameos/boot_guard.nim` | crash counter and scene id on disk | register boot, clear after a render, choose the fallback scene | file system, runner |
| Scheduler, `frameos/src/frameos/scheduler.nim` | last fired minute | fire the events of a minute | event channel |
| Logger and metrics, `logger.nim`, `metrics.nim` | bounded buffer, backoff, dropped counter | append, flush, drop | HTTP to the backend |
| Interpreter and apps | scene graph, state fields | run nodes, evaluate code nodes | runner |
| HTTP server, portal, watchdog, upgrade | HTTP state, Wi-Fi hotspot | serve, connect, upgrade | runner, system |
| Remote agent and bridge, `backend/app/ws/remote_{ws,bridge}.py`, `frameos/remote` | Redis lists per frame and per command, pending replies, `current_bin_cmd` | send command, wait for reply, stream, reconnect | Redis, WebSocket |
| Backend deploy tasks, `backend/app/tasks/*` | arq jobs, frame status, build artifacts | deploy, fast deploy, restart, build | SSH, Redis, database |
| Backend API and cloud sync, cloud accounts and store, embedded runtimes, frontends | rows, sessions, user interface | CRUD, periodic sync, drawing | - |

The hard behaviours, part by part:

* **Hub and command queue.** The hub is one process without locks, but every
  `await` lets another handler run: activations of an old and a new socket,
  close events, NOTIFY and sweep wake-ups, acks, and the statements of the web
  process, which are not in a transaction either. Sockets die with commands
  written and not acked, acks arrive late, the hub crashes between a write and
  its mark. What must hold: one live socket per frame; a command that is queued
  is delivered at least once or settled; a settled row is final; a verdict
  stands for a command that was carried out; a newer payload is never replaced
  by an older one; a revoked frame is disconnected for good.
* **Scene assignments.** What a frame should show, what it was sent and what it
  says it shows are three columns with three writers and no transaction between
  them: two assignments overlap, a request dies half way, a report of an old
  socket is handled late, an ack is lost. What must hold: the page says "in
  sync" exactly if the device has what is assigned; the newest push wins.
* **Device client.** Reconnection and its backoff; the streak of rejections
  that demotes the frame must count only real rejections; the checksum that is
  reported must be that of the scenes that are shown.
* **Enrollment and device flow.** Single-use tokens are redeemed on one side
  before they are saved on the other: a crash between loses them. Approval,
  denial and expiry race, and a rotation, a retry and a late answer leave two
  tokens for one link. A token leaves the server at most once; a credential
  exists only behind an approval; a budget is spent only on a frame that exists;
  a frame that was revoked notices.
* **Runner.** Two cooperative loops share flags; a render request that arrives
  during a render must not be lost; a scene change must not leave two scenes
  believing to be current; the instance held across an await may be one that was
  replaced meanwhile, and what is kept on disk must survive that.
* **Boot guard.** The counter is written and cleared around crashes; the
  fallback appears after the threshold and not after a healthy render.
* **Scheduler.** The clock steps; a minute fires at most once.
* **Logger.** Buffers at their limit, failed posts; what is lost is counted.
* **Remote bridge.** Timeouts race late replies, two sockets of one frame take
  from one list, binary data belongs to one command.
* **Deploy tasks.** Two deploys of one frame overlap.

The first three parts are the core of the cloud product and the ones with the
most actors. They are modelled in most detail, followed by the link between
device and cloud, the runner with its boot guard, and the remote bridge of the
self-hosted backend. The others are not modelled (section 7).

## 2. The modules

    CommandContract          what the queue promises (abstract specification)
          ^ implements (Contract == INSTANCE CommandContract WITH ...)
    FrameHub  -----EXTENDS----->  CommandRows  <-----EXTENDS-----  SceneSync
      ^     ^                         ^                              ^   ^
      |     FrameHubProofs -----> CommandRowsProofs <----- SceneSyncProofs |
      |        ^                                                  MCSceneSync
    MCFrameHub PayloadOrderProofs

    CloudLink                  RemoteBridge                  RunnerLoop
      ^     ^                    ^     ^                       ^     ^
    MCCloudLink                MCRemoteBridge                MCRunnerLoop
            CloudLinkProofs            RemoteBridgeProofs            RunnerLoopProofs

The hub client of the device appears in four modules, from four sides:
`FrameHub` has what a session shows of it to the hub, `SceneSync` the checksum
it keeps and reports, `CloudLink` its credentials, `RunnerLoop` what it hands to
the runner. `FrameHub` and `SceneSync` share the table's definition and its
statements; the modules share no state: a command is delivered (`FrameHub`),
queued for the runner and applied (`RunnerLoop`), over a link that was granted
(`CloudLink`).

### CommandRows

The `frame_commands` table of one frame and, one operator per statement, every
UPDATE and INSERT the web and the hub run on it. An operator takes the table and
returns the table after the commit, so its condition is the statement's WHERE
clause. Names are the source's: `enqueueFrameCommand`,
`supersedePendingCommands`, `expireRevoked` (the end of `revokeFrame`),
`expireStaleCommands`, `dropOutdated` and `requeueLost` (the two statements of
`redeliverSentCommands`), `markSent` (the UPDATE in `drainCommands`) and
`settleAck` (`handleAck`).

Data that no property tells apart is abstracted. A command is its place in the
`(created_at, id)` order and its payload is that number. The kinds are a
constant: one that a route replaces (`set_scenes`, as `set_settings` and the
others are) and one that no route replaces and that may carry a TTL
(`asset_put`). Clocks are abstracted to the comparisons the code makes:

* `due` - `expires_at < now`;
* `sentAt` - the number of activations when `sent_at` was stamped, so that
  `sent_at < now` of an activation is `sentAt < cutoff`;
* `overdue` - `sent_at` lies further back than the sweep's grace period.

The stamp is computed when the statement is issued, as in the code
(`sentAt: new Date()`), and stored when it commits: a mark that commits late
carries the old stamp.

### FrameHub

One action per stretch of code between two awaits, and one per commit of an
awaited statement, for one frame, its sockets, the hub, the web requests and the
device.

| Actions | Code |
|---|---|
| `Connect`, `Authenticate`, `RejectHandshake` | `handleUpgrade`, `attachDeviceSocket`, `handleDeviceMessage` before ready |
| `ActivateCheck`, `ActivateClaim`, `ActivateOnline`, `ActivateQueue`, `ActivateGreet`, `ActivateFinish` | `activateDeviceSession` |
| `CloseEvent`, `CommitOffline` | the `close` handler, `markDeviceDisconnected` |
| `DrainSelect`, `DrainSend`, `DrainMark` | `drainCommands` |
| `WakeStart`, `WakeCheck`, `WakeKick`, `WakeOutdated`, `WakeRequeue` | `wakeSession`, `kickRevokedSession`; called by NOTIFY and by the sweep |
| `SweepExpire` | the first statement of `runSweep` |
| `DeviceRead`, `DeviceLeave` | `runHandshake`, `runHubSession`, `handleCloudVerb` on the device |
| `HandleAck` | `handleAck`, behind the session's message queue |
| `RequestStart`, `RequestSupersede`, `RequestInsert`, `RequestAbort` | the routes that queue a command |
| `RevokeLink`, `RevokeRow`, `RevokeCommands` | `revokeFrame` |
| `TtlPasses`, `GracePasses` | time |
| `Crash`, `Boot` | the process dies; `startFrameHub` |

Several sessions can be between two of these steps at once; `act`, `drain` and
`wake` hold where each one is. What is one step:

* A statement's commit and the code that runs when it returns, up to the next
  await, except where the code in between decides something that a change
  between commit and return would make stale: the revocation recheck is
  `ActivateCheck` (the read) and `ActivateClaim` (what follows).
* `expireStaleCommands` and the statement after it (`dropOutdated` in the
  activation, the SELECT in the drain).
* The count of pending commands, the `ready` message, the broadcast and the call
  of `drainCommands` (`ActivateGreet`): the count goes into the message only,
  and the broadcast writes no state.

A session whose socket is closed still runs to the end of its activation and
still handles the messages it had received, as in the code. `toDevice` and
`toHub` are the two directions of a socket; what was written may be lost with
it, the latest messages first. The device drops what it reads before `ready`.
It carries a repeated command out again and may answer it differently.
`bufferedAmount > maxBufferedBytes` becomes a bound on the messages in flight.

Counters `faults`, `aborts`, `crashes` and `idleWakes` are budgets of the model.
They bound how often something may happen, not when.

`GracePasses` assumes that the three minutes of the grace period do not end
in the middle of an activation, of a drain that has a snapshot, between the two
statements of a redelivery, or between those of a web request. Each of these
lasts a few statements. Without the assumption a single request that stalls for
three minutes gives the roll-back of finding 3 by itself.

### CommandContract

What a user of the queue may rely on: commands are queued once and in order;
carried out only after they are queued; confirmed only after they are carried
out; settled once, by a verdict or by being dropped. `FrameHub` implements it
under the mapping `publicStatus` (`pending` and `sent` are "queued", `expired`
is "dropped"). The contract deliberately leaves out what the code does not
promise: a dropped command may still be carried out, because it is on the wire
or in the snapshot of a drain.

### SceneSync

Which scenes a frame should show and what the frames page says about it. The
module adds the two web routes that push `set_scenes` and three pieces of state
to the queue of `CommandRows`: the assignments, `assigned_checksum`, which the
assignment route writes, and `scenes_checksum`, into which the hub copies what
the device reports. A payload is a set of scenes and stands for its checksum.

| Actions | Code |
|---|---|
| `AssignBegin`, `AssignDelete`, `AssignInsert`, `AssignBuild`, `AssignCommit`, `AssignRollback` | the transaction of `POST frames/[frameId]/scenes` |
| `AssignUpdate`, `RequestSupersede`, `RequestPush`, `RequestAbort` | the three statements after it |
| `PreviewBegin`, then `RequestSupersede`, `RequestPush` | `POST frames/[frameId]/event/uploadScenes` |
| `ActivateClaim`, `ActivateReport`, `ActivateQueue`, `ActivateGreet` | `activateDeviceSession` |
| `WakeOutdated`, `WakeRequeue`, `GracePasses` | `wakeSession`, by NOTIFY or sweep; the grace period |
| `DrainSelect`, `DrainSend` | `drainCommands`, of the activation or of a wake-up |
| `HandleMessage` | `handleAck`, `handleSceneAck`, `handleState` |
| `Connect`, `DeviceRead`, `DeviceState`, `DeviceLeave` | `runHandshake`, `handleSetScenes`, `runHubSession` |

The transaction is modelled as PostgreSQL runs it at its default level, READ
COMMITTED: a DELETE sees the rows committed when it began (`gone`), waits for a
row that another transaction has deleted (`LockedFor`), and an INSERT waits for
one of the same scene (`InsertedBeside`) and fails on the unique index. A
deadlock that PostgreSQL breaks is an `AssignRollback`.

The hub is that of `FrameHub` at a coarser grain: sending a command and marking
it sent are one step; there is one wake-up's redelivery at a time; and a message
may be handled while the activation's own drain still runs, which the code does
only for later drains. A session may drain from its claim on, as a wake-up that
tests `session.ready` lets it, so commands can be written before `ready`: they are
marked sent, the device drops them, and they are queued again when the grace
period is over. Revocations and crashes of the hub are left out. A hub that
notices a broken socket is a hub that does nothing on it any more. What is kept is
what the checksums depend on: the order of hello's UPDATE, of the reports of two
sessions, and of the statements on the queue. A drain backs off at `MaxBuffered`
commands; the same number bounds the answers a device has waiting, which only
makes it read later. `GracePasses` has the condition it has in `FrameHub`: three
minutes do not pass in the middle of a request, an activation, a drain or a
redelivery.

`torn`, `overtaken` and `crossed` are history variables. The first two name the
ways in which the page may be wrong, the third the one in which an older push may
replace a newer one: a request superseded between the supersede and the push of
another (section 6).

### CloudLink

How a frame gets, keeps and loses its cloud link: the rows of one account
(`device_authorization_requests`, one `frame_enrollment_tokens` row,
`linked_clients` with the frame registered on each), the handlers that run on
them, and on the device `cloud_link.json`, the pending enrollment file and the
hub thread's streak of refusals. `call[s]` is one running handler with the
caller that waits for it. One action is one SQL statement, or one transaction
where the code opens one; handlers interleave freely. The caller may time out,
lose the answer or restart, and the handler runs on; a handler may stop after
any statement.

| Actions | Code |
|---|---|
| `Connect`, `ConnectReply`, `expireIfNeeded`, `Poll`, `PollReply` | the portal's routes in `cloud_api_routes.nim`, `link_state.nim` |
| `PollRead`, `ExpireRequest`, `PollClaim`, `PollFetch`, `PollUnseal` | `app/api/device/poll` |
| `Decide`, `ApproveRead`, `ApproveStamp`, `ApproveCommit`, `DenyRead`, `DenyCommit`, `LookupRead` | `app/api/device/{authorize,deny,request}` |
| `Auth`, `Retire` | `authenticateLinkedClient` |
| `RegisterFind`, `RegisterCount`, `RegisterInsert`, `RegisterReply` | `enrollLinkedFrame` and the device side of it (flow B) |
| `EnrollBoot`, `EnrollPortal`, `ReplayLookup`, `ReplayFind`, `ReplayRotate`, `Redeem`, `EnrollReply` | `app/api/frames/enroll` with a claim token, `enrollment.nim` (flow A) |
| `clearPendingEnrollment`, `PendingExpires` | the pending file |
| `Disconnect`, `UnlinkCommit`, `UnlinkReply` | the portal's disconnect, `app/api/backends/unlink` |
| `Dial`, `DialFind`, `DialReply` | `cloudHubThreadMain`, `deviceAuthError` |
| `Confirm`, `RevokeFrame` and their commits, `RevokeClient` | `frames/[frameId]/confirm`, `revokeFrame`, `api/device/revoke` |
| `RequestDue`, `GraceEnds`, `ClaimExpires` | clocks |
| `GiveUp`, `HandlerFails`, `DeviceCrash` | timeouts, failed statements, restarts |

Token n is the one minted by the approval of request n, or by enrollment attempt
n - `MaxReq`, so a token names its origin. A token is a number and never
compared in any other way than for equality, as the hashes are in the code.
`overlap` is a history variable: an attempt began while the handler of an
earlier one still ran. The documents' promise about retries depends on it
(section 6).

### RemoteBridge

Commands of the backend's processes to the agent on one frame. Redis is two kinds
of list, popped atomically. A socket has two ends: `sock[k].link` may be broken
while the backend still pops jobs for it.

| Actions | Code |
|---|---|
| `Push`, `QueueTimeout`, `Receive`, `ReplyTimeout` | `send_cmd`, `frame_command_slot` in `remote_bridge.py` |
| `PumpPop`, `PumpSend`, `FailPending`, `PumpEnds` | `pump_commands`, `fail_pending_commands` in `remote_ws.py` |
| `LoopBytes`, `LoopReply`, `LoopEnds` | the receive loop of `remote_ws_endpoint` and its `finally` |
| `Connect`, `Break`, `AgentNotices`, `AgentRestarts` | `runRemote`, the network |
| `AgentTakes`, `AgentDoes`, `ShellEnds` | `handleCmd`, `execShellSimple` in `frameos_remote.nim` |

A pump that has popped a job and has not sent it is a state of its own, because
cancelling the pump there drops the job; so is one that is failing commands. The
payload of a reply is the set of commands whose bytes it contains, which is what
`BytesCrossOnlyUnlocked` tells apart.

### RunnerLoop

The runner thread: two coroutines of one thread, the render loop and the message
loop, that change places only at an await of the other. `at` is where the render
loop stands, and the message loop runs at `settle` and `asleep`. Other threads
send on the bounded channel at any time. The files that outlive the process are
in `disk`, and a start of the process decides from them what it shows.

| Actions | Code |
|---|---|
| `Start`, `RunnerStarts`, `LookUp` | `startFrameOS`, the boot hotspot, `registerBootCrash`, `drivers.init`, `getFirstSceneId` |
| `FatalRetry`, `FatalQuit`, `ServerFails`, `Crash` | the main loop of `frameos.nim` after an exception, `clearBootCrashCount`; the death of the process |
| `SendEvent` | `sendEvent` in `channels.nim` |
| `HandleSetScenes`, `PersistChecksum` | `handleSetScenes` of `hub_client.nim` |
| `HandleEvent` = `DoRender`, `DoDispatch`, `DoState`, `DoSet` (`SwitchTo`, `SwitchFails`, `GiveAgain`), `Upload` or `UploadFails`, `DoReload` | the cases of `startMessageLoop`, with `setSceneState`, `setCurrentScene`, `uploadScenes` |
| `HandleMoves`, `Drained` | the coalescing of mouseMoves, the end of a drain |
| `BeginPass` = `TakeInstance`, `InitInstance` or `InitFails` | the head of `startRenderLoop` |
| `Rendered`, `Settle` with `KeepHeld`, `Wake`, `IntervalOver` | the render, the await after it, `updateLastPersistedState`, the sleep |

Four scenes stand for all: one of the build, an uploaded one with one field that
is kept on disk, the boot guard's, and another system scene, which a boot hotspot
starts with. The value of the field is the number of the event that set it, so
that "the value last given" can be said.

Files and memory are two things. `disk` is what the next process will read,
`known` what this one takes its files to hold: `updateLastPersistedState` compares
with that, writes what differs, and changes it even if the write failed, so a
failed write is not tried again until the value changes. The boot guard's count
is cached in the same way. A write that fails leaves the old content or nothing
that can be read (`Left`). `spoiled` names the files that do not hold what they
should. These are all the ways to spoil one, and the properties about files say
that there are no others:

* any of the three: a write of it that failed;
* the field's: the write-back of an instance that was replaced during the await
  of a pass, or of the error scene of a failed initialisation; the sweep of
  orphaned state files, when `uploaded.json` was lost;
* `scene.json`: the write-back of the scene that was drawn before a switch, or a
  look-up that finds the scene it names gone;
* the count: a start that ended in an exception, which the main loop forgives
  (`clearBootCrashCount`), before the runner runs or after it.

A write that puts the right content in a file again takes it off the list.

The message loop handles a whole drain between two awaits of the render loop;
events sent meanwhile are part of the drain, which is why one action is one event.

## 3. Runs and bounds

| Run | Instance | Checks | Distinct states |
|---|---|---|---|
| `hub_queue` | 2 commands of 2 kinds, one with a TTL, carried out or refused; 2 sockets, 1 fault, 1 request at a time, no wake-ups | `TypeOK`, `SupersededHasSuccessor`, `OneLiveSocket`, `VerdictMeansExecuted`, `SettledIsFinal`, `NeverRollBack`, `ContractHolds` | 1,368,579 |
| `hub_liveness` | 1 command, 2 sockets, 1 wake-up, 1 crash, 1 aborted request, revocation | `EveryCommandSettles`, `RevokedGoesDark` | 299,512 |
| `cloud_link` | three plans of one request, up to three enrollment attempts and three handlers at a time (below) | `TypeOK`, `TokenLeavesOnce`, `CredentialHasApproval`, `BudgetExact`, `SequentialRetryDoesNotStrand`, `LinkTokenLives`, `DecisionStands`, `PendingResolves`, `RevokedIsDemoted` | 210,043 |
| `remote_bridge` | 2 reads of one process, a shell of another; 2 sockets, 1 timeout | `TypeOK`, `AtMostOnce`, `OkMeansExecuted`, `BytesCrossOnlyUnlocked`, `NoJobVanishes` | 694,263 |
| `runner_loop` | 3 events of 7 kinds, 2 channel slots, 2 starts, 1 fault | `TypeOK`, `NoEventVanishes`, `CoalescingKeepsLast`, `NoLostRender`, `ShownIsCurrent`, `SavedStateSurvives`, `RememberedIsCurrent`, `SafeModeAfterThree`, `EventIsShown` | 1,883,973 |
| `scene_sync` | 2 scenes, 2 requests of either route that may overlap, 2 commands, 2 sockets that take one command at a time, wake-ups, 1 fault, 1 state message; the scenes are symmetric | `TypeOK`, `PageTellsTruth`, `NewestPushWins` | 6,065,102 |
| `superseded_asset` | 2 `asset_put`, 2 sockets | `UnackedStaysQueued` is violated | - |
| `online_flag` | 2 sockets, 1 fault, no command | `OnlineMatchesLive` is violated | - |
| `stale_redelivery` | 2 `set_scenes`, 2 concurrent requests, 1 socket, 1 wake-up | `NeverRollBack` is violated | - |
| `lost_state` | an upload with a state, 1 failed initialisation | `FieldIsRestored` is violated | - |
| `early_scene_ack` | an upload, 2 starts | `ReportedIsLive` is violated | - |
| `torn_assignment` | 2 scenes, 2 requests, 1 socket | `ListedWasPushed` is violated | - |

What the properties say:

* `SettledIsFinal`: no late ack, stale snapshot, redelivery, supersede or
  revocation touches a settled row.
* `VerdictMeansExecuted`: acked or failed means that the device carried the
  command out.
* `OneLiveSocket`: an activated session with an open socket that is not being
  kicked is the one in `deviceSessions`, also when an older session's
  activation resumes late.
* `SupersededHasSuccessor`: a row dropped as superseded has a newer row of its
  kind, or the request that dropped it is about to insert one (proved for every
  instance in which no request dies between the two).
* `NeverRollBack`: the device never replaces a payload by an older one. It holds
  while requests come one at a time (`hub_queue`; proved for every instance, with
  wake-ups, crashes, dying requests and revocation) and fails when two
  interleave (`stale_redelivery`).
* `ContractHolds`: the refinement of `CommandContract`.
* `EveryCommandSettles`: a queued command is settled in the end, unless the
  frame is revoked. A run also ends when the device has used its last socket.
* `RevokedGoesDark`: a revoked frame ends up with no live session for good.

Of the assignments:

* `PageTellsTruth`: once nothing is under way and the device is connected, the
  page says "in sync" exactly if what the device was given is what is assigned.
  Lost, repeated and refused pushes, lost acks and reports, previews, and
  requests that die inside the transaction do not spoil it. Two assignments that
  overlap, a request that dies after its commit (`torn`), and a report of an old
  session written after a newer session's hello (`overtaken`) may, and nothing
  else does.
* `NewestPushWins`: if the newest push was acked as applied, it is what the
  device has, then and until another is queued, however many sockets the pushes
  took, whatever was written before `ready`, redelivered or written twice, as
  long as no two requests cross. With requests that cross it is false: both pushes
  are live, an early drain loses the older, and the grace period brings it back
  after the newer was acked (finding 3, the run `stale_redelivery`).

Of the link:

* `TokenLeavesOnce`: the token of an approved request leaves the server at most
  once, and its decryptable copy is gone when it has.
* `CredentialHasApproval`: a linked client of the device flow exists exactly
  behind an approval, whatever polls, denials and expiries ran beside it. The
  status may since have become "expired" (`DecisionStands`).
* `DecisionStands`: a decision is not replaced by the opposite one. The UPDATEs
  to "expired" are not filtered on the status, and the property admits them: a
  poll that read the request before it was approved may write "expired" over the
  approval. The client stays, its token is never fetched.
* `BudgetExact`: a use of the claim token is spent exactly when a frame is
  created with it.
* `SequentialRetryDoesNotStrand`: as long as attempts do not overlap, the device
  does not throw its claim file away with neither a link nor a spent token.
* `LinkTokenLives`: lost answers, rotations, the grace window and restarts do
  not leave the link with a token that no client knows, again unless attempts
  overlap.
* `PendingResolves`, `RevokedIsDemoted`: the claim file is used up in the end,
  and a frame whose link was revoked returns to standalone.

Of the bridge:

* `AtMostOnce`: no command is carried out twice, whichever socket takes it.
* `OkMeansExecuted`: an "ok" is about the caller's own command and true.
* `BytesCrossOnlyUnlocked`: bytes of one command reach the result of another only
  if the two were not under one lock, or the lock was released by a timeout.
* `NoJobVanishes`: while a caller waits its command is somewhere from where an
  answer can come, unless the cancellation of a pump dropped it. The two places
  where that happens are the two the property names.

Of the runner:

* `NoEventVanishes`, `CoalescingKeepsLast`: an accepted event is handled, waits,
  or is a mouseMove skipped for a newer one with nothing in between.
* `NoLostRender`, `EventIsShown`: a change made by the message loop is drawn by
  a pass that has been asked for, and not only when the scene's interval ends.
* `ShownIsCurrent`: at rest the frame shows the current scene through the
  instance that receives events.
* `SavedStateSurvives`, `RememberedIsCurrent`: the kept value is the one last
  given and the remembered scene the current one, but for the ways to spoil their
  files listed in section 2.
* `SafeModeAfterThree`: the runner starts with the boot guard's scene exactly when
  this is the third start in a row without a completed render. The count may be
  another than that of the starts in two cases, which are `spoiled`: a failed
  write, and a start the main loop forgave (section 6, observations).

The modules also contain faulty variants of some definitions
(`supersedeAnyKind`, `PollClaimAgain`, `SettleForgets`, ...), which the
specifications do not use. `PROJECT.json` pairs each property with one of them: put in place
of the definition it varies, it makes the run's TLC find the property violated.

Why these bounds. Every conflict in the code is between two of something: two
sockets of one frame, two commands of one kind, two wake-ups, two requests, a
row and one concurrent statement. One fault is enough to lose one side of a
socket at the worst moment, and the second socket shows what redelivery makes
of it. The combinations are split over the runs because all of them together
exceed what TLC enumerates in minutes; each run keeps the actors its properties
need. `MaxIdleWakes` bounds wake-ups that find nothing to do, which would only
add idle steps; it is 1 in `hub_liveness`, where such a wake-up may overlap the
start of other work, and 0 elsewhere. Wake-ups that find work or a revoked frame
are not bounded. A session is one socket and is used once, so `MaxSession`
bounds the reconnections. `CHECK_DEADLOCK FALSE` everywhere: the system rests
when every command is settled and nothing is under way.

`hub_queue` has no wake-ups, because with them its two commands and two sockets
are too many states. Their interleavings with a socket, a crash and a revocation
are in `hub_liveness`, and the theorems of section 5 cover them for
every property of the run. `scene_sync` needs two requests to overlap, two scenes for
the union of two assignments to be neither, and two sockets for a report to
overtake a hello; a second fault would only break the last socket too. The state
message is a report without a push. `MaxBuffered` of 1 makes drains back off and
leave the second command to a wake-up.

`cloud_link` starts in one of three plans. `DeviceFlow`: one request, one fault,
two clicks of the owner (approve, deny) that race the polls, three handlers at a
time. `BootFile`: the claim token in the pending file, three attempts (one more
than there are faults and restarts), a fault, a restart, and the owner confirms
or revokes. `Portal`: both flows from the portal, with disconnects. The token
has one use and the account room for one frame, so that the last use and the
last place are always the ones fought for; `FailureLimit` is 2 (3 in the code).
In `remote_bridge` two commands share a lock and one does not, one socket may
break while the backend still holds it and the second replaces it.

In `runner_loop` three events are what a put-aside event, a coalesced burst and a
change during an await need, and two slots make the channel overflow. `Kinds`
leaves out a "render" sent from outside, as the follow-up of a state event is one
already, and an upload without a state, which does less than one with a state. A
state whose follow-up render finds the channel full is drawn by the scene's own
interval only, and `NoLostRender` leaves it out; with three events and two slots
that does not happen, so the run shows nothing about it. Two starts let the second
read what the first left on disk, and `CrashLimit` is 2 (3 in the code) so that the
second may be the one in safe mode; between them the process may crash, quit or be
forgiven. One fault, a write or an initialisation that fails, is enough to spoil a
file and too little to spoil two. `ContextLimit` is 1: the code stops writing the
scene into the guard file after a few successful passes.

## 4. Fairness

`FairSpec` of `FrameHub` assumes weak fairness of what the code's scheduling ensures:

* activation, drain, disconnect, ack handling and wake-ups of the hub, because
  it is an event loop and an issued statement commits;
* the close event of a socket that is closing (the WebSocket library times the
  handshake out) or that the device has left (heartbeat, auth timer);
* the sweep every 30 seconds (`SweepExpire`, and `WakeStart` inside `Wake`) and
  the end of the grace period;
* the statements of a web request in progress, until it ends or dies;
* the restart of the hub by its supervisor;
* the device: it redials for ever, answers the challenge, reads what arrives,
  and notices that the hub has closed its socket.

Nothing forces a fault, a crash, an abort, a request or a revocation.
`DeviceRead` is fair because the device's loop reads until its socket ends.

`CloudLink`: weak fairness of each handler and waiting caller (a statement
commits or fails, a caller has a timeout) and of `clearPendingEnrollment`. Strong
fairness of the hub thread's two steps, `EnrollBoot` and `Dial`: the thread goes
round its loop for ever, and what can disable it again and again is only that
the model has a bounded number of slots for handlers. Users, clocks and faults
are not forced. `PendingResolves` needs the bound on faults: a claim file whose
every attempt fails is kept until it expires.

`RunnerLoop`: weak fairness of the render loop; strong fairness of the message
loop, which is enabled only while the render loop awaits. The loops are
coroutines of one dispatcher: when the render loop awaits, a due timer of the
message loop runs in the same poll. Nothing is assumed of `IntervalOver` (an
interval may be days), of starts, crashes and senders: `EventIsShown` must not
depend on them.

`RemoteBridge` and `SceneSync` are checked for safety only. The waits of the bridge
all end by timeouts, and what they end in is what its safety properties are about;
that a queued command is settled in the end is `EveryCommandSettles` of `FrameHub`,
whose queue and device are those of `SceneSync`.

## 5. Proofs

### Hub and queue

`CommandRowsProofs` has one lemma per statement: what it keeps of the table's
type and order, that it leaves settled rows alone, and how the public status
moves. `FrameHubProofs` cites them and proves, for all values of the constants
that satisfy `CommandAssumption` and `HubAssumption`:

| Theorem | Says |
|---|---|
| `InvariantHolds` | `Spec => []IInv` |
| `TypeCorrect` | `Spec => []TypeOK` |
| `VerdictTheorem` | `Spec => []VerdictMeansExecuted` |
| `OneLiveSocketTheorem` | `Spec => []OneLiveSocket` |
| `SettledTheorem` | `Spec => SettledIsFinal` |
| `Implements` | `Spec => ContractHolds` |

The inductive invariant `IInv` is the conjunction of

* `TypeOK`;
* `SessionInv`: a socket that was never used belongs to a session that has not
  started, and a ready session is past the claim. `OneLiveSocket` needs the
  first half (a socket that opens is not ready yet), `EpochInv` the second (a
  claim makes one more session ready);
* `EpochInv`: the number of activations is at most the number of sessions that
  are ready, which keeps stamps and cutoffs within `Epochs`;
* `QueueInv`: exactly the rows up to `queued` exist, so a new row is the newest;
* `BatchInv`: a drain's snapshot contains only queued commands and is not empty
  while it sends or marks;
* `ToDeviceInv`, `ToHubInv`: what is on the wire to the device was queued, and
  what is on the wire to the hub was carried out. The second is what makes
  `VerdictMeansExecuted` inductive: the verdict arrives long after the command
  was carried out, through sockets that may be closed and activations that may
  not be finished;
* `VerdictMeansExecuted` and `OneLiveSocket` themselves.

Each conjunct has a lemma with one step per action that can disturb it
(`SessionInvStep`, `QueueInvStep`, ...). The steps on the table are shared:
every statement except the insert and the ack is "housekeeping"
(`CommandRowsProofs`): it adds no row, gives no verdict and leaves settled rows
alone, and `RowsStep` says which actions are housekeeping. `IInvStep` collects
the lemmas, and the theorems combine it with `IInvInit` by the temporal rules. The refinement needs no
history: every action maps to one step of the contract or to a stutter, except
that a supersede, a revocation or an expiry drops a set of commands at once.

`PayloadOrderProofs` goes on from there:

| Theorem | Says |
|---|---|
| `NeverRollBackTheorem` | `OneWriter /\ Spec => NeverRollBack` |
| `SuccessorTheorem` | `MaxAborts = 0 /\ Spec => []SupersededHasSuccessor` |

`OneWriter` is the assumption that there is one request at a time, without which
the property is false. `OrderInv` says where an older payload may still be when a
newer one is on its way:

* `NewestLive`: a live row of a superseding type is the newest of its type;
  between a request's supersede and its insert there is none (`NoneLive`);
* `WireOrder`: what a socket holds is in order, and a drain only adds what is no
  older; a socket that was never used holds nothing (`FreshSocket`);
* `ShownOrder`: nothing older than what the device shows is on its way on the
  device's socket.

Two lemmas carry the weight. `SnapshotIsNewest`: the pending rows that a drain
selects are no older than any row of their type, so that the snapshot may grow
old without harm. `SendLemma`: sending from it keeps the wire in order.
Everything a late mark, a redelivery or a wake-up does to the table makes no row
live (`RowsKeep`), which is why `NewestLive` survives it.

`SuccessorTheorem` assumes that no request dies between its supersede and its
insert: one that does leaves a dropped payload without a replacement, the case that
`scene_sync` names `torn`. Its invariant,
`DroppedIsReplaced`, adds that the dropped row itself was queued. `JustifiedStep`
is the main lemma: apart from a request's supersede and its insert, whatever
drops a row as superseded finds a newer live row of the same type in the table
(`Justified`), and rows are never taken away. Requests may interleave here.

### Scene assignments

`SceneSyncProofs` proves, for every set of scenes and all bounds that satisfy
`CommandAssumption` and `SyncAssumption`:

| Theorem | Says |
|---|---|
| `InvHolds`, `TypeCorrect` | `Spec => []Inv`, `Spec => []TypeOK` |
| `PageIsTrue` | `Spec => []PageTellsTruth` |

* `AssignOK`: as long as no assignment is torn, at most one is under way, the
  payload it carries is that of what it commits, and otherwise
  `assigned_checksum` is that of the assignments;
* `EpochOK`, `SessionOK`: no more activations than activated sessions; sockets
  are used in order, the device uses the latest, and nothing crosses a socket
  before `ready`;
* `ReportOK`: the last report on the device's own socket, or else the column, is
  what the device has. This is what makes the page right at rest, and it is why
  no report of an older session may come after a newer hello: any other
  session's write is `Late` (`LateLemma`).

`ScenePushProofs` builds on that invariant:

| Theorem | Says |
|---|---|
| `OrderHolds` | `Spec => []OrderOK` |
| `NewestWins` | `Spec => []NewestPushWins` |

What has to be excluded is that an older push reaches the device after the
newest. `OrderOK` says, as long as requests do not cross, where an older one may
still be:

* `KnownOK`: rows are numbered as they come, and what is on its way has one; only
  a session that was activated drains;
* `AloneOK`: only the newest row is ever alive, and none is between a request's
  supersede and its push. So a redelivery, whether of an activation or of a
  wake-up, queues no older one again;
* `SortOK`: a snapshot or a wire may hold older commands whose rows were dropped,
  and a drain that began before the push still writes them. But a session writes
  in order, so the device reads them before the newest;
* `TakenOK`: once the newest is confirmed, by its row or by an ack on its way, the
  device has it, and will read no other. A kicked session's drain writes no more,
  and the device has left its socket.

Nothing is assumed of when a drain happens: `Sweep` and `SweepKeeps` are about the
statements of redelivery whoever runs them, and a drain before `ready` loses what
it writes. `AloneOK` is what requests that cross break, and the run
`stale_redelivery` shows what follows.

### Runner

`RunnerLoopProofs` proves, for every set of kinds and all bounds that satisfy
`RunnerAssumption`:

| Theorem | Says |
|---|---|
| `InvHolds`, `TypeCorrect` | `Spec => []Inv`, `Spec => []TypeOK` |
| `ChangesAreDrawn` | `Spec => []NoLostRender` |
| `FrameShowsCurrent` | `Spec => []ShownIsCurrent` |
| `SavedStateIsLastGiven` | `Spec => []SavedStateSurvives` |
| `SafeModeIsExact` | `Spec => SafeModeAfterThree` |
| `LedgerHolds` | `Spec => []LedgerOK` |
| `AcceptedEventsAreKept` | `Spec => []NoEventVanishes` |
| `DragsEndWhereTheyEnded` | `Spec => []CoalescingKeepsLast` |
| `CurrentIsRemembered` | `Spec => []RememberedIsCurrent` |
| `CurrentIsExported` | `Spec => [](Running => Exported(loop.cur, insts.version))` |

`Inv` has three parts about data and five arguments that rest on them:

* `TypeOK`, `ChannelOK` (only a handler's own "render" has no number, at most
  one event is put aside), `StoppedOK` (without a runner there is no scene and
  nothing to draw);
* `HeldOK`: the render loop's instance is that of the last scene, and that of
  the table unless a reload is pending. All the arguments about awaits go through
  it, because it is what the message loop can and cannot do to the instance;
* `ShownOK`: `ShownIsCurrent` extended back to the start of the pass, without
  which the step into the sleep could not be proved;
* `NoLostRender` itself;
* `CountOK`: the count on file, the one in memory and the true number of starts
  agree unless the file is spoiled, and the first scene a start has chosen is the
  guard's exactly if the count in memory has reached the limit;
* `SavedOK`: file, table, the process's copy and last given value agree unless the
  file is spoiled. Table and copy are what is not in the property: the file is
  written from the one, when it differs from the other.

`LedgerOK` rests on `Inv` and follows events and files:

* `FateOK`: the channel is a queue. What stands in it is in the order it was
  sent, the event put aside is older than all of it, and no event that waits has a
  newer one behind it that is done with. That nothing is taken out of turn is what
  `NoEventVanishes` and `CoalescingKeepsLast` have in common;
* `KeptOK`: the current scene counts as kept only if it is the one on file, and
  so does what the process takes to be on file, unless the file is spoiled; an
  error scene never counts as kept; and the current scene is exported.
  The last is `CurrentIsExported`, and it justifies a simplification of the module:
  the branches of a pass for a current scene that is not exported (runner.nim:191-200)
  are never taken, so `Changed` leaves them out.

### Remote bridge

`RemoteBridgeProofs` proves, for every number of commands, processes and sockets
that satisfies `BridgeAssumption`:

| Theorem | Says |
|---|---|
| `InvHolds`, `TypeCorrect` | `Spec => []Inv`, `Spec => []TypeOK` |
| `RunsAtMostOnce` | `Spec => []AtMostOnce` |
| `OkIsTrue` | `Spec => []OkMeansExecuted` |
| `NoJobIsForgotten` | `Spec => []NoJobVanishes` |
| `CrossHolds` | `Spec => []CrossInv` |
| `BytesStayHome` | `Spec => []BytesCrossOnlyUnlocked` |

* `SockOK`: a pump holds a job exactly while it is about to send it, and a pump
  that stopped while its socket is read is failing every marked command. It
  carries `NoJobVanishes`, which is inductive with it;
* `OnePlace`: some function gives every command the one place it is at (its
  caller, the queue, a pump, the wire of one socket, the agent, done), no list
  holds a command twice, and a command has run at most once, and only if it is
  done. That no command is in two places is what makes "at most once" inductive;
* `TrueAnswers`: every shell under way, reply on a wire, reply in a list and
  outcome of a caller that says ok is of a command that has run.

`BytesCrossOnlyUnlocked` needs a second invariant, `CrossInv`, because
`current_bin_cmd` is one per socket and says nothing of locks:

* `LockOK`, `QueueOK`: a caller inside its call holds its lock, and of two
  commands of one lock in the list the first one's caller has given up;
* `FreshOK`, `SentOK`, `ReplyOK`: a command that was not sent has no answer and is
  expected nowhere, one that was is expected on its own socket only, and if it has
  an answer while it is still under way that socket has been given up;
* `MarkOK`: a read under way on a socket, whose caller has not given up, is the
  last of its lock that was sent there: the socket's mark is never of another;
* `FrameOK`: bytes come from the agent, before the reply, on one socket;
* `CleanOK`: the conclusion, for buffers, answers and outcomes alike.

### Link

`CloudLinkProofs` proves, for every number of handlers, requests, attempts, uses
and frames that satisfies `LinkAssumption`:

| Theorem | Says |
|---|---|
| `InvHolds`, `TypeCorrect` | `Spec => []Inv`, `Spec => []TypeOK` |
| `TokenLeaves` | `Spec => []TokenLeavesOnce` |
| `CredentialApproved` | `Spec => []CredentialHasApproval` |
| `BudgetIsExact` | `Spec => []BudgetExact` |
| `Decided` | `Spec => DecisionStands` |
| `LinkHolds` | `Spec => []LinkOK` |
| `TokenLives` | `Spec => []LinkTokenLives` |
| `RetryIsSafe` | `PortalUnused => (Spec => []SequentialRetryDoesNotStrand)` |

A handler reads in one statement and writes in another, so the argument is about
what it still may rely on when it writes:

* `CallsOK`: `CallGood` says what stays true of the rows a running handler holds
  numbers of, whatever the others do in between (a poll that has redeemed its
  request is the only one, and nothing has been sent; an enrollment's token is
  still nobody's; a client that is to be rotated had a token). `Apart` says that
  two handlers never hold the same one;
* `RequestsOK`: a request that is still to be made is absent, and every code the
  device knows was made before;
* `ApprovedOK`: approved requests have a client, undecided and denied ones none,
  and only a client's token is redeemed and sent;
* `TokensOK`: the tokens of attempts to come are new, a pending frame's client
  has one.

`RowsBy` is the interface between handlers: a step changes rows in the name of
one handler only, and `KeepsGood` shows that every other handler's `CallGood`
survives such a step. Most actions are `Quiet`, and `QuietLemma` serves them all;
the writes to requests and tokens have a lemma each.

`LinkOK` adds what is needed for `LinkTokenLives`. `OwnOK`: the client of a
request never has another token than the request's, rotations are of clients of
attempts, and a poll that brings a token has found its client. `AloneOK`, as long
as attempts do not overlap: there is one at a time, the link holds no token of an
attempt while it runs, and the answer it is about to get, as well as the link,
name a token somebody has. So a rotation can only replace a token the link does
not hold. Steps that give nobody a token are `CalmRows` and `CalmCall`
(`CalmLemma`); `GrantToken` serves the rotation and the redemption.

`RetryOK` is needed for `SequentialRetryDoesNotStrand`, on top of `Inv` and
`LinkOK`. Its argument follows one boot file from the first attempt to the dial:

* `UniqueOK`: a token is one client's, current or previous, and that of an attempt
  is nobody's until the attempt creates or rotates a frame with it. So a lookup by
  token finds the frame that is meant or none;
* `OneFrameOK`, as long as attempts do not overlap: one pending frame at most, and
  the step the attempt is at fits it. It creates a frame only if there is none,
  rotates the one there is, and an "ok" names the token that frame now has, while
  a refusal of an unexpired claim token is given only if there is no frame;
* `ThreadOK`: the hub thread waits for one answer at a time and throws no file
  away meanwhile;
* `AwayOK`: nothing is done from the portal;
* `BootOK`: once the file is used up, no attempt runs, a frame that waits has the
  token of the link, and a dial under way finds it: it is not refused, so there is
  no streak of refusals that would drop the link.

`PortalUnused` says that in every plan a device with a boot file is left alone:
no device-flow request and no use of its portal. Without it the statement is
false, and rightly so: a user who links the frame to another account from the
portal, or unlinks it, drops the link while the pending frame stays. The run's
`BootFile` plan satisfies it, and its other plans have no boot file.

### What is only model-checked

The five liveness properties, because liveness under fairness is outside what the
prover handles. Every invariant and every action property of the passing runs
is proved, three of them for the environments their theorems name:
`NeverRollBack` for requests that come one at a time (the overlap is what
`stale_redelivery` shows), `SupersededHasSuccessor` for requests that do not die
half-way (`MaxAborts = 0`), and `SequentialRetryDoesNotStrand` under `PortalUnused`.

## 6. Findings

Six runs check what a comment or document of the repository says and find that
the code does otherwise.

1. `superseded_asset` - docs/cloud-frames.md:306-308, an unacked command "stays
   queued and is redelivered on the next session". On reconnect every unacked
   command with a newer waiting one of its type is expired, although two
   `asset_put` (or `asset_delete`) of different paths do not replace each other.
2. `online_flag` - hub.ts:546-547 says that the end of the activation catches up
   with a close event it "may have raced past". If the close handler has already
   run its UPDATE, before the activation's, the catch-up returns at once and the
   frame stays marked online without a session.
3. `stale_redelivery` - frames.ts:288-293 and hub.ts:326-330 say that superseding
   sent commands prevents the resurrection of a replaced one. Two requests that
   interleave leave two live commands. The older is lost: hub.ts:513-515 says "A
   fresh session cannot have written anything yet" and docs/cloud-frames.md:182-184
   that `ready` comes before the drain, but the session is `ready` and in the map
   before the activation's statements are awaited, so a NOTIFY or sweep drains
   commands to the device before the `ready` message, and the device's handshake
   loop drops them. When the newer is then acked, the older is redelivered after the
   grace period and replaces it.
4. `lost_state` - SceneState.tsx:160, "Changes to this field are persisted and
   restored after a reboot". When a scene fails to initialise, the error scene
   drawn in its place has its id and none of its fields, and keeping that state
   deletes the kept ones (scenes.nim:565-577). A state that comes with an upload
   handled during the await of a pass is overwritten by that of the replaced
   instance.
5. `torn_assignment` - scenes/route.ts:216-218, "All-or-nothing: committing the
   new assignments while failing to enqueue the push would leave GET listing
   scenes the device was never sent". Two assignments that overlap both delete
   what was committed and insert their own rows, and the committed set is the
   union of both (the default isolation level, no lock on the frame, a unique
   index on the scene only). Neither push contains it.
6. `early_scene_ack` - docs/cloud-frames.md:221, "then `scene_ack` once it is
   actually live (no `scene_ack` if the hot-load fails - the frame is then
   genuinely out of sync)", and hub_client.nim:600-602, where acking a payload that
   is not shown "would tell the provider the frame is up to date forever".
   `handleSetScenes` (599-613) records and reports the checksum as soon as the event
   is on the channel. When the process dies before the runner takes the event (the
   run), or the runner refuses it because a file cannot be written, nothing takes the
   checksum back: the frame rests without the scenes, and every later hello reports
   them.

Observations made while modelling, without a run of their own:

* hub.ts:326 says that `supersedePendingCommands` only rewrites "pending" rows;
  frames.ts:305 rewrites pending and sent ones.
* docs/cloud-frames.md:102-105 calls retrying an enrollment safe. It is when
  attempts follow one another; an attempt that begins while the handler of a
  timed-out one still runs may rotate the token the device is about to save.
  `SequentialRetryDoesNotStrand` and `LinkTokenLives` carry that condition.
* `frames/[frameId]/confirm` reads the status and then updates without a filter
  (route.ts:49-52): it can set a frame active that is being revoked. The revoked
  link still keeps the frame out.
* The frame quota is a count and an insert in two statements in flow B, so two
  registrations can exceed it by one.
* A request that is overdue may still be denied, and approved if the approval's
  clock was read before.
* "All-or-nothing" in the scenes route covers the making of the payload, not
  `assigned_checksum`, supersede and insert: a web process that dies between the
  commit and the insert leaves the page at "sync pending" (or at "in sync" with
  the old set) until the next assignment.
* A `scene_ack` in the backlog of a closed session is written without looking at
  the session (hub.ts:656-681). If the next session's hello has been written by
  then, the page shows the older checksum until the device reports again: it may
  say "in sync" during an ad-hoc preview, where event/route.ts:42-44 promises
  "out of sync", or "sync pending" for a frame that is in sync.
* A `setSceneState` that follows an upload in the same drain is refused, because
  the new scene is not in the table before the next pass.
* A failed write of `uploaded.json` leaves the registry of scenes changed, and one
  of the state that comes with an upload leaves the file changed as well, with the
  old scene still shown.
* A failed write of a scene's state or of `scene.json` is not tried again
  (scenes.nim:537-545): the process takes it for written until the value changes.
* frameos/frameos.nim:216-218 says that a driver that dies in `drivers.init`
  "leaves a reachable frame, and the crash is counted by the boot guard on the next
  attempt". The exception ends in the main loop, which clears the count before it
  tries again (frameos.nim:112), so a driver that raises on every attempt never leads
  to safe mode. `SafeModeAfterThree` and `SafeModeIsExact` name the forgiven start.
* An exception of the web server after the runner has started clears the count
  too, and the next attempt starts a second runner thread beside the first.
* A `setCurrentScene` whose scene cannot be initialised has already sent "close" to
  the scene that stays (runner.nim:461-463).

## 7. Not modelled

* In the hub: `close()` (graceful shutdown), statements that fail, a database
  connection that is lost, `last_seen_at`, telemetry, asset streams, browser
  sockets and rate limits.
* On the rows: the payloads of other types than `set_scenes`, and audit events.
  On the assignments: versions, positions, the content checks of a payload, and
  scenes that leave the store. Rows inserted in another order than `created_at` (a transaction that
  starts first and commits last).
* In the link: rate limits and `slow_down`, scopes, account and CSRF checks, the
  generation counter, the key pair (one, constant), failed writes of the
  device's files, the login and backup routes.
* In the bridge: the handshake and its MACs, blob uploads, streamed output and
  terminals (a caller without a lock).
* In the runner: the second runner thread that an attempt after a failed web server
  starts, the portal's own call of `getFirstSceneId`, power events of drivers, metrics, fast-render pauses, images,
  public state, the interpretation of a scene's nodes.
* Of the device's management client: delays of the backoff, the other verbs, log
  forwarding, upgrades.
* The scheduler, the logger, the HTTP server and portal, the deploy and build
  tasks, the backend's API, accounts and store, the firmwares and frontends:
  small and sequential, or mostly input and output, or user interface;
  `PROJECT.json` gives the reason for each. They make up most of the
  repository's lines: the modelled parts are its concurrent core, some
  thousands of lines among more than a hundred thousand.

## 8. Plan

In order of importance:

1. `FrameHub`: graceful shutdown and failing statements; asset streams, which
   are the other thing tied to a command's life.
2. `Scheduler` and `Logger`: clock steps, bounded buffers.
3. Deploys of one frame that overlap.

Every safety property above is proved; the modules to come get theorems of their
own, stated with the same split into an inductive invariant and its parts.
