--------------------------- MODULE FrameHubProofs ---------------------------
(***************************************************************************)
(* Proofs about FrameHub, for every number of commands, sessions, wake-ups *)
(* and requests, every set of command types and every fault budget.        *)
(***************************************************************************)
EXTENDS FrameHub, CommandRowsProofs, FiniteSetTheorems

-----------------------------------------------------------------------------
(* The inductive invariant.  TypeOK alone is not inductive: the head of a  *)
(* drain's snapshot must exist, sent_at must stay within the activation    *)
(* numbers, and a verdict must be traced back to the wire.                 *)

\* A socket that was never accepted has no session; a ready session has left
\* the handshake.
SessionInv ==
  \A s \in Session :
    /\ sock[s] = "unused" => ~ready[s] /\ act[s] = "handshake"
    /\ ready[s] => act[s] \notin {"handshake", "check", "claim"}

\* No more activations than ready sessions, so the count is one of Epochs.
EpochInv == epoch <= Cardinality({s \in Session : ready[s]})

\* The rows exist in the order they were queued.
QueueInv == \A c \in Cmd : rows[c].status = "absent" <=> c > queued

\* A drain that is about to send or mark has a row to do it to.
BatchInv ==
  \A s \in Session :
    /\ drain[s].pc \in {"send", "mark"} => drain[s].batch # {}
    /\ \A c \in drain[s].batch : rows[c].status # "absent"

\* Only commands that were queued are on the wire to the device.
ToDeviceInv ==
  \A s \in Session : \A i \in 1 .. Len(toDevice[s]) :
    toDevice[s][i] \in Cmd => rows[toDevice[s][i]].status # "absent"

\* Only commands that were carried out are acknowledged.
ToHubInv ==
  \A s \in Session : \A i \in 1 .. Len(toHub[s]) : toHub[s][i].cmd \in executed

IInv ==
  /\ TypeOK
  /\ SessionInv
  /\ EpochInv
  /\ QueueInv
  /\ BatchInv
  /\ ToDeviceInv
  /\ ToHubInv
  /\ VerdictMeansExecuted
  /\ OneLiveSocket

USE DEF database, memory, device, web, budgets, frameRow

\* The oldest command of a snapshot is a command of it.
LEMMA FirstLemma ==
  ASSUME NEW S \in SUBSET Cmd, S # {} PROVE First(S) \in S
BY OldestExists DEF First

-----------------------------------------------------------------------------
(* What a step does to frame_commands.                                     *)

\* Every step but an INSERT and an acknowledgement is housekeeping.
LEMMA RowsStep ==
  ASSUME TypeOK, BatchInv, Next
  PROVE  \/ Housekeeping(rows, rows') /\ UNCHANGED queued
         \/ \E r \in Request : RequestInsert(r)
         \/ \E s \in Session : HandleAck(s)
<1> DEFINE Goal == \/ Housekeeping(rows, rows') /\ UNCHANGED queued
                   \/ \E r \in Request : RequestInsert(r)
                   \/ \E s \in Session : HandleAck(s)
<1>t. rows \in Table BY DEF TypeOK, DatabaseTypeOK, MemoryTypeOK, DeviceTypeOK, WebTypeOK
<1>u. ASSUME UNCHANGED <<rows, queued>> PROVE Goal
  BY <1>t, <1>u, NothingIsHousekeeping
<1>1. ASSUME NEW s \in Session, Activation(s) PROVE Goal
  <2>1. CASE ActivateQueue(s)
    <3>1. CASE /\ rows' = dropOutdated(expireStaleCommands(rows),
                            SentBefore(expireStaleCommands(rows), cutoff[s]))
      <4> DEFINE t == expireStaleCommands(rows)
      <4>1. Housekeeping(rows, t) BY <1>t, ExpireStaleIsHousekeeping
      <4>2. t \in Table BY <4>1 DEF Housekeeping
      <4> HIDE DEF t
      <4>3. Housekeeping(t, dropOutdated(t, SentBefore(t, cutoff[s])))
        BY <4>2, DropOutdatedIsHousekeeping DEF SentBefore
      <4>4. Housekeeping(rows, rows')
        BY <4>1, <4>3, <3>1, HousekeepingComposes DEF t
      <4>5. QED BY <4>4, <2>1 DEF ActivateQueue
    <3>2. CASE rows' = requeueLost(rows, SentBefore(rows, cutoff[s]))
      <4>1. Housekeeping(rows, rows')
        BY <1>t, <3>2, RequeueIsHousekeeping DEF SentBefore
      <4>2. QED BY <4>1, <2>1 DEF ActivateQueue
    <3>3. QED BY <3>1, <3>2, <2>1 DEF ActivateQueue
  <2>2. CASE ~ActivateQueue(s)
    BY <1>1, <1>u, <2>2
    DEF Activation, Authenticate, ActivateCheck, ActivateClaim, ActivateOnline,
        ActivateGreet, ActivateFinish
  <2>3. QED BY <2>1, <2>2
<1>2. ASSUME NEW s \in Session, Drain(s) PROVE Goal
  <2>1. CASE DrainSelect(s)
    BY <1>t, <2>1, ExpireStaleIsHousekeeping DEF DrainSelect
  <2>2. CASE DrainSend(s) BY <1>u, <2>2 DEF DrainSend
  <2>3. CASE DrainMark(s)
    <3>1. drain[s] \in DrainLoop BY DEF TypeOK, DatabaseTypeOK, MemoryTypeOK, DeviceTypeOK, WebTypeOK
    <3>2. drain[s].batch \in SUBSET Cmd /\ drain[s].stamp \in Epochs
      BY <3>1 DEF DrainLoop
    <3>3. drain[s].batch # {} BY <2>3 DEF DrainMark, DrainStep, BatchInv
    <3>4. First(drain[s].batch) \in Cmd BY <3>2, <3>3, FirstLemma
    <3>5. rows' = markSent(rows, First(drain[s].batch), drain[s].stamp)
          /\ UNCHANGED queued
      BY <2>3 DEF DrainMark
    <3>6. QED BY <1>t, <3>2, <3>4, <3>5, MarkSentIsHousekeeping
  <2>4. QED BY <1>2, <2>1, <2>2, <2>3 DEF Drain
<1>3. ASSUME NEW w \in Waker, Wake(w) PROVE Goal
  <2>1. CASE WakeOutdated(w)
    BY <1>t, <2>1, DropOutdatedIsHousekeeping DEF WakeOutdated, SentTooLongAgo
  <2>2. CASE WakeRequeue(w)
    BY <1>t, <2>2, RequeueIsHousekeeping DEF WakeRequeue, SentTooLongAgo
  <2>3. CASE WakeStart(w) \/ WakeCheck(w) \/ WakeKick(w)
    BY <1>u, <2>3 DEF WakeStart, WakeCheck, WakeKick
  <2>4. QED BY <1>3, <2>1, <2>2, <2>3 DEF Wake
<1>4. ASSUME NEW r \in Request, Requests(r) PROVE Goal
  <2>1. CASE RequestSupersede(r)
    BY <1>t, <2>1, SupersedeIsHousekeeping DEF RequestSupersede
  <2>2. CASE ~RequestSupersede(r)
    BY <1>4, <1>u, <2>2 DEF Requests, RequestStart, RequestAbort
  <2>3. QED BY <2>1, <2>2
<1>5. ASSUME Revoke PROVE Goal
  BY <1>5, <1>t, <1>u, ExpireRevokedIsHousekeeping
  DEF Revoke, RevokeLink, RevokeRow, RevokeCommands
<1>6. ASSUME SweepExpire PROVE Goal
  BY <1>6, <1>t, ExpireStaleIsHousekeeping DEF SweepExpire
<1>7. ASSUME NEW c \in Cmd, TtlPasses(c) \/ GracePasses(c) PROVE Goal
  BY <1>7, <1>t, PassTtlIsHousekeeping, PassGraceIsHousekeeping
  DEF TtlPasses, GracePasses, Live
<1>8. ASSUME NEW s \in Session,
             \/ Connect(s) \/ RejectHandshake(s) \/ CloseEvent(s)
             \/ CommitOffline(s) \/ DeviceRead(s) \/ DeviceLeave(s)
      PROVE  Goal
  BY <1>8, <1>u DEF Connect, RejectHandshake, CloseEvent, CommitOffline,
                    DeviceRead, DeviceLeave
<1>9. ASSUME Crash \/ Boot PROVE Goal BY <1>9, <1>u DEF Crash, Boot
<1>10. QED
  BY <1>1, <1>2, <1>3, <1>4, <1>5, <1>6, <1>7, <1>8, <1>9 DEF Next

\* The INSERT queues the next command, as pending.
LEMMA InsertStep ==
  ASSUME TypeOK, NEW r \in Request, RequestInsert(r)
  PROVE  /\ rows' \in Table
         /\ queued + 1 \in Cmd /\ queued' = queued + 1
         /\ rows'[queued + 1].status = "pending"
         /\ rows'[queued + 1].kind = request[r].kind
         /\ \A d \in Cmd : d # queued + 1 => rows'[d] = rows[d]
<1>1. queued + 1 \in Cmd /\ queued' = queued + 1
  BY CommandAssumption DEF RequestInsert, TypeOK, WebTypeOK, Cmd
<1>2. request[r].kind \in Kinds \cup {"none"} BY DEF TypeOK, DatabaseTypeOK, MemoryTypeOK, DeviceTypeOK, WebTypeOK, WebRequest
<1>3. rows' = enqueueFrameCommand(rows, queued + 1, request[r].kind)
  BY DEF RequestInsert
<1>4. rows \in Table BY DEF TypeOK, DatabaseTypeOK, MemoryTypeOK, DeviceTypeOK, WebTypeOK
<1>5. QED BY <1>1, <1>2, <1>3, <1>4, EnqueueLemma

\* An acknowledgement settles the row it names, if it is still live.
LEMMA AckStep ==
  ASSUME TypeOK, NEW s \in Session, HandleAck(s)
  PROVE  /\ Head(toHub[s]) \in Ack
         /\ rows' = settleAck(rows, Head(toHub[s]).cmd, Head(toHub[s]).ok)
         /\ rows' \in Table
<1>1. toHub[s] \in Seq(Ack) /\ toHub[s] # <<>> BY DEF TypeOK, DatabaseTypeOK, MemoryTypeOK, DeviceTypeOK, WebTypeOK, HandleAck
<1>2. Head(toHub[s]) \in Ack BY <1>1
<1>3. Head(toHub[s]).cmd \in Cmd /\ Head(toHub[s]).ok \in BOOLEAN
  BY <1>2 DEF Ack
<1>4. rows' = settleAck(rows, Head(toHub[s]).cmd, Head(toHub[s]).ok)
  BY DEF HandleAck
<1>5. rows \in Table BY DEF TypeOK, DatabaseTypeOK, MemoryTypeOK, DeviceTypeOK, WebTypeOK
<1>6. rows' \in Table BY <1>3, <1>4, <1>5, SettleAckLemma
<1>7. QED BY <1>2, <1>4, <1>6

\* The statements of a step take a table to a table.
LEMMA RowsType ==
  ASSUME TypeOK, BatchInv, Next
  PROVE  rows' \in Table /\ queued' \in 0 .. MaxCmd
<1>1. CASE Housekeeping(rows, rows') /\ UNCHANGED queued
  BY <1>1 DEF Housekeeping, TypeOK, WebTypeOK
<1>2. ASSUME NEW r \in Request, RequestInsert(r)
      PROVE  rows' \in Table /\ queued' \in 0 .. MaxCmd
  BY <1>2, InsertStep, CommandAssumption DEF Cmd, TypeOK, WebTypeOK
<1>3. ASSUME NEW s \in Session, HandleAck(s)
      PROVE  rows' \in Table /\ queued' \in 0 .. MaxCmd
  BY <1>3, AckStep DEF HandleAck, TypeOK, WebTypeOK
<1>4. QED BY <1>1, <1>2, <1>3, RowsStep

-----------------------------------------------------------------------------
(* Type correctness.                                                       *)

\* The activation count is an activation number.
LEMMA EpochBound == ASSUME TypeOK, EpochInv PROVE epoch \in Epochs
<1> DEFINE R == {s \in Session : ready[s]}
<1>1. IsFiniteSet(Session) /\ Cardinality(Session) = MaxSession
  BY FS_Interval, HubAssumption DEF Session
<1>2. IsFiniteSet(R) /\ Cardinality(R) <= MaxSession
  BY <1>1, FS_Subset
<1>3. Cardinality(R) \in Nat BY <1>2, FS_CardinalityType
<1>4. epoch \in Nat BY DEF TypeOK, MemoryTypeOK
<1>5. QED BY <1>2, <1>3, <1>4, HubAssumption DEF EpochInv

\* A session that claims the frame was not ready, so it adds to the count.
LEMMA ClaimCounts ==
  ASSUME TypeOK, SessionInv, EpochInv, NEW s \in Session, act[s] = "claim"
  PROVE  /\ epoch + 1 <= Cardinality({t \in Session : ready[t]} \cup {s})
         /\ epoch + 1 \in Epochs
<1> DEFINE R == {t \in Session : ready[t]}
<1>1. IsFiniteSet(Session) /\ Cardinality(Session) = MaxSession
  BY FS_Interval, HubAssumption DEF Session
<1>2. IsFiniteSet(R) BY <1>1, FS_Subset
<1>3. s \notin R BY DEF SessionInv
<1>4. Cardinality(R \cup {s}) = Cardinality(R) + 1 BY <1>2, <1>3, FS_AddElement
<1>5. R \cup {s} \in SUBSET Session OBVIOUS
<1>6. Cardinality(R \cup {s}) <= MaxSession
  <2> HIDE DEF R
  <2>1. QED BY <1>1, <1>5, FS_Subset
<1>7. Cardinality(R) \in Nat BY <1>2, FS_CardinalityType
<1>8. epoch \in Nat BY DEF TypeOK, MemoryTypeOK
<1>9. epoch + 1 <= Cardinality(R) + 1 BY <1>7, <1>8 DEF EpochInv
<1>10. QED BY <1>4, <1>6, <1>7, <1>8, <1>9, HubAssumption

\* What the drain loop and the wake-up calls are made of.
LEMMA DrainTypes ==
  /\ NoDrain \in DrainLoop /\ NoWake \in WakeCall
  /\ \A d \in DrainLoop :
       /\ [d EXCEPT !.pc = "select"] \in DrainLoop
       /\ [d EXCEPT !.again = TRUE] \in DrainLoop
       /\ NextPass(d) \in DrainLoop
       /\ \A b \in SUBSET Cmd :
            /\ [d EXCEPT !.pc = "send", !.batch = b] \in DrainLoop
            /\ [d EXCEPT !.pc = "send", !.batch = b, !.stamp = 0] \in DrainLoop
       /\ \A e \in Epochs : [d EXCEPT !.pc = "mark", !.stamp = e] \in DrainLoop
<1>1. NoDrain \in DrainLoop /\ [NoDrain EXCEPT !.pc = "select"] \in DrainLoop
  BY CommandAssumption DEF NoDrain, DrainLoop
<1>2. NoWake \in WakeCall BY DEF NoWake, WakeCall
<1>3. \A d \in DrainLoop : NextPass(d) \in DrainLoop BY <1>1 DEF NextPass
<1>4. QED BY <1>1, <1>2, <1>3, CommandAssumption DEF DrainLoop

\* Every step keeps the types of the two tables.
LEMMA DatabaseTypeStep ==
  ASSUME TypeOK, BatchInv, Next PROVE DatabaseTypeOK'
<1> USE DEF DatabaseTypeOK
<1>r. rows' \in Table BY RowsType
<1>t. DatabaseTypeOK BY DEF TypeOK
<1>1. ASSUME NEW s \in Session, Activation(s) PROVE DatabaseTypeOK'
  BY <1>1, <1>r, <1>t
  DEF Activation, Authenticate, ActivateCheck, ActivateClaim, ActivateOnline,
      ActivateQueue, ActivateGreet, ActivateFinish
<1>2. ASSUME NEW s \in Session,
             \/ Connect(s) \/ RejectHandshake(s) \/ CloseEvent(s)
             \/ CommitOffline(s) \/ Drain(s)
      PROVE  DatabaseTypeOK'
  BY <1>2, <1>r, <1>t
  DEF Connect, RejectHandshake, CloseEvent, CommitOffline, Drain, DrainSelect,
      DrainSend, DrainMark
<1>3. ASSUME NEW s \in Session, DeviceRead(s) \/ DeviceLeave(s) \/ HandleAck(s)
      PROVE  DatabaseTypeOK'
  BY <1>3, <1>r, <1>t DEF DeviceRead, DeviceLeave, HandleAck
<1>4. ASSUME NEW w \in Waker, Wake(w) PROVE DatabaseTypeOK'
  BY <1>4, <1>r, <1>t DEF Wake, WakeStart, WakeCheck, WakeKick,
      WakeOutdated, WakeRequeue
<1>5. ASSUME NEW r \in Request, Requests(r) PROVE DatabaseTypeOK'
  BY <1>5, <1>r, <1>t DEF Requests, RequestStart, RequestSupersede,
                          RequestInsert, RequestAbort
<1>6. ASSUME Revoke \/ SweepExpire \/ (\E c \in Cmd : TtlPasses(c) \/ GracePasses(c))
      PROVE  DatabaseTypeOK'
  BY <1>6, <1>r, <1>t DEF Revoke, RevokeLink, RevokeRow, RevokeCommands,
                          SweepExpire, TtlPasses, GracePasses
<1>7. ASSUME Crash \/ Boot PROVE DatabaseTypeOK'
  BY <1>7, <1>r, <1>t DEF Crash, Boot
<1>8. QED BY <1>1, <1>2, <1>3, <1>4, <1>5, <1>6, <1>7 DEF Next

\* Every step keeps the types of the hub's memory.
LEMMA MemoryTypeStep ==
  ASSUME TypeOK, SessionInv, EpochInv, BatchInv, Next PROVE MemoryTypeOK'
<1> USE DEF MemoryTypeOK
<1>t. MemoryTypeOK BY DEF TypeOK
<1>e. epoch \in Epochs BY EpochBound
<1>d. /\ \A s \in Session : drain[s] \in DrainLoop
      /\ \A w \in Waker : wake[w] \in WakeCall
  BY <1>t
<1>1. ASSUME NEW s \in Session, Connect(s) \/ RejectHandshake(s)
      PROVE  MemoryTypeOK'
  BY <1>1, <1>t DEF Connect, RejectHandshake
<1>2. ASSUME NEW s \in Session, Activation(s) PROVE MemoryTypeOK'
  <2>1. CASE Authenticate(s) \/ ActivateOnline(s) \/ ActivateQueue(s)
    BY <2>1, <1>t, CommandAssumption
    DEF Authenticate, ActivateOnline, ActivateQueue, Advance, Phase
  <2>2. CASE ActivateCheck(s)
    BY <2>2, <1>t DEF ActivateCheck, Advance, Phase, Closing
  <2>3. CASE ActivateClaim(s)
    <3>1. epoch + 1 \in Epochs BY <2>3, ClaimCounts DEF ActivateClaim, Advance
    <3>2. QED BY <3>1, <2>3, <1>t DEF ActivateClaim, Advance, Phase, Closing
  <2>4. CASE ActivateGreet(s)
    BY <2>4, <1>t, <1>d, DrainTypes
    DEF ActivateGreet, Advance, Phase, DrainStarts, drainCommands
  <2>5. CASE ActivateFinish(s)
    BY <2>5, <1>t DEF ActivateFinish, Advance, Phase, markDeviceDisconnected
  <2>6. QED BY <1>2, <2>1, <2>2, <2>3, <2>4, <2>5 DEF Activation
<1>3. ASSUME NEW s \in Session, CloseEvent(s) PROVE MemoryTypeOK'
  BY <1>3, <1>t DEF CloseEvent, markDeviceDisconnected
<1>4. ASSUME NEW s \in Session, CommitOffline(s) PROVE MemoryTypeOK'
  BY <1>4, <1>t DEF CommitOffline
<1>5. ASSUME NEW s \in Session, Drain(s) PROVE MemoryTypeOK'
  <2>1. PICK d \in DrainLoop, from \in {"select", "send", "mark"} :
               DrainStep(s, from, d)
    <3>1. CASE DrainSelect(s)
      <4>1. Pending(rows') \in SUBSET Cmd BY DEF Pending
      <4>2. QED BY <3>1, <4>1, <1>d, DrainTypes DEF DrainSelect
    <3>2. CASE DrainSend(s) BY <3>2, <1>d, <1>e, DrainTypes DEF DrainSend
    <3>3. CASE DrainMark(s)
      <4>1. drain[s].batch \ {First(drain[s].batch)} \in SUBSET Cmd
        BY <1>d DEF DrainLoop
      <4>2. QED BY <3>3, <4>1, <1>d, DrainTypes DEF DrainMark
    <3>4. QED BY <1>5, <3>1, <3>2, <3>3 DEF Drain
  <2>2. UNCHANGED <<up, live, epoch, sock, ready, handled, offline, cutoff, wake>>
    BY <1>5 DEF Drain, DrainSelect, DrainSend, DrainMark
  <2>3. drain' \in [Session -> DrainLoop] /\ act' \in [Session -> Phase]
    BY <2>1, <1>t DEF DrainStep, Phase
  <2>4. QED BY <2>2, <2>3, <1>t
<1>6. ASSUME NEW s \in Session, DeviceRead(s) \/ DeviceLeave(s) \/ HandleAck(s)
      PROVE  MemoryTypeOK'
  BY <1>6, <1>t DEF DeviceRead, DeviceLeave, HandleAck
<1>7. ASSUME NEW w \in Waker, Wake(w) PROVE MemoryTypeOK'
  <2>1. CASE WakeStart(w)
    BY <2>1, <1>t DEF WakeStart, WakeStep, WakeCall
  <2>2. CASE WakeCheck(w)
    <3>1. \A pc \in {"outdated", "kick"} : [wake[w] EXCEPT !.pc = pc] \in WakeCall
      BY <1>d DEF WakeCall
    <3>2. wake' \in [Waker -> WakeCall]
      BY <2>2, <3>1, <1>t, DrainTypes DEF WakeCheck, WakeStep
    <3>3. sock' \in [Session -> {"unused", "open", "closing", "closed"}]
      BY <2>2, <1>t DEF WakeCheck, Closing
    <3>4. /\ live' \in Session \cup {NoSession}
          /\ handled' \in [Session -> BOOLEAN] /\ offline' \in [Session -> BOOLEAN]
      BY <2>2, <1>t DEF WakeCheck, markDeviceDisconnected
    <3>5. QED BY <2>2, <3>2, <3>3, <3>4, <1>t DEF WakeCheck
  <2>3. CASE WakeKick(w)
    BY <2>3, <1>t, DrainTypes DEF WakeKick, WakeStep, Closing
  <2>4. CASE WakeOutdated(w)
    <3>1. [wake[w] EXCEPT !.pc = "requeue"] \in WakeCall BY <1>d DEF WakeCall
    <3>2. QED BY <2>4, <3>1, <1>t DEF WakeOutdated, WakeStep
  <2>5. CASE WakeRequeue(w)
    <3>1. wake' \in [Waker -> WakeCall]
      BY <2>5, <1>t, DrainTypes DEF WakeRequeue, WakeStep
    <3>2. drain' \in [Session -> DrainLoop]
      BY <2>5, <1>t, <1>d, DrainTypes DEF WakeRequeue, drainCommands
    <3>3. QED BY <2>5, <3>1, <3>2, <1>t DEF WakeRequeue
  <2>6. QED BY <1>7, <2>1, <2>2, <2>3, <2>4, <2>5 DEF Wake
<1>8. ASSUME NEW r \in Request, Requests(r) PROVE MemoryTypeOK'
  BY <1>8, <1>t DEF Requests, RequestStart, RequestSupersede, RequestInsert,
                    RequestAbort
<1>9. ASSUME Revoke \/ SweepExpire \/ (\E c \in Cmd : TtlPasses(c) \/ GracePasses(c))
      PROVE  MemoryTypeOK'
  BY <1>9, <1>t DEF Revoke, RevokeLink, RevokeRow, RevokeCommands, SweepExpire,
                    TtlPasses, GracePasses
<1>10. ASSUME Crash PROVE MemoryTypeOK'
  BY <1>10, <1>t, DrainTypes DEF Crash, Phase
<1>11. ASSUME Boot PROVE MemoryTypeOK' BY <1>11, <1>t DEF Boot
<1>12. QED
  BY <1>1, <1>2, <1>3, <1>4, <1>5, <1>6, <1>7, <1>8, <1>9, <1>10, <1>11 DEF Next

\* Every step keeps the types of the wires and of the device.
LEMMA DeviceTypeStep ==
  ASSUME TypeOK, BatchInv, Next PROVE DeviceTypeOK'
<1> USE DEF DeviceTypeOK
<1>t. DeviceTypeOK BY DEF TypeOK
<1>0. Ready \in Message /\ Cmd \subseteq Message BY DEF Message
<1>1. ASSUME NEW s \in Session, Connect(s) PROVE DeviceTypeOK'
  BY <1>1, <1>t DEF Connect
<1>2. ASSUME NEW s \in Session, Activation(s) PROVE DeviceTypeOK'
  <2>1. CASE ActivateGreet(s)
    <3>1. Append(toDevice[s], Ready) \in Seq(Message) BY <1>t, <1>0
    <3>2. toDevice' \in [Session -> Seq(Message)]
      BY <2>1, <3>1, <1>t DEF ActivateGreet
    <3>3. QED BY <2>1, <3>2, <1>t DEF ActivateGreet
  <2>2. CASE ~ActivateGreet(s)
    BY <1>2, <2>2, <1>t
    DEF Activation, Authenticate, ActivateCheck, ActivateClaim, ActivateOnline,
        ActivateQueue, ActivateFinish
  <2>3. QED BY <2>1, <2>2
<1>3. ASSUME NEW s \in Session, CloseEvent(s) PROVE DeviceTypeOK'
  <2>1. PICK n \in 0 .. Len(toHub[s]) :
               toHub' = [toHub EXCEPT ![s] = SubSeq(@, 1, n)]
    BY <1>3 DEF CloseEvent
  <2>2. toHub[s] \in Seq(Ack) BY <1>t
  <2>3. SubSeq(toHub[s], 1, n) \in Seq(Ack) BY <2>2
  <2>4. toHub' \in [Session -> Seq(Ack)] BY <2>1, <2>3, <1>t
  <2>5. QED BY <2>4, <1>3, <1>t DEF CloseEvent
<1>4. ASSUME NEW s \in Session, RejectHandshake(s) \/ CommitOffline(s)
      PROVE  DeviceTypeOK'
  BY <1>4, <1>t DEF RejectHandshake, CommitOffline
<1>5. ASSUME NEW s \in Session, Drain(s) PROVE DeviceTypeOK'
  <2>1. CASE DrainSend(s)
    <3>1. drain[s].batch \in SUBSET Cmd BY DEF TypeOK, MemoryTypeOK, DrainLoop
    <3>2. drain[s].batch # {} BY <2>1 DEF DrainSend, DrainStep, BatchInv
    <3>3. First(drain[s].batch) \in Message BY <3>1, <3>2, <1>0, FirstLemma
    <3>4. Append(toDevice[s], First(drain[s].batch)) \in Seq(Message)
      BY <3>3, <1>t
    <3>5. toDevice' \in [Session -> Seq(Message)] BY <2>1, <3>4, <1>t DEF DrainSend
    <3>6. QED BY <2>1, <3>5, <1>t DEF DrainSend
  <2>2. CASE DrainSelect(s) \/ DrainMark(s)
    BY <2>2, <1>t DEF DrainSelect, DrainMark
  <2>3. QED BY <1>5, <2>1, <2>2 DEF Drain
<1>6. ASSUME NEW s \in Session, DeviceRead(s) PROVE DeviceTypeOK'
  <2> DEFINE m == Head(toDevice[s])
  <2>1. toDevice[s] \in Seq(Message) /\ toDevice[s] # <<>>
    BY <1>6, <1>t DEF DeviceRead
  <2>2. m \in Message /\ Tail(toDevice[s]) \in Seq(Message) BY <2>1
  <2>3. toDevice' \in [Session -> Seq(Message)] BY <1>6, <1>t, <2>2 DEF DeviceRead
  <2>4. CASE UNCHANGED <<toHub, executed, shown>>
    BY <1>6, <2>3, <2>4, <1>t DEF DeviceRead
  <2>5. CASE ~UNCHANGED <<toHub, executed, shown>>
    <3>1. m \in Cmd BY <1>6, <2>2, <2>5 DEF DeviceRead, Message
    <3>2. PICK ok \in BOOLEAN :
            toHub' = IF sock[s] = "closed" THEN toHub
                     ELSE [toHub EXCEPT ![s] = Append(@, [cmd |-> m, ok |-> ok])]
      BY <1>6, <2>5, HubAssumption DEF DeviceRead
    <3>3. [cmd |-> m, ok |-> ok] \in Ack BY <3>1 DEF Ack
    <3>4. toHub[s] \in Seq(Ack) BY <1>t
    <3>5. Append(toHub[s], [cmd |-> m, ok |-> ok]) \in Seq(Ack) BY <3>3, <3>4
    <3>6. toHub' \in [Session -> Seq(Ack)] BY <3>2, <3>5, <1>t
    <3>7. /\ executed' = executed \cup {m}
          /\ greeted' = greeted
          /\ shown' = IF rows[m].kind \in Superseding
                      THEN [shown EXCEPT ![rows[m].kind] = m] ELSE shown
      BY <1>6, <2>5 DEF DeviceRead
    <3>8. executed' \in SUBSET Cmd BY <3>1, <3>7, <1>t
    <3>9. m \in 0 .. MaxCmd BY <3>1, CommandAssumption DEF Cmd
    <3>10. shown' \in [Superseding -> 0 .. MaxCmd] BY <3>7, <3>9, <1>t
    <3>11. QED BY <1>6, <2>3, <3>6, <3>7, <3>8, <3>10, <1>t DEF DeviceRead
  <2>6. QED BY <2>4, <2>5
<1>7. ASSUME NEW s \in Session, DeviceLeave(s) PROVE DeviceTypeOK'
  <2>1. <<>> \in Seq(Message) OBVIOUS
  <2>2. toDevice' \in [Session -> Seq(Message)] BY <1>7, <2>1, <1>t DEF DeviceLeave
  <2>3. QED BY <1>7, <2>2, <1>t DEF DeviceLeave
<1>8. ASSUME NEW s \in Session, HandleAck(s) PROVE DeviceTypeOK'
  <2>1. toHub[s] \in Seq(Ack) /\ toHub[s] # <<>> BY <1>8, <1>t DEF HandleAck
  <2>2. Tail(toHub[s]) \in Seq(Ack) BY <2>1
  <2>3. QED BY <2>2, <1>8, <1>t DEF HandleAck
<1>9. ASSUME NEW w \in Waker, Wake(w) PROVE DeviceTypeOK'
  BY <1>9, <1>t DEF Wake, WakeStart, WakeCheck, WakeKick,
      WakeOutdated, WakeRequeue
<1>10. ASSUME NEW r \in Request, Requests(r) PROVE DeviceTypeOK'
  BY <1>10, <1>t DEF Requests, RequestStart, RequestSupersede, RequestInsert,
                     RequestAbort
<1>11. ASSUME Revoke \/ SweepExpire \/ (\E c \in Cmd : TtlPasses(c) \/ GracePasses(c))
       PROVE  DeviceTypeOK'
  BY <1>11, <1>t DEF Revoke, RevokeLink, RevokeRow, RevokeCommands, SweepExpire,
                     TtlPasses, GracePasses
<1>12. ASSUME Crash \/ Boot PROVE DeviceTypeOK'
  <2>1. <<>> \in Seq(Ack) OBVIOUS
  <2>2. toHub' \in [Session -> Seq(Ack)] BY <1>12, <2>1, <1>t DEF Crash, Boot
  <2>3. QED BY <1>12, <2>2, <1>t DEF Crash, Boot
<1>13. QED
  BY <1>1, <1>2, <1>3, <1>4, <1>5, <1>6, <1>7, <1>8, <1>9, <1>10, <1>11, <1>12
  DEF Next

\* Every step keeps the types of the web process and of the budgets.
LEMMA WebTypeStep ==
  ASSUME TypeOK, BatchInv, Next PROVE WebTypeOK'
<1> USE DEF WebTypeOK
<1>t. WebTypeOK BY DEF TypeOK
<1>q. queued' \in 0 .. MaxCmd BY RowsType
<1>1. ASSUME NEW s \in Session,
             \/ Connect(s) \/ RejectHandshake(s) \/ CloseEvent(s)
             \/ CommitOffline(s) \/ DeviceRead(s) \/ DeviceLeave(s)
             \/ HandleAck(s)
      PROVE  WebTypeOK'
  <2>1. CASE Connect(s) \/ CommitOffline(s) \/ HandleAck(s) \/ DeviceRead(s)
    BY <2>1, <1>t DEF Connect, CommitOffline, HandleAck, DeviceRead
  <2>2. CASE RejectHandshake(s) BY <2>2, <1>t DEF RejectHandshake
  <2>3. CASE CloseEvent(s)
    <3>1. UNCHANGED <<web, aborts, crashes, idleWakes>>
          /\ faults' \in {faults, faults + 1}
      BY <2>3 DEF CloseEvent
    <3>2. QED BY <3>1, <1>t
  <2>4. CASE DeviceLeave(s) BY <2>4, <1>t DEF DeviceLeave
  <2>5. QED BY <1>1, <2>1, <2>2, <2>3, <2>4
<1>2. ASSUME NEW s \in Session, Activation(s) \/ Drain(s) PROVE WebTypeOK'
  BY <1>2, <1>t
  DEF Activation, Authenticate, ActivateCheck, ActivateClaim, ActivateOnline,
      ActivateQueue, ActivateGreet, ActivateFinish, Drain, DrainSelect,
      DrainSend, DrainMark
<1>3. ASSUME NEW w \in Waker, Wake(w) PROVE WebTypeOK'
  BY <1>3, <1>t DEF Wake, WakeStart, WakeCheck, WakeKick,
      WakeOutdated, WakeRequeue
<1>4. ASSUME NEW r \in Request, Requests(r) PROVE WebTypeOK'
  <2>1. [request[r] EXCEPT !.pc = "insert"] \in WebRequest BY <1>t DEF WebRequest
  <2>2. NoRequest \in WebRequest BY DEF NoRequest, WebRequest
  <2>3. \A k \in Kinds, pc \in {"supersede", "insert"} :
          [pc |-> pc, kind |-> k] \in WebRequest
    BY DEF WebRequest
  <2>4. request' \in [Request -> WebRequest]
    <3>1. \/ \E w \in WebRequest : request' = [request EXCEPT ![r] = w]
          \/ request' = [request EXCEPT ![r].pc = "insert"]
      BY <1>4, <2>2, <2>3
      DEF Requests, RequestStart, RequestSupersede, RequestInsert, RequestAbort
    <3>2. QED BY <2>1, <3>1, <1>t
  <2>5. UNCHANGED <<revoking, faults, crashes, idleWakes>> /\ aborts' \in Nat
    BY <1>4, <1>t
    DEF Requests, RequestStart, RequestSupersede, RequestInsert, RequestAbort
  <2>6. QED BY <1>q, <2>4, <2>5, <1>t
<1>5. ASSUME Revoke \/ SweepExpire \/ (\E c \in Cmd : TtlPasses(c) \/ GracePasses(c))
      PROVE  WebTypeOK'
  BY <1>5, <1>t DEF Revoke, RevokeLink, RevokeRow, RevokeCommands, SweepExpire,
                    TtlPasses, GracePasses
<1>6. ASSUME Crash \/ Boot PROVE WebTypeOK' BY <1>6, <1>t DEF Crash, Boot
<1>7. QED BY <1>1, <1>2, <1>3, <1>4, <1>5, <1>6 DEF Next

\* Every step keeps TypeOK.
LEMMA TypeStep ==
  ASSUME TypeOK, SessionInv, EpochInv, BatchInv, Next PROVE TypeOK'
BY DatabaseTypeStep, MemoryTypeStep, DeviceTypeStep, WebTypeStep DEF TypeOK

-----------------------------------------------------------------------------
(* Sessions.                                                               *)

\* The steps that move a session's socket, its activation or its readiness.
SessionStep(s) ==
  \/ Connect(s) \/ RejectHandshake(s) \/ Activation(s) \/ CloseEvent(s)
  \/ Drain(s)

\* Which actions write the variables SessionInv, EpochInv and OneLiveSocket
\* relate.
LEMMA SessionVariables ==
  ASSUME Next
  PROVE  \/ \E s \in Session : SessionStep(s)
         \/ \E w \in Waker : WakeCheck(w) \/ WakeKick(w)
         \/ Crash
         \/ UNCHANGED <<sock, act, ready, epoch, live, handled>>
<1>1. ASSUME NEW s \in Session,
             CommitOffline(s) \/ DeviceRead(s) \/ DeviceLeave(s) \/ HandleAck(s)
      PROVE  UNCHANGED <<sock, act, ready, epoch, live, handled>>
  BY <1>1 DEF CommitOffline, DeviceRead, DeviceLeave, HandleAck
<1>2. ASSUME NEW w \in Waker, WakeStart(w) \/ WakeOutdated(w) \/ WakeRequeue(w)
      PROVE  UNCHANGED <<sock, act, ready, epoch, live, handled>>
  BY <1>2 DEF WakeStart, WakeOutdated, WakeRequeue
<1>3. ASSUME NEW r \in Request, Requests(r)
      PROVE  UNCHANGED <<sock, act, ready, epoch, live, handled>>
  BY <1>3 DEF Requests, RequestStart, RequestSupersede, RequestInsert, RequestAbort
<1>4. ASSUME Revoke \/ SweepExpire \/ (\E c \in Cmd : TtlPasses(c) \/ GracePasses(c))
      PROVE  UNCHANGED <<sock, act, ready, epoch, live, handled>>
  BY <1>4 DEF Revoke, RevokeLink, RevokeRow, RevokeCommands, SweepExpire,
              TtlPasses, GracePasses
<1>5. ASSUME Boot PROVE UNCHANGED <<sock, act, ready, epoch, live, handled>>
  BY <1>5 DEF Boot
<1>6. QED BY <1>1, <1>2, <1>3, <1>4, <1>5 DEF Next, SessionStep, Wake

\* A drain step moves the activation that waits for it, and nothing else here.
LEMMA DrainMoves ==
  ASSUME TypeOK, NEW s \in Session, Drain(s)
  PROVE  /\ UNCHANGED <<sock, ready, epoch, live, handled>>
         /\ \/ UNCHANGED act
            \/ act[s] = "drain" /\ act' = [act EXCEPT ![s] = "finish"]
<1>1. UNCHANGED <<sock, ready, epoch, live, handled>>
  BY DEF Drain, DrainSelect, DrainSend, DrainMark
<1>2. PICK from, d : DrainStep(s, from, d)
  BY DEF Drain, DrainSelect, DrainSend, DrainMark
<1>3. QED BY <1>1, <1>2 DEF DrainStep

\* What is known of a session in each phase of its activation stays known.
LEMMA SessionInvStep ==
  ASSUME TypeOK, SessionInv, Next PROVE SessionInv'
<1> USE DEF SessionInv
<1>t. /\ sock \in [Session -> {"unused", "open", "closing", "closed"}]
      /\ act \in [Session -> Phase] /\ ready \in [Session -> BOOLEAN]
  BY DEF TypeOK, MemoryTypeOK
<1>1. ASSUME NEW s \in Session, Connect(s) PROVE SessionInv'
  BY <1>1, <1>t DEF Connect
<1>2. ASSUME NEW s \in Session, RejectHandshake(s) PROVE SessionInv'
  BY <1>2, <1>t DEF RejectHandshake
<1>3. ASSUME NEW s \in Session, Activation(s) PROVE SessionInv'
  <2>1. CASE Authenticate(s) BY <2>1, <1>t DEF Authenticate, Advance
  <2>2. CASE ActivateCheck(s) BY <2>2, <1>t DEF ActivateCheck, Advance, Closing
  <2>3. CASE ActivateClaim(s)
    <3>1. \A u \in Session : sock'[u] = "unused" => sock[u] = "unused"
      BY <2>3, <1>t DEF ActivateClaim, Closing
    <3>2. QED BY <2>3, <3>1, <1>t DEF ActivateClaim, Advance
  <2>4. CASE ActivateOnline(s) \/ ActivateQueue(s) \/ ActivateGreet(s)
             \/ ActivateFinish(s)
    BY <2>4, <1>t
    DEF ActivateOnline, ActivateQueue, ActivateGreet, ActivateFinish, Advance
  <2>5. QED BY <1>3, <2>1, <2>2, <2>3, <2>4 DEF Activation
<1>4. ASSUME NEW s \in Session, CloseEvent(s) PROVE SessionInv'
  BY <1>4, <1>t DEF CloseEvent
<1>5. ASSUME NEW s \in Session, Drain(s) PROVE SessionInv'
  BY <1>5, <1>t, DrainMoves
<1>6. ASSUME NEW w \in Waker, WakeCheck(w) \/ WakeKick(w) PROVE SessionInv'
  <2>1. UNCHANGED <<act, ready>> BY <1>6 DEF WakeCheck, WakeKick
  <2>2. \A u \in Session : sock'[u] = "unused" => sock[u] = "unused"
    BY <1>6, <1>t DEF WakeCheck, WakeKick, Closing
  <2>3. QED BY <2>1, <2>2
<1>7. ASSUME Crash PROVE SessionInv' BY <1>7, <1>t DEF Crash
<1>8. CASE UNCHANGED <<sock, act, ready, epoch, live, handled>> BY <1>8
<1>9. QED
  BY <1>1, <1>2, <1>3, <1>4, <1>5, <1>6, <1>7, <1>8, SessionVariables
  DEF SessionStep

\* The activation count stays the number of activated sessions.
LEMMA EpochInvStep ==
  ASSUME TypeOK, SessionInv, EpochInv, Next PROVE EpochInv'
<1>1. ASSUME NEW s \in Session, ActivateClaim(s) PROVE EpochInv'
  <2>1. ready' = [ready EXCEPT ![s] = TRUE] /\ epoch' = epoch + 1
    BY <1>1 DEF ActivateClaim
  <2>2. {t \in Session : ready'[t]} = {t \in Session : ready[t]} \cup {s}
    BY <2>1 DEF TypeOK, MemoryTypeOK
  <2>3. QED BY <1>1, <2>1, <2>2, ClaimCounts DEF EpochInv, ActivateClaim, Advance
<1>2. ASSUME NEW s \in Session, SessionStep(s), ~ActivateClaim(s)
      PROVE  UNCHANGED <<epoch, ready>>
  BY <1>2, DrainMoves
  DEF SessionStep, Connect, RejectHandshake, Activation, Authenticate,
      ActivateCheck, ActivateOnline, ActivateQueue, ActivateGreet,
      ActivateFinish, CloseEvent
<1>3. ASSUME NEW w \in Waker, WakeCheck(w) \/ WakeKick(w)
      PROVE  UNCHANGED <<epoch, ready>>
  BY <1>3 DEF WakeCheck, WakeKick
<1>4. ASSUME Crash PROVE UNCHANGED <<epoch, ready>> BY <1>4 DEF Crash
<1>5. CASE UNCHANGED <<epoch, ready>> BY <1>5 DEF EpochInv
<1>6. QED BY <1>1, <1>2, <1>3, <1>4, <1>5, SessionVariables

\* No step gives the frame a second live socket, the late end of an old
\* activation included.
LEMMA OneLiveSocketStep ==
  ASSUME TypeOK, SessionInv, OneLiveSocket, Next PROVE OneLiveSocket'
<1> USE DEF OneLiveSocket
<1>t. /\ sock \in [Session -> {"unused", "open", "closing", "closed"}]
      /\ ready \in [Session -> BOOLEAN] /\ handled \in [Session -> BOOLEAN]
      /\ live \in Session \cup {NoSession}
  BY DEF TypeOK, MemoryTypeOK
<1>m. ASSUME NEW s, markDeviceDisconnected(s), UNCHANGED ready,
             \A u \in Session : sock'[u] = "open" => sock[u] = "open"
      PROVE  OneLiveSocket'
  BY <1>m, <1>t DEF markDeviceDisconnected
<1>1. ASSUME NEW s \in Session, Connect(s) PROVE OneLiveSocket'
  BY <1>1, <1>t DEF Connect, SessionInv
<1>2. ASSUME NEW s \in Session, RejectHandshake(s) PROVE OneLiveSocket'
  BY <1>2, <1>t DEF RejectHandshake
<1>3. ASSUME NEW s \in Session, Activation(s) PROVE OneLiveSocket'
  <2>1. CASE ActivateClaim(s)
    <3>1. live' = s /\ UNCHANGED handled /\ ready' = [ready EXCEPT ![s] = TRUE]
      BY <2>1 DEF ActivateClaim
    <3>2. \A u \in Session : sock'[u] = "open" => sock[u] = "open" /\ u # live
      BY <2>1, <1>t DEF ActivateClaim, Closing, NoSession, Session
    <3>3. QED BY <3>1, <3>2, <1>t
  <2>2. CASE ActivateCheck(s) BY <2>2, <1>t DEF ActivateCheck, Closing
  <2>3. CASE ActivateFinish(s)
    BY <2>3, <1>m, <1>t DEF ActivateFinish
  <2>4. CASE Authenticate(s) \/ ActivateOnline(s) \/ ActivateQueue(s)
             \/ ActivateGreet(s)
    BY <2>4 DEF Authenticate, ActivateOnline, ActivateQueue, ActivateGreet
  <2>5. QED BY <1>3, <2>1, <2>2, <2>3, <2>4 DEF Activation
<1>4. ASSUME NEW s \in Session, CloseEvent(s) PROVE OneLiveSocket'
  <2>1. /\ \A u \in Session : sock'[u] = "open" => sock[u] = "open"
        /\ UNCHANGED ready
    BY <1>4, <1>t DEF CloseEvent
  <2>2. CASE ready[s] BY <1>4, <2>1, <2>2, <1>m DEF CloseEvent
  <2>3. CASE ~ready[s] BY <1>4, <2>1, <2>3 DEF CloseEvent
  <2>4. QED BY <2>2, <2>3
<1>5. ASSUME NEW s \in Session, Drain(s) PROVE OneLiveSocket'
  BY <1>5, DrainMoves
<1>6. ASSUME NEW w \in Waker, WakeCheck(w) \/ WakeKick(w) PROVE OneLiveSocket'
  <2>1. /\ \A u \in Session : sock'[u] = "open" => sock[u] = "open"
        /\ UNCHANGED ready
    BY <1>6, <1>t DEF WakeCheck, WakeKick, Closing
  <2>2. \/ markDeviceDisconnected(wake[w].of)
        \/ UNCHANGED <<handled, live, offline>>
    BY <1>6 DEF WakeCheck, WakeKick
  <2>3. QED BY <2>1, <2>2, <1>m
<1>7. ASSUME Crash PROVE OneLiveSocket' BY <1>7, <1>t DEF Crash
<1>8. CASE UNCHANGED <<sock, act, ready, epoch, live, handled>> BY <1>8
<1>9. QED
  BY <1>1, <1>2, <1>3, <1>4, <1>5, <1>6, <1>7, <1>8, SessionVariables
  DEF SessionStep

-----------------------------------------------------------------------------
(* Rows, snapshots and messages.                                           *)

\* A row that was queued stays, and the rows stay in the order they came.
LEMMA QueueInvStep ==
  ASSUME TypeOK, QueueInv, BatchInv, Next
  PROVE  /\ QueueInv'
         /\ \A c \in Cmd : rows[c].status # "absent" => rows'[c].status # "absent"
<1> USE DEF QueueInv
<1>1. CASE Housekeeping(rows, rows') /\ UNCHANGED queued
  BY <1>1 DEF Housekeeping, Live
<1>2. ASSUME NEW r \in Request, RequestInsert(r)
      PROVE  /\ QueueInv'
             /\ \A c \in Cmd : rows[c].status # "absent" => rows'[c].status # "absent"
  BY <1>2, InsertStep, CommandAssumption DEF Cmd, TypeOK, WebTypeOK
<1>3. ASSUME NEW s \in Session, HandleAck(s)
      PROVE  /\ QueueInv'
             /\ \A c \in Cmd : rows[c].status # "absent" => rows'[c].status # "absent"
  <2> DEFINE a == Head(toHub[s])
  <2>1. rows \in Table /\ UNCHANGED queued
    BY <1>3 DEF HandleAck, TypeOK, DatabaseTypeOK
  <2>2. a.cmd \in Cmd /\ a.ok \in BOOLEAN /\ rows' = settleAck(rows, a.cmd, a.ok)
    BY <1>3, AckStep DEF Ack
  <2> HIDE DEF a
  <2>3. \A c \in Cmd : rows'[c].status = "absent" <=> rows[c].status = "absent"
    BY <2>1, <2>2, SettleAckLemma DEF Live
  <2>4. QED BY <2>1, <2>3
<1>4. QED BY <1>1, <1>2, <1>3, RowsStep

\* A drain only holds commands that were pending when it looked.
LEMMA BatchInvStep ==
  ASSUME TypeOK, QueueInv, BatchInv, Next PROVE BatchInv'
<1> DEFINE Holds(d) == /\ d.pc \in {"send", "mark"} => d.batch # {}
                       /\ d.batch \subseteq Cmd
                       /\ \A c \in d.batch : rows'[c].status # "absent"
<1>t. \A s \in Session : drain[s].batch \subseteq Cmd
  BY DEF TypeOK, MemoryTypeOK, DrainLoop
<1>a. \A c \in Cmd : rows[c].status # "absent" => rows'[c].status # "absent"
  BY QueueInvStep
<1>h. \A s \in Session : Holds(drain[s]) BY <1>t, <1>a DEF BatchInv
<1>d. drain \in [Session -> DrainLoop] BY DEF TypeOK, MemoryTypeOK
<1>i. Holds(NoDrain) /\ Holds([NoDrain EXCEPT !.pc = "select"]) BY DEF NoDrain
<1>g. (\A s \in Session : Holds(drain'[s])) => BatchInv' BY DEF BatchInv
<1>u. UNCHANGED drain => BatchInv' BY <1>h, <1>g
<1>c. ASSUME NEW s, drainCommands(s) PROVE BatchInv'
  <2>1. ASSUME NEW u \in Session PROVE Holds(drain'[u])
    <3>1. drain'[u] \in {drain[u], [drain[u] EXCEPT !.pc = "select"],
                         [drain[u] EXCEPT !.again = TRUE]}
      BY <1>c, <1>d DEF drainCommands
    <3>2. drain[u] \in DrainLoop /\ Holds(drain[u]) BY <1>d, <1>h
    <3>3. QED BY <3>1, <3>2 DEF DrainLoop
  <2>2. QED BY <2>1, <1>g
<1>1. ASSUME NEW s \in Session, Drain(s) PROVE BatchInv'
  <2>1. PICK d : drain' = [drain EXCEPT ![s] = d] /\ Holds(d)
    <3>0. drain[s] \in DrainLoop /\ Holds(drain[s]) BY <1>d, <1>h
    <3>n. Holds(NextPass(drain[s])) BY <1>i DEF NextPass
    <3>1. CASE DrainSelect(s)
      <4>1. CASE Pending(rows') = {}
        BY <3>1, <3>n, <4>1 DEF DrainSelect, DrainStep
      <4>2. CASE Pending(rows') # {}
        <5> DEFINE d == [drain[s] EXCEPT !.pc = "send", !.batch = Pending(rows')]
        <5>1. d.pc = "send" /\ d.batch = Pending(rows') BY <3>0 DEF DrainLoop
        <5>2. Holds(d) BY <5>1, <4>2 DEF Pending
        <5>3. drain' = [drain EXCEPT ![s] = d]
          BY <3>1, <4>2 DEF DrainSelect, DrainStep
        <5>4. QED BY <5>2, <5>3
      <4>3. QED BY <4>1, <4>2
    <3>2. CASE DrainSend(s)
      <4> DEFINE d == [drain[s] EXCEPT !.pc = "mark", !.stamp = epoch]
      <4>1. d.batch = drain[s].batch BY <3>0 DEF DrainLoop
      <4>2. drain[s].batch # {} BY <3>2 DEF DrainSend, DrainStep, BatchInv
      <4>3. Holds(d) BY <4>1, <4>2, <3>0
      <4>4. \/ drain' = [drain EXCEPT ![s] = d]
            \/ drain' = [drain EXCEPT ![s] = NoDrain]
        BY <3>2 DEF DrainSend, DrainStep
      <4>5. QED BY <4>3, <4>4, <1>i
    <3>3. CASE DrainMark(s)
      <4> DEFINE rest == drain[s].batch \ {First(drain[s].batch)}
                 d == [drain[s] EXCEPT !.pc = "send", !.batch = rest, !.stamp = 0]
      <4>1. CASE rest = {}
        BY <3>3, <3>n, <4>1 DEF DrainMark, DrainStep
      <4>2. CASE rest # {}
        <5>1. d.batch = rest BY <3>0 DEF DrainLoop
        <5>2. Holds(d) BY <5>1, <3>0, <4>2
        <5>3. drain' = [drain EXCEPT ![s] = d]
          BY <3>3, <4>2 DEF DrainMark, DrainStep
        <5>4. QED BY <5>2, <5>3
      <4>3. QED BY <4>1, <4>2
    <3>4. QED BY <1>1, <3>1, <3>2, <3>3 DEF Drain
  <2>2. \A u \in Session : Holds(drain'[u]) BY <2>1, <1>d, <1>h
  <2>3. QED BY <2>2, <1>g
<1>2. ASSUME NEW s \in Session, Activation(s) PROVE BatchInv'
  BY <1>2, <1>c, <1>u
  DEF Activation, Authenticate, ActivateCheck, ActivateClaim, ActivateOnline,
      ActivateQueue, ActivateGreet, ActivateFinish
<1>3. ASSUME NEW s \in Session,
             \/ Connect(s) \/ RejectHandshake(s) \/ CloseEvent(s)
             \/ CommitOffline(s) \/ DeviceRead(s) \/ DeviceLeave(s)
             \/ HandleAck(s)
      PROVE  BatchInv'
  BY <1>3, <1>u DEF Connect, RejectHandshake, CloseEvent, CommitOffline,
                    DeviceRead, DeviceLeave, HandleAck
<1>4. ASSUME NEW w \in Waker, Wake(w) PROVE BatchInv'
  BY <1>4, <1>c, <1>u DEF Wake, WakeStart, WakeCheck, WakeKick,
      WakeOutdated, WakeRequeue
<1>5. ASSUME NEW r \in Request, Requests(r) PROVE BatchInv'
  BY <1>5, <1>u DEF Requests, RequestStart, RequestSupersede, RequestInsert,
                    RequestAbort
<1>6. ASSUME Revoke \/ SweepExpire \/ (\E c \in Cmd : TtlPasses(c) \/ GracePasses(c))
      PROVE  BatchInv'
  BY <1>6, <1>u DEF Revoke, RevokeLink, RevokeRow, RevokeCommands, SweepExpire,
                    TtlPasses, GracePasses
<1>7. ASSUME Crash PROVE BatchInv'
  <2>1. \A u \in Session : Holds(drain'[u]) BY <1>7, <1>i DEF Crash
  <2>2. QED BY <2>1, <1>g
<1>8. ASSUME Boot PROVE BatchInv' BY <1>8, <1>u DEF Boot
<1>9. QED BY <1>1, <1>2, <1>3, <1>4, <1>5, <1>6, <1>7, <1>8 DEF Next

\* The wire to the device.
LEMMA ToDeviceInvStep ==
  ASSUME TypeOK, QueueInv, BatchInv, ToDeviceInv, Next PROVE ToDeviceInv'
<1> DEFINE Queued(m) == m \in Cmd => rows'[m].status # "absent"
           Good(q) == \A i \in 1 .. Len(q) : Queued(q[i])
<1>t. toDevice \in [Session -> Seq(Message)] BY DEF TypeOK, DeviceTypeOK
<1>a. \A c \in Cmd : rows[c].status # "absent" => rows'[c].status # "absent"
  BY QueueInvStep
<1>h. \A s \in Session : Good(toDevice[s]) BY <1>a DEF ToDeviceInv
<1>g. (\A s \in Session : Good(toDevice'[s])) => ToDeviceInv' BY DEF ToDeviceInv
<1>u. UNCHANGED toDevice => ToDeviceInv' BY <1>h, <1>g
<1>p. ASSUME NEW s \in Session, NEW m \in Message, Queued(m),
             toDevice' = [toDevice EXCEPT ![s] = Append(@, m)]
      PROVE  ToDeviceInv'
  <2>1. toDevice[s] \in Seq(Message) /\ Good(toDevice[s]) BY <1>t, <1>h
  <2>2. Good(Append(toDevice[s], m)) BY <2>1, <1>p
  <2>3. \A u \in Session : Good(toDevice'[u]) BY <2>2, <1>p, <1>h, <1>t
  <2>4. QED BY <2>3, <1>g
<1>1. ASSUME NEW s \in Session, Activation(s) PROVE ToDeviceInv'
  <2>1. CASE ActivateGreet(s)
    <3>1. Queued(Ready) /\ Ready \in Message BY DEF Ready, Cmd, Message
    <3>2. QED BY <2>1, <3>1, <1>p, <1>u DEF ActivateGreet
  <2>2. CASE ~ActivateGreet(s)
    BY <1>1, <2>2, <1>u
    DEF Activation, Authenticate, ActivateCheck, ActivateClaim, ActivateOnline,
        ActivateQueue, ActivateFinish
  <2>3. QED BY <2>1, <2>2
<1>2. ASSUME NEW s \in Session, Drain(s) PROVE ToDeviceInv'
  <2>1. CASE DrainSend(s)
    <3>1. drain[s].batch \in SUBSET Cmd BY DEF TypeOK, MemoryTypeOK, DrainLoop
    <3>2. drain[s].batch # {} BY <2>1 DEF DrainSend, DrainStep, BatchInv
    <3>3. First(drain[s].batch) \in drain[s].batch BY <3>1, <3>2, FirstLemma
    <3>4. /\ Queued(First(drain[s].batch))
          /\ First(drain[s].batch) \in Message
      BY <3>1, <3>3, <1>a DEF BatchInv, Message
    <3>5. QED BY <2>1, <3>4, <1>p, <1>u DEF DrainSend
  <2>2. CASE DrainSelect(s) \/ DrainMark(s)
    BY <2>2, <1>u DEF DrainSelect, DrainMark
  <2>3. QED BY <1>2, <2>1, <2>2 DEF Drain
<1>3. ASSUME NEW s \in Session, DeviceRead(s) PROVE ToDeviceInv'
  <2>1. toDevice[s] \in Seq(Message) /\ toDevice[s] # <<>> /\ Good(toDevice[s])
    BY <1>3, <1>t, <1>h DEF DeviceRead
  <2>2. Good(Tail(toDevice[s]))
    <3>1. ASSUME NEW i \in 1 .. Len(Tail(toDevice[s]))
          PROVE  Queued(Tail(toDevice[s])[i])
      <4>1. i + 1 \in 1 .. Len(toDevice[s])
            /\ Tail(toDevice[s])[i] = toDevice[s][i + 1]
        BY <2>1
      <4>2. Queued(toDevice[s][i + 1]) BY <4>1, <2>1
      <4>3. QED BY <4>1, <4>2
    <3>2. QED BY <3>1
  <2>3. toDevice' = [toDevice EXCEPT ![s] = Tail(@)] BY <1>3 DEF DeviceRead
  <2>4. \A u \in Session : Good(toDevice'[u]) BY <2>2, <2>3, <1>h, <1>t
  <2>5. QED BY <2>4, <1>g
<1>4. ASSUME NEW s \in Session, DeviceLeave(s) PROVE ToDeviceInv'
  <2>1. Good(<<>>) OBVIOUS
  <2>2. \A u \in Session : Good(toDevice'[u])
    BY <1>4, <2>1, <1>h, <1>t DEF DeviceLeave
  <2>3. QED BY <2>2, <1>g
<1>5. ASSUME NEW s \in Session,
             \/ Connect(s) \/ RejectHandshake(s) \/ CloseEvent(s)
             \/ CommitOffline(s) \/ HandleAck(s)
      PROVE  ToDeviceInv'
  BY <1>5, <1>u DEF Connect, RejectHandshake, CloseEvent, CommitOffline, HandleAck
<1>6. ASSUME NEW w \in Waker, Wake(w) PROVE ToDeviceInv'
  BY <1>6, <1>u DEF Wake, WakeStart, WakeCheck, WakeKick,
      WakeOutdated, WakeRequeue
<1>7. ASSUME NEW r \in Request, Requests(r) PROVE ToDeviceInv'
  BY <1>7, <1>u DEF Requests, RequestStart, RequestSupersede, RequestInsert,
                    RequestAbort
<1>8. ASSUME Revoke \/ SweepExpire \/ (\E c \in Cmd : TtlPasses(c) \/ GracePasses(c))
      PROVE  ToDeviceInv'
  BY <1>8, <1>u DEF Revoke, RevokeLink, RevokeRow, RevokeCommands, SweepExpire,
                    TtlPasses, GracePasses
<1>9. ASSUME Crash \/ Boot PROVE ToDeviceInv' BY <1>9, <1>u DEF Crash, Boot
<1>10. QED BY <1>1, <1>2, <1>3, <1>4, <1>5, <1>6, <1>7, <1>8, <1>9 DEF Next

\* The wire from the device.
LEMMA ToHubInvStep ==
  ASSUME TypeOK, ToHubInv, Next
  PROVE  ToHubInv' /\ executed \subseteq executed'
<1> DEFINE Good(q) == \A i \in 1 .. Len(q) : q[i].cmd \in executed
           Goal == ToHubInv' /\ executed \subseteq executed'
<1>t. toHub \in [Session -> Seq(Ack)] BY DEF TypeOK, DeviceTypeOK
<1>h. \A s \in Session : Good(toHub[s]) BY DEF ToHubInv
<1>u. UNCHANGED <<toHub, executed>> => Goal BY DEF ToHubInv
<1>g. (\A s \in Session : Good(toHub'[s])) /\ UNCHANGED executed => Goal
  BY DEF ToHubInv
<1>1. ASSUME NEW s \in Session, DeviceRead(s) PROVE Goal
  <2> DEFINE m == Head(toDevice[s])
  <2>1. CASE UNCHANGED <<toHub, executed>> BY <2>1, <1>u
  <2>2. CASE ~UNCHANGED <<toHub, executed>>
    <3>1. executed' = executed \cup {m} BY <1>1, <2>2 DEF DeviceRead
    <3>2. PICK ok \in Verdicts :
            toHub' = IF sock[s] = "closed" THEN toHub
                     ELSE [toHub EXCEPT ![s] = Append(@, [cmd |-> m, ok |-> ok])]
      BY <1>1, <2>2 DEF DeviceRead
    <3> HIDE DEF m
    <3>3. toHub[s] \in Seq(Ack) BY <1>t
    <3>4. \A i \in 1 .. Len(Append(toHub[s], [cmd |-> m, ok |-> ok])) :
            Append(toHub[s], [cmd |-> m, ok |-> ok])[i].cmd \in executed'
      BY <3>1, <3>3, <1>h
    <3>5. \A u \in Session : \A i \in 1 .. Len(toHub'[u]) :
            toHub'[u][i].cmd \in executed'
      BY <3>1, <3>2, <3>4, <1>h, <1>t
    <3>6. QED BY <3>1, <3>5 DEF ToHubInv
  <2>3. QED BY <2>1, <2>2
<1>2. ASSUME NEW s \in Session, CloseEvent(s) PROVE Goal
  <2>1. PICK n \in 0 .. Len(toHub[s]) :
               toHub' = [toHub EXCEPT ![s] = SubSeq(@, 1, n)]
    BY <1>2 DEF CloseEvent
  <2>2. toHub[s] \in Seq(Ack) BY <1>t
  <2>3. Good(SubSeq(toHub[s], 1, n)) BY <2>2, <1>h
  <2>4. \A u \in Session : Good(toHub'[u]) BY <2>1, <2>3, <1>h, <1>t
  <2>5. UNCHANGED executed BY <1>2 DEF CloseEvent
  <2>6. QED BY <2>4, <2>5, <1>g
<1>3. ASSUME NEW s \in Session, HandleAck(s) PROVE Goal
  <2>1. toHub[s] \in Seq(Ack) /\ toHub[s] # <<>> BY <1>3, <1>t DEF HandleAck
  <2>2. Good(Tail(toHub[s]))
    <3>1. ASSUME NEW i \in 1 .. Len(Tail(toHub[s]))
          PROVE  Tail(toHub[s])[i].cmd \in executed
      <4>1. i + 1 \in 1 .. Len(toHub[s]) /\ Tail(toHub[s])[i] = toHub[s][i + 1]
        BY <2>1
      <4>2. QED BY <4>1, <1>h
    <3>2. QED BY <3>1
  <2>3. toHub' = [toHub EXCEPT ![s] = Tail(@)] /\ UNCHANGED executed
    BY <1>3 DEF HandleAck
  <2>4. \A u \in Session : Good(toHub'[u]) BY <2>2, <2>3, <1>h, <1>t
  <2>5. QED BY <2>3, <2>4, <1>g
<1>4. ASSUME NEW s \in Session, Activation(s) \/ Drain(s) PROVE Goal
  BY <1>4, <1>u
  DEF Activation, Authenticate, ActivateCheck, ActivateClaim, ActivateOnline,
      ActivateQueue, ActivateGreet, ActivateFinish, Drain, DrainSelect,
      DrainSend, DrainMark
<1>5. ASSUME NEW s \in Session,
             Connect(s) \/ RejectHandshake(s) \/ CommitOffline(s) \/ DeviceLeave(s)
      PROVE  Goal
  BY <1>5, <1>u DEF Connect, RejectHandshake, CommitOffline, DeviceLeave
<1>6. ASSUME NEW w \in Waker, Wake(w) PROVE Goal
  BY <1>6, <1>u DEF Wake, WakeStart, WakeCheck, WakeKick,
      WakeOutdated, WakeRequeue
<1>7. ASSUME NEW r \in Request, Requests(r) PROVE Goal
  BY <1>7, <1>u DEF Requests, RequestStart, RequestSupersede, RequestInsert,
                    RequestAbort
<1>8. ASSUME Revoke \/ SweepExpire \/ (\E c \in Cmd : TtlPasses(c) \/ GracePasses(c))
      PROVE  Goal
  BY <1>8, <1>u DEF Revoke, RevokeLink, RevokeRow, RevokeCommands, SweepExpire,
                    TtlPasses, GracePasses
<1>9. ASSUME Crash PROVE Goal
  <2>1. Good(<<>>) OBVIOUS
  <2>2. \A u \in Session : Good(toHub'[u]) BY <1>9, <2>1 DEF Crash
  <2>3. QED BY <1>9, <2>2, <1>g DEF Crash
<1>10. ASSUME Boot PROVE Goal BY <1>10, <1>u DEF Boot
<1>11. QED
  BY <1>1, <1>2, <1>3, <1>4, <1>5, <1>6, <1>7, <1>8, <1>9, <1>10 DEF Next

-----------------------------------------------------------------------------
(* Verdicts, and the row of a settled command.                             *)

\* A row takes a verdict only from an ack, and an ack names a command the
\* device has carried out.
LEMMA VerdictStep ==
  ASSUME TypeOK, QueueInv, BatchInv, ToHubInv, VerdictMeansExecuted, Next
  PROVE  VerdictMeansExecuted'
<1> USE DEF VerdictMeansExecuted
<1>e. executed \subseteq executed' BY ToHubInvStep
<1>1. CASE Housekeeping(rows, rows')
  BY <1>1, <1>e DEF Housekeeping, Live
<1>2. ASSUME NEW r \in Request, RequestInsert(r) PROVE VerdictMeansExecuted'
  BY <1>2, <1>e, InsertStep
<1>3. ASSUME NEW s \in Session, HandleAck(s) PROVE VerdictMeansExecuted'
  <2> DEFINE a == Head(toHub[s])
  <2>1. toHub[s] \in Seq(Ack) /\ toHub[s] # <<>>
    BY <1>3 DEF HandleAck, TypeOK, DeviceTypeOK
  <2>2. a = toHub[s][1] /\ 1 \in 1 .. Len(toHub[s]) BY <2>1
  <2>3. a.cmd \in executed BY <2>2 DEF ToHubInv
  <2>4. a.cmd \in Cmd /\ a.ok \in BOOLEAN /\ rows' = settleAck(rows, a.cmd, a.ok)
    BY <1>3, AckStep DEF Ack
  <2>5. rows \in Table BY DEF TypeOK, DatabaseTypeOK
  <2> HIDE DEF a
  <2>6. \A c \in Cmd : c # a.cmd => rows'[c] = rows[c]
    BY <2>4, <2>5, SettleAckLemma
  <2>7. QED BY <2>3, <2>6, <1>e
<1>4. QED BY <1>1, <1>2, <1>3, RowsStep

\* A settled row is left alone by every step.
LEMMA SettledStep ==
  ASSUME TypeOK, QueueInv, BatchInv, Next
  PROVE  \A c \in Cmd : rows[c].status \in Settled => rows'[c] = rows[c]
<1> DEFINE Goal == \A c \in Cmd : rows[c].status \in Settled => rows'[c] = rows[c]
<1>1. CASE Housekeeping(rows, rows')
  BY <1>1 DEF Housekeeping, Live, Settled
<1>2. ASSUME NEW r \in Request, RequestInsert(r) PROVE Goal
  <2>1. queued + 1 > queued BY DEF TypeOK, WebTypeOK
  <2>2. queued + 1 \in Cmd BY <1>2, InsertStep
  <2>3. rows[queued + 1].status = "absent" BY <2>1, <2>2 DEF QueueInv
  <2>4. QED BY <1>2, <2>3, InsertStep DEF Settled
<1>3. ASSUME NEW s \in Session, HandleAck(s) PROVE Goal
  <2> DEFINE a == Head(toHub[s])
  <2>1. a.cmd \in Cmd /\ a.ok \in BOOLEAN /\ rows' = settleAck(rows, a.cmd, a.ok)
    BY <1>3, AckStep DEF Ack
  <2>2. rows \in Table BY DEF TypeOK, DatabaseTypeOK
  <2> HIDE DEF a
  <2>3. ASSUME NEW c \in Cmd, rows[c].status \in Settled PROVE rows'[c] = rows[c]
    <3>1. CASE c = a.cmd
      BY <2>1, <2>2, <2>3, <3>1, SettleAckLemma DEF Live, Settled
    <3>2. CASE c # a.cmd BY <2>1, <2>2, <3>2, SettleAckLemma
    <3>3. QED BY <3>1, <3>2
  <2>4. QED BY <2>3
<1>4. QED BY <1>1, <1>2, <1>3, RowsStep

-----------------------------------------------------------------------------
(* The invariant holds, and what follows from it.                          *)

\* The invariant holds when the hub starts.
LEMMA IInvInit == ASSUME Init PROVE IInv
<1> USE DEF Init
<1>1. DatabaseTypeOK BY EmptyTableLemma DEF DatabaseTypeOK
<1>2. MemoryTypeOK
  BY DrainTypes, CommandAssumption DEF MemoryTypeOK, Phase
<1>3. DeviceTypeOK
  <2>1. <<>> \in Seq(Message) /\ <<>> \in Seq(Ack) OBVIOUS
  <2>2. 0 \in 0 .. MaxCmd BY CommandAssumption
  <2>3. QED BY <2>1, <2>2 DEF DeviceTypeOK
<1>4. WebTypeOK BY CommandAssumption DEF WebTypeOK, WebRequest, NoRequest
<1>5. SessionInv BY DEF SessionInv
<1>6. EpochInv
  <2>1. {s \in Session : ready[s]} = {} OBVIOUS
  <2>2. Cardinality({s \in Session : ready[s]}) = 0 BY <2>1, FS_EmptySet
  <2>3. epoch = 0 OBVIOUS
  <2> HIDE DEF Init
  <2>4. QED BY <2>2, <2>3 DEF EpochInv
<1>7. QueueInv BY EmptyTableLemma, CommandAssumption DEF QueueInv, Cmd
<1>8. BatchInv BY DEF BatchInv, NoDrain
<1>9. ToDeviceInv /\ ToHubInv BY DEF ToDeviceInv, ToHubInv
<1>10. VerdictMeansExecuted BY EmptyTableLemma DEF VerdictMeansExecuted
<1>11. OneLiveSocket BY DEF OneLiveSocket
<1>12. QED
  BY <1>1, <1>2, <1>3, <1>4, <1>5, <1>6, <1>7, <1>8, <1>9, <1>10, <1>11
  DEF IInv, TypeOK

\* The invariant is inductive.
LEMMA IInvStep == ASSUME IInv, [Next]_vars PROVE IInv'
<1> USE DEF IInv
<1>1. CASE Next
  <2>1. TypeOK' BY <1>1, TypeStep
  <2>2. SessionInv' BY <1>1, SessionInvStep
  <2>3. EpochInv' BY <1>1, EpochInvStep
  <2>4. QueueInv' BY <1>1, QueueInvStep
  <2>5. BatchInv' BY <1>1, BatchInvStep
  <2>6. ToDeviceInv' BY <1>1, ToDeviceInvStep
  <2>7. ToHubInv' BY <1>1, ToHubInvStep
  <2>8. VerdictMeansExecuted' BY <1>1, VerdictStep
  <2>9. OneLiveSocket' BY <1>1, OneLiveSocketStep
  <2>10. QED BY <2>1, <2>2, <2>3, <2>4, <2>5, <2>6, <2>7, <2>8, <2>9
<1>2. CASE UNCHANGED vars
  <2> USE <1>2 DEF vars
  <2>1. TypeOK'
    BY DEF TypeOK, DatabaseTypeOK, MemoryTypeOK, DeviceTypeOK, WebTypeOK
  <2>2. SessionInv' BY DEF SessionInv
  <2>3. EpochInv' BY DEF EpochInv
  <2>4. QueueInv' BY DEF QueueInv
  <2>5. BatchInv' BY DEF BatchInv
  <2>6. ToDeviceInv' /\ ToHubInv' BY DEF ToDeviceInv, ToHubInv
  <2>7. VerdictMeansExecuted' BY DEF VerdictMeansExecuted
  <2>8. OneLiveSocket' BY DEF OneLiveSocket
  <2>9. QED BY <2>1, <2>2, <2>3, <2>4, <2>5, <2>6, <2>7, <2>8
<1>3. QED BY <1>1, <1>2

\* The inductive invariant holds in every state of the hub.
THEOREM InvariantHolds == Spec => []IInv
<1>1. Init => IInv BY IInvInit
<1>2. IInv /\ [Next]_vars => IInv' BY IInvStep
<1>3. QED BY <1>1, <1>2, PTL DEF Spec

\* Every variable keeps its type; in particular sent_at stays within the
\* activation numbers and a drain always has a row to send or mark.
THEOREM TypeCorrect == Spec => []TypeOK
<1>1. IInv => TypeOK BY DEF IInv
<1>2. QED BY <1>1, InvariantHolds, PTL

\* A command shows a verdict only if the device carried it out.
THEOREM VerdictTheorem == Spec => []VerdictMeansExecuted
<1>1. IInv => VerdictMeansExecuted BY DEF IInv
<1>2. QED BY <1>1, InvariantHolds, PTL

\* Of all open, activated sockets of a frame only one is not being kicked, and
\* it is the one deviceSessions holds.
THEOREM OneLiveSocketTheorem == Spec => []OneLiveSocket
<1>1. IInv => OneLiveSocket BY DEF IInv
<1>2. QED BY <1>1, InvariantHolds, PTL

\* No statement of the web or the hub touches a row that was settled.
THEOREM SettledTheorem == Spec => SettledIsFinal
<1>1. ASSUME IInv, [Next]_vars
      PROVE  [\A c \in Cmd : rows[c].status \in Settled => rows'[c] = rows[c]]_vars
  <2>1. CASE Next BY <1>1, <2>1, SettledStep DEF IInv
  <2>2. CASE UNCHANGED vars BY <2>2
  <2>3. QED BY <1>1, <2>1, <2>2
<1>2. QED BY <1>1, InvariantHolds, PTL DEF Spec, SettledIsFinal

-----------------------------------------------------------------------------
(* FrameHub implements CommandContract.                                    *)

\* Only the device carries commands out, and it does not write rows.
LEMMA ExecutedStep ==
  ASSUME Next PROVE UNCHANGED executed \/ \E s \in Session : DeviceRead(s)
<1>1. ASSUME NEW s \in Session, Activation(s) \/ Drain(s) PROVE UNCHANGED executed
  BY <1>1
  DEF Activation, Authenticate, ActivateCheck, ActivateClaim, ActivateOnline,
      ActivateQueue, ActivateGreet, ActivateFinish, Drain, DrainSelect,
      DrainSend, DrainMark
<1>2. ASSUME NEW s \in Session,
             \/ Connect(s) \/ RejectHandshake(s) \/ CloseEvent(s)
             \/ CommitOffline(s) \/ DeviceLeave(s) \/ HandleAck(s)
      PROVE  UNCHANGED executed
  BY <1>2 DEF Connect, RejectHandshake, CloseEvent, CommitOffline, DeviceLeave,
              HandleAck
<1>3. ASSUME NEW w \in Waker, Wake(w) PROVE UNCHANGED executed
  BY <1>3 DEF Wake, WakeStart, WakeCheck, WakeKick,
      WakeOutdated, WakeRequeue
<1>4. ASSUME NEW r \in Request, Requests(r) PROVE UNCHANGED executed
  BY <1>4 DEF Requests, RequestStart, RequestSupersede, RequestInsert, RequestAbort
<1>5. ASSUME Revoke \/ SweepExpire \/ (\E c \in Cmd : TtlPasses(c) \/ GracePasses(c))
      PROVE  UNCHANGED executed
  BY <1>5 DEF Revoke, RevokeLink, RevokeRow, RevokeCommands, SweepExpire,
              TtlPasses, GracePasses
<1>6. ASSUME Crash \/ Boot PROVE UNCHANGED executed BY <1>6 DEF Crash, Boot
<1>7. QED BY <1>1, <1>2, <1>3, <1>4, <1>5, <1>6 DEF Next

\* The initial states map to the initial state of the contract.
LEMMA ContractInit == ASSUME Init PROVE Contract!Init
BY EmptyTableLemma DEF Init, Contract!Init, Contract!Cmd, publicStatus,
                       PublicName, Cmd, Live

\* Housekeeping is a Drop of the rows it expires.
LEMMA HousekeepingDrops ==
  ASSUME Housekeeping(rows, rows'), UNCHANGED executed PROVE Contract!Next
<1> DEFINE D == {c \in Cmd : rows[c].status \in Live /\ rows'[c].status = "expired"}
<1>1. ASSUME NEW c \in D PROVE publicStatus[c] = "queued"
  BY DEF publicStatus, PublicName
<1>2. publicStatus' = [c \in Cmd |-> IF c \in D THEN "dropped" ELSE publicStatus[c]]
  BY DEF publicStatus, PublicName, Housekeeping, Live
<1>3. D \in SUBSET Contract!Cmd BY DEF Contract!Cmd, Cmd
<1>4. Contract!Drop(D) BY <1>1, <1>2 DEF Contract!Drop, Contract!Cmd, Cmd
<1>5. QED BY <1>3, <1>4 DEF Contract!Next

\* Every step of the hub is a step of the contract, or none.
LEMMA ContractStep ==
  ASSUME IInv, [Next]_vars PROVE [Contract!Next]_Contract!vars
<1> USE DEF Contract!Cmd, Cmd
<1>i. TypeOK /\ QueueInv /\ BatchInv /\ ToDeviceInv /\ ToHubInv BY DEF IInv
<1>1. CASE UNCHANGED vars BY <1>1 DEF vars, Contract!vars, publicStatus
<1>2. ASSUME NEW s \in Session, DeviceRead(s)
      PROVE  [Contract!Next]_Contract!vars
  <2> DEFINE m == Head(toDevice[s])
  <2>1. UNCHANGED publicStatus BY <1>2 DEF DeviceRead, publicStatus
  <2>2. CASE UNCHANGED executed BY <2>1, <2>2 DEF Contract!vars
  <2>3. CASE ~UNCHANGED executed
    <3>1. executed' = executed \cup {m} /\ m # Ready
      BY <1>2, <2>3 DEF DeviceRead
    <3>2. toDevice[s] \in Seq(Message) /\ toDevice[s] # <<>>
      BY <1>2, <1>i DEF DeviceRead, TypeOK, DeviceTypeOK
    <3>3. m = toDevice[s][1] /\ 1 \in 1 .. Len(toDevice[s]) /\ m \in Message
      BY <3>2
    <3>4. m \in Cmd /\ rows[m].status # "absent"
      BY <3>1, <3>3, <1>i DEF Message, ToDeviceInv
    <3> HIDE DEF m
    <3>5. Contract!Execute(m)
      BY <3>1, <3>4, <2>1 DEF Contract!Execute, publicStatus, PublicName, Live
    <3>6. QED BY <3>4, <3>5 DEF Contract!Next
  <2>4. QED BY <2>2, <2>3
<1>3. ASSUME Next, UNCHANGED executed PROVE [Contract!Next]_Contract!vars
  <2>1. CASE Housekeeping(rows, rows') BY <1>3, <2>1, HousekeepingDrops
  <2>2. ASSUME NEW r \in Request, RequestInsert(r) PROVE Contract!Next
    <3> DEFINE c == queued + 1
    <3>1. /\ c \in Cmd /\ rows'[c].status = "pending"
          /\ \A d \in Cmd : d # c => rows'[d] = rows[d]
      BY <2>2, <1>i, InsertStep
    <3>2. \A d \in Cmd : publicStatus[d] = "absent" <=> d >= c
      BY <1>i, CommandAssumption
      DEF publicStatus, PublicName, Live, QueueInv, TypeOK, WebTypeOK
    <3> HIDE DEF c
    <3>3. publicStatus' = [publicStatus EXCEPT ![c] = "queued"]
      BY <3>1 DEF publicStatus, PublicName, Live
    <3>4. Contract!Queue(c) BY <3>1, <3>2, <3>3, <1>3 DEF Contract!Queue
    <3>5. QED BY <3>1, <3>4 DEF Contract!Next
  <2>3. ASSUME NEW s \in Session, HandleAck(s)
        PROVE  [Contract!Next]_Contract!vars
    <3> DEFINE a == Head(toHub[s])
    <3>1. toHub[s] \in Seq(Ack) /\ toHub[s] # <<>>
      BY <2>3, <1>i DEF HandleAck, TypeOK, DeviceTypeOK
    <3>2. a = toHub[s][1] /\ 1 \in 1 .. Len(toHub[s]) BY <3>1
    <3>3. a.cmd \in executed BY <3>2, <1>i DEF ToHubInv
    <3>4. a.cmd \in Cmd /\ a.ok \in BOOLEAN /\ rows' = settleAck(rows, a.cmd, a.ok)
      BY <2>3, <1>i, AckStep DEF Ack
    <3>5. rows \in Table BY <1>i DEF TypeOK, DatabaseTypeOK
    <3> DEFINE c == a.cmd
               v == IF a.ok THEN "acked" ELSE "failed"
    <3>6. CASE rows[c].status \in Live
      <4>1. /\ rows'[c].status = v
            /\ \A d \in Cmd : d # c => rows'[d] = rows[d]
        BY <3>4, <3>5, <3>6, SettleAckLemma
      <4>2. c \in Cmd /\ c \in executed /\ v \in {"acked", "failed"}
        BY <3>3, <3>4
      <4> HIDE DEF c, v, a
      <4>3. publicStatus' = [publicStatus EXCEPT ![c] = v]
        BY <4>1, <4>2 DEF publicStatus, PublicName, Live
      <4>4. publicStatus[c] = "queued" BY <4>2, <3>6 DEF publicStatus, PublicName
      <4>5. Contract!Confirm(c, v)
        BY <4>2, <4>3, <4>4, <1>3 DEF Contract!Confirm
      <4>6. QED BY <4>2, <4>5 DEF Contract!Next
    <3>7. CASE rows[c].status \notin Live
      <4>1. UNCHANGED rows BY <3>4, <3>5, <3>7, SettleAckLemma
      <4>2. QED BY <4>1, <1>3 DEF Contract!vars, publicStatus
    <3>8. QED BY <3>6, <3>7
  <2>4. QED BY <2>1, <2>2, <2>3, <1>3, <1>i, RowsStep
<1>4. QED BY <1>1, <1>2, <1>3, ExecutedStep

\* The hub, the web routes and the device together keep the command contract.
THEOREM Implements == Spec => ContractHolds
<1>1. Init => Contract!Init BY ContractInit
<1>2. IInv /\ [Next]_vars => [Contract!Next]_Contract!vars BY ContractStep
<1>3. QED BY <1>1, <1>2, InvariantHolds, PTL DEF Spec, ContractHolds, Contract!Spec
=============================================================================
