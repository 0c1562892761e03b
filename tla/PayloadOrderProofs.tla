------------------------- MODULE PayloadOrderProofs -------------------------
(***************************************************************************)
(* The device never goes back to an older payload, for every number of     *)
(* commands, sessions and wake-ups, any crash, abort and fault budget and  *)
(* a revocation, as long as one web request at a time queues commands      *)
(* (OneWriter).  With two, TLC finds the counterexample (stale_redelivery).*)
(*                                                                         *)
(* The argument: a route that supersedes leaves no live row of its type    *)
(* before it inserts, so the only live row of the type is the newest one,  *)
(* and what a drain picks up is never older than what was written before.  *)
(*                                                                         *)
(* The last section: no row dropped as superseded lacks a newer one, for   *)
(* any number of requests, as long as none dies half way.                  *)
(***************************************************************************)
EXTENDS FrameHubProofs

OneWriter == \A q, r \in Request : q = r

\* Two messages, the first no newer than the second where their order matters:
\* t is the table their types are read from.
Before(t, m, n) ==
  m \in Cmd /\ n \in Cmd /\ t[m].kind \in Superseding /\ t[n].kind = t[m].kind
    => m <= n

\* A live row of a superseding type is the newest row of its type.
NewestLive ==
  \A c, d \in Cmd :
    rows[c].status \in Live /\ rows[d].status # "absent" => Before(rows, d, c)

\* A request about to insert has left no live row of its type.
NoneLive ==
  \A r \in Request :
    request[r].pc = "insert" /\ request[r].kind \in Superseding =>
      \A c \in Cmd : rows[c].kind = request[r].kind => rows[c].status \notin Live

\* A socket that was never accepted has nothing written or to be written.
FreshSocket ==
  \A s \in Session : sock[s] = "unused" =>
    toDevice[s] = <<>> /\ drain[s].batch = {} /\ drain[s].pc = "idle"

\* The wire is in order, and the drain only adds to its end.
WireOrder ==
  \A s \in Session : \A i \in 1 .. Len(toDevice[s]) :
    /\ \A j \in 1 .. Len(toDevice[s]) :
         i <= j => Before(rows, toDevice[s][i], toDevice[s][j])
    /\ \A c \in drain[s].batch : Before(rows, toDevice[s][i], c)

\* What the device shows is a command of its type, and nothing older is on its
\* way on the socket it uses.
ShownOrder ==
  \A k \in Superseding : shown[k] # 0 =>
    /\ rows[shown[k]].status # "absent" /\ rows[shown[k]].kind = k
    /\ dev # NoSession =>
         /\ \A i \in 1 .. Len(toDevice[dev]) : Before(rows, shown[k], toDevice[dev][i])
         /\ \A c \in drain[dev].batch : Before(rows, shown[k], c)

OrderInv ==
  IInv /\ NewestLive /\ NoneLive /\ FreshSocket /\ WireOrder /\ ShownOrder

USE DEF database, memory, device, web, budgets, frameRow

-----------------------------------------------------------------------------
(* Rows.                                                                   *)

\* A row keeps its type, and only an INSERT makes a row live.
LEMMA RowsKeep ==
  ASSUME IInv, Next
  PROVE  /\ \A c \in Cmd : rows[c].status # "absent" =>
              rows'[c].status # "absent" /\ rows'[c].kind = rows[c].kind
         /\ \A c \in Cmd : rows'[c].status \in Live =>
              \/ rows[c].status \in Live
              \/ \E r \in Request : RequestInsert(r) /\ c = queued + 1
<1> DEFINE Goal ==
      /\ \A c \in Cmd : rows[c].status # "absent" => rows'[c].kind = rows[c].kind
      /\ \A c \in Cmd : rows'[c].status \in Live =>
           \/ rows[c].status \in Live
           \/ \E r \in Request : RequestInsert(r) /\ c = queued + 1
<1>a. \A c \in Cmd : rows[c].status # "absent" => rows'[c].status # "absent"
  BY QueueInvStep DEF IInv
<1>1. ASSUME Housekeeping(rows, rows') PROVE Goal
  BY <1>1 DEF Housekeeping
<1>2. ASSUME NEW r \in Request, RequestInsert(r) PROVE Goal
  <2>1. /\ queued + 1 \in Cmd
        /\ \A d \in Cmd : d # queued + 1 => rows'[d] = rows[d]
    BY <1>2, InsertStep DEF IInv
  <2>2. rows[queued + 1].status = "absent"
    BY <2>1 DEF IInv, QueueInv, TypeOK, WebTypeOK
  <2>3. QED BY <1>2, <2>1, <2>2
<1>3. ASSUME NEW s \in Session, HandleAck(s) PROVE Goal
  <2> DEFINE a == Head(toHub[s])
  <2>1. rows \in Table BY DEF IInv, TypeOK, DatabaseTypeOK
  <2>2. a.cmd \in Cmd /\ a.ok \in BOOLEAN /\ rows' = settleAck(rows, a.cmd, a.ok)
    BY <1>3, AckStep DEF Ack, IInv
  <2> HIDE DEF a
  <2>3. QED BY <2>1, <2>2, SettleAckLemma DEF Live
<1>4. Goal BY <1>1, <1>2, <1>3, RowsStep DEF IInv
<1>5. QED BY <1>4, <1>a

\* The order of two commands that were queued does not change.
LEMMA BeforeKeeps ==
  ASSUME IInv, Next, NEW m, NEW n, Before(rows, m, n),
         m \in Cmd => rows[m].status # "absent",
         n \in Cmd => rows[n].status # "absent"
  PROVE  Before(rows', m, n)
BY RowsKeep DEF Before

\* A live row stays the newest of its type: before an INSERT none is live.
LEMMA NewestLiveStep ==
  ASSUME OrderInv, Next PROVE NewestLive'
<1>q. QueueInv /\ QueueInv' /\ queued \in Nat
  BY QueueInvStep DEF OrderInv, IInv, TypeOK, WebTypeOK
<1>1. ASSUME NEW c \in Cmd, NEW d \in Cmd, rows'[c].status \in Live,
             rows'[d].status # "absent", rows'[c].kind \in Superseding,
             rows'[d].kind = rows'[c].kind
      PROVE  d <= c
  <2>1. CASE \E r \in Request : RequestInsert(r) /\ c = queued + 1
    <3>1. queued' = queued + 1 BY <2>1 DEF RequestInsert
    <3>2. ~ (d > queued') BY <1>1, <1>q DEF QueueInv
    <3>3. QED BY <2>1, <3>1, <3>2, <1>q DEF Cmd
  <2>2. CASE rows[c].status \in Live
    <3>1. rows[c].status # "absent" BY <2>2 DEF Live
    <3>2. rows'[c].kind = rows[c].kind BY <3>1, RowsKeep DEF OrderInv
    <3>3. CASE rows[d].status # "absent"
      BY <1>1, <2>2, <3>2, <3>3, RowsKeep DEF OrderInv, NewestLive, Before
    <3>4. CASE rows[d].status = "absent"
      <4>1. d > queued /\ ~ (d > queued') BY <1>1, <3>4, <1>q DEF QueueInv
      <4>2. ~UNCHANGED queued BY <4>1
      <4>3. PICK r \in Request : RequestInsert(r)
        <5>1. ASSUME NEW s \in Session, HandleAck(s) PROVE UNCHANGED queued
          BY <5>1 DEF HandleAck
        <5>2. QED BY <5>1, <4>2, RowsStep DEF OrderInv, IInv
      <4>4. /\ queued + 1 \in Cmd /\ rows'[queued + 1].kind = request[r].kind
            /\ \A e \in Cmd : e # queued + 1 => rows'[e] = rows[e]
        BY <4>3, InsertStep DEF OrderInv, IInv
      <4>5. d = queued + 1 BY <4>4, <3>4, <1>1
      <4>6. request[r].kind = rows[c].kind /\ rows[c].kind \in Superseding
        BY <4>4, <4>5, <3>2, <1>1 
      <4>7. request[r].pc = "insert" BY <4>3 DEF RequestInsert
      <4>8. QED BY <4>6, <4>7, <2>2 DEF OrderInv, NoneLive
    <3>5. QED BY <3>3, <3>4
  <2>3. QED BY <1>1, <2>1, <2>2, RowsKeep DEF OrderInv
<1>2. QED BY <1>1 DEF NewestLive, Before

\* Only a request's own steps change it.
LEMMA RequestsMove ==
  ASSUME Next PROVE UNCHANGED request \/ \E r \in Request : Requests(r)
<1>1. ASSUME NEW s \in Session, Activation(s) PROVE UNCHANGED request
  BY <1>1 DEF Activation, Authenticate, ActivateCheck, ActivateClaim,
              ActivateOnline, ActivateQueue, ActivateGreet, ActivateFinish, web
<1>2. ASSUME NEW s \in Session, Drain(s) PROVE UNCHANGED request
  BY <1>2 DEF Drain, DrainSelect, DrainSend, DrainMark, web
<1>3. ASSUME NEW w \in Waker, Wake(w) PROVE UNCHANGED request
  BY <1>3 DEF Wake, WakeStart, WakeCheck, WakeKick, WakeOutdated, WakeRequeue, web
<1>4. ASSUME Revoke PROVE UNCHANGED request
  BY <1>4 DEF Revoke, RevokeLink, RevokeRow, RevokeCommands, web
<1>5. ASSUME NEW s \in Session,
             \/ Connect(s) \/ RejectHandshake(s) \/ CloseEvent(s)
             \/ CommitOffline(s) \/ DeviceRead(s) \/ DeviceLeave(s)
      PROVE  UNCHANGED request
  <2>1. CASE Connect(s) \/ RejectHandshake(s)
    BY <2>1 DEF Connect, RejectHandshake, web
  <2>2. CASE CloseEvent(s) \/ CommitOffline(s)
    BY <2>2 DEF CloseEvent, CommitOffline, web
  <2>3. CASE DeviceRead(s) \/ DeviceLeave(s)
    BY <2>3 DEF DeviceRead, DeviceLeave, web
  <2>4. QED BY <1>5, <2>1, <2>2, <2>3
<1>6. ASSUME NEW s \in Session, HandleAck(s) PROVE UNCHANGED request
  BY <1>6 DEF HandleAck, web
<1>7. ASSUME NEW c \in Cmd, TtlPasses(c) \/ GracePasses(c)
      PROVE  UNCHANGED request
  BY <1>7 DEF TtlPasses, GracePasses, web
<1>8. ASSUME SweepExpire \/ Crash \/ Boot PROVE UNCHANGED request
  BY <1>8 DEF SweepExpire, Crash, Boot, web
<1>9. QED BY <1>1, <1>2, <1>3, <1>4, <1>5, <1>6, <1>7, <1>8 DEF Next

\* A request reaches its INSERT only past supersedePendingCommands, and no
\* other request has inserted since.
LEMMA NoneLiveStep ==
  ASSUME OneWriter, OrderInv, Next PROVE NoneLive'
<1> DEFINE Done(r) == ~ (request'[r].pc = "insert"
                         /\ request'[r].kind \in Superseding)
<1>t. /\ request \in [Request -> WebRequest] /\ rows \in Table
      /\ QueueInv
  BY DEF OrderInv, IInv, TypeOK, WebTypeOK, DatabaseTypeOK
<1>1. ASSUME NEW r \in Request, NEW k \in Kinds,
             RequestStart(r, k)
      PROVE  Done(r)
  BY <1>1, <1>t DEF RequestStart
<1>2. ASSUME NEW r \in Request, RequestInsert(r) \/ RequestAbort(r)
      PROVE  Done(r)
  BY <1>2, <1>t DEF RequestInsert, RequestAbort, NoRequest
<1>3. ASSUME NEW r \in Request, NEW c \in Cmd, RequestSupersede(r),
             rows'[c].kind = request'[r].kind
      PROVE  rows'[c].status \notin Live
  <2>1. request'[r].kind = request[r].kind
    BY <1>3, <1>t DEF RequestSupersede, WebRequest
  <2>2. rows' = supersedePendingCommands(rows, request[r].kind)
    BY <1>3 DEF RequestSupersede
  <2>3. rows[c] \in Row BY <1>t DEF Table
  <2>4. CASE rows[c].kind = request[r].kind /\ rows[c].status \in Live
    BY <2>2, <2>3, <2>4 DEF supersedePendingCommands, Expire, Reset, Row, Live
  <2>5. CASE ~ (rows[c].kind = request[r].kind /\ rows[c].status \in Live)
    <3>1. rows'[c] = rows[c]
      BY <2>2, <2>5 DEF supersedePendingCommands, Expire
    <3>2. QED BY <3>1, <2>5, <2>1, <1>3
  <2>6. QED BY <2>4, <2>5
<1>4. ASSUME UNCHANGED request PROVE NoneLive'
  <2>1. ASSUME NEW r \in Request, NEW c \in Cmd, request'[r].pc = "insert",
               request'[r].kind \in Superseding,
               rows'[c].kind = request'[r].kind, rows'[c].status \in Live
        PROVE  FALSE
    <3>1. \A q \in Request : ~RequestInsert(q)
      BY <1>4, <1>t DEF RequestInsert, NoRequest
    <3>2. rows[c].status \in Live /\ rows[c].status # "absent"
      BY <2>1, <3>1, RowsKeep DEF OrderInv, Live
    <3>3. rows'[c].kind = rows[c].kind BY <3>2, RowsKeep DEF OrderInv
    <3>4. QED BY <1>4, <2>1, <3>2, <3>3 DEF OrderInv, NoneLive
  <2>2. QED BY <2>1 DEF NoneLive
<1>5. ASSUME NEW r \in Request, Requests(r) PROVE NoneLive'
  <2>1. \A q \in Request : q = r BY DEF OneWriter
  <2>2. CASE RequestSupersede(r) BY <2>1, <2>2, <1>3 DEF NoneLive
  <2>3. CASE ~RequestSupersede(r)
    <3>1. Done(r) BY <1>5, <1>1, <1>2, <2>3 DEF Requests
    <3>2. QED BY <2>1, <3>1 DEF NoneLive
  <2>4. QED BY <2>2, <2>3
<1>6. UNCHANGED request \/ \E r \in Request : Requests(r)
  BY RequestsMove
<1>7. QED BY <1>4, <1>5, <1>6

-----------------------------------------------------------------------------
(* The wire and the drain's snapshot.                                      *)

\* Nothing is written to a device, and no snapshot grows.
Still ==
  /\ UNCHANGED <<toDevice, dev, shown>>
  /\ \A s \in Session : drain'[s].batch \subseteq drain[s].batch

\* Which steps write to the device, read from the wire or take a snapshot.
LEMMA WireMoves ==
  ASSUME TypeOK, Next
  PROVE  \/ Still
         \/ \E s \in Session :
              \/ Connect(s) \/ ActivateGreet(s) \/ DrainSelect(s)
              \/ DrainSend(s) \/ DeviceRead(s) \/ DeviceLeave(s)
<1>d. drain \in [Session -> DrainLoop] BY DEF TypeOK, MemoryTypeOK
<1>u. UNCHANGED <<toDevice, dev, shown, drain>> => Still BY DEF Still
<1>c. ASSUME NEW s, drainCommands(s)
      PROVE  \A u \in Session : drain'[u].batch \subseteq drain[u].batch
  BY <1>c, <1>d DEF drainCommands, DrainLoop
<1>1. ASSUME NEW s \in Session, Activation(s), ~ActivateGreet(s) PROVE Still
  BY <1>1, <1>u
  DEF Activation, Authenticate, ActivateCheck, ActivateClaim, ActivateOnline,
      ActivateQueue, ActivateFinish
<1>2. ASSUME NEW s \in Session, DrainMark(s) PROVE Still
  <2> DEFINE rest == drain[s].batch \ {First(drain[s].batch)}
             d == IF rest = {} THEN NextPass(drain[s])
                  ELSE [drain[s] EXCEPT !.pc = "send", !.batch = rest, !.stamp = 0]
  <2>1. drain' = [drain EXCEPT ![s] = d] /\ UNCHANGED <<toDevice, dev, shown>>
    BY <1>2 DEF DrainMark, DrainStep
  <2>2. d.batch \subseteq drain[s].batch
    BY <1>d DEF NextPass, NoDrain, DrainLoop
  <2> HIDE DEF d
  <2>3. QED BY <2>1, <2>2, <1>d DEF Still
<1>3. ASSUME NEW w \in Waker, Wake(w) PROVE Still
  <2>1. CASE WakeRequeue(w) BY <2>1, <1>c DEF WakeRequeue, Still
  <2>2. CASE ~WakeRequeue(w)
    BY <1>3, <2>2, <1>u DEF Wake, WakeStart, WakeCheck, WakeKick, WakeOutdated
  <2>3. QED BY <2>1, <2>2
<1>4. ASSUME NEW r \in Request, Requests(r) PROVE Still
  BY <1>4, <1>u DEF Requests, RequestStart, RequestSupersede, RequestInsert,
                    RequestAbort
<1>5. ASSUME Revoke \/ SweepExpire \/ (\E c \in Cmd : TtlPasses(c) \/ GracePasses(c))
      PROVE  Still
  BY <1>5, <1>u DEF Revoke, RevokeLink, RevokeRow, RevokeCommands, SweepExpire,
                    TtlPasses, GracePasses
<1>6. ASSUME NEW s \in Session,
             RejectHandshake(s) \/ CloseEvent(s) \/ CommitOffline(s) \/ HandleAck(s)
      PROVE  Still
  BY <1>6, <1>u DEF RejectHandshake, CloseEvent, CommitOffline, HandleAck
<1>7. ASSUME Crash PROVE Still
  <2>1. \A s \in Session : drain'[s].batch = {} BY <1>7 DEF Crash, NoDrain
  <2>2. QED BY <1>7, <2>1 DEF Crash, Still
<1>8. ASSUME Boot PROVE Still BY <1>8, <1>u DEF Boot
<1>9. QED
  BY <1>1, <1>2, <1>3, <1>4, <1>5, <1>6, <1>7, <1>8 DEF Next, Activation, Drain

\* The snapshot a drain takes has pending rows, so per superseding type the
\* newest one only.
LEMMA SnapshotIsNewest ==
  ASSUME IInv, NewestLive', NEW s \in Session, DrainSelect(s)
  PROVE  /\ \A u \in Session : u # s => drain'[u] = drain[u]
         /\ \A c \in drain'[s].batch : \A d \in Cmd :
              rows'[d].status # "absent" => Before(rows', d, c)
<1>d. drain \in [Session -> DrainLoop] BY DEF IInv, TypeOK, MemoryTypeOK
<1> DEFINE d == IF Pending(rows') = {} THEN NextPass(drain[s])
                ELSE [drain[s] EXCEPT !.pc = "send", !.batch = Pending(rows')]
<1>1. drain' = [drain EXCEPT ![s] = d] BY DEF DrainSelect, DrainStep
<1>2. d.batch \subseteq Pending(rows')
  BY <1>d DEF NextPass, NoDrain, DrainLoop
<1> HIDE DEF d
<1>3. \A c \in drain'[s].batch : c \in Cmd /\ rows'[c].status \in Live
  BY <1>1, <1>2, <1>d DEF Pending, Live
<1>4. QED BY <1>1, <1>3, <1>d DEF NewestLive

\* What a drain writes is the oldest of its snapshot, which does not grow.
LEMMA SendLemma ==
  ASSUME IInv, NEW s \in Session, DrainSend(s)
  PROVE  /\ First(drain[s].batch) \in drain[s].batch
         /\ \A c \in drain[s].batch : First(drain[s].batch) <= c
         /\ \A u \in Session : drain'[u].batch \subseteq drain[u].batch
<1>d. drain \in [Session -> DrainLoop] BY DEF IInv, TypeOK, MemoryTypeOK
<1>1. drain[s].batch \in SUBSET Cmd BY <1>d DEF DrainLoop
<1>2. drain[s].batch # {} BY DEF DrainSend, DrainStep, IInv, BatchInv
<1>3. \A u \in Session : drain'[u].batch \subseteq drain[u].batch
  <2> DEFINE d == [drain[s] EXCEPT !.pc = "mark", !.stamp = epoch]
  <2>1. \/ drain' = [drain EXCEPT ![s] = d]
        \/ drain' = [drain EXCEPT ![s] = NoDrain]
    BY DEF DrainSend, DrainStep
  <2>2. d.batch = drain[s].batch /\ NoDrain.batch = {}
    BY <1>d DEF NoDrain, DrainLoop
  <2> HIDE DEF d
  <2>3. QED BY <2>1, <2>2, <1>d
<1>4. \E c \in drain[s].batch : \A e \in drain[s].batch : c <= e
  BY <1>1, <1>2, OldestExists
<1>5. QED BY <1>3, <1>4 DEF First

\* The wire stays in order: what is appended is no older than what is on it.
LEMMA WireOrderStep ==
  ASSUME OrderInv, NewestLive', Next PROVE WireOrder'
<1> DEFINE Good(q, b) ==
      \A i \in 1 .. Len(q) :
        /\ \A j \in 1 .. Len(q) : i <= j => Before(rows', q[i], q[j])
        /\ \A c \in b : Before(rows', q[i], c)
<1>t. /\ toDevice \in [Session -> Seq(Message)] /\ drain \in [Session -> DrainLoop]
      /\ \A s \in Session : drain[s].batch \in SUBSET Cmd
  BY DEF OrderInv, IInv, TypeOK, DeviceTypeOK, MemoryTypeOK, DrainLoop
<1>a. /\ \A s \in Session : \A c \in drain[s].batch :
           c \in Cmd /\ rows[c].status # "absent"
      /\ \A s \in Session : \A i \in 1 .. Len(toDevice[s]) :
           toDevice[s][i] \in Cmd => rows[toDevice[s][i]].status # "absent"
  BY <1>t DEF OrderInv, IInv, BatchInv, ToDeviceInv
<1>h. ASSUME NEW s \in Session PROVE Good(toDevice[s], drain[s].batch)
  BY <1>a, BeforeKeeps DEF OrderInv, WireOrder
<1>g. (\A s \in Session : Good(toDevice'[s], drain'[s].batch)) => WireOrder'
  BY DEF WireOrder
<1>1. CASE Still
  <2>1. \A s \in Session : Good(toDevice'[s], drain'[s].batch)
    BY <1>1, <1>h DEF Still
  <2>2. QED BY <2>1, <1>g
<1>p. ASSUME NEW q \in Seq(Message), NEW b, NEW b2 \in SUBSET b, NEW m \in Message,
             Good(q, b), Before(rows', m, m),
             \A i \in 1 .. Len(q) : Before(rows', q[i], m),
             \A c \in b2 : Before(rows', m, c)
      PROVE  Good(Append(q, m), b2)
  <2> DEFINE q2 == Append(q, m)
  <2>1. /\ Len(q2) = Len(q) + 1 /\ Len(q) \in Nat /\ q2[Len(q) + 1] = m
        /\ \A i \in 1 .. Len(q) : q2[i] = q[i]
    OBVIOUS
  <2> HIDE DEF q2
  <2>2. ASSUME NEW i \in 1 .. Len(q2)
        PROVE  /\ \A j \in 1 .. Len(q2) : i <= j => Before(rows', q2[i], q2[j])
               /\ \A c \in b2 : Before(rows', q2[i], c)
    <3>1. CASE i = Len(q) + 1
      <4>1. \A j \in 1 .. Len(q2) : i <= j => j = i BY <2>1, <3>1
      <4>2. q2[i] = m BY <3>1, <2>1
      <4>3. QED BY <4>1, <4>2, <1>p
    <3>2. CASE i \in 1 .. Len(q)
      <4>1. q2[i] = q[i] BY <3>2, <2>1
      <4>2. \A j \in 1 .. Len(q2) :
              (j \in 1 .. Len(q) /\ q2[j] = q[j]) \/ q2[j] = m
        BY <2>1
      <4>3. QED BY <4>1, <4>2, <3>2, <1>p
    <3>3. QED BY <3>1, <3>2, <2>1
  <2>3. QED BY <2>2 DEF q2
<1>2. ASSUME NEW s \in Session, Connect(s) PROVE WireOrder'
  BY <1>2, <1>h, <1>g DEF Connect
<1>3. ASSUME NEW s \in Session, ActivateGreet(s) PROVE WireOrder'
  <2>1. Ready \notin Cmd /\ Ready \in Message BY DEF Ready, Cmd, Message
  <2>2. \A u \in Session : drain'[u].batch \subseteq drain[u].batch
    BY <1>3, <1>t DEF ActivateGreet, drainCommands, DrainLoop
  <2>3. \A n : Before(rows', n, Ready) /\ Before(rows', Ready, n) BY <2>1 DEF Before
  <2>4. Good(Append(toDevice[s], Ready), drain'[s].batch)
    BY <2>1, <2>2, <2>3, <1>t, <1>h, <1>p
  <2>5. \A u \in Session :
          \/ toDevice'[u] = toDevice[u]
          \/ u = s /\ toDevice'[u] = Append(toDevice[s], Ready)
    BY <1>3, <1>t DEF ActivateGreet
  <2>6. \A u \in Session : Good(toDevice'[u], drain'[u].batch)
    BY <2>2, <2>4, <2>5, <1>h
  <2>7. QED BY <2>6, <1>g
<1>4. ASSUME NEW s \in Session, DrainSelect(s) PROVE WireOrder'
  <2>1. UNCHANGED toDevice BY <1>4 DEF DrainSelect
  <2>2. \A u \in Session : u # s => drain'[u] = drain[u]
    BY <1>4, SnapshotIsNewest DEF OrderInv
  <2>3. \A i \in 1 .. Len(toDevice[s]) : \A c \in drain'[s].batch :
          Before(rows', toDevice[s][i], c)
    <3>1. ASSUME NEW i \in 1 .. Len(toDevice[s]), NEW c \in drain'[s].batch,
                 toDevice[s][i] \in Cmd
          PROVE  Before(rows', toDevice[s][i], c)
      <4>1. rows'[toDevice[s][i]].status # "absent"
        BY <3>1, <1>a, RowsKeep DEF OrderInv
      <4>2. QED BY <4>1, <3>1, <1>4, SnapshotIsNewest DEF OrderInv
    <3>2. QED BY <3>1 DEF Before
  <2>4. \A u \in Session : Good(toDevice'[u], drain'[u].batch)
    BY <2>1, <2>2, <2>3, <1>h
  <2>5. QED BY <2>4, <1>g
<1>5. ASSUME NEW s \in Session, DrainSend(s) PROVE WireOrder'
  <2> DEFINE m == First(drain[s].batch)
  <2>1. /\ m \in drain[s].batch /\ \A c \in drain[s].batch : m <= c
        /\ \A u \in Session : drain'[u].batch \subseteq drain[u].batch
    BY <1>5, SendLemma DEF OrderInv
  <2>2. \A u \in Session :
          \/ toDevice'[u] = toDevice[u]
          \/ u = s /\ toDevice'[u] = Append(toDevice[s], m)
    BY <1>5, <1>t DEF DrainSend
  <2> HIDE DEF m
  <2>3. m \in Message BY <2>1, <1>t DEF Message
  <2>4. \A c \in drain[s].batch : Before(rows', m, c) BY <2>1 DEF Before
  <2>5. \A i \in 1 .. Len(toDevice[s]) : Before(rows', toDevice[s][i], m)
    BY <2>1, <1>h
  <2>6. Good(Append(toDevice[s], m), drain'[s].batch)
    BY <2>1, <2>3, <2>4, <2>5, <1>t, <1>h, <1>p
  <2>7. \A u \in Session : Good(toDevice'[u], drain'[u].batch)
    BY <2>1, <2>2, <2>6, <1>h
  <2>8. QED BY <2>7, <1>g
<1>6. ASSUME NEW s \in Session, DeviceRead(s) PROVE WireOrder'
  <2>1. toDevice[s] \in Seq(Message) /\ toDevice[s] # <<>>
    BY <1>6, <1>t DEF DeviceRead
  <2>2. Good(Tail(toDevice[s]), drain[s].batch)
    <3> DEFINE q == Tail(toDevice[s])
    <3>1. \A i \in 1 .. Len(q) :
            i + 1 \in 1 .. Len(toDevice[s]) /\ q[i] = toDevice[s][i + 1]
      BY <2>1
    <3>2. Len(q) \in Nat BY <2>1
    <3> HIDE DEF q
    <3>3. \A i, j \in 1 .. Len(q) : i <= j => i + 1 <= j + 1 BY <3>2
    <3>4. Good(q, drain[s].batch) BY <3>1, <3>3, <1>h
    <3>5. QED BY <3>4 DEF q
  <2>3. toDevice' = [toDevice EXCEPT ![s] = Tail(@)] /\ UNCHANGED drain
    BY <1>6 DEF DeviceRead
  <2>4. \A u \in Session : Good(toDevice'[u], drain'[u].batch)
    BY <2>2, <2>3, <1>h, <1>t
  <2>5. QED BY <2>4, <1>g
<1>7. ASSUME NEW s \in Session, DeviceLeave(s) PROVE WireOrder'
  <2>1. \A b : Good(<<>>, b) OBVIOUS
  <2>2. toDevice' = [toDevice EXCEPT ![s] = <<>>] /\ UNCHANGED drain
    BY <1>7 DEF DeviceLeave
  <2>3. \A u \in Session : Good(toDevice'[u], drain'[u].batch)
    BY <2>1, <2>2, <1>h, <1>t
  <2>4. QED BY <2>3, <1>g
<1>8. QED
  BY <1>1, <1>2, <1>3, <1>4, <1>5, <1>6, <1>7, WireMoves DEF OrderInv, IInv

-----------------------------------------------------------------------------
(* What the device shows.                                                  *)

\* Nothing is written to, or drained for, a socket that was never accepted.
LEMMA FreshSocketStep ==
  ASSUME OrderInv, Next PROVE FreshSocket'
<1>t. /\ toDevice \in [Session -> Seq(Message)] /\ drain \in [Session -> DrainLoop]
      /\ sock \in [Session -> {"unused", "open", "closing", "closed"}]
      /\ SessionInv
  BY DEF OrderInv, IInv, TypeOK, DeviceTypeOK, MemoryTypeOK
<1>a. ASSUME NEW u \in Session, sock'[u] = "unused" PROVE sock[u] = "unused"
  <2>1. CASE UNCHANGED sock BY <1>a, <2>1
  <2>2. ASSUME NEW s \in Session, SessionStep(s) PROVE sock[u] = "unused"
    <3>1. CASE Connect(s) BY <1>a, <1>t, <3>1 DEF Connect
    <3>2. CASE RejectHandshake(s) BY <1>a, <1>t, <3>2 DEF RejectHandshake
    <3>3. CASE Activation(s)
      BY <1>a, <1>t, <3>3
      DEF Activation, Authenticate, ActivateCheck, ActivateClaim,
          ActivateOnline, ActivateQueue, ActivateGreet, ActivateFinish, Closing
    <3>4. CASE CloseEvent(s) BY <1>a, <1>t, <3>4 DEF CloseEvent
    <3>5. CASE Drain(s) BY <1>a, <3>5, DrainMoves DEF OrderInv, IInv
    <3>6. QED BY <2>2, <3>1, <3>2, <3>3, <3>4, <3>5 DEF SessionStep
  <2>3. ASSUME NEW w \in Waker, WakeCheck(w) \/ WakeKick(w)
        PROVE  sock[u] = "unused"
    BY <1>a, <1>t, <2>3 DEF WakeCheck, WakeKick, Closing
  <2>4. CASE Crash BY <1>a, <1>t, <2>4 DEF Crash
  <2>5. QED BY <2>1, <2>2, <2>3, <2>4, SessionVariables
<1>h. ASSUME NEW u \in Session, sock'[u] = "unused"
      PROVE  /\ toDevice[u] = <<>> /\ drain[u].batch = {}
             /\ drain[u].pc = "idle" /\ ~ready[u] /\ act[u] = "handshake"
  BY <1>h, <1>a, <1>t DEF OrderInv, FreshSocket, SessionInv
<1>c. ASSUME NEW s, NEW u \in Session, sock'[u] = "unused", drainCommands(s)
      PROVE  drain'[u] = drain[u]
  BY <1>c, <1>h, <1>t DEF drainCommands, DrainStarts
<1>1. ASSUME NEW u \in Session, sock'[u] = "unused"
      PROVE  toDevice'[u] = <<>> /\ (drain'[u] = drain[u] \/ drain'[u] = NoDrain)
  <2> DEFINE Goal == /\ toDevice'[u] = <<>>
                     /\ drain'[u] = drain[u] \/ drain'[u] = NoDrain
  <2>u. UNCHANGED <<toDevice, drain>> => Goal BY <1>1, <1>h
  <2>1. ASSUME NEW s \in Session, Activation(s) PROVE Goal
    <3>1. CASE ActivateGreet(s)
      <4>1. u # s BY <1>1, <1>h, <3>1 DEF ActivateGreet, Advance
      <4>2. QED BY <1>1, <1>h, <1>c, <1>t, <3>1, <4>1 DEF ActivateGreet
    <3>2. CASE ~ActivateGreet(s)
      BY <2>1, <2>u, <3>2
      DEF Activation, Authenticate, ActivateCheck, ActivateClaim,
          ActivateOnline, ActivateQueue, ActivateFinish
    <3>3. QED BY <3>1, <3>2
  <2>2. ASSUME NEW s \in Session, Drain(s) PROVE Goal
    <3>1. drain[s].pc # "idle" /\ \E d : drain' = [drain EXCEPT ![s] = d]
      BY <2>2 DEF Drain, DrainSelect, DrainSend, DrainMark, DrainStep
    <3>2. u # s BY <1>1, <1>h, <3>1
    <3>3. drain'[u] = drain[u] BY <3>1, <3>2, <1>t
    <3>4. toDevice'[u] = toDevice[u]
      BY <2>2, <3>2, <1>t DEF Drain, DrainSelect, DrainSend, DrainMark
    <3>5. QED BY <1>1, <1>h, <3>3, <3>4
  <2>3. ASSUME NEW s \in Session, DeviceRead(s) \/ DeviceLeave(s) PROVE Goal
    <3>1. UNCHANGED drain BY <2>3 DEF DeviceRead, DeviceLeave
    <3>2. CASE DeviceRead(s)
      <4>1. u # s BY <1>1, <1>h, <3>2 DEF DeviceRead
      <4>2. QED BY <1>1, <1>h, <1>t, <3>1, <3>2, <4>1 DEF DeviceRead
    <3>3. CASE DeviceLeave(s)
      BY <1>1, <1>h, <1>t, <3>1, <3>3 DEF DeviceLeave
    <3>4. QED BY <2>3, <3>2, <3>3
  <2>4. ASSUME NEW w \in Waker, Wake(w) PROVE Goal
    <3>1. CASE WakeRequeue(w) BY <1>1, <1>h, <1>c, <3>1 DEF WakeRequeue
    <3>2. CASE ~WakeRequeue(w)
      BY <2>4, <3>2, <2>u DEF Wake, WakeStart, WakeCheck, WakeKick, WakeOutdated
    <3>3. QED BY <3>1, <3>2
  <2>5. ASSUME NEW r \in Request, Requests(r) PROVE Goal
    BY <2>5, <2>u DEF Requests, RequestStart, RequestSupersede, RequestInsert,
                      RequestAbort
  <2>6. ASSUME Revoke \/ SweepExpire \/ (\E c \in Cmd : TtlPasses(c) \/ GracePasses(c))
        PROVE  Goal
    BY <2>6, <2>u DEF Revoke, RevokeLink, RevokeRow, RevokeCommands, SweepExpire,
                      TtlPasses, GracePasses
  <2>7. ASSUME NEW s \in Session,
               \/ Connect(s) \/ RejectHandshake(s) \/ CloseEvent(s)
               \/ CommitOffline(s) \/ HandleAck(s)
        PROVE  Goal
    BY <2>7, <2>u DEF Connect, RejectHandshake, CloseEvent, CommitOffline, HandleAck
  <2>8. ASSUME Crash PROVE Goal BY <1>1, <1>h, <2>8 DEF Crash
  <2>9. ASSUME Boot PROVE Goal BY <2>9, <2>u DEF Boot
  <2>10. QED
    BY <2>1, <2>2, <2>3, <2>4, <2>5, <2>6, <2>7, <2>8, <2>9 DEF Next
<1>2. QED BY <1>1, <1>h DEF FreshSocket, NoDrain

\* One step of the device: it shows what it reads, nothing older is left.
LEMMA ShownStep ==
  ASSUME OrderInv, NewestLive', Next
  PROVE  ShownOrder' /\ \A k \in Superseding : shown'[k] >= shown[k]
<1> DEFINE Ahead(x, s) ==
      /\ \A i \in 1 .. Len(toDevice[s]) : Before(rows', x, toDevice[s][i])
      /\ \A c \in drain[s].batch : Before(rows', x, c)
           Goal == /\ ShownOrder'
                   /\ \A k \in Superseding : shown'[k] >= shown[k]
<1>t. /\ toDevice \in [Session -> Seq(Message)] /\ drain \in [Session -> DrainLoop]
      /\ \A s \in Session : drain[s].batch \in SUBSET Cmd
      /\ shown \in [Superseding -> 0 .. MaxCmd]
      /\ dev \in Session \cup {NoSession} /\ NoSession \notin Session
  BY DEF OrderInv, IInv, TypeOK, DeviceTypeOK, MemoryTypeOK, DrainLoop,
         NoSession, Session
<1>n. \A k \in Superseding : shown[k] \in Nat /\ (shown[k] # 0 => shown[k] \in Cmd)
  BY <1>t, CommandAssumption DEF Cmd
<1>a. /\ \A s \in Session : \A c \in drain[s].batch : rows[c].status # "absent"
      /\ \A s \in Session : \A i \in 1 .. Len(toDevice[s]) :
           toDevice[s][i] \in Cmd => rows[toDevice[s][i]].status # "absent"
  BY DEF OrderInv, IInv, BatchInv, ToDeviceInv
<1>h. ASSUME NEW k \in Superseding, shown[k] # 0
      PROVE  /\ rows'[shown[k]].status # "absent" /\ rows'[shown[k]].kind = k
             /\ dev # NoSession => Ahead(shown[k], dev)
  <2>1. rows[shown[k]].status # "absent" /\ rows[shown[k]].kind = k
    BY <1>h DEF OrderInv, ShownOrder
  <2>2. rows'[shown[k]].status # "absent" /\ rows'[shown[k]].kind = k
    BY <2>1, <1>h, <1>n, RowsKeep DEF OrderInv
  <2>3. ASSUME dev # NoSession PROVE Ahead(shown[k], dev)
    <3>1. dev \in Session BY <2>3, <1>t
    <3>2. QED BY <2>1, <2>3, <3>1, <1>a, <1>h, BeforeKeeps DEF OrderInv, ShownOrder
  <2>4. QED BY <2>2, <2>3
\* The goal, when nothing new is shown.
<1>g. ASSUME UNCHANGED shown,
             \A k \in Superseding : shown[k] # 0 /\ dev' # NoSession =>
               /\ \A i \in 1 .. Len(toDevice'[dev']) :
                    Before(rows', shown[k], toDevice'[dev'][i])
               /\ \A c \in drain'[dev'].batch : Before(rows', shown[k], c)
      PROVE  Goal
  BY <1>g, <1>h, <1>n DEF ShownOrder
<1>1. CASE Still
  <2>1. UNCHANGED <<toDevice, dev, shown>> BY <1>1 DEF Still
  <2>2. dev # NoSession => drain'[dev].batch \subseteq drain[dev].batch
    BY <1>1, <1>t DEF Still
  <2>3. QED BY <2>1, <2>2, <1>h, <1>g
<1>2. ASSUME NEW s \in Session, Connect(s) PROVE Goal
  <2>1. /\ toDevice'[s] = <<>> /\ drain'[s].batch = {}
        /\ UNCHANGED shown /\ dev' = s
    BY <1>2 DEF Connect, OrderInv, FreshSocket
  <2>2. QED BY <2>1, <1>g
<1>3. ASSUME NEW s \in Session, ActivateGreet(s) PROVE Goal
  <2>1. \A x \in Cmd : Before(rows', x, Ready) BY DEF Before, Ready, Cmd
  <2>2. \A u \in Session : drain'[u].batch \subseteq drain[u].batch
    BY <1>3, <1>t DEF ActivateGreet, drainCommands, DrainLoop
  <2>3. \A u \in Session : \A i \in 1 .. Len(toDevice'[u]) :
          \/ i \in 1 .. Len(toDevice[u]) /\ toDevice'[u][i] = toDevice[u][i]
          \/ toDevice'[u][i] = Ready
    <3>1. ASSUME NEW u \in Session
          PROVE  \/ toDevice'[u] = toDevice[u]
                 \/ toDevice'[u] = Append(toDevice[u], Ready)
      BY <1>3, <1>t DEF ActivateGreet
    <3>2. QED BY <3>1, <1>t
  <2>4. UNCHANGED <<dev, shown>> BY <1>3 DEF ActivateGreet
  <2>5. ASSUME NEW k \in Superseding, shown[k] # 0, dev # NoSession
        PROVE  /\ \A i \in 1 .. Len(toDevice'[dev]) :
                    Before(rows', shown[k], toDevice'[dev][i])
               /\ \A c \in drain'[dev].batch : Before(rows', shown[k], c)
    <3>1. dev \in Session /\ shown[k] \in Cmd BY <2>5, <1>t, <1>n
    <3>2. Ahead(shown[k], dev) BY <2>5, <1>h
    <3>3. \A c \in drain'[dev].batch : Before(rows', shown[k], c)
      BY <3>1, <3>2, <2>2
    <3>4. \A i \in 1 .. Len(toDevice'[dev]) :
             Before(rows', shown[k], toDevice'[dev][i])
      BY <3>1, <3>2, <2>1, <2>3
    <3>5. QED BY <3>3, <3>4
  <2>6. QED BY <2>4, <2>5, <1>g
<1>4. ASSUME NEW s \in Session, DrainSelect(s) PROVE Goal
  <2>1. UNCHANGED <<toDevice, dev, shown>> BY <1>4 DEF DrainSelect
  <2>2. /\ \A u \in Session : u # s => drain'[u] = drain[u]
        /\ \A c \in drain'[s].batch : \A d \in Cmd :
             rows'[d].status # "absent" => Before(rows', d, c)
    BY <1>4, SnapshotIsNewest DEF OrderInv
  <2>3. QED BY <2>1, <2>2, <1>g, <1>h, <1>n, <1>t
<1>5. ASSUME NEW s \in Session, DrainSend(s) PROVE Goal
  <2> DEFINE m == First(drain[s].batch)
  <2>1. /\ m \in drain[s].batch
        /\ \A u \in Session : drain'[u].batch \subseteq drain[u].batch
    BY <1>5, SendLemma DEF OrderInv
  <2>2. UNCHANGED <<dev, shown>> BY <1>5 DEF DrainSend
  <2>3. ASSUME NEW u \in Session
        PROVE  \/ toDevice'[u] = toDevice[u]
               \/ u = s /\ toDevice'[u] = Append(toDevice[u], m)
    BY <1>5, <1>t DEF DrainSend
  <2> HIDE DEF m
  <2>4. \A u \in Session : \A i \in 1 .. Len(toDevice'[u]) :
          \/ i \in 1 .. Len(toDevice[u]) /\ toDevice'[u][i] = toDevice[u][i]
          \/ toDevice'[u][i] \in drain[u].batch
    <3>1. ASSUME NEW u \in Session, NEW i \in 1 .. Len(toDevice'[u]),
                 u = s, toDevice'[u] = Append(toDevice[u], m)
          PROVE  \/ i \in 1 .. Len(toDevice[u]) /\ toDevice'[u][i] = toDevice[u][i]
                 \/ toDevice'[u][i] = m
      <4>1. toDevice[u] \in Seq(Message) BY <1>t
      <4> HIDE <1>t
      <4>2. QED BY <3>1, <4>1
    <3>2. QED BY <3>1, <2>1, <2>3
  <2>5. QED BY <2>1, <2>2, <2>4, <1>g, <1>h, <1>t
<1>6. ASSUME NEW s \in Session, DeviceRead(s) PROVE Goal
  <2> DEFINE m == Head(toDevice[s])
  <2>1. /\ toDevice[s] \in Seq(Message) /\ toDevice[s] # <<>>
        /\ dev = s /\ dev' = s /\ UNCHANGED <<drain, rows>>
        /\ toDevice'[s] = Tail(toDevice[s]) /\ dev # NoSession
    BY <1>6, <1>t DEF DeviceRead
  <2>2. \A i \in 1 .. Len(toDevice'[s]) :
          i + 1 \in 1 .. Len(toDevice[s]) /\ toDevice'[s][i] = toDevice[s][i + 1]
    BY <2>1
  <2>3. 1 \in 1 .. Len(toDevice[s]) /\ m = toDevice[s][1] /\ m \in Message
    BY <2>1
  <2> HIDE DEF m
  <2>4. CASE UNCHANGED shown
    BY <2>1, <2>2, <2>4, <1>g, <1>h
  <2>5. CASE ~UNCHANGED shown
    <3>1. /\ m \in Cmd /\ rows[m].kind \in Superseding
          /\ shown' = [shown EXCEPT ![rows[m].kind] = m]
      BY <1>6, <2>3, <2>5 DEF DeviceRead, m, Message
    <3> DEFINE K == rows[m].kind
    <3>2. rows[m].status # "absent" /\ m \in Nat /\ m # 0
      BY <2>3, <3>1, <1>a DEF Cmd
    <3>3. /\ \A i \in 1 .. Len(toDevice'[s]) : Before(rows', m, toDevice'[s][i])
          /\ \A c \in drain[s].batch : Before(rows', m, c)
      <4>1. /\ \A j \in 1 .. Len(toDevice[s]) : Before(rows, m, toDevice[s][j])
            /\ \A c \in drain[s].batch : Before(rows, m, c)
        BY <2>1, <2>3 DEF OrderInv, WireOrder
      <4>2. QED BY <4>1, <2>1, <2>2
    <3>4. m >= shown[K]
      <4>1. CASE shown[K] = 0 BY <4>1, <3>2
      <4>2. CASE shown[K] # 0
        <5>1. Before(rows', shown[K], m) BY <4>2, <3>1, <2>1, <2>3, <1>h
        <5>2. rows'[shown[K]].kind = K /\ shown[K] \in Cmd
          BY <4>2, <3>1, <1>h, <1>n
        <5>3. shown[K] <= m BY <5>1, <5>2, <3>1, <2>1 DEF Before
        <5>4. QED BY <5>3, <3>2, <3>1, <1>n
      <4>3. QED BY <4>1, <4>2
    <3>5. ASSUME NEW k \in Superseding PROVE shown'[k] >= shown[k]
      BY <3>1, <3>4, <1>t, <1>n
    <3>6. ASSUME NEW k \in Superseding, shown'[k] # 0
          PROVE  /\ rows'[shown'[k]].status # "absent" /\ rows'[shown'[k]].kind = k
                 /\ \A i \in 1 .. Len(toDevice'[s]) :
                      Before(rows', shown'[k], toDevice'[s][i])
                 /\ \A c \in drain'[s].batch : Before(rows', shown'[k], c)
      <4>1. CASE k = K BY <4>1, <3>1, <3>2, <3>3, <2>1, <1>t
      <4>2. CASE k # K
        <5>1. shown'[k] = shown[k] BY <4>2, <3>1, <1>t
        <5>2. QED BY <5>1, <3>6, <2>1, <2>2, <1>h
      <4>3. QED BY <4>1, <4>2
    <3>7. QED BY <3>5, <3>6, <2>1 DEF ShownOrder
  <2>6. QED BY <2>4, <2>5
<1>7. ASSUME NEW s \in Session, DeviceLeave(s) PROVE Goal
  BY <1>7, <1>g DEF DeviceLeave
<1>8. QED
  BY <1>1, <1>2, <1>3, <1>4, <1>5, <1>6, <1>7, WireMoves DEF OrderInv, IInv

-----------------------------------------------------------------------------
(* The theorem.                                                            *)

\* The invariant holds when the hub starts.
LEMMA OrderInvInit == ASSUME Init PROVE OrderInv
<1>1. IInv BY IInvInit
<1>2. NewestLive BY EmptyTableLemma DEF Init, NewestLive, Live
<1>3. NoneLive BY DEF Init, NoneLive, NoRequest
<1>4. FreshSocket /\ WireOrder BY DEF Init, FreshSocket, WireOrder, NoDrain
<1>5. ShownOrder BY DEF Init, ShownOrder
<1>6. QED BY <1>1, <1>2, <1>3, <1>4, <1>5 DEF OrderInv

\* The invariant is inductive.
LEMMA OrderInvStep ==
  ASSUME OneWriter, OrderInv, [Next]_vars PROVE OrderInv'
<1>1. IInv' BY IInvStep DEF OrderInv
<1>2. CASE Next
  BY <1>1, <1>2, NewestLiveStep, NoneLiveStep, FreshSocketStep, WireOrderStep,
     ShownStep DEF OrderInv
<1>3. CASE UNCHANGED vars
  BY <1>1, <1>3 DEF OrderInv, NewestLive, NoneLive, FreshSocket, WireOrder,
                    ShownOrder, Before, vars
<1>4. QED BY <1>2, <1>3

\* While one request at a time queues commands, the device never goes back to
\* an older payload of a type whose route supersedes, whatever sessions break,
\* crash, overlap or redeliver.
THEOREM NeverRollBackTheorem == OneWriter /\ Spec => NeverRollBack
<1>1. ASSUME OneWriter, OrderInv, [Next]_vars
      PROVE  [\A k \in Superseding : shown'[k] >= shown[k]]_vars
  BY <1>1, NewestLiveStep, ShownStep
<1>2. ASSUME OneWriter PROVE Spec => NeverRollBack
  <2>1. Init => OrderInv BY OrderInvInit
  <2>2. OrderInv /\ [Next]_vars => OrderInv' BY <1>2, OrderInvStep
  <2>3. OrderInv /\ [Next]_vars
          => [\A k \in Superseding : shown'[k] >= shown[k]]_vars
    BY <1>1, <1>2
  <2>4. QED BY <2>1, <2>2, <2>3, PTL DEF Spec, NeverRollBack
<1>3. QED BY <1>2

-----------------------------------------------------------------------------
(* Superseded rows.  A row is dropped as superseded by a request that will  *)
(* insert a newer command of its type, or by a redelivery that found one.   *)

\* u marks as superseded only live rows of t with a newer live row of their type.
Justified(t, u) ==
  \A c \in Cmd : u[c].error = "superseded" =>
    \/ t[c].error = "superseded"
    \/ /\ t[c].status \in Live
       /\ \E d \in Cmd : /\ d > c /\ t[d].kind = t[c].kind
                        /\ t[d].status \in Live

\* An UPDATE to expired for another reason supersedes nothing.
LEMMA ExpireJustified ==
  ASSUME NEW t \in Table, NEW which, NEW error \in {"none", "frame_revoked"}
  PROVE  Justified(t, Expire(t, which, error))
<1>1. ASSUME NEW c \in Cmd PROVE Reset(t[c], "expired", error).error = error
  BY DEF Reset, Table, Row
<1>2. QED BY <1>1 DEF Expire, Justified

\* The first statement of redeliverSentCommands asks for the newer row.
LEMMA DropJustified ==
  ASSUME NEW t \in Table, NEW lost,
         \A c \in Cmd : c \in lost => t[c].status = "sent"
  PROVE  Justified(t, dropOutdated(t, lost))
BY DEF dropOutdated, Expire, Justified, Live

\* The second statement, the mark after a send, the device's verdict and the
\* clocks leave the reason of a drop alone, or replace it.
LEMMA OthersJustified ==
  ASSUME NEW t \in Table, NEW c \in Cmd
  PROVE  /\ \A lost : Justified(t, requeueLost(t, lost))
         /\ \A stamp : Justified(t, markSent(t, c, stamp))
         /\ \A ok \in BOOLEAN : Justified(t, settleAck(t, c, ok))
         /\ Justified(t, passTtl(t, c)) /\ Justified(t, passGrace(t, c))
<1>1. ASSUME NEW d \in Cmd, NEW status, NEW error
      PROVE  Reset(t[d], status, error).error = error
  BY DEF Reset, Table, Row
<1>2. ASSUME NEW d \in Cmd
      PROVE  /\ [t[d] EXCEPT !.status = "pending", !.sentAt = 0,
                             !.overdue = FALSE].error = t[d].error
             /\ [t[d] EXCEPT !.due = TRUE].error = t[d].error
             /\ [t[d] EXCEPT !.overdue = TRUE].error = t[d].error
             /\ \A stamp : [t[d] EXCEPT !.status = "sent", !.sentAt = stamp,
                                        !.overdue = FALSE].error = t[d].error
  BY DEF Table, Row
<1>3. \A lost : Justified(t, requeueLost(t, lost))
  BY <1>2 DEF requeueLost, Justified
<1>4. ASSUME NEW stamp PROVE Justified(t, markSent(t, c, stamp))
  <2> DEFINE row == [t[c] EXCEPT !.status = "sent", !.sentAt = stamp,
                                 !.overdue = FALSE]
  <2>1. row.error = t[c].error BY <1>2
  <2>2. markSent(t, c, stamp) = IF t[c].status = "pending"
                                THEN [t EXCEPT ![c] = row] ELSE t
    BY DEF markSent, Table
  <2> HIDE DEF row
  <2>3. QED BY <2>1, <2>2 DEF Justified, Table
<1>5. ASSUME NEW ok \in BOOLEAN PROVE Justified(t, settleAck(t, c, ok))
  BY <1>1 DEF settleAck, Justified, Table
<1>6. Justified(t, passTtl(t, c)) /\ Justified(t, passGrace(t, c))
  <2>1. /\ passTtl(t, c) = [t EXCEPT ![c] = [t[c] EXCEPT !.due = TRUE]]
        /\ passGrace(t, c) = [t EXCEPT ![c] = [t[c] EXCEPT !.overdue = TRUE]]
    BY DEF passTtl, passGrace, Table
  <2>2. QED BY <2>1, <1>2 DEF Justified, Table
<1>7. QED BY <1>3, <1>4, <1>5, <1>6

\* Every step is justified, or is the supersede of a request, or inserts.
LEMMA JustifiedStep ==
  ASSUME IInv, Next
  PROVE  \/ Justified(rows, rows')
         \/ \E r \in Request : RequestSupersede(r) \/ RequestInsert(r)
<1> DEFINE Goal == \/ Justified(rows, rows')
                   \/ \E r \in Request : RequestSupersede(r) \/ RequestInsert(r)
<1>t. rows \in Table /\ TypeOK /\ BatchInv BY DEF IInv, TypeOK, DatabaseTypeOK
<1>u. ASSUME UNCHANGED rows PROVE Goal BY <1>u DEF Justified
<1>e. Justified(rows, expireStaleCommands(rows))
  BY <1>t, ExpireJustified DEF expireStaleCommands
<1>1. ASSUME NEW s \in Session, Activation(s) PROVE Goal
  <2>1. CASE ActivateQueue(s)
    <3>1. CASE rows' = dropOutdated(expireStaleCommands(rows),
                         SentBefore(expireStaleCommands(rows), cutoff[s]))
      <4> DEFINE t == expireStaleCommands(rows)
      <4>1. Housekeeping(rows, t) BY <1>t, ExpireStaleIsHousekeeping
      <4>2. t \in Table BY <4>1 DEF Housekeeping
      <4>3. Justified(rows, t) BY <1>e
      <4> HIDE DEF t
      <4>4. Justified(t, dropOutdated(t, SentBefore(t, cutoff[s])))
        BY <4>2, DropJustified DEF SentBefore
      <4>5. \A c \in Cmd : t[c].kind = rows[c].kind
                             /\ (t[c].status \in Live => rows[c].status \in Live)
        BY <4>1 DEF Housekeeping
      <4>6. rows' = dropOutdated(t, SentBefore(t, cutoff[s])) BY <3>1 DEF t
      <4>7. QED BY <4>3, <4>4, <4>5, <4>6 DEF Justified
    <3>2. CASE rows' = requeueLost(rows, SentBefore(rows, cutoff[s]))
      <4>1. \A c \in Cmd : Justified(rows, rows') BY <1>t, <3>2, OthersJustified
      <4>2. QED BY <4>1 DEF Justified
    <3>3. QED BY <3>1, <3>2, <2>1 DEF ActivateQueue
  <2>2. CASE ~ActivateQueue(s)
    BY <1>1, <1>u, <2>2
    DEF Activation, Authenticate, ActivateCheck, ActivateClaim, ActivateOnline,
        ActivateGreet, ActivateFinish
  <2>3. QED BY <2>1, <2>2
<1>2. ASSUME NEW s \in Session, Drain(s) PROVE Goal
  <2>1. CASE DrainSelect(s) BY <1>e, <2>1 DEF DrainSelect
  <2>2. CASE DrainSend(s) BY <1>u, <2>2 DEF DrainSend
  <2>3. CASE DrainMark(s)
    <3>1. drain[s] \in DrainLoop BY <1>t DEF TypeOK, MemoryTypeOK
    <3>2. drain[s].batch \in SUBSET Cmd BY <3>1 DEF DrainLoop
    <3>3. drain[s].batch # {} BY <1>t, <2>3 DEF DrainMark, DrainStep, BatchInv
    <3>4. First(drain[s].batch) \in Cmd BY <3>2, <3>3, FirstLemma
    <3>5. rows' = markSent(rows, First(drain[s].batch), drain[s].stamp)
      BY <2>3 DEF DrainMark
    <3>6. QED BY <1>t, <3>4, <3>5, OthersJustified
  <2>4. QED BY <1>2, <2>1, <2>2, <2>3 DEF Drain
<1>3. ASSUME NEW w \in Waker, Wake(w) PROVE Goal
  <2>1. CASE WakeOutdated(w)
    BY <1>t, <2>1, DropJustified DEF WakeOutdated, SentTooLongAgo
  <2>2. CASE WakeRequeue(w)
    <3>1. \A c \in Cmd : Justified(rows, rows')
      BY <1>t, <2>2, OthersJustified DEF WakeRequeue
    <3>2. QED BY <3>1 DEF Justified
  <2>3. CASE WakeStart(w) \/ WakeCheck(w) \/ WakeKick(w)
    BY <1>u, <2>3 DEF WakeStart, WakeCheck, WakeKick
  <2>4. QED BY <1>3, <2>1, <2>2, <2>3 DEF Wake
<1>4. ASSUME NEW r \in Request, Requests(r) PROVE Goal
  BY <1>4, <1>u DEF Requests, RequestStart, RequestAbort
<1>5. ASSUME Revoke PROVE Goal
  BY <1>5, <1>t, <1>u, ExpireJustified
  DEF Revoke, RevokeLink, RevokeRow, RevokeCommands, expireRevoked
<1>6. ASSUME SweepExpire PROVE Goal BY <1>6, <1>e DEF SweepExpire
<1>7. ASSUME NEW c \in Cmd, TtlPasses(c) \/ GracePasses(c) PROVE Goal
  BY <1>7, <1>t, OthersJustified DEF TtlPasses, GracePasses
<1>8. ASSUME NEW s \in Session, HandleAck(s) PROVE Goal
  <2>1. /\ Head(toHub[s]).cmd \in Cmd /\ Head(toHub[s]).ok \in BOOLEAN
        /\ rows' = settleAck(rows, Head(toHub[s]).cmd, Head(toHub[s]).ok)
    BY <1>t, <1>8, AckStep DEF Ack
  <2>2. QED BY <1>t, <2>1, OthersJustified
<1>9. ASSUME NEW s \in Session,
             \/ Connect(s) \/ RejectHandshake(s) \/ CloseEvent(s)
             \/ CommitOffline(s) \/ DeviceRead(s) \/ DeviceLeave(s)
      PROVE  Goal
  <2>1. CASE Connect(s) \/ RejectHandshake(s)
    BY <2>1, <1>u DEF Connect, RejectHandshake
  <2>2. CASE CloseEvent(s) \/ CommitOffline(s)
    BY <2>2, <1>u DEF CloseEvent, CommitOffline
  <2>3. CASE DeviceRead(s) \/ DeviceLeave(s)
    BY <2>3, <1>u DEF DeviceRead, DeviceLeave
  <2>4. QED BY <1>9, <2>1, <2>2, <2>3
<1>10. ASSUME Crash \/ Boot PROVE Goal BY <1>10, <1>u DEF Crash, Boot
<1>11. QED
  BY <1>1, <1>2, <1>3, <1>4, <1>5, <1>6, <1>7, <1>8, <1>9, <1>10 DEF Next

\* SupersededHasSuccessor, and that successor and row were queued.
Replaced(c) ==
  \/ \E d \in Cmd : c < d /\ d <= queued /\ rows[d].kind = rows[c].kind
  \/ \E r \in Request : request[r].pc = "insert"
                        /\ request[r].kind = rows[c].kind

DroppedIsReplaced ==
  \A c \in Cmd : rows[c].error = "superseded" => c <= queued /\ Replaced(c)

SuccessorInv == IInv /\ DroppedIsReplaced

\* A request that is about to insert stays so until it has: none dies.
LEMMA RequestMoves ==
  ASSUME MaxAborts = 0, TypeOK, Next, NEW r \in Request, request[r].pc = "insert"
  PROVE  request'[r] = request[r] \/ RequestInsert(r)
<1>1. aborts \in Nat /\ request \in [Request -> WebRequest]
  BY DEF TypeOK, WebTypeOK
<1>2. ASSUME NEW q \in Request, Requests(q)
      PROVE  request'[r] = request[r] \/ RequestInsert(r)
  BY <1>1, <1>2 DEF Requests, RequestStart, RequestSupersede, RequestInsert,
                    RequestAbort
<1>3. CASE ~(\E q \in Request : Requests(q))
  BY <1>3, RequestsMove
<1>4. QED BY <1>2, <1>3

\* A replaced row stays replaced while no request dies half way.
LEMMA ReplacedStays ==
  ASSUME MaxAborts = 0, IInv, Next, NEW c \in Cmd, c <= queued, Replaced(c)
  PROVE  Replaced(c)'
<1>t. /\ TypeOK /\ queued \in Nat /\ Cmd \subseteq Nat
  BY CommandAssumption DEF IInv, TypeOK, WebTypeOK, Cmd
<1>k. \A d \in Cmd : d <= queued => rows'[d].kind = rows[d].kind
  <2>1. \A d \in Cmd : d <= queued => rows[d].status # "absent"
    <3>1. QueueInv BY DEF IInv
    <3>2. QED BY <3>1, <1>t DEF QueueInv
  <2>2. QED BY <2>1, RowsKeep
<1>q. queued' = queued \/ queued' = queued + 1
  <2>1. ASSUME NEW s \in Session, HandleAck(s) PROVE queued' = queued
    BY <2>1 DEF HandleAck, web
  <2>2. QED BY <2>1, <1>t, RowsStep, InsertStep DEF IInv
<1>1. CASE \E d \in Cmd : c < d /\ d <= queued /\ rows[d].kind = rows[c].kind
  BY <1>1, <1>k, <1>q, <1>t DEF Replaced
<1>2. ASSUME NEW r \in Request, request[r].pc = "insert",
             request[r].kind = rows[c].kind
      PROVE  Replaced(c)'
  <2>1. CASE RequestInsert(r)
    BY <2>1, <1>2, <1>k, <1>t, InsertStep DEF Replaced
  <2>2. CASE request'[r] = request[r] BY <2>2, <1>2, <1>k DEF Replaced
  <2>3. QED BY <2>1, <2>2, <1>2, <1>t, RequestMoves
<1>3. QED BY <1>1, <1>2 DEF Replaced

\* The invariant is inductive while no request dies half way.
LEMMA SuccessorStep ==
  ASSUME MaxAborts = 0, SuccessorInv, Next PROVE SuccessorInv'
<1>1. IInv' BY IInvStep DEF SuccessorInv
<1>t. /\ IInv /\ TypeOK /\ DroppedIsReplaced /\ rows \in Table
      /\ queued \in Nat /\ Cmd \subseteq Nat
  BY CommandAssumption DEF SuccessorInv, IInv, TypeOK, WebTypeOK,
                           DatabaseTypeOK, Cmd
<1>q. queued' \in Nat /\ queued <= queued'
  <2>1. ASSUME NEW s \in Session, HandleAck(s) PROVE queued' = queued
    BY <2>1 DEF HandleAck, web
  <2>2. QED BY <2>1, <1>t, RowsStep, InsertStep DEF IInv
<1>o. ASSUME NEW c \in Cmd, rows[c].error = "superseded"
      PROVE  c <= queued' /\ Replaced(c)'
  BY <1>o, <1>q, <1>t, ReplacedStays DEF DroppedIsReplaced
<1>2. ASSUME NEW r \in Request, RequestInsert(r) PROVE DroppedIsReplaced'
  <2>1. /\ queued + 1 \in Cmd
        /\ \A d \in Cmd : d # queued + 1 => rows'[d] = rows[d]
    BY <1>2, <1>t, InsertStep
  <2>2. rows'[queued + 1].error = "none"
    BY <1>2, <2>1, <1>t DEF RequestInsert, enqueueFrameCommand, AbsentRow, Table
  <2>3. \A c \in Cmd : rows'[c].error = "superseded" => rows[c].error = "superseded"
    BY <2>1, <2>2
  <2>4. QED BY <2>3, <1>o DEF DroppedIsReplaced
<1>3. ASSUME NEW r \in Request, RequestSupersede(r) PROVE DroppedIsReplaced'
  <2>1. /\ rows' = supersedePendingCommands(rows, request[r].kind)
        /\ request'[r].pc = "insert" /\ request'[r].kind = request[r].kind
        /\ queued' = queued
    BY <1>3, <1>t DEF RequestSupersede, TypeOK, WebTypeOK, WebRequest
  <2>2. ASSUME NEW c \in Cmd, rows'[c].error = "superseded",
               rows[c].error # "superseded"
        PROVE  c <= queued' /\ Replaced(c)'
    <3>1. rows[c].kind = request[r].kind /\ rows[c].status \in Live
      BY <2>1, <2>2 DEF supersedePendingCommands, Expire
    <3>2. c <= queued BY <3>1, <1>t DEF IInv, QueueInv, Live
    <3>3. rows'[c].kind = rows[c].kind
      BY <3>1, <1>t, RowsKeep DEF Live
    <3>4. QED BY <2>1, <3>1, <3>2, <3>3 DEF Replaced
  <2>3. QED BY <2>2, <1>o DEF DroppedIsReplaced
<1>4. ASSUME Justified(rows, rows') PROVE DroppedIsReplaced'
  <2>1. ASSUME NEW c \in Cmd, rows[c].status \in Live, NEW d \in Cmd, d > c,
               rows[d].kind = rows[c].kind, rows[d].status \in Live
        PROVE  c <= queued' /\ Replaced(c)'
    <3>1. c <= queued /\ d <= queued BY <2>1, <1>t DEF IInv, QueueInv, Live
    <3>2. Replaced(c) BY <2>1, <3>1, <1>t DEF Replaced
    <3>3. QED BY <3>1, <3>2, <1>q, <1>t, ReplacedStays
  <2>2. QED BY <1>4, <2>1, <1>o DEF Justified, DroppedIsReplaced
<1>5. QED BY <1>1, <1>2, <1>3, <1>4, <1>t, JustifiedStep DEF SuccessorInv

\* A row dropped as superseded has a newer row of its type, or its request is
\* about to insert one, for as long as no request dies between its two
\* statements: no redelivery drops the last one of a type.
THEOREM SuccessorTheorem == MaxAborts = 0 /\ Spec => []SupersededHasSuccessor
<1>1. ASSUME Init PROVE SuccessorInv
  BY <1>1, IInvInit DEF Init, SuccessorInv, DroppedIsReplaced, EmptyTable,
                        AbsentRow
<1>2. ASSUME MaxAborts = 0 PROVE SuccessorInv /\ [Next]_vars => SuccessorInv'
  <2>1. ASSUME SuccessorInv, UNCHANGED vars PROVE SuccessorInv'
    <3>1. IInv' BY <2>1, IInvStep DEF SuccessorInv
    <3>2. QED BY <2>1, <3>1 DEF SuccessorInv, DroppedIsReplaced, Replaced, vars
  <2>2. QED BY <1>2, <2>1, SuccessorStep
<1>3. SuccessorInv => SupersededHasSuccessor
  BY CommandAssumption
  DEF SuccessorInv, DroppedIsReplaced, Replaced, SupersededHasSuccessor, Cmd
<1>4. ASSUME MaxAborts = 0 PROVE Spec => []SupersededHasSuccessor
  BY <1>1, <1>2, <1>3, <1>4, PTL DEF Spec
<1>5. QED BY <1>4
=============================================================================
