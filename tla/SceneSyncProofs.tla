-------------------------- MODULE SceneSyncProofs ---------------------------
(***************************************************************************)
(* Proofs about SceneSync, for every number of scenes, requests, commands, *)
(* sessions and faults: the types, and that the frames page tells the      *)
(* truth once everything has settled.                                      *)
(*                                                                         *)
(* The page compares two columns, so the proof has two halves that do not  *)
(* meet before the end.  On the web side, assigned_checksum is the digest  *)
(* of the assignments, or a request that will write it is between its      *)
(* COMMIT and its UPDATE (AssignOK).  On the device's side, the last       *)
(* report under way, or the column if there is none, is what the device    *)
(* has (ReportOK).                                                         *)
(***************************************************************************)
EXTENDS SceneSync, CommandRowsProofs, FiniteSetTheorems, SequenceTheorems

Assigning(r) == InProgress(r) /\ request[r].kind = "assign"

\* Only assignments have a transaction, and a digest to write after it.
KindOK ==
  \A r \in Request :
    request[r].pc \in InTransaction \cup {"update"} => request[r].kind = "assign"

\* Assignments come one after the other, what one pushes is what it committed,
\* and the column says so or is about to.
AssignOK ==
  ~torn =>
    /\ \A q, r \in Request : Assigning(q) /\ Assigning(r) => q = r
    /\ \A r \in Request :
         /\ request[r].pc = "commit" =>
              request[r].sum
                = ScenesOf(assignments \ request[r].gone) \cup request[r].ask
         /\ request[r].pc = "update" => request[r].sum = ScenesOf(assignments)
    /\ \/ \E r \in Request : request[r].pc = "update"
       \/ assigned = ScenesOf(assignments)
       \/ assigned = Unset

\* A session that was activated has passed its claim.
Activated == {s \in Session : step[s] \notin {"unused", "hello", "lost"}}

\* No more activations than activated sessions, so the count is one of Epochs.
EpochOK == epoch <= Cardinality(Activated)

\* Sockets are used in order, the device uses the latest, and nothing crosses a
\* socket before `ready`.
SessionOK ==
  /\ \A s, t \in Session : s < t /\ step[s] = "unused" => step[t] = "unused"
  /\ \A s \in Session :
       step[s] # "ready" => toDevice[s] = <<>> /\ toHub[s] = <<>>
  /\ dev # NoSession =>
       /\ step[dev] \notin {"unused", "lost"}
       /\ \A t \in Session : t > dev => step[t] = "unused"

\* The last report in q, or else the column r, is x.
Latest(q, r, x) ==
  \/ \E i \in 1 .. Len(q) : q[i] = Report(x)
                            /\ \A j \in 1 .. Len(q) : j > i => q[j].type = "ack"
  \/ r = x /\ \A j \in 1 .. Len(q) : q[j].type = "ack"

\* What the hub has been told of the device, or is about to be, is true.
ReportOK ==
  ~overtaken /\ dev # NoSession =>
    /\ step[dev] \in {"hello", "report"} => hello[dev] = applied
    /\ step[dev] \in Claimed \ {"report"} =>
         Latest(toHub[dev], reported, applied)

Inv == TypeOK /\ KindOK /\ AssignOK /\ EpochOK /\ SessionOK /\ ReportOK

USE DEF database, hub, device, history, budgets

-----------------------------------------------------------------------------
(* Types.                                                                  *)

\* Sets of scenes are checksums, and so is "never written".
LEMMA SumLemma ==
  /\ Payload \subseteq Checksum /\ Unset \in Checksum
  /\ \A which \in SUBSET Assignment : ScenesOf(which) \in Payload
  /\ \A r \in Request, ask \in Payload : RowsFor(r, ask) \in SUBSET Assignment
BY DEF Payload, Checksum, ScenesOf, RowsFor, Assignment

\* Appending to a sequence; what the device sends at once, it sends in order.
LEMMA AppendLemma ==
  ASSUME NEW M, NEW q \in Seq(M), NEW a \in M
  PROVE  Append(q, a) \in Seq(M)
OBVIOUS

LEMMA PairLemma ==
  ASSUME NEW M, NEW q \in Seq(M), NEW a \in M, NEW b \in M
  PROVE  q \o <<a, b>> = Append(Append(q, a), b)
<1>1. <<a, b>> \in Seq(M) /\ Len(<<a, b>>) = 2 OBVIOUS
<1>2. Append(q, a) \in Seq(M) /\ Append(Append(q, a), b) \in Seq(M) OBVIOUS
<1>3. q \o <<a, b>> \in Seq(M) /\ Len(q \o <<a, b>>) = Len(q) + 2 BY <1>1
<1>4. Len(Append(Append(q, a), b)) = Len(q) + 2 BY <1>2
<1>5. ASSUME NEW i \in 1 .. Len(q) + 2
      PROVE  (q \o <<a, b>>)[i] = Append(Append(q, a), b)[i]
  <2>1. CASE i \in 1 .. Len(q) BY <2>1, <1>1, <1>2
  <2>2. CASE i = Len(q) + 1 BY <2>2, <1>1, <1>2
  <2>3. CASE i = Len(q) + 2 BY <2>3, <1>1, <1>2
  <2>4. QED BY <2>1, <2>2, <2>3, <1>1
<1>6. QED BY <1>2, <1>3, <1>4, <1>5, SeqEqual

\* A request keeps its type when its fields are set to values of theirs.
LEMMA RequestLemma ==
  ASSUME NEW q \in WebRequest,
         NEW pc \in {"idle", "done"} \cup InTransaction \cup AfterCommit
  PROVE  /\ [q EXCEPT !.pc = pc] \in WebRequest
         /\ \A gone \in SUBSET Assignment :
              [q EXCEPT !.pc = pc, !.gone = gone] \in WebRequest
         /\ \A sum \in Checksum : [q EXCEPT !.pc = pc, !.sum = sum] \in WebRequest
BY DEF WebRequest

\* The requests keep their type.
LEMMA RequestType ==
  ASSUME TypeOK, NEW r \in Request,
         \/ \E ask \in Asks : AssignBegin(r, ask) \/ PreviewBegin(r, ask)
         \/ RequestStep(r) \/ AssignRollback(r) \/ RequestAbort(r)
  PROVE  request' \in [Request -> WebRequest]
<1>t. request \in [Request -> WebRequest] /\ assignments \in SUBSET Assignment
  BY DEF TypeOK
<1>r. request[r] \in WebRequest BY <1>t
<1>g. ASSUME NEW q \in WebRequest, request' = [request EXCEPT ![r] = q]
      PROVE  request' \in [Request -> WebRequest]
  BY <1>g, <1>t
<1>p. ASSUME NEW pc \in {"idle", "done"} \cup InTransaction \cup AfterCommit,
             request' = [request EXCEPT ![r].pc = pc]
      PROVE  request' \in [Request -> WebRequest]
  BY <1>p, <1>g, <1>r, RequestLemma
<1> USE DEF InTransaction, AfterCommit
<1>1. ASSUME NEW ask \in Asks, AssignBegin(r, ask)
      PROVE  request' \in [Request -> WebRequest]
  <2>1. [pc |-> "delete", kind |-> "assign", ask |-> ask, gone |-> assignments,
         sum |-> Unset] \in WebRequest
    BY <1>t, SumLemma, SyncAssumption DEF WebRequest, Payload
  <2>2. QED BY <1>1, <2>1, <1>g DEF AssignBegin
<1>2. ASSUME NEW ask \in Asks, PreviewBegin(r, ask)
      PROVE  request' \in [Request -> WebRequest]
  <2>1. [pc |-> "supersede", kind |-> "preview", ask |-> {}, gone |-> {},
         sum |-> ask] \in WebRequest
    BY SumLemma, SyncAssumption DEF WebRequest, Payload
  <2>2. QED BY <1>2, <2>1, <1>g DEF PreviewBegin
<1>3. CASE AssignDelete(r)
  <2>1. request[r].gone \cap assignments \in SUBSET Assignment BY <1>t
  <2>2. [request[r] EXCEPT !.pc = "insert", !.gone = @ \cap assignments] \in WebRequest
    BY <2>1, <1>r, RequestLemma
  <2>3. QED BY <1>3, <2>2, <1>g DEF AssignDelete
<1>4. CASE AssignBuild(r)
  <2> DEFINE sum == ScenesOf(assignments \ request[r].gone) \cup request[r].ask
  <2>1. request[r].ask \in Payload BY <1>r DEF WebRequest
  <2>2. sum \in Checksum BY <2>1, <1>t, SumLemma DEF Payload
  <2> HIDE DEF sum
  <2>3. [request[r] EXCEPT !.pc = "commit", !.sum = sum] \in WebRequest
    BY <2>2, <1>r, RequestLemma
  <2>4. QED BY <1>4, <2>3, <1>g DEF AssignBuild, sum
<1>5. CASE \/ AssignInsert(r) \/ AssignCommit(r) \/ AssignUpdate(r)
           \/ RequestSupersede(r) \/ RequestPush(r) \/ AssignRollback(r)
           \/ RequestAbort(r)
  BY <1>5, <1>p DEF AssignInsert, AssignCommit, AssignUpdate, RequestSupersede,
                    RequestPush, AssignRollback, RequestAbort, At
<1>6. QED BY <1>1, <1>2, <1>3, <1>4, <1>5 DEF RequestStep

\* The columns, the queue and the history keep their types when a request moves.
LEMMA WebType ==
  ASSUME TypeOK, NEW r \in Request,
         \/ \E ask \in Asks : AssignBegin(r, ask) \/ PreviewBegin(r, ask)
         \/ RequestStep(r) \/ AssignRollback(r) \/ RequestAbort(r)
  PROVE  TypeOK'
<1>t. /\ request \in [Request -> WebRequest] /\ assignments \in SUBSET Assignment
      /\ rows \in Table /\ payload \in [Cmd -> Checksum] /\ queued \in 0 .. MaxCmd
      /\ request[r] \in WebRequest /\ faults \in Nat
  BY DEF TypeOK
<1>r. request' \in [Request -> WebRequest] BY RequestType
<1>s. request[r].sum \in Checksum /\ request[r].ask \in Payload
  BY <1>t DEF WebRequest
<1>1. ASSUME NEW ask \in Asks, AssignBegin(r, ask) PROVE TypeOK'
  BY <1>1, <1>r DEF AssignBegin, TypeOK
<1>2. ASSUME NEW ask \in Asks, PreviewBegin(r, ask) PROVE TypeOK'
  BY <1>2, <1>r DEF PreviewBegin, TypeOK
<1>3. CASE AssignDelete(r) \/ AssignInsert(r) \/ AssignBuild(r) \/ AssignRollback(r)
  BY <1>3, <1>r DEF AssignDelete, AssignInsert, AssignBuild, AssignRollback, TypeOK
<1>4. CASE AssignCommit(r)
  <2>1. assignments' \in SUBSET Assignment
    BY <1>4, <1>t, <1>s, SumLemma DEF AssignCommit
  <2>2. QED BY <1>4, <2>1, <1>r DEF AssignCommit, TypeOK
<1>5. CASE AssignUpdate(r)
  BY <1>5, <1>r, <1>s DEF AssignUpdate, TypeOK
<1>6. CASE RequestSupersede(r)
  <2>1. rows' \in Table
    BY <1>6, <1>t, SupersedeIsHousekeeping DEF RequestSupersede, Housekeeping
  <2>2. QED BY <1>6, <2>1, <1>r DEF RequestSupersede, TypeOK
<1>7. CASE RequestPush(r)
  <2>1. queued + 1 \in Cmd /\ queued' \in 0 .. MaxCmd /\ "set_scenes" \in Kinds
    BY <1>7, <1>t, CommandAssumption, SyncAssumption DEF RequestPush, Cmd
  <2>2. rows' \in Table BY <1>7, <1>t, <2>1, EnqueueLemma DEF RequestPush
  <2>3. payload' \in [Cmd -> Checksum] BY <1>7, <1>t, <1>s, <2>1 DEF RequestPush
  <2>4. QED BY <1>7, <2>1, <2>2, <2>3, <1>r DEF RequestPush, TypeOK
<1>8. CASE RequestAbort(r)
  BY <1>8, <1>r, <1>t DEF RequestAbort, TypeOK
<1>9. QED BY <1>1, <1>2, <1>3, <1>4, <1>5, <1>6, <1>7, <1>8 DEF RequestStep

\* One more session is activated than before: the count is one of Epochs.
LEMMA ClaimLemma ==
  ASSUME TypeOK, EpochOK, NEW s \in Session, ActivateClaim(s)
  PROVE  epoch + 1 \in Epochs /\ EpochOK'
<1>1. IsFiniteSet(Session) /\ Cardinality(Session) = MaxSession
  BY FS_Interval, SyncAssumption DEF Session
<1>2. step \in [Session -> Phase] /\ epoch \in Nat
  BY SyncAssumption DEF TypeOK
<1>3. step[s] = "hello" /\ step' = [step EXCEPT ![s] = "report"]
  BY DEF ActivateClaim, HubStep
<1>4. s \notin Activated /\ Activated' = Activated \cup {s}
  BY <1>2, <1>3 DEF Activated
<1>5. Activated \subseteq Session /\ Activated' \subseteq Session BY <1>4 DEF Activated
<1>6. IsFiniteSet(Activated) /\ IsFiniteSet(Activated')
      /\ Cardinality(Activated') <= MaxSession
  BY <1>1, <1>5, FS_Subset
<1>7. Cardinality(Activated') = Cardinality(Activated) + 1
  BY <1>4, <1>6, FS_AddElement
<1>8. Cardinality(Activated) \in Nat BY <1>6, FS_CardinalityType
<1>9. epoch' = epoch + 1 BY DEF ActivateClaim
<1>10. epoch + 1 <= Cardinality(Activated') BY <1>2, <1>7, <1>8 DEF EpochOK
<1>11. epoch + 1 \in 0 .. MaxSession
  BY <1>2, <1>6, <1>7, <1>8, <1>10, SyncAssumption
<1>12. QED BY <1>9, <1>10, <1>11, SyncAssumption DEF EpochOK

\* The hub's variables, and the columns it writes, keep their types.
LEMMA HubType ==
  ASSUME TypeOK, EpochOK, NEW s \in Session,
         Activation(s) \/ Drain(s) \/ HandleMessage(s)
  PROVE  TypeOK'
<1>t. /\ step \in [Session -> Phase] /\ cutoff \in [Session -> Epochs]
      /\ rows \in Table /\ batch \in [Session -> SUBSET Cmd] /\ epoch \in Epochs
      /\ hello \in [Session -> Checksum] /\ toHub \in [Session -> Seq(Message)]
      /\ toDevice \in [Session -> Seq(Cmd)] /\ live \in Session \cup {NoSession}
      /\ kicked \in SUBSET Session
  BY DEF TypeOK
<1>1. CASE ActivateClaim(s)
  <2>1. epoch' \in Epochs /\ cutoff' \in [Session -> Epochs]
    BY <1>1, <1>t, ClaimLemma DEF ActivateClaim
  <2>2. /\ step' \in [Session -> Phase] /\ live' \in Session \cup {NoSession}
        /\ kicked' \in SUBSET Session
    BY <1>1, <1>t DEF ActivateClaim, HubStep, Phase
  <2>3. QED BY <1>1, <2>1, <2>2 DEF ActivateClaim, TypeOK
<1>2. CASE ActivateReport(s)
  <2>1. step' \in [Session -> Phase] /\ reported' \in Checksum /\ overtaken' \in BOOLEAN
    BY <1>2, <1>t DEF ActivateReport, HubStep, Phase, TypeOK
  <2>2. QED BY <1>2, <2>1 DEF ActivateReport, TypeOK
<1>3. CASE ActivateQueue(s)
  <2>1. step' \in [Session -> Phase]
    BY <1>3, <1>t DEF ActivateQueue, HubStep, Phase
  <2>2. \A c \in Cmd : c \in SentBefore(rows, cutoff[s]) => rows[c].status = "sent"
    BY DEF SentBefore
  <2>3. rows' \in Table
    BY <1>3, <2>2, <1>t, DropOutdatedIsHousekeeping, RequeueIsHousekeeping
    DEF ActivateQueue, Housekeeping
  <2>4. QED BY <1>3, <2>1, <2>3 DEF ActivateQueue, TypeOK
<1>8. CASE ActivateGreet(s)
  <2>1. step' \in [Session -> Phase]
    BY <1>8, <1>t DEF ActivateGreet, HubStep, Phase
  <2>2. QED BY <1>8, <2>1 DEF ActivateGreet, TypeOK
<1>4. CASE DrainSelect(s)
  <2>1. batch' \in [Session -> SUBSET Cmd] BY <1>4, <1>t DEF DrainSelect, Pending
  <2>2. QED BY <1>4, <2>1 DEF DrainSelect, TypeOK
<1>5. CASE DrainSend(s)
  <2> DEFINE c == First(batch[s])
  <2>1. batch[s] \in SUBSET Cmd /\ batch[s] # {} BY <1>5, <1>t DEF DrainSend
  <2>2. c \in Cmd BY <2>1, OldestExists DEF First
  <2>3. rows' = rows \/ rows' = markSent(rows, c, epoch) BY <1>5 DEF DrainSend
  <2>4. toDevice' = toDevice \/ toDevice' = [toDevice EXCEPT ![s] = Append(@, c)]
    BY <1>5 DEF DrainSend
  <2>5. batch' = [batch EXCEPT ![s] = {}] \/ batch' = [batch EXCEPT ![s] = @ \ {c}]
    BY <1>5 DEF DrainSend
  <2> HIDE DEF c
  <2>6. rows' \in Table BY <2>2, <2>3, <1>t, MarkSentIsHousekeeping DEF Housekeeping
  <2>7. toDevice' \in [Session -> Seq(Cmd)]
    <3>1. Append(toDevice[s], c) \in Seq(Cmd) BY <2>2, <1>t, AppendLemma
    <3>2. QED BY <2>4, <3>1, <1>t
  <2>8. batch' \in [Session -> SUBSET Cmd] BY <2>1, <2>5, <1>t
  <2>9. QED BY <1>5, <2>6, <2>7, <2>8 DEF DrainSend, TypeOK
<1>6. CASE HandleMessage(s)
  <2> DEFINE m == Head(toHub[s])
  <2>1. toHub[s] \in Seq(Message) /\ toHub[s] # <<>> BY <1>6, <1>t DEF HandleMessage
  <2>2. m \in Message BY <2>1
  <2>3. toHub' \in [Session -> Seq(Message)] BY <1>6, <2>1, <1>t DEF HandleMessage
  <2>4. \/ m.type = "ack" /\ rows' = settleAck(rows, m.cmd, m.ok)
           /\ UNCHANGED <<reported, overtaken>>
        \/ m.type = "report" /\ reported' = m.sum
           /\ overtaken' = (overtaken \/ Late(s)) /\ UNCHANGED rows
    BY <1>6 DEF HandleMessage
  <2> HIDE DEF m
  <2>5. /\ m.type = "ack" => m.cmd \in Cmd /\ m.ok \in BOOLEAN
        /\ m.type = "report" => m.sum \in Checksum
    BY <2>2 DEF Message
  <2>6. rows' \in Table BY <2>4, <2>5, <1>t, SettleAckLemma
  <2>7. reported' \in Checksum /\ overtaken' \in BOOLEAN BY <2>4, <2>5 DEF TypeOK
  <2>8. QED BY <1>6, <2>3, <2>6, <2>7 DEF HandleMessage, TypeOK
<1>7. QED BY <1>1, <1>2, <1>3, <1>8, <1>4, <1>5, <1>6 DEF Activation, Drain

\* What a device sends is a message.
LEMMA MessageLemma ==
  /\ \A c \in Cmd, ok \in BOOLEAN : Ack(c, ok) \in Message /\ Ack(c, ok).type = "ack"
  /\ \A sum \in Checksum :
       Report(sum) \in Message /\ Report(sum).type = "report" /\ Report(sum).sum = sum
BY DEF Ack, Report, Message

\* What the device reads, and how it answers.
LEMMA ReadLemma ==
  ASSUME TypeOK, NEW s \in Session, DeviceRead(s)
  PROVE  LET c == Head(toDevice[s]) IN
         /\ c \in Cmd /\ payload[c] \in Checksum
         /\ toDevice' = [toDevice EXCEPT ![s] = Tail(toDevice[s])]
         /\ Tail(toDevice[s]) \in Seq(Cmd)
         /\ \/ /\ toHub' = [toHub EXCEPT ![s] = Append(toHub[s], Ack(c, FALSE))]
               /\ UNCHANGED applied
            \/ /\ applied' = payload[c]
               /\ toHub' = [toHub EXCEPT
                    ![s] = Append(Append(toHub[s], Ack(c, TRUE)), Report(payload[c]))]
<1> DEFINE c == Head(toDevice[s])
<1>t. toDevice[s] \in Seq(Cmd) /\ toHub[s] \in Seq(Message) /\ toDevice[s] # <<>>
  BY DEF TypeOK, DeviceRead
<1>1. c \in Cmd /\ Tail(toDevice[s]) \in Seq(Cmd) BY <1>t
<1>2. payload[c] \in Checksum BY <1>1 DEF TypeOK
<1>3. /\ toDevice' = [toDevice EXCEPT ![s] = Tail(toDevice[s])]
      /\ \/ /\ toHub' = [toHub EXCEPT ![s] = Append(toHub[s], Ack(c, FALSE))]
            /\ UNCHANGED applied
         \/ /\ applied' = payload[c]
            /\ toHub' = [toHub EXCEPT
                 ![s] = toHub[s] \o <<Ack(c, TRUE), Report(payload[c])>>]
  BY DEF DeviceRead
<1> HIDE DEF c
<1>4. toHub[s] \o <<Ack(c, TRUE), Report(payload[c])>>
        = Append(Append(toHub[s], Ack(c, TRUE)), Report(payload[c]))
  <2> DEFINE a == Ack(c, TRUE)
             b == Report(payload[c])
             q == toHub[s]
  <2>1. a \in Message /\ b \in Message /\ q \in Seq(Message)
    BY <1>1, <1>2, <1>t, MessageLemma
  <2> HIDE DEF a, b, q
  <2>2. q \o <<a, b>> = Append(Append(q, a), b) BY <2>1, PairLemma
  <2>3. QED BY <2>2 DEF a, b, q
<1>5. QED BY <1>1, <1>2, <1>3, <1>4 DEF c

\* The device's variables keep their types.
LEMMA DeviceType ==
  ASSUME TypeOK, NEW s \in Session,
         Connect(s) \/ DeviceRead(s) \/ DeviceState(s) \/ DeviceLeave(s)
  PROVE  TypeOK'
<1>t. /\ step \in [Session -> Phase] /\ hello \in [Session -> Checksum]
      /\ toHub \in [Session -> Seq(Message)] /\ toDevice \in [Session -> Seq(Cmd)]
      /\ applied \in Checksum /\ faults \in Nat /\ states \in Nat
  BY DEF TypeOK
<1>1. CASE Connect(s)
  <2>1. /\ step' \in [Session -> Phase] /\ hello' \in [Session -> Checksum]
        /\ dev' \in Session \cup {NoSession}
    BY <1>1, <1>t DEF Connect, Phase
  <2>2. QED BY <1>1, <2>1 DEF Connect, TypeOK
<1>2. CASE DeviceRead(s)
  <2> DEFINE c == Head(toDevice[s])
  <2>1. /\ c \in Cmd /\ payload[c] \in Checksum
        /\ toDevice' = [toDevice EXCEPT ![s] = Tail(toDevice[s])]
        /\ Tail(toDevice[s]) \in Seq(Cmd)
        /\ \/ /\ toHub' = [toHub EXCEPT ![s] = Append(toHub[s], Ack(c, FALSE))]
              /\ UNCHANGED applied
           \/ /\ applied' = payload[c]
              /\ toHub' = [toHub EXCEPT
                   ![s] = Append(Append(toHub[s], Ack(c, TRUE)), Report(payload[c]))]
    BY <1>2, ReadLemma
  <2> HIDE DEF c
  <2>2. toDevice' \in [Session -> Seq(Cmd)] BY <2>1, <1>t
  <2>3. toHub[s] \in Seq(Message) /\ Ack(c, TRUE) \in Message
        /\ Ack(c, FALSE) \in Message /\ Report(payload[c]) \in Message
    BY <2>1, <1>t, MessageLemma
  <2>4. toHub' \in [Session -> Seq(Message)]
    <3>1. /\ Append(toHub[s], Ack(c, FALSE)) \in Seq(Message)
          /\ Append(Append(toHub[s], Ack(c, TRUE)), Report(payload[c]))
               \in Seq(Message)
      BY <2>3, AppendLemma
    <3>2. QED BY <2>1, <3>1, <1>t
  <2>5. applied' \in Checksum BY <2>1, <1>t
  <2>6. QED BY <1>2, <2>2, <2>4, <2>5 DEF DeviceRead, TypeOK
<1>3. CASE DeviceState(s)
  <2>1. Report(applied) \in Message BY <1>t, MessageLemma
  <2>2. toHub' \in [Session -> Seq(Message)] BY <1>3, <2>1, <1>t DEF DeviceState
  <2>3. QED BY <1>3, <2>2, <1>t DEF DeviceState, TypeOK
<1>4. CASE DeviceLeave(s)
  <2>1. PICK n \in 0 .. Len(toHub[s]) : toHub' = [toHub EXCEPT ![s] = SubSeq(@, 1, n)]
    BY <1>4 DEF DeviceLeave
  <2>2. toHub[s] \in Seq(Message) BY <1>t
  <2>3. SubSeq(toHub[s], 1, n) \in Seq(Message) BY <2>1, <2>2
  <2>4. toHub' \in [Session -> Seq(Message)] BY <2>1, <2>3, <1>t
  <2>5. toDevice' \in [Session -> Seq(Cmd)] BY <1>4, <1>t DEF DeviceLeave
  <2>6. step' \in [Session -> Phase] BY <1>4, <1>t DEF DeviceLeave, HubStep, Phase
  <2>7. faults' \in Nat BY <1>4, <1>t DEF DeviceLeave
  <2>8. QED BY <1>4, <2>4, <2>5, <2>6, <2>7 DEF DeviceLeave, TypeOK
<1>5. QED BY <1>1, <1>2, <1>3, <1>4

\* A wake-up and the passing of time change rows, and only rows.
Sweep == Wake \/ \E c \in Cmd : GracePasses(c)

LEMMA SweepKeeps ==
  ASSUME TypeOK, Sweep
  PROVE  /\ rows' \in Table /\ waking' \in BOOLEAN
         /\ UNCHANGED <<assignments, assigned, reported, payload, queued, request,
                        step, live, kicked, epoch, cutoff, batch, device, history,
                        budgets>>
<1> DEFINE Kept == /\ rows' \in Table /\ waking' \in BOOLEAN
                   /\ UNCHANGED <<assignments, assigned, reported, payload, queued,
                                  request, step, live, kicked, epoch, cutoff, batch,
                                  device, history, budgets>>
<1>t. rows \in Table /\ waking \in BOOLEAN BY DEF TypeOK
<1>1. \A c \in Cmd : c \in SentTooLongAgo(rows) => rows[c].status = "sent"
  BY DEF SentTooLongAgo
<1>2. ASSUME WakeOutdated PROVE Kept
  BY <1>2, <1>1, <1>t, DropOutdatedIsHousekeeping DEF WakeOutdated, Housekeeping
<1>3. ASSUME WakeRequeue PROVE Kept
  BY <1>3, <1>1, <1>t, RequeueIsHousekeeping DEF WakeRequeue, Housekeeping
<1>4. ASSUME NEW c \in Cmd, GracePasses(c) PROVE Kept
  BY <1>4, <1>t, PassGraceIsHousekeeping DEF GracePasses, Housekeeping, Live
<1> HIDE DEF Kept
<1>5. Kept BY <1>2, <1>3, <1>4 DEF Sweep, Wake
<1>6. QED BY <1>5 DEF Kept

\* Every step keeps the types.
LEMMA TypeStep == ASSUME TypeOK, EpochOK, Next PROVE TypeOK'
<1>1. Sweep => TypeOK' BY SweepKeeps DEF TypeOK
<1>2. QED BY <1>1, WebType, HubType, DeviceType DEF Next, Sweep

-----------------------------------------------------------------------------
(* The web side.                                                           *)

\* The steps of request r.
Web(r) == \/ \E ask \in Asks : AssignBegin(r, ask) \/ PreviewBegin(r, ask)
          \/ RequestStep(r) \/ AssignRollback(r) \/ RequestAbort(r)

\* The steps of session s, which no request sees.
Link(s) == \/ Activation(s) \/ Drain(s) \/ HandleMessage(s)
           \/ Connect(s) \/ DeviceRead(s) \/ DeviceState(s) \/ DeviceLeave(s)

LEMMA NextLemma ==
  Next <=> (\E r \in Request : Web(r)) \/ (\E s \in Session : Link(s)) \/ Sweep
BY DEF Next, Web, Link, Sweep

\* What a session's step leaves alone, and what a request's step does.
LEMMA LinkKeeps ==
  ASSUME NEW s \in Session, Link(s)
  PROVE  UNCHANGED <<assignments, assigned, request, torn>>
BY DEF Link, Activation, ActivateClaim, ActivateReport, ActivateQueue,
       ActivateGreet, Drain, DrainSelect, DrainSend, HandleMessage, Connect, DeviceRead, DeviceState,
       DeviceLeave

LEMMA WebKeeps ==
  ASSUME NEW r \in Request, Web(r)
  PROVE  /\ UNCHANGED <<step, epoch, batch, dev, hello, toDevice, toHub, applied,
                        reported, overtaken>>
         /\ \E q : request' = [request EXCEPT ![r] = q]
         /\ torn => torn'
<1> DEFINE Same == UNCHANGED <<step, epoch, batch, dev, hello, toDevice, toHub,
                               applied, reported, overtaken>>
           Moves == \E q : request' = [request EXCEPT ![r] = q]
<1>1. ASSUME NEW ask \in Asks, AssignBegin(r, ask) \/ PreviewBegin(r, ask)
      PROVE  Same /\ Moves /\ (torn => torn')
  <2>1. CASE AssignBegin(r, ask)
    <3>1. Same /\ (torn => torn') BY <2>1 DEF AssignBegin
    <3>2. Moves BY <2>1 DEF AssignBegin
    <3>3. QED BY <3>1, <3>2
  <2>2. CASE PreviewBegin(r, ask)
    <3>1. Same /\ (torn => torn') BY <2>2 DEF PreviewBegin
    <3>2. Moves BY <2>2 DEF PreviewBegin
    <3>3. QED BY <3>1, <3>2
  <2>3. QED BY <1>1, <2>1, <2>2
<1>2. CASE AssignDelete(r) \/ AssignBuild(r)
  BY <1>2 DEF AssignDelete, AssignBuild
<1>3. CASE AssignInsert(r) \/ AssignCommit(r) \/ AssignUpdate(r)
  BY <1>3 DEF AssignInsert, AssignCommit, AssignUpdate, At
<1>4. CASE RequestSupersede(r) \/ RequestPush(r)
  BY <1>4 DEF RequestSupersede, RequestPush, At
<1>5. CASE AssignRollback(r) \/ RequestAbort(r)
  BY <1>5 DEF AssignRollback, RequestAbort
<1>6. QED BY <1>1, <1>2, <1>3, <1>4, <1>5 DEF Web, RequestStep

\* A request in a transaction, or about to write the digest, is an assignment.
LEMMA KindStep == ASSUME TypeOK, KindOK, Next PROVE KindOK'
<1>t. request \in [Request -> WebRequest] BY DEF TypeOK
<1>1. ASSUME NEW r \in Request, Web(r) PROVE KindOK'
  <2>1. request' \in [Request -> WebRequest] BY <1>1, RequestType DEF Web
  <2>2. PICK q : request' = [request EXCEPT ![r] = q] BY <1>1, WebKeeps
  <2>3. \A p \in Request : p # r => request'[p] = request[p] BY <2>2, <1>t
  <2>4. request'[r].pc \in InTransaction \cup {"update"} => request'[r].kind = "assign"
    <3> USE DEF InTransaction, AfterCommit
    <3>1. request[r] \in WebRequest BY <1>t
    <3>2. ASSUME NEW ask \in Asks, AssignBegin(r, ask) \/ PreviewBegin(r, ask)
          PROVE  request'[r].kind = "assign" \/ request'[r].pc = "supersede"
      BY <3>2, <1>t DEF AssignBegin, PreviewBegin
    <3>3. CASE AssignDelete(r)
      BY <3>3, <3>1, <1>t DEF AssignDelete, KindOK, WebRequest
    <3>4. CASE AssignBuild(r)
      BY <3>4, <3>1, <1>t DEF AssignBuild, KindOK, WebRequest
    <3>5. CASE AssignInsert(r) \/ AssignCommit(r)
      BY <3>5, <3>1, <1>t DEF AssignInsert, AssignCommit, At, KindOK, WebRequest
    <3>6. CASE AssignUpdate(r) \/ RequestSupersede(r) \/ RequestPush(r)
               \/ AssignRollback(r) \/ RequestAbort(r)
      BY <3>6, <3>1, <1>t DEF AssignUpdate, RequestSupersede, RequestPush,
         AssignRollback, RequestAbort, At, WebRequest
    <3>7. QED BY <1>1, <3>2, <3>3, <3>4, <3>5, <3>6 DEF Web, RequestStep
  <2>5. QED BY <2>3, <2>4 DEF KindOK
<1>2. ASSUME NEW s \in Session, Link(s) PROVE KindOK'
  BY <1>2, LinkKeeps DEF KindOK
<1>3. CASE Sweep BY <1>3, SweepKeeps DEF KindOK
<1>4. QED BY <1>1, <1>2, <1>3, NextLemma

\* The scenes of the rows left and the rows inserted.
LEMMA CommitLemma ==
  ASSUME NEW which, NEW r, NEW ask
  PROVE  ScenesOf(which \cup RowsFor(r, ask)) = ScenesOf(which) \cup ask
<1>1. \A s : s \in ask => [scene |-> s, by |-> r] \in RowsFor(r, ask)
  BY DEF RowsFor
<1>2. \A a \in RowsFor(r, ask) : a.scene \in ask BY DEF RowsFor
<1>3. ScenesOf(RowsFor(r, ask)) = ask
  <2>1. ASSUME NEW s \in ask PROVE s \in ScenesOf(RowsFor(r, ask))
    <3>1. PICK a \in RowsFor(r, ask) : a = [scene |-> s, by |-> r] BY <1>1
    <3>2. a.scene = s BY <3>1
    <3>3. QED BY <3>2 DEF ScenesOf
  <2>2. ASSUME NEW s \in ScenesOf(RowsFor(r, ask)) PROVE s \in ask
    BY <1>2 DEF ScenesOf
  <2>3. QED BY <2>1, <2>2
<1>4. ScenesOf(which \cup RowsFor(r, ask))
        = ScenesOf(which) \cup ScenesOf(RowsFor(r, ask))
  BY DEF ScenesOf
<1>5. QED BY <1>3, <1>4

\* One assignment at a time: the column is the digest of the rows, or about to
\* be.
LEMMA AssignStep == ASSUME TypeOK, KindOK, AssignOK, Next PROVE AssignOK'
<1>t. request \in [Request -> WebRequest] BY DEF TypeOK
<1>1. ASSUME NEW s \in Session, Link(s) PROVE AssignOK'
  BY <1>1, LinkKeeps DEF AssignOK, Assigning, InProgress
<1>2. ASSUME NEW r \in Request, Web(r), ~torn' PROVE AssignOK'
  <2>n. ~torn BY <1>2, WebKeeps
  <2>q. PICK new : request' = [request EXCEPT ![r] = new] BY <1>2, WebKeeps
  <2>o. \A p \in Request : p # r => request'[p] = request[p] BY <2>q, <1>t
  <2>r. request[r] \in WebRequest BY <1>t
  <2>a. \A p, q \in Request : Assigning(p) /\ Assigning(q) => p = q
    BY <2>n DEF AssignOK
  <2> DEFINE Sums == \A p \in Request :
               /\ request'[p].pc = "commit" =>
                    request'[p].sum = ScenesOf(assignments' \ request'[p].gone)
                                        \cup request'[p].ask
               /\ request'[p].pc = "update" => request'[p].sum = ScenesOf(assignments')
             Column == \/ \E p \in Request : request'[p].pc = "update"
                       \/ assigned' = ScenesOf(assignments')
                       \/ assigned' = Unset
             Alone == \A p, q \in Request : Assigning(p)' /\ Assigning(q)' => p = q
  <2>g. Sums /\ Column /\ Alone => AssignOK' BY DEF AssignOK, Assigning, InProgress
  \* A request that was assigning already, or is not an assignment.
  <2>k. ASSUME request'[r].kind = "assign" /\ InProgress(r)' => Assigning(r)
        PROVE  Alone
    BY <2>k, <2>o, <2>a DEF Assigning, InProgress
  \* The rows and the column do not change.
  <2>u. ASSUME UNCHANGED <<assignments, assigned>>, request[r].pc # "update",
               request'[r].pc \notin {"commit", "update"}
        PROVE  Sums /\ Column
    <3>1. Sums BY <2>u, <2>o, <2>n DEF AssignOK
    <3>2. Column
      <4>1. ASSUME NEW p \in Request, request[p].pc = "update"
            PROVE  request'[p].pc = "update"
        BY <4>1, <2>u, <2>o
      <4>2. QED BY <4>1, <2>u, <2>n DEF AssignOK
    <3>3. QED BY <3>1, <3>2
  <2> USE DEF InTransaction, AfterCommit
  <2>1. ASSUME NEW ask \in Asks, AssignBegin(r, ask) PROVE AssignOK'
    <3>1. /\ request'[r].pc = "delete" /\ UNCHANGED <<assignments, assigned>>
          /\ request[r].pc = "idle"
          /\ ~ \E q \in Request : InProgress(q) /\ request[q].kind = "assign"
      BY <2>1, <1>2, <1>t DEF AssignBegin, Begins
    <3>2. Alone BY <3>1, <2>o DEF Assigning, InProgress
    <3>3. QED BY <3>1, <3>2, <2>u, <2>g
  <2>2. ASSUME NEW ask \in Asks, PreviewBegin(r, ask) PROVE AssignOK'
    <3>1. /\ request'[r].pc = "supersede" /\ request'[r].kind = "preview"
          /\ UNCHANGED <<assignments, assigned>> /\ request[r].pc = "idle"
      BY <2>2, <1>t DEF PreviewBegin, Begins
    <3>2. QED BY <3>1, <2>u, <2>k, <2>g
  <2>3. CASE \/ AssignDelete(r) \/ AssignInsert(r) \/ AssignRollback(r)
             \/ RequestSupersede(r) \/ RequestPush(r)
    <3>1. /\ request'[r].pc \notin {"commit", "update"} /\ request[r].pc # "update"
          /\ request'[r].kind = request[r].kind /\ InProgress(r)
          /\ UNCHANGED <<assignments, assigned>>
      BY <2>3, <2>r, <1>t DEF AssignDelete, AssignInsert, AssignRollback,
         RequestSupersede, RequestPush, At, InProgress, WebRequest
    <3>2. QED BY <3>1, <2>u, <2>k, <2>g DEF Assigning
  <2>4. CASE AssignBuild(r)
    <3>1. /\ request[r].pc = "build" /\ request'[r].pc = "commit"
          /\ request'[r].kind = request[r].kind /\ request'[r].ask = request[r].ask
          /\ request'[r].gone = request[r].gone
          /\ request'[r].sum = ScenesOf(assignments \ request[r].gone) \cup request[r].ask
          /\ UNCHANGED <<assignments, assigned>>
      BY <2>4, <2>r, <1>t DEF AssignBuild, WebRequest
    <3>2. Alone BY <3>1, <2>k DEF Assigning, InProgress
    <3>3. Sums BY <3>1, <2>o, <2>n DEF AssignOK
    <3>4. Column
      <4>1. ASSUME NEW p \in Request, request[p].pc = "update"
            PROVE  request'[p].pc = "update"
        BY <4>1, <3>1, <2>o
      <4>2. QED BY <4>1, <3>1, <2>n DEF AssignOK
    <3>5. QED BY <3>2, <3>3, <3>4, <2>g
  <2>5. CASE AssignCommit(r)
    <3>1. /\ request[r].pc = "commit" /\ request'[r].pc = "update"
          /\ request'[r].kind = request[r].kind /\ request'[r].sum = request[r].sum
          /\ assignments' = (assignments \ request[r].gone)
                               \cup RowsFor(r, request[r].ask)
      BY <2>5, <2>r, <1>t DEF AssignCommit, At, WebRequest
    <3>2. Alone BY <3>1, <2>k DEF Assigning, InProgress
    <3>3. request'[r].sum = ScenesOf(assignments')
      <4>1. request[r].sum
              = ScenesOf(assignments \ request[r].gone) \cup request[r].ask
        BY <3>1, <2>n DEF AssignOK
      <4>2. ScenesOf(assignments')
              = ScenesOf(assignments \ request[r].gone) \cup request[r].ask
        BY <3>1, CommitLemma
      <4>3. QED BY <4>1, <4>2, <3>1
    <3>4. Assigning(r) BY <3>1 DEF KindOK, Assigning, InProgress
    <3>5. \A p \in Request : p # r => request'[p].pc \notin {"commit", "update"}
      <4>1. ASSUME NEW p \in Request, request[p].pc \in {"commit", "update"}
            PROVE  Assigning(p)
        BY <4>1 DEF KindOK, Assigning, InProgress
      <4>2. QED BY <4>1, <3>4, <2>a, <2>o
    <3>6. Sums BY <3>1, <3>3, <3>5
    <3>7. Column BY <3>1
    <3>8. QED BY <3>2, <3>6, <3>7, <2>g
  <2>6. CASE AssignUpdate(r)
    <3>1. /\ request[r].pc = "update" /\ request'[r].pc = "supersede"
          /\ request'[r].kind = request[r].kind /\ assigned' = request[r].sum
          /\ UNCHANGED assignments
      BY <2>6, <2>r, <1>t DEF AssignUpdate, At, WebRequest
    <3>2. Alone BY <3>1, <2>k DEF Assigning, InProgress
    <3>3. Sums BY <3>1, <2>o, <2>n DEF AssignOK
    <3>4. Column BY <3>1, <2>n DEF AssignOK
    <3>5. QED BY <3>2, <3>3, <3>4, <2>g
  <2>7. CASE RequestAbort(r) BY <2>7, <1>2 DEF RequestAbort
  <2>8. QED
    BY <1>2, <2>1, <2>2, <2>3, <2>4, <2>5, <2>6, <2>7 DEF Web, RequestStep
<1>3. CASE Sweep BY <1>3, SweepKeeps DEF AssignOK, Assigning, InProgress
<1>4. QED BY <1>1, <1>2, <1>3, NextLemma DEF AssignOK

-----------------------------------------------------------------------------
(* Sessions.                                                               *)

\* The activation count stays the number of activated sessions.
LEMMA EpochStep == ASSUME TypeOK, EpochOK, Next PROVE EpochOK'
<1>t. step \in [Session -> Phase] BY DEF TypeOK
<1>u. UNCHANGED <<epoch, step>> => EpochOK' BY DEF EpochOK, Activated
<1>1. ASSUME NEW r \in Request, Web(r) PROVE EpochOK' BY <1>1, <1>u, WebKeeps
<1>2. ASSUME NEW s \in Session, Link(s) PROVE EpochOK'
  <2>m. ASSUME NEW from, NEW to, HubStep(s, from, to), UNCHANGED epoch,
               from \in {"unused", "hello", "lost"} <=> to \in {"unused", "hello", "lost"}
        PROVE  EpochOK'
    <3>1. Activated' = Activated BY <2>m, <1>t DEF Activated, HubStep
    <3>2. QED BY <3>1, <2>m DEF EpochOK
  <2>1. CASE ActivateClaim(s) BY <2>1, ClaimLemma
  <2>2. CASE ActivateReport(s) BY <2>2, <2>m DEF ActivateReport
  <2>3. CASE ActivateQueue(s) BY <2>3, <2>m DEF ActivateQueue
  <2>8. CASE ActivateGreet(s) BY <2>8, <2>m DEF ActivateGreet
  <2>4. CASE Connect(s) BY <2>4, <2>m DEF Connect, HubStep
  <2>5. CASE DeviceLeave(s) BY <2>5, <2>m, <1>u DEF DeviceLeave
  <2>6. CASE Drain(s) \/ HandleMessage(s) \/ DeviceRead(s) \/ DeviceState(s)
    BY <2>6, <1>u DEF Drain, DrainSelect, DrainSend, HandleMessage, DeviceRead,
                      DeviceState
  <2>7. QED BY <1>2, <2>1, <2>2, <2>3, <2>8, <2>4, <2>5, <2>6 DEF Link, Activation
<1>3. CASE Sweep BY <1>3, <1>u, SweepKeeps
<1>4. QED BY <1>1, <1>2, <1>3, NextLemma

\* Sockets are used in order, and nothing crosses one before `ready`.
LEMMA SessionStep == ASSUME TypeOK, SessionOK, Next PROVE SessionOK'
<1>t. /\ step \in [Session -> Phase] /\ batch \in [Session -> SUBSET Cmd]
      /\ toDevice \in [Session -> Seq(Cmd)] /\ toHub \in [Session -> Seq(Message)]
      /\ dev \in Session \cup {NoSession}
      /\ Session \subseteq Nat /\ NoSession \notin Session
  BY DEF TypeOK, Session, NoSession
<1>1. ASSUME NEW r \in Request, Web(r) PROVE SessionOK'
  BY <1>1, WebKeeps DEF SessionOK
<1>2. ASSUME NEW s \in Session, Link(s) PROVE SessionOK'
  <2>1. CASE ActivateClaim(s) \/ ActivateReport(s)
    <3>1. /\ step[s] \in {"hello", "report"}
          /\ \E p \in {"report", "outdated"} : step' = [step EXCEPT ![s] = p]
          /\ UNCHANGED <<batch, toDevice, toHub, dev>>
      BY <2>1 DEF ActivateClaim, ActivateReport, HubStep, device
    <3>2. QED BY <3>1, <1>t DEF SessionOK
  <2>2. CASE ActivateQueue(s) \/ ActivateGreet(s)
    BY <2>2, <1>t DEF ActivateQueue, ActivateGreet, HubStep, SessionOK
  <2>3. CASE DrainSelect(s)
    BY <2>3, <1>t DEF DrainSelect, SessionOK
  <2>4. CASE DrainSend(s)
    <3>1. UNCHANGED <<step, dev, toHub>> BY <2>4 DEF DrainSend
    <3>2. \A u \in Session : step[u] # "ready" => toDevice'[u] = toDevice[u]
      BY <2>4, <1>t DEF DrainSend
    <3>3. QED BY <3>1, <3>2 DEF SessionOK
  <2>5. CASE HandleMessage(s) BY <2>5, <1>t DEF HandleMessage, SessionOK
  <2>6. CASE Connect(s)
    <3>1. /\ step[s] = "unused" /\ step' = [step EXCEPT ![s] = "hello"] /\ dev' = s
          /\ \A t \in Session : t < s => step[t] # "unused"
          /\ UNCHANGED <<batch, toDevice, toHub>>
      BY <2>6, <1>t DEF Connect, Session
    <3>2. QED BY <3>1, <1>t DEF SessionOK
  <2>7. CASE DeviceRead(s) \/ DeviceState(s)
    <3>1. step[s] = "ready" /\ UNCHANGED <<step, dev, batch>>
      BY <2>7 DEF DeviceRead, DeviceState, SessionOK
    <3>2. \A u \in Session : u # s => toHub'[u] = toHub[u] /\ toDevice'[u] = toDevice[u]
      BY <2>7, <1>t DEF DeviceRead, DeviceState
    <3>3. QED BY <3>1, <3>2 DEF SessionOK
  <2>8. CASE DeviceLeave(s)
    <3>1. /\ dev' = NoSession /\ UNCHANGED batch
          /\ toDevice' = [toDevice EXCEPT ![s] = <<>>]
          /\ step' = step \/ HubStep(s, "hello", "lost")
      BY <2>8 DEF DeviceLeave
    <3>2. PICK n \in 0 .. Len(toHub[s]) : toHub' = [toHub EXCEPT ![s] = SubSeq(@, 1, n)]
      BY <2>8 DEF DeviceLeave
    <3>3. toHub[s] = <<>> => SubSeq(toHub[s], 1, n) = <<>> BY <3>2, <1>t
    <3>4. \A u \in Session : toHub[u] = <<>> => toHub'[u] = <<>>
      BY <3>2, <3>3, <1>t
    <3>5. \A u \in Session : /\ step'[u] = "unused" <=> step[u] = "unused"
                             /\ step'[u] = "ready" <=> step[u] = "ready"
      BY <3>1, <1>t DEF HubStep
    <3>6. QED BY <3>1, <3>4, <3>5, <1>t DEF SessionOK
  <2>9. QED BY <1>2, <2>1, <2>2, <2>3, <2>4, <2>5, <2>6, <2>7, <2>8
            DEF Link, Activation, Drain
<1>3. CASE Sweep BY <1>3, SweepKeeps DEF SessionOK
<1>4. QED BY <1>1, <1>2, <1>3, NextLemma

-----------------------------------------------------------------------------
(* Reports.                                                                *)

\* Handling the first message, which becomes the column if it is a report.
LEMMA LatestHead ==
  ASSUME NEW q \in Seq(Message), q # <<>>, NEW r, NEW x, Latest(q, r, x)
  PROVE  /\ Head(q).type = "ack" => Latest(Tail(q), r, x)
         /\ Head(q).type = "report" => Latest(Tail(q), Head(q).sum, x)
<1> DEFINE p == Tail(q)
<1>1. /\ p \in Seq(Message) /\ Len(q) = Len(p) + 1 /\ Head(q) = q[1]
      /\ Len(p) \in Nat
      /\ \A j \in 1 .. Len(p) : j + 1 \in 1 .. Len(q) /\ p[j] = q[j + 1]
  OBVIOUS
<1>2. Report(x).type = "report" /\ Report(x).sum = x BY DEF Report
<1> HIDE DEF p
<1>3. CASE r = x /\ \A j \in 1 .. Len(q) : q[j].type = "ack"
  <2>1. \A j \in 1 .. Len(p) : p[j].type = "ack" BY <1>1, <1>3
  <2>2. Head(q).type = "ack" BY <1>1, <1>3
  <2>3. QED BY <2>1, <2>2, <1>3 DEF Latest, p
<1>4. ASSUME NEW i \in 1 .. Len(q), q[i] = Report(x),
             \A j \in 1 .. Len(q) : j > i => q[j].type = "ack"
      PROVE  /\ Head(q).type = "ack" => Latest(p, r, x)
             /\ Head(q).type = "report" => Latest(p, Head(q).sum, x)
  <2>1. CASE i = 1
    <3>1. \A j \in 1 .. Len(p) : p[j].type = "ack"
      <4>1. \A j \in 1 .. Len(p) : j + 1 > 1 BY <1>1
      <4>2. QED BY <4>1, <1>1, <1>4, <2>1
    <3>2. Head(q).sum = x /\ Head(q).type = "report" BY <1>1, <1>2, <1>4, <2>1
    <3>3. QED BY <3>1, <3>2 DEF Latest
  <2>2. CASE i # 1
    <3>1. i - 1 \in 1 .. Len(p) /\ p[i - 1] = Report(x) BY <1>1, <1>4, <2>2
    <3>2. ASSUME NEW j \in 1 .. Len(p), j > i - 1 PROVE p[j].type = "ack"
      <4>1. j + 1 > i BY <3>2, <1>1
      <4>2. QED BY <4>1, <1>1, <1>4
    <3>3. QED BY <3>1, <3>2 DEF Latest
  <2>3. QED BY <2>1, <2>2
<1>5. QED BY <1>3, <1>4 DEF Latest, p

\* An ack behind the last report leaves it the last, a new report is the last.
LEMMA LatestAppend ==
  ASSUME NEW q \in Seq(Message), NEW r, NEW m \in Message
  PROVE  /\ \A x : m.type = "ack" /\ Latest(q, r, x) => Latest(Append(q, m), r, x)
         /\ \A x : m = Report(x) => Latest(Append(q, m), r, x)
<1> DEFINE p == Append(q, m)
<1>1. /\ Len(p) = Len(q) + 1 /\ Len(q) \in Nat /\ p[Len(q) + 1] = m
      /\ \A j \in 1 .. Len(q) : p[j] = q[j]
  OBVIOUS
<1> HIDE DEF p
<1>2. ASSUME NEW x, m.type = "ack", Latest(q, r, x) PROVE Latest(p, r, x)
  <2>1. CASE r = x /\ \A j \in 1 .. Len(q) : q[j].type = "ack"
    <3>1. \A j \in 1 .. Len(p) : p[j].type = "ack" BY <1>1, <1>2, <2>1
    <3>2. QED BY <3>1, <2>1 DEF Latest
  <2>2. ASSUME NEW i \in 1 .. Len(q), q[i] = Report(x),
               \A j \in 1 .. Len(q) : j > i => q[j].type = "ack"
        PROVE  Latest(p, r, x)
    <3>1. i \in 1 .. Len(p) /\ p[i] = Report(x) BY <1>1, <2>2
    <3>2. \A j \in 1 .. Len(p) : j > i => p[j].type = "ack" BY <1>1, <1>2, <2>2
    <3>3. QED BY <3>1, <3>2 DEF Latest
  <2>3. QED BY <1>2, <2>1, <2>2 DEF Latest
<1>3. ASSUME NEW x, m = Report(x) PROVE Latest(p, r, x)
  <2>1. Len(p) \in 1 .. Len(p) /\ p[Len(p)] = Report(x) BY <1>1, <1>3
  <2>2. \A j \in 1 .. Len(p) : ~ (j > Len(p)) BY <1>1
  <2>3. QED BY <2>1, <2>2 DEF Latest
<1>4. QED BY <1>2, <1>3 DEF p

\* A report may only spoil the column in the name of a session older than the
\* one in use, and is then counted.
LEMMA LateLemma ==
  ASSUME TypeOK, SessionOK, NEW s \in Session, step[s] # "unused",
         dev # NoSession, s # dev, ~Late(s)
  PROVE  step[dev] \in {"hello", "report", "closed"}
<1>1. /\ dev \in Session /\ step[dev] \in Phase /\ Session \subseteq Nat
  BY DEF TypeOK, Session
<1>2. ~ (s > dev) /\ step[dev] \notin {"unused", "lost"} BY DEF SessionOK
<1>3. dev > s BY <1>1, <1>2
<1>4. step[dev] \notin Claimed \ {"report"} BY <1>1, <1>3 DEF Late
<1>5. QED BY <1>1, <1>2, <1>4 DEF Phase, Claimed

\* The last report, or else the column, stays true.
LEMMA ReportStep == ASSUME TypeOK, SessionOK, ReportOK, Next PROVE ReportOK'
<1> USE DEF Claimed
<1>t. /\ step \in [Session -> Phase] /\ hello \in [Session -> Checksum]
      /\ toHub \in [Session -> Seq(Message)] /\ applied \in Checksum
      /\ dev \in Session \cup {NoSession} /\ NoSession \notin Session
  BY DEF TypeOK, Session, NoSession
<1>1. ASSUME NEW r \in Request, Web(r) PROVE ReportOK'
  BY <1>1, WebKeeps DEF ReportOK
<1>2. ASSUME NEW s \in Session, Link(s), ~overtaken', dev' # NoSession
      PROVE  /\ step'[dev'] \in {"hello", "report"} => hello'[dev'] = applied'
             /\ step'[dev'] \in Claimed \ {"report"} =>
                  Latest(toHub'[dev'], reported', applied')
  <2>u. ASSUME UNCHANGED <<dev, hello, applied, overtaken>>,
               step'[dev] = step[dev] \/ (step[dev] = "hello" /\ step'[dev] = "report")
                 \/ (step[dev] \in {"outdated", "requeue", "greet"}
                     /\ step'[dev] \in {"requeue", "greet", "ready", "closed"}),
               UNCHANGED <<toHub, reported>>
        PROVE  /\ step'[dev'] \in {"hello", "report"} => hello'[dev'] = applied'
               /\ step'[dev'] \in Claimed \ {"report"} =>
                    Latest(toHub'[dev'], reported', applied')
    BY <1>2, <2>u DEF ReportOK
  <2>1. CASE ActivateClaim(s)
    BY <2>1, <2>u, <1>t DEF ActivateClaim, HubStep
  <2>2. CASE ActivateReport(s)
    <3>1. /\ step[s] = "report" /\ step' = [step EXCEPT ![s] = "outdated"]
          /\ reported' = hello[s] /\ UNCHANGED <<dev, hello, toHub, applied>>
          /\ ~Late(s) /\ ~overtaken
      BY <2>2, <1>2 DEF ActivateReport, HubStep
    <3>2. CASE s = dev
      <4>1. toHub[s] = <<>> BY <3>1 DEF SessionOK
      <4>2. reported' = applied BY <3>1, <3>2, <1>2 DEF ReportOK
      <4>3. Latest(<<>>, reported', applied) BY <4>2 DEF Latest
      <4>4. QED BY <3>1, <3>2, <4>1, <4>3, <1>t
    <3>3. CASE s # dev
      <4>1. step[dev] \in {"hello", "report", "closed"}
        BY <3>1, <3>3, <1>2, LateLemma
      <4>2. QED BY <3>1, <3>3, <4>1, <1>2, <1>t DEF ReportOK
    <3>4. QED BY <3>2, <3>3
  <2>3. CASE ActivateQueue(s) \/ ActivateGreet(s)
    <3>1. /\ UNCHANGED <<dev, hello, applied, overtaken, toHub, reported>>
          /\ \/ step[s] = "outdated" /\ step' = [step EXCEPT ![s] = "requeue"]
             \/ step[s] = "requeue" /\ step' = [step EXCEPT ![s] = "greet"]
             \/ /\ step[s] = "greet"
                /\ step' = [step EXCEPT ![s] = IF s \in kicked THEN "closed" ELSE "ready"]
      BY <2>3 DEF ActivateQueue, ActivateGreet, HubStep, device, history
    <3>2. dev \in Session BY <3>1, <1>2, <1>t
    <3>3. \/ step'[dev] = step[dev]
          \/ /\ step[dev] \in {"outdated", "requeue", "greet"}
             /\ step'[dev] \in {"requeue", "greet", "ready", "closed"}
      BY <3>1, <3>2, <1>t
    <3>4. QED BY <3>1, <3>3, <2>u
  <2>4. CASE Drain(s)
    BY <2>4, <2>u DEF Drain, DrainSelect, DrainSend
  <2>5. CASE HandleMessage(s)
    <3> DEFINE m == Head(toHub[s])
    <3>1. /\ step[s] = "ready" /\ toHub[s] \in Seq(Message) /\ toHub[s] # <<>>
          /\ toHub' = [toHub EXCEPT ![s] = Tail(toHub[s])]
          /\ UNCHANGED <<step, dev, hello, applied>>
      BY <2>5, <1>t DEF HandleMessage
    <3>2. \/ m.type = "ack" /\ UNCHANGED <<reported, overtaken>>
          \/ m.type = "report" /\ reported' = m.sum /\ ~Late(s) /\ ~overtaken
      BY <2>5, <1>2 DEF HandleMessage
    <3>3. ~overtaken BY <3>2, <1>2
    <3>4. CASE s = dev
      <4>1. Latest(toHub[s], reported, applied)
        BY <3>1, <3>3, <3>4, <1>2 DEF ReportOK
      <4>2. Latest(Tail(toHub[s]), reported', applied)
        BY <3>1, <3>2, <4>1, LatestHead
      <4>3. QED BY <3>1, <3>4, <4>2, <1>t
    <3>5. CASE s # dev
      <4>1. \/ UNCHANGED reported
            \/ step[dev] \in {"hello", "report", "closed"}
        BY <3>1, <3>2, <3>5, <1>2, LateLemma
      <4>2. toHub'[dev] = toHub[dev] BY <3>1, <3>5, <1>t
      <4>3. QED BY <3>1, <3>3, <4>1, <4>2, <1>2 DEF ReportOK
    <3>6. QED BY <3>4, <3>5
  <2>6. CASE Connect(s)
    BY <2>6, <1>t DEF Connect
  <2>7. CASE DeviceRead(s)
    <3> DEFINE c == Head(toDevice[s])
    <3>1. /\ c \in Cmd /\ payload[c] \in Checksum
          /\ \/ /\ toHub' = [toHub EXCEPT ![s] = Append(toHub[s], Ack(c, FALSE))]
                /\ UNCHANGED applied
             \/ /\ applied' = payload[c]
                /\ toHub' = [toHub EXCEPT
                     ![s] = Append(Append(toHub[s], Ack(c, TRUE)), Report(payload[c]))]
      BY <2>7, ReadLemma
    <3> HIDE DEF c
    <3>2. /\ dev = s /\ dev' = s /\ step[s] = "ready" /\ ~overtaken
          /\ UNCHANGED <<step, reported>>
      BY <2>7, <1>2 DEF DeviceRead, SessionOK
    <3>3. Latest(toHub[s], reported, applied) BY <3>2, <1>2 DEF ReportOK
    <3>4. /\ toHub[s] \in Seq(Message) /\ Ack(c, TRUE) \in Message
          /\ Ack(c, FALSE) \in Message /\ Ack(c, FALSE).type = "ack"
          /\ Report(payload[c]) \in Message
      BY <3>1, <1>t, MessageLemma
    <3>5. Latest(Append(toHub[s], Ack(c, FALSE)), reported, applied)
      BY <3>3, <3>4, LatestAppend
    <3>6. Append(toHub[s], Ack(c, TRUE)) \in Seq(Message) BY <3>4, AppendLemma
    <3>7. Latest(Append(Append(toHub[s], Ack(c, TRUE)), Report(payload[c])),
                 reported, payload[c])
      BY <3>4, <3>6, LatestAppend
    <3>8. Latest(toHub'[s], reported, applied') BY <3>1, <3>5, <3>7, <1>t
    <3>9. QED BY <3>2, <3>8
  <2>8. CASE DeviceState(s)
    <3>1. /\ dev = s /\ dev' = s /\ step[s] = "ready"
          /\ toHub' = [toHub EXCEPT ![s] = Append(toHub[s], Report(applied))]
          /\ UNCHANGED <<step, reported, applied>>
      BY <2>8 DEF DeviceState
    <3>2. Report(applied) \in Message /\ toHub[s] \in Seq(Message)
      BY <1>t, MessageLemma
    <3>3. Latest(Append(toHub[s], Report(applied)), reported, applied)
      BY <3>2, LatestAppend
    <3>4. QED BY <3>1, <3>3, <1>t
  <2>9. CASE DeviceLeave(s) BY <2>9, <1>2 DEF DeviceLeave
  <2>10. QED BY <1>2, <2>1, <2>2, <2>3, <2>4, <2>5, <2>6, <2>7, <2>8, <2>9
             DEF Link, Activation
<1>3. CASE Sweep BY <1>3, SweepKeeps DEF ReportOK
<1>4. QED BY <1>1, <1>2, <1>3, NextLemma DEF ReportOK

-----------------------------------------------------------------------------
(* The theorems.                                                           *)

\* The invariant holds when nothing has happened.
LEMMA InitInv == Init => Inv
<1> SUFFICES ASSUME Init PROVE Inv OBVIOUS
<1> USE DEF Init
<1>1. TypeOK
  <2>1. <<>> \in Seq(Cmd) /\ <<>> \in Seq(Message) OBVIOUS
  <2>2. NoRequest \in WebRequest
    BY SumLemma DEF NoRequest, WebRequest, Payload
  <2>3. 0 \in 0 .. MaxCmd /\ 0 \in Epochs BY CommandAssumption
  <2>4. QED BY <2>1, <2>2, <2>3, SumLemma, EmptyTableLemma DEF TypeOK, Phase
<1>2. KindOK BY DEF KindOK, NoRequest, InTransaction
<1>3. AssignOK BY DEF AssignOK, Assigning, InProgress, NoRequest
<1>4. EpochOK
  <2>1. Activated = {} BY DEF Activated
  <2>2. Cardinality(Activated) = 0 BY <2>1, FS_EmptySet
  <2>3. epoch = 0 OBVIOUS
  <2> HIDE DEF Init
  <2>4. QED BY <2>2, <2>3 DEF EpochOK
<1>5. SessionOK /\ ReportOK BY DEF SessionOK, ReportOK
<1>6. QED BY <1>1, <1>2, <1>3, <1>4, <1>5 DEF Inv

\* The invariant is inductive.
LEMMA StepInv == Inv /\ [Next]_vars => Inv'
<1>1. ASSUME Inv, Next PROVE Inv'
  BY <1>1, TypeStep, KindStep, AssignStep, EpochStep, SessionStep, ReportStep
  DEF Inv
<1>2. ASSUME Inv, UNCHANGED vars PROVE Inv'
  <2> USE <1>2 DEF Inv, vars
  <2>1. TypeOK' BY DEF TypeOK
  <2>2. KindOK' BY DEF KindOK
  <2>3. AssignOK' BY DEF AssignOK, Assigning, InProgress
  <2>4. EpochOK' BY DEF EpochOK, Activated
  <2>5. SessionOK' BY DEF SessionOK
  <2>6. ReportOK' BY DEF ReportOK
  <2>7. QED BY <2>1, <2>2, <2>3, <2>4, <2>5, <2>6
<1>3. QED BY <1>1, <1>2

\* The inductive invariant holds in every state.
THEOREM InvHolds == Spec => []Inv
BY InitInv, StepInv, PTL DEF Spec

\* Every variable keeps its type; in particular no row is stamped with an
\* activation that never was.
THEOREM TypeCorrect == Spec => []TypeOK
<1>1. Inv => TypeOK BY DEF Inv
<1>2. QED BY <1>1, InvHolds, PTL

\* Once everything has settled, the frames page shows "in sync" exactly if the
\* device was given what is assigned: whatever was lost, redelivered, refused,
\* superseded or previewed, as long as assignments did not overlap or die half
\* way, and no old report was written over a newer hello.
THEOREM PageIsTrue == Spec => []PageTellsTruth
<1>1. ASSUME Inv, AtRest, ~torn, ~overtaken
      PROVE  assigned = reported /\ assigned # Unset
               <=> applied = ScenesOf(assignments) /\ assigned # Unset
  <2>1. dev # NoSession /\ step[dev] = "ready" /\ dev \in Session
    BY <1>1 DEF AtRest, Inv, TypeOK
  <2>2. toHub[dev] = <<>> BY <2>1, <1>1 DEF AtRest
  <2>3. Latest(<<>>, reported, applied) BY <2>1, <2>2, <1>1 DEF Inv, ReportOK, Claimed
  <2>4. reported = applied BY <2>3 DEF Latest
  <2>5. \A r \in Request : request[r].pc # "update"
    BY <1>1 DEF AtRest, NoRequestInProgress, InProgress
  <2>6. assigned = ScenesOf(assignments) \/ assigned = Unset
    BY <2>5, <1>1 DEF Inv, AssignOK
  <2>7. QED BY <2>4, <2>6
<1>2. Inv => PageTellsTruth BY <1>1 DEF PageTellsTruth
<1>3. QED BY <1>2, InvHolds, PTL
=============================================================================
