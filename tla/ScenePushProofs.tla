-------------------------- MODULE ScenePushProofs ---------------------------
(***************************************************************************)
(* The newest push wins, for every number of scenes, requests, commands,   *)
(* sessions and faults: a set_scenes that was acked as applied, and that   *)
(* no other has followed, is what the device has.                          *)
(*                                                                         *)
(* What could go wrong is that an older command reaches the device after   *)
(* it: from the snapshot of a drain, from the wire, or because it is       *)
(* queued again, by an activation or by a wake-up.  A request supersedes   *)
(* before it pushes, so unless another request does the same in between no *)
(* older row is alive (AloneOK), and none is queued again.  Snapshots and  *)
(* wires may hold older commands whose rows have expired, and a drain that *)
(* began before the push still writes them; but a session writes in order  *)
(* (SortOK), so the device reads them before the newest, and one socket's  *)
(* drain and wire end when it is replaced (TakenOK).                       *)
(***************************************************************************)
EXTENDS SceneSyncProofs

\* What a sequence holds, and the commands that are acked as applied in one.
Elems(q) == {q[i] : i \in 1 .. Len(q)}
Oks(q) == {c \in Cmd : \E i \in 1 .. Len(q) : q[i] = Ack(c, TRUE)}

Sorted(q) == \A i, j \in 1 .. Len(q) : i < j => q[i] <= q[j]

\* Commands: not yet settled, unread on the device's socket, about to be written
\* to it, known or said to be applied.
Alive == {c \in Cmd : rows[c].status \in Live}
OnWire == IF dev = NoSession THEN {} ELSE Elems(toDevice[dev])
ToDrain == IF dev = NoSession \/ dev \in kicked THEN {} ELSE batch[dev]
Confirmed == {c \in Cmd : rows[c].status = "acked"}
               \cup UNION {Oks(toHub[s]) : s \in Session}

\* Rows are numbered as they come, whatever is on its way has one, and only a
\* session that was activated drains.
KnownOK ==
  /\ \A c \in Cmd : IF c > queued THEN rows[c].status = "absent"
                    ELSE rows[c].status # "absent" /\ rows[c].kind = "set_scenes"
  /\ \A s \in Session : \A c \in batch[s] \cup Elems(toDevice[s]) \cup Oks(toHub[s]) :
       c <= queued
  /\ \A s \in Session : batch[s] # {} => s \in Activated

\* One request is between its supersede and its push, and then no row is alive;
\* only the newest row ever is.
AloneOK ==
  /\ \A q, r \in Request : request[q].pc = "push" /\ request[r].pc = "push" => q = r
  /\ (\E r \in Request : request[r].pc = "push") => Alive = {}
  /\ Alive \subseteq {queued}

\* The device reads older commands before newer ones.
SortOK == /\ dev # NoSession => Sorted(toDevice[dev])
          /\ \A c \in OnWire, d \in ToDrain : c <= d

\* What the device has is the newest command, once it took it, and it will read
\* no other.
TakenOK ==
  queued \in Confirmed => applied = payload[queued] /\ OnWire \cup ToDrain \subseteq {queued}

OrderOK == KnownOK /\ (~crossed => AloneOK /\ SortOK /\ TakenOK)
PushInv == Inv /\ OrderOK

USE DEF database, hub, device, history, budgets

-----------------------------------------------------------------------------
(* Sequences.                                                              *)

\* Nothing in the empty sequence, and it is in order.
LEMMA EmptyLemma == Elems(<<>>) = {} /\ Oks(<<>>) = {} /\ Sorted(<<>>)
BY DEF Elems, Oks, Sorted

\* Reading the first command.
LEMMA ReadFirst ==
  ASSUME NEW q \in Seq(Cmd), q # <<>>
  PROVE  /\ Head(q) \in Elems(q) /\ Elems(q) = {Head(q)} \cup Elems(Tail(q))
         /\ Sorted(q) => Sorted(Tail(q)) /\ \A c \in Elems(Tail(q)) : Head(q) <= c
<1> DEFINE p == Tail(q)
<1>1. /\ Len(q) \in Nat /\ Len(p) = Len(q) - 1 /\ Len(q) >= 1 /\ Head(q) = q[1]
      /\ \A j \in 1 .. Len(p) : j + 1 \in 1 .. Len(q) /\ p[j] = q[j + 1]
      /\ \A i \in 1 .. Len(q) : i # 1 => i - 1 \in 1 .. Len(p) /\ p[i - 1] = q[i]
      /\ 1 \in 1 .. Len(q)
  OBVIOUS
<1> HIDE DEF p
<1>2. Head(q) \in Elems(q) BY <1>1 DEF Elems
<1>3. Elems(p) \subseteq Elems(q) BY <1>1 DEF Elems
<1>4. Elems(q) \subseteq {Head(q)} \cup Elems(p)
  <2>1. ASSUME NEW i \in 1 .. Len(q) PROVE q[i] \in {Head(q)} \cup Elems(p)
    <3>1. CASE i = 1 BY <3>1, <1>1
    <3>2. CASE i # 1 BY <3>2, <1>1 DEF Elems
    <3>3. QED BY <3>1, <3>2
  <2>2. QED BY <2>1 DEF Elems
<1>5. ASSUME Sorted(q) PROVE Sorted(p) /\ \A c \in Elems(p) : Head(q) <= c
  <2>1. ASSUME NEW i \in 1 .. Len(p), NEW j \in 1 .. Len(p), i < j PROVE p[i] <= p[j]
    <3>1. i + 1 < j + 1 BY <2>1, <1>1
    <3>2. QED BY <3>1, <2>1, <1>1, <1>5 DEF Sorted
  <2>2. ASSUME NEW i \in 1 .. Len(p) PROVE Head(q) <= p[i]
    <3>1. 1 < i + 1 BY <2>2, <1>1
    <3>2. QED BY <3>1, <2>2, <1>1, <1>5 DEF Sorted
  <2>3. QED BY <2>1, <2>2 DEF Sorted, Elems
<1>6. QED BY <1>2, <1>3, <1>4, <1>5 DEF p

\* Writing a command that is not older than the others.
LEMMA WriteLast ==
  ASSUME NEW q \in Seq(Cmd), NEW c \in Cmd
  PROVE  /\ Elems(Append(q, c)) = Elems(q) \cup {c}
         /\ Sorted(q) /\ (\A e \in Elems(q) : e <= c) => Sorted(Append(q, c))
<1> DEFINE p == Append(q, c)
<1>1. /\ Len(q) \in Nat /\ Len(p) = Len(q) + 1 /\ p[Len(p)] = c /\ Len(p) \in 1 .. Len(p)
      /\ \A i \in 1 .. Len(q) : i \in 1 .. Len(p) /\ p[i] = q[i]
      /\ \A i \in 1 .. Len(p) : i # Len(p) => i \in 1 .. Len(q)
  OBVIOUS
<1> HIDE DEF p
<1>2. Elems(q) \cup {c} \subseteq Elems(p) BY <1>1 DEF Elems
<1>3. ASSUME NEW i \in 1 .. Len(p) PROVE p[i] \in Elems(q) \cup {c}
  <2>1. CASE i = Len(p) BY <2>1, <1>1
  <2>2. CASE i # Len(p) BY <2>2, <1>1 DEF Elems
  <2>3. QED BY <2>1, <2>2
<1>4. Elems(p) \subseteq Elems(q) \cup {c} BY <1>3 DEF Elems
<1>5. ASSUME Sorted(q), \A e \in Elems(q) : e <= c PROVE Sorted(p)
  <2>1. ASSUME NEW i \in 1 .. Len(p), NEW j \in 1 .. Len(p), i < j PROVE p[i] <= p[j]
    <3>1. i \in 1 .. Len(q) /\ p[i] = q[i] BY <2>1, <1>1
    <3>2. CASE j = Len(p) BY <3>1, <3>2, <1>1, <1>5 DEF Elems
    <3>3. CASE j # Len(p)
      <4>1. j \in 1 .. Len(q) /\ p[j] = q[j] BY <3>3, <1>1
      <4>2. QED BY <4>1, <3>1, <2>1, <1>5 DEF Sorted
    <3>4. QED BY <3>2, <3>3
  <2>2. QED BY <2>1 DEF Sorted
<1>6. QED BY <1>2, <1>4, <1>5 DEF p

\* Handling the first message.
LEMMA HearFirst ==
  ASSUME NEW q \in Seq(Message), q # <<>>
  PROVE  /\ Oks(Tail(q)) \subseteq Oks(q)
         /\ Head(q).type = "ack" /\ Head(q).ok => Head(q).cmd \in Oks(q)
<1> DEFINE p == Tail(q)
           m == Head(q)
<1>1. /\ Len(q) \in Nat /\ Len(p) = Len(q) - 1 /\ Len(q) >= 1 /\ m = q[1]
      /\ \A j \in 1 .. Len(p) : j + 1 \in 1 .. Len(q) /\ p[j] = q[j + 1]
      /\ 1 \in 1 .. Len(q) /\ m \in Message
  OBVIOUS
<1> HIDE DEF p, m
<1>2. Oks(p) \subseteq Oks(q) BY <1>1 DEF Oks
<1>3. ASSUME m.type = "ack", m.ok PROVE m.cmd \in Oks(q)
  <2>1. m.cmd \in Cmd /\ m = Ack(m.cmd, TRUE) BY <1>1, <1>3 DEF Message, Ack
  <2>2. QED BY <2>1, <1>1 DEF Oks
<1>4. QED BY <1>2, <1>3 DEF p, m

\* One more message.
LEMMA SayLast ==
  ASSUME NEW q \in Seq(Message), NEW m \in Message
  PROVE  \A c \in Oks(Append(q, m)) : c \in Oks(q) \/ m = Ack(c, TRUE)
<1> DEFINE p == Append(q, m)
<1>1. /\ Len(q) \in Nat /\ Len(p) = Len(q) + 1 /\ p[Len(p)] = m
      /\ \A i \in 1 .. Len(q) : p[i] = q[i]
      /\ \A i \in 1 .. Len(p) : i # Len(p) => i \in 1 .. Len(q)
  OBVIOUS
<1> HIDE DEF p
<1>2. ASSUME NEW c \in Cmd, NEW i \in 1 .. Len(p), p[i] = Ack(c, TRUE)
      PROVE  c \in Oks(q) \/ m = Ack(c, TRUE)
  <2>1. CASE i = Len(p) BY <2>1, <1>1, <1>2
  <2>2. CASE i # Len(p) BY <2>2, <1>1, <1>2 DEF Oks
  <2>3. QED BY <2>1, <2>2
<1>3. QED BY <1>2 DEF p, Oks

\* What is received of what was sent is a part of it.
LEMMA HearSome ==
  ASSUME NEW q \in Seq(Message), NEW n \in 0 .. Len(q)
  PROVE  Oks(SubSeq(q, 1, n)) \subseteq Oks(q)
<1> DEFINE p == SubSeq(q, 1, n)
<1>1. /\ Len(q) \in Nat /\ Len(p) = n /\ n \in Nat /\ n <= Len(q)
      /\ \A i \in 1 .. Len(p) : i \in 1 .. Len(q) /\ p[i] = q[i]
  OBVIOUS
<1> HIDE DEF p
<1>2. QED BY <1>1 DEF p, Oks

-----------------------------------------------------------------------------
(* Rows.                                                                   *)

\* What the variables are, and the sets made of them.
LEMMA Basics ==
  ASSUME TypeOK
  PROVE  /\ rows \in Table /\ payload \in [Cmd -> Checksum]
         /\ queued \in Nat /\ queued \in 0 .. MaxCmd
         /\ request \in [Request -> WebRequest]
         /\ step \in [Session -> Phase] /\ epoch \in Epochs /\ kicked \in SUBSET Session
         /\ batch \in [Session -> SUBSET Cmd]
         /\ toDevice \in [Session -> Seq(Cmd)] /\ toHub \in [Session -> Seq(Message)]
         /\ live \in Session \cup {NoSession} /\ dev \in Session \cup {NoSession}
         /\ NoSession \notin Session /\ Cmd \subseteq Nat
         /\ OnWire \subseteq Cmd /\ ToDrain \subseteq Cmd /\ Confirmed \subseteq Cmd
<1>1. NoSession \notin Session /\ Cmd \subseteq Nat BY DEF NoSession, Session, Cmd
<1>2. queued \in Nat BY CommandAssumption DEF TypeOK
<1>3. \A s \in Session : Elems(toDevice[s]) \subseteq Cmd /\ batch[s] \subseteq Cmd
  BY DEF TypeOK, Elems
<1>4. \A q : Oks(q) \subseteq Cmd BY DEF Oks
<1>5. OnWire \subseteq Cmd /\ ToDrain \subseteq Cmd
  BY <1>3 DEF OnWire, ToDrain, TypeOK
<1>6. Confirmed \subseteq Cmd BY <1>4 DEF Confirmed
<1>7. QED BY <1>1, <1>2, <1>5, <1>6 DEF TypeOK

\* Housekeeping keeps rows numbered, lets none come alive and acks none.
LEMMA RowsLemma ==
  ASSUME Housekeeping(rows, rows'), queued' = queued
  PROVE  /\ Alive' \subseteq Alive
         /\ \A c \in Cmd : rows'[c].status = "acked" => rows[c].status = "acked"
         /\ KnownOK => \A c \in Cmd :
              IF c > queued' THEN rows'[c].status = "absent"
              ELSE rows'[c].status # "absent" /\ rows'[c].kind = "set_scenes"
BY DEF Housekeeping, Alive, Live, KnownOK

\* A step of which the device, its socket and the drains notice nothing but that
\* a session may be closed.
Quiet ==
  /\ Housekeeping(rows, rows')
  /\ UNCHANGED <<payload, queued, batch, dev, toDevice, toHub, applied>>
  /\ kicked \subseteq kicked' /\ Activated \subseteq Activated'

LEMMA QuietLemma ==
  ASSUME TypeOK, OrderOK, Quiet
  PROVE  /\ KnownOK' /\ Alive' \subseteq Alive
         /\ SortOK => SortOK'
         /\ TakenOK => TakenOK'
<1>1. Housekeeping(rows, rows') BY DEF Quiet
<1>2. /\ queued' = queued /\ payload' = payload /\ batch' = batch /\ dev' = dev
      /\ toDevice' = toDevice /\ toHub' = toHub /\ applied' = applied
      /\ kicked \subseteq kicked' /\ Activated \subseteq Activated'
  BY DEF Quiet
<1>3. Alive' \subseteq Alive /\ \A c \in Cmd : rows'[c].status = "acked" => rows[c].status = "acked"
  BY <1>1, <1>2, RowsLemma
<1>4. KnownOK'
  <2>1. \A c \in Cmd : IF c > queued' THEN rows'[c].status = "absent"
                      ELSE rows'[c].status # "absent" /\ rows'[c].kind = "set_scenes"
    BY <1>1, <1>2, RowsLemma DEF OrderOK
  <2>2. QED BY <2>1, <1>2 DEF OrderOK, KnownOK
<1>5. OnWire' = OnWire /\ ToDrain' \subseteq ToDrain BY <1>2 DEF OnWire, ToDrain
<1>6. Confirmed' \subseteq Confirmed BY <1>2, <1>3 DEF Confirmed
<1>7. SortOK => SortOK' BY <1>2, <1>5 DEF SortOK
<1>8. TakenOK => TakenOK' BY <1>2, <1>5, <1>6 DEF TakenOK
<1>9. QED BY <1>3, <1>4, <1>7, <1>8

\* A quiet step of the hub, or of a request that is not about to push.
LEMMA QuietStep ==
  ASSUME TypeOK, OrderOK, Quiet, UNCHANGED crossed,
         \A r \in Request : request'[r].pc = "push" => request[r].pc = "push"
  PROVE  OrderOK'
<1>1. KnownOK' /\ Alive' \subseteq Alive /\ (SortOK => SortOK') /\ (TakenOK => TakenOK')
  BY QuietLemma
<1>2. AloneOK => AloneOK' BY <1>1 DEF AloneOK, Quiet
<1>3. QED BY <1>1, <1>2 DEF OrderOK

-----------------------------------------------------------------------------
(* Requests.                                                               *)

\* A request's steps before its supersede, and its end.
LEMMA WebStep ==
  ASSUME PushInv, NEW r \in Request, Web(r), ~RequestSupersede(r), ~RequestPush(r)
  PROVE  OrderOK'
<1>0. TypeOK /\ OrderOK BY DEF PushInv, Inv
<1>1. request \in [Request -> WebRequest] /\ rows \in Table BY <1>0, Basics
<1> DEFINE Same == UNCHANGED <<rows, payload, queued, batch, dev, toDevice, toHub,
                               applied, kicked, step, crossed>>
           Moves == \A q \in Request : request'[q].pc = "push" => request[q].pc = "push"
           Elsewhere == request'[r].pc # "push"
<1>r. request[r] \in WebRequest BY <1>1
<1>2. ASSUME NEW ask \in Asks, AssignBegin(r, ask) \/ PreviewBegin(r, ask)
      PROVE  Same /\ Elsewhere
  <2>1. CASE AssignBegin(r, ask)
    <3>1. Same BY <2>1 DEF AssignBegin
    <3>2. Elsewhere BY <2>1, <1>1 DEF AssignBegin
    <3>3. QED BY <3>1, <3>2
  <2>2. CASE PreviewBegin(r, ask)
    <3>1. Same BY <2>2 DEF PreviewBegin
    <3>2. Elsewhere BY <2>2, <1>1 DEF PreviewBegin
    <3>3. QED BY <3>1, <3>2
  <2>3. QED BY <1>2, <2>1, <2>2
<1>3. ASSUME AssignDelete(r) \/ AssignBuild(r) PROVE Same /\ Elsewhere
  <2>1. Same BY <1>3 DEF AssignDelete, AssignBuild
  <2>2. Elsewhere BY <1>3, <1>1, <1>r DEF AssignDelete, AssignBuild, WebRequest
  <2>3. QED BY <2>1, <2>2
<1>4. ASSUME AssignInsert(r) \/ AssignCommit(r) \/ AssignUpdate(r)
      PROVE  Same /\ Elsewhere
  <2>1. Same BY <1>4 DEF AssignInsert, AssignCommit, AssignUpdate, At
  <2>2. Elsewhere
    BY <1>4, <1>1, <1>r DEF AssignInsert, AssignCommit, AssignUpdate, At, WebRequest
  <2>3. QED BY <2>1, <2>2
<1>5. ASSUME AssignRollback(r) \/ RequestAbort(r) PROVE Same /\ Elsewhere
  <2>1. Same BY <1>5 DEF AssignRollback, RequestAbort
  <2>2. Elsewhere BY <1>5, <1>1, <1>r DEF AssignRollback, RequestAbort, WebRequest
  <2>3. QED BY <2>1, <2>2
<1>6. Same /\ Moves
  <2>1. Same /\ Elsewhere BY <1>2, <1>3, <1>4, <1>5 DEF Web, RequestStep
  <2>2. PICK new : request' = [request EXCEPT ![r] = new] BY WebKeeps
  <2>3. \A q \in Request : q # r => request'[q] = request[q] BY <2>2, <1>1
  <2>4. QED BY <2>1, <2>3
<1>7. Housekeeping(rows, rows') BY <1>1, <1>6, NothingIsHousekeeping
<1>8. Quiet BY <1>6, <1>7 DEF Quiet, Activated
<1>9. QED BY <1>0, <1>6, <1>8, QuietStep

\* After the supersede no row is alive.
LEMMA SupersedeStep ==
  ASSUME PushInv, NEW r \in Request, RequestSupersede(r) PROVE OrderOK'
<1>0. TypeOK /\ OrderOK BY DEF PushInv, Inv
<1>1. request \in [Request -> WebRequest] /\ rows \in Table BY <1>0, Basics
<1>2. /\ request' = [request EXCEPT ![r].pc = "push"]
      /\ rows' = supersedePendingCommands(rows, "set_scenes")
      /\ crossed' = (crossed \/ \E q \in Request \ {r} : request[q].pc = "push")
      /\ UNCHANGED <<payload, queued, batch, dev, toDevice, toHub, applied, kicked, step>>
  BY DEF RequestSupersede, At
<1>3. Housekeeping(rows, rows') BY <1>1, <1>2, SupersedeIsHousekeeping
<1>4. Quiet BY <1>2, <1>3 DEF Quiet, Activated
<1>5. KnownOK' /\ (SortOK => SortOK') /\ (TakenOK => TakenOK') BY <1>0, <1>4, QuietLemma
<1>6. Alive' = {}
  <2>1. ASSUME NEW c \in Cmd PROVE rows'[c].status \notin Live
    <3>1. rows[c] \in Row BY <1>1 DEF Table
    <3>2. rows[c].status \in Live => rows[c].kind = "set_scenes"
      BY <1>0 DEF OrderOK, KnownOK, Live
    <3>3. Reset(rows[c], "expired", "superseded").status = "expired"
      BY <3>1 DEF Row, Reset
    <3>4. QED BY <1>2, <3>2, <3>3 DEF supersedePendingCommands, Expire, Live
  <2>2. QED BY <2>1 DEF Alive
<1>7. ~crossed' => AloneOK'
  <2>1. \A q \in Request : q # r => request'[q] = request[q] BY <1>1, <1>2
  <2>2. ~crossed' => \A q \in Request : request'[q].pc = "push" => q = r
    BY <2>1, <1>2
  <2>3. QED BY <2>2, <1>6 DEF AloneOK
<1>8. ~crossed' => ~crossed BY <1>2
<1>9. QED BY <1>0, <1>5, <1>7, <1>8 DEF OrderOK

\* The pushed command is the only one alive, and nobody has taken it yet.
LEMMA PushStep ==
  ASSUME PushInv, NEW r \in Request, RequestPush(r) PROVE OrderOK'
<1>0. TypeOK /\ OrderOK BY DEF PushInv, Inv
<1>b. /\ rows \in Table /\ payload \in [Cmd -> Checksum] /\ queued \in Nat
      /\ request \in [Request -> WebRequest] /\ Cmd \subseteq Nat
      /\ OnWire \subseteq Cmd /\ ToDrain \subseteq Cmd /\ queued \in 0 .. MaxCmd
  BY <1>0, Basics
<1> DEFINE n == queued + 1
<1>1. /\ request[r].pc = "push" /\ request' = [request EXCEPT ![r].pc = "done"]
      /\ n \in Cmd /\ queued' = n /\ rows' = enqueueFrameCommand(rows, n, "set_scenes")
      /\ UNCHANGED <<batch, dev, toDevice, toHub, applied, kicked, step, crossed>>
  BY <1>b, CommandAssumption DEF RequestPush, At, Cmd
<1>2. /\ rows'[n].status = "pending" /\ rows'[n].kind = "set_scenes"
      /\ \A c \in Cmd : c # n => rows'[c] = rows[c]
  BY <1>1, <1>b DEF enqueueFrameCommand, AbsentRow, Table
<1>3. n > queued /\ \A c \in Nat : c <= queued => c # n /\ c <= n BY <1>b
<1> HIDE DEF n
<1>4. KnownOK'
  <2>1. ASSUME NEW c \in Cmd
        PROVE  IF c > n THEN rows'[c].status = "absent"
               ELSE rows'[c].status # "absent" /\ rows'[c].kind = "set_scenes"
    <3>1. CASE c = n BY <3>1, <1>2, <1>1, <1>b DEF n
    <3>2. CASE c # n
      <4>1. c > n <=> c > queued BY <3>2, <1>b DEF n
      <4>2. QED BY <4>1, <3>2, <1>2, <1>0 DEF OrderOK, KnownOK
    <3>3. QED BY <3>1, <3>2
  <2>2. \A s \in Session : batch[s] \cup Elems(toDevice[s]) \cup Oks(toHub[s]) \subseteq Nat
    <3>1. \A s \in Session : batch[s] \subseteq Cmd /\ Elems(toDevice[s]) \subseteq Cmd
      BY <1>0 DEF Elems, TypeOK
    <3>2. \A s \in Session : Oks(toHub[s]) \subseteq Cmd BY DEF Oks
    <3>3. QED BY <3>1, <3>2, <1>b
  <2>3. Activated' = Activated BY <1>1 DEF Activated
  <2>4. QED BY <2>1, <2>2, <2>3, <1>1, <1>3, <1>0 DEF OrderOK, KnownOK
<1>5. ASSUME ~crossed PROVE AloneOK' /\ SortOK' /\ TakenOK'
  <2>1. AloneOK /\ SortOK BY <1>5, <1>0 DEF OrderOK
  <2>2. Alive' = {n} BY <2>1, <1>1, <1>2 DEF Alive, AloneOK, Live
  <2>3. \A q \in Request : request'[q].pc # "push"
    BY <2>1, <1>1, <1>b DEF AloneOK, WebRequest
  <2>4. AloneOK' BY <2>2, <2>3, <1>1 DEF AloneOK
  <2>5. SortOK' BY <2>1, <1>1 DEF SortOK, OnWire, ToDrain
  <2>6. n \notin Confirmed'
    <3>0. \A s \in Session : \A c \in Oks(toHub[s]) : c <= queued
      BY <1>0 DEF OrderOK, KnownOK
    <3>1. \A s \in Session : n \notin Oks(toHub[s])
      <4>1. ~(n <= queued) BY <1>b DEF n
      <4>2. QED BY <3>0, <4>1
    <3>2. QED BY <3>1, <1>1, <1>2 DEF Confirmed
  <2>7. QED BY <2>4, <2>5, <2>6, <1>1 DEF TakenOK
<1>6. QED BY <1>4, <1>5, <1>1 DEF OrderOK

-----------------------------------------------------------------------------
(* The hub.                                                                *)

\* What an activation, a wake-up and the clock do to rows is housekeeping.
LEMMA HubStepLemma ==
  ASSUME PushInv, Sweep \/ \E s \in Session : Activation(s) PROVE OrderOK'
<1>0. TypeOK /\ OrderOK /\ EpochOK BY DEF PushInv, Inv
<1>b. rows \in Table /\ step \in [Session -> Phase] /\ kicked \in SUBSET Session
  BY <1>0, Basics
<1> DEFINE Same == UNCHANGED <<payload, queued, batch, dev, toDevice, toHub, applied,
                               request, crossed>>
           Grow == kicked \subseteq kicked' /\ Activated \subseteq Activated'
           Keep == Housekeeping(rows, rows')
<1>1. \A c \in Cmd : c \in SentTooLongAgo(rows) => rows[c].status = "sent"
  BY DEF SentTooLongAgo
<1>2. \A n : \A c \in Cmd : c \in SentBefore(rows, n) => rows[c].status = "sent"
  BY DEF SentBefore
<1>3. ASSUME Sweep PROVE Same /\ Grow /\ Keep
  <2>1. Same /\ Grow BY <1>3, <1>0, SweepKeeps DEF Activated
  <2>2. WakeOutdated => Keep BY <1>1, <1>b, DropOutdatedIsHousekeeping DEF WakeOutdated
  <2>3. WakeRequeue => Keep BY <1>1, <1>b, RequeueIsHousekeeping DEF WakeRequeue
  <2>4. ASSUME NEW c \in Cmd, GracePasses(c) PROVE Keep
    BY <2>4, <1>b, PassGraceIsHousekeeping DEF GracePasses, Live
  <2>5. QED BY <1>3, <2>1, <2>2, <2>3, <2>4 DEF Sweep, Wake
<1>4. ASSUME NEW s \in Session, Activation(s) PROVE Same /\ Grow /\ Keep
  <2>1. Same
    BY <1>4 DEF Activation, ActivateClaim, ActivateReport, ActivateQueue, ActivateGreet
  <2>2. kicked \subseteq kicked'
    BY <1>4 DEF Activation, ActivateClaim, ActivateReport, ActivateQueue, ActivateGreet
  <2>3. Activated \subseteq Activated'
    <3>1. PICK from, to : HubStep(s, from, to) /\ to \notin {"unused", "hello", "lost"}
      BY <1>4 DEF Activation, ActivateClaim, ActivateReport, ActivateQueue, ActivateGreet
    <3>2. QED BY <3>1, <1>b DEF HubStep, Activated
  <2>4. Keep
    <3>1. ActivateClaim(s) \/ ActivateReport(s) \/ ActivateGreet(s) => rows' = rows
      BY DEF ActivateClaim, ActivateReport, ActivateGreet
    <3>2. ActivateQueue(s) => \/ rows' = dropOutdated(rows, SentBefore(rows, cutoff[s]))
                              \/ rows' = requeueLost(rows, SentBefore(rows, cutoff[s]))
      BY DEF ActivateQueue
    <3>3. /\ Housekeeping(rows, rows)
          /\ Housekeeping(rows, dropOutdated(rows, SentBefore(rows, cutoff[s])))
          /\ Housekeeping(rows, requeueLost(rows, SentBefore(rows, cutoff[s])))
      BY <1>2, <1>b, NothingIsHousekeeping, DropOutdatedIsHousekeeping, RequeueIsHousekeeping
    <3>4. QED BY <1>4, <3>1, <3>2, <3>3 DEF Activation
  <2>5. QED BY <2>1, <2>2, <2>3, <2>4
<1>5. Same /\ Grow /\ Keep BY <1>3, <1>4
<1>6. Quiet BY <1>5 DEF Quiet
<1>7. QED BY <1>0, <1>5, <1>6, QuietStep

\* A snapshot holds the newest command or none.
LEMMA SelectStep == ASSUME PushInv, NEW s \in Session, DrainSelect(s) PROVE OrderOK'
<1>0. TypeOK /\ OrderOK BY DEF PushInv, Inv
<1>b. /\ batch \in [Session -> SUBSET Cmd] /\ queued \in Nat /\ Cmd \subseteq Nat
      /\ dev \in Session \cup {NoSession} /\ OnWire \subseteq Cmd
      /\ toDevice \in [Session -> Seq(Cmd)]
  BY <1>0, Basics
<1>1. /\ step[s] \in Claimed /\ batch' = [batch EXCEPT ![s] = Pending(rows)]
      /\ UNCHANGED <<rows, payload, queued, request, dev, toDevice, toHub, applied,
                     kicked, step, crossed>>
  BY DEF DrainSelect
<1>2. Pending(rows) \subseteq Alive /\ s \in Activated
  BY <1>1 DEF Pending, Alive, Live, Activated, Claimed
<1>3. \A c \in Alive : c <= queued BY <1>0, <1>b DEF OrderOK, KnownOK, Alive, Live
<1>4. \A k \in Session : k # s => batch'[k] = batch[k] BY <1>1, <1>b
<1>5. batch'[s] = Pending(rows) BY <1>1, <1>b
<1>6. KnownOK'
  <2>1. Activated' = Activated BY <1>1 DEF Activated
  <2>2. \A k \in Session : \A c \in batch'[k] : c <= queued
    BY <1>0, <1>2, <1>3, <1>4, <1>5 DEF OrderOK, KnownOK
  <2>3. \A k \in Session : batch'[k] # {} => k \in Activated
    BY <1>0, <1>2, <1>4 DEF OrderOK, KnownOK
  <2>4. QED BY <2>1, <2>2, <2>3, <1>0, <1>1 DEF OrderOK, KnownOK
<1>7. ASSUME ~crossed PROVE AloneOK' /\ SortOK' /\ TakenOK'
  <2>1. AloneOK /\ SortOK /\ TakenOK BY <1>7, <1>0 DEF OrderOK
  <2>2. OnWire' = OnWire /\ Confirmed' = Confirmed /\ Alive' = Alive
    BY <1>1 DEF OnWire, Confirmed, Alive
  <2>3. ToDrain' \subseteq ToDrain \cup {queued}
    BY <2>1, <1>1, <1>2, <1>4, <1>5, <1>b DEF ToDrain, AloneOK
  <2>4. AloneOK' BY <2>1, <2>2, <1>1 DEF AloneOK
  <2>5. \A c \in OnWire : c <= queued
    BY <1>0, <1>b DEF OrderOK, KnownOK, OnWire
  <2>6. SortOK' BY <2>1, <2>2, <2>3, <2>5, <1>1 DEF SortOK
  <2>7. TakenOK' BY <2>1, <2>2, <2>3, <1>1 DEF TakenOK
  <2>8. QED BY <2>4, <2>6, <2>7
<1>8. QED BY <1>6, <1>7, <1>1 DEF OrderOK

\* The oldest command of a snapshot goes behind what is on the wire.
LEMMA SendStep == ASSUME PushInv, NEW s \in Session, DrainSend(s) PROVE OrderOK'
<1>0. TypeOK /\ OrderOK BY DEF PushInv, Inv
<1>b. /\ batch \in [Session -> SUBSET Cmd] /\ queued \in Nat /\ Cmd \subseteq Nat
      /\ dev \in Session \cup {NoSession} /\ OnWire \subseteq Cmd /\ rows \in Table
      /\ toDevice \in [Session -> Seq(Cmd)] /\ NoSession \notin Session /\ epoch \in Epochs
  BY <1>0, Basics
<1> DEFINE c == First(batch[s])
<1>1. batch[s] # {} /\ batch[s] \subseteq Cmd BY <1>b DEF DrainSend
<1>2. c \in batch[s] /\ c \in Cmd /\ \A d \in batch[s] : c <= d
  BY <1>1, OldestExists DEF First
<1>3. /\ UNCHANGED <<payload, queued, request, dev, toHub, applied, kicked, step, crossed>>
      /\ rows' = rows \/ rows' = markSent(rows, c, epoch)
      /\ batch' = [batch EXCEPT ![s] = {}] \/ batch' = [batch EXCEPT ![s] = @ \ {c}]
      /\ \/ UNCHANGED toDevice
         \/ /\ s \notin kicked /\ dev = s
            /\ toDevice' = [toDevice EXCEPT ![s] = Append(@, c)]
            /\ batch' = [batch EXCEPT ![s] = @ \ {c}]
  BY DEF DrainSend
<1> HIDE DEF c
<1>4. Housekeeping(rows, rows')
  BY <1>2, <1>3, <1>b, NothingIsHousekeeping, MarkSentIsHousekeeping
<1>5. /\ Alive' \subseteq Alive
      /\ \A d \in Cmd : rows'[d].status = "acked" => rows[d].status = "acked"
      /\ \A d \in Cmd : IF d > queued' THEN rows'[d].status = "absent"
                        ELSE rows'[d].status # "absent" /\ rows'[d].kind = "set_scenes"
  BY <1>4, <1>3, <1>0, RowsLemma DEF OrderOK
<1>6. \A k \in Session : batch'[k] \subseteq batch[k] BY <1>3, <1>b
<1>7. toDevice[s] \in Seq(Cmd) /\ Elems(Append(toDevice[s], c)) = Elems(toDevice[s]) \cup {c}
  BY <1>2, <1>b, WriteLast
<1>8. \A k \in Session : \A d \in Elems(toDevice'[k]) : d \in Elems(toDevice[k]) \cup batch[k]
  <2>1. CASE UNCHANGED toDevice BY <2>1
  <2>2. CASE toDevice' = [toDevice EXCEPT ![s] = Append(@, c)] BY <2>2, <1>2, <1>7, <1>b
  <2>3. QED BY <2>1, <2>2, <1>3
<1>9. KnownOK'
  <2>1. Activated' = Activated BY <1>3 DEF Activated
  <2>2. QED BY <2>1, <1>3, <1>5, <1>6, <1>8, <1>0 DEF OrderOK, KnownOK
<1>10. ASSUME ~crossed PROVE AloneOK' /\ SortOK' /\ TakenOK'
  <2>1. AloneOK /\ SortOK /\ TakenOK BY <1>10, <1>0 DEF OrderOK
  <2>2. AloneOK' BY <2>1, <1>3, <1>5 DEF AloneOK
  <2>3. Confirmed' \subseteq Confirmed BY <1>3, <1>5 DEF Confirmed
  <2>4. ToDrain' \subseteq ToDrain BY <1>3, <1>6, <1>b DEF ToDrain
  <2>5. OnWire' \subseteq OnWire \cup ToDrain
    <3>1. CASE UNCHANGED toDevice BY <3>1, <1>3 DEF OnWire
    <3>2. CASE dev = s /\ s \notin kicked
      BY <3>2, <1>3, <1>8, <1>b DEF OnWire, ToDrain
    <3>3. QED BY <3>1, <3>2, <1>3
  <2>6. TakenOK' BY <2>1, <2>3, <2>4, <2>5, <1>3 DEF TakenOK
  <2>7. SortOK'
    <3>1. CASE UNCHANGED toDevice
      <4>1. OnWire' = OnWire BY <3>1, <1>3 DEF OnWire
      <4>2. QED BY <4>1, <3>1, <2>1, <2>4, <1>3 DEF SortOK
    <3>2. CASE /\ s \notin kicked /\ dev = s
               /\ toDevice' = [toDevice EXCEPT ![s] = Append(@, c)]
               /\ batch' = [batch EXCEPT ![s] = @ \ {c}]
      <4>1. /\ OnWire = Elems(toDevice[s]) /\ ToDrain = batch[s]
            /\ OnWire' = OnWire \cup {c} /\ ToDrain' = batch[s] \ {c}
            /\ toDevice'[dev'] = Append(toDevice[s], c)
        BY <3>2, <1>3, <1>7, <1>b DEF OnWire, ToDrain
      <4>2. Sorted(toDevice[s]) /\ \A e \in Elems(toDevice[s]) : e <= c
        BY <4>1, <3>2, <2>1, <1>2, <1>b DEF SortOK
      <4>3. Sorted(Append(toDevice[s], c)) BY <4>2, <1>2, <1>7, WriteLast
      <4>4. \A e \in OnWire', d \in ToDrain' : e <= d
        BY <4>1, <1>2, <2>1 DEF SortOK
      <4>5. QED BY <4>1, <4>3, <4>4 DEF SortOK
    <3>3. QED BY <3>1, <3>2, <1>3
  <2>8. QED BY <2>2, <2>6, <2>7
<1>11. QED BY <1>9, <1>10, <1>3 DEF OrderOK

\* An ack settles its row, and says nothing that was not said before.
LEMMA HearStep == ASSUME PushInv, NEW s \in Session, HandleMessage(s) PROVE OrderOK'
<1>0. TypeOK /\ OrderOK BY DEF PushInv, Inv
<1>b. /\ rows \in Table /\ toHub \in [Session -> Seq(Message)] /\ queued \in Nat
  BY <1>0, Basics
<1> DEFINE m == Head(toHub[s])
<1>1. /\ toHub[s] # <<>> /\ toHub' = [toHub EXCEPT ![s] = Tail(@)]
      /\ UNCHANGED <<payload, queued, request, batch, dev, toDevice, applied, kicked, step,
                     crossed>>
      /\ \/ m.type = "ack" /\ rows' = settleAck(rows, m.cmd, m.ok)
         \/ rows' = rows
  BY DEF HandleMessage
<1>2. m \in Message /\ toHub[s] \in Seq(Message) BY <1>1, <1>b
<1>3. /\ Oks(Tail(toHub[s])) \subseteq Oks(toHub[s])
      /\ m.type = "ack" /\ m.ok => m.cmd \in Oks(toHub[s])
  BY <1>1, <1>2, HearFirst
<1>4. \A k \in Session : Oks(toHub'[k]) \subseteq Oks(toHub[k])
  BY <1>1, <1>3, <1>b
<1> HIDE DEF m
<1>5. \A c \in Cmd :
        \/ rows'[c] = rows[c]
        \/ /\ rows[c].status \in Live /\ rows'[c].kind = rows[c].kind
           /\ rows'[c].status \in {"acked", "failed"}
           /\ rows'[c].status = "acked" => c \in Oks(toHub[s])
  <2>1. CASE rows' = rows BY <2>1
  <2>2. CASE m.type = "ack" /\ rows' = settleAck(rows, m.cmd, m.ok)
    <3>1. m.cmd \in Cmd /\ m.ok \in BOOLEAN BY <2>2, <1>2 DEF Message
    <3>2. ASSUME NEW c \in Cmd, rows'[c] # rows[c]
          PROVE  /\ c = m.cmd /\ rows[c].status \in Live
                 /\ rows'[c] = IF m.ok THEN Reset(rows[c], "acked", "none")
                                       ELSE Reset(rows[c], "failed", "device_error")
      BY <3>1, <3>2, <2>2, <1>b DEF settleAck, Table
    <3>3. \A c \in Cmd : /\ Reset(rows[c], "acked", "none").status = "acked"
                         /\ Reset(rows[c], "acked", "none").kind = rows[c].kind
                         /\ Reset(rows[c], "failed", "device_error").status = "failed"
                         /\ Reset(rows[c], "failed", "device_error").kind = rows[c].kind
      BY <1>b DEF Reset, Table, Row
    <3>4. QED BY <3>1, <3>2, <3>3, <1>3, <2>2
  <2>3. QED BY <2>1, <2>2, <1>1
<1>6. Alive' \subseteq Alive BY <1>5 DEF Alive, Live
<1>7. Confirmed' \subseteq Confirmed BY <1>4, <1>5 DEF Confirmed
<1>8. OnWire' = OnWire /\ ToDrain' = ToDrain BY <1>1 DEF OnWire, ToDrain
<1>9. KnownOK'
  <2>1. Activated' = Activated BY <1>1 DEF Activated
  <2>2. \A c \in Cmd : IF c > queued THEN rows'[c].status = "absent"
                      ELSE rows'[c].status # "absent" /\ rows'[c].kind = "set_scenes"
    BY <1>5, <1>0 DEF OrderOK, KnownOK, Live
  <2>3. QED BY <2>1, <2>2, <1>1, <1>4, <1>0 DEF OrderOK, KnownOK
<1>10. ASSUME ~crossed PROVE AloneOK' /\ SortOK' /\ TakenOK'
  <2>1. AloneOK /\ SortOK /\ TakenOK BY <1>10, <1>0 DEF OrderOK
  <2>2. AloneOK' BY <2>1, <1>1, <1>6 DEF AloneOK
  <2>3. SortOK' BY <2>1, <1>1, <1>8 DEF SortOK
  <2>4. TakenOK' BY <2>1, <1>1, <1>7, <1>8 DEF TakenOK
  <2>5. QED BY <2>2, <2>3, <2>4
<1>11. QED BY <1>9, <1>10, <1>1 DEF OrderOK

-----------------------------------------------------------------------------
(* The device.                                                             *)

\* A new socket starts with nothing on it, and no drain.
LEMMA ConnectStep == ASSUME PushInv, NEW s \in Session, Connect(s) PROVE OrderOK'
<1>0. TypeOK /\ OrderOK /\ SessionOK BY DEF PushInv, Inv
<1>b. step \in [Session -> Phase] /\ NoSession \notin Session BY <1>0, Basics
<1>1. /\ dev = NoSession /\ dev' = s
      /\ step[s] = "unused" /\ step' = [step EXCEPT ![s] = "hello"]
      /\ UNCHANGED <<rows, payload, queued, request, batch, kicked, toDevice, toHub, applied,
                     crossed>>
  BY DEF Connect
<1>2. Activated' = Activated BY <1>1, <1>b DEF Activated
<1>3. toDevice[s] = <<>> /\ batch[s] = {}
  BY <1>1, <1>0 DEF SessionOK, OrderOK, KnownOK, Activated
<1>4. OnWire' = {} /\ ToDrain' = {}
  BY <1>1, <1>3, <1>b, EmptyLemma DEF OnWire, ToDrain
<1>5. Confirmed' = Confirmed /\ Alive' = Alive BY <1>1 DEF Confirmed, Alive
<1>6. KnownOK' BY <1>0, <1>1, <1>2 DEF OrderOK, KnownOK
<1>7. ASSUME ~crossed PROVE AloneOK' /\ SortOK' /\ TakenOK'
  <2>1. AloneOK /\ TakenOK BY <1>7, <1>0 DEF OrderOK
  <2>2. AloneOK' BY <2>1, <1>1, <1>5 DEF AloneOK
  <2>3. SortOK' BY <1>1, <1>3, <1>4, EmptyLemma DEF SortOK
  <2>4. TakenOK' BY <2>1, <1>1, <1>4, <1>5 DEF TakenOK
  <2>5. QED BY <2>2, <2>3, <2>4
<1>8. QED BY <1>6, <1>7, <1>1 DEF OrderOK

\* What the device reads is the oldest on the wire; when it takes the newest,
\* nothing else is left to read.
LEMMA ReadStep == ASSUME PushInv, NEW s \in Session, DeviceRead(s) PROVE OrderOK'
<1>0. TypeOK /\ OrderOK BY DEF PushInv, Inv
<1>b. /\ payload \in [Cmd -> Checksum] /\ queued \in Nat /\ Cmd \subseteq Nat
      /\ toDevice \in [Session -> Seq(Cmd)] /\ toHub \in [Session -> Seq(Message)]
      /\ batch \in [Session -> SUBSET Cmd] /\ NoSession \notin Session
  BY <1>0, Basics
<1> DEFINE c == Head(toDevice[s])
<1>1. /\ dev = s /\ toDevice[s] # <<>>
      /\ UNCHANGED <<rows, payload, queued, request, batch, kicked, dev, step, crossed>>
  BY DEF DeviceRead
<1>2. /\ c \in Cmd /\ payload[c] \in Checksum
      /\ toDevice' = [toDevice EXCEPT ![s] = Tail(toDevice[s])]
      /\ Tail(toDevice[s]) \in Seq(Cmd)
      /\ \/ /\ toHub' = [toHub EXCEPT ![s] = Append(toHub[s], Ack(c, FALSE))]
            /\ UNCHANGED applied
         \/ /\ applied' = payload[c]
            /\ toHub' = [toHub EXCEPT
                 ![s] = Append(Append(toHub[s], Ack(c, TRUE)), Report(payload[c]))]
  BY <1>0, ReadLemma
<1>3. /\ c \in Elems(toDevice[s])
      /\ Elems(toDevice[s]) = {c} \cup Elems(Tail(toDevice[s]))
      /\ Sorted(toDevice[s]) => /\ Sorted(Tail(toDevice[s]))
                                /\ \A d \in Elems(Tail(toDevice[s])) : c <= d
  BY <1>1, <1>b, ReadFirst
<1> HIDE DEF c
<1>4. /\ OnWire = Elems(toDevice[s]) /\ OnWire' = Elems(Tail(toDevice[s]))
      /\ OnWire = {c} \cup OnWire' /\ ToDrain' = ToDrain
  BY <1>1, <1>2, <1>3, <1>b DEF OnWire, ToDrain
<1>5. \/ /\ UNCHANGED applied
         /\ \A k \in Session : Oks(toHub'[k]) \subseteq Oks(toHub[k])
      \/ /\ applied' = payload[c]
         /\ \A k \in Session : Oks(toHub'[k]) \subseteq Oks(toHub[k]) \cup {c}
  <2>1. /\ toHub[s] \in Seq(Message) /\ Ack(c, TRUE) \in Message
        /\ Ack(c, FALSE) \in Message /\ Report(payload[c]) \in Message
    BY <1>2, <1>b, MessageLemma
  <2>2. \A d : Ack(c, FALSE) # Ack(d, TRUE) /\ Report(payload[c]) # Ack(d, TRUE)
        /\ (Ack(c, TRUE) = Ack(d, TRUE) => c = d)
    <3>1. \A d : /\ Ack(d, TRUE).type = "ack" /\ Ack(d, TRUE).ok = TRUE
                 /\ Ack(d, TRUE).cmd = d /\ Ack(c, FALSE).ok = FALSE
                 /\ Report(payload[c]).type = "report"
      BY DEF Ack, Report
    <3>2. QED BY <3>1
  <2>3. CASE /\ toHub' = [toHub EXCEPT ![s] = Append(toHub[s], Ack(c, FALSE))]
             /\ UNCHANGED applied
    <3>1. Oks(Append(toHub[s], Ack(c, FALSE))) \subseteq Oks(toHub[s])
      BY <2>1, <2>2, SayLast
    <3>2. QED BY <3>1, <2>3, <1>b
  <2>4. CASE /\ applied' = payload[c]
             /\ toHub' = [toHub EXCEPT
                  ![s] = Append(Append(toHub[s], Ack(c, TRUE)), Report(payload[c]))]
    <3> DEFINE q == Append(toHub[s], Ack(c, TRUE))
    <3>1. q \in Seq(Message) BY <2>1, AppendLemma
    <3>2. Oks(q) \subseteq Oks(toHub[s]) \cup {c} BY <2>1, <2>2, SayLast
    <3> HIDE DEF q
    <3>3. Oks(Append(q, Report(payload[c]))) \subseteq Oks(q) BY <3>1, <2>1, <2>2, SayLast
    <3>4. toHub' = [toHub EXCEPT ![s] = Append(q, Report(payload[c]))] BY <2>4 DEF q
    <3>5. QED BY <3>2, <3>3, <3>4, <2>4, <1>b
  <2>5. QED BY <2>3, <2>4, <1>2
<1>6. Alive' = Alive BY <1>1 DEF Alive
<1>7. c <= queued BY <1>0, <1>3 DEF OrderOK, KnownOK
<1>8. KnownOK'
  <2>1. Activated' = Activated BY <1>1 DEF Activated
  <2>2. \A k \in Session : Elems(toDevice'[k]) \subseteq Elems(toDevice[k])
    BY <1>2, <1>3, <1>b
  <2>3. \A k \in Session : \A d \in Oks(toHub'[k]) : d <= queued
    BY <1>5, <1>7, <1>0 DEF OrderOK, KnownOK
  <2>4. QED BY <2>1, <2>2, <2>3, <1>1, <1>0 DEF OrderOK, KnownOK
<1>9. ASSUME ~crossed PROVE AloneOK' /\ SortOK' /\ TakenOK'
  <2>1. AloneOK /\ SortOK /\ TakenOK BY <1>9, <1>0 DEF OrderOK
  <2>2. AloneOK' BY <2>1, <1>1, <1>6 DEF AloneOK
  <2>3. SortOK'
    <3>1. toDevice'[dev'] = Tail(toDevice[s]) BY <1>1, <1>2, <1>b
    <3>2. QED BY <3>1, <2>1, <1>1, <1>3, <1>4 DEF SortOK
  <2>4. TakenOK'
    <3>1. CASE queued \in Confirmed
      <4>1. c = queued BY <3>1, <2>1, <1>4 DEF TakenOK
      <4>2. applied' = payload[queued] BY <4>1, <3>1, <2>1, <1>5 DEF TakenOK
      <4>3. QED BY <4>2, <3>1, <2>1, <1>1, <1>4 DEF TakenOK
    <3>2. CASE queued \notin Confirmed /\ queued \in Confirmed'
      <4>1. c = queued /\ applied' = payload[c]
        <5>1. rows'[queued].status # "acked" \/ queued \notin Cmd
          BY <3>2, <1>1 DEF Confirmed
        <5>2. PICK k \in Session : queued \in Oks(toHub'[k])
          BY <3>2, <5>1 DEF Confirmed
        <5>3. queued \notin Oks(toHub[k]) BY <3>2 DEF Confirmed
        <5>4. QED BY <5>2, <5>3, <1>5
      <4>2. ASSUME NEW d \in OnWire' \cup ToDrain' PROVE d = queued
        <5>1. c <= d
          <6>1. CASE d \in OnWire' BY <6>1, <2>1, <1>1, <1>3, <1>4, <1>b DEF SortOK
          <6>2. CASE d \in ToDrain' BY <6>2, <2>1, <1>4 DEF SortOK
          <6>3. QED BY <4>2, <6>1, <6>2
        <5>2. d \in Cmd /\ d <= queued
          BY <4>2, <1>0, <1>1, <1>4, Basics DEF OrderOK, KnownOK, OnWire, ToDrain
        <5>3. QED BY <5>1, <5>2, <4>1, <1>b
      <4>3. QED BY <4>1, <4>2, <1>1 DEF TakenOK
    <3>3. QED BY <3>1, <3>2, <1>1 DEF TakenOK
  <2>5. QED BY <2>2, <2>3, <2>4
<1>10. QED BY <1>8, <1>9, <1>1 DEF OrderOK

\* A state message acks nothing.
LEMMA StateStep == ASSUME PushInv, NEW s \in Session, DeviceState(s) PROVE OrderOK'
<1>0. TypeOK /\ OrderOK BY DEF PushInv, Inv
<1>b. toHub \in [Session -> Seq(Message)] BY <1>0, Basics
<1>1. /\ toHub' = [toHub EXCEPT ![s] = Append(toHub[s], Report(applied))]
      /\ UNCHANGED <<rows, payload, queued, request, batch, kicked, dev, toDevice, step,
                     applied, crossed>>
  BY DEF DeviceState
<1>2. Report(applied) \in Message /\ \A d : Report(applied) # Ack(d, TRUE)
  <2>1. Report(applied) \in Message BY <1>0, MessageLemma DEF TypeOK
  <2>2. Report(applied).type = "report" /\ \A d : Ack(d, TRUE).type = "ack"
    BY DEF Report, Ack
  <2>3. QED BY <2>1, <2>2
<1>3. Oks(Append(toHub[s], Report(applied))) \subseteq Oks(toHub[s]) BY <1>2, <1>b, SayLast
<1>4. \A k \in Session : Oks(toHub'[k]) \subseteq Oks(toHub[k]) BY <1>1, <1>3, <1>b
<1>5. /\ OnWire' = OnWire /\ ToDrain' = ToDrain /\ Alive' = Alive
      /\ Activated' = Activated /\ Confirmed' \subseteq Confirmed
  BY <1>1, <1>4 DEF OnWire, ToDrain, Alive, Activated, Confirmed
<1>6. KnownOK' BY <1>0, <1>1, <1>4, <1>5 DEF OrderOK, KnownOK
<1>7. AloneOK => AloneOK' BY <1>1, <1>5 DEF AloneOK
<1>8. (SortOK => SortOK') /\ (TakenOK => TakenOK') BY <1>1, <1>5 DEF SortOK, TakenOK
<1>9. QED BY <1>0, <1>1, <1>6, <1>7, <1>8 DEF OrderOK

\* With its socket the device leaves what it has not read.
LEMMA LeaveStep == ASSUME PushInv, NEW s \in Session, DeviceLeave(s) PROVE OrderOK'
<1>0. TypeOK /\ OrderOK BY DEF PushInv, Inv
<1>b. /\ step \in [Session -> Phase] /\ toDevice \in [Session -> Seq(Cmd)]
      /\ toHub \in [Session -> Seq(Message)]
  BY <1>0, Basics
<1>1. /\ dev' = NoSession /\ toDevice' = [toDevice EXCEPT ![s] = <<>>]
      /\ UNCHANGED <<rows, payload, queued, request, batch, kicked, applied, crossed>>
      /\ UNCHANGED step \/ HubStep(s, "hello", "lost")
  BY DEF DeviceLeave
<1>2. PICK n \in 0 .. Len(toHub[s]) : toHub' = [toHub EXCEPT ![s] = SubSeq(@, 1, n)]
  BY DEF DeviceLeave
<1>3. Oks(SubSeq(toHub[s], 1, n)) \subseteq Oks(toHub[s]) BY <1>b, HearSome
<1>4. \A k \in Session : /\ Oks(toHub'[k]) \subseteq Oks(toHub[k])
                         /\ Elems(toDevice'[k]) \subseteq Elems(toDevice[k])
  BY <1>1, <1>2, <1>3, <1>b, EmptyLemma
<1>5. OnWire' = {} /\ ToDrain' = {} BY <1>1 DEF OnWire, ToDrain
<1>6. Activated' = Activated BY <1>1, <1>b DEF HubStep, Activated
<1>7. Alive' = Alive /\ Confirmed' \subseteq Confirmed BY <1>1, <1>4 DEF Alive, Confirmed
<1>8. KnownOK' BY <1>0, <1>1, <1>4, <1>6 DEF OrderOK, KnownOK
<1>9. AloneOK => AloneOK' BY <1>1, <1>7 DEF AloneOK
<1>10. SortOK' /\ (TakenOK => TakenOK') BY <1>1, <1>5, <1>7 DEF SortOK, TakenOK
<1>11. QED BY <1>0, <1>1, <1>8, <1>9, <1>10 DEF OrderOK

-----------------------------------------------------------------------------
(* The theorems.                                                           *)

\* At first nothing was pushed.
LEMMA InitOrder == Init => OrderOK
<1> SUFFICES ASSUME Init PROVE OrderOK OBVIOUS
<1> USE DEF Init
<1>1. \A c \in Cmd : rows[c].status = "absent" BY EmptyTableLemma
<1>2. Alive = {} BY <1>1 DEF Alive, Live
<1>3. OnWire = {} /\ ToDrain = {} BY DEF OnWire, ToDrain
<1>4. Confirmed = {} BY <1>1, EmptyLemma DEF Confirmed
<1>5. KnownOK
  <2>1. \A c \in Cmd : c > queued BY DEF Cmd
  <2>2. QED BY <2>1, <1>1, EmptyLemma DEF KnownOK
<1>6. AloneOK /\ SortOK /\ TakenOK
  BY <1>2, <1>3, <1>4 DEF AloneOK, SortOK, TakenOK, NoRequest
<1>7. QED BY <1>5, <1>6 DEF OrderOK

\* Every step keeps the order.
LEMMA StepOrder == PushInv /\ [Next]_vars => OrderOK'
<1>1. ASSUME PushInv, NEW r \in Request, Web(r) PROVE OrderOK'
  BY <1>1, WebStep, SupersedeStep, PushStep
<1>2. ASSUME PushInv, Sweep PROVE OrderOK' BY <1>2, HubStepLemma
<1>3. ASSUME PushInv, NEW s \in Session, Activation(s) PROVE OrderOK'
  BY <1>3, HubStepLemma
<1>4. ASSUME PushInv, NEW s \in Session, Drain(s) PROVE OrderOK'
  BY <1>4, SelectStep, SendStep DEF Drain
<1>5. ASSUME PushInv, NEW s \in Session, Link(s) PROVE OrderOK'
  BY <1>3, <1>4, <1>5, HearStep, ConnectStep, ReadStep, StateStep, LeaveStep DEF Link
<1>6. ASSUME PushInv, UNCHANGED vars PROVE OrderOK'
  <2>1. TypeOK /\ OrderOK /\ rows \in Table BY <1>6, Basics DEF PushInv, Inv
  <2>2. Housekeeping(rows, rows') BY <1>6, <2>1, NothingIsHousekeeping DEF vars
  <2>3. Quiet BY <1>6, <2>2 DEF vars, Quiet, Activated
  <2>4. QED BY <1>6, <2>1, <2>3, QuietStep DEF vars
<1>7. QED BY <1>1, <1>2, <1>5, <1>6, NextLemma

\* As long as no request supersedes between the supersede and the push of
\* another: only the newest push is alive, drains and wires hold older ones only
\* before it, and once it was taken nothing else is left for the device to read.
THEOREM OrderHolds == Spec => []OrderOK
<1>1. Init => PushInv BY InitInv, InitOrder DEF PushInv
<1>2. PushInv /\ [Next]_vars => PushInv' BY StepInv, StepOrder DEF PushInv
<1>3. PushInv => OrderOK BY DEF PushInv
<1>4. QED BY <1>1, <1>2, <1>3, PTL DEF Spec

\* The newest push, once acked as applied, is what the device has: whatever was
\* lost, written before `ready`, sent again by an activation or a wake-up, or
\* refused on the way, and whichever socket its ack came by, as long as requests
\* do not cross between supersede and push.
THEOREM NewestWins == Spec => []NewestPushWins
<1>1. ASSUME OrderOK, ~crossed, NEW c \in Cmd, c = queued, rows[c].status = "acked"
      PROVE  applied = payload[c]
  <2>1. c \in Confirmed BY <1>1 DEF Confirmed
  <2>2. QED BY <2>1, <1>1 DEF OrderOK, TakenOK
<1>2. OrderOK => NewestPushWins BY <1>1 DEF NewestPushWins
<1>3. QED BY <1>2, OrderHolds, PTL
=============================================================================
