------------------------- MODULE CommandRowsProofs -------------------------
(***************************************************************************)
(* What each statement on frame_commands may do to the table, for every    *)
(* number of commands, every set of types and every activation count.      *)
(***************************************************************************)
EXTENDS CommandRows, WellFoundedInduction, TLAPS

\* What every statement but the INSERT and the acknowledgement does to a row:
\* it keeps its type and leaves it alone, or it was pending or sent and is now
\* pending, sent or expired.
Housekeeping(t, u) ==
  /\ u \in Table
  /\ \A c \in Cmd : u[c].kind = t[c].kind
  /\ \A c \in Cmd :
       \/ u[c] = t[c]
       \/ t[c].status \in Live /\ u[c].status \in Live \cup {"expired"}

\* Housekeeping statements compose: the hub runs several in one step.
LEMMA HousekeepingComposes ==
  ASSUME NEW t, NEW u, NEW v, Housekeeping(t, u), Housekeeping(u, v)
  PROVE  Housekeeping(t, v)
<1>1. ASSUME NEW c \in Cmd
      PROVE  v[c] = t[c] \/ (t[c].status \in Live
                             /\ v[c].status \in Live \cup {"expired"})
  <2>1. CASE v[c] = u[c] BY <2>1 DEF Housekeeping
  <2>2. CASE u[c] = t[c] BY <2>2 DEF Housekeeping
  <2>3. CASE v[c] # u[c] /\ u[c] # t[c] BY <2>3 DEF Housekeeping
  <2>4. QED BY <2>1, <2>2, <2>3
<1>2. \A c \in Cmd : v[c].kind = t[c].kind BY DEF Housekeeping
<1>3. QED BY <1>1, <1>2 DEF Housekeeping

\* A statement that changes nothing is a housekeeping statement.
LEMMA NothingIsHousekeeping ==
  ASSUME NEW t \in Table PROVE Housekeeping(t, t)
BY DEF Housekeeping

\* Expiring live rows, whatever set of them, is housekeeping.
LEMMA ExpireIsHousekeeping ==
  ASSUME NEW t \in Table, NEW which,
         \A c \in Cmd : c \in which => t[c].status \in Live,
         NEW error \in {"none", "superseded", "frame_revoked"}
  PROVE  Housekeeping(t, Expire(t, which, error))
<1>1. ASSUME NEW c \in Cmd PROVE Reset(t[c], "expired", error) \in Row
  <2>1. t[c] \in Row BY DEF Table
  <2>2. QED BY <2>1, CommandAssumption DEF Row, Reset, Live, Settled
<1>2. ASSUME NEW c \in Cmd
      PROVE  /\ Reset(t[c], "expired", error).status = "expired"
             /\ Reset(t[c], "expired", error).kind = t[c].kind
  <2>1. t[c] \in Row BY DEF Table
  <2>2. QED BY <2>1 DEF Row, Reset
<1>3. Expire(t, which, error) \in Table BY <1>1 DEF Expire, Table
<1>4. QED BY <1>2, <1>3 DEF Housekeeping, Expire

-----------------------------------------------------------------------------
\* Each statement in turn.

\* supersedePendingCommands only expires live rows.
LEMMA SupersedeIsHousekeeping ==
  ASSUME NEW t \in Table, NEW k
  PROVE  Housekeeping(t, supersedePendingCommands(t, k))
BY ExpireIsHousekeeping DEF supersedePendingCommands

\* The last UPDATE of revokeFrame only expires live rows.
LEMMA ExpireRevokedIsHousekeeping ==
  ASSUME NEW t \in Table PROVE Housekeeping(t, expireRevoked(t))
BY ExpireIsHousekeeping DEF expireRevoked

\* expireStaleCommands only expires live rows.
LEMMA ExpireStaleIsHousekeeping ==
  ASSUME NEW t \in Table PROVE Housekeeping(t, expireStaleCommands(t))
BY ExpireIsHousekeeping DEF expireStaleCommands

\* The first statement of redeliverSentCommands only expires lost rows,
\* which are live.
LEMMA DropOutdatedIsHousekeeping ==
  ASSUME NEW t \in Table, NEW lost,
         \A c \in Cmd : c \in lost => t[c].status = "sent"
  PROVE  Housekeeping(t, dropOutdated(t, lost))
<1> DEFINE which == {c \in lost : \E d \in Cmd : /\ d > c
                                                 /\ t[d].kind = t[c].kind
                                                 /\ t[d].status \in Live}
<1>1. \A c \in Cmd : c \in which => t[c].status \in Live BY DEF Live
<1>2. Housekeeping(t, Expire(t, which, "superseded"))
  <2> HIDE DEF which
  <2>1. QED BY <1>1, ExpireIsHousekeeping
<1>3. QED BY <1>2 DEF dropOutdated

\* The second statement of redeliverSentCommands moves live rows between
\* sent and pending and settles none.
LEMMA RequeueIsHousekeeping ==
  ASSUME NEW t \in Table, NEW lost,
         \A c \in Cmd : c \in lost => t[c].status = "sent"
  PROVE  Housekeeping(t, requeueLost(t, lost))
<1> DEFINE row(c) == [t[c] EXCEPT !.status = "pending", !.sentAt = 0,
                                  !.overdue = FALSE]
<1>1. ASSUME NEW c \in Cmd PROVE row(c) \in Row /\ row(c).status = "pending" /\ row(c).kind = t[c].kind
  <2>1. t[c] \in Row BY DEF Table
  <2>2. QED BY <2>1, CommandAssumption DEF Row, Live
<1>2. requeueLost(t, lost) \in Table BY <1>1 DEF requeueLost, Table
<1>3. QED BY <1>1, <1>2 DEF Housekeeping, requeueLost, Live

\* drainCommands' mark, guarded by status = 'pending', settles nothing.
LEMMA MarkSentIsHousekeeping ==
  ASSUME NEW t \in Table, NEW c \in Cmd, NEW stamp \in Epochs
  PROVE  Housekeeping(t, markSent(t, c, stamp))
<1> DEFINE row == [t[c] EXCEPT !.status = "sent", !.sentAt = stamp,
                               !.overdue = FALSE]
<1>1. t[c] \in Row BY DEF Table
<1>2. row \in Row /\ row.status = "sent" /\ row.kind = t[c].kind BY <1>1 DEF Row, Live
<1>3. CASE t[c].status = "pending"
  <2>1. markSent(t, c, stamp) = [t EXCEPT ![c] = row]
    BY <1>3, <1>1 DEF markSent, Table, Row
  <2>2. QED BY <2>1, <1>2, <1>3 DEF Housekeeping, Table, Live
<1>4. CASE t[c].status # "pending"
  BY <1>4, NothingIsHousekeeping DEF markSent
<1>5. QED BY <1>3, <1>4

\* Time moves a live row's clocks only.
LEMMA PassTtlIsHousekeeping ==
  ASSUME NEW t \in Table, NEW c \in Cmd, t[c].status \in Live
  PROVE  Housekeeping(t, passTtl(t, c))
<1> DEFINE row == [t[c] EXCEPT !.due = TRUE]
<1>1. t[c] \in Row BY DEF Table
<1>2. row \in Row /\ row.status = t[c].status /\ row.kind = t[c].kind BY <1>1 DEF Row
<1>3. passTtl(t, c) = [t EXCEPT ![c] = row] BY DEF passTtl, Table
<1>4. QED BY <1>2, <1>3 DEF Housekeeping, Table

\* The end of the grace period moves a live row's clock only.
LEMMA PassGraceIsHousekeeping ==
  ASSUME NEW t \in Table, NEW c \in Cmd, t[c].status \in Live
  PROVE  Housekeeping(t, passGrace(t, c))
<1> DEFINE row == [t[c] EXCEPT !.overdue = TRUE]
<1>1. t[c] \in Row BY DEF Table
<1>2. row \in Row /\ row.status = t[c].status /\ row.kind = t[c].kind BY <1>1 DEF Row
<1>3. passGrace(t, c) = [t EXCEPT ![c] = row] BY DEF passGrace, Table
<1>4. QED BY <1>2, <1>3 DEF Housekeeping, Table

-----------------------------------------------------------------------------
\* An acknowledgement settles a live row and touches no other.
LEMMA SettleAckLemma ==
  ASSUME NEW t \in Table, NEW c \in Cmd, NEW ok \in BOOLEAN
  PROVE  /\ settleAck(t, c, ok) \in Table
         /\ t[c].status \notin Live => settleAck(t, c, ok) = t
         /\ t[c].status \in Live =>
              settleAck(t, c, ok)[c].status = IF ok THEN "acked" ELSE "failed"
         /\ settleAck(t, c, ok)[c].kind = t[c].kind
         /\ \A d \in Cmd : d # c => settleAck(t, c, ok)[d] = t[d]
<1> DEFINE row == IF ok THEN Reset(t[c], "acked", "none")
                        ELSE Reset(t[c], "failed", "device_error")
<1>1. t[c] \in Row BY DEF Table
<1>2. /\ row \in Row /\ row.status = IF ok THEN "acked" ELSE "failed"
      /\ row.kind = t[c].kind
  BY <1>1, CommandAssumption DEF Row, Reset, Live, Settled
<1>3. CASE t[c].status \in Live
  <2>1. settleAck(t, c, ok) = [t EXCEPT ![c] = row]
    BY <1>3 DEF settleAck, Table
  <2>2. QED BY <2>1, <1>2, <1>3 DEF Table
<1>4. CASE t[c].status \notin Live BY <1>4 DEF settleAck
<1>5. QED BY <1>3, <1>4

\* An INSERT adds one pending row and touches no other.
LEMMA EnqueueLemma ==
  ASSUME NEW t \in Table, NEW c \in Cmd, NEW k \in Kinds \cup {"none"}
  PROVE  /\ enqueueFrameCommand(t, c, k) \in Table
         /\ enqueueFrameCommand(t, c, k)[c].status = "pending"
         /\ enqueueFrameCommand(t, c, k)[c].kind = k
         /\ \A d \in Cmd : d # c => enqueueFrameCommand(t, c, k)[d] = t[d]
<1> DEFINE row == [AbsentRow EXCEPT !.status = "pending", !.kind = k]
<1>1. row \in Row /\ row.status = "pending" /\ row.kind = k
  BY CommandAssumption DEF AbsentRow, Row, Live
<1>2. enqueueFrameCommand(t, c, k) = [t EXCEPT ![c] = row]
  BY DEF enqueueFrameCommand
<1>3. QED BY <1>1, <1>2 DEF Table

\* The empty table is a table of absent rows.
LEMMA EmptyTableLemma ==
  EmptyTable \in Table /\ \A c \in Cmd : EmptyTable[c].status = "absent"
<1>1. AbsentRow \in Row /\ AbsentRow.status = "absent"
  BY CommandAssumption DEF AbsentRow, Row
<1>2. QED BY <1>1 DEF EmptyTable, Table

\* A set of commands that is not empty has an oldest one.
LEMMA OldestExists ==
  ASSUME NEW S \in SUBSET Cmd, S # {}
  PROVE  \E c \in S : \A d \in S : c <= d
<1>1. S \subseteq Nat BY CommandAssumption DEF Cmd
<1>2. IsWellFoundedOn(OpToRel(<, Nat), Nat) BY NatLessThanWellFounded
<1>3. PICK c \in S : \A d \in S : <<d, c>> \notin OpToRel(<, Nat)
  BY <1>1, <1>2, WFMin
<1>4. ASSUME NEW d \in S PROVE c <= d
  <2>1. <<d, c>> \notin OpToRel(<, Nat) BY <1>3
  <2>2. ~ (d < c) BY <2>1, <1>1 DEF OpToRel
  <2>3. QED BY <2>2, <1>1
<1>5. QED BY <1>4
=============================================================================
