---------------------------- MODULE CommandRows ----------------------------
(***************************************************************************)
(* The frame_commands table of one frame, and the SQL statements the cloud *)
(* runs against it.  Three parties write these rows without a transaction  *)
(* between them: the web routes (enqueueFrameCommand,                      *)
(* supersedePendingCommands), revokeFrame, and the frame hub (expire,      *)
(* redeliver, mark sent, acknowledge).  Every operator below is one        *)
(* UPDATE or INSERT: it takes the whole table and returns the table the    *)
(* statement commits.                                                      *)
(*                                                                         *)
(* A row's number stands for its place in the (created_at, id) order.      *)
(* Times are abstracted to what the WHERE clauses compare:                 *)
(*   due      expires_at has passed,                                       *)
(*   sentAt   the activation count when sent_at was stamped, so that       *)
(*            "sent_at < the moment session s was activated" is            *)
(*            sentAt < (s's own activation number),                        *)
(*   overdue  sent_at is older than the sweep's grace period.              *)
(* The three are meaningful only while the row is pending or sent and are  *)
(* reset when it leaves that state.                                        *)
(***************************************************************************)
EXTENDS Integers

CONSTANTS
  MaxCmd,   \* number of commands ever queued for the frame
  Kinds,    \* command types
  Timed,    \* the types that are queued with a TTL
  Epochs    \* activation numbers, 0 .. number of device sessions

ASSUME CommandAssumption ==
  /\ MaxCmd \in Nat
  /\ "none" \notin Kinds
  /\ Timed \subseteq Kinds
  /\ Epochs \subseteq Nat
  /\ 0 \in Epochs

Cmd == 1 .. MaxCmd

Live == {"pending", "sent"}
Settled == {"acked", "failed", "expired"}

Row == [status  : {"absent"} \cup Live \cup Settled,
        kind    : Kinds \cup {"none"},
        error   : {"none", "device_error", "superseded", "frame_revoked"},
        sentAt  : Epochs,
        due     : BOOLEAN,
        overdue : BOOLEAN]

Table == [Cmd -> Row]

\* A row in `status` whose clocks do not matter (yet).
Reset(row, status, error) ==
  [row EXCEPT !.status = status, !.error = error, !.sentAt = 0,
              !.due = FALSE, !.overdue = FALSE]

AbsentRow == [status |-> "absent", kind |-> "none", error |-> "none",
              sentAt |-> 0, due |-> FALSE, overdue |-> FALSE]

EmptyTable == [c \in Cmd |-> AbsentRow]

Pending(t) == {c \in Cmd : t[c].status = "pending"}

\* UPDATE ... SET status = 'expired' over a set of rows.
Expire(t, which, error) ==
  [c \in Cmd |-> IF c \in which THEN Reset(t[c], "expired", error) ELSE t[c]]

-----------------------------------------------------------------------------
(* Faulty variants of the statements below.  None is used by the           *)
(* specification: each shows that a property notices the slip.             *)

\* The filter on the type is forgotten.
supersedeAnyKind(t, k) ==
  Expire(t, {c \in Cmd : t[c].status \in Live}, "superseded")

\* What was sent is not superseded.
supersedeUnsent(t, k) ==
  Expire(t, {c \in Cmd : t[c].kind = k /\ t[c].status = "pending"}, "superseded")

\* A lost command is not queued again.
requeueNothing(t, lost) == t

\* The row is stamped one activation ahead.
markSentAhead(t, c, stamp) ==
  IF t[c].status = "pending"
  THEN [t EXCEPT ![c].status = "sent", ![c].sentAt = stamp + 1]
  ELSE t

\* A written command is taken for a delivered one.
markSentAsDelivered(t, c, stamp) ==
  IF t[c].status = "pending" THEN [t EXCEPT ![c] = Reset(t[c], "acked", "none")]
                             ELSE t

\* The filter on the status is forgotten.
settleAckUnguarded(t, c, ok) ==
  [t EXCEPT ![c] = IF ok THEN Reset(t[c], "acked", "none")
                         ELSE Reset(t[c], "failed", "device_error")]

\* A lost command is looked for among the settled ones as well.
SentBeforeOrSettled(t, n) == {c \in Cmd : t[c].status # "absent" /\ t[c].sentAt < n}

\* Only the acks of rows that were already expired are refused.
settleAckAgain(t, c, ok) ==
  IF t[c].status # "expired"
  THEN [t EXCEPT ![c] = IF ok THEN Reset(t[c], "acked", "none")
                              ELSE Reset(t[c], "failed", "device_error")]
  ELSE t

-----------------------------------------------------------------------------
(* The web side.                                                           *)

\* INSERT of command c; status defaults to 'pending'.
enqueueFrameCommand(t, c, k) ==
  [t EXCEPT ![c] = [AbsentRow EXCEPT !.status = "pending", !.kind = k]]

supersedePendingCommands(t, k) ==
  Expire(t, {c \in Cmd : t[c].kind = k /\ t[c].status \in Live}, "superseded")

\* The last UPDATE of revokeFrame.
expireRevoked(t) ==
  Expire(t, {c \in Cmd : t[c].status \in Live}, "frame_revoked")

-----------------------------------------------------------------------------
(* The hub side.                                                           *)

expireStaleCommands(t) ==
  Expire(t, {c \in Cmd : t[c].status \in Live /\ t[c].due}, "none")

\* The rows redeliverSentCommands regards as lost, on activation of the
\* session with number n (cutoff = now) and on a sweep (cutoff = now - grace).
SentBefore(t, n) == {c \in Cmd : t[c].status = "sent" /\ t[c].sentAt < n}
SentTooLongAgo(t) == {c \in Cmd : t[c].status = "sent" /\ t[c].overdue}

\* redeliverSentCommands, first statement: a lost command that has a newer
\* pending or sent command of its own type is dropped.
dropOutdated(t, lost) ==
  Expire(t, {c \in lost : \E d \in Cmd : /\ d > c
                                         /\ t[d].kind = t[c].kind
                                         /\ t[d].status \in Live},
         "superseded")

\* redeliverSentCommands, second statement: what is still lost is queued again.
requeueLost(t, lost) ==
  [c \in Cmd |-> IF c \in lost
                 THEN [t[c] EXCEPT !.status = "pending", !.sentAt = 0,
                                   !.overdue = FALSE]
                 ELSE t[c]]

\* drainCommands, after ws.send: only a row that is still pending is marked.
markSent(t, c, stamp) ==
  IF t[c].status = "pending"
  THEN [t EXCEPT ![c].status = "sent", ![c].sentAt = stamp,
                 ![c].overdue = FALSE]
  ELSE t

\* handleAck: a pending or sent row takes the device's verdict.
settleAck(t, c, ok) ==
  IF t[c].status \in Live
  THEN [t EXCEPT ![c] = IF ok THEN Reset(t[c], "acked", "none")
                              ELSE Reset(t[c], "failed", "device_error")]
  ELSE t

\* Time passes for one row.
passTtl(t, c) == [t EXCEPT ![c].due = TRUE]
passGrace(t, c) == [t EXCEPT ![c].overdue = TRUE]

=============================================================================
