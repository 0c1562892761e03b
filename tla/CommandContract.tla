-------------------------- MODULE CommandContract --------------------------
(***************************************************************************)
(* What the frame command queue promises, whatever sockets, processes and  *)
(* messages do in between: a command is queued once, carried out at least  *)
(* once before it shows a verdict of the device, and settled once: with    *)
(* the verdict of the device, or dropped (its TTL passed, a newer command  *)
(* replaced it, the frame was revoked).                                    *)
(*                                                                         *)
(* It does not promise that a dropped command is not carried out: one that *)
(* is already on the wire, or in the snapshot of a running drain, still    *)
(* is, and one that is delivered again is carried out again.               *)
(***************************************************************************)
EXTENDS Integers

CONSTANT MaxCmd   \* number of commands ever queued for the frame

Cmd == 1 .. MaxCmd

VARIABLES
  status,    \* where each command is
  executed   \* the commands the device has carried out

vars == <<status, executed>>

Status == {"absent", "queued", "acked", "failed", "dropped"}

Init ==
  /\ status = [c \in Cmd |-> "absent"]
  /\ executed = {}

\* Commands are numbered in the order they are queued.
Queue(c) ==
  /\ \A d \in Cmd : status[d] = "absent" <=> d >= c
  /\ status' = [status EXCEPT ![c] = "queued"]
  /\ UNCHANGED executed

Execute(c) ==
  /\ status[c] # "absent"
  /\ executed' = executed \cup {c}
  /\ UNCHANGED status

Confirm(c, verdict) ==
  /\ status[c] = "queued"
  /\ c \in executed
  /\ status' = [status EXCEPT ![c] = verdict]
  /\ UNCHANGED executed

Drop(D) ==
  /\ \A c \in D : status[c] = "queued"
  /\ status' = [c \in Cmd |-> IF c \in D THEN "dropped" ELSE status[c]]
  /\ UNCHANGED executed

Next ==
  \/ \E c \in Cmd : \/ Queue(c)
                    \/ Execute(c)
                    \/ \E v \in {"acked", "failed"} : Confirm(c, v)
  \/ \E D \in SUBSET Cmd : Drop(D)

Spec == Init /\ [][Next]_vars
=============================================================================
