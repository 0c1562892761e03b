---------------------------- MODULE RemoteBridge ----------------------------
(***************************************************************************)
(* Commands of the backend to a frame's remote agent.                      *)
(*                                                                         *)
(* A caller (send_cmd in backend/app/ws/remote_bridge.py, and              *)
(* _run_command_remote) takes its process's lock for the frame, pushes a   *)
(* job on one Redis list and blocks on a reply list of its own.  The       *)
(* process that holds the agent's WebSocket runs two coroutines on it      *)
(* (remote_ws.py): pump_commands pops jobs and sends them, the receive     *)
(* loop collects binary frames and replies.  The agent                     *)
(* (frameos/remote/src/frameos_remote.nim) handles one command at a time,  *)
(* shells beside it, and reconnects when its socket fails; the old socket  *)
(* may look open to the backend long after that.                           *)
(***************************************************************************)
EXTENDS Integers, Sequences

CONSTANTS
  Cmd,         \* commands; each is issued once
  Proc,        \* processes with a lock; a terminal, which takes none, is its own
  By,          \* the process that issues a command
  Reads,       \* file_read and http: the answer's bytes come before the reply
  Shells,      \* shell: the agent starts it and takes the next command
  MaxConn,     \* bound: sockets the agent opens
  MaxTimeouts  \* bound: callers that stop waiting for a reply

ASSUME BridgeAssumption ==
  /\ By \in [Cmd -> Proc]
  /\ Reads \subseteq Cmd /\ Shells \subseteq Cmd /\ Reads \cap Shells = {}
  /\ MaxConn \in Nat /\ MaxTimeouts \in Nat
  /\ 0 \notin Cmd

Conn == 1 .. MaxConn
None == 0

VARIABLES
  caller,    \* where each caller is
  outcome,   \* what it got
  lock,      \* _frame_locks of each process: the caller inside
  queue,     \* remote:cmd:{frame}
  resp,      \* remote:resp:{command}
  sock,      \* the backend's side of each socket
  down, up,  \* bytes on the sockets' way to the agent and back
  agent,     \* the agent's socket and the command it handles
  running,   \* shells in progress: the socket each was started on
  executed,  \* history: how often the agent carried a command out
  lost,      \* history: commands dropped by the cancellation of a pump
  timeouts   \* budget

backend == <<sock, queue, resp>>
wire == <<down, up>>
device == <<agent, running, executed>>
callers == <<caller, outcome, lock, timeouts>>
vars == <<callers, backend, wire, device, lost>>

\* A reply: its ok flag and the commands whose bytes it carries.
Answer == [ok : BOOLEAN, bytes : SUBSET Cmd]
Disconnected == [ok |-> FALSE, bytes |-> {}]
\* A frame of the agent: bytes of a command, or its cmd/resp.
Frame == [what : {"bytes", "resp"}, of : Cmd]

NoSock == [link |-> "none", loop |-> "off", pump |-> "off", job |-> None,
           marker |-> None, buf |-> [c \in Cmd |-> {}], open |-> {}, failing |-> {}]

TypeOK ==
  /\ caller \in [Cmd -> {"queued", "waiting", "busy", "late", "done"}]
  /\ outcome \in [Cmd -> Answer]
  /\ lock \in [Proc -> Cmd \cup {None}]
  /\ queue \in Seq(Cmd)
  /\ resp \in [Cmd -> Seq(Answer)]
  /\ sock \in [Conn -> [link : {"none", "up", "broken"}, loop : {"off", "on", "over"},
                        pump : {"off", "pop", "send", "fail", "over"},
                        job : Cmd \cup {None}, marker : Reads \cup {None},
                        buf : [Cmd -> SUBSET Cmd], open : SUBSET Cmd, failing : SUBSET Cmd]]
  /\ down \in [Conn -> Seq(Cmd)] /\ up \in [Conn -> Seq(Frame)]
  /\ agent \in [on : Conn \cup {None}, doing : Cmd \cup {None}]
  /\ running \in [Cmd -> Conn \cup {None}]
  /\ executed \in [Cmd -> Nat]
  /\ lost \subseteq Cmd
  /\ timeouts \in 0 .. MaxTimeouts

Init ==
  /\ caller = [c \in Cmd |-> "queued"]
  /\ outcome = [c \in Cmd |-> Disconnected]
  /\ lock = [p \in Proc |-> None]
  /\ queue = <<>> /\ resp = [c \in Cmd |-> <<>>]
  /\ sock = [k \in Conn |-> NoSock]
  /\ down = [k \in Conn |-> <<>>] /\ up = [k \in Conn |-> <<>>]
  /\ agent = [on |-> None, doing |-> None]
  /\ running = [c \in Cmd |-> None] /\ executed = [c \in Cmd |-> 0]
  /\ lost = {} /\ timeouts = 0

-----------------------------------------------------------------------------
(* Callers.                                                                *)

\* Faulty variant: the slot covers the push and not the wait.
PushUnlocked(c) ==
  /\ caller[c] = "queued"
  /\ caller' = [caller EXCEPT ![c] = "waiting"]
  /\ queue' = Append(queue, c)
  /\ UNCHANGED <<outcome, lock, timeouts, sock, resp, wire, device, lost>>

\* frame_command_slot, then the RPUSH.
Push(c) ==
  /\ caller[c] = "queued" /\ lock[By[c]] = None
  /\ lock' = [lock EXCEPT ![By[c]] = c]
  /\ caller' = [caller EXCEPT ![c] = "waiting"]
  /\ queue' = Append(queue, c)
  /\ UNCHANGED <<outcome, timeouts, sock, resp, wire, device, lost>>

\* The wait for the lock runs out.
QueueTimeout(c) ==
  /\ caller[c] = "queued" /\ lock[By[c]] # None
  /\ caller' = [caller EXCEPT ![c] = "busy"]
  /\ UNCHANGED <<outcome, lock, timeouts, backend, wire, device, lost>>

Leave(c, how) ==
  /\ caller' = [caller EXCEPT ![c] = how]
  /\ lock' = [p \in Proc |-> IF lock[p] = c THEN None ELSE lock[p]]

Receive(c) ==
  /\ caller[c] = "waiting" /\ resp[c] # <<>>
  /\ Leave(c, "done")
  /\ outcome' = [outcome EXCEPT ![c] = Head(resp[c])]
  /\ resp' = [resp EXCEPT ![c] = Tail(@)]
  /\ UNCHANGED <<timeouts, sock, queue, wire, device, lost>>

\* BLPOP returns nothing.  The job stays where it is: queued, sent or under way.
ReplyTimeout(c) ==
  /\ caller[c] = "waiting" /\ resp[c] = <<>> /\ timeouts < MaxTimeouts
  /\ Leave(c, "late")
  /\ timeouts' = timeouts + 1
  /\ UNCHANGED <<outcome, backend, wire, device, lost>>

-----------------------------------------------------------------------------
(* The process that holds a socket.                                        *)

Reply(r, c, a) == [r EXCEPT ![c] = Append(@, a)]

\* BLPOP of pump_commands; the coroutine has yet to resume with the job.
PumpPop(k) ==
  /\ sock[k].pump = "pop" /\ queue # <<>>
  /\ sock' = [sock EXCEPT ![k].pump = "send", ![k].job = Head(queue)]
  /\ queue' = Tail(queue)
  /\ UNCHANGED <<callers, resp, wire, device, lost>>

\* Faulty variant: the command is marked when it has been written.
PumpSendMarkLast(k) ==
  /\ sock[k].pump = "send"
  /\ LET c == sock[k].job IN
     \/ /\ sock' = [sock EXCEPT ![k].open = @ \cup {c}, ![k].pump = "pop", ![k].job = None,
                                ![k].marker = IF c \in Reads THEN c ELSE @]
        /\ down' = IF sock[k].link = "up" THEN [down EXCEPT ![k] = Append(@, c)] ELSE down
     \/ /\ sock[k].link = "broken"
        /\ sock' = [sock EXCEPT ![k].pump = "fail", ![k].job = None, ![k].failing = sock[k].open]
        /\ UNCHANGED down
  /\ UNCHANGED <<callers, queue, resp, up, device, lost>>

\* Faulty variant: whatever is sent is expected to answer with bytes.
PumpSendMarkAll(k) ==
  /\ sock[k].pump = "send"
  /\ LET c == sock[k].job IN
     sock' = [sock EXCEPT ![k].open = @ \cup {c}, ![k].buf[c] = {}, ![k].pump = "pop",
                          ![k].job = None, ![k].marker = c]
  /\ down' = [down EXCEPT ![k] = Append(@, sock[k].job)]
  /\ UNCHANGED <<callers, queue, resp, up, device, lost>>

\* The command is marked before it is written.  Writing to a socket whose peer
\* has gone is lost in a buffer, or raises.
PumpSend(k) ==
  /\ sock[k].pump = "send"
  /\ LET c == sock[k].job
         marked == [sock[k] EXCEPT !.open = @ \cup {c}, !.buf[c] = {}, !.job = None,
                                   !.marker = IF c \in Reads THEN c ELSE @] IN
     \/ /\ sock' = [sock EXCEPT ![k] = [marked EXCEPT !.pump = "pop"]]
        /\ down' = IF sock[k].link = "up" THEN [down EXCEPT ![k] = Append(@, c)] ELSE down
     \/ /\ sock[k].link = "broken"
        /\ sock' = [sock EXCEPT ![k] = [marked EXCEPT !.pump = "fail", !.failing = marked.open]]
        /\ UNCHANGED down
  /\ UNCHANGED <<callers, queue, resp, up, device, lost>>

\* Faulty variant: a failed command goes back on the queue.
FailPendingRequeues(k) ==
  /\ sock[k].pump = "fail"
  /\ \E c \in sock[k].failing :
       /\ sock' = [sock EXCEPT ![k].failing = @ \ {c}, ![k].open = @ \ {c},
                               ![k].marker = IF @ = c THEN None ELSE @]
       /\ queue' = Append(queue, c)
  /\ UNCHANGED <<callers, resp, wire, device, lost>>

\* fail_pending_commands, one command of the list it took at its start.
FailPending(k) ==
  /\ sock[k].pump = "fail"
  /\ \E c \in sock[k].failing :
       /\ sock' = [sock EXCEPT ![k].failing = @ \ {c}, ![k].open = @ \ {c},
                               ![k].marker = IF @ = c THEN None ELSE @]
       /\ resp' = Reply(resp, c, Disconnected)
  /\ UNCHANGED <<callers, queue, wire, device, lost>>

PumpEnds(k) ==
  /\ sock[k].pump = "fail" /\ sock[k].failing = {}
  /\ sock' = [sock EXCEPT ![k].pump = "over"]
  /\ UNCHANGED <<callers, queue, resp, wire, device, lost>>

\* Binary frames belong to whatever command is marked.
LoopBytes(k) ==
  /\ sock[k].loop = "on" /\ up[k] # <<>> /\ Head(up[k]).what = "bytes"
  /\ LET m == sock[k].marker IN
     sock' = IF m \in sock[k].open THEN [sock EXCEPT ![k].buf[m] = @ \cup {Head(up[k]).of}]
             ELSE sock
  /\ up' = [up EXCEPT ![k] = Tail(@)]
  /\ UNCHANGED <<callers, queue, resp, down, device, lost>>

\* Faulty variant: the reply is filed under the marked command.
LoopReplyMarked(k) ==
  /\ sock[k].loop = "on" /\ up[k] # <<>> /\ Head(up[k]).what = "resp"
  /\ LET c == Head(up[k]).of
         m == IF sock[k].marker = None THEN c ELSE sock[k].marker IN
     /\ resp' = Reply(resp, m, [ok |-> TRUE, bytes |-> sock[k].buf[c]])
     /\ sock' = [sock EXCEPT ![k].open = @ \ {m}, ![k].marker = None]
  /\ up' = [up EXCEPT ![k] = Tail(@)]
  /\ UNCHANGED <<callers, queue, down, device, lost>>

\* cmd/resp: the buffer, if the command still has one, becomes the result.
LoopReply(k) ==
  /\ sock[k].loop = "on" /\ up[k] # <<>> /\ Head(up[k]).what = "resp"
  /\ LET c == Head(up[k]).of IN
     /\ resp' = Reply(resp, c, [ok |-> TRUE, bytes |-> IF c \in sock[k].open
                                                       THEN sock[k].buf[c] ELSE {}])
     /\ sock' = [sock EXCEPT ![k].open = @ \ {c}, ![k].marker = IF @ = c THEN None ELSE @]
  /\ up' = [up EXCEPT ![k] = Tail(@)]
  /\ UNCHANGED <<callers, queue, down, device, lost>>

\* Disconnect, or 300 seconds of silence: send_task.cancel().  A pump that
\* waits fails what it has marked; the job of a BLPOP that has returned and
\* not resumed is gone; a pump that is failing commands is cut short.
LoopEnds(k) ==
  /\ sock[k].loop = "on" /\ sock[k].link = "broken" /\ up[k] = <<>>
  /\ LET s == sock[k] IN
     sock' = [sock EXCEPT ![k] =
       IF s.pump \in {"pop", "send"}
       THEN [s EXCEPT !.loop = "over", !.pump = "fail", !.job = None, !.failing = s.open]
       ELSE [s EXCEPT !.loop = "over", !.pump = "over", !.failing = {}]]
  /\ lost' = lost \cup (({sock[k].job} \ {None}) \cup sock[k].failing)
  /\ UNCHANGED <<callers, queue, resp, wire, device>>

-----------------------------------------------------------------------------
(* The agent and its sockets.                                              *)

\* runRemote connects and shakes hands; the backend starts pump and loop.
Connect(k) ==
  /\ agent = [on |-> None, doing |-> None]
  /\ sock[k].link = "none" /\ \A j \in Conn : j < k => sock[j].link # "none"
  /\ agent' = [agent EXCEPT !.on = k]
  /\ sock' = [sock EXCEPT ![k].link = "up", ![k].loop = "on", ![k].pump = "pop"]
  /\ UNCHANGED <<callers, queue, resp, wire, running, executed, lost>>

\* The path breaks.  What the backend has received already stays readable.
Break(k) ==
  /\ sock[k].link = "up"
  /\ sock' = [sock EXCEPT ![k].link = "broken"]
  /\ down' = [down EXCEPT ![k] = <<>>]
  /\ up' \in {up, [up EXCEPT ![k] = <<>>]}
  /\ UNCHANGED <<callers, queue, resp, device, lost>>

\* The agent's receive or send fails, or the agent restarts (its shells die).
AgentNotices ==
  /\ agent.on # None /\ sock[agent.on].link = "broken" /\ agent.doing = None
  /\ agent' = [agent EXCEPT !.on = None]
  /\ UNCHANGED <<callers, backend, wire, running, executed, lost>>

AgentRestarts ==
  /\ agent.on # None /\ sock[agent.on].link = "broken"
  /\ agent' = [on |-> None, doing |-> None]
  /\ running' = [c \in Cmd |-> None]
  /\ UNCHANGED <<callers, backend, wire, executed, lost>>

Say(k, frames) == up' = IF sock[k].link = "up" THEN [up EXCEPT ![k] = @ \o frames] ELSE up
Resp(c) == [what |-> "resp", of |-> c]

\* handleCmd: a shell is started and left to itself.
AgentTakes(k) ==
  /\ agent = [on |-> k, doing |-> None] /\ down[k] # <<>>
  /\ LET c == Head(down[k]) IN
     IF c \in Shells
     THEN /\ running' = [running EXCEPT ![c] = k]
          /\ executed' = [executed EXCEPT ![c] = @ + 1]
          /\ UNCHANGED agent
     ELSE agent' = [agent EXCEPT !.doing = c] /\ UNCHANGED <<running, executed>>
  /\ down' = [down EXCEPT ![k] = Tail(@)]
  /\ UNCHANGED <<callers, backend, up, lost>>

\* The command's effect, its bytes, its reply, on the one socket there is.
AgentDoes(k) ==
  /\ agent.on = k /\ agent.doing # None
  /\ LET c == agent.doing IN
     /\ executed' = [executed EXCEPT ![c] = @ + 1]
     /\ Say(k, IF c \in Reads THEN <<[what |-> "bytes", of |-> c], Resp(c)>> ELSE <<Resp(c)>>)
  /\ agent' = [agent EXCEPT !.doing = None]
  /\ UNCHANGED <<callers, backend, down, running, lost>>

\* execShellSimple replies on the socket it was started with.
ShellEnds(c) ==
  /\ running[c] # None
  /\ Say(running[c], <<Resp(c)>>)
  /\ running' = [running EXCEPT ![c] = None]
  /\ UNCHANGED <<callers, backend, down, agent, executed, lost>>

-----------------------------------------------------------------------------
(* The specification.                                                      *)

Pump(k) == PumpPop(k) \/ PumpSend(k) \/ FailPending(k) \/ PumpEnds(k)
Loop(k) == LoopBytes(k) \/ LoopReply(k) \/ LoopEnds(k)
Agent == \/ AgentNotices
         \/ \E k \in Conn : Connect(k) \/ AgentTakes(k) \/ AgentDoes(k)
         \/ \E c \in Cmd : ShellEnds(c)

Next ==
  \/ \E c \in Cmd : Push(c) \/ QueueTimeout(c) \/ Receive(c) \/ ReplyTimeout(c)
  \/ \E k \in Conn : Pump(k) \/ Loop(k) \/ Break(k)
  \/ Agent \/ AgentRestarts

Spec == Init /\ [][Next]_vars

-----------------------------------------------------------------------------
(* Properties.                                                             *)

\* The agent carries a command out at most once, whichever of several sockets
\* takes it and however often they break: a job popped is never put back.
AtMostOnce == \A c \in Cmd : executed[c] <= 1

\* A caller that is told "ok" was told so about its own command, which the
\* agent did carry out (replies are filed by command id).
OkMeansExecuted ==
  \A c \in Cmd : (caller[c] = "done" /\ outcome[c].ok) => executed[c] = 1

\* The bytes of one command end in the result of another only if the two were
\* under way together: issued by different processes, which do not share the
\* lock, or the one whose bytes they are had timed out, which releases it while
\* the agent still works (current_bin_cmd is one per socket).
BytesCrossOnlyUnlocked ==
  \A c, d \in Cmd :
    (caller[c] = "done" /\ d \in outcome[c].bytes /\ d # c) =>
      By[d] # By[c] \/ caller[d] = "late"

\* A command whose caller waits is somewhere it can still come back from:
\* queued, popped, sent on a socket that is still looked after, or answered.
\* The two ways to lose one are the two places where cancelling the pump drops
\* what it holds: a BLPOP that returned, and a fail_pending_commands cut short.
LookedAfter(k, c) == \/ sock[k].job = c
                     \/ c \in sock[k].open /\ sock[k].loop = "on" /\ sock[k].pump # "fail"
                     \/ c \in sock[k].failing
NoJobVanishes ==
  \A c \in Cmd : caller[c] = "waiting" =>
    \/ c \in lost \/ resp[c] # <<>>
    \/ \E i \in DOMAIN queue : queue[i] = c
    \/ \E k \in Conn : LookedAfter(k, c)
=============================================================================
