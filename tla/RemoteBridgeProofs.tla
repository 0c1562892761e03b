------------------------- MODULE RemoteBridgeProofs -------------------------
(***************************************************************************)
(* Theorems about RemoteBridge, for all sets of commands and processes and *)
(* any number of sockets and timeouts.                                     *)
(*                                                                         *)
(* A command that has not run is in exactly one place: with its caller, on *)
(* the Redis list, in the hands of one pump, on one wire or with the       *)
(* agent.  Every step moves one command from one place to another, or      *)
(* loses it.  That a command runs at most once follows, and so does the    *)
(* truth of the answers.  What a waiting caller hangs on is a separate     *)
(* argument about the backend's side of the sockets.                       *)
(*                                                                         *)
(* Whose bytes a result carries (CrossInv) rests on the lock: of the       *)
(* commands of one lock, at most one is wanted by a caller and on its way. *)
(* The others are behind it on the list, or were sent before it and their  *)
(* callers gave up; so the socket that the wanted one is on cannot mark    *)
(* another of the same lock until its reply has come.                      *)
(***************************************************************************)
EXTENDS RemoteBridge, SequenceTheorems, TLAPS

USE BridgeAssumption

-----------------------------------------------------------------------------
(* Sequences.                                                              *)

Elems(s) == {s[i] : i \in DOMAIN s}
Once(s) == \A i, j \in DOMAIN s : s[i] = s[j] => i = j

\* Taking the first element leaves the others, and it is not among them.
LEMMA TakeLemma ==
  ASSUME NEW S, NEW s \in Seq(S), s # <<>>
  PROVE  /\ Head(s) \in S /\ Head(s) \in Elems(s) /\ Tail(s) \in Seq(S)
         /\ Elems(Tail(s)) \subseteq Elems(s)
         /\ Elems(s) \subseteq Elems(Tail(s)) \cup {Head(s)}
         /\ Once(s) => Once(Tail(s)) /\ Head(s) \notin Elems(Tail(s))
<1>1. Len(s) \in Nat /\ Len(s) >= 1 /\ DOMAIN s = 1 .. Len(s) /\ s \in [1 .. Len(s) -> S]
  BY EmptySeq, LenProperties
<1>2. /\ Head(s) = s[1] /\ Tail(s) \in Seq(S)
      /\ DOMAIN Tail(s) = 1 .. Len(s) - 1
      /\ \A i \in 1 .. Len(s) - 1 : Tail(s)[i] = s[i + 1]
  BY <1>1, HeadTailProperties, LenProperties
<1>3. Elems(Tail(s)) \subseteq Elems(s)
  BY <1>1, <1>2 DEF Elems
<1>4. Elems(s) \subseteq Elems(Tail(s)) \cup {Head(s)}
  <2>1. ASSUME NEW i \in 1 .. Len(s), i # 1 PROVE s[i] \in Elems(Tail(s))
    <3>1. i - 1 \in 1 .. Len(s) - 1 /\ Tail(s)[i - 1] = s[i]
      BY <1>1, <1>2, <2>1
    <3> QED
      BY <1>2, <3>1 DEF Elems
  <2> QED
    BY <1>1, <1>2, <2>1 DEF Elems
<1>5. ASSUME Once(s) PROVE Once(Tail(s)) /\ Head(s) \notin Elems(Tail(s))
  BY <1>1, <1>2, <1>5 DEF Elems, Once
<1> QED
  BY <1>1, <1>2, <1>3, <1>4, <1>5 DEF Elems

\* Adding an element adds just that one.
LEMMA PutLemma ==
  ASSUME NEW S, NEW s \in Seq(S), NEW x \in S
  PROVE  /\ Append(s, x) \in Seq(S) /\ Append(s, x) # <<>>
         /\ Elems(Append(s, x)) = Elems(s) \cup {x}
         /\ Once(s) /\ x \notin Elems(s) => Once(Append(s, x))
<1>1. Len(s) \in Nat /\ DOMAIN s = 1 .. Len(s)
  BY LenProperties
<1>2. /\ Append(s, x) \in Seq(S) /\ DOMAIN Append(s, x) = 1 .. Len(s) + 1
      /\ \A i \in 1 .. Len(s) : Append(s, x)[i] = s[i]
      /\ Append(s, x)[Len(s) + 1] = x
      /\ Append(s, x) # <<>>
  BY <1>1, AppendProperties, LenProperties
<1>3. Elems(Append(s, x)) = Elems(s) \cup {x}
  <2>1. 1 .. Len(s) + 1 = 1 .. Len(s) \cup {Len(s) + 1}
    BY <1>1
  <2> QED
    BY <1>1, <1>2, <2>1 DEF Elems
<1>4. ASSUME Once(s), x \notin Elems(s) PROVE Once(Append(s, x))
  BY <1>1, <1>2, <1>4 DEF Elems, Once
<1> QED
  BY <1>2, <1>3, <1>4

\* Sending frames adds just those.
LEMMA SayLemma ==
  ASSUME NEW S, NEW s \in Seq(S), NEW t \in Seq(S)
  PROVE  s \o t \in Seq(S) /\ Elems(s \o t) \subseteq Elems(s) \cup Elems(t)
<1>1. /\ Len(s) \in Nat /\ DOMAIN s = 1 .. Len(s)
      /\ Len(t) \in Nat /\ DOMAIN t = 1 .. Len(t)
  BY LenProperties
<1>2. /\ s \o t \in Seq(S) /\ DOMAIN (s \o t) = 1 .. Len(s) + Len(t)
      /\ \A i \in 1 .. Len(s) + Len(t) :
           (s \o t)[i] = IF i <= Len(s) THEN s[i] ELSE t[i - Len(s)]
  BY <1>1, ConcatProperties, LenProperties
<1>3. ASSUME NEW i \in 1 .. Len(s) + Len(t)
      PROVE  (s \o t)[i] \in Elems(s) \cup Elems(t)
  <2>1. CASE i <= Len(s)
    BY <1>1, <1>2, <2>1 DEF Elems
  <2>2. CASE ~(i <= Len(s))
    <3>1. i - Len(s) \in 1 .. Len(t)
      BY <1>1, <2>2
    <3> QED
      BY <1>1, <1>2, <2>2, <3>1 DEF Elems
  <2> QED
    BY <2>1, <2>2
<1> QED
  BY <1>2, <1>3 DEF Elems

-----------------------------------------------------------------------------
(* Types.                                                                  *)

SockSet == [link : {"none", "up", "broken"}, loop : {"off", "on", "over"},
            pump : {"off", "pop", "send", "fail", "over"},
            job : Cmd \cup {None}, marker : Reads \cup {None},
            buf : [Cmd -> SUBSET Cmd], open : SUBSET Cmd, failing : SUBSET Cmd]

CallersType ==
  /\ caller \in [Cmd -> {"queued", "waiting", "busy", "late", "done"}]
  /\ outcome \in [Cmd -> Answer] /\ lock \in [Proc -> Cmd \cup {None}]
  /\ timeouts \in 0 .. MaxTimeouts
BackendType == /\ queue \in Seq(Cmd) /\ resp \in [Cmd -> Seq(Answer)]
               /\ sock \in [Conn -> SockSet]
WireType == down \in [Conn -> Seq(Cmd)] /\ up \in [Conn -> Seq(Frame)]
DeviceType == /\ agent \in [on : Conn \cup {None}, doing : Cmd \cup {None}]
              /\ running \in [Cmd -> Conn \cup {None}] /\ executed \in [Cmd -> Nat]

\* TypeOK, one group of variables at a time.
LEMMA TypeParts ==
  /\ TypeOK <=> CallersType /\ BackendType /\ WireType /\ DeviceType /\ lost \subseteq Cmd
  /\ (TypeOK <=> CallersType /\ BackendType /\ WireType /\ DeviceType /\ lost \subseteq Cmd)'
BY DEF TypeOK, CallersType, BackendType, WireType, DeviceType, SockSet

\* A socket's pump holds a job exactly while it is about to send one, and what
\* is expected on a socket that is still read and whose pump has stopped is what
\* it will fail.
SockGood(s) ==
  /\ s.pump = "send" <=> s.job # None
  /\ s.pump \in {"pop", "send"} => s.loop = "on"
  /\ s.loop = "on" =>
       s.pump # "off" /\ (s.pump \in {"fail", "over"} => s.open \subseteq s.failing)
  /\ s.failing # {} => s.pump = "fail"
  /\ s.link = "none" => s.pump = "off"
SockOK == \A k \in Conn : SockGood(sock[k])

\* The callers' steps keep the types.
LEMMA CallerTypes ==
  ASSUME TypeOK, NEW c \in Cmd, Push(c) \/ QueueTimeout(c) \/ Receive(c) \/ ReplyTimeout(c)
  PROVE  TypeOK'
<1>1. CallersType /\ BackendType /\ WireType /\ DeviceType /\ lost \subseteq Cmd
  BY TypeParts
<1>2. By[c] \in Proc
  OBVIOUS
<1>3. CASE Push(c)
  <2>1. queue' \in Seq(Cmd)
    BY <1>1, <1>3, PutLemma DEF BackendType, Push
  <2>2. CallersType'
    BY <1>1, <1>2, <1>3 DEF CallersType, Push
  <2> QED
    BY <1>1, <1>3, <2>1, <2>2, TypeParts DEF Push, BackendType, WireType, DeviceType, wire, device
<1>4. CASE QueueTimeout(c)
  <2>1. CallersType'
    BY <1>1, <1>4 DEF CallersType, QueueTimeout
  <2> QED
    BY <1>1, <1>4, <2>1, TypeParts
       DEF QueueTimeout, BackendType, WireType, DeviceType, backend, wire, device
<1>5. CASE Receive(c)
  <2>1. Head(resp[c]) \in Answer /\ Tail(resp[c]) \in Seq(Answer)
    <3>1. resp[c] \in Seq(Answer) /\ resp[c] # <<>>
      BY <1>1, <1>5 DEF BackendType, Receive
    <3> QED
      BY <3>1, TakeLemma
  <2>2. CallersType'
    BY <1>1, <1>5, <2>1 DEF CallersType, Receive, Leave
  <2>3. BackendType'
    BY <1>1, <1>5, <2>1 DEF BackendType, Receive
  <2> QED
    BY <1>1, <1>5, <2>2, <2>3, TypeParts DEF Receive, WireType, DeviceType, wire, device
<1>6. CASE ReplyTimeout(c)
  <2>1. CallersType'
    BY <1>1, <1>6 DEF CallersType, ReplyTimeout, Leave
  <2> QED
    BY <1>1, <1>6, <2>1, TypeParts
       DEF ReplyTimeout, BackendType, WireType, DeviceType, backend, wire, device
<1> QED
  BY <1>3, <1>4, <1>5, <1>6

\* The pump's steps keep the types.
LEMMA PumpTypes == ASSUME TypeOK, SockOK, NEW k \in Conn, Pump(k) PROVE TypeOK'
<1>1. CallersType /\ BackendType /\ WireType /\ DeviceType /\ lost \subseteq Cmd
  BY TypeParts
<1>2. sock[k] \in SockSet
  BY <1>1 DEF BackendType
<1>3. SUFFICES BackendType' /\ WireType'
  BY <1>1, <1>3, TypeParts
     DEF Pump, PumpPop, PumpSend, FailPending, PumpEnds, CallersType, DeviceType, callers, device
<1>4. CASE PumpPop(k)
  <2>1. Head(queue) \in Cmd /\ Tail(queue) \in Seq(Cmd)
    BY <1>1, <1>4, TakeLemma DEF BackendType, PumpPop
  <2> QED
    BY <1>1, <1>2, <1>4, <2>1 DEF BackendType, WireType, SockSet, PumpPop, wire
<1>5. CASE PumpSend(k)
  <2> DEFINE c == sock[k].job
             marked == [sock[k] EXCEPT !.open = @ \cup {c}, !.buf[c] = {}, !.job = None,
                                       !.marker = IF c \in Reads THEN c ELSE @]
  <2>1. c \in Cmd
    BY <1>2, <1>5 DEF SockSet, SockOK, SockGood, PumpSend
  <2>2. marked \in SockSet
    BY <1>2, <2>1 DEF SockSet
  <2>3. /\ \/ sock' = [sock EXCEPT ![k] = [marked EXCEPT !.pump = "pop"]]
           \/ sock' = [sock EXCEPT ![k] = [marked EXCEPT !.pump = "fail", !.failing = marked.open]]
        /\ down' = [down EXCEPT ![k] = Append(@, c)] \/ down' = down
        /\ UNCHANGED <<queue, resp, up>>
    BY <1>5 DEF PumpSend
  <2>4. /\ [marked EXCEPT !.pump = "pop"] \in SockSet
        /\ [marked EXCEPT !.pump = "fail", !.failing = marked.open] \in SockSet
    <3> HIDE DEF marked
    <3> QED
      BY <2>2 DEF SockSet
  <2>5. sock' \in [Conn -> SockSet]
    <3> HIDE DEF marked, c
    <3> QED
      BY <1>1, <2>3, <2>4 DEF BackendType
  <2>6. Append(down[k], c) \in Seq(Cmd)
    BY <1>1, <2>1, PutLemma DEF WireType
  <2> HIDE DEF marked, c
  <2> QED
    BY <1>1, <2>3, <2>5, <2>6 DEF BackendType, WireType
<1>6. CASE FailPending(k)
  <2>1. PICK c \in sock[k].failing :
          /\ sock' = [sock EXCEPT ![k].failing = @ \ {c}, ![k].open = @ \ {c},
                                  ![k].marker = IF @ = c THEN None ELSE @]
          /\ resp' = Reply(resp, c, Disconnected)
    BY <1>6 DEF FailPending
  <2>2. c \in Cmd
    BY <1>2 DEF SockSet
  <2>3. resp' \in [Cmd -> Seq(Answer)]
    <3>1. Append(resp[c], Disconnected) \in Seq(Answer)
      BY <1>1, <2>2, PutLemma DEF BackendType, Answer, Disconnected
    <3> QED
      BY <1>1, <2>1, <2>2, <3>1 DEF BackendType, Reply
  <2>4. sock' \in [Conn -> SockSet]
    <3> DEFINE r == [sock[k] EXCEPT !.failing = @ \ {c}, !.open = @ \ {c},
                                    !.marker = IF @ = c THEN None ELSE @]
    <3>1. r \in SockSet
      BY <1>2 DEF SockSet
    <3>2. sock' = [sock EXCEPT ![k] = r]
      BY <1>1, <1>2, <2>1 DEF BackendType
    <3> HIDE DEF r
    <3> QED
      BY <1>1, <3>1, <3>2 DEF BackendType
  <2> QED
    BY <1>1, <1>6, <2>3, <2>4 DEF BackendType, WireType, FailPending, wire
<1>7. CASE PumpEnds(k)
  BY <1>1, <1>2, <1>7 DEF BackendType, WireType, SockSet, PumpEnds, wire
<1> QED
  BY <1>4, <1>5, <1>6, <1>7 DEF Pump

\* The receive loop's steps keep the types.
LEMMA LoopTypes == ASSUME TypeOK, NEW k \in Conn, Loop(k) PROVE TypeOK'
<1>1. CallersType /\ BackendType /\ WireType /\ DeviceType /\ lost \subseteq Cmd
  BY TypeParts
<1>2. sock[k] \in SockSet /\ up[k] \in Seq(Frame)
  BY <1>1 DEF BackendType, WireType
<1>3. SUFFICES BackendType' /\ WireType' /\ lost' \subseteq Cmd
  BY <1>1, <1>3, TypeParts
     DEF Loop, LoopBytes, LoopReply, LoopEnds, CallersType, DeviceType, callers, device
<1>4. ASSUME up[k] # <<>>
      PROVE  /\ Head(up[k]) \in Frame /\ Head(up[k]).of \in Cmd
             /\ [up EXCEPT ![k] = Tail(@)] \in [Conn -> Seq(Frame)]
  <2>1. Head(up[k]) \in Frame /\ Tail(up[k]) \in Seq(Frame)
    BY <1>2, <1>4, TakeLemma
  <2> QED
    BY <1>1, <2>1 DEF WireType, Frame
<1>5. CASE LoopBytes(k)
  <2>1. sock' \in [Conn -> SockSet]
    <3>1. CASE sock[k].marker \in sock[k].open
      <4> DEFINE m == sock[k].marker
                 r == [sock[k] EXCEPT !.buf[m] = @ \cup {Head(up[k]).of}]
      <4>1. m \in Cmd /\ Head(up[k]).of \in Cmd
        BY <1>2, <1>4, <1>5, <3>1 DEF LoopBytes, SockSet
      <4>2. r \in SockSet
        <5>1. sock[k].buf \in [Cmd -> SUBSET Cmd]
          BY <1>2 DEF SockSet
        <5>2. [sock[k].buf EXCEPT ![m] = @ \cup {Head(up[k]).of}] \in [Cmd -> SUBSET Cmd]
          BY <4>1, <5>1
        <5> QED
          BY <1>2, <5>2 DEF SockSet
      <4>3. sock' = [sock EXCEPT ![k] = r]
        BY <1>1, <1>2, <1>5, <3>1 DEF LoopBytes, BackendType
      <4> HIDE DEF r
      <4> QED
        BY <1>1, <4>2, <4>3 DEF BackendType
    <3>2. CASE sock[k].marker \notin sock[k].open
      BY <1>1, <1>5, <3>2 DEF BackendType, LoopBytes
    <3> QED
      BY <3>1, <3>2
  <2> QED
    BY <1>1, <1>4, <1>5, <2>1 DEF BackendType, WireType, LoopBytes
<1>6. CASE LoopReply(k)
  <2> DEFINE c == Head(up[k]).of
             a == [ok |-> TRUE, bytes |-> IF c \in sock[k].open THEN sock[k].buf[c] ELSE {}]
  <2>1. c \in Cmd /\ a \in Answer
    BY <1>2, <1>4, <1>6 DEF SockSet, Answer, LoopReply
  <2>2. resp' \in [Cmd -> Seq(Answer)]
    <3>1. Append(resp[c], a) \in Seq(Answer)
      BY <1>1, <2>1, PutLemma DEF BackendType
    <3> QED
      BY <1>1, <1>6, <2>1, <3>1 DEF BackendType, LoopReply, Reply
  <2>3. sock' \in [Conn -> SockSet]
    BY <1>1, <1>2, <1>6, <2>1 DEF BackendType, SockSet, LoopReply
  <2> QED
    BY <1>1, <1>4, <1>6, <2>2, <2>3 DEF BackendType, WireType, LoopReply
<1>7. CASE LoopEnds(k)
  <2>1. lost' \subseteq Cmd
    BY <1>1, <1>2, <1>7 DEF SockSet, LoopEnds
  <2>2. sock' \in [Conn -> SockSet]
    BY <1>1, <1>2, <1>7 DEF BackendType, SockSet, LoopEnds
  <2> QED
    BY <1>1, <1>7, <2>1, <2>2 DEF BackendType, WireType, LoopEnds, wire
<1> QED
  BY <1>5, <1>6, <1>7 DEF Loop

\* What the agent says is typed.
LEMMA SayTypes ==
  ASSUME TypeOK, NEW k \in Conn, NEW t \in Seq(Frame), Say(k, t)
  PROVE  up' \in [Conn -> Seq(Frame)]
<1>1. up[k] \o t \in Seq(Frame)
  BY SayLemma DEF TypeOK
<1> QED
  BY <1>1 DEF TypeOK, Say

\* The agent's steps, and those of the network, keep the types.
LEMMA AgentTypes ==
  ASSUME TypeOK, Agent \/ AgentRestarts \/ \E k \in Conn : Break(k)
  PROVE  TypeOK'
<1>1. CallersType /\ BackendType /\ WireType /\ DeviceType /\ lost \subseteq Cmd
  BY TypeParts
<1>2. ASSUME NEW k \in Conn, Break(k) PROVE TypeOK'
  <2>1. sock' \in [Conn -> SockSet]
    <3>1. sock[k] \in SockSet
      BY <1>1 DEF BackendType
    <3> QED
      BY <1>1, <1>2, <3>1 DEF BackendType, SockSet, Break
  <2>2. WireType'
    <3>1. <<>> \in Seq(Cmd) /\ <<>> \in Seq(Frame)
      BY EmptySeq
    <3>2. down' \in [Conn -> Seq(Cmd)]
      BY <1>1, <1>2, <3>1 DEF WireType, Break
    <3>3. up' \in [Conn -> Seq(Frame)]
      BY <1>1, <1>2, <3>1 DEF WireType, Break
    <3> QED
      BY <3>2, <3>3 DEF WireType
  <2> QED
    BY <1>1, <1>2, <2>1, <2>2, TypeParts
       DEF Break, CallersType, BackendType, DeviceType, callers, device
<1>3. CASE AgentNotices
  BY <1>1, <1>3, TypeParts
     DEF AgentNotices, CallersType, BackendType, WireType, DeviceType, callers, backend, wire
<1>4. CASE AgentRestarts
  BY <1>1, <1>4, TypeParts
     DEF AgentRestarts, CallersType, BackendType, WireType, DeviceType, callers, backend, wire
<1>5. ASSUME NEW k \in Conn, Connect(k) PROVE TypeOK'
  <2>1. sock' \in [Conn -> SockSet]
    <3>1. sock[k] \in SockSet
      BY <1>1 DEF BackendType
    <3> QED
      BY <1>1, <1>5, <3>1 DEF BackendType, SockSet, Connect
  <2> QED
    BY <1>1, <1>5, <2>1, TypeParts
       DEF Connect, CallersType, BackendType, WireType, DeviceType, callers, wire
<1>6. ASSUME NEW k \in Conn, AgentTakes(k) PROVE TypeOK'
  <2>1. Head(down[k]) \in Cmd /\ Tail(down[k]) \in Seq(Cmd)
    BY <1>1, <1>6, TakeLemma DEF WireType, AgentTakes
  <2>2. DeviceType'
    <3>1. CASE Head(down[k]) \in Shells
      <4>1. /\ running' = [running EXCEPT ![Head(down[k])] = k]
            /\ executed' = [executed EXCEPT ![Head(down[k])] = @ + 1] /\ agent' = agent
        BY <1>6, <3>1 DEF AgentTakes
      <4>2. executed[Head(down[k])] + 1 \in Nat
        BY <1>1, <2>1 DEF DeviceType
      <4> QED
        BY <1>1, <4>1, <4>2 DEF DeviceType
    <3>2. CASE Head(down[k]) \notin Shells
      <4>1. agent' = [agent EXCEPT !.doing = Head(down[k])] /\ UNCHANGED <<running, executed>>
        BY <1>6, <3>2 DEF AgentTakes
      <4> QED
        BY <1>1, <2>1, <4>1 DEF DeviceType
    <3> QED
      BY <3>1, <3>2
  <2>3. WireType'
    BY <1>1, <1>6, <2>1 DEF WireType, AgentTakes
  <2> QED
    BY <1>1, <1>6, <2>2, <2>3, TypeParts DEF AgentTakes, CallersType, BackendType, callers, backend
<1>7. ASSUME NEW k \in Conn, AgentDoes(k) PROVE TypeOK'
  <2> DEFINE c == agent.doing
             b == [what |-> "bytes", of |-> c]
  <2>1. c \in Cmd
    BY <1>1, <1>7 DEF DeviceType, AgentDoes
  <2>2. <<b, Resp(c)>> \in Seq(Frame) /\ <<Resp(c)>> \in Seq(Frame)
    <3>1. b \in Frame /\ Resp(c) \in Frame
      BY <2>1 DEF Frame, Resp
    <3> QED
      BY <3>1
  <2>3. up' \in [Conn -> Seq(Frame)]
    BY <1>7, <2>2, SayTypes DEF AgentDoes
  <2>4. DeviceType'
    BY <1>1, <1>7, <2>1 DEF DeviceType, AgentDoes
  <2> QED
    BY <1>1, <1>7, <2>3, <2>4, TypeParts
       DEF AgentDoes, CallersType, BackendType, WireType, callers, backend
<1>8. ASSUME NEW c \in Cmd, ShellEnds(c) PROVE TypeOK'
  <2>1. <<Resp(c)>> \in Seq(Frame)
    <3>1. Resp(c) \in Frame
      BY DEF Frame, Resp
    <3> QED
      BY <3>1
  <2>2. running[c] \in Conn
    BY <1>1, <1>8 DEF DeviceType, ShellEnds
  <2>3. up' \in [Conn -> Seq(Frame)]
    BY <1>8, <2>1, <2>2, SayTypes DEF ShellEnds
  <2> QED
    BY <1>1, <1>8, <2>3, TypeParts
       DEF ShellEnds, CallersType, BackendType, WireType, DeviceType, callers, backend
<1> QED
  BY <1>2, <1>3, <1>4, <1>5, <1>6, <1>7, <1>8 DEF Agent

\* TypeOK is preserved.
LEMMA TypeStep == TypeOK /\ SockOK /\ [Next]_vars => TypeOK'
<1>1. TypeOK /\ UNCHANGED vars => TypeOK'
  BY DEF TypeOK, vars, callers, backend, wire, device
<1> QED
  BY <1>1, CallerTypes, PumpTypes, LoopTypes, AgentTypes DEF Next

-----------------------------------------------------------------------------
(* The pumps.                                                              *)

\* What sending a command does to the backend's side of a socket.
LEMMA SendLemma ==
  ASSUME TypeOK, SockOK, NEW k \in Conn, PumpSend(k)
  PROVE  /\ sock[k].pump = "send" /\ sock[k].job \in Cmd /\ sock[k].failing = {}
         /\ \A j \in Conn \ {k} : sock'[j] = sock[j]
         /\ sock'[k].job = None /\ sock'[k].open = sock[k].open \cup {sock[k].job}
         /\ sock'[k].link = sock[k].link /\ sock'[k].loop = sock[k].loop
         /\ \/ sock'[k].pump = "pop" /\ sock'[k].failing = {}
            \/ sock'[k].pump = "fail" /\ sock'[k].failing = sock'[k].open
<1> DEFINE c == sock[k].job
           marked == [sock[k] EXCEPT !.open = @ \cup {c}, !.buf[c] = {}, !.job = None,
                                     !.marker = IF c \in Reads THEN c ELSE @]
           sent == [marked EXCEPT !.pump = "pop"]
           failed == [marked EXCEPT !.pump = "fail", !.failing = marked.open]
<1>1. SockGood(sock[k]) /\ sock[k] \in SockSet /\ sock \in [Conn -> SockSet]
  BY DEF SockOK, TypeOK, SockSet
<1>2. sock[k].pump = "send" /\ (sock' = [sock EXCEPT ![k] = sent]
                                \/ sock' = [sock EXCEPT ![k] = failed])
  BY DEF PumpSend
<1>3. c \in Cmd /\ sock[k].failing = {}
  BY <1>1, <1>2 DEF SockGood, SockSet
<1>4. marked \in SockSet
  BY <1>1, <1>3 DEF SockSet
<1>5. /\ marked.job = None /\ marked.link = sock[k].link /\ marked.loop = sock[k].loop
      /\ marked.failing = {} /\ marked.open = sock[k].open \cup {c}
  BY <1>1, <1>3 DEF SockSet
<1> HIDE DEF marked
<1>6. /\ sent.job = None /\ sent.link = sock[k].link /\ sent.loop = sock[k].loop
      /\ sent.failing = {} /\ sent.open = sock[k].open \cup {c} /\ sent.pump = "pop"
  BY <1>4, <1>5 DEF SockSet
<1>7. /\ failed.job = None /\ failed.link = sock[k].link /\ failed.loop = sock[k].loop
      /\ failed.open = sock[k].open \cup {c} /\ failed.pump = "fail"
      /\ failed.failing = failed.open
  BY <1>4, <1>5 DEF SockSet
<1> HIDE DEF sent, failed
<1> QED
  BY <1>1, <1>2, <1>3, <1>6, <1>7

\* A step of a socket's own leaves it good.
LEMMA PumpGood ==
  ASSUME TypeOK, SockOK, NEW k \in Conn, Pump(k) \/ Loop(k) \/ Break(k) \/ Connect(k)
  PROVE  SockGood(sock'[k]) /\ \A j \in Conn \ {k} : sock'[j] = sock[j]
<1>1. SockGood(sock[k]) /\ sock[k] \in SockSet /\ sock \in [Conn -> SockSet]
  BY DEF SockOK, TypeOK, SockSet
<1>2. CASE PumpPop(k)
  <2>1. Head(queue) \in Cmd /\ Head(queue) # None
    BY <1>2, TakeLemma DEF TypeOK, PumpPop, None
  <2>2. sock' = [sock EXCEPT ![k] = [sock[k] EXCEPT !.pump = "send", !.job = Head(queue)]]
    BY <1>1, <1>2 DEF PumpPop
  <2>3. SockGood([sock[k] EXCEPT !.pump = "send", !.job = Head(queue)])
    BY <1>1, <1>2, <2>1 DEF PumpPop, SockGood, SockSet
  <2> QED
    BY <1>1, <2>2, <2>3
<1>3. CASE PumpSend(k)
  BY <1>1, <1>3, SendLemma DEF SockGood
<1>4. CASE FailPending(k)
  BY <1>1, <1>4 DEF FailPending, SockGood, SockSet
<1>5. CASE PumpEnds(k)
  BY <1>1, <1>5 DEF PumpEnds, SockGood, SockSet
<1>6. CASE LoopBytes(k)
  BY <1>1, <1>6 DEF LoopBytes, SockGood, SockSet
<1>7. CASE LoopReply(k)
  BY <1>1, <1>7 DEF LoopReply, SockGood, SockSet
<1>8. CASE LoopEnds(k)
  BY <1>1, <1>8 DEF LoopEnds, SockGood, SockSet
<1>9. CASE Break(k)
  BY <1>1, <1>9 DEF Break, SockGood, SockSet
<1>10. CASE Connect(k)
  BY <1>1, <1>10 DEF Connect, SockGood, SockSet
<1> QED
  BY <1>2, <1>3, <1>4, <1>5, <1>6, <1>7, <1>8, <1>9, <1>10 DEF Pump, Loop

\* Only a step of a socket's own changes the backend's side of it.
LEMMA SockMoves ==
  ASSUME [Next]_vars,
         ~\E k \in Conn : Pump(k) \/ Loop(k) \/ Break(k) \/ Connect(k)
  PROVE  sock' = sock
<1>1. CASE \E c \in Cmd : Push(c) \/ QueueTimeout(c) \/ Receive(c) \/ ReplyTimeout(c)
  BY <1>1 DEF Push, QueueTimeout, Receive, ReplyTimeout, backend
<1>2. CASE Agent
  BY <1>2 DEF Agent, AgentNotices, AgentTakes, AgentDoes, ShellEnds, backend
<1>3. CASE AgentRestarts
  BY <1>3 DEF AgentRestarts, backend
<1>4. CASE UNCHANGED vars
  BY <1>4 DEF vars, backend
<1> QED
  BY <1>1, <1>2, <1>3, <1>4 DEF Next

\* SockOK is preserved.
LEMMA SockStep == TypeOK /\ SockOK /\ [Next]_vars => SockOK'
<1> SUFFICES ASSUME TypeOK, SockOK, [Next]_vars PROVE SockOK'
  OBVIOUS
<1>1. ASSUME NEW k \in Conn, Pump(k) \/ Loop(k) \/ Break(k) \/ Connect(k) PROVE SockOK'
  BY <1>1, PumpGood DEF SockOK
<1> QED
  BY <1>1, SockMoves DEF SockOK

-----------------------------------------------------------------------------
(* A command that waits is looked after.                                   *)

InQueue(c) == c \in Elems(queue)
Somewhere(c) == \/ c \in lost \/ resp[c] # <<>> \/ InQueue(c)
                \/ \E k \in Conn : LookedAfter(k, c)

\* NoJobVanishes, with the list as a set.
LEMMA NoJobVanishesIs ==
  /\ NoJobVanishes <=> \A c \in Cmd : caller[c] = "waiting" => Somewhere(c)
  /\ (NoJobVanishes <=> \A c \in Cmd : caller[c] = "waiting" => Somewhere(c))'
BY DEF NoJobVanishes, Somewhere, InQueue, Elems

\* A caller that waits after a step waited before it, or has just pushed.
LEMMA WaitsBefore ==
  ASSUME TypeOK, [Next]_vars, NEW c \in Cmd, caller'[c] = "waiting", ~Push(c)
  PROVE  caller[c] = "waiting"
<1>1. ASSUME NEW d \in Cmd, Push(d) \/ QueueTimeout(d) \/ Receive(d) \/ ReplyTimeout(d)
      PROVE  caller[c] = "waiting"
  BY <1>1 DEF TypeOK, Push, QueueTimeout, Receive, ReplyTimeout, Leave
<1>2. CASE \E k \in Conn : Pump(k) \/ Loop(k) \/ Break(k)
  BY <1>2 DEF Pump, Loop, PumpPop, PumpSend, FailPending, PumpEnds, LoopBytes, LoopReply,
              LoopEnds, Break, callers
<1>3. CASE Agent \/ AgentRestarts
  BY <1>3 DEF Agent, AgentRestarts, AgentNotices, Connect, AgentTakes, AgentDoes, ShellEnds, callers
<1>4. CASE UNCHANGED vars
  BY <1>4 DEF vars, callers
<1> QED
  BY <1>1, <1>2, <1>3, <1>4 DEF Next

\* A pump's step moves a command on and drops none.
LEMMA PumpKeeps ==
  ASSUME TypeOK, SockOK, NEW k \in Conn, Pump(k), NEW c \in Cmd, Somewhere(c)
  PROVE  Somewhere(c)'
<1>1. SockGood(sock[k]) /\ sock[k] \in SockSet /\ sock \in [Conn -> SockSet]
  BY DEF SockOK, TypeOK, SockSet
<1>2. \A j \in Conn \ {k} : sock'[j] = sock[j]
  BY PumpGood
<1>3. \A j \in Conn : j # k /\ LookedAfter(j, c) => LookedAfter(j, c)'
  BY <1>2 DEF LookedAfter
<1>4. c # None
  BY DEF None
<1>5. CASE PumpPop(k)
  <2>1. Elems(queue) \subseteq Elems(queue') \cup {Head(queue)}
    BY <1>5, TakeLemma DEF TypeOK, PumpPop
  <2>2. LookedAfter(k, c) \/ c = Head(queue) => LookedAfter(k, c)'
    BY <1>1, <1>4, <1>5 DEF PumpPop, LookedAfter, SockGood, SockSet
  <2> QED
    BY <1>3, <1>5, <2>1, <2>2 DEF PumpPop, Somewhere, InQueue
<1>6. CASE PumpSend(k)
  <2>1. LookedAfter(k, c) => LookedAfter(k, c)'
    BY <1>1, <1>4, <1>6, SendLemma DEF LookedAfter, SockGood
  <2> QED
    BY <1>3, <1>6, <2>1 DEF PumpSend, Somewhere, InQueue
<1>7. CASE FailPending(k)
  <2>1. PICK d \in sock[k].failing :
          /\ sock' = [sock EXCEPT ![k].failing = @ \ {d}, ![k].open = @ \ {d},
                                  ![k].marker = IF @ = d THEN None ELSE @]
          /\ resp' = Reply(resp, d, Disconnected)
    BY <1>7 DEF FailPending
  <2>2. d \in Cmd
    BY <1>1 DEF SockSet
  <2>3. c = d \/ resp[c] # <<>> => resp'[c] # <<>>
    <3>1. Disconnected \in Answer /\ resp \in [Cmd -> Seq(Answer)]
      BY DEF TypeOK, Answer, Disconnected
    <3>2. Append(resp[d], Disconnected) # <<>>
      BY <2>2, <3>1, PutLemma
    <3> QED
      BY <2>1, <2>2, <3>1, <3>2 DEF Reply
  <2>4. c # d /\ LookedAfter(k, c) => LookedAfter(k, c)'
    BY <1>1, <1>4, <1>7, <2>1 DEF FailPending, LookedAfter, SockGood, SockSet
  <2> QED
    BY <1>3, <1>7, <2>3, <2>4 DEF FailPending, Somewhere, InQueue
<1>8. CASE PumpEnds(k)
  <2>1. ~LookedAfter(k, c)
    BY <1>1, <1>4, <1>8 DEF PumpEnds, LookedAfter, SockGood, SockSet
  <2> QED
    BY <1>3, <1>8, <2>1 DEF PumpEnds, Somewhere, InQueue
<1> QED
  BY <1>5, <1>6, <1>7, <1>8 DEF Pump

\* The receive loop answers a command, or records what its end drops.
LEMMA LoopKeeps ==
  ASSUME TypeOK, SockOK, NEW k \in Conn, Loop(k), NEW c \in Cmd, Somewhere(c)
  PROVE  Somewhere(c)'
<1>1. SockGood(sock[k]) /\ sock[k] \in SockSet /\ sock \in [Conn -> SockSet]
  BY DEF SockOK, TypeOK, SockSet
<1>2. \A j \in Conn \ {k} : sock'[j] = sock[j]
  BY PumpGood
<1>3. \A j \in Conn : j # k /\ LookedAfter(j, c) => LookedAfter(j, c)'
  BY <1>2 DEF LookedAfter
<1>4. c # None
  BY DEF None
<1>5. CASE LoopBytes(k)
  <2>1. LookedAfter(k, c) => LookedAfter(k, c)'
    BY <1>1, <1>5 DEF LoopBytes, LookedAfter, SockSet
  <2> QED
    BY <1>3, <1>5, <2>1 DEF LoopBytes, Somewhere, InQueue
<1>6. CASE LoopReply(k)
  <2> DEFINE d == Head(up[k]).of
             a == [ok |-> TRUE, bytes |-> IF d \in sock[k].open THEN sock[k].buf[d] ELSE {}]
  <2>1. d \in Cmd
    <3>1. up[k] \in Seq(Frame) /\ up[k] # <<>>
      BY <1>6 DEF TypeOK, LoopReply
    <3>2. Head(up[k]) \in Frame
      BY <3>1, TakeLemma
    <3> QED
      BY <3>2 DEF Frame
  <2>2. a \in Answer
    BY <1>1, <2>1 DEF SockSet, Answer
  <2>3. resp' = Reply(resp, d, a)
    BY <1>6 DEF LoopReply
  <2>4. c = d \/ resp[c] # <<>> => resp'[c] # <<>>
    <3> HIDE DEF a, d
    <3> QED
      BY <2>1, <2>2, <2>3, PutLemma DEF TypeOK, Reply
  <2>5. c # d /\ LookedAfter(k, c) => LookedAfter(k, c)'
    BY <1>1, <1>6, <2>1 DEF LoopReply, LookedAfter, SockSet
  <2> HIDE DEF a, d
  <2> QED
    BY <1>3, <1>6, <2>4, <2>5 DEF LoopReply, Somewhere, InQueue
<1>7. CASE LoopEnds(k)
  <2>1. LookedAfter(k, c) => LookedAfter(k, c)' \/ c \in lost'
    BY <1>1, <1>4, <1>7 DEF LoopEnds, LookedAfter, SockGood, SockSet
  <2> QED
    BY <1>3, <1>7, <2>1 DEF LoopEnds, Somewhere, InQueue
<1> QED
  BY <1>5, <1>6, <1>7 DEF Loop

\* The other steps leave the commands where they are.
LEMMA OthersKeep ==
  ASSUME TypeOK, SockOK, NEW c \in Cmd, Somewhere(c), caller'[c] = "waiting",
         \/ \E d \in Cmd : Push(d) \/ QueueTimeout(d) \/ Receive(d) \/ ReplyTimeout(d)
         \/ (\E k \in Conn : Break(k)) \/ Agent \/ AgentRestarts \/ UNCHANGED vars
  PROVE  Somewhere(c)'
<1>1. ASSUME NEW k \in Conn, Break(k) \/ Connect(k) PROVE Somewhere(c)'
  <2>1. LookedAfter(k, c) => LookedAfter(k, c)'
    <3>1. sock[k] \in SockSet /\ sock \in [Conn -> SockSet]
      BY DEF TypeOK, SockSet
    <3> QED
      BY <1>1, <3>1 DEF Break, Connect, LookedAfter, SockSet
  <2>2. \A j \in Conn : LookedAfter(j, c) => LookedAfter(j, c)'
    BY <1>1, <2>1, PumpGood DEF LookedAfter
  <2> QED
    BY <1>1, <2>2 DEF Break, Connect, Somewhere, InQueue
<1>2. ASSUME NEW d \in Cmd, Push(d) PROVE Somewhere(c)'
  <2>1. Elems(queue) \subseteq Elems(queue')
    BY <1>2, PutLemma DEF TypeOK, Push
  <2> QED
    BY <1>2, <2>1 DEF Push, Somewhere, InQueue, LookedAfter
<1>3. ASSUME NEW d \in Cmd, Receive(d) PROVE Somewhere(c)'
  <2>1. resp'[c] = resp[c]
    BY <1>3 DEF Receive, Leave, TypeOK
  <2> QED
    BY <1>3, <2>1 DEF Receive, Somewhere, InQueue, LookedAfter
<1>4. ASSUME NEW d \in Cmd, QueueTimeout(d) \/ ReplyTimeout(d) PROVE Somewhere(c)'
  BY <1>4 DEF QueueTimeout, ReplyTimeout, backend, Somewhere, InQueue, LookedAfter
<1>5. CASE AgentNotices \/ AgentRestarts \/ UNCHANGED vars
  BY <1>5 DEF AgentNotices, AgentRestarts, vars, backend, Somewhere, InQueue, LookedAfter
<1>6. ASSUME NEW k \in Conn, AgentTakes(k) \/ AgentDoes(k) PROVE Somewhere(c)'
  BY <1>6 DEF AgentTakes, AgentDoes, backend, Somewhere, InQueue, LookedAfter
<1>7. ASSUME NEW d \in Cmd, ShellEnds(d) PROVE Somewhere(c)'
  BY <1>7 DEF ShellEnds, backend, Somewhere, InQueue, LookedAfter
<1> QED
  BY <1>1, <1>2, <1>3, <1>4, <1>5, <1>6, <1>7 DEF Agent

\* NoJobVanishes is preserved.
LEMMA JobStep == TypeOK /\ SockOK /\ NoJobVanishes /\ [Next]_vars => NoJobVanishes'
<1> SUFFICES ASSUME TypeOK, SockOK, NoJobVanishes, [Next]_vars,
                    NEW c \in Cmd, caller'[c] = "waiting"
             PROVE  Somewhere(c)'
  BY NoJobVanishesIs
<1>1. CASE Push(c)
  BY <1>1, PutLemma DEF TypeOK, Push, Somewhere, InQueue
<1>2. CASE ~Push(c)
  <2>1. Somewhere(c)
    BY <1>2, WaitsBefore, NoJobVanishesIs
  <2> QED
    BY <2>1, PumpKeeps, LoopKeeps, OthersKeep DEF Next
<1> QED
  BY <1>1, <1>2

-----------------------------------------------------------------------------
(* A command is in one place.                                              *)

Place == {"caller", "queue", "job", "wire", "agent", "done"} \X (Conn \cup {None})

\* Where each command is, as far as it is anywhere.
Placed(w) ==
  /\ \A c \in Cmd :
       /\ caller[c] \in {"queued", "busy"} => w[c] = <<"caller", None>>
       /\ InQueue(c) => w[c] = <<"queue", None>>
       /\ agent.doing = c => w[c] = <<"agent", None>>
       /\ executed[c] # 0 => w[c] = <<"done", None>>
       /\ \A k \in Conn : /\ sock[k].job = c => w[c] = <<"job", k>>
                          /\ c \in Elems(down[k]) => w[c] = <<"wire", k>>
  /\ Once(queue) /\ \A k \in Conn : Once(down[k])
  /\ \A c \in Cmd : executed[c] <= 1
OnePlace == \E w \in [Cmd -> Place] : Placed(w)

Stays(c) ==
  /\ caller'[c] \in {"queued", "busy"} => caller[c] \in {"queued", "busy"}
  /\ InQueue(c)' => InQueue(c)
  /\ agent'.doing = c => agent.doing = c
  /\ executed'[c] = executed[c]
  /\ \A k \in Conn : /\ sock'[k].job = c => sock[k].job = c
                     /\ c \in Elems(down'[k]) => c \in Elems(down[k])

\* A step that brings no command to a place it was not in keeps each in one.
LEMMA StaysLemma ==
  ASSUME OnePlace, \A c \in Cmd : Stays(c), Once(queue'), \A k \in Conn : Once(down'[k])
  PROVE  OnePlace'
<1>1. PICK w \in [Cmd -> Place] : Placed(w)
  BY DEF OnePlace
<1>2. Placed(w)'
  BY <1>1 DEF Placed, Stays
<1> QED
  BY <1>2 DEF OnePlace

\* Nothing in a sequence that is empty.
LEMMA NothingLemma == Elems(<<>>) = {} /\ Once(<<>>)
BY DEF Elems, Once

\* Pushing a command, popping it and sending it move it on.
LEMMA PumpMoves ==
  ASSUME TypeOK, SockOK, OnePlace,
         (\E c \in Cmd : Push(c)) \/ (\E k \in Conn : PumpPop(k) \/ PumpSend(k))
  PROVE  OnePlace'
<1>1. PICK w \in [Cmd -> Place] : Placed(w)
  BY DEF OnePlace
<1>2. ASSUME NEW c \in Cmd, Push(c) PROVE OnePlace'
  <2>1. w[c] = <<"caller", None>> /\ ~InQueue(c)
    BY <1>1, <1>2 DEF Placed, Push
  <2>2. Elems(queue') = Elems(queue) \cup {c} /\ Once(queue')
    BY <1>1, <1>2, <2>1, PutLemma DEF TypeOK, Push, Placed, InQueue
  <2> DEFINE v == [w EXCEPT ![c] = <<"queue", None>>]
  <2>3. v \in [Cmd -> Place]
    BY DEF Place
  <2>4. Placed(v)'
    BY <1>1, <1>2, <2>1, <2>2 DEF TypeOK, Push, Placed, InQueue, device, wire
  <2> QED
    BY <2>3, <2>4 DEF OnePlace
<1>3. ASSUME NEW k \in Conn, PumpPop(k) PROVE OnePlace'
  <2>1. PICK c \in Cmd : c = Head(queue)
    BY <1>3, TakeLemma DEF TypeOK, PumpPop
  <2>2. /\ InQueue(c) /\ c \notin Elems(queue') /\ Once(queue')
        /\ Elems(queue') \subseteq Elems(queue)
    BY <1>1, <1>3, <2>1, TakeLemma DEF TypeOK, PumpPop, Placed, InQueue
  <2>3. w[c] = <<"queue", None>>
    BY <1>1, <2>2 DEF Placed
  <2>4. sock'[k].job = c /\ \A j \in Conn \ {k} : sock'[j] = sock[j]
    <3>1. sock[k] \in SockSet /\ sock \in [Conn -> SockSet]
      BY DEF TypeOK, SockSet
    <3> QED
      BY <1>3, <2>1, <3>1 DEF PumpPop, SockSet
  <2> DEFINE v == [w EXCEPT ![c] = <<"job", k>>]
  <2>5. v \in [Cmd -> Place]
    BY DEF Place
  <2>6. Placed(v)'
    <3>1. UNCHANGED <<caller, agent, executed, down>>
      BY <1>3 DEF PumpPop, callers, device, wire
    <3> QED
      BY <1>1, <2>2, <2>3, <2>4, <3>1 DEF Placed, InQueue
  <2> QED
    BY <2>5, <2>6 DEF OnePlace
<1>4. ASSUME NEW k \in Conn, PumpSend(k) PROVE OnePlace'
  <2>1. PICK c \in Cmd : c = sock[k].job
    BY <1>4, SendLemma
  <2>2. w[c] = <<"job", k>> /\ c \notin Elems(down[k])
    BY <1>1, <2>1 DEF Placed
  <2>3. down' = [down EXCEPT ![k] = Append(@, c)] \/ down' = down
    BY <1>4, <2>1 DEF PumpSend
  <2>4. /\ Elems(down'[k]) \subseteq Elems(down[k]) \cup {c} /\ Once(down'[k])
        /\ \A j \in Conn \ {k} : down'[j] = down[j]
    <3>1. down \in [Conn -> Seq(Cmd)] /\ down[k] \in Seq(Cmd) /\ Once(down[k])
      BY <1>1 DEF TypeOK, Placed
    <3>2. /\ Elems(Append(down[k], c)) = Elems(down[k]) \cup {c}
          /\ Once(Append(down[k], c))
      BY <2>2, <3>1, PutLemma
    <3> QED
      BY <2>3, <3>1, <3>2
  <2> DEFINE v == [w EXCEPT ![c] = <<"wire", k>>]
  <2>5. v \in [Cmd -> Place]
    BY DEF Place
  <2>6. sock'[k].job = None /\ None \notin Cmd /\ \A j \in Conn \ {k} : sock'[j] = sock[j]
    BY <1>4, SendLemma DEF None
  <2>7. UNCHANGED <<caller, queue, agent, executed>>
    BY <1>4 DEF PumpSend, callers, device
  <2>8. Placed(v)'
    BY <1>1, <2>1, <2>2, <2>4, <2>6, <2>7 DEF Placed, InQueue
  <2> QED
    BY <2>5, <2>8 DEF OnePlace
<1> QED
  BY <1>2, <1>3, <1>4

\* The agent takes a command off the wire, and is done with it.
LEMMA AgentMoves ==
  ASSUME TypeOK, OnePlace, NEW k \in Conn, AgentTakes(k) \/ AgentDoes(k)
  PROVE  OnePlace'
<1>1. PICK w \in [Cmd -> Place] : Placed(w)
  BY DEF OnePlace
<1>2. CASE AgentTakes(k)
  <2>1. PICK c \in Cmd : c = Head(down[k])
    BY <1>2, TakeLemma DEF TypeOK, AgentTakes
  <2>2. down' = [down EXCEPT ![k] = Tail(@)] /\ down[k] # <<>> /\ down[k] \in Seq(Cmd)
    BY <1>2 DEF TypeOK, AgentTakes
  <2>3. /\ c \in Elems(down[k]) /\ c \notin Elems(down'[k]) /\ Once(down'[k])
        /\ Elems(down'[k]) \subseteq Elems(down[k])
        /\ \A j \in Conn \ {k} : down'[j] = down[j]
    BY <1>1, <2>1, <2>2, TakeLemma DEF TypeOK, Placed
  <2>4. w[c] = <<"wire", k>> /\ executed[c] = 0
    BY <1>1, <2>3 DEF Placed
  <2>5. UNCHANGED <<caller, queue, sock>>
    BY <1>2 DEF AgentTakes, callers, backend
  <2>6. CASE c \in Shells
    <3> DEFINE v == [w EXCEPT ![c] = <<"done", None>>]
    <3>1. v \in [Cmd -> Place]
      BY DEF Place
    <3>2. executed' = [executed EXCEPT ![c] = 1] /\ agent' = agent
      BY <1>2, <2>1, <2>4, <2>6 DEF AgentTakes
    <3>3. Placed(v)'
      <4>1. executed'[c] = 1 /\ \A d \in Cmd \ {c} : executed'[d] = executed[d]
        BY <3>2 DEF TypeOK
      <4> QED
        BY <1>1, <2>3, <2>4, <2>5, <3>2, <4>1 DEF Placed, InQueue
    <3> QED
      BY <3>1, <3>3 DEF OnePlace
  <2>7. CASE c \notin Shells
    <3> DEFINE v == [w EXCEPT ![c] = <<"agent", None>>]
    <3>1. v \in [Cmd -> Place]
      BY DEF Place
    <3>2. executed' = executed /\ agent'.doing = c
      BY <1>2, <2>1, <2>7 DEF AgentTakes
    <3>3. Placed(v)'
      BY <1>1, <2>3, <2>4, <2>5, <3>2 DEF Placed, InQueue
    <3> QED
      BY <3>1, <3>3 DEF OnePlace
  <2> QED
    BY <2>6, <2>7
<1>3. CASE AgentDoes(k)
  <2>1. PICK c \in Cmd : c = agent.doing
    BY <1>3 DEF TypeOK, AgentDoes
  <2>2. w[c] = <<"agent", None>> /\ executed[c] = 0
    BY <1>1, <2>1 DEF Placed
  <2>3. /\ executed' = [executed EXCEPT ![c] = 1] /\ agent'.doing = None /\ None \notin Cmd
        /\ UNCHANGED <<caller, queue, sock, down>>
    BY <1>3, <2>1, <2>2 DEF AgentDoes, callers, backend, None
  <2> DEFINE v == [w EXCEPT ![c] = <<"done", None>>]
  <2>4. v \in [Cmd -> Place]
    BY DEF Place
  <2>5. Placed(v)'
    BY <1>1, <2>2, <2>3 DEF Placed, InQueue, TypeOK
  <2> QED
    BY <2>4, <2>5 DEF OnePlace
<1> QED
  BY <1>2, <1>3

\* Every other step moves no command, or loses it.
LEMMA PlaceStep == TypeOK /\ SockOK /\ OnePlace /\ [Next]_vars => OnePlace'
<1> SUFFICES ASSUME TypeOK, SockOK, OnePlace, [Next]_vars PROVE OnePlace'
  OBVIOUS
<1>1. Once(queue) /\ (\A k \in Conn : Once(down[k])) /\ None \notin Cmd
  BY DEF OnePlace, Placed, None
<1>2. ASSUME NEW c \in Cmd, QueueTimeout(c) \/ Receive(c) \/ ReplyTimeout(c) PROVE OnePlace'
  <2>1. \A d \in Cmd : caller'[d] \in {"queued", "busy"} => caller[d] \in {"queued", "busy"}
    BY <1>2 DEF TypeOK, QueueTimeout, Receive, ReplyTimeout, Leave
  <2>2. UNCHANGED <<queue, sock, down, agent, executed>>
    BY <1>2 DEF QueueTimeout, Receive, ReplyTimeout, backend, wire, device
  <2> QED
    BY <1>1, <2>1, <2>2, StaysLemma DEF Stays, InQueue
<1>3. ASSUME NEW k \in Conn, FailPending(k) \/ PumpEnds(k) \/ Loop(k) \/ Connect(k) \/ Break(k)
      PROVE  OnePlace'
  <2>1. UNCHANGED <<caller, queue, executed>> /\ agent'.doing = agent.doing
    BY <1>3 DEF TypeOK, FailPending, PumpEnds, Loop, LoopBytes, LoopReply, LoopEnds, Connect,
                Break, callers, device
  <2>2. \A j \in Conn : down'[j] = down[j] \/ down'[j] = <<>>
    BY <1>3 DEF TypeOK, FailPending, PumpEnds, Loop, LoopBytes, LoopReply, LoopEnds, Connect,
                Break, wire
  <2>3. \A j \in Conn : Elems(down'[j]) \subseteq Elems(down[j]) /\ Once(down'[j])
    BY <1>1, <2>2, NothingLemma
  <2>4. sock'[k].job \in {sock[k].job, None}
    <3>1. sock[k] \in SockSet /\ sock \in [Conn -> SockSet]
      BY DEF TypeOK, SockSet
    <3>2. CASE FailPending(k)
      <4>1. PICK c \in sock[k].failing :
              sock' = [sock EXCEPT ![k].failing = @ \ {c}, ![k].open = @ \ {c},
                                   ![k].marker = IF @ = c THEN None ELSE @]
        BY <3>2 DEF FailPending
      <4> QED
        BY <3>1, <4>1 DEF SockSet
    <3>3. CASE PumpEnds(k)
      BY <3>1, <3>3 DEF PumpEnds, SockSet
    <3>4. CASE Connect(k)
      BY <3>1, <3>4 DEF Connect, SockSet
    <3>5. CASE Break(k)
      BY <3>1, <3>5 DEF Break, SockSet
    <3>6. CASE LoopBytes(k)
      BY <3>1, <3>6 DEF LoopBytes, SockSet
    <3>7. CASE LoopReply(k)
      BY <3>1, <3>7 DEF LoopReply, SockSet
    <3>8. CASE LoopEnds(k)
      BY <3>1, <3>8 DEF LoopEnds, SockSet
    <3> QED
      BY <1>3, <3>2, <3>3, <3>4, <3>5, <3>6, <3>7, <3>8 DEF Loop
  <2>5. \A j \in Conn \ {k} : sock'[j] = sock[j]
    BY <1>3, PumpGood DEF Pump
  <2> QED
    BY <1>1, <2>1, <2>3, <2>4, <2>5, StaysLemma DEF Stays, InQueue
<1>4. CASE AgentNotices \/ AgentRestarts \/ (\E c \in Cmd : ShellEnds(c)) \/ UNCHANGED vars
  <2>1. /\ UNCHANGED <<caller, queue, sock, down, executed>>
        /\ agent'.doing \in {agent.doing, None}
    <3>1. agent \in [on : Conn \cup {None}, doing : Cmd \cup {None}]
      BY DEF TypeOK
    <3>2. CASE AgentNotices
      BY <3>1, <3>2 DEF AgentNotices, callers, backend, wire
    <3>3. CASE AgentRestarts
      BY <3>1, <3>3 DEF AgentRestarts, callers, backend, wire
    <3>4. CASE (\E c \in Cmd : ShellEnds(c)) \/ UNCHANGED vars
      BY <3>4 DEF ShellEnds, vars, callers, backend, wire, device
    <3> QED
      BY <1>4, <3>2, <3>3, <3>4
  <2> QED
    BY <1>1, <2>1, StaysLemma DEF Stays, InQueue
<1> QED
  BY <1>2, <1>3, <1>4, PumpMoves, AgentMoves DEF Next, Pump, Agent

-----------------------------------------------------------------------------
(* Answers are true.                                                       *)

\* Who says "ok" has run the command: a shell under way, a reply on the wire, in
\* a reply list, or with the caller.
TrueAnswers ==
  /\ \A c \in Cmd : running[c] # None => executed[c] # 0
  /\ \A k \in Conn : \A f \in Elems(up[k]) : f.what = "resp" => executed[f.of] # 0
  /\ \A c \in Cmd : \A a \in Elems(resp[c]) : a.ok => executed[c] # 0
  /\ \A c \in Cmd : outcome[c].ok => executed[c] # 0

\* What has run stays run.
LEMMA ExecutedGrows ==
  ASSUME TypeOK, [Next]_vars, NEW c \in Cmd, executed[c] # 0 PROVE executed'[c] # 0
<1>1. ASSUME NEW k \in Conn, AgentTakes(k) \/ AgentDoes(k) PROVE executed'[c] # 0
  <2>1. executed' = executed \/ \E d : executed' = [executed EXCEPT ![d] = @ + 1]
    BY <1>1 DEF AgentTakes, AgentDoes
  <2>2. executed \in [Cmd -> Nat]
    BY DEF TypeOK
  <2> QED
    BY <2>1, <2>2
<1>2. CASE \E d \in Cmd : Push(d) \/ QueueTimeout(d) \/ Receive(d) \/ ReplyTimeout(d)
  BY <1>2 DEF Push, QueueTimeout, Receive, ReplyTimeout, device
<1>3. CASE \E k \in Conn : Pump(k) \/ Loop(k) \/ Break(k) \/ Connect(k)
  BY <1>3 DEF Pump, Loop, PumpPop, PumpSend, FailPending, PumpEnds, LoopBytes, LoopReply,
              LoopEnds, Break, Connect, device
<1>4. CASE AgentNotices \/ AgentRestarts \/ (\E d \in Cmd : ShellEnds(d)) \/ UNCHANGED vars
  BY <1>4 DEF AgentNotices, AgentRestarts, ShellEnds, vars, device
<1> QED
  BY <1>1, <1>2, <1>3, <1>4 DEF Next, Agent

\* The shells under way have run.
LEMMA ShellsTrue ==
  ASSUME TypeOK, TrueAnswers, [Next]_vars, NEW c \in Cmd, running'[c] # None
  PROVE  executed'[c] # 0
<1>1. running \in [Cmd -> Conn \cup {None}] /\ executed \in [Cmd -> Nat]
  BY DEF TypeOK
<1>2. ASSUME running[c] # None PROVE executed'[c] # 0
  BY <1>2, ExecutedGrows DEF TrueAnswers
<1>3. ASSUME NEW k \in Conn, AgentTakes(k), running[c] = None PROVE executed'[c] # 0
  <2>1. running' = [running EXCEPT ![Head(down[k])] = k]
        /\ executed' = [executed EXCEPT ![Head(down[k])] = @ + 1]
    BY <1>3 DEF AgentTakes
  <2>2. c = Head(down[k])
    BY <1>1, <1>3, <2>1
  <2> QED
    BY <1>1, <2>1, <2>2
<1>4. CASE \E d \in Cmd : Push(d) \/ QueueTimeout(d) \/ Receive(d) \/ ReplyTimeout(d)
  BY <1>2, <1>4 DEF Push, QueueTimeout, Receive, ReplyTimeout, device
<1>5. CASE \E k \in Conn : Pump(k) \/ Loop(k) \/ Break(k) \/ Connect(k) \/ AgentDoes(k)
  BY <1>2, <1>5 DEF Pump, Loop, PumpPop, PumpSend, FailPending, PumpEnds, LoopBytes, LoopReply,
                    LoopEnds, Break, Connect, AgentDoes, device
<1>6. CASE AgentNotices \/ UNCHANGED vars
  BY <1>2, <1>6 DEF AgentNotices, vars, device
<1>7. CASE AgentRestarts
  BY <1>7 DEF AgentRestarts
<1>8. ASSUME NEW d \in Cmd, ShellEnds(d) PROVE executed'[c] # 0
  <2>1. running' = [running EXCEPT ![d] = None]
    BY <1>8 DEF ShellEnds
  <2> QED
    BY <1>1, <1>2, <2>1
<1> QED
  BY <1>2, <1>3, <1>4, <1>5, <1>6, <1>7, <1>8 DEF Next, Agent

\* What the agent says, when it says "ok", it has done.
LEMMA SaysTrue ==
  ASSUME TypeOK, TrueAnswers, [Next]_vars, NEW k \in Conn, NEW f \in Elems(up'[k]),
         f.what = "resp"
  PROVE  executed'[f.of] # 0
<1>1. up \in [Conn -> Seq(Frame)] /\ up[k] \in Seq(Frame)
  BY DEF TypeOK
<1>2. ASSUME f \in Elems(up[k]) PROVE executed'[f.of] # 0
  <2>1. f \in Frame
    BY <1>1, <1>2 DEF Elems
  <2> QED
    BY <1>2, <2>1, ExecutedGrows DEF TrueAnswers, Frame
<1>3. ASSUME NEW j \in Conn, NEW c \in Cmd, executed'[c] # 0,
             Say(j, <<Resp(c)>>) \/ Say(j, <<[what |-> "bytes", of |-> c], Resp(c)>>)
      PROVE  executed'[f.of] # 0
  <2> DEFINE b == [what |-> "bytes", of |-> c]
             r == Resp(c)
  <2>1. /\ b.what = "bytes" /\ r.of = c
        /\ <<r>> \in Seq(Frame) /\ <<b, r>> \in Seq(Frame)
        /\ Elems(<<r>>) = {r} /\ Elems(<<b, r>>) = {b, r}
    <3>1. b \in Frame /\ r \in Frame /\ b.what = "bytes" /\ r.of = c
      BY DEF Frame, Resp
    <3> HIDE DEF b, r
    <3> QED
      <4>1. <<r>> \in Seq(Frame) /\ <<b, r>> \in Seq(Frame)
        BY <3>1
      <4>2. DOMAIN <<r>> = {1} /\ <<r>>[1] = r
        OBVIOUS
      <4>3. DOMAIN <<b, r>> = {1, 2} /\ <<b, r>>[1] = b /\ <<b, r>>[2] = r
        OBVIOUS
      <4> QED
        BY <3>1, <4>1, <4>2, <4>3 DEF Elems
  <2>2. \E t \in {<<r>>, <<b, r>>} : up'[k] \in {up[k], up[k] \o t}
    <3> HIDE DEF b, r
    <3>1. Say(j, <<r>>) \/ Say(j, <<b, r>>)
      BY <1>3 DEF b, r
    <3> QED
      BY <1>1, <3>1 DEF Say
  <2> HIDE DEF b, r
  <2>3. f \in Elems(up[k]) \cup {b, r}
    <3>1. Elems(up[k] \o <<r>>) \subseteq Elems(up[k]) \cup {r}
      BY <1>1, <2>1, SayLemma
    <3>2. Elems(up[k] \o <<b, r>>) \subseteq Elems(up[k]) \cup {b, r}
      BY <1>1, <2>1, SayLemma
    <3>3. up'[k] \in {up[k], up[k] \o <<r>>, up[k] \o <<b, r>>}
      BY <2>2
    <3> QED
      BY <3>1, <3>2, <3>3
  <2> QED
    BY <1>2, <1>3, <2>1, <2>3
<1>4. ASSUME NEW j \in Conn, AgentDoes(j) PROVE executed'[f.of] # 0
  <2>1. PICK c \in Cmd : c = agent.doing
    BY <1>4 DEF TypeOK, AgentDoes
  <2>2. executed' = [executed EXCEPT ![c] = @ + 1]
    BY <1>4, <2>1 DEF AgentDoes
  <2>3. executed'[c] # 0
    BY <2>2 DEF TypeOK
  <2>4. Say(j, <<Resp(c)>>) \/ Say(j, <<[what |-> "bytes", of |-> c], Resp(c)>>)
    BY <1>4, <2>1 DEF AgentDoes
  <2> QED
    BY <1>3, <2>3, <2>4
<1>5. ASSUME NEW c \in Cmd, ShellEnds(c) PROVE executed'[f.of] # 0
  <2>1. Say(running[c], <<Resp(c)>>) /\ running[c] \in Conn
    BY <1>5 DEF TypeOK, ShellEnds
  <2>2. executed'[c] # 0
    BY <1>5, ExecutedGrows DEF TrueAnswers, ShellEnds
  <2> QED
    BY <1>3, <2>1, <2>2
<1>6. ASSUME up'[k] = up[k] \/ up'[k] = <<>> \/ (up[k] # <<>> /\ up'[k] = Tail(up[k]))
      PROVE  executed'[f.of] # 0
  BY <1>1, <1>2, <1>6, TakeLemma, NothingLemma
<1>7. CASE \E d \in Cmd : Push(d) \/ QueueTimeout(d) \/ Receive(d) \/ ReplyTimeout(d)
  BY <1>6, <1>7 DEF Push, QueueTimeout, Receive, ReplyTimeout, wire
<1>8. CASE \E j \in Conn : Pump(j) \/ Connect(j) \/ AgentTakes(j) \/ LoopEnds(j)
  BY <1>6, <1>8 DEF Pump, PumpPop, PumpSend, FailPending, PumpEnds, Connect, AgentTakes,
                    LoopEnds, wire
<1>9. CASE \E j \in Conn : LoopBytes(j) \/ LoopReply(j) \/ Break(j)
  BY <1>1, <1>6, <1>9 DEF LoopBytes, LoopReply, Break
<1>10. CASE AgentNotices \/ AgentRestarts \/ UNCHANGED vars
  BY <1>6, <1>10 DEF AgentNotices, AgentRestarts, vars, wire
<1> QED
  BY <1>4, <1>5, <1>7, <1>8, <1>9, <1>10 DEF Next, Agent, Loop

\* A reply list gets only true answers.
LEMMA RepliesTrue ==
  ASSUME TypeOK, SockOK, TrueAnswers, [Next]_vars, NEW c \in Cmd, NEW a \in Elems(resp'[c]), a.ok
  PROVE  executed'[c] # 0
<1>1. resp \in [Cmd -> Seq(Answer)] /\ resp[c] \in Seq(Answer)
  BY DEF TypeOK
<1>2. ASSUME a \in Elems(resp[c]) PROVE executed'[c] # 0
  BY <1>2, ExecutedGrows DEF TrueAnswers
<1>3. ASSUME resp'[c] = resp[c] \/ (resp[c] # <<>> /\ resp'[c] = Tail(resp[c]))
      PROVE  executed'[c] # 0
  BY <1>1, <1>2, <1>3, TakeLemma
<1>4. ASSUME NEW k \in Conn, FailPending(k) PROVE executed'[c] # 0
  <2>1. PICK d : resp' = Reply(resp, d, Disconnected)
    BY <1>4 DEF FailPending
  <2>2. Disconnected \in Answer /\ ~Disconnected.ok
    BY DEF Answer, Disconnected
  <2>3. resp'[c] = resp[c] \/ resp'[c] = Append(resp[c], Disconnected)
    BY <1>1, <2>1 DEF Reply
  <2>4. a \in Elems(resp[c]) \cup {Disconnected}
    <3>1. Elems(Append(resp[c], Disconnected)) = Elems(resp[c]) \cup {Disconnected}
      BY <1>1, <2>2, PutLemma
    <3> QED
      BY <2>3, <3>1
  <2> QED
    BY <1>2, <2>2, <2>4
<1>5. ASSUME NEW k \in Conn, LoopReply(k) PROVE executed'[c] # 0
  <2>1. PICK f : f = Head(up[k])
    OBVIOUS
  <2>2. f \in Elems(up[k]) /\ f \in Frame /\ f.what = "resp"
    <3>1. up[k] \in Seq(Frame) /\ up[k] # <<>>
      BY <1>5 DEF TypeOK, LoopReply
    <3> QED
      BY <1>5, <2>1, <3>1, TakeLemma DEF LoopReply
  <2>3. f.of \in Cmd /\ executed'[f.of] # 0
    BY <2>2, ExecutedGrows DEF TrueAnswers, Frame
  <2>4. PICK b \in Answer : resp' = Reply(resp, f.of, b)
    <3> DEFINE b == [ok |-> TRUE, bytes |-> IF f.of \in sock[k].open
                                            THEN sock[k].buf[f.of] ELSE {}]
    <3>1. resp' = Reply(resp, f.of, b)
      BY <1>5, <2>1 DEF LoopReply
    <3>2. b \in Answer
      BY <2>3 DEF TypeOK, Answer
    <3> QED
      BY <3>1, <3>2
  <2>5. resp'[c] = resp[c] \/ c = f.of
    BY <1>1, <2>4 DEF Reply
  <2> QED
    BY <1>3, <2>3, <2>5
<1>6. CASE \E d \in Cmd : Push(d) \/ QueueTimeout(d) \/ Receive(d) \/ ReplyTimeout(d)
  BY <1>1, <1>3, <1>6 DEF Push, QueueTimeout, Receive, ReplyTimeout, backend
<1>7. CASE \E k \in Conn : \/ PumpPop(k) \/ PumpSend(k) \/ PumpEnds(k) \/ LoopBytes(k)
                          \/ LoopEnds(k) \/ Break(k)
  BY <1>3, <1>7 DEF PumpPop, PumpSend, PumpEnds, LoopBytes, LoopEnds, Break
<1>8. CASE Agent \/ AgentRestarts \/ UNCHANGED vars
  BY <1>3, <1>8 DEF Agent, AgentNotices, Connect, AgentTakes, AgentDoes, ShellEnds,
                    AgentRestarts, vars, backend
<1> QED
  BY <1>4, <1>5, <1>6, <1>7, <1>8 DEF Next, Pump, Loop

\* A caller gets only what its reply list holds.
LEMMA OutcomesTrue ==
  ASSUME TypeOK, TrueAnswers, [Next]_vars, NEW c \in Cmd, outcome'[c].ok
  PROVE  executed'[c] # 0
<1>1. ASSUME outcome'[c] = outcome[c] PROVE executed'[c] # 0
  BY <1>1, ExecutedGrows DEF TrueAnswers
<1>2. ASSUME NEW d \in Cmd, Receive(d) PROVE executed'[c] # 0
  <2>1. resp[d] \in Seq(Answer) /\ resp[d] # <<>> /\ outcome \in [Cmd -> Answer]
    BY <1>2 DEF TypeOK, Receive
  <2>2. outcome' = [outcome EXCEPT ![d] = Head(resp[d])] /\ Head(resp[d]) \in Elems(resp[d])
    BY <1>2, <2>1, TakeLemma DEF Receive
  <2>3. CASE c = d
    BY <2>1, <2>2, <2>3, ExecutedGrows DEF TrueAnswers
  <2>4. CASE c # d
    BY <1>1, <2>1, <2>2, <2>4
  <2> QED
    BY <2>3, <2>4
<1>3. CASE \E d \in Cmd : Push(d) \/ QueueTimeout(d) \/ ReplyTimeout(d)
  BY <1>1, <1>3 DEF Push, QueueTimeout, ReplyTimeout
<1>4. CASE \E k \in Conn : Pump(k) \/ Loop(k) \/ Break(k)
  BY <1>1, <1>4 DEF Pump, Loop, PumpPop, PumpSend, FailPending, PumpEnds, LoopBytes,
                    LoopReply, LoopEnds, Break, callers
<1>5. CASE Agent \/ AgentRestarts \/ UNCHANGED vars
  BY <1>1, <1>5 DEF Agent, AgentNotices, Connect, AgentTakes, AgentDoes, ShellEnds,
                    AgentRestarts, vars, callers
<1> QED
  BY <1>2, <1>3, <1>4, <1>5 DEF Next

\* TrueAnswers is preserved.
LEMMA TrueStep == TypeOK /\ SockOK /\ TrueAnswers /\ [Next]_vars => TrueAnswers'
<1> SUFFICES ASSUME TypeOK, SockOK, TrueAnswers, [Next]_vars PROVE TrueAnswers'
  OBVIOUS
<1>1. (\A c \in Cmd : running[c] # None => executed[c] # 0)'
  BY ShellsTrue
<1>2. (\A k \in Conn : \A f \in Elems(up[k]) : f.what = "resp" => executed[f.of] # 0)'
  BY SaysTrue
<1>3. (\A c \in Cmd : \A a \in Elems(resp[c]) : a.ok => executed[c] # 0)'
  BY RepliesTrue
<1>4. (\A c \in Cmd : outcome[c].ok => executed[c] # 0)'
  BY OutcomesTrue
<1> QED
  BY <1>1, <1>2, <1>3, <1>4 DEF TrueAnswers

-----------------------------------------------------------------------------
(* What a step does to the callers, the sockets and the reply lists.       *)

\* Two commands that share a lock.
Mate(c, d) == c # d /\ By[c] = By[d]

\* A caller goes from queued to waiting by its push, and on to late or done.
LEMMA CallerMoves ==
  ASSUME TypeOK, [Next]_vars, NEW d \in Cmd
  PROVE  /\ caller[d] = "late" => caller'[d] = "late"
         /\ caller'[d] = "waiting" => caller[d] = "waiting" \/ Push(d)
         /\ caller'[d] = "done" => caller[d] = "done" \/ Receive(d)
         /\ caller[d] \notin {"queued", "busy"} => caller'[d] \notin {"queued", "busy"}
         /\ caller'[d] = "queued" => caller[d] = "queued" /\ ~Push(d)
<1>1. ASSUME NEW c \in Cmd, Push(c) \/ QueueTimeout(c) \/ Receive(c) \/ ReplyTimeout(c)
      PROVE  /\ caller[d] = "late" => caller'[d] = "late"
             /\ caller'[d] = "waiting" => caller[d] = "waiting" \/ Push(d)
             /\ caller'[d] = "done" => caller[d] = "done" \/ Receive(d)
             /\ caller[d] \notin {"queued", "busy"} => caller'[d] \notin {"queued", "busy"}
             /\ caller'[d] = "queued" => caller[d] = "queued" /\ ~Push(d)
  <2>1. caller \in [Cmd -> {"queued", "waiting", "busy", "late", "done"}]
    BY DEF TypeOK
  <2>2. CASE Push(c)
    <3>1. caller' = [caller EXCEPT ![c] = "waiting"] /\ caller[c] = "queued"
      BY <2>2 DEF Push
    <3>2. Push(d) => caller'[d] = "waiting"
      BY <2>1 DEF Push
    <3> QED
      BY <2>1, <2>2, <3>1, <3>2
  <2>3. CASE QueueTimeout(c)
    BY <2>1, <2>3 DEF QueueTimeout, Push
  <2>4. CASE Receive(c)
    <3>1. caller' = [caller EXCEPT ![c] = "done"] /\ caller[c] = "waiting"
      BY <2>4 DEF Receive, Leave
    <3> QED
      BY <2>1, <2>4, <3>1 DEF Push
  <2>5. CASE ReplyTimeout(c)
    BY <2>1, <2>5 DEF ReplyTimeout, Leave, Push
  <2> QED
    BY <1>1, <2>2, <2>3, <2>4, <2>5
<1>2. ASSUME caller' = caller, ~Push(d)
      PROVE  /\ caller[d] = "late" => caller'[d] = "late"
             /\ caller'[d] = "waiting" => caller[d] = "waiting" \/ Push(d)
             /\ caller'[d] = "done" => caller[d] = "done" \/ Receive(d)
             /\ caller[d] \notin {"queued", "busy"} => caller'[d] \notin {"queued", "busy"}
             /\ caller'[d] = "queued" => caller[d] = "queued" /\ ~Push(d)
  BY <1>2
<1>3. caller' = caller => ~Push(d)
  BY DEF Push, TypeOK
<1>4. CASE \E k \in Conn : Pump(k) \/ Loop(k) \/ Break(k)
  BY <1>2, <1>3, <1>4 DEF Pump, Loop, PumpPop, PumpSend, FailPending, PumpEnds, LoopBytes,
                          LoopReply, LoopEnds, Break, callers
<1>5. CASE Agent \/ AgentRestarts \/ UNCHANGED vars
  BY <1>2, <1>3, <1>5 DEF Agent, AgentNotices, Connect, AgentTakes, AgentDoes, ShellEnds,
                          AgentRestarts, vars, callers
<1> QED
  BY <1>1, <1>4, <1>5 DEF Next

\* Popping a job.
LEMMA PopLemma ==
  ASSUME TypeOK, NEW k \in Conn, PumpPop(k)
  PROVE  /\ sock[k].pump = "pop" /\ queue # <<>> /\ queue' = Tail(queue)
         /\ sock'[k] = [sock[k] EXCEPT !.pump = "send", !.job = Head(queue)]
         /\ sock'[k].job = Head(queue) /\ sock'[k].marker = sock[k].marker
         /\ sock'[k].buf = sock[k].buf
         /\ sock'[k].open = sock[k].open /\ sock'[k].failing = sock[k].failing
<1>1. sock[k] \in SockSet /\ sock \in [Conn -> SockSet]
  BY DEF TypeOK, SockSet
<1>2. sock' = [sock EXCEPT ![k] = [sock[k] EXCEPT !.pump = "send", !.job = Head(queue)]]
  BY <1>1 DEF PumpPop
<1> QED
  BY <1>1, <1>2 DEF PumpPop, SockSet

\* Marking the command that is sent.
LEMMA SendMarks ==
  ASSUME TypeOK, SockOK, NEW k \in Conn, PumpSend(k)
  PROVE  /\ sock'[k].marker = IF sock[k].job \in Reads THEN sock[k].job ELSE sock[k].marker
         /\ \A c \in Cmd : sock'[k].buf[c] = IF c = sock[k].job THEN {} ELSE sock[k].buf[c]
<1> DEFINE c == sock[k].job
           marked == [sock[k] EXCEPT !.open = @ \cup {c}, !.buf[c] = {}, !.job = None,
                                     !.marker = IF c \in Reads THEN c ELSE @]
           sent == [marked EXCEPT !.pump = "pop"]
           failed == [marked EXCEPT !.pump = "fail", !.failing = marked.open]
<1>1. c \in Cmd /\ sock[k] \in SockSet /\ sock \in [Conn -> SockSet]
  BY SendLemma DEF TypeOK, SockSet
<1>2. sock' = [sock EXCEPT ![k] = sent] \/ sock' = [sock EXCEPT ![k] = failed]
  BY DEF PumpSend
<1>3. marked \in SockSet
  BY <1>1 DEF SockSet
<1>4. /\ marked.marker = IF c \in Reads THEN c ELSE sock[k].marker
      /\ marked.buf = [sock[k].buf EXCEPT ![c] = {}]
  BY <1>1 DEF SockSet
<1> HIDE DEF marked
<1>5. /\ sent.marker = marked.marker /\ sent.buf = marked.buf
      /\ failed.marker = marked.marker /\ failed.buf = marked.buf
  BY <1>3 DEF SockSet
<1>6. \A d \in Cmd : marked.buf[d] = IF d = c THEN {} ELSE sock[k].buf[d]
  BY <1>1, <1>4 DEF SockSet
<1> HIDE DEF sent, failed
<1>7. sock'[k] \in {sent, failed}
  BY <1>1, <1>2
<1>8. sock'[k].marker = marked.marker /\ sock'[k].buf = marked.buf
  BY <1>5, <1>7
<1> QED
  BY <1>4, <1>6, <1>8

\* The receive loop files bytes.
LEMMA BytesLemma ==
  ASSUME TypeOK, NEW k \in Conn, LoopBytes(k)
  PROVE  /\ up[k] # <<>> /\ Head(up[k]).what = "bytes"
         /\ sock'[k].marker = sock[k].marker /\ sock'[k].job = sock[k].job
         /\ sock'[k].open = sock[k].open /\ sock'[k].failing = sock[k].failing
         /\ sock'[k].pump = sock[k].pump
         /\ \A c \in Cmd : \/ sock'[k].buf[c] = sock[k].buf[c]
                           \/ /\ c = sock[k].marker
                              /\ sock'[k].buf[c] = sock[k].buf[c] \cup {Head(up[k]).of}
<1>1. sock[k] \in SockSet /\ sock \in [Conn -> SockSet]
  BY DEF TypeOK, SockSet
<1> DEFINE m == sock[k].marker
           r == [sock[k] EXCEPT !.buf[m] = @ \cup {Head(up[k]).of}]
<1>2. sock' = [sock EXCEPT ![k] = r] \/ sock' = sock
  <2>1. CASE m \in sock[k].open
    BY <1>1, <2>1 DEF LoopBytes
  <2>2. CASE m \notin sock[k].open
    BY <2>2 DEF LoopBytes
  <2> QED
    BY <2>1, <2>2
<1>3. /\ r.marker = sock[k].marker /\ r.job = sock[k].job /\ r.pump = sock[k].pump
      /\ r.open = sock[k].open /\ r.failing = sock[k].failing
      /\ r.buf = [sock[k].buf EXCEPT ![m] = @ \cup {Head(up[k]).of}]
  BY <1>1 DEF SockSet
<1>4. \A c \in Cmd : r.buf[c] = IF c = m THEN sock[k].buf[c] \cup {Head(up[k]).of}
                                ELSE sock[k].buf[c]
  BY <1>1, <1>3 DEF SockSet
<1> HIDE DEF r
<1> QED
  BY <1>1, <1>2, <1>3, <1>4 DEF LoopBytes

\* What the other steps leave of a socket.
Fewer(k) ==
  /\ sock'[k].open \subseteq sock[k].open
  /\ sock'[k].failing \subseteq sock[k].failing \cup sock[k].open
  /\ sock[k].pump \in {"fail", "over"} => sock'[k].pump \in {"fail", "over"}
  /\ sock'[k].marker \in {sock[k].marker, None} /\ sock'[k].job \in {sock[k].job, None}
  /\ sock'[k].buf = sock[k].buf

\* Popping, sending and filing aside, a step expects no more of a socket.
LEMMA SockSteps ==
  ASSUME TypeOK, SockOK, [Next]_vars, NEW k \in Conn,
         ~PumpPop(k), ~PumpSend(k), ~LoopBytes(k)
  PROVE  Fewer(k)
<1>1. SockGood(sock[k]) /\ sock[k] \in SockSet /\ sock \in [Conn -> SockSet]
  BY DEF SockOK, TypeOK, SockSet
<1>2. CASE sock'[k] = sock[k]
  BY <1>2 DEF Fewer
<1>3. CASE FailPending(k)
  <2>1. PICK c \in sock[k].failing :
          sock' = [sock EXCEPT ![k].failing = @ \ {c}, ![k].open = @ \ {c},
                               ![k].marker = IF @ = c THEN None ELSE @]
    BY <1>3 DEF FailPending
  <2> QED
    BY <1>1, <2>1 DEF SockSet, Fewer
<1>4. CASE PumpEnds(k)
  BY <1>1, <1>4 DEF PumpEnds, SockSet, Fewer
<1>5. CASE LoopReply(k)
  BY <1>1, <1>5 DEF LoopReply, SockSet, Fewer
<1>6. CASE LoopEnds(k)
  BY <1>1, <1>6 DEF LoopEnds, SockSet, Fewer
<1>7. CASE Break(k)
  BY <1>1, <1>7 DEF Break, SockSet, Fewer
<1>8. CASE Connect(k)
  BY <1>1, <1>8 DEF Connect, SockGood, SockSet, Fewer
<1>9. ASSUME NEW j \in Conn, j # k, Pump(j) \/ Loop(j) \/ Break(j) \/ Connect(j)
      PROVE  sock'[k] = sock[k]
  BY <1>9, PumpGood
<1> QED
  BY <1>2, <1>3, <1>4, <1>5, <1>6, <1>7, <1>8, <1>9, SockMoves DEF Pump, Loop

\* Replies come from three places.
LEMMA RespMoves ==
  ASSUME TypeOK, [Next]_vars, NEW c \in Cmd
  PROVE  \/ resp'[c] = resp[c] /\ (caller'[c] = "done" => caller[c] = "done")
         \/ resp[c] # <<>> /\ resp'[c] = Tail(resp[c]) /\ Receive(c)
         \/ /\ resp'[c] = Append(resp[c], Disconnected)
            /\ \E k \in Conn : FailPending(k) /\ c \in sock[k].failing
            /\ caller' = caller
         \/ \E k \in Conn, a \in Answer :
              /\ LoopReply(k) /\ Head(up[k]).of = c
              /\ resp'[c] = Append(resp[c], a) /\ (a.bytes = {} \/ a.bytes = sock[k].buf[c])
              /\ caller' = caller
<1>1. resp \in [Cmd -> Seq(Answer)]
  BY DEF TypeOK
<1>2. ASSUME NEW d \in Cmd, Receive(d)
      PROVE  \/ resp'[c] = resp[c] /\ (caller'[c] = "done" => caller[c] = "done")
             \/ resp[c] # <<>> /\ resp'[c] = Tail(resp[c]) /\ Receive(c)
  <2>1. CASE c = d
    BY <1>1, <1>2, <2>1 DEF Receive
  <2>2. CASE c # d
    BY <1>1, <1>2, <2>2 DEF Receive, Leave, TypeOK
  <2> QED
    BY <2>1, <2>2
<1>3. ASSUME NEW k \in Conn, FailPending(k)
      PROVE  \/ resp'[c] = resp[c] /\ caller' = caller
             \/ /\ resp'[c] = Append(resp[c], Disconnected)
                /\ \E j \in Conn : FailPending(j) /\ c \in sock[j].failing
                /\ caller' = caller
  <2>1. PICK d \in sock[k].failing : resp' = Reply(resp, d, Disconnected)
    BY <1>3 DEF FailPending
  <2> QED
    BY <1>1, <1>3, <2>1 DEF Reply, FailPending, callers
<1>4. ASSUME NEW k \in Conn, LoopReply(k)
      PROVE  \/ resp'[c] = resp[c] /\ caller' = caller
             \/ \E j \in Conn, a \in Answer :
                  /\ LoopReply(j) /\ Head(up[j]).of = c
                  /\ resp'[c] = Append(resp[c], a) /\ (a.bytes = {} \/ a.bytes = sock[j].buf[c])
                  /\ caller' = caller
  <2> DEFINE d == Head(up[k]).of
             a == [ok |-> TRUE, bytes |-> IF d \in sock[k].open THEN sock[k].buf[d] ELSE {}]
  <2>1. resp' = Reply(resp, d, a) /\ caller' = caller
    BY <1>4 DEF LoopReply, callers
  <2>2. CASE c = d
    <3>1. a \in Answer /\ (a.bytes = {} \/ a.bytes = sock[k].buf[c])
      BY <2>2 DEF TypeOK, Answer
    <3>2. resp'[c] = Append(resp[c], a)
      BY <1>1, <2>1, <2>2 DEF Reply
    <3> QED
      BY <1>4, <2>1, <2>2, <3>1, <3>2
  <2>3. CASE c # d
    BY <1>1, <2>1, <2>3 DEF Reply
  <2> QED
    BY <2>2, <2>3
<1>5. CASE \E d \in Cmd : Push(d) \/ QueueTimeout(d) \/ ReplyTimeout(d)
  BY <1>5 DEF Push, QueueTimeout, ReplyTimeout, Leave, backend, TypeOK
<1>6. CASE \E k \in Conn : \/ PumpPop(k) \/ PumpSend(k) \/ PumpEnds(k) \/ LoopBytes(k)
                          \/ LoopEnds(k) \/ Break(k)
  BY <1>6 DEF PumpPop, PumpSend, PumpEnds, LoopBytes, LoopEnds, Break, callers
<1>7. CASE Agent \/ AgentRestarts \/ UNCHANGED vars
  BY <1>7 DEF Agent, AgentNotices, Connect, AgentTakes, AgentDoes, ShellEnds, AgentRestarts,
              vars, backend, callers
<1> QED
  BY <1>2, <1>3, <1>4, <1>5, <1>6, <1>7 DEF Next, Pump, Loop

-----------------------------------------------------------------------------
(* Bytes cross only between commands that were under way together.         *)

Bytes(c) == [what |-> "bytes", of |-> c]

\* Sent on socket k, and bytes of it may come back there.
OnWire(k, d) == \/ d \in Elems(down[k])
                \/ agent.on = k /\ agent.doing = d
                \/ Bytes(d) \in Elems(up[k])

\* The caller inside holds the lock; the list keeps the order of the pushes, so
\* that whoever else has the waiting command's lock is in front of it.
LockOK == \A c \in Cmd : caller[c] = "waiting" => lock[By[c]] = c
QueueOK ==
  /\ \A i, j \in DOMAIN queue :
       i < j /\ Mate(queue[i], queue[j]) => caller[queue[i]] # "waiting"
  /\ \A c, d \in Cmd :
       Mate(c, d) /\ caller[d] = "waiting" /\ InQueue(c) => InQueue(d)

\* A command that has not been sent has no answer and is expected nowhere; one
\* that has been is expected on its own socket only.
Unsent(c) == caller[c] = "queued" \/ InQueue(c) \/ \E k \in Conn : sock[k].job = c
Expects(k) == sock[k].open \cup sock[k].failing
FreshOK ==
  \A c \in Cmd : Unsent(c) =>
    /\ resp[c] = <<>> /\ caller[c] # "done"
    /\ \A k \in Conn : c \notin Expects(k)
SentOK == \A k, j \in Conn, d \in Cmd : OnWire(k, d) /\ d \in Expects(j) => j = k

\* If it has an answer and is still under way, the socket has been given up.
ReplyOK ==
  \A k \in Conn, d \in Cmd :
    OnWire(k, d) /\ (resp[d] # <<>> \/ caller[d] = "done") => sock[k].pump \in {"fail", "over"}

\* Under way on a socket, it is the last of its lock that was sent there.
MarkOK ==
  \A k \in Conn, d \in Reads, c \in Cmd :
    OnWire(k, d) /\ caller[d] # "late" /\ Mate(c, d) =>
      sock[k].marker # c /\ sock[k].job # c

\* The bytes of a command come from the agent, before the reply.
Ordered(s) ==
  \A i, j \in DOMAIN s :
    s[i].what = "resp" /\ s[j].what = "bytes" /\ s[i].of = s[j].of => j < i
FrameOK ==
  /\ \A k \in Conn : Ordered(up[k])
  /\ \A k \in Conn : \A f \in Elems(up[k]) :
       f.what = "bytes" => executed[f.of] # 0 /\ f.of \in Reads
  /\ \A k, l \in Conn : \A f \in Elems(up[k]), g \in Elems(up[l]) :
       f.what = "resp" /\ g.what = "bytes" /\ f.of = g.of => k = l
  /\ \A c \in Cmd : running[c] # None => c \in Shells

\* Bytes that cross are those of a command whose caller gave up.
Clean(c, bytes) == \A d \in bytes : Mate(c, d) => caller[d] = "late"
CleanOK ==
  \A c \in Cmd :
    /\ \A k \in Conn : Clean(c, sock[k].buf[c])
    /\ \A a \in Elems(resp[c]) : Clean(c, a.bytes)
    /\ Clean(c, outcome[c].bytes)

CrossInv == /\ LockOK /\ QueueOK /\ FreshOK /\ SentOK
            /\ ReplyOK /\ MarkOK /\ FrameOK /\ CleanOK

\* A command under way has left its caller, the list and the pumps.
LEMMA WirePlace ==
  ASSUME OnePlace, FrameOK, NEW k \in Conn, NEW d \in Cmd, OnWire(k, d)
  PROVE  ~Unsent(d) /\ caller[d] \notin {"queued", "busy"}
<1>1. PICK w \in [Cmd -> Place] : Placed(w)
  BY DEF OnePlace
<1>2. w[d] \in {<<"wire", k>>, <<"agent", None>>, <<"done", None>>}
  <2>1. CASE Bytes(d) \in Elems(up[k])
    <3>1. executed[d] # 0
      BY <2>1 DEF FrameOK, Bytes
    <3> QED
      BY <1>1, <3>1 DEF Placed
  <2> QED
    BY <1>1, <2>1 DEF OnWire, Placed
<1> QED
  BY <1>1, <1>2 DEF Placed, Unsent

\* One that has run has left the wires, the agent's hands and the list too.
LEMMA RanPlace ==
  ASSUME OnePlace, NEW d \in Cmd, executed[d] # 0
  PROVE  /\ ~Unsent(d) /\ agent.doing # d
         /\ \A k \in Conn : d \notin Elems(down[k])
BY DEF OnePlace, Placed, Unsent

\* The commands the pumps hold are in no other place.
LEMMA JobPlace ==
  ASSUME OnePlace, NEW k \in Conn, NEW c \in Cmd, sock[k].job = c
  PROVE  /\ ~InQueue(c) /\ caller[c] # "queued" /\ executed[c] = 0 /\ agent.doing # c
         /\ \A j \in Conn : (j # k => sock[j].job # c) /\ c \notin Elems(down[j])
BY DEF OnePlace, Placed

\* What the agent says of a command.
LEMMA SayElems ==
  ASSUME TypeOK, NEW c \in Cmd
  PROVE  /\ Bytes(c) \in Frame /\ Resp(c) \in Frame
         /\ <<Resp(c)>> \in Seq(Frame) /\ Elems(<<Resp(c)>>) = {Resp(c)}
         /\ Ordered(<<Resp(c)>>)
         /\ <<Bytes(c), Resp(c)>> \in Seq(Frame)
         /\ Elems(<<Bytes(c), Resp(c)>>) = {Bytes(c), Resp(c)}
         /\ Ordered(<<Bytes(c), Resp(c)>>)
<1>1. /\ Bytes(c) \in Frame /\ Bytes(c).what = "bytes" /\ Bytes(c).of = c
      /\ Resp(c) \in Frame /\ Resp(c).what = "resp" /\ Resp(c).of = c
  BY DEF Frame, Resp, Bytes
<1> DEFINE b == Bytes(c)
           r == Resp(c)
<1> HIDE DEF b, r
<1>2. /\ <<r>> \in Seq(Frame) /\ <<b, r>> \in Seq(Frame)
      /\ DOMAIN <<r>> = {1} /\ <<r>>[1] = r
      /\ DOMAIN <<b, r>> = {1, 2} /\ <<b, r>>[1] = b /\ <<b, r>>[2] = r
  <2>1. b \in Frame /\ r \in Frame
    BY <1>1 DEF b, r
  <2>2. <<r>> \in Seq(Frame) /\ <<b, r>> \in Seq(Frame)
    BY <2>1
  <2>3. DOMAIN <<r>> = {1} /\ <<r>>[1] = r
    OBVIOUS
  <2>4. DOMAIN <<b, r>> = {1, 2} /\ <<b, r>>[1] = b /\ <<b, r>>[2] = r
    OBVIOUS
  <2> QED
    BY <2>2, <2>3, <2>4
<1>3. b.what = "bytes" /\ r.what = "resp"
  BY <1>1 DEF b, r
<1>4. Elems(<<r>>) = {r} /\ Elems(<<b, r>>) = {b, r}
  BY <1>2 DEF Elems
<1>5. Ordered(<<r>>) /\ Ordered(<<b, r>>)
  BY <1>2, <1>3 DEF Ordered
<1> QED
  BY <1>1, <1>2, <1>4, <1>5 DEF b, r

\* Only sending a command brings it under way on a socket.
LEMMA WireStep ==
  ASSUME TypeOK, SockOK, [Next]_vars, NEW k \in Conn, NEW d \in Cmd, OnWire(k, d)'
  PROVE  OnWire(k, d) \/ (PumpSend(k) /\ d = sock[k].job)
<1>1. /\ down \in [Conn -> Seq(Cmd)] /\ up \in [Conn -> Seq(Frame)]
      /\ down[k] \in Seq(Cmd) /\ up[k] \in Seq(Frame)
      /\ agent \in [on : Conn \cup {None}, doing : Cmd \cup {None}]
      /\ d # None
  BY DEF TypeOK, None
<1>2. ASSUME Elems(down'[k]) \subseteq Elems(down[k]), Elems(up'[k]) \subseteq Elems(up[k]),
             agent'.doing = None \/ UNCHANGED agent
      PROVE  OnWire(k, d)
  BY <1>1, <1>2 DEF OnWire
<1>3. CASE UNCHANGED wire /\ UNCHANGED agent
  BY <1>2, <1>3 DEF wire
<1>4. ASSUME NEW j \in Conn, PumpSend(j)
      PROVE  OnWire(k, d) \/ (PumpSend(k) /\ d = sock[k].job)
  <2>1. down' = [down EXCEPT ![j] = Append(@, sock[j].job)] \/ down' = down
    BY <1>4 DEF PumpSend
  <2>2. UNCHANGED <<up, agent>>
    BY <1>4 DEF PumpSend, device
  <2>3. CASE j # k \/ down' = down
    BY <1>1, <1>2, <2>1, <2>2, <2>3
  <2>4. CASE j = k /\ down' # down
    <3>1. PICK c \in Cmd : c = sock[k].job
      BY <1>4, <2>4, SendLemma
    <3>2. down'[k] = Append(down[k], c)
      BY <1>1, <2>1, <2>4, <3>1
    <3>3. Elems(Append(down[k], c)) = Elems(down[k]) \cup {c}
      BY <1>1, PutLemma
    <3> QED
      BY <1>4, <2>2, <2>4, <3>1, <3>2, <3>3 DEF OnWire
  <2> QED
    BY <2>3, <2>4
<1>5. ASSUME NEW j \in Conn, LoopBytes(j) \/ LoopReply(j) PROVE OnWire(k, d)
  <2>1. up[j] # <<>> /\ up' = [up EXCEPT ![j] = Tail(@)] /\ UNCHANGED <<down, agent>>
    BY <1>5 DEF LoopBytes, LoopReply, device
  <2>2. Elems(up'[k]) \subseteq Elems(up[k])
    BY <1>1, <2>1, TakeLemma
  <2> QED
    BY <1>2, <2>1, <2>2
<1>6. ASSUME NEW j \in Conn, Break(j) PROVE OnWire(k, d)
  <2>1. /\ down'[k] = down[k] \/ down'[k] = <<>>
        /\ up'[k] = up[k] \/ up'[k] = <<>>
    BY <1>1, <1>6 DEF Break
  <2> QED
    BY <1>2, <1>6, <2>1, NothingLemma DEF Break, device
<1>7. CASE AgentNotices \/ AgentRestarts \/ \E j \in Conn : Connect(j)
  <2>1. UNCHANGED wire /\ agent'.doing = None
    <3>1. CASE AgentNotices
      BY <1>1, <3>1 DEF AgentNotices
    <3>2. CASE AgentRestarts
      BY <3>2 DEF AgentRestarts
    <3>3. CASE \E j \in Conn : Connect(j)
      BY <1>1, <3>3 DEF Connect
    <3> QED
      BY <1>7, <3>1, <3>2, <3>3
  <2> QED
    BY <1>2, <2>1 DEF wire
<1>8. ASSUME NEW j \in Conn, AgentTakes(j) PROVE OnWire(k, d)
  <2>1. /\ agent.on = j /\ agent.doing = None /\ down[j] # <<>>
        /\ down' = [down EXCEPT ![j] = Tail(@)] /\ up' = up
        /\ agent' = agent \/ agent' = [agent EXCEPT !.doing = Head(down[j])]
    BY <1>8 DEF AgentTakes
  <2>2. Elems(down'[k]) \subseteq Elems(down[k]) /\ Head(down[j]) \in Elems(down[j])
    BY <1>1, <2>1, TakeLemma
  <2>3. CASE agent' = agent
    BY <1>2, <2>1, <2>2, <2>3
  <2>4. CASE agent' = [agent EXCEPT !.doing = Head(down[j])]
    BY <1>1, <2>1, <2>2, <2>4 DEF OnWire
  <2> QED
    BY <2>1, <2>3, <2>4
<1>9. ASSUME NEW j \in Conn, AgentDoes(j) PROVE OnWire(k, d)
  <2>1. PICK c \in Cmd : c = agent.doing
    BY <1>1, <1>9 DEF AgentDoes
  <2>2. /\ agent.on = j /\ down' = down /\ agent'.doing = None
        /\ Say(j, <<Resp(c)>>) \/ Say(j, <<Bytes(c), Resp(c)>>)
    BY <1>1, <1>9, <2>1 DEF AgentDoes, Bytes
  <2>3. Elems(up'[k]) \subseteq Elems(up[k]) \cup (IF j = k THEN {Bytes(c), Resp(c)} ELSE {})
    <3> DEFINE r == <<Resp(c)>>
               br == <<Bytes(c), Resp(c)>>
    <3>1. r \in Seq(Frame) /\ br \in Seq(Frame)
          /\ Elems(r) \subseteq {Bytes(c), Resp(c)} /\ Elems(br) \subseteq {Bytes(c), Resp(c)}
      BY SayElems
    <3>2. Say(j, r) \/ Say(j, br)
      BY <2>2
    <3> HIDE DEF r, br
    <3>3. CASE j # k \/ up' = up
      BY <1>1, <3>2, <3>3 DEF Say
    <3>4. CASE j = k /\ up' # up
      <4>1. up'[k] = up[k] \o r \/ up'[k] = up[k] \o br
        BY <1>1, <3>2, <3>4 DEF Say
      <4>2. /\ Elems(up[k] \o r) \subseteq Elems(up[k]) \cup Elems(r)
            /\ Elems(up[k] \o br) \subseteq Elems(up[k]) \cup Elems(br)
        BY <1>1, <3>1, SayLemma
      <4> QED
        BY <3>1, <3>4, <4>1, <4>2
    <3> QED
      BY <3>3, <3>4
  <2>4. Bytes(d) # Resp(c) /\ (Bytes(d) = Bytes(c) => d = c)
    BY DEF Bytes, Resp
  <2> QED
    BY <1>1, <2>1, <2>2, <2>3, <2>4 DEF OnWire
<1>10. ASSUME NEW c \in Cmd, ShellEnds(c) PROVE OnWire(k, d)
  <2>1. Say(running[c], <<Resp(c)>>) /\ running[c] \in Conn /\ UNCHANGED <<down, agent>>
    BY <1>10 DEF ShellEnds, TypeOK
  <2>2. Elems(up'[k]) \subseteq Elems(up[k]) \cup {Resp(c)}
    <3> DEFINE r == <<Resp(c)>>
    <3>1. r \in Seq(Frame) /\ Elems(r) = {Resp(c)}
      BY SayElems
    <3>2. Say(running[c], r)
      BY <2>1
    <3> HIDE DEF r
    <3>3. up'[k] = up[k] \/ up'[k] = up[k] \o r
      BY <1>1, <2>1, <3>2 DEF Say
    <3> QED
      BY <1>1, <3>1, <3>3, SayLemma
  <2>3. Bytes(d) # Resp(c)
    BY DEF Bytes, Resp
  <2> QED
    BY <2>1, <2>2, <2>3 DEF OnWire
<1>11. CASE \E c \in Cmd : Push(c) \/ QueueTimeout(c) \/ Receive(c) \/ ReplyTimeout(c)
  BY <1>3, <1>11 DEF Push, QueueTimeout, Receive, ReplyTimeout, device
<1>12. CASE \E j \in Conn : PumpPop(j) \/ FailPending(j) \/ PumpEnds(j) \/ LoopEnds(j)
  BY <1>3, <1>12 DEF PumpPop, FailPending, PumpEnds, LoopEnds, device
<1>13. CASE UNCHANGED vars
  BY <1>3, <1>13 DEF vars, device
<1> QED
  BY <1>4, <1>5, <1>6, <1>7, <1>8, <1>9, <1>10, <1>11, <1>12, <1>13 DEF Next, Agent, Pump, Loop

\* LockOK is preserved: a caller leaves with its own lock only.
LEMMA LockStep == TypeOK /\ LockOK /\ [Next]_vars => LockOK'
<1> SUFFICES ASSUME TypeOK, LockOK, [Next]_vars, NEW c \in Cmd, caller'[c] = "waiting"
             PROVE  lock'[By[c]] = c
  BY DEF LockOK
<1>1. /\ caller \in [Cmd -> {"queued", "waiting", "busy", "late", "done"}]
      /\ lock \in [Proc -> Cmd \cup {None}] /\ By \in [Cmd -> Proc] /\ c # None
  BY DEF TypeOK, None
<1>2. ASSUME NEW d \in Cmd, Push(d) PROVE lock'[By[c]] = c
  <2>1. /\ lock[By[d]] = None /\ lock' = [lock EXCEPT ![By[d]] = d]
        /\ caller' = [caller EXCEPT ![d] = "waiting"]
    BY <1>2 DEF Push
  <2> QED
    BY <1>1, <2>1 DEF LockOK
<1>3. ASSUME NEW d \in Cmd, NEW how \in {"done", "late"}, Leave(d, how) PROVE lock'[By[c]] = c
  BY <1>1, <1>3 DEF Leave, LockOK
<1>4. CASE \E d \in Cmd : Receive(d) \/ ReplyTimeout(d)
  BY <1>3, <1>4 DEF Receive, ReplyTimeout
<1>5. CASE \E d \in Cmd : QueueTimeout(d)
  BY <1>1, <1>5 DEF QueueTimeout, LockOK
<1>6. CASE UNCHANGED callers
  BY <1>6 DEF callers, LockOK
<1>7. CASE \E k \in Conn : Pump(k) \/ Loop(k) \/ Break(k)
  BY <1>6, <1>7 DEF Pump, Loop, PumpPop, PumpSend, FailPending, PumpEnds, LoopBytes,
                    LoopReply, LoopEnds, Break
<1>8. CASE Agent \/ AgentRestarts \/ UNCHANGED vars
  BY <1>6, <1>8 DEF Agent, AgentNotices, Connect, AgentTakes, AgentDoes, ShellEnds,
                    AgentRestarts, vars
<1> QED
  BY <1>2, <1>4, <1>5, <1>7, <1>8 DEF Next

\* QueueOK is preserved: only one that holds the lock pushes, behind the others.
LEMMA QueueStep == TypeOK /\ OnePlace /\ LockOK /\ QueueOK /\ [Next]_vars => QueueOK'
<1> SUFFICES ASSUME TypeOK, OnePlace, LockOK, QueueOK, [Next]_vars PROVE QueueOK'
  OBVIOUS
<1>1. queue \in Seq(Cmd) /\ Len(queue) \in Nat /\ DOMAIN queue = 1 .. Len(queue)
  BY LenProperties DEF TypeOK
<1>2. ASSUME NEW d \in Cmd, Push(d) PROVE QueueOK'
  <2>1. /\ queue' = Append(queue, d) /\ lock[By[d]] = None
        /\ caller' = [caller EXCEPT ![d] = "waiting"]
    BY <1>2 DEF Push
  <2>2. /\ DOMAIN queue' = 1 .. Len(queue) + 1
        /\ \A i \in 1 .. Len(queue) : queue'[i] = queue[i] /\ queue[i] \in Cmd
        /\ queue'[Len(queue) + 1] = d
    BY <1>1, <2>1, AppendProperties, ElementOfSeq
  <2>3. Elems(queue') = Elems(queue) \cup {d}
    BY <1>1, <2>1, PutLemma
  <2>4. \A c \in Cmd : Mate(c, d) => caller[c] # "waiting" /\ caller'[c] # "waiting"
    BY <2>1 DEF TypeOK, LockOK, Mate, None
  <2>5. \A c \in Cmd : c # d => caller'[c] = caller[c]
    BY <2>1 DEF TypeOK
  <2>6. ASSUME NEW i \in DOMAIN queue', NEW j \in DOMAIN queue', i < j,
               Mate(queue'[i], queue'[j])
        PROVE  caller'[queue'[i]] # "waiting"
    <3>1. i \in 1 .. Len(queue)
      BY <1>1, <2>2, <2>6
    <3>2. CASE j \in 1 .. Len(queue)
      <4>1. caller[queue[i]] # "waiting"
        BY <1>1, <2>2, <2>6, <3>1, <3>2 DEF QueueOK
      <4>2. queue[i] # d
        BY <1>1, <1>2, <3>1 DEF Push, OnePlace, Placed, InQueue, Elems
      <4> QED
        BY <2>2, <2>5, <3>1, <4>1, <4>2
    <3>3. CASE j = Len(queue) + 1
      BY <2>2, <2>4, <2>6, <3>1, <3>3
    <3> QED
      BY <1>1, <2>2, <3>2, <3>3
  <2>7. ASSUME NEW c \in Cmd, NEW e \in Cmd, Mate(c, e), caller'[e] = "waiting", InQueue(c)'
        PROVE  InQueue(e)'
    BY <2>3, <2>4, <2>5, <2>7 DEF QueueOK, InQueue, Mate
  <2> QED
    BY <2>6, <2>7 DEF QueueOK
<1>3. ASSUME \A c \in Cmd : caller'[c] = "waiting" => caller[c] = "waiting" PROVE
        /\ queue' = queue => QueueOK'
        /\ queue # <<>> /\ queue' = Tail(queue) => QueueOK'
  <2>1. ASSUME queue' = queue PROVE QueueOK'
    <3>1. \A i \in DOMAIN queue : queue[i] \in Cmd
      BY <1>1, ElementOfSeq
    <3> QED
      BY <1>3, <2>1, <3>1 DEF QueueOK, InQueue
  <2>2. ASSUME queue # <<>>, queue' = Tail(queue) PROVE QueueOK'
    <3>1. /\ Len(queue) >= 1 /\ Head(queue) = queue[1]
          /\ DOMAIN Tail(queue) = 1 .. Len(queue) - 1
          /\ \A i \in 1 .. Len(queue) - 1 : Tail(queue)[i] = queue[i + 1]
      BY <1>1, <2>2, EmptySeq, HeadTailProperties, LenProperties
    <3>2. \A i \in 1 .. Len(queue) : queue[i] \in Cmd
      BY <1>1, ElementOfSeq
    <3>3. ASSUME NEW i \in DOMAIN queue', NEW j \in DOMAIN queue', i < j,
                 Mate(queue'[i], queue'[j])
          PROVE  caller'[queue'[i]] # "waiting"
      <4>1. /\ i + 1 \in DOMAIN queue /\ j + 1 \in DOMAIN queue /\ i + 1 < j + 1
            /\ queue'[i] = queue[i + 1] /\ queue'[j] = queue[j + 1] /\ queue[i + 1] \in Cmd
        BY <1>1, <2>2, <3>1, <3>2, <3>3
      <4> QED
        BY <1>3, <3>3, <4>1 DEF QueueOK
    <3>4. ASSUME NEW c \in Cmd, NEW e \in Cmd, Mate(c, e), caller'[e] = "waiting", InQueue(c)'
          PROVE  InQueue(e)'
      <4>1. caller[e] = "waiting"
        BY <1>3, <3>4
      <4>2. PICK i \in 1 .. Len(queue) - 1 : c = queue[i + 1]
        BY <2>2, <3>1, <3>4 DEF InQueue, Elems
      <4>3. i + 1 \in DOMAIN queue /\ 1 \in DOMAIN queue /\ 1 < i + 1
        BY <1>1, <3>1, <4>2
      <4>4. InQueue(e)
        BY <3>4, <4>1, <4>2, <4>3 DEF QueueOK, InQueue, Elems
      <4>5. e # Head(queue)
        BY <3>1, <3>4, <4>1, <4>2, <4>3 DEF QueueOK, Mate
      <4> QED
        BY <1>1, <2>2, <4>4, <4>5, TakeLemma DEF InQueue
    <3> QED
      BY <3>3, <3>4 DEF QueueOK
  <2> QED
    BY <2>1, <2>2
<1>4. CASE ~\E d \in Cmd : Push(d)
  <2>1. \A c \in Cmd : caller'[c] = "waiting" => caller[c] = "waiting"
    BY <1>4, CallerMoves
  <2>2. queue' = queue \/ (queue # <<>> /\ queue' = Tail(queue))
    <3>1. CASE \E d \in Cmd : QueueTimeout(d) \/ Receive(d) \/ ReplyTimeout(d)
      BY <3>1 DEF QueueTimeout, Receive, ReplyTimeout, backend
    <3>2. CASE \E k \in Conn : Pump(k) \/ Loop(k) \/ Break(k)
      BY <3>2 DEF Pump, Loop, PumpPop, PumpSend, FailPending, PumpEnds, LoopBytes,
                  LoopReply, LoopEnds, Break
    <3>3. CASE Agent \/ AgentRestarts \/ UNCHANGED vars
      BY <3>3 DEF Agent, AgentNotices, Connect, AgentTakes, AgentDoes, ShellEnds,
                  AgentRestarts, vars, backend
    <3> QED
      BY <1>4, <3>1, <3>2, <3>3 DEF Next
  <2> QED
    BY <1>3, <2>1, <2>2
<1> QED
  BY <1>2, <1>4

\* What is unsent after a step was unsent before it.
LEMMA UnsentBefore ==
  ASSUME TypeOK, SockOK, [Next]_vars, NEW c \in Cmd, Unsent(c)'
  PROVE  Unsent(c)
<1>1. queue \in Seq(Cmd) /\ c # None
  BY DEF TypeOK, None
<1>2. ASSUME InQueue(c)' PROVE Unsent(c)
  <2>1. CASE \E d \in Cmd : Push(d)
    <3>1. PICK d \in Cmd : Push(d)
      BY <2>1
    <3>2. c \in Elems(queue) \cup {d}
      BY <1>1, <1>2, <3>1, PutLemma DEF Push, InQueue
    <3> QED
      BY <3>1, <3>2 DEF Push, Unsent, InQueue
  <2>2. CASE queue' = queue \/ (queue # <<>> /\ queue' = Tail(queue))
    BY <1>1, <1>2, <2>2, TakeLemma DEF Unsent, InQueue
  <2>3. CASE \E d \in Cmd : QueueTimeout(d) \/ Receive(d) \/ ReplyTimeout(d)
    BY <2>2, <2>3 DEF QueueTimeout, Receive, ReplyTimeout, backend
  <2>4. CASE \E k \in Conn : Pump(k) \/ Loop(k) \/ Break(k)
    BY <2>2, <2>4 DEF Pump, Loop, PumpPop, PumpSend, FailPending, PumpEnds, LoopBytes,
                      LoopReply, LoopEnds, Break
  <2>5. CASE Agent \/ AgentRestarts \/ UNCHANGED vars
    BY <2>2, <2>5 DEF Agent, AgentNotices, Connect, AgentTakes, AgentDoes, ShellEnds,
                      AgentRestarts, vars, backend
  <2> QED
    BY <2>1, <2>3, <2>4, <2>5 DEF Next
<1>3. ASSUME NEW k \in Conn, sock'[k].job = c PROVE Unsent(c)
  <2>1. CASE PumpPop(k)
    <3>1. queue # <<>> /\ c = Head(queue)
      BY <1>3, <2>1, PopLemma
    <3>2. c \in Elems(queue)
      BY <1>1, <3>1, TakeLemma
    <3> QED
      BY <3>2 DEF Unsent, InQueue
  <2>2. CASE PumpSend(k)
    BY <1>1, <1>3, <2>2, SendLemma
  <2>3. CASE LoopBytes(k)
    BY <1>3, <2>3, BytesLemma DEF Unsent
  <2>4. CASE ~PumpPop(k) /\ ~PumpSend(k) /\ ~LoopBytes(k)
    BY <1>1, <1>3, <2>4, SockSteps DEF Fewer, Unsent
  <2> QED
    BY <2>1, <2>2, <2>3, <2>4
<1> QED
  BY <1>2, <1>3, CallerMoves DEF Unsent

\* Only what is sent is newly expected.
LEMMA ExpectsLemma ==
  ASSUME TypeOK, SockOK, [Next]_vars, NEW k \in Conn
  PROVE  Expects(k)' \subseteq Expects(k) \cup (IF PumpSend(k) THEN {sock[k].job} ELSE {})
<1>1. CASE PumpPop(k)
  BY <1>1, PopLemma DEF Expects
<1>2. CASE PumpSend(k)
  BY <1>2, SendLemma DEF Expects
<1>3. CASE LoopBytes(k)
  BY <1>3, BytesLemma DEF Expects
<1>4. CASE ~PumpPop(k) /\ ~PumpSend(k) /\ ~LoopBytes(k)
  BY <1>4, SockSteps DEF Fewer, Expects
<1> QED
  BY <1>1, <1>2, <1>3, <1>4

\* FreshOK is preserved.
LEMMA FreshStep ==
  TypeOK /\ SockOK /\ OnePlace /\ TrueAnswers /\ FreshOK /\ [Next]_vars => FreshOK'
<1> SUFFICES ASSUME TypeOK, SockOK, OnePlace, TrueAnswers, FreshOK, [Next]_vars,
                    NEW c \in Cmd, Unsent(c)'
             PROVE  /\ resp'[c] = <<>> /\ caller'[c] # "done"
                    /\ \A k \in Conn : c \notin Expects(k)'
  BY DEF FreshOK, Expects
<1>1. /\ Unsent(c) /\ resp[c] = <<>> /\ caller[c] # "done"
      /\ \A k \in Conn : c \notin Expects(k)
  BY UnsentBefore DEF FreshOK
<1>2. ASSUME NEW k \in Conn, c \in sock[k].failing PROVE FALSE
  BY <1>1, <1>2 DEF Expects
<1>3. ASSUME NEW k \in Conn, LoopReply(k), Head(up[k]).of = c PROVE FALSE
  <2>1. Head(up[k]) \in Elems(up[k])
    BY <1>3, TakeLemma DEF TypeOK, LoopReply
  <2>2. executed[c] # 0
    BY <1>3, <2>1 DEF LoopReply, TrueAnswers
  <2> QED
    BY <1>1, <2>2, RanPlace
<1>4. resp'[c] = resp[c] /\ caller'[c] # "done"
  BY <1>1, <1>2, <1>3, RespMoves
<1>5. ASSUME NEW k \in Conn, PumpSend(k), sock[k].job = c PROVE FALSE
  <2>1. OnePlace' /\ TypeOK'
    BY PlaceStep, TypeStep
  <2>2. ~InQueue(c) /\ caller[c] # "queued" /\ \A j \in Conn : j # k => sock[j].job # c
    BY <1>5, JobPlace
  <2>3. ~InQueue(c)' /\ caller'[c] # "queued"
    BY <1>5, <2>2 DEF PumpSend, callers, InQueue
  <2>4. \A j \in Conn : sock'[j].job # c
    BY <1>5, <2>2, SendLemma DEF None
  <2> QED
    BY <2>3, <2>4 DEF Unsent
<1>6. \A k \in Conn : c \notin Expects(k)'
  BY <1>1, <1>5, ExpectsLemma
<1> QED
  BY <1>1, <1>4, <1>6

\* SentOK is preserved: a command is sent once.
LEMMA SentStep ==
  TypeOK /\ SockOK /\ OnePlace /\ FreshOK /\ FrameOK /\ SentOK /\ [Next]_vars => SentOK'
<1> SUFFICES ASSUME TypeOK, SockOK, OnePlace, FreshOK, FrameOK, SentOK, [Next]_vars,
                    NEW k \in Conn, NEW j \in Conn, NEW d \in Cmd,
                    OnWire(k, d)', d \in Expects(j)'
             PROVE  j = k
  BY DEF SentOK
<1>1. OnWire(k, d) \/ (PumpSend(k) /\ d = sock[k].job)
  BY WireStep
<1>2. d \in Expects(j) \/ (PumpSend(j) /\ d = sock[j].job)
  BY ExpectsLemma
<1>3. CASE OnWire(k, d) /\ d \in Expects(j)
  BY <1>3 DEF SentOK
<1>4. ASSUME OnWire(k, d), NEW l \in Conn, d = sock[l].job PROVE FALSE
  BY <1>4, WirePlace DEF Unsent
<1>5. ASSUME NEW l \in Conn, d = sock[l].job, d \in Expects(j) PROVE FALSE
  BY <1>5 DEF FreshOK, Unsent
<1>6. CASE d = sock[k].job /\ d = sock[j].job
  BY <1>6, JobPlace
<1> QED
  BY <1>1, <1>2, <1>3, <1>4, <1>5, <1>6

\* A pump that fails what it expects never sends again.
LEMMA PumpStops ==
  ASSUME TypeOK, SockOK, [Next]_vars, NEW k \in Conn, sock[k].pump \in {"fail", "over"}
  PROVE  sock'[k].pump \in {"fail", "over"}
<1>1. ~PumpPop(k) /\ ~PumpSend(k)
  BY DEF PumpPop, PumpSend
<1>2. CASE LoopBytes(k)
  BY <1>2, BytesLemma
<1>3. CASE ~LoopBytes(k)
  BY <1>1, <1>3, SockSteps DEF Fewer
<1> QED
  BY <1>2, <1>3

\* ReplyOK is preserved: the reply itself comes after all that was under way.
LEMMA ReplyStep ==
  /\ TypeOK /\ SockOK /\ OnePlace /\ TrueAnswers
  /\ FreshOK /\ SentOK /\ FrameOK /\ ReplyOK /\ [Next]_vars
  => ReplyOK'
<1> SUFFICES ASSUME TypeOK, SockOK, OnePlace, TrueAnswers, FreshOK, SentOK, FrameOK, ReplyOK,
                    [Next]_vars, NEW k \in Conn, NEW d \in Cmd, OnWire(k, d)',
                    resp'[d] # <<>> \/ caller'[d] = "done"
             PROVE  sock'[k].pump \in {"fail", "over"}
  BY DEF ReplyOK
<1>1. OnWire(k, d) \/ (PumpSend(k) /\ d = sock[k].job)
  BY WireStep
<1>2. CASE OnWire(k, d) /\ (resp[d] # <<>> \/ caller[d] = "done")
  BY <1>2, PumpStops DEF ReplyOK
<1>3. CASE \E j \in Conn : FailPending(j) /\ d \in sock[j].failing
  <2>1. PICK j \in Conn : FailPending(j) /\ d \in sock[j].failing
    BY <1>3
  <2>2. CASE OnWire(k, d)
    <3>1. j = k
      BY <2>1, <2>2 DEF SentOK, Expects
    <3> QED
      BY <2>1, <3>1, PumpStops DEF FailPending
  <2>3. CASE d = sock[k].job
    BY <2>1, <2>3 DEF FreshOK, Unsent, Expects
  <2> QED
    BY <1>1, <2>2, <2>3
<1>4. ASSUME NEW j \in Conn, LoopReply(j), Head(up[j]).of = d PROVE FALSE
  <2>1. /\ up[j] # <<>> /\ Head(up[j]).what = "resp" /\ up' = [up EXCEPT ![j] = Tail(@)]
        /\ UNCHANGED <<down, agent, executed>>
    BY <1>4 DEF LoopReply, device
  <2>2. up[j] \in Seq(Frame) /\ Head(up[j]) \in Elems(up[j])
    BY <2>1, TakeLemma DEF TypeOK
  <2>3. executed[d] # 0
    BY <1>4, <2>1, <2>2 DEF TrueAnswers
  <2>4. Bytes(d) \in Elems(up'[k])
    BY <2>1, <2>3, RanPlace DEF OnWire
  <2>5. Bytes(d) \in Elems(up[k])
    BY <2>1, <2>2, <2>4, TakeLemma DEF TypeOK
  <2>6. j = k
    BY <1>4, <2>1, <2>2, <2>5 DEF FrameOK, Bytes
  <2>7. Bytes(d) \in Elems(Tail(up[j]))
    BY <2>1, <2>4, <2>6 DEF TypeOK
  <2>8. PICK i \in 1 .. Len(up[j]) - 1 : up[j][i + 1] = Bytes(d)
    <3>1. /\ DOMAIN Tail(up[j]) = 1 .. Len(up[j]) - 1
          /\ \A i \in 1 .. Len(up[j]) - 1 : Tail(up[j])[i] = up[j][i + 1]
      BY <2>1, <2>2, EmptySeq, HeadTailProperties, LenProperties
    <3> QED
      BY <2>7, <3>1 DEF Elems
  <2>9. /\ Len(up[j]) \in Nat /\ 1 \in DOMAIN up[j] /\ i + 1 \in DOMAIN up[j]
        /\ up[j][1] = Head(up[j])
    BY <2>1, <2>2, EmptySeq, HeadTailProperties, LenProperties
  <2>10. i + 1 < 1
    BY <1>4, <2>1, <2>8, <2>9 DEF FrameOK, Ordered, Bytes
  <2> QED
    BY <2>10
<1>5. CASE PumpSend(k) /\ d = sock[k].job
  <2>1. resp[d] = <<>> /\ caller[d] # "done"
    BY <1>5 DEF FreshOK, Unsent
  <2> QED
    BY <1>3, <1>4, <2>1, RespMoves
<1>6. CASE OnWire(k, d) /\ resp[d] = <<>> /\ caller[d] # "done"
  BY <1>3, <1>4, <1>6, RespMoves
<1> QED
  BY <1>1, <1>2, <1>5, <1>6

\* MarkOK is preserved: the list and the lock keep whoever shares the lock away
\* from the socket.
LEMMA MarkStep ==
  /\ TypeOK /\ SockOK /\ OnePlace
  /\ LockOK /\ QueueOK /\ FrameOK /\ ReplyOK /\ MarkOK /\ [Next]_vars
  => MarkOK'
<1> SUFFICES ASSUME TypeOK, SockOK, OnePlace, LockOK, QueueOK, FrameOK, ReplyOK, MarkOK,
                    [Next]_vars, NEW k \in Conn, NEW d \in Reads, NEW c \in Cmd,
                    OnWire(k, d)', caller'[d] # "late", Mate(c, d)
             PROVE  sock'[k].marker # c /\ sock'[k].job # c
  BY DEF MarkOK, Mate
<1>1. d \in Cmd /\ c # None /\ caller[d] # "late"
  BY CallerMoves DEF None
<1>2. OnWire(k, d) \/ (PumpSend(k) /\ d = sock[k].job)
  BY <1>1, WireStep
<1>3. CASE PumpSend(k) /\ d = sock[k].job
  BY <1>1, <1>3, SendLemma, SendMarks DEF Mate
<1>4. CASE OnWire(k, d)
  <2>1. sock[k].marker # c /\ sock[k].job # c
    BY <1>1, <1>4 DEF MarkOK
  <2>2. CASE PumpPop(k)
    <3>1. sock[k].pump = "pop" /\ queue # <<>> /\ sock'[k].job = Head(queue)
          /\ sock'[k].marker = sock[k].marker
      BY <2>2, PopLemma
    <3>2. caller[d] = "waiting" /\ ~InQueue(d)
      <4>1. ~Unsent(d) /\ caller[d] \notin {"queued", "busy"}
        BY <1>1, <1>4, WirePlace
      <4>2. caller[d] # "done"
        BY <1>1, <1>4, <3>1 DEF ReplyOK
      <4> QED
        BY <1>1, <4>1, <4>2 DEF TypeOK, Unsent
    <3>3. InQueue(Head(queue))
      BY <3>1, TakeLemma DEF TypeOK, InQueue
    <3> QED
      BY <1>1, <2>1, <3>1, <3>2, <3>3 DEF QueueOK
  <2>3. CASE PumpSend(k)
    BY <1>1, <2>1, <2>3, SendLemma, SendMarks
  <2>4. CASE LoopBytes(k)
    BY <2>1, <2>4, BytesLemma
  <2>5. CASE ~PumpPop(k) /\ ~PumpSend(k) /\ ~LoopBytes(k)
    BY <1>1, <2>1, <2>5, SockSteps DEF Fewer
  <2> QED
    BY <2>2, <2>3, <2>4, <2>5
<1> QED
  BY <1>2, <1>3, <1>4

\* The elements of a sequence are of its set.
LEMMA ElemsIn == ASSUME NEW S, NEW s \in Seq(S) PROVE \A f \in Elems(s) : f \in S
<1>1. \A i \in DOMAIN s : s[i] \in S
  BY ElementOfSeq, LenProperties
<1> QED
  BY <1>1 DEF Elems

\* Reading a frame keeps the order of the others; saying more keeps it unless a
\* reply has been given to what now sends bytes.
LEMMA TailOrdered == ASSUME NEW S, NEW s \in Seq(S), s # <<>>, Ordered(s) PROVE Ordered(Tail(s))
<1>1. /\ Len(s) \in Nat /\ DOMAIN s = 1 .. Len(s)
      /\ DOMAIN Tail(s) = 1 .. Len(s) - 1
      /\ \A i \in 1 .. Len(s) - 1 : Tail(s)[i] = s[i + 1]
  BY EmptySeq, HeadTailProperties, LenProperties
<1>2. ASSUME NEW i \in DOMAIN Tail(s), NEW j \in DOMAIN Tail(s), Tail(s)[i].what = "resp",
             Tail(s)[j].what = "bytes", Tail(s)[i].of = Tail(s)[j].of
      PROVE  j < i
  <2>1. /\ i + 1 \in DOMAIN s /\ j + 1 \in DOMAIN s
        /\ Tail(s)[i] = s[i + 1] /\ Tail(s)[j] = s[j + 1]
    BY <1>1
  <2>2. j + 1 < i + 1
    BY <1>2, <2>1 DEF Ordered
  <2> QED
    BY <1>1, <2>2
<1> QED
  BY <1>2 DEF Ordered

\* Two sequences in order make one, unless the first has the reply to bytes of the
\* second.
LEMMA ConcatOrdered ==
  ASSUME NEW S, NEW s \in Seq(S), NEW t \in Seq(S), Ordered(s), Ordered(t),
         \A f \in Elems(s), g \in Elems(t) :
           f.what = "resp" /\ g.what = "bytes" => f.of # g.of
  PROVE  Ordered(s \o t)
<1>1. /\ Len(s) \in Nat /\ DOMAIN s = 1 .. Len(s)
      /\ Len(t) \in Nat /\ DOMAIN t = 1 .. Len(t)
  BY LenProperties
<1>2. /\ DOMAIN (s \o t) = 1 .. Len(s) + Len(t)
      /\ \A i \in 1 .. Len(s) + Len(t) :
           (s \o t)[i] = IF i <= Len(s) THEN s[i] ELSE t[i - Len(s)]
  BY <1>1, ConcatProperties, LenProperties
<1>3. ASSUME NEW i \in DOMAIN (s \o t), NEW j \in DOMAIN (s \o t), (s \o t)[i].what = "resp",
             (s \o t)[j].what = "bytes", (s \o t)[i].of = (s \o t)[j].of
      PROVE  j < i
  <2>1. CASE i <= Len(s) /\ j <= Len(s)
    BY <1>1, <1>2, <1>3, <2>1 DEF Ordered
  <2>2. CASE i <= Len(s) /\ ~(j <= Len(s))
    <3>1. i \in DOMAIN s /\ j - Len(s) \in DOMAIN t
      BY <1>1, <1>2, <2>2
    <3>2. s[i] \in Elems(s) /\ t[j - Len(s)] \in Elems(t)
      BY <3>1 DEF Elems
    <3> QED
      BY <1>2, <1>3, <2>2, <3>2
  <2>3. CASE ~(i <= Len(s)) /\ j <= Len(s)
    BY <1>1, <1>2, <2>3
  <2>4. CASE ~(i <= Len(s)) /\ ~(j <= Len(s))
    <3>1. i - Len(s) \in DOMAIN t /\ j - Len(s) \in DOMAIN t
      BY <1>1, <1>2, <2>4
    <3>2. (s \o t)[i] = t[i - Len(s)] /\ (s \o t)[j] = t[j - Len(s)]
      BY <1>2, <2>4
    <3>3. j - Len(s) < i - Len(s)
      BY <1>3, <3>1, <3>2 DEF Ordered
    <3> QED
      BY <1>1, <1>2, <3>3
  <2> QED
    BY <2>1, <2>2, <2>3, <2>4
<1> QED
  BY <1>3 DEF Ordered

\* What is said of a command joins frames that do not say the contrary.
LEMMA SayFrames ==
  ASSUME TypeOK, FrameOK, NEW j \in Conn, NEW c \in Cmd,
         NEW t \in Seq(Frame), Ordered(t), Elems(t) \subseteq {Bytes(c), Resp(c)}, Say(j, t),
         \A k \in Conn : \A f \in Elems(up[k]) :
           f.of = c => f.what = "resp" /\ Bytes(c) \notin Elems(t),
         Bytes(c) \in Elems(t) => executed'[c] # 0 /\ c \in Reads,
         \A d \in Cmd : executed[d] # 0 => executed'[d] # 0,
         \A d \in Cmd : running'[d] # None => running[d] # None
  PROVE  FrameOK'
<1>1. up \in [Conn -> Seq(Frame)] /\ \A k \in Conn : up[k] \in Seq(Frame)
  BY DEF TypeOK
<1>2. /\ Bytes(c).what = "bytes" /\ Bytes(c).of = c
      /\ Resp(c).what = "resp" /\ Resp(c).of = c
  BY DEF Bytes, Resp
<1>3. /\ \A k \in Conn \ {j} : up'[k] = up[k]
      /\ up'[j] = up[j] \/ up'[j] = up[j] \o t
  BY <1>1 DEF Say
<1>4. Elems(up[j] \o t) \subseteq Elems(up[j]) \cup Elems(t)
  BY <1>1, SayLemma
<1>5. \A k \in Conn : \A f \in Elems(up'[k]) : f \in Elems(up[k]) \/ (k = j /\ f \in Elems(t))
  BY <1>3, <1>4
<1>6. \A k \in Conn : \A f \in Elems(up[k]) : f.of \in Cmd
  <2>1. \A k \in Conn : \A f \in Elems(up[k]) : f \in Frame
    BY <1>1, ElemsIn
  <2> QED
    BY <2>1 DEF Frame
<1>7. \A k \in Conn : Ordered(up'[k])
  <2>1. \A f \in Elems(up[j]), g \in Elems(t) :
          f.what = "resp" /\ g.what = "bytes" => f.of # g.of
    BY <1>2
  <2>2. Ordered(up[j] \o t)
    BY <1>1, <2>1, ConcatOrdered DEF FrameOK
  <2> QED
    BY <1>3, <2>2 DEF FrameOK
<1>8. \A k \in Conn : \A f \in Elems(up'[k]) :
        f.what = "bytes" => executed'[f.of] # 0 /\ f.of \in Reads
  BY <1>2, <1>5, <1>6 DEF FrameOK
<1>9. ASSUME NEW k \in Conn, NEW l \in Conn, NEW f \in Elems(up'[k]), NEW g \in Elems(up'[l]),
             f.what = "resp", g.what = "bytes", f.of = g.of
      PROVE  k = l
  <2>1. CASE f \in Elems(up[k]) /\ g \in Elems(up[l])
    BY <1>9, <2>1 DEF FrameOK
  <2>2. CASE f \in Elems(up[k]) /\ g \in Elems(t)
    BY <1>2, <1>9, <2>2
  <2>3. CASE f \in Elems(t) /\ g \in Elems(up[l])
    BY <1>2, <1>9, <2>3
  <2>4. CASE k = j /\ l = j
    BY <2>4
  <2> QED
    BY <1>5, <2>1, <2>2, <2>3, <2>4
<1>10. \A d \in Cmd : running'[d] # None => d \in Shells
  BY DEF FrameOK
<1> QED
  BY <1>7, <1>8, <1>9, <1>10 DEF FrameOK

\* FrameOK is preserved: the agent sends the bytes, then the reply, once.
LEMMA FrameStep ==
  TypeOK /\ OnePlace /\ TrueAnswers /\ FrameOK /\ [Next]_vars => FrameOK'
<1> SUFFICES ASSUME TypeOK, OnePlace, TrueAnswers, FrameOK, [Next]_vars PROVE FrameOK'
  OBVIOUS
<1>1. /\ up \in [Conn -> Seq(Frame)] /\ running \in [Cmd -> Conn \cup {None}]
      /\ \A k \in Conn : up[k] \in Seq(Frame)
      /\ \A k \in Conn : \A f \in Elems(up[k]) : f.of \in Cmd /\ f.what \in {"bytes", "resp"}
  <2>1. up \in [Conn -> Seq(Frame)] /\ \A k \in Conn : up[k] \in Seq(Frame)
    BY DEF TypeOK
  <2>2. \A k \in Conn : \A f \in Elems(up[k]) : f \in Frame
    BY <2>1, ElemsIn
  <2>3. running \in [Cmd -> Conn \cup {None}]
    BY DEF TypeOK
  <2> QED
    BY <2>1, <2>2, <2>3 DEF Frame
<1>2. \A d \in Cmd : executed[d] # 0 => executed'[d] # 0
  BY ExecutedGrows
<1>3. ASSUME \A k \in Conn : \/ up'[k] = up[k] \/ up'[k] = <<>>
                             \/ up[k] # <<>> /\ up'[k] = Tail(up[k]),
             \A d \in Cmd : running'[d] # None => d \in Shells
      PROVE  FrameOK'
  <2>1. \A k \in Conn : Elems(up'[k]) \subseteq Elems(up[k])
    BY <1>1, <1>3, TakeLemma, NothingLemma
  <2>2. \A k \in Conn : Ordered(up'[k])
    <3> TAKE k \in Conn
    <3>1. Ordered(up[k])
      BY DEF FrameOK
    <3>2. CASE up'[k] = <<>>
      BY <3>2 DEF Ordered
    <3>3. CASE up[k] # <<>> /\ up'[k] = Tail(up[k])
      BY <1>1, <3>1, <3>3, TailOrdered
    <3> QED
      BY <1>3, <3>1, <3>2, <3>3
  <2>3. \A k \in Conn : \A f \in Elems(up'[k]) :
          f.what = "bytes" => executed'[f.of] # 0 /\ f.of \in Reads
    BY <1>1, <1>2, <2>1 DEF FrameOK
  <2>4. \A k, l \in Conn : \A f \in Elems(up'[k]), g \in Elems(up'[l]) :
          f.what = "resp" /\ g.what = "bytes" /\ f.of = g.of => k = l
    BY <2>1 DEF FrameOK
  <2> QED
    BY <1>3, <2>2, <2>3, <2>4 DEF FrameOK
<1>4. ASSUME NEW j \in Conn, AgentDoes(j) PROVE FrameOK'
  <2>1. PICK c \in Cmd : c = agent.doing
    BY <1>4 DEF AgentDoes, TypeOK
  <2>2. executed[c] = 0 /\ executed'[c] # 0 /\ running' = running
    <3>1. executed[c] = 0
      BY <2>1, RanPlace
    <3> QED
      BY <1>4, <2>1, <3>1 DEF AgentDoes, TypeOK
  <2>3. \A k \in Conn : \A f \in Elems(up[k]) : f.of # c
    <3> SUFFICES ASSUME NEW k \in Conn, NEW f \in Elems(up[k]) PROVE executed[f.of] # 0
      BY <2>2
    <3>1. f.what \in {"bytes", "resp"}
      BY <1>1
    <3> QED
      BY <3>1 DEF FrameOK, TrueAnswers
  <2>4. Bytes(c) # Resp(c)
    BY DEF Bytes, Resp
  <2>5. CASE c \in Reads
    <3>1. Say(j, <<Bytes(c), Resp(c)>>)
      BY <1>4, <2>1, <2>5 DEF AgentDoes, Bytes
    <3> DEFINE t == <<Bytes(c), Resp(c)>>
    <3>2. t \in Seq(Frame) /\ Ordered(t) /\ Elems(t) \subseteq {Bytes(c), Resp(c)}
      BY SayElems
    <3>3. Say(j, t)
      BY <3>1
    <3> HIDE DEF t
    <3> QED
      BY <1>2, <2>2, <2>3, <2>5, <3>2, <3>3, SayFrames
  <2>6. CASE c \notin Reads
    <3>1. Say(j, <<Resp(c)>>)
      BY <1>4, <2>1, <2>6 DEF AgentDoes
    <3> DEFINE t == <<Resp(c)>>
    <3>2. t \in Seq(Frame) /\ Ordered(t) /\ Elems(t) = {Resp(c)}
      BY SayElems
    <3>3. Say(j, t)
      BY <3>1
    <3> HIDE DEF t
    <3> QED
      BY <1>2, <2>2, <2>3, <2>4, <3>2, <3>3, SayFrames
  <2> QED
    BY <2>5, <2>6
<1>5. ASSUME NEW c \in Cmd, ShellEnds(c) PROVE FrameOK'
  <2>1. /\ running[c] \in Conn /\ Say(running[c], <<Resp(c)>>)
        /\ running' = [running EXCEPT ![c] = None]
    BY <1>1, <1>5 DEF ShellEnds
  <2>2. c \in Shells /\ c \notin Reads
    BY <2>1 DEF FrameOK, Conn, None
  <2>3. \A k \in Conn : \A f \in Elems(up[k]) : f.of = c => f.what = "resp"
    <3> SUFFICES ASSUME NEW k \in Conn, NEW f \in Elems(up[k]), f.of = c PROVE f.what = "resp"
      OBVIOUS
    <3>1. f.what \in {"bytes", "resp"}
      BY <1>1
    <3> QED
      BY <2>2, <3>1 DEF FrameOK
  <2>4. Bytes(c) # Resp(c)
    BY DEF Bytes, Resp
  <2>5. \A d \in Cmd : running'[d] # None => running[d] # None
    BY <1>1, <2>1
  <2> DEFINE t == <<Resp(c)>>
  <2>6. t \in Seq(Frame) /\ Ordered(t) /\ Elems(t) = {Resp(c)}
    BY SayElems
  <2>7. Say(running[c], t)
    BY <2>1
  <2> HIDE DEF t
  <2> QED
    BY <1>2, <2>1, <2>3, <2>4, <2>5, <2>6, <2>7, SayFrames
<1>6. CASE \E j \in Conn : AgentTakes(j)
  <2>1. PICK j \in Conn : AgentTakes(j)
    BY <1>6
  <2>2. \/ running' = running
        \/ running' = [running EXCEPT ![Head(down[j])] = j] /\ Head(down[j]) \in Shells
    BY <2>1 DEF AgentTakes
  <2>3. \A d \in Cmd : running'[d] # None => d \in Shells
    BY <1>1, <2>2 DEF FrameOK
  <2> QED
    BY <1>3, <2>1, <2>3 DEF AgentTakes
<1>7. \A d \in Cmd : running[d] # None => d \in Shells
  BY DEF FrameOK
<1>8. CASE \E d \in Cmd : Push(d) \/ QueueTimeout(d) \/ Receive(d) \/ ReplyTimeout(d)
  BY <1>3, <1>7, <1>8 DEF Push, QueueTimeout, Receive, ReplyTimeout, wire, device
<1>9. CASE \E j \in Conn : Pump(j) \/ Connect(j) \/ LoopEnds(j)
  BY <1>3, <1>7, <1>9 DEF Pump, PumpPop, PumpSend, FailPending, PumpEnds, Connect, LoopEnds,
                          wire, device
<1>10. CASE \E j \in Conn : LoopBytes(j) \/ LoopReply(j) \/ Break(j)
  <2>1. running' = running
    BY <1>10 DEF LoopBytes, LoopReply, Break, device
  <2>2. \A k \in Conn : \/ up'[k] = up[k] \/ up'[k] = <<>>
                        \/ up[k] # <<>> /\ up'[k] = Tail(up[k])
    BY <1>1, <1>10 DEF LoopBytes, LoopReply, Break
  <2> QED
    BY <1>3, <1>7, <2>1, <2>2
<1>11. CASE AgentNotices \/ AgentRestarts \/ UNCHANGED vars
  BY <1>3, <1>7, <1>11 DEF AgentNotices, AgentRestarts, vars, wire, device
<1> QED
  BY <1>4, <1>5, <1>6, <1>8, <1>9, <1>10, <1>11 DEF Next, Agent, Loop

\* CleanOK is preserved: bytes are filed under the mark, and MarkOK says whose
\* they can be.
LEMMA CleanStep ==
  TypeOK /\ SockOK /\ FrameOK /\ MarkOK /\ CleanOK /\ [Next]_vars => CleanOK'
<1> SUFFICES ASSUME TypeOK, SockOK, FrameOK, MarkOK, CleanOK, [Next]_vars, NEW c \in Cmd
             PROVE  /\ \A k \in Conn : \A d \in sock'[k].buf[c] :
                         Mate(c, d) => caller'[d] = "late"
                    /\ \A a \in Elems(resp'[c]) : \A d \in a.bytes :
                         Mate(c, d) => caller'[d] = "late"
                    /\ \A d \in outcome'[c].bytes : Mate(c, d) => caller'[d] = "late"
  BY DEF CleanOK, Clean
<1>1. \A d \in Cmd : caller[d] = "late" => caller'[d] = "late"
  BY CallerMoves
<1>2. ASSUME NEW S \in SUBSET Cmd, Clean(c, S)
      PROVE  \A d \in S : Mate(c, d) => caller'[d] = "late"
  BY <1>1, <1>2 DEF Clean
<1>3. /\ resp[c] \in Seq(Answer) /\ outcome \in [Cmd -> Answer]
      /\ \A k \in Conn : sock[k] \in SockSet /\ sock[k].buf[c] \in SUBSET Cmd
      /\ \A k \in Conn : Clean(c, sock[k].buf[c])
      /\ \A a \in Elems(resp[c]) : a.bytes \in SUBSET Cmd /\ Clean(c, a.bytes)
      /\ outcome[c].bytes \in SUBSET Cmd /\ Clean(c, outcome[c].bytes)
  <2>1. resp[c] \in Seq(Answer) /\ outcome \in [Cmd -> Answer]
    BY DEF TypeOK
  <2>2. \A k \in Conn : sock[k] \in SockSet /\ sock[k].buf[c] \in SUBSET Cmd
    BY DEF TypeOK, SockSet
  <2>3. \A a \in Elems(resp[c]) : a \in Answer
    BY <2>1, ElementOfSeq DEF Elems
  <2> QED
    BY <2>1, <2>2, <2>3 DEF CleanOK, Answer
<1>4. ASSUME NEW k \in Conn PROVE \A d \in sock'[k].buf[c] : Mate(c, d) => caller'[d] = "late"
  <2>1. CASE sock'[k].buf[c] \in {sock[k].buf[c], {}}
    BY <1>2, <1>3, <2>1
  <2>2. CASE PumpPop(k) \/ PumpSend(k)
    BY <2>1, <2>2, PopLemma, SendMarks
  <2>3. CASE LoopBytes(k)
    <3> DEFINE f == Head(up[k])
    <3>1. up[k] # <<>> /\ f.what = "bytes" /\ up[k] \in Seq(Frame)
      BY <2>3, BytesLemma DEF TypeOK
    <3>2. f \in Frame /\ f \in Elems(up[k])
      BY <3>1, TakeLemma
    <3>3. f.of \in Reads /\ f = Bytes(f.of)
      BY <3>1, <3>2 DEF FrameOK, Frame, Bytes
    <3>4. OnWire(k, f.of)
      BY <3>2, <3>3 DEF OnWire
    <3> HIDE DEF f
    <3>5. ASSUME c = sock[k].marker, Mate(c, f.of) PROVE caller'[f.of] = "late"
      BY <1>1, <3>3, <3>4, <3>5 DEF MarkOK
    <3>6. \/ sock'[k].buf[c] = sock[k].buf[c]
          \/ c = sock[k].marker /\ sock'[k].buf[c] = sock[k].buf[c] \cup {f.of}
      BY <2>3, BytesLemma DEF f
    <3> QED
      BY <1>2, <1>3, <3>5, <3>6
  <2>4. CASE ~PumpPop(k) /\ ~PumpSend(k) /\ ~LoopBytes(k)
    BY <2>1, <2>4, SockSteps DEF Fewer
  <2> QED
    BY <2>2, <2>3, <2>4
<1>5. ASSUME NEW a \in Elems(resp'[c]) PROVE \A d \in a.bytes : Mate(c, d) => caller'[d] = "late"
  <2>1. CASE a \in Elems(resp[c]) \/ a.bytes = {} \/ \E k \in Conn : a.bytes = sock[k].buf[c]
    BY <1>2, <1>3, <2>1
  <2>2. CASE resp'[c] = resp[c] \/ (resp[c] # <<>> /\ resp'[c] = Tail(resp[c]))
    BY <1>3, <1>5, <2>1, <2>2, TakeLemma
  <2>3. ASSUME NEW b \in Answer, resp'[c] = Append(resp[c], b),
               b.bytes = {} \/ \E k \in Conn : b.bytes = sock[k].buf[c]
        PROVE  \A d \in a.bytes : Mate(c, d) => caller'[d] = "late"
    <3>1. a \in Elems(resp[c]) \/ a = b
      BY <1>3, <1>5, <2>3, PutLemma
    <3> QED
      BY <2>1, <2>3, <3>1
  <2>4. Disconnected \in Answer /\ Disconnected.bytes = {}
    BY DEF Answer, Disconnected
  <2>5. CASE resp'[c] = Append(resp[c], Disconnected)
    BY <2>3, <2>4, <2>5
  <2>6. CASE \E k \in Conn, b \in Answer :
                 /\ resp'[c] = Append(resp[c], b)
                 /\ b.bytes = {} \/ b.bytes = sock[k].buf[c]
    BY <2>3, <2>6
  <2> QED
    BY <2>2, <2>5, <2>6, RespMoves
<1>6. \A d \in outcome'[c].bytes : Mate(c, d) => caller'[d] = "late"
  <2>1. CASE outcome'[c] = outcome[c]
    BY <1>2, <1>3, <2>1
  <2>2. ASSUME NEW d \in Cmd, Receive(d)
        PROVE  outcome'[c] = outcome[c] \/ outcome'[c] \in Elems(resp[c])
    <3>1. resp[d] # <<>> /\ outcome' = [outcome EXCEPT ![d] = Head(resp[d])]
      BY <2>2 DEF Receive
    <3>2. CASE c = d
      BY <1>3, <3>1, <3>2, TakeLemma
    <3>3. CASE c # d
      BY <1>3, <3>1, <3>3
    <3> QED
      BY <3>2, <3>3
  <2>3. CASE outcome'[c] \in Elems(resp[c])
    BY <1>2, <1>3, <2>3
  <2>4. CASE \E d \in Cmd : Push(d) \/ QueueTimeout(d) \/ ReplyTimeout(d)
    BY <2>1, <2>4 DEF Push, QueueTimeout, ReplyTimeout
  <2>5. CASE \E k \in Conn : Pump(k) \/ Loop(k) \/ Break(k)
    BY <2>1, <2>5 DEF Pump, Loop, PumpPop, PumpSend, FailPending, PumpEnds, LoopBytes,
                      LoopReply, LoopEnds, Break, callers
  <2>6. CASE Agent \/ AgentRestarts \/ UNCHANGED vars
    BY <2>1, <2>6 DEF Agent, AgentNotices, Connect, AgentTakes, AgentDoes, ShellEnds,
                      AgentRestarts, vars, callers
  <2> QED
    BY <2>1, <2>2, <2>3, <2>4, <2>5, <2>6 DEF Next
<1> QED
  BY <1>4, <1>5, <1>6

-----------------------------------------------------------------------------
(* The theorems.                                                           *)

Inv == TypeOK /\ SockOK /\ NoJobVanishes /\ OnePlace /\ TrueAnswers

\* Inv holds at the start: every command is with its caller.
LEMMA InitInv == Init => Inv
<1> SUFFICES ASSUME Init PROVE Inv
  OBVIOUS
<1>1. None \notin Cmd /\ None \notin Conn
  BY DEF None, Conn
<1>2. TypeOK
  <2>1. NoSock \in SockSet
    BY DEF NoSock, SockSet
  <2>2. \A S : <<>> \in Seq(S)
    BY EmptySeq
  <2>3. [on |-> None, doing |-> None] \in [on : Conn \cup {None}, doing : Cmd \cup {None}]
    OBVIOUS
  <2>4. Disconnected \in Answer
    BY DEF Answer, Disconnected
  <2>5. CallersType
    BY <2>4 DEF Init, CallersType
  <2>6. BackendType
    BY <2>1, <2>2 DEF Init, BackendType
  <2>7. WireType
    BY <2>2 DEF Init, WireType
  <2>8. DeviceType /\ lost \subseteq Cmd
    BY <2>3 DEF Init, DeviceType
  <2> QED
    BY <2>5, <2>6, <2>7, <2>8, TypeParts
<1>3. SockOK
  BY DEF Init, SockOK, SockGood, NoSock
<1>4. NoJobVanishes
  BY DEF Init, NoJobVanishes
<1>5. OnePlace
  <2> DEFINE w == [c \in Cmd |-> <<"caller", None>>]
  <2>1. w \in [Cmd -> Place]
    BY DEF Place
  <2>2. Placed(w)
    BY <1>1, NothingLemma DEF Init, Placed, InQueue, NoSock
  <2> QED
    BY <2>1, <2>2 DEF OnePlace
<1>6. TrueAnswers
  BY NothingLemma DEF Init, TrueAnswers, Disconnected
<1> QED
  BY <1>2, <1>3, <1>4, <1>5, <1>6 DEF Inv

\* Inv is inductive.
LEMMA StepInv == Inv /\ [Next]_vars => Inv'
BY TypeStep, SockStep, JobStep, PlaceStep, TrueStep DEF Inv

\* The invariant: every command is in one place, pumps hold what they are about
\* to send, and nobody says "ok" of a command that has not run.
THEOREM InvHolds == Spec => []Inv
BY InitInv, StepInv, PTL DEF Spec

\* Every variable keeps its type, whatever the sockets do.
THEOREM TypeCorrect == Spec => []TypeOK
<1>1. Inv => TypeOK
  BY DEF Inv
<1> QED
  BY <1>1, InvHolds, PTL

\* The agent carries a command out at most once: one pop per push, one place per
\* command, however many sockets there are and whenever they break.
THEOREM RunsAtMostOnce == Spec => []AtMostOnce
<1>1. Inv => AtMostOnce
  BY DEF Inv, OnePlace, Placed, AtMostOnce
<1> QED
  BY <1>1, InvHolds, PTL

\* A caller that is told "ok" had its own command carried out, once.
THEOREM OkIsTrue == Spec => []OkMeansExecuted
<1>1. TypeOK /\ OnePlace => \A c \in Cmd : executed[c] = 0 \/ executed[c] = 1
  <2> SUFFICES ASSUME TypeOK, OnePlace, NEW c \in Cmd PROVE executed[c] = 0 \/ executed[c] = 1
    OBVIOUS
  <2>1. executed[c] \in Nat
    BY DEF TypeOK
  <2>2. executed[c] <= 1
    BY DEF OnePlace, Placed
  <2> QED
    BY <2>1, <2>2
<1>2. Inv => OkMeansExecuted
  BY <1>1 DEF Inv, TrueAnswers, OkMeansExecuted
<1> QED
  BY <1>2, InvHolds, PTL

\* A command whose caller waits is queued, popped, expected on a socket that is
\* looked after, or answered, unless the cancellation of a pump dropped it.
THEOREM NoJobIsForgotten == Spec => []NoJobVanishes
<1>1. Inv => NoJobVanishes
  BY DEF Inv
<1> QED
  BY <1>1, InvHolds, PTL

\* CrossInv holds at the start: nothing is on its way.
LEMMA InitCross == Init => CrossInv
<1> SUFFICES ASSUME Init PROVE CrossInv
  OBVIOUS
<1>1. None \notin Cmd /\ None \notin Conn
  BY DEF None, Conn
<1>2. /\ DOMAIN queue = {} /\ Elems(queue) = {}
      /\ \A k \in Conn : Elems(down[k]) = {} /\ Elems(up[k]) = {} /\ DOMAIN up[k] = {}
      /\ \A c \in Cmd : resp[c] = <<>> /\ Elems(resp[c]) = {}
  BY NothingLemma DEF Init
<1>3. /\ \A c \in Cmd : caller[c] = "queued"
      /\ \A k \in Conn : sock[k] = NoSock
      /\ agent.doing = None /\ \A c \in Cmd : running[c] = None
  BY DEF Init
<1>4. LockOK /\ QueueOK
  BY <1>2, <1>3 DEF LockOK, QueueOK, InQueue
<1>5. FreshOK
  BY <1>2, <1>3 DEF FreshOK, Expects, NoSock
<1>6. \A k \in Conn, d \in Cmd : ~OnWire(k, d)
  BY <1>1, <1>2, <1>3 DEF OnWire
<1>7. SentOK /\ ReplyOK /\ MarkOK
  BY <1>6 DEF SentOK, ReplyOK, MarkOK
<1>8. FrameOK
  BY <1>2, <1>3 DEF FrameOK, Ordered
<1>9. CleanOK
  BY <1>2, <1>3 DEF Init, CleanOK, Clean, NoSock, Disconnected
<1> QED
  BY <1>4, <1>5, <1>7, <1>8, <1>9 DEF CrossInv

\* Together with Inv, CrossInv is inductive.
LEMMA StepCross == Inv /\ CrossInv /\ [Next]_vars => CrossInv'
<1> SUFFICES ASSUME TypeOK, SockOK, OnePlace, TrueAnswers, LockOK, QueueOK, FreshOK, SentOK,
                    ReplyOK, MarkOK, FrameOK, CleanOK, [Next]_vars
             PROVE  CrossInv'
  BY DEF Inv, CrossInv
<1>1. LockOK' /\ QueueOK'
  BY LockStep, QueueStep
<1>2. FreshOK' /\ SentOK'
  BY FreshStep, SentStep
<1>3. ReplyOK' /\ MarkOK'
  BY ReplyStep, MarkStep
<1>4. FrameOK' /\ CleanOK'
  BY FrameStep, CleanStep
<1> QED
  BY <1>1, <1>2, <1>3, <1>4 DEF CrossInv

\* Of the commands that share a lock one at most is wanted and on its way, and
\* the socket it is on marks no other until its reply has come.
THEOREM CrossHolds == Spec => []CrossInv
BY InvHolds, InitCross, StepCross, PTL DEF Spec

\* Bytes of one command end in the result of another only if the two do not share
\* a lock, or the caller of the first gave up (current_bin_cmd, one per socket).
THEOREM BytesStayHome == Spec => []BytesCrossOnlyUnlocked
<1>1. Inv /\ CrossInv => BytesCrossOnlyUnlocked
  BY DEF Inv, TypeOK, Answer, CrossInv, CleanOK, Clean, Mate, BytesCrossOnlyUnlocked
<1> QED
  BY <1>1, InvHolds, CrossHolds, PTL
=============================================================================
