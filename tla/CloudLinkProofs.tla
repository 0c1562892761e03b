-------------------------- MODULE CloudLinkProofs --------------------------
(***************************************************************************)
(* Theorems about CloudLink, for any number of handlers, requests, tokens, *)
(* uses and frames.                                                        *)
(*                                                                         *)
(* Handlers hold numbers across their statements: a request, a token, a    *)
(* client.  CallGood says what stays true of the rows behind the numbers   *)
(* of a running handler, whatever the others do, and CallsOK that no two   *)
(* handlers have redeemed one request or enroll with one token.  The       *)
(* properties of the rows follow from it, statement by statement.          *)
(*                                                                         *)
(* Two more invariants rest on it: LinkOK, whose token the device's link   *)
(* holds, and RetryOK, what becomes of the frame that waits while the      *)
(* enrollments of a boot file are repeated.                                *)
(***************************************************************************)
EXTENDS CloudLink, FiniteSetTheorems, TLAPS

USE LinkAssumption

-----------------------------------------------------------------------------
(* The invariant.                                                          *)

RequestJobs == {"connect", "poll", "approve", "deny", "lookup"}
GuardedJobs == {"register", "unlink", "dial"}

\* A poll that has redeemed its request and has not yet sent the token.
Redeeming(x) == x.job = "poll" /\ x.at \in {"fetch", "unseal"}

CallGood(x) ==
  /\ x.job \in RequestJobs => x.key \in Request /\ x.key > plan.requests
  /\ x.job = "enroll" => x.key \in Attempts /\ x.key > MaxReq + plan.attempts
  /\ x.at = "expire" => x.job \in RequestJobs
  /\ x.at \in {"auth", "retire"} => x.job \in GuardedJobs
  /\ (x.job = "poll" /\ x.at = "claim") => client[x.key].cur # 0
  /\ Redeeming(x) => /\ client[x.key].cur # 0 /\ request[x.key].redeemed
                     /\ handed[x.key] = 0
  /\ (x.job = "enroll" /\ x.at # "reply") => client[x.key].cur = 0
  /\ (x.job = "enroll" /\ x.at = "rotate") => x.on \in Token /\ client[x.on].cur # 0

Apart(x, y) ==
  /\ Redeeming(x) /\ Redeeming(y) => x.key # y.key
  /\ x.job = "enroll" /\ y.job = "enroll" => x.key # y.key

CallsOK ==
  /\ \A s \in Slot : CallGood(call[s])
  /\ \A s, t \in Slot : s # t => Apart(call[s], call[t])

\* What the device and the numbers that are left say of the requests.
RequestsOK ==
  /\ link.status = "connecting" => link.code \in Request /\ link.code > plan.requests
  /\ \A r \in Request : r <= plan.requests => request[r].status = "absent" /\ ~request[r].shown

\* Of a request only an approved one has a client, and only a client's token is
\* redeemed and sent.
ApprovedOK ==
  \A r \in Request :
    /\ request[r].status \in {"absent", "pending", "denied"} => client[r].cur = 0
    /\ request[r].status = "approved" => client[r].cur # 0
    /\ request[r].redeemed => client[r].cur # 0
    /\ handed[r] # 0 => request[r].redeemed

\* The tokens of attempts to come are new, a pending frame has its client's.
TokensOK ==
  /\ \A c \in Attempts : c <= MaxReq + plan.attempts => client[c].cur = 0
  /\ \A c \in Token : client[c].frame = "pending" => client[c].cur # 0

Inv == /\ TypeOK /\ CallsOK /\ RequestsOK /\ ApprovedOK /\ TokensOK
       /\ TokenLeavesOnce /\ BudgetExact

-----------------------------------------------------------------------------
(* Calls, one slot at a time.                                              *)

Answers == {"", "ok", "later", "refused", "error"}
Callers == {"nobody", "portal", "thread"}

\* Only the call of slot s moves.
Only(s) == call' \in [Slot -> Call] /\ \A t \in Slot : t # s => call'[t] = call[t]

\* Putting a call in its slot.
LEMMA PutLemma ==
  ASSUME TypeOK, NEW s \in Slot, NEW y \in Call, call' = [call EXCEPT ![s] = y]
  PROVE  Only(s) /\ call'[s] = y
BY DEF TypeOK, Only

\* A handler's next step keeps what it holds.
LEMMA GotoLemma ==
  ASSUME TypeOK, NEW s \in Slot, NEW x \in Steps, Goto(s, x)
  PROVE  /\ Only(s) /\ call'[s].at = x /\ call'[s].job = call[s].job
         /\ call'[s].key = call[s].key /\ call'[s].on = call[s].on
<1> DEFINE y == [call[s] EXCEPT !.at = x]
<1>1. call[s] \in Call
  BY DEF TypeOK
<1>2. /\ y \in Call /\ y.at = x /\ y.job = call[s].job
      /\ y.key = call[s].key /\ y.on = call[s].on
  BY <1>1 DEF Call
<1>3. call' = [call EXCEPT ![s] = y]
  BY <1>1 DEF Goto
<1> HIDE DEF y
<1> QED
  BY <1>2, <1>3, PutLemma

\* The same with a client to go on with.
LEMMA GotoOnLemma ==
  ASSUME TypeOK, NEW s \in Slot, NEW x \in Steps, NEW c \in Ref, GotoOn(s, x, c)
  PROVE  /\ Only(s) /\ call'[s].at = x /\ call'[s].job = call[s].job
         /\ call'[s].key = call[s].key /\ call'[s].on = c
<1> DEFINE y == [call[s] EXCEPT !.at = x, !.on = c]
<1>1. call[s] \in Call
  BY DEF TypeOK
<1>2. /\ y \in Call /\ y.at = x /\ y.job = call[s].job
      /\ y.key = call[s].key /\ y.on = c
  BY <1>1 DEF Call
<1>3. call' = [call EXCEPT ![s] = y]
  BY <1>1 DEF GotoOn, TypeOK
<1> HIDE DEF y
<1> QED
  BY <1>2, <1>3, PutLemma

\* A slot that is free again.
LEMMA ReturnLemma ==
  ASSUME TypeOK, NEW s \in Slot, Return(s)
  PROVE  Only(s) /\ call'[s] = NoCall
<1>1. NoCall \in Call
  BY DEF NoCall, Call, Jobs, Steps, Ref
<1> QED
  BY <1>1, PutLemma DEF Return

\* An answer: the slot is free, or it waits for its caller.
LEMMA ReplyLemma ==
  ASSUME TypeOK, NEW s \in Slot, NEW a \in Answers, Reply(s, a)
  PROVE  /\ Only(s)
         /\ \/ call'[s] = NoCall
            \/ /\ call'[s].at = "reply" /\ call'[s].job = call[s].job
               /\ call'[s].key = call[s].key /\ call'[s].on = call[s].on
<1>1. CASE call[s].for = "nobody"
  BY <1>1, ReturnLemma DEF Reply
<1>2. CASE call[s].for # "nobody"
  <2> DEFINE y == [call[s] EXCEPT !.at = "reply", !.answer = a]
  <2>1. call[s] \in Call
    BY DEF TypeOK
  <2>2. /\ y \in Call /\ y.at = "reply" /\ y.job = call[s].job
        /\ y.key = call[s].key /\ y.on = call[s].on
    BY <2>1 DEF Call, Steps, Answers
  <2>3. call' = [call EXCEPT ![s] = y]
    BY <1>2, <2>1 DEF Reply, TypeOK
  <2> HIDE DEF y
  <2> QED
    BY <2>2, <2>3, PutLemma
<1> QED
  BY <1>1, <1>2

\* A new call.
LEMMA StartLemma ==
  ASSUME TypeOK, NEW s \in Slot, NEW j \in Jobs, NEW x \in Steps, NEW k \in Ref,
         NEW w \in Callers, Start(s, j, x, k, w)
  PROVE  /\ Only(s) /\ call'[s].at = x /\ call'[s].job = j
         /\ call'[s].key = k /\ call'[s].on = k
<1> DEFINE y == [NoCall EXCEPT !.job = j, !.at = x, !.key = k, !.on = k, !.for = w]
<1>1. y \in Call /\ y.at = x /\ y.job = j /\ y.key = k /\ y.on = k
  BY DEF NoCall, Call, Callers
<1>2. call' = [call EXCEPT ![s] = y]
  BY DEF Start
<1> HIDE DEF y
<1> QED
  BY <1>1, <1>2, PutLemma

\* One less of what a plan allows.
LEMMA SpendLemma ==
  ASSUME TypeOK, NEW b \in {"requests", "attempts", "faults", "crashes", "clicks"}, Spend(b)
  PROVE  /\ plan' \in Plan /\ plan[b] > 0
         /\ plan'.requests = IF b = "requests" THEN plan.requests - 1 ELSE plan.requests
         /\ plan'.attempts = IF b = "attempts" THEN plan.attempts - 1 ELSE plan.attempts
<1>1. plan \in Plan
  BY DEF TypeOK
<1> QED
  BY <1>1 DEF Spend, Plan

\* A free slot holds nothing.
LEMMA NoCallLemma == NoCall \in Call /\ NoCall.job = "none" /\ NoCall.at = ""
BY DEF NoCall, Call, Jobs, Steps, Ref

\* Every number of the model is one.
LEMMA NumberLemma ==
  ASSUME TypeOK
  PROVE  /\ \A s \in Slot : call[s].key \in Int /\ call[s].on \in Int
         /\ \A c \in Token : client[c].cur \in Int
         /\ plan.requests \in Int /\ plan.attempts \in Int
         /\ MaxReq \in Int /\ MaxAttempt \in Int
<1>1. Ref \subseteq Int
  BY DEF Ref
<1>2. \A s \in Slot : call[s].key \in Ref /\ call[s].on \in Ref
  BY DEF TypeOK, Call
<1>3. \A c \in Token : client[c].cur \in Ref
  BY DEF TypeOK
<1>4. plan.requests \in Int /\ plan.attempts \in Int
  BY DEF TypeOK, Plan
<1>5. MaxReq \in Int /\ MaxAttempt \in Int
  OBVIOUS
<1>6. \A s \in Slot : call[s].key \in Int /\ call[s].on \in Int
  BY <1>1, <1>2
<1>7. \A c \in Token : client[c].cur \in Int
  BY <1>1, <1>3
<1> QED
  BY <1>4, <1>5, <1>6, <1>7

\* What a slot holds in the next state is what it held, or nothing.
Keeps(s) == \/ call'[s].job = "none" /\ call'[s].at = ""
            \/ /\ call'[s].job = call[s].job /\ call'[s].key = call[s].key
               /\ call'[s].on = call[s].on /\ call'[s].at \in {call[s].at, "reply"}

\* The plan's numbers only go down.
Less == plan'.requests <= plan.requests /\ plan'.attempts <= plan.attempts

\* The rows change in the name of slot s: no token is lost, an attempt's first
\* token is its own, the answer with a request's token is its own.
RowsBy(s) ==
  /\ \A c \in Token : client[c].cur # 0 => client'[c].cur # 0
  /\ \A c \in Attempts : client[c].cur = 0 /\ client'[c].cur # 0 =>
                           call[s].job = "enroll" /\ call[s].key = c
  /\ \A r \in Request : request[r].redeemed => request'[r].redeemed
  /\ \A r \in Request : handed'[r] # handed[r] => Redeeming(call[s]) /\ call[s].key = r

\* A call that does not move stays in order.
LEMMA KeepsGood ==
  ASSUME TypeOK, TypeOK', CallsOK, Less, NEW s \in Slot, NEW u \in Slot, RowsBy(u), Keeps(s),
         \/ s # u
         \/ (\A c \in Token : client'[c].cur = client[c].cur) /\ handed' = handed
  PROVE  CallGood(call[s])'
<1>1. CallGood(call[s]) /\ CallGood(call[u]) /\ (s # u => Apart(call[s], call[u]))
  BY DEF CallsOK
<1>2. Request \subseteq Token /\ Attempts \subseteq Token
  BY DEF Request, Attempts, Token
<1>3. CASE call'[s].job = "none" /\ call'[s].at = ""
  BY <1>3 DEF CallGood, Redeeming, RequestJobs, GuardedJobs
<1>4. CASE /\ call'[s].job = call[s].job /\ call'[s].key = call[s].key
           /\ call'[s].on = call[s].on /\ call'[s].at \in {call[s].at, "reply"}
  <2>1. /\ (call[s].job \in RequestJobs => call[s].key \in Request /\ call[s].key > plan.requests)'
        /\ (call[s].job = "enroll" => call[s].key \in Attempts /\ call[s].key > MaxReq + plan.attempts)'
    <3>1. /\ plan.requests \in Int /\ plan.attempts \in Int /\ call[s].key \in Int
          /\ plan'.requests \in Int /\ plan'.attempts \in Int /\ MaxReq \in Int
      BY NumberLemma DEF TypeOK, Plan
    <3> QED
      BY <3>1, <1>1, <1>4 DEF CallGood, Less
  <2>2. /\ (call[s].at = "expire" => call[s].job \in RequestJobs)'
        /\ (call[s].at \in {"auth", "retire"} => call[s].job \in GuardedJobs)'
    BY <1>1, <1>4 DEF CallGood
  <2>3. /\ ((call[s].job = "poll" /\ call[s].at = "claim") => client[call[s].key].cur # 0)'
        /\ (Redeeming(call[s]) => client[call[s].key].cur # 0 /\ request[call[s].key].redeemed)'
    BY <1>1, <1>2, <1>4 DEF CallGood, Redeeming, RowsBy, RequestJobs
  <2>4. (Redeeming(call[s]) => handed[call[s].key] = 0)'
    BY <1>1, <1>4 DEF CallGood, Redeeming, RowsBy, RequestJobs, Apart
  <2>5. ((call[s].job = "enroll" /\ call[s].at # "reply") => client[call[s].key].cur = 0)'
    BY <1>1, <1>2, <1>4 DEF CallGood, RowsBy, Apart
  <2>6. ((call[s].job = "enroll" /\ call[s].at = "rotate") =>
            call[s].on \in Token /\ client[call[s].on].cur # 0)'
    BY <1>1, <1>4 DEF CallGood, RowsBy
  <2> QED
    BY <2>1, <2>2, <2>3, <2>4, <2>5, <2>6 DEF CallGood
<1> QED
  BY <1>3, <1>4 DEF Keeps

\* What slot s redeems or enrolls with is what it did already, or new.
New(s) ==
  /\ Redeeming(call'[s]) => \/ Redeeming(call[s]) /\ call'[s].key = call[s].key
                            \/ ~request[call'[s].key].redeemed
  /\ call'[s].job = "enroll" => \/ call[s].job = "enroll" /\ call'[s].key = call[s].key
                                \/ call'[s].key = MaxReq + plan.attempts

\* One call moves, the rows change in its name.
LEMMA CallsLemma ==
  ASSUME TypeOK, TypeOK', CallsOK, Less, NEW s \in Slot, Only(s), RowsBy(s), New(s),
         CallGood(call[s])'
  PROVE  CallsOK'
<1>1. ASSUME NEW t \in Slot
      PROVE  CallGood(call[t])'
  <2>1. CASE t = s
    BY <2>1
  <2>2. CASE t # s
    <3>1. Keeps(t)
      BY <2>2 DEF Only, Keeps
    <3> QED
      BY <3>1, <2>2, KeepsGood
  <2> QED
    BY <2>1, <2>2
<1>2. ASSUME NEW t \in Slot, t # s
      PROVE  Apart(call[s], call[t])' /\ Apart(call[t], call[s])'
  <2>1. CallGood(call[t]) /\ Apart(call[s], call[t])
    BY <1>2 DEF CallsOK
  <2>2. call'[t] = call[t]
    BY <1>2 DEF Only
  <2>3. call[t].key \in Int /\ plan.attempts \in Int /\ MaxReq \in Int
    BY NumberLemma
  <2> QED
    BY <2>1, <2>2, <2>3 DEF Apart, New, CallGood, Redeeming
<1>3. ASSUME NEW t \in Slot, NEW u \in Slot, t # u
      PROVE  Apart(call[t], call[u])'
  <2>1. CASE t # s /\ u # s
    BY <2>1, <1>3 DEF CallsOK, Only, Apart, Redeeming
  <2> QED
    BY <2>1, <1>2, <1>3
<1> QED
  BY <1>1, <1>3 DEF CallsOK

\* Calls are dropped or left, the rows change in nobody's name.
LEMMA KeepsLemma ==
  ASSUME TypeOK, TypeOK', CallsOK, Less, \A s \in Slot : Keeps(s),
         \A c \in Token : client'[c].cur = client[c].cur,
         \A r \in Request : request'[r].redeemed = request[r].redeemed,
         handed' = handed
  PROVE  CallsOK'
<1>1. ASSUME NEW s \in Slot
      PROVE  CallGood(call[s])'
  <2>1. RowsBy(s) /\ Keeps(s)
    <3>1. Attempts \subseteq Token
      BY DEF Attempts, Token
    <3> QED
      BY <3>1 DEF RowsBy
  <2> QED
    BY <2>1, KeepsGood
<1>2. ASSUME NEW s \in Slot, NEW t \in Slot, s # t
      PROVE  Apart(call[s], call[t])'
  <2>1. Apart(call[s], call[t]) /\ Keeps(s) /\ Keeps(t)
    BY <1>2 DEF CallsOK
  <2> QED
    BY <2>1 DEF Apart, Keeps, Redeeming
<1> QED
  BY <1>1, <1>2 DEF CallsOK

-----------------------------------------------------------------------------
(* Steps that leave the rows alone, or change what the invariant does not  *)
(* ask about.                                                              *)

\* The rows are as good as they were.
Quiet ==
  /\ Less
  /\ \A r \in Request : /\ request'[r].status = request[r].status
                        /\ request'[r].redeemed = request[r].redeemed
                        /\ request'[r].shown = request[r].shown
  /\ handed' = handed /\ claim'.uses = claim.uses
  /\ \A c \in Token : /\ client'[c].cur = client[c].cur
                      /\ client'[c].sealed => client[c].sealed
                      /\ client'[c].frame = "pending" => client[c].frame = "pending"
  /\ link'.status = "connecting" => link' = link

Rows == RequestsOK /\ ApprovedOK /\ TokensOK /\ TokenLeavesOnce /\ BudgetExact

\* Requests and attempts are tokens.
LEMMA TokenLemma == Request \subseteq Token /\ Attempts \subseteq Token /\ Token \subseteq Ref
BY DEF Request, Attempts, Token, Ref

\* Then the rows keep the invariant's part about them.
LEMMA QuietLemma ==
  ASSUME TypeOK, TypeOK', Rows, Quiet
  PROVE  Rows'
<1>1. /\ plan.requests \in Int /\ plan.attempts \in Int /\ MaxReq \in Int
      /\ plan'.requests \in Int /\ plan'.attempts \in Int
  BY NumberLemma DEF TypeOK, Plan
<1>2. Request \subseteq Int /\ Attempts \subseteq Int
  BY DEF Request, Attempts
<1>3. RequestsOK'
  <2>1. ASSUME link'.status = "connecting"
        PROVE  link'.code \in Request /\ link'.code > plan'.requests
    <3>1. link' = link
      BY <2>1 DEF Quiet
    <3>2. link.code \in Request /\ link.code > plan.requests
      BY <2>1, <3>1 DEF Rows, RequestsOK
    <3>3. link.code \in Int /\ plan.requests >= plan'.requests
      BY <1>1, <1>2, <3>2 DEF Quiet, Less
    <3> QED
      BY <1>1, <3>1, <3>2, <3>3
  <2>2. ASSUME NEW r \in Request, r <= plan'.requests
        PROVE  request'[r].status = "absent" /\ ~request'[r].shown
    <3>1. r <= plan.requests
      BY <2>2, <1>1, <1>2 DEF Quiet, Less
    <3> QED
      BY <3>1 DEF Rows, RequestsOK, Quiet
  <2> QED
    BY <2>1, <2>2 DEF RequestsOK
<1>4. ApprovedOK'
  BY TokenLemma DEF Rows, ApprovedOK, Quiet
<1>5. TokensOK'
  <2>1. ASSUME NEW c \in Attempts, c <= MaxReq + plan'.attempts
        PROVE  client'[c].cur = 0
    <3>1. c <= MaxReq + plan.attempts /\ c \in Token
      BY <2>1, <1>1, <1>2, TokenLemma DEF Quiet, Less
    <3> QED
      BY <3>1 DEF Rows, TokensOK, Quiet
  <2>2. \A c \in Token : client'[c].frame = "pending" => client'[c].cur # 0
    BY DEF Rows, TokensOK, Quiet
  <2> QED
    BY <2>1, <2>2 DEF TokensOK
<1>6. TokenLeavesOnce'
  <2> SUFFICES ASSUME NEW r \in Request
               PROVE  (handed[r] + (IF client[r].sealed THEN 1 ELSE 0) <= 1)'
    BY DEF TokenLeavesOnce
  <2>1. handed[r] \in Nat /\ r \in Token
    BY TokenLemma DEF TypeOK
  <2> QED
    BY <2>1 DEF Rows, TokenLeavesOnce, Quiet
<1>7. BudgetExact'
  <2>1. {c \in Attempts : client'[c].cur # 0} = {c \in Attempts : client[c].cur # 0}
    BY TokenLemma DEF Quiet
  <2> QED
    BY <2>1 DEF Rows, BudgetExact, Quiet
<1> QED
  BY <1>3, <1>4, <1>5, <1>6, <1>7 DEF Rows

\* A quiet step of one handler.
LEMMA QuietStep ==
  ASSUME Inv, TypeOK', Quiet, NEW s \in Slot, Only(s), New(s), CallGood(call[s])'
  PROVE  Inv'
<1>1. RowsBy(s)
  BY TokenLemma DEF Quiet, RowsBy
<1>2. CallsOK'
  BY <1>1, CallsLemma DEF Inv, Quiet
<1>3. Rows'
  BY QuietLemma DEF Inv, Rows
<1> QED
  BY <1>2, <1>3 DEF Inv, Rows

\* A quiet step of nobody's.
LEMMA QuietKeeps ==
  ASSUME Inv, TypeOK', Quiet, \A s \in Slot : Keeps(s)
  PROVE  Inv'
<1>1. CallsOK'
  BY KeepsLemma DEF Inv, Quiet
<1>2. Rows'
  BY QuietLemma DEF Inv, Rows
<1> QED
  BY <1>1, <1>2 DEF Inv, Rows

\* A slot that is free again holds nothing to answer for.
LEMMA ReturnGood ==
  ASSUME NEW s \in Slot, call'[s] = NoCall
  PROVE  New(s) /\ CallGood(call[s])'
<1>1. call'[s].job = "none" /\ call'[s].at = ""
  BY NoCallLemma
<1> QED
  BY <1>1 DEF New, CallGood, Redeeming, RequestJobs, GuardedJobs

\* An answer asks nothing of the rows.
LEMMA ReplyGood ==
  ASSUME TypeOK, TypeOK', CallsOK, Less, NEW s \in Slot, NEW a \in Answers, Reply(s, a)
  PROVE  Only(s) /\ New(s) /\ CallGood(call[s])'
<1>1. Only(s)
  BY ReplyLemma
<1>2. CASE call'[s] = NoCall
  BY <1>1, <1>2, ReturnGood
<1>3. CASE /\ call'[s].at = "reply" /\ call'[s].job = call[s].job
           /\ call'[s].key = call[s].key
  <2>1. New(s)
    BY <1>3 DEF New, Redeeming
  <2>2. /\ plan.requests \in Int /\ plan.attempts \in Int /\ call[s].key \in Int
        /\ plan'.requests \in Int /\ plan'.attempts \in Int /\ MaxReq \in Int
    BY NumberLemma DEF TypeOK, Plan
  <2>3. CallGood(call[s])
    BY DEF CallsOK
  <2>4. CallGood(call[s])'
    BY <1>3, <2>2, <2>3 DEF CallGood, Less, Redeeming
  <2> QED
    BY <1>1, <2>1, <2>4
<1> QED
  BY <1>2, <1>3, ReplyLemma

\* What the next step of a handler asks of the rows, when they do not change.
Sound(s, x) ==
  /\ x = "expire" => call[s].job \in RequestJobs
  /\ x \in {"auth", "retire"} => call[s].job \in GuardedJobs
  /\ call[s].job = "poll" /\ x = "claim" => client[call[s].key].cur # 0
  /\ call[s].job = "poll" /\ x \in {"fetch", "unseal"} => call[s].at \in {"fetch", "unseal"}
  /\ call[s].job = "enroll" => call[s].at # "reply" /\ x # "rotate"

\* Only a call moves.
LEMMA StillLemma ==
  ASSUME Inv, NEW s \in Slot, Only(s), UNCHANGED <<cloud, device, overlap>>, plan' \in Plan, Less
  PROVE  TypeOK' /\ Quiet
<1>1. TypeOK'
  BY DEF Inv, TypeOK, Only, cloud, device
<1>2. Quiet
  BY DEF cloud, device, Quiet
<1> QED
  BY <1>1, <1>2

\* A handler answers, the rows stay.
LEMMA ReplyStep ==
  ASSUME Inv, NEW s \in Slot, NEW a \in Answers, Reply(s, a), plan' \in Plan, Less,
         UNCHANGED <<cloud, device, overlap>>
  PROVE  Inv'
<1>1. Only(s)
  BY ReplyLemma DEF Inv
<1>2. TypeOK' /\ Quiet
  BY <1>1, StillLemma
<1> QED
  BY <1>1, <1>2, ReplyGood, QuietStep DEF Inv

\* A handler that keeps what it holds is in order at its next statement.
LEMMA GotoGood ==
  ASSUME Inv, TypeOK', Quiet, NEW s \in Slot, NEW x \in Steps, call'[s].at = x,
         call'[s].job = call[s].job, call'[s].key = call[s].key, Sound(s, x)
  PROVE  New(s) /\ CallGood(call[s])'
<1>1. New(s)
  BY DEF New, Redeeming, Sound
<1>2. /\ plan.requests \in Int /\ plan.attempts \in Int /\ call[s].key \in Int
      /\ plan'.requests \in Int /\ plan'.attempts \in Int /\ MaxReq \in Int
  BY NumberLemma DEF TypeOK, Plan, Inv
<1>3. CallGood(call[s])
  BY DEF Inv, CallsOK
<1>4. /\ (call[s].job \in RequestJobs => call[s].key \in Request /\ call[s].key > plan.requests)'
      /\ (call[s].job = "enroll" => call[s].key \in Attempts /\ call[s].key > MaxReq + plan.attempts)'
  BY <1>2, <1>3 DEF CallGood, Quiet, Less
<1>5. /\ (call[s].at = "expire" => call[s].job \in RequestJobs)'
      /\ (call[s].at \in {"auth", "retire"} => call[s].job \in GuardedJobs)'
  BY DEF Sound
<1>6. ((call[s].job = "poll" /\ call[s].at = "claim") => client[call[s].key].cur # 0)'
  BY <1>3, TokenLemma DEF Sound, Quiet, CallGood, RequestJobs
<1>7. (Redeeming(call[s]) => /\ client[call[s].key].cur # 0 /\ request[call[s].key].redeemed
                             /\ handed[call[s].key] = 0)'
  BY <1>3, TokenLemma DEF Sound, Quiet, CallGood, RequestJobs, Redeeming
<1>8. /\ ((call[s].job = "enroll" /\ call[s].at # "reply") => client[call[s].key].cur = 0)'
      /\ ((call[s].job = "enroll" /\ call[s].at = "rotate") =>
            call[s].on \in Token /\ client[call[s].on].cur # 0)'
  BY <1>3, TokenLemma DEF Sound, Quiet, CallGood
<1> QED
  BY <1>1, <1>4, <1>5, <1>6, <1>7, <1>8 DEF CallGood

\* A handler goes on, the rows stay.
LEMMA GotoStep ==
  ASSUME Inv, NEW s \in Slot, NEW x \in Steps, Goto(s, x), Sound(s, x), Free,
         UNCHANGED <<cloud, device, overlap>>
  PROVE  Inv'
<1>1. /\ Only(s) /\ call'[s].at = x /\ call'[s].job = call[s].job
      /\ call'[s].key = call[s].key
  BY GotoLemma DEF Inv
<1>2. plan' \in Plan /\ Less
  BY NumberLemma DEF Free, Less, Inv, TypeOK
<1>3. TypeOK' /\ Quiet
  BY <1>1, <1>2, StillLemma
<1>4. New(s) /\ CallGood(call[s])'
  BY <1>1, <1>3, GotoGood
<1> QED
  BY <1>1, <1>3, <1>4, QuietStep

\* A plan that is left alone.
LEMMA FreeLemma ==
  ASSUME TypeOK, Free
  PROVE  plan' \in Plan /\ Less
BY NumberLemma DEF TypeOK, Free, Less

\* Giving something up is one less of it.
LEMMA SpendLess ==
  ASSUME TypeOK, NEW b \in {"requests", "attempts", "faults", "crashes", "clicks"}, Spend(b)
  PROVE  plan' \in Plan /\ Less
BY SpendLemma, NumberLemma DEF Less

\* The calls of a handler hold what CallGood says.
LEMMA HeldLemma ==
  ASSUME Inv, NEW s \in Slot
  PROVE  /\ CallGood(call[s])
         /\ call[s].job \in RequestJobs => call[s].key \in Request
BY DEF Inv, CallsOK, CallGood

\* Reads of the device flow, the owner's and the claim token's handlers.
LEMMA ReadLemma ==
  ASSUME Inv, NEW s \in Slot,
         \/ PollRead(s) \/ PollFetch(s) \/ ApproveRead(s) \/ ApproveStamp(s) \/ DenyRead(s)
         \/ LookupRead(s) \/ RegisterFind(s) \/ RegisterCount(s) \/ ReplayLookup(s) \/ DialFind(s)
  PROVE  Inv'
<1>1. UNCHANGED <<cloud, device, overlap>> /\ Free
  BY DEF PollRead, PollFetch, ApproveRead, ApproveStamp, DenyRead, LookupRead, RegisterFind,
         RegisterCount, ReplayLookup, DialFind
<1>2. plan' \in Plan /\ Less
  BY <1>1, FreeLemma DEF Inv
<1>3. CASE \E a \in Answers : Reply(s, a)
  BY <1>1, <1>2, <1>3, ReplyStep
<1>4. CASE \E x \in Steps : Goto(s, x) /\ Sound(s, x)
  BY <1>1, <1>4, GotoStep
<1>5. CASE PollRead(s)
  <2>1. CASE Goto(s, "expire")
    <3>1. Sound(s, "expire")
      BY <1>5 DEF PollRead, At, Sound, RequestJobs
    <3> QED
      BY <2>1, <3>1, <1>4 DEF Steps
  <2>2. CASE Goto(s, "claim") /\ request[call[s].key].status = "approved"
    <3>1. call[s].key \in Request
      BY <1>5, HeldLemma DEF PollRead, At, RequestJobs
    <3>2. client[call[s].key].cur # 0
      BY <2>2, <3>1 DEF Inv, ApprovedOK
    <3>3. Sound(s, "claim")
      BY <1>5, <3>2 DEF PollRead, At, Sound
    <3> QED
      BY <2>2, <3>3, <1>4 DEF Steps
  <2> QED
    BY <1>3, <1>5, <2>1, <2>2 DEF PollRead, Answers
<1>6. CASE PollFetch(s)
  <2>1. Sound(s, "unseal")
    BY <1>6 DEF PollFetch, At, Sound
  <2> QED
    BY <1>3, <1>4, <1>6, <2>1 DEF PollFetch, Answers, Steps
<1>7. CASE ApproveRead(s)
  <2>1. Sound(s, "expire") /\ Sound(s, "claim")
    BY <1>7 DEF ApproveRead, At, Sound, RequestJobs
  <2> QED
    BY <1>3, <1>4, <1>7, <2>1 DEF ApproveRead, Answers, Steps
<1>8. CASE ApproveStamp(s)
  <2>1. Sound(s, "commit")
    BY <1>8 DEF ApproveStamp, At, Sound
  <2> QED
    BY <1>3, <1>4, <1>8, <2>1 DEF ApproveStamp, Answers, Steps
<1>9. CASE DenyRead(s)
  <2>1. Sound(s, "commit")
    BY <1>9 DEF DenyRead, At, Sound
  <2> QED
    BY <1>3, <1>4, <1>9, <2>1 DEF DenyRead, Answers, Steps
<1>10. CASE LookupRead(s)
  <2>1. Sound(s, "expire")
    BY <1>10 DEF LookupRead, At, Sound, RequestJobs
  <2> QED
    BY <1>3, <1>4, <1>10, <2>1 DEF LookupRead, Answers, Steps
<1>11. CASE RegisterFind(s)
  <2>1. Sound(s, "count")
    BY <1>11 DEF RegisterFind, At, Sound
  <2> QED
    BY <1>3, <1>4, <1>11, <2>1 DEF RegisterFind, Answers, Steps
<1>12. CASE RegisterCount(s)
  <2>1. Sound(s, "insert")
    BY <1>12 DEF RegisterCount, At, Sound
  <2> QED
    BY <1>3, <1>4, <1>12, <2>1 DEF RegisterCount, Answers, Steps
<1>13. CASE ReplayLookup(s)
  <2>1. Sound(s, "redeem") /\ Sound(s, "find")
    BY <1>13 DEF ReplayLookup, At, Sound
  <2> QED
    BY <1>4, <1>13, <2>1 DEF ReplayLookup, Steps
<1>14. CASE DialFind(s)
  BY <1>3, <1>14 DEF DialFind, Answers
<1> QED
  BY <1>5, <1>6, <1>7, <1>8, <1>9, <1>10, <1>11, <1>12, <1>13, <1>14

\* A token is looked up.
LEMMA AuthLemma ==
  ASSUME Inv, NEW s \in Slot, Auth(s)
  PROVE  Inv'
<1>1. UNCHANGED <<cloud, device, overlap>> /\ plan' \in Plan /\ Less
  BY FreeLemma DEF Auth, Inv
<1>2. CASE Reply(s, "refused")
  BY <1>1, <1>2, ReplyStep DEF Answers
<1>3. CASE \E c \in Token : GotoOn(s, IF client[c].cur = call[s].key /\ client[c].prev # 0
                                      THEN "retire" ELSE AfterAuth[call[s].job], c)
  <2>1. PICK c \in Token : GotoOn(s, IF client[c].cur = call[s].key /\ client[c].prev # 0
                                     THEN "retire" ELSE AfterAuth[call[s].job], c)
    BY <1>3
  <2>2. call[s].job \in GuardedJobs
    BY HeldLemma DEF Auth, CallGood
  <2>3. AfterAuth[call[s].job] \in {"find", "commit"}
    BY <2>2 DEF AfterAuth, GuardedJobs
  <2>4. PICK x \in {"retire", "find", "commit"} : GotoOn(s, x, c)
    BY <2>1, <2>3
  <2>5. x \in Steps /\ c \in Ref /\ Sound(s, x)
    BY <2>2, TokenLemma DEF Steps, Sound, GuardedJobs
  <2>6. /\ Only(s) /\ call'[s].at = x /\ call'[s].job = call[s].job
        /\ call'[s].key = call[s].key
    BY <2>4, <2>5, GotoOnLemma DEF Inv
  <2>7. TypeOK' /\ Quiet
    BY <1>1, <2>6, StillLemma
  <2>8. New(s) /\ CallGood(call[s])'
    BY <2>5, <2>6, <2>7, GotoGood
  <2> QED
    BY <2>6, <2>7, <2>8, QuietStep
<1> QED
  BY <1>2, <1>3 DEF Auth

\* An attempt finds the frame it repeats, or none.
LEMMA ReplayFindLemma ==
  ASSUME Inv, NEW s \in Slot, ReplayFind(s)
  PROVE  Inv'
<1>1. UNCHANGED <<cloud, device, overlap>> /\ Free /\ plan' \in Plan /\ Less
  BY FreeLemma DEF ReplayFind, Inv
<1>2. CASE Goto(s, "redeem")
  <2>1. Sound(s, "redeem")
    BY DEF ReplayFind, At, Sound
  <2> QED
    BY <1>1, <1>2, <2>1, GotoStep DEF Steps
<1>3. CASE \E c \in Token : PendingFrame(c) /\ GotoOn(s, "rotate", c)
  <2>1. PICK c \in Token : PendingFrame(c) /\ GotoOn(s, "rotate", c)
    BY <1>3
  <2>2. c \in Ref /\ "rotate" \in Steps
    BY TokenLemma DEF Steps
  <2>3. /\ Only(s) /\ call'[s].at = "rotate" /\ call'[s].job = "enroll"
        /\ call'[s].key = call[s].key /\ call'[s].on = c /\ call[s].job = "enroll"
    BY <2>1, <2>2, GotoOnLemma DEF Inv, ReplayFind, At
  <2>4. TypeOK' /\ Quiet
    BY <1>1, <2>3, StillLemma
  <2>5. client[c].cur # 0
    BY <2>1 DEF Inv, TokensOK, PendingFrame
  <2>6. client' = client /\ plan' = plan
    BY <1>1 DEF cloud, Free
  <2>7. New(s) /\ CallGood(call[s])'
    <3>1. CallGood(call[s]) /\ call[s].at = "find"
      BY HeldLemma DEF ReplayFind, At
    <3> QED
      BY <2>3, <2>5, <2>6, <3>1 DEF New, CallGood, Redeeming, RequestJobs, GuardedJobs
  <2> QED
    BY <2>3, <2>4, <2>7, QuietStep
<1> QED
  BY <1>2, <1>3 DEF ReplayFind

\* A new call is in order, if it is no enrollment.
LEMMA StartGood ==
  ASSUME Inv, NEW s \in Slot, NEW j \in Jobs \ {"enroll"}, NEW x \in Steps \ {"expire", "retire"},
         NEW k \in Ref, NEW w \in Callers, Start(s, j, x, k, w),
         j \in RequestJobs => k \in Request /\ k > plan'.requests,
         j = "poll" => x = "read",
         x = "auth" => j \in GuardedJobs
  PROVE  Only(s) /\ New(s) /\ CallGood(call[s])'
<1>1. Only(s) /\ call'[s].at = x /\ call'[s].job = j /\ call'[s].key = k
  BY StartLemma DEF Inv
<1> QED
  BY <1>1 DEF New, CallGood, Redeeming

\* Calls that begin without a row.
LEMMA BeginLemma ==
  ASSUME Inv, NEW s \in Slot,
         \/ Poll(s) \/ Disconnect(s) \/ Dial(s)
         \/ \E job \in {"approve", "deny", "lookup"} : Decide(s, job)
         \/ Confirm(s) \/ RevokeFrame(s)
  PROVE  Inv'
<1>1. UNCHANGED <<cloud, device, overlap>>
  BY DEF Poll, Disconnect, Dial, Decide, Confirm, RevokeFrame
<1>2. Free \/ Spend("clicks")
  BY DEF Poll, Disconnect, Dial, Decide, Confirm, RevokeFrame
<1>3. plan' \in Plan /\ Less /\ plan'.requests = plan.requests
  BY <1>2, FreeLemma, SpendLemma, SpendLess DEF Inv, Free
<1>4. link.token \in Ref /\ link.code \in Ref
  BY DEF Inv, TypeOK
<1>5. Only(s) /\ New(s) /\ CallGood(call[s])'
  <2>1. CASE Poll(s)
    <3>1. link.code \in Request /\ link.code > plan'.requests
      BY <2>1, <1>3 DEF Poll, Inv, RequestsOK
    <3> QED
      BY <2>1, <3>1, <1>4, StartGood DEF Poll, Jobs, Steps, Callers
  <2>2. CASE Disconnect(s)
    BY <2>2, <1>4, StartGood DEF Disconnect, Jobs, Steps, Callers, RequestJobs, GuardedJobs
  <2>3. CASE Dial(s)
    BY <2>3, <1>4, StartGood DEF Dial, Jobs, Steps, Callers, RequestJobs, GuardedJobs
  <2>4. CASE \E job \in {"approve", "deny", "lookup"} : Decide(s, job)
    <3>1. PICK job \in {"approve", "deny", "lookup"}, r \in Request :
                 request[r].shown /\ Start(s, job, "read", r, "nobody")
      BY <2>4 DEF Decide
    <3>2. r > plan'.requests /\ r \in Ref
      <4>1. ~(r <= plan.requests)
        BY <3>1 DEF Inv, RequestsOK
      <4>2. r \in Int /\ plan.requests \in Int
        BY NumberLemma DEF Request, Inv
      <4> QED
        BY <4>1, <4>2, <1>3, TokenLemma
    <3> QED
      BY <3>1, <3>2, StartGood DEF Jobs, Steps, Callers
  <2>5. CASE Confirm(s)
    <3>1. PICK c \in Token : Start(s, "confirm", "commit", c, "nobody")
      BY <2>5 DEF Confirm
    <3> QED
      BY <3>1, TokenLemma, StartGood DEF Jobs, Steps, Callers, RequestJobs
  <2>6. CASE RevokeFrame(s)
    <3>1. PICK c \in Token : Start(s, "revokeFrame", "claim", c, "nobody")
      BY <2>6 DEF RevokeFrame
    <3> QED
      BY <3>1, TokenLemma, StartGood DEF Jobs, Steps, Callers, RequestJobs
  <2> QED
    BY <2>1, <2>2, <2>3, <2>4, <2>5, <2>6
<1>6. TypeOK' /\ Quiet
  BY <1>1, <1>3, <1>5, StillLemma
<1> QED
  BY <1>5, <1>6, QuietStep

\* A new enrollment has a token that nobody has.
LEMMA EnrollLemma ==
  ASSUME Inv, NEW s \in Slot, EnrollBoot(s) \/ EnrollPortal(s)
  PROVE  Inv'
<1>1. PICK w \in Callers : Enroll(s, w)
  BY DEF EnrollBoot, EnrollPortal, Callers
<1> DEFINE k == MaxReq + plan.attempts
<1>2. plan' \in Plan /\ Less /\ plan.attempts > 0 /\ plan'.attempts = plan.attempts - 1
  BY <1>1, SpendLemma, SpendLess DEF Enroll, Inv
<1>3. plan.attempts \in 1 .. MaxAttempt
  BY <1>2 DEF Inv, TypeOK, Plan
<1>4. k \in Attempts /\ k \in Ref /\ k > MaxReq + plan'.attempts
  BY <1>2, <1>3 DEF Attempts, Ref
<1>5. client[k].cur = 0
  BY <1>3, <1>4 DEF Inv, TokensOK
<1>6. UNCHANGED <<cloud, device>> /\ overlap' \in BOOLEAN
  BY <1>1 DEF Enroll, Inv, TypeOK
<1>7. Only(s) /\ call'[s].at = "read" /\ call'[s].job = "enroll" /\ call'[s].key = k
  <2> HIDE DEF k
  <2>1. Start(s, "enroll", "read", k, w)
    BY <1>1 DEF Enroll, k
  <2>2. "enroll" \in Jobs /\ "read" \in Steps
    BY DEF Jobs, Steps
  <2>3. TypeOK /\ k \in Ref
    BY <1>4 DEF Inv
  <2> QED
    BY <2>1, <2>2, <2>3, StartLemma
<1>8. TypeOK' /\ Quiet
  <2> HIDE DEF k
  <2>1. TypeOK'
    BY <1>2, <1>6, <1>7 DEF Inv, TypeOK, Only, cloud, device
  <2>2. UNCHANGED <<request, handed, claim, client, link>>
    BY <1>6 DEF cloud, device
  <2>3. Quiet
    BY <1>2, <2>2 DEF Quiet
  <2> QED
    BY <2>1, <2>3
<1>9. New(s) /\ CallGood(call[s])'
  <2> HIDE DEF k
  <2>1. client' = client
    BY <1>6 DEF cloud
  <2>2. New(s)
    BY <1>7 DEF New, Redeeming, k
  <2> QED
    BY <2>1, <2>2, <1>4, <1>5, <1>7 DEF CallGood, Redeeming, RequestJobs, GuardedJobs
<1> QED
  BY <1>7, <1>8, <1>9, QuietStep

\* Callers with their answer, but connect's.
LEMMA CallerLemma ==
  ASSUME Inv, NEW s \in Slot,
         PollReply(s) \/ RegisterReply(s) \/ UnlinkReply(s) \/ EnrollReply(s) \/ DialReply(s)
  PROVE  Inv'
<1>1. UNCHANGED <<cloud, overlap>> /\ plan' \in Plan /\ Less
  BY FreeLemma DEF PollReply, RegisterReply, UnlinkReply, EnrollReply, DialReply, Inv
<1>2. call[s].key \in Ref /\ call[s].on \in Ref
  BY DEF Inv, TypeOK, Call
<1>3. Unlinked \in [status : {"disconnected", "connecting", "connected"}, code : Ref,
                    token : Ref, frame : Ref] /\ Unlinked.status = "disconnected"
  BY DEF Unlinked, Ref
<1>4. /\ link' \in [status : {"disconnected", "connecting", "connected"}, code : Ref,
                    token : Ref, frame : Ref]
      /\ link'.status = "connecting" => link' = link
  <2>1. CASE PollReply(s)
    <3>1. \/ link' = link \/ link' = Unlinked
          \/ link' = [Unlinked EXCEPT !.status = "connected", !.token = call[s].key]
      BY <2>1 DEF PollReply
    <3> QED
      BY <3>1, <1>2, <1>3 DEF Inv, TypeOK
  <2>2. CASE RegisterReply(s)
    <3>1. link' = link \/ (link.status = "connected" /\ link' = [link EXCEPT !.frame = call[s].on])
      BY <2>2 DEF RegisterReply
    <3> QED
      BY <3>1, <1>2 DEF Inv, TypeOK
  <2>3. CASE UnlinkReply(s)
    BY <2>3, <1>3 DEF UnlinkReply
  <2>4. CASE EnrollReply(s)
    <3>1. \/ link' = link
          \/ link' = [status |-> "connected", code |-> 0, token |-> call[s].key,
                      frame |-> call[s].on]
      BY <2>4 DEF EnrollReply
    <3>2. 0 \in Ref
      BY DEF Ref
    <3> QED
      BY <3>1, <3>2, <1>2 DEF Inv, TypeOK
  <2>5. CASE DialReply(s)
    BY <2>5, <1>3 DEF DialReply, Inv, TypeOK
  <2> QED
    BY <2>1, <2>2, <2>3, <2>4, <2>5
<1>5. pending' \in {"file", "settled", "gone"} /\ strikes' \in 0 .. FailureLimit - 1
  <2>1. CASE DialReply(s)
    BY <2>1 DEF DialReply, Inv, TypeOK
  <2> QED
    <3>1. CASE PollReply(s) \/ RegisterReply(s) \/ UnlinkReply(s)
      BY <3>1 DEF PollReply, RegisterReply, UnlinkReply, Inv, TypeOK
    <3>2. CASE EnrollReply(s)
      BY <3>2 DEF EnrollReply, Inv, TypeOK
    <3> QED
      BY <2>1, <3>1, <3>2
<1>6. Only(s) /\ New(s) /\ CallGood(call[s])'
  <2>1. CASE Return(s)
    BY <2>1, ReturnLemma, ReturnGood DEF Inv
  <2>2. CASE PollReply(s) /\ ~Return(s)
    <3> DEFINE y == [call[s] EXCEPT !.job = "register", !.at = "auth", !.answer = ""]
    <3>1. call[s] \in Call
      BY DEF Inv, TypeOK
    <3>2. y \in Call /\ y.job = "register" /\ y.at = "auth"
      <4>1. "register" \in Jobs /\ "auth" \in Steps
        BY DEF Jobs, Steps
      <4> QED
        BY <3>1, <4>1 DEF Call
    <3>3. call' = [call EXCEPT ![s] = y]
      <4>1. call' = [call EXCEPT ![s].job = "register", ![s].at = "auth",
                                 ![s].answer = ""]
        BY <2>2 DEF PollReply
      <4>2. call \in [Slot -> Call]
        BY DEF Inv, TypeOK
      <4> QED
        BY <4>1, <4>2
    <3> HIDE DEF y
    <3>4. Only(s) /\ call'[s].job = "register" /\ call'[s].at = "auth"
      BY <3>2, <3>3, PutLemma DEF Inv
    <3> QED
      BY <3>4 DEF New, CallGood, Redeeming, RequestJobs, GuardedJobs
  <2> QED
    BY <2>1, <2>2 DEF RegisterReply, UnlinkReply, EnrollReply, DialReply
<1>7. TypeOK'
  BY <1>1, <1>4, <1>5, <1>6 DEF Inv, TypeOK, Only, cloud
<1>8. Quiet
  BY <1>1, <1>4 DEF Quiet, cloud
<1> QED
  BY <1>6, <1>7, <1>8, QuietStep

\* The clients' rows change in what the invariant does not ask about.
ClientRow == [cur : Ref, prev : Ref, grace : BOOLEAN, sealed : BOOLEAN,
              revoked : BOOLEAN, frame : {"none", "pending", "active", "revoked"}]
ClientsKept ==
  /\ client' \in [Token -> ClientRow]
  /\ \A c \in Token : /\ client'[c].cur = client[c].cur
                      /\ client'[c].prev \in {0, client[c].prev}
                      /\ client[c].revoked => client'[c].revoked
                      /\ client'[c].sealed => client[c].sealed
                      /\ client'[c].frame = "pending" => client[c].frame = "pending"
Harmless == UNCHANGED <<request, claim, handed, device, overlap>> /\ Free /\ ClientsKept

\* The writes of one row that are harmless; a row that is not there stays so.
LEMMA RowLemma ==
  ASSUME TypeOK, NEW c, NEW y, client' = [client EXCEPT ![c] = y],
         \/ y = [client[c] EXCEPT !.prev = 0, !.grace = FALSE]
         \/ y = [client[c] EXCEPT !.frame = "active"]
         \/ y = [client[c] EXCEPT !.frame = "revoked"]
         \/ y = [client[c] EXCEPT !.revoked = TRUE]
         \/ y = [client[c] EXCEPT !.grace = FALSE]
  PROVE  ClientsKept
<1>1. client \in [Token -> ClientRow]
  BY DEF TypeOK, ClientRow
<1>2. CASE c \in Token
  <2>1. client[c] \in ClientRow /\ 0 \in Ref
    BY <1>1, <1>2 DEF Ref
  <2>2. /\ y \in ClientRow /\ y.cur = client[c].cur /\ (y.sealed => client[c].sealed)
        /\ (y.frame = "pending" => client[c].frame = "pending")
    BY <2>1 DEF ClientRow
  <2>3. y.prev \in {0, client[c].prev} /\ (client[c].revoked => y.revoked)
    BY <2>1 DEF ClientRow
  <2> QED
    BY <1>1, <2>2, <2>3 DEF ClientsKept
<1>3. CASE c \notin Token
  <2>1. client' = client
    BY <1>1, <1>3
  <2> QED
    BY <1>1, <2>1 DEF ClientsKept
<1> QED
  BY <1>2, <1>3

\* Such steps are quiet.
LEMMA HarmlessLemma ==
  ASSUME Inv, Harmless, call' \in [Slot -> Call]
  PROVE  TypeOK' /\ Quiet
<1>1. plan' \in Plan /\ Less
  BY FreeLemma DEF Inv, Harmless
<1>2. TypeOK'
  BY <1>1 DEF Inv, TypeOK, Harmless, ClientsKept, ClientRow, device
<1> QED
  BY <1>1, <1>2 DEF Harmless, ClientsKept, Quiet, device

\* Retirement of a previous token, and the writes that revoke and confirm.
LEMMA WritesHarmless ==
  ASSUME Inv, NEW s \in Slot,
         \/ Retire(s) \/ RegisterInsert(s) \/ UnlinkCommit(s) \/ ConfirmCommit(s)
         \/ RevokeFrameClient(s) \/ RevokeFrameRow(s)
  PROVE  Harmless
<1>1. UNCHANGED <<request, claim, handed, device, overlap>> /\ Free
  BY DEF Retire, RegisterInsert, UnlinkCommit, ConfirmCommit, RevokeFrameClient, RevokeFrameRow
<1> SUFFICES ClientsKept
  BY <1>1 DEF Harmless
<1>2. client \in [Token -> ClientRow]
  BY DEF Inv, TypeOK, ClientRow
<1>3. \/ client' = client
      \/ client' = [client EXCEPT ![call[s].on].prev = 0, ![call[s].on].grace = FALSE]
      \/ \E c \in Ref : \/ client' = [client EXCEPT ![c].frame = "active"]
                        \/ client' = [client EXCEPT ![c].frame = "revoked"]
                        \/ client' = [client EXCEPT ![c].revoked = TRUE]
  <2>1. call[s].on \in Ref /\ call[s].key \in Ref
    BY DEF Inv, TypeOK, Call
  <2> QED
    BY <2>1 DEF Retire, RegisterInsert, UnlinkCommit, ConfirmCommit, RevokeFrameClient, RevokeFrameRow
<1>4. CASE client' = client
  BY <1>2, <1>4 DEF ClientsKept
<1>5. CASE client' = [client EXCEPT ![call[s].on].prev = 0, ![call[s].on].grace = FALSE]
  <2>1. client' = [client EXCEPT ![call[s].on] =
                     [client[call[s].on] EXCEPT !.prev = 0, !.grace = FALSE]]
    BY <1>2, <1>5
  <2> QED
    BY <2>1, RowLemma DEF Inv
<1>6. CASE \E c \in Ref : client' = [client EXCEPT ![c].frame = "active"]
  BY <1>6, RowLemma DEF Inv
<1>7. CASE \E c \in Ref : client' = [client EXCEPT ![c].frame = "revoked"]
  BY <1>7, RowLemma DEF Inv
<1>8. CASE \E c \in Ref : client' = [client EXCEPT ![c].revoked = TRUE]
  BY <1>8, RowLemma DEF Inv
<1> QED
  BY <1>3, <1>4, <1>5, <1>6, <1>7, <1>8

\* They keep the invariant.
LEMMA ClientLemma ==
  ASSUME Inv, NEW s \in Slot,
         \/ Retire(s) \/ RegisterInsert(s) \/ UnlinkCommit(s) \/ ConfirmCommit(s)
         \/ RevokeFrameClient(s) \/ RevokeFrameRow(s)
  PROVE  Inv'
<1>1. Harmless
  BY WritesHarmless
<1>2. Less
  BY <1>1, FreeLemma DEF Harmless, Inv
<1>3. CASE Retire(s)
  <2>1. call[s].job \in GuardedJobs
    BY <1>3, HeldLemma DEF Retire, CallGood
  <2>2. AfterAuth[call[s].job] \in {"find", "commit"}
    BY <2>1 DEF AfterAuth, GuardedJobs
  <2>3. PICK x \in {"find", "commit"} : Goto(s, x)
    BY <1>3, <2>2 DEF Retire
  <2>4. x \in Steps /\ Sound(s, x)
    BY <2>1 DEF Steps, Sound, GuardedJobs
  <2>5. /\ Only(s) /\ call'[s].at = x /\ call'[s].job = call[s].job
        /\ call'[s].key = call[s].key
    BY <2>3, <2>4, GotoLemma DEF Inv
  <2>6. TypeOK' /\ Quiet
    BY <1>1, <2>5, HarmlessLemma DEF Only
  <2> QED
    BY <2>4, <2>5, <2>6, GotoGood, QuietStep
<1>4. CASE RegisterInsert(s) \/ UnlinkCommit(s)
  <2>1. PICK a \in Answers : Reply(s, a)
    BY <1>4 DEF RegisterInsert, UnlinkCommit, Answers
  <2>2. Only(s)
    BY <2>1, ReplyLemma DEF Inv
  <2>3. TypeOK' /\ Quiet
    BY <1>1, <2>2, HarmlessLemma DEF Only
  <2> QED
    BY <1>2, <2>1, <2>3, ReplyGood, QuietStep DEF Inv
<1>5. CASE ConfirmCommit(s) \/ RevokeFrameRow(s)
  <2>1. Only(s) /\ call'[s] = NoCall
    BY <1>5, ReturnLemma DEF ConfirmCommit, RevokeFrameRow, Inv
  <2>2. TypeOK' /\ Quiet
    BY <1>1, <2>1, HarmlessLemma DEF Only
  <2> QED
    BY <2>1, <2>2, ReturnGood, QuietStep
<1>6. CASE RevokeFrameClient(s)
  <2>1. "commit" \in Steps /\ Sound(s, "commit")
    BY <1>6 DEF Steps, Sound, RevokeFrameClient, At
  <2>2. /\ Only(s) /\ call'[s].at = "commit" /\ call'[s].job = call[s].job
        /\ call'[s].key = call[s].key
    BY <1>6, <2>1, GotoLemma DEF Inv, RevokeFrameClient
  <2>3. TypeOK' /\ Quiet
    BY <1>1, <2>2, HarmlessLemma DEF Only
  <2> QED
    BY <2>1, <2>2, <2>3, GotoGood, QuietStep
<1> QED
  BY <1>3, <1>4, <1>5, <1>6

\* Every slot keeps what it holds when the calls do not move.
LEMMA UnmovedLemma ==
  ASSUME call' = call
  PROVE  \A s \in Slot : Keeps(s)
BY DEF Keeps

\* What needs no handler: clocks, the device's files, the owner's revocation.
LEMMA OutsideLemma ==
  ASSUME Inv,
         \/ clearPendingEnrollment \/ PendingExpires \/ expireIfNeeded \/ ClaimExpires
         \/ GraceEnds \/ RevokeClient \/ UNCHANGED vars
  PROVE  Inv'
<1>1. call' = call
  BY DEF clearPendingEnrollment, PendingExpires, expireIfNeeded, ClaimExpires, GraceEnds,
         RevokeClient, vars
<1>2. Free \/ Spend("clicks")
  BY DEF clearPendingEnrollment, PendingExpires, expireIfNeeded, ClaimExpires, GraceEnds,
         RevokeClient, vars, Free
<1>3. plan' \in Plan /\ Less
  BY <1>2, FreeLemma, SpendLess DEF Inv
<1>4. CASE clearPendingEnrollment \/ PendingExpires \/ UNCHANGED vars
  <2>1. UNCHANGED <<cloud, link, strikes, overlap>> /\ pending' \in {"file", "settled", "gone"}
    BY <1>4 DEF clearPendingEnrollment, PendingExpires, vars, device, Inv, TypeOK
  <2>2. TypeOK' /\ Quiet
    BY <1>1, <1>3, <2>1 DEF Inv, TypeOK, Quiet, cloud
  <2> QED
    BY <1>1, <2>2, UnmovedLemma, QuietKeeps
<1>5. CASE expireIfNeeded
  <2>1. UNCHANGED <<cloud, pending, strikes, overlap>> /\ link' = Unlinked
    BY <1>5 DEF expireIfNeeded
  <2>2. TypeOK' /\ Quiet
    BY <1>1, <1>3, <2>1 DEF Inv, TypeOK, Quiet, cloud, Unlinked, Ref
  <2> QED
    BY <1>1, <2>2, UnmovedLemma, QuietKeeps
<1>6. CASE ClaimExpires
  <2>1. /\ UNCHANGED <<request, client, handed, device, overlap>>
        /\ claim' = [claim EXCEPT !.expired = TRUE]
    BY <1>6 DEF ClaimExpires
  <2>2. TypeOK' /\ Quiet
    BY <1>1, <1>3, <2>1 DEF Inv, TypeOK, Quiet, device
  <2> QED
    BY <1>1, <2>2, UnmovedLemma, QuietKeeps
<1>7. CASE GraceEnds \/ RevokeClient
  <2>1. PICK c \in Token : \/ client' = [client EXCEPT ![c].grace = FALSE]
                           \/ client' = [client EXCEPT ![c].revoked = TRUE]
    BY <1>7 DEF GraceEnds, RevokeClient
  <2>2. UNCHANGED <<request, claim, handed, device, overlap>>
    BY <1>7 DEF GraceEnds, RevokeClient
  <2>3. ClientsKept
    BY <2>1, RowLemma DEF Inv
  <2>4. TypeOK' /\ Quiet
    BY <1>1, <1>3, <2>2, <2>3 DEF Inv, TypeOK, ClientsKept, ClientRow, Quiet, device
  <2> QED
    BY <1>1, <2>4, UnmovedLemma, QuietKeeps
<1> QED
  BY <1>4, <1>5, <1>6, <1>7

RequestRow == [status : {"absent", "pending", "approved", "denied", "expired"},
               due : BOOLEAN, redeemed : BOOLEAN, shown : BOOLEAN]

\* A request's clock changes nothing the invariant asks about.
LEMMA RequestDueLemma ==
  ASSUME Inv, RequestDue
  PROVE  Inv'
<1>1. PICK r \in Request : request' = [request EXCEPT ![r].due = TRUE]
  BY DEF RequestDue
<1>2. /\ UNCHANGED <<claim, client, handed, call, device, overlap>>
      /\ plan' \in Plan /\ Less
  BY FreeLemma DEF RequestDue, Inv
<1> DEFINE y == [request[r] EXCEPT !.due = TRUE]
<1>3. request \in [Request -> RequestRow] /\ request[r] \in RequestRow
  BY DEF Inv, TypeOK, RequestRow
<1>4. /\ y \in RequestRow /\ y.status = request[r].status
      /\ y.redeemed = request[r].redeemed /\ y.shown = request[r].shown
  BY <1>3 DEF RequestRow
<1>5. request' = [request EXCEPT ![r] = y]
  BY <1>1, <1>3
<1> HIDE DEF y
<1>6. request' \in [Request -> RequestRow]
  BY <1>3, <1>4, <1>5
<1>7. TypeOK'
  BY <1>2, <1>6 DEF Inv, TypeOK, RequestRow, device
<1>8. Quiet
  BY <1>2, <1>3, <1>4, <1>5 DEF Quiet, device
<1> QED
  BY <1>2, <1>7, <1>8, UnmovedLemma, QuietKeeps

\* A handler that fails answers, or its caller is gone.
LEMMA FailLemma ==
  ASSUME Inv, NEW s \in Slot, HandlerFails(s)
  PROVE  Inv'
<1>1. plan' \in Plan /\ Less
  BY SpendLess DEF HandlerFails, Inv
<1> QED
  BY <1>1, ReplyStep DEF HandlerFails, Answers

\* A caller that gives up, and a restart, leave handlers without a caller.
LEMMA GoneLemma ==
  ASSUME Inv, (\E s \in Slot : GiveUp(s)) \/ DeviceCrash
  PROVE  Inv'
<1>1. plan' \in Plan /\ Less
  BY SpendLess DEF GiveUp, DeviceCrash, Inv
<1>2. UNCHANGED <<cloud, overlap>>
  BY DEF GiveUp, DeviceCrash
<1>3. link' \in {link, Unlinked} /\ pending' \in {"file", "settled", "gone"}
      /\ strikes' \in {0, strikes}
  BY DEF GiveUp, DeviceCrash, Inv, TypeOK
<1>4. \A t \in Slot : call'[t] \in {call[t], NoCall, [call[t] EXCEPT !.for = "nobody"]}
  BY DEF GiveUp, DeviceCrash, Inv, TypeOK
<1>5. DOMAIN call' = Slot /\ call' = [t \in Slot |-> call'[t]]
  BY DEF GiveUp, DeviceCrash, Inv, TypeOK
<1>6. ASSUME NEW t \in Slot
      PROVE  call'[t] \in Call /\ Keeps(t)
  <2>1. call[t] \in Call
    BY DEF Inv, TypeOK
  <2>2. CASE call'[t] = NoCall
    BY <2>2, NoCallLemma DEF Keeps
  <2>3. CASE call'[t] = [call[t] EXCEPT !.for = "nobody"]
    BY <2>1, <2>3 DEF Keeps, Call
  <2> QED
    BY <1>4, <2>1, <2>2, <2>3 DEF Keeps
<1>7. call' \in [Slot -> Call]
  BY <1>5, <1>6
<1>8. TypeOK'
  BY <1>1, <1>2, <1>3, <1>7 DEF Inv, TypeOK, cloud, Unlinked, Ref
<1>9. Quiet
  BY <1>1, <1>2, <1>3 DEF Quiet, cloud, Unlinked
<1> QED
  BY <1>6, <1>8, <1>9, QuietKeeps

-----------------------------------------------------------------------------
(* Writes to requests and tokens.                                          *)

\* What may be written over the row of request r.
Fits(r, y) ==
  /\ y \in RequestRow /\ r > plan'.requests
  /\ y.status \in {"absent", "pending", "denied"} => client[r].cur = 0
  /\ y.status = "approved" => client[r].cur # 0
  /\ y.redeemed => client[r].cur # 0
  /\ request[r].redeemed => y.redeemed

LinkRow == [status : {"disconnected", "connecting", "connected"}, code : Ref,
            token : Ref, frame : Ref]

\* A row of request changes, and the link may take its code.
LEMMA RequestLemma ==
  ASSUME Inv, plan' \in Plan, Less, UNCHANGED <<claim, client, handed, pending, strikes, overlap>>,
         call' \in [Slot -> Call], NEW r \in Request, NEW y, Fits(r, y),
         request' = [request EXCEPT ![r] = y], link' \in LinkRow,
         \/ link' = link
         \/ link'.status = "connecting" => link'.code = r
  PROVE  TypeOK' /\ Rows' /\ \A s \in Slot : RowsBy(s)
<1>1. request \in [Request -> RequestRow] /\ request' \in [Request -> RequestRow]
  BY DEF Inv, TypeOK, RequestRow, Fits
<1>2. TypeOK'
  BY <1>1 DEF Inv, TypeOK, RequestRow, LinkRow
<1>3. /\ plan.requests \in Int /\ plan.attempts \in Int /\ MaxReq \in Int
      /\ plan'.requests \in Int /\ plan'.attempts \in Int
      /\ Request \subseteq Int /\ Attempts \subseteq Int
  BY NumberLemma DEF Inv, Plan, Request, Attempts
<1>4. RequestsOK'
  <2>1. ASSUME link'.status = "connecting"
        PROVE  link'.code \in Request /\ link'.code > plan'.requests
    <3>1. CASE link' = link
      <4>1. link.code \in Request /\ link.code > plan.requests
        BY <2>1, <3>1 DEF Inv, RequestsOK
      <4>2. link.code \in Int
        BY <1>3, <4>1
      <4> QED
        BY <1>3, <3>1, <4>1, <4>2 DEF Less
    <3>2. CASE link'.code = r
      BY <3>2 DEF Fits
    <3> QED
      BY <2>1, <3>1, <3>2
  <2>2. ASSUME NEW q \in Request, q <= plan'.requests
        PROVE  request'[q].status = "absent" /\ ~request'[q].shown
    <3>1. q <= plan.requests /\ q # r
      BY <1>3, <2>2 DEF Fits, Less
    <3>2. request'[q] = request[q]
      BY <1>1, <3>1
    <3> QED
      BY <3>1, <3>2 DEF Inv, RequestsOK
  <2> QED
    BY <2>1, <2>2 DEF RequestsOK
<1>5. ApprovedOK'
  <2> SUFFICES ASSUME NEW q \in Request
               PROVE  /\ request'[q].status \in {"absent", "pending", "denied"} => client[q].cur = 0
                      /\ request'[q].status = "approved" => client[q].cur # 0
                      /\ request'[q].redeemed => client[q].cur # 0
                      /\ handed[q] # 0 => request'[q].redeemed
    BY DEF ApprovedOK
  <2>1. CASE q = r
    BY <1>1, <2>1 DEF Fits, Inv, ApprovedOK
  <2>2. CASE q # r
    BY <1>1, <2>2 DEF Inv, ApprovedOK
  <2> QED
    BY <2>1, <2>2
<1>6. TokensOK'
  <2>1. ASSUME NEW c \in Attempts, c <= MaxReq + plan'.attempts
        PROVE  client'[c].cur = 0
    <3>1. c <= MaxReq + plan.attempts
      BY <2>1, <1>3 DEF Less
    <3> QED
      BY <3>1 DEF Inv, TokensOK
  <2> QED
    BY <2>1 DEF Inv, TokensOK
<1>7. TokenLeavesOnce' /\ BudgetExact'
  BY DEF Inv, TokenLeavesOnce, BudgetExact
<1>8. ASSUME NEW s \in Slot
      PROVE  RowsBy(s)
  <2>1. \A q \in Request : request[q].redeemed => request'[q].redeemed
    BY <1>1 DEF Fits
  <2> QED
    BY <2>1 DEF RowsBy
<1> QED
  BY <1>2, <1>4, <1>5, <1>6, <1>7, <1>8 DEF Rows

\* A step of one handler that keeps the rows in order.
LEMMA RowsStep ==
  ASSUME Inv, TypeOK', Rows', Less, NEW s \in Slot, RowsBy(s), Only(s), New(s), CallGood(call[s])'
  PROVE  Inv'
<1>1. CallsOK'
  BY CallsLemma DEF Inv
<1> QED
  BY <1>1 DEF Inv, Rows

\* Begin and end of the device flow's first call.
LEMMA ConnectLemma ==
  ASSUME Inv, NEW s \in Slot, Connect(s)
  PROVE  Inv'
<1> DEFINE r == plan.requests
           y == [request[r] EXCEPT !.status = "pending"]
<1>1. /\ plan' \in Plan /\ Less /\ r > 0 /\ plan'.requests = r - 1
      /\ UNCHANGED <<claim, client, handed, pending, strikes, overlap, link>>
  BY SpendLemma, SpendLess DEF Connect, Inv, device
<1>2. r \in 1 .. MaxReq
  BY <1>1 DEF Inv, TypeOK, Plan
<1>3. r \in Request /\ r > plan'.requests /\ r \in Ref
  BY <1>1, <1>2, TokenLemma DEF Request
<1>4. request[r] \in RequestRow /\ request[r].status = "absent"
  BY <1>2, <1>3 DEF Inv, TypeOK, RequestRow, RequestsOK
<1>5. Fits(r, y)
  <2>1. y \in RequestRow /\ y.status = "pending" /\ y.redeemed = request[r].redeemed
    BY <1>4 DEF RequestRow
  <2> HIDE DEF y
  <2> QED
    BY <1>3, <1>4, <2>1 DEF Fits, Inv, ApprovedOK
<1>6. request' = [request EXCEPT ![r] = y]
  BY <1>3 DEF Connect, Inv, TypeOK
<1>7. Only(s) /\ New(s) /\ CallGood(call[s])'
  <2>1. Start(s, "connect", "reply", r, "portal")
    BY DEF Connect
  <2> HIDE DEF r
  <2> QED
    BY <2>1, <1>3, StartGood DEF Jobs, Steps, Callers, GuardedJobs
<1> HIDE DEF r, y
<1>8. TypeOK' /\ Rows' /\ RowsBy(s)
  <2>1. link' = link /\ link' \in LinkRow
    BY <1>1 DEF Inv, TypeOK, LinkRow
  <2> QED
    BY <1>1, <1>3, <1>5, <1>6, <1>7, <2>1, RequestLemma DEF Only
<1> QED
  BY <1>1, <1>7, <1>8, RowsStep

\* What a request is known by while a handler holds it.
LEMMA HeldRequest ==
  ASSUME Inv, NEW s \in Slot, call[s].job \in RequestJobs, Free
  PROVE  /\ call[s].key \in Request /\ call[s].key \in Ref
         /\ request \in [Request -> RequestRow] /\ request[call[s].key] \in RequestRow
         /\ plan' \in Plan /\ Less /\ call[s].key > plan'.requests
         /\ request[call[s].key].redeemed => client[call[s].key].cur # 0
<1>1. call[s].key \in Request /\ call[s].key > plan.requests
  BY HeldLemma DEF CallGood
<1>2. request \in [Request -> RequestRow]
  BY DEF Inv, TypeOK, RequestRow
<1>3. plan' \in Plan /\ Less /\ plan' = plan
  BY FreeLemma DEF Inv, Free
<1> QED
  BY <1>1, <1>2, <1>3, TokenLemma DEF Inv, ApprovedOK

\* The device shows the code it was given.
LEMMA ConnectReplyLemma ==
  ASSUME Inv, NEW s \in Slot, ConnectReply(s)
  PROVE  Inv'
<1> DEFINE r == call[s].key
           y == [request[r] EXCEPT !.shown = TRUE]
<1>1. call[s].job \in RequestJobs /\ Free
  BY DEF ConnectReply, At, RequestJobs
<1>2. /\ r \in Request /\ r \in Ref /\ request \in [Request -> RequestRow]
      /\ request[r] \in RequestRow
      /\ plan' \in Plan /\ Less /\ r > plan'.requests
      /\ request[r].redeemed => client[r].cur # 0
  BY <1>1, HeldRequest
<1>3. Fits(r, y)
  <2>1. y \in RequestRow /\ y.status = request[r].status /\ y.redeemed = request[r].redeemed
    BY <1>2 DEF RequestRow
  <2> HIDE DEF y
  <2> QED
    BY <1>2, <2>1 DEF Fits, Inv, ApprovedOK
<1>4. request' = [request EXCEPT ![r] = y]
  BY <1>2 DEF ConnectReply
<1>5. Only(s) /\ call'[s] = NoCall
  BY ReturnLemma DEF ConnectReply, Inv
<1>6. link' \in LinkRow /\ link'.code = r
  <2>1. Unlinked \in LinkRow
    BY DEF Unlinked, LinkRow, Ref
  <2>2. link' = [Unlinked EXCEPT !.status = "connecting", !.code = r]
    BY DEF ConnectReply
  <2> HIDE DEF r
  <2> QED
    BY <1>2, <2>1, <2>2 DEF LinkRow
<1>7. UNCHANGED <<claim, client, handed, pending, strikes, overlap>>
  BY DEF ConnectReply
<1> HIDE DEF r, y
<1>8. TypeOK' /\ Rows' /\ RowsBy(s)
  BY <1>2, <1>3, <1>4, <1>5, <1>6, <1>7, RequestLemma DEF Only
<1> QED
  BY <1>2, <1>5, <1>8, ReturnGood, RowsStep

\* A handler's own write to its request.
LEMMA WriteLemma ==
  ASSUME Inv, NEW s \in Slot, call[s].job \in RequestJobs, Free, NEW y,
         UNCHANGED <<claim, client, handed, device, overlap>>, Fits(call[s].key, y),
         request' = [request EXCEPT ![call[s].key] = y], Only(s),
         TypeOK' => New(s) /\ CallGood(call[s])'
  PROVE  Inv'
<1>1. link' = link /\ link' \in LinkRow /\ UNCHANGED <<pending, strikes>>
  BY DEF device, Inv, TypeOK, LinkRow
<1>2. call[s].key \in Request /\ plan' \in Plan /\ Less
  BY HeldRequest
<1>3. TypeOK' /\ Rows' /\ RowsBy(s)
  BY <1>1, <1>2, RequestLemma DEF Only
<1> QED
  BY <1>2, <1>3, RowsStep

\* A handler that read an overdue request expires it, whatever it is by now.
LEMMA ExpireLemma ==
  ASSUME Inv, NEW s \in Slot, ExpireRequest(s)
  PROVE  Inv'
<1> DEFINE r == call[s].key
           y == [request[r] EXCEPT !.status = "expired"]
<1>1. call[s].job \in RequestJobs /\ Free
  BY HeldLemma DEF ExpireRequest, CallGood
<1>2. /\ r \in Request /\ request \in [Request -> RequestRow] /\ request[r] \in RequestRow
      /\ Less /\ r > plan'.requests /\ (request[r].redeemed => client[r].cur # 0)
  BY <1>1, HeldRequest
<1>3. Fits(r, y)
  <2>1. y \in RequestRow /\ y.status = "expired" /\ y.redeemed = request[r].redeemed
    BY <1>2 DEF RequestRow
  <2> HIDE DEF y
  <2> QED
    BY <1>2, <2>1 DEF Fits
<1>4. request' = [request EXCEPT ![r] = y]
  BY <1>2 DEF ExpireRequest, Expired
<1>5. Only(s) /\ (TypeOK' => New(s) /\ CallGood(call[s])')
  <2>1. Reply(s, "refused") /\ "refused" \in Answers
    BY DEF ExpireRequest, Answers
  <2> QED
    BY <1>2, <2>1, ReplyLemma, ReplyGood DEF Inv
<1> QED
  BY <1>1, <1>3, <1>4, <1>5, WriteLemma DEF ExpireRequest

\* The decision to deny, of a request that is still pending.
LEMMA DenyLemma ==
  ASSUME Inv, NEW s \in Slot, DenyCommit(s)
  PROVE  Inv'
<1> DEFINE r == call[s].key
           y == [request[r] EXCEPT !.status = IF request[r].status = "pending" THEN "denied"
                                              ELSE request[r].status]
<1>1. call[s].job \in RequestJobs /\ Free
  BY DEF DenyCommit, At, RequestJobs
<1>2. /\ r \in Request /\ request \in [Request -> RequestRow] /\ request[r] \in RequestRow
      /\ Less /\ r > plan'.requests /\ (request[r].redeemed => client[r].cur # 0)
  BY <1>1, HeldRequest
<1>3. Fits(r, y)
  <2>1. /\ y \in RequestRow /\ y.redeemed = request[r].redeemed
        /\ y.status = IF request[r].status = "pending" THEN "denied" ELSE request[r].status
    BY <1>2 DEF RequestRow
  <2> HIDE DEF y
  <2> QED
    BY <1>2, <2>1 DEF Fits, Inv, ApprovedOK
<1>4. request' = [request EXCEPT ![r] = y]
  BY <1>2 DEF DenyCommit
<1>5. Only(s) /\ (TypeOK' => New(s) /\ CallGood(call[s])')
  <2>1. Reply(s, "ok") /\ "ok" \in Answers
    BY DEF DenyCommit, Answers
  <2> QED
    BY <1>2, <2>1, ReplyLemma, ReplyGood DEF Inv
<1> QED
  BY <1>1, <1>3, <1>4, <1>5, WriteLemma DEF DenyCommit

\* The redemption of an approved request, once.
LEMMA ClaimLemma ==
  ASSUME Inv, NEW s \in Slot, PollClaim(s)
  PROVE  Inv'
<1> DEFINE r == call[s].key
           y == [request[r] EXCEPT !.redeemed = TRUE]
<1>1. call[s].job = "poll" /\ call[s].at = "claim" /\ call[s].job \in RequestJobs /\ Free
  BY DEF PollClaim, At, RequestJobs
<1>2. /\ r \in Request /\ request \in [Request -> RequestRow] /\ request[r] \in RequestRow
      /\ plan' \in Plan /\ Less /\ r > plan'.requests
  BY <1>1, HeldRequest
<1>3. CASE request[r].redeemed
  <2>1. UNCHANGED <<cloud, device, overlap>>
    BY <1>3 DEF PollClaim, cloud
  <2> QED
    BY <1>2, <1>3, <2>1, ReplyStep DEF PollClaim, Answers
<1>4. CASE ~request[r].redeemed
  <2>1. client[r].cur # 0 /\ handed[r] = 0
    BY <1>1, <1>2, <1>4, HeldLemma DEF CallGood, Inv, ApprovedOK
  <2>2. Fits(r, y)
    <3>1. y \in RequestRow /\ y.redeemed /\ y.status = request[r].status
      BY <1>2 DEF RequestRow
    <3> HIDE DEF y
    <3> QED
      BY <1>2, <2>1, <3>1 DEF Fits, Inv, ApprovedOK
  <2>3. request' = [request EXCEPT ![r] = y]
    BY <1>2, <1>4 DEF PollClaim
  <2>4. /\ Only(s) /\ call'[s].at = "fetch" /\ call'[s].job = "poll" /\ call'[s].key = r
    BY <1>1, <1>4, GotoLemma DEF PollClaim, Inv, Steps
  <2>5. UNCHANGED <<claim, client, handed, device, overlap>>
    BY DEF PollClaim
  <2>6. request'[r].redeemed
    BY <1>2, <2>3
  <2> HIDE DEF r, y
  <2>7. New(s)
    BY <1>4, <2>4 DEF New
  <2>8. CallGood(call[s])'
    BY <1>2, <2>1, <2>4, <2>5, <2>6 DEF CallGood, Redeeming
  <2> QED
    BY <1>1, <2>2, <2>3, <2>4, <2>5, <2>7, <2>8, WriteLemma DEF r
<1> QED
  BY <1>3, <1>4

\* The clients' rows are rows.
LEMMA ClientRows ==
  ASSUME Inv
  PROVE  client \in [Token -> ClientRow]
BY DEF Inv, TypeOK, ClientRow

\* The answer that carries the token drops the copy it was made from.
LEMMA UnsealLemma ==
  ASSUME Inv, NEW s \in Slot, PollUnseal(s)
  PROVE  Inv'
<1> DEFINE r == call[s].key
<1>1. /\ call[s].job = "poll" /\ call[s].at = "unseal" /\ call[s].job \in RequestJobs /\ Free
      /\ UNCHANGED <<request, claim, device, overlap>>
  BY DEF PollUnseal, At, RequestJobs
<1>2. r \in Request /\ r \in Token /\ plan' \in Plan /\ Less
  BY <1>1, HeldRequest, TokenLemma
<1>3. Redeeming(call[s]) /\ request[r].redeemed /\ handed[r] = 0
  BY <1>1, HeldLemma DEF CallGood, Redeeming
<1>4. handed' = [handed EXCEPT ![r] = 1] /\ handed \in [Request -> Nat]
  BY <1>2, <1>3 DEF PollUnseal, Inv, TypeOK
<1> DEFINE y == [client[r] EXCEPT !.sealed = FALSE]
<1>5. client' = [client EXCEPT ![r] = y]
  BY <1>2, ClientRows DEF PollUnseal
<1>6. /\ y \in ClientRow /\ y.cur = client[r].cur /\ ~y.sealed
      /\ y.frame = client[r].frame
  BY <1>2, ClientRows DEF ClientRow
<1>7. Reply(s, "ok") /\ "ok" \in Answers
  BY DEF PollUnseal, Answers
<1> HIDE DEF r, y
<1>8. /\ client' \in [Token -> ClientRow] /\ ~client'[r].sealed
      /\ \A c \in Token : /\ client'[c].cur = client[c].cur
                          /\ client'[c].frame = client[c].frame
                          /\ c # r => client'[c] = client[c]
  BY <1>2, <1>5, <1>6, ClientRows
<1>9. Only(s)
  BY <1>7, ReplyLemma DEF Inv
<1>10. TypeOK'
  BY <1>1, <1>2, <1>4, <1>8, <1>9 DEF Inv, TypeOK, ClientRow, Only, device
<1>11. New(s) /\ CallGood(call[s])'
  BY <1>2, <1>7, <1>10, ReplyGood DEF Inv
<1>12. RowsBy(s)
  BY <1>1, <1>3, <1>4, <1>8, TokenLemma DEF RowsBy, r
<1>13. RequestsOK' /\ TokensOK'
  BY <1>1, <1>8, TokenLemma DEF Inv, RequestsOK, TokensOK, device, Free
<1>14. ApprovedOK'
  BY <1>1, <1>2, <1>3, <1>4, <1>8, TokenLemma DEF Inv, ApprovedOK
<1>15. TokenLeavesOnce'
  <2> SUFFICES ASSUME NEW q \in Request
               PROVE  handed'[q] + (IF client'[q].sealed THEN 1 ELSE 0) <= 1
    BY DEF TokenLeavesOnce
  <2>1. CASE q = r
    BY <2>1, <1>2, <1>4, <1>8
  <2>2. CASE q # r
    BY <2>2, <1>2, <1>4, <1>8, TokenLemma DEF Inv, TokenLeavesOnce
  <2> QED
    BY <2>1, <2>2
<1>16. BudgetExact'
  <2>1. {c \in Attempts : client'[c].cur # 0} = {c \in Attempts : client[c].cur # 0}
    BY <1>8, TokenLemma
  <2> QED
    BY <1>1, <2>1 DEF Inv, BudgetExact
<1> QED
  BY <1>2, <1>9, <1>10, <1>11, <1>12, <1>13, <1>14, <1>15, <1>16, RowsStep DEF Rows

\* The decision to approve makes the client.
LEMMA ApproveLemma ==
  ASSUME Inv, NEW s \in Slot, ApproveCommit(s)
  PROVE  Inv'
<1> DEFINE r == call[s].key
<1>1. /\ call[s].job \in RequestJobs /\ Free /\ UNCHANGED <<claim, handed, device, overlap>>
      /\ Reply(s, "ok") /\ "ok" \in Answers
  BY DEF ApproveCommit, At, RequestJobs, Answers
<1>2. /\ r \in Request /\ r \in Ref /\ request \in [Request -> RequestRow]
      /\ request[r] \in RequestRow /\ plan' \in Plan /\ plan' = plan /\ Less /\ r > plan.requests
  BY <1>1, HeldRequest DEF Free
<1>3. CASE request[r].status # "pending"
  <2>1. UNCHANGED <<cloud, device, overlap>>
    BY <1>1, <1>3 DEF ApproveCommit, cloud
  <2> QED
    BY <1>1, <1>2, <2>1, ReplyStep
<1>4. CASE request[r].status = "pending"
  <2> DEFINE y == [NoClient EXCEPT !.cur = r, !.sealed = TRUE]
             z == [request[r] EXCEPT !.status = "approved"]
  <2>1. client' = [client EXCEPT ![r] = y] /\ request' = [request EXCEPT ![r] = z]
    BY <1>2, <1>4 DEF ApproveCommit
  <2>2. y \in ClientRow /\ y.cur = r /\ y.frame = "none"
    <3>1. NoClient \in ClientRow /\ NoClient.frame = "none"
      BY DEF NoClient, ClientRow, Ref
    <3> HIDE DEF r
    <3> QED
      BY <1>2, <3>1 DEF ClientRow
  <2>3. z \in RequestRow /\ z.status = "approved" /\ z.redeemed = request[r].redeemed
    BY <1>2 DEF RequestRow
  <2>4. client[r].cur = 0 /\ ~request[r].redeemed /\ handed[r] = 0
    BY <1>2, <1>4 DEF Inv, ApprovedOK
  <2>5. r # 0 /\ r \in Token /\ r \notin Attempts
    BY <1>2 DEF Request, Token, Attempts
  <2> HIDE DEF r, y, z
  <2>6. /\ client' \in [Token -> ClientRow] /\ client'[r] = y
        /\ \A c \in Token : c # r => client'[c] = client[c]
        /\ \A c \in Attempts : client'[c] = client[c]
    BY <2>1, <2>2, <2>5, ClientRows, TokenLemma
  <2>7. /\ request' \in [Request -> RequestRow] /\ request'[r] = z
        /\ \A q \in Request : q # r => request'[q] = request[q]
    BY <1>2, <2>1, <2>3
  <2>8. Only(s)
    BY <1>1, ReplyLemma DEF Inv
  <2>9. TypeOK'
    BY <1>1, <1>2, <2>6, <2>7, <2>8 DEF Inv, TypeOK, ClientRow, RequestRow, Only, device
  <2>10. New(s) /\ CallGood(call[s])'
    BY <1>1, <1>2, <2>9, ReplyGood DEF Inv
  <2>11. RowsBy(s)
    BY <1>1, <2>2, <2>3, <2>4, <2>5, <2>6, <2>7 DEF RowsBy
  <2>12. RequestsOK'
    <3>1. link' = link
      BY <1>1 DEF device
    <3>2. \A q \in Request : q <= plan.requests => q # r
      BY <1>2, NumberLemma DEF Inv, Request
    <3> QED
      BY <1>2, <3>1, <3>2, <2>7 DEF Inv, RequestsOK
  <2>13. ApprovedOK'
    <3> SUFFICES ASSUME NEW q \in Request
                 PROVE  /\ request'[q].status \in {"absent", "pending", "denied"} => client'[q].cur = 0
                        /\ request'[q].status = "approved" => client'[q].cur # 0
                        /\ request'[q].redeemed => client'[q].cur # 0
                        /\ handed'[q] # 0 => request'[q].redeemed
      BY DEF ApprovedOK
    <3>1. CASE q = r
      BY <3>1, <1>1, <2>2, <2>3, <2>4, <2>5, <2>6, <2>7
    <3>2. CASE q # r
      BY <3>2, <1>1, <2>6, <2>7, TokenLemma DEF Inv, ApprovedOK
    <3> QED
      BY <3>1, <3>2
  <2>14. TokensOK'
    BY <1>2, <2>2, <2>6 DEF Inv, TokensOK
  <2>15. TokenLeavesOnce'
    <3> SUFFICES ASSUME NEW q \in Request
                 PROVE  handed'[q] + (IF client'[q].sealed THEN 1 ELSE 0) <= 1
      BY DEF TokenLeavesOnce
    <3>1. CASE q = r
      BY <3>1, <1>1, <2>4
    <3>2. CASE q # r
      BY <3>2, <1>1, <2>6, TokenLemma DEF Inv, TokenLeavesOnce
    <3> QED
      BY <3>1, <3>2
  <2>16. BudgetExact'
    <3>1. {c \in Attempts : client'[c].cur # 0} = {c \in Attempts : client[c].cur # 0}
      BY <2>6
    <3> QED
      BY <1>1, <3>1 DEF Inv, BudgetExact
  <2> QED
    BY <1>2, <2>8, <2>9, <2>10, <2>11, <2>12, <2>13, <2>14, <2>15, <2>16, RowsStep DEF Rows
<1> QED
  BY <1>3, <1>4

\* What an enrollment holds.
LEMMA HeldAttempt ==
  ASSUME Inv, NEW s \in Slot, call[s].job = "enroll"
  PROVE  /\ call[s].key \in Attempts /\ call[s].key \in Token /\ call[s].key \in Ref
         /\ call[s].key # 0 /\ call[s].key > MaxReq + plan.attempts /\ call[s].key \notin Request
<1>1. call[s].key \in Attempts /\ call[s].key > MaxReq + plan.attempts
  BY HeldLemma DEF CallGood
<1> QED
  BY <1>1, TokenLemma DEF Attempts, Request

\* The rows of a client that had a token have another one.
LEMMA RotateLemma ==
  ASSUME Inv, NEW s \in Slot, ReplayRotate(s)
  PROVE  Inv'
<1> DEFINE c == call[s].on
           k == call[s].key
           y == [client[c] EXCEPT !.prev = client[c].cur, !.grace = TRUE, !.cur = k]
<1>1. /\ call[s].job = "enroll" /\ call[s].at = "rotate" /\ Free
      /\ UNCHANGED <<request, claim, handed, device, overlap>>
      /\ Reply(s, "ok") /\ "ok" \in Answers
  BY DEF ReplayRotate, At, Answers
<1>2. c \in Token /\ client[c].cur # 0
  BY <1>1, HeldLemma DEF CallGood
<1>3. k \in Ref /\ k # 0
  BY <1>1, HeldAttempt
<1>4. plan' \in Plan /\ Less /\ plan' = plan
  BY <1>1, FreeLemma DEF Inv, Free
<1>5. client[c] \in ClientRow
  BY <1>2, ClientRows
<1>6. client' = [client EXCEPT ![c] = y]
  BY <1>5, ClientRows DEF ReplayRotate, ClientRow
<1> HIDE DEF c, k
<1>7. /\ y \in ClientRow /\ y.cur = k /\ y.sealed = client[c].sealed
      /\ y.frame = client[c].frame
  BY <1>3, <1>5 DEF ClientRow
<1> HIDE DEF y
<1>8. /\ client' \in [Token -> ClientRow]
      /\ \A d \in Token : /\ client'[d].cur # 0 <=> client[d].cur # 0
                          /\ client'[d].sealed = client[d].sealed
                          /\ client'[d].frame = client[d].frame
  BY <1>2, <1>3, <1>6, <1>7, ClientRows
<1>9. Only(s)
  BY <1>1, ReplyLemma DEF Inv
<1>10. TypeOK'
  BY <1>1, <1>4, <1>8, <1>9 DEF Inv, TypeOK, ClientRow, Only, device
<1>11. New(s) /\ CallGood(call[s])'
  BY <1>1, <1>4, <1>10, ReplyGood DEF Inv
<1>12. RowsBy(s)
  BY <1>1, <1>8, TokenLemma DEF RowsBy
<1>13. RequestsOK'
  BY <1>1, <1>4 DEF Inv, RequestsOK, device
<1>14. ApprovedOK'
  BY <1>1, <1>8, TokenLemma DEF Inv, ApprovedOK
<1>15. TokensOK'
  BY <1>4, <1>8, TokenLemma DEF Inv, TokensOK
<1>16. TokenLeavesOnce'
  BY <1>1, <1>8, TokenLemma DEF Inv, TokenLeavesOnce
<1>17. BudgetExact'
  <2>1. {d \in Attempts : client'[d].cur # 0} = {d \in Attempts : client[d].cur # 0}
    BY <1>8, TokenLemma
  <2> QED
    BY <1>1, <2>1 DEF Inv, BudgetExact
<1> QED
  BY <1>4, <1>9, <1>10, <1>11, <1>12, <1>13, <1>14, <1>15, <1>16, <1>17, RowsStep DEF Rows

\* A use of the claim token makes one client and its pending frame.
LEMMA RedeemLemma ==
  ASSUME Inv, NEW s \in Slot, Redeem(s)
  PROVE  Inv'
<1> DEFINE k == call[s].key
           y == [NoClient EXCEPT !.cur = k, !.frame = "pending"]
<1>1. /\ call[s].job = "enroll" /\ call[s].at = "redeem" /\ Free
      /\ UNCHANGED <<request, handed, device, overlap>>
  BY DEF Redeem, At
<1>2. plan' \in Plan /\ Less /\ plan' = plan
  BY <1>1, FreeLemma DEF Inv, Free
<1>3. CASE UNCHANGED <<claim, client>> /\ Reply(s, "refused")
  <2>1. UNCHANGED <<cloud, device, overlap>>
    BY <1>1, <1>3 DEF cloud
  <2> QED
    BY <1>2, <1>3, <2>1, ReplyStep DEF Answers
<1>4. CASE /\ claim.uses < MaxUses /\ claim' = [claim EXCEPT !.uses = @ + 1]
           /\ client' = [client EXCEPT ![k] = y] /\ Reply(s, "ok")
  <2>1. /\ k \in Attempts /\ k \in Token /\ k \in Ref /\ k # 0 /\ k > MaxReq + plan.attempts
        /\ k \notin Request
    BY <1>1, HeldAttempt
  <2>2. client[k].cur = 0
    BY <1>1, HeldLemma DEF CallGood
  <2>3. NoClient \in ClientRow
    BY DEF NoClient, ClientRow, Ref
  <2>4. Only(s) /\ "ok" \in Answers
    BY <1>4, ReplyLemma DEF Inv, Answers
  <2>5. claim' \in [uses : Nat, expired : BOOLEAN] /\ claim'.uses = claim.uses + 1
    BY <1>4 DEF Inv, TypeOK
  <2> HIDE DEF k
  <2>6. y \in ClientRow /\ y.cur = k /\ y.frame = "pending"
    BY <2>1, <2>3 DEF ClientRow
  <2> HIDE DEF y
  <2>7. /\ client' \in [Token -> ClientRow] /\ client'[k] = y
        /\ \A c \in Token : c # k => client'[c] = client[c]
    BY <1>4, <2>1, <2>6, ClientRows
  <2>8. \A r \in Request : r \in Token /\ client'[r] = client[r]
    BY <2>1, <2>7, TokenLemma
  <2>9. TypeOK'
    BY <1>1, <1>2, <2>4, <2>5, <2>7 DEF Inv, TypeOK, ClientRow, Only, device
  <2>10. New(s) /\ CallGood(call[s])'
    BY <1>2, <1>4, <2>4, <2>9, ReplyGood DEF Inv
  <2>11. RowsBy(s)
    BY <1>1, <2>1, <2>2, <2>6, <2>7, TokenLemma DEF RowsBy, k
  <2>12. RequestsOK'
    BY <1>1, <1>2 DEF Inv, RequestsOK, device
  <2>13. ApprovedOK' /\ TokenLeavesOnce'
    BY <1>1, <2>8 DEF Inv, ApprovedOK, TokenLeavesOnce
  <2>14. TokensOK'
    <3>1. \A c \in Attempts : c <= MaxReq + plan.attempts => c # k
      BY <2>1, NumberLemma DEF Inv, Attempts
    <3> QED
      BY <1>2, <2>1, <2>6, <2>7, <3>1, TokenLemma DEF Inv, TokensOK
  <2>15. BudgetExact'
    <3> DEFINE S == {c \in Attempts : client[c].cur # 0}
    <3>1. {c \in Attempts : client'[c].cur # 0} = S \cup {k}
      BY <2>1, <2>6, <2>7, TokenLemma
    <3>2. k \notin S
      BY <2>2
    <3>3. IsFiniteSet(S)
      <4>1. IsFiniteSet(Attempts)
        BY FS_Interval, NumberLemma DEF Inv, Attempts
      <4>2. S \subseteq Attempts
        OBVIOUS
      <4> QED
        BY <4>1, <4>2, FS_Subset
    <3>4. Cardinality(S \cup {k}) = Cardinality(S) + 1
      BY <3>2, <3>3, FS_AddElement
    <3>5. claim.uses \in Nat /\ claim.uses = Cardinality(S)
      BY DEF Inv, TypeOK, BudgetExact
    <3>6. Cardinality({c \in Attempts : client'[c].cur # 0}) = claim'.uses
      BY <2>5, <3>1, <3>4, <3>5
    <3>7. claim'.uses <= MaxUses
      BY <1>4, <2>5, <3>5
    <3> QED
      BY <3>6, <3>7 DEF BudgetExact
  <2> QED
    BY <1>2, <2>4, <2>9, <2>10, <2>11, <2>12, <2>13, <2>14, <2>15, RowsStep DEF Rows
<1> QED
  BY <1>3, <1>4 DEF Redeem

-----------------------------------------------------------------------------
(* The theorems.                                                           *)

\* The invariant holds at the start.
LEMMA InitLemma ==
  ASSUME Init
  PROVE  Inv
<1>1. plan \in Plan
  BY DEF Init
<1>2. TypeOK
  <2>1. 0 \in Ref /\ NoClient \in ClientRow /\ Unlinked \in LinkRow
    BY DEF NoClient, ClientRow, Unlinked, LinkRow, Ref
  <2>2. client \in [Token -> ClientRow] /\ link \in LinkRow /\ call \in [Slot -> Call]
    BY <2>1, NoCallLemma DEF Init
  <2>3. /\ request \in [Request -> RequestRow] /\ claim \in [uses : Nat, expired : BOOLEAN]
        /\ handed \in [Request -> Nat]
    BY DEF Init, RequestRow
  <2>4. pending \in {"file", "settled", "gone"} /\ strikes \in 0 .. FailureLimit - 1
    BY DEF Init
  <2> QED
    BY <1>1, <2>2, <2>3, <2>4 DEF Init, TypeOK, ClientRow, LinkRow, RequestRow
<1>3. CallsOK
  <2>1. \A s \in Slot : call[s].job = "none" /\ call[s].at = ""
    BY NoCallLemma DEF Init
  <2> QED
    BY <2>1 DEF CallsOK, CallGood, Apart, Redeeming, RequestJobs, GuardedJobs
<1>4. \A c \in Token : client[c].cur = 0 /\ client[c].frame = "none" /\ ~client[c].sealed
  BY DEF Init, NoClient
<1>5. RequestsOK /\ ApprovedOK /\ TokensOK /\ TokenLeavesOnce
  BY <1>4, TokenLemma DEF Init, Unlinked, RequestsOK, ApprovedOK, TokensOK, TokenLeavesOnce
<1>6. BudgetExact
  <2>1. {c \in Attempts : client[c].cur # 0} = {}
    BY <1>4, TokenLemma
  <2>2. Cardinality({c \in Attempts : client[c].cur # 0}) = 0
    BY <2>1, FS_EmptySet
  <2>3. claim.uses = 0
    BY DEF Init
  <2> QED
    BY <2>2, <2>3 DEF BudgetExact
<1> QED
  BY <1>2, <1>3, <1>5, <1>6 DEF Inv

\* Every step keeps the invariant.
LEMMA StepLemma ==
  ASSUME Inv, [Next]_vars
  PROVE  Inv'
<1>1. ASSUME NEW s \in Slot, Handler(s)
      PROVE  Inv'
  BY <1>1, ReadLemma, AuthLemma, ReplayFindLemma, ClientLemma, ExpireLemma, DenyLemma, ClaimLemma,
     UnsealLemma, ApproveLemma, RotateLemma, RedeemLemma DEF Handler
<1>2. ASSUME NEW s \in Slot, Caller(s)
      PROVE  Inv'
  BY <1>2, CallerLemma, ConnectReplyLemma DEF Caller
<1>3. ASSUME NEW s \in Slot, Users(s) \/ Thread(s)
      PROVE  Inv'
  BY <1>3, ConnectLemma, BeginLemma, EnrollLemma DEF Users, Thread
<1>4. ASSUME NEW s \in Slot, GiveUp(s) \/ HandlerFails(s)
      PROVE  Inv'
  BY <1>4, GoneLemma, FailLemma
<1>5. CASE clearPendingEnrollment \/ RevokeClient \/ Clocks \/ DeviceCrash \/ UNCHANGED vars
  BY <1>5, OutsideLemma, RequestDueLemma, GoneLemma DEF Clocks
<1> QED
  BY <1>1, <1>2, <1>3, <1>4, <1>5 DEF Next

\* The inductive invariant, from Init and every step: what the handlers of
\* the device flow and of enrollment hold across their statements stays true.
THEOREM InvHolds == Spec => []Inv
<1>1. Init => Inv
  BY InitLemma
<1>2. Inv /\ [Next]_vars => Inv'
  BY StepLemma
<1> QED
  BY <1>1, <1>2, PTL DEF Spec

\* TypeOK, for every number of handlers, requests, tokens, uses and frames.
THEOREM TypeCorrect == Spec => []TypeOK
<1>1. Inv => TypeOK
  BY DEF Inv
<1> QED
  BY <1>1, InvHolds, PTL

\* The link token of an approved request leaves the server at most once, and
\* the copy it was made from is gone when it does, however many polls run at
\* once and whichever of them fail (the redemption claim of poll).
THEOREM TokenLeaves == Spec => []TokenLeavesOnce
<1>1. Inv => TokenLeavesOnce
  BY DEF Inv
<1> QED
  BY <1>1, InvHolds, PTL

\* A client of the device flow has an approval behind it, and every approval a
\* client (authorize's transaction), whatever else the handlers of poll,
\* authorize and request write.
THEOREM CredentialApproved == Spec => []CredentialHasApproval
<1>1. Inv => CredentialHasApproval
  <2> SUFFICES ASSUME Inv, NEW r \in Request
               PROVE  /\ client[r].cur # 0 => request[r].status \in {"approved", "expired"}
                      /\ request[r].status = "approved" => client[r].cur # 0
    BY DEF CredentialHasApproval
  <2>1. request[r].status \in {"absent", "pending", "approved", "denied", "expired"}
    BY DEF Inv, TypeOK
  <2> QED
    BY <2>1 DEF Inv, ApprovedOK
<1> QED
  BY <1>1, InvHolds, PTL

\* A use of the claim token is spent exactly when a client is created with it,
\* and never one too many (redeemClaimToken inside enrollment's transaction).
THEOREM BudgetIsExact == Spec => []BudgetExact
<1>1. Inv => BudgetExact
  BY DEF Inv
<1> QED
  BY <1>1, InvHolds, PTL

\* A decision on a request is never turned into the other one, whatever a
\* handler read before it was made.
THEOREM Decided == Spec => DecisionStands
<1> DEFINE Stands == \A r \in Request :
                       request[r].status \in {"approved", "denied", "expired"} =>
                         request'[r].status \in {request[r].status, "expired"}
<1>1. ASSUME Inv, [Next]_vars
      PROVE  Stands
  <2> SUFFICES ASSUME NEW r \in Request, request[r].status \in {"approved", "denied", "expired"}
               PROVE  request'[r].status \in {request[r].status, "expired"}
    OBVIOUS
  <2>1. request \in [Request -> RequestRow] /\ request[r] \in RequestRow
    <3>1. request \in [Request -> RequestRow]
      BY <1>1 DEF Inv, TypeOK, RequestRow
    <3> QED
      BY <3>1
  <2>2. CASE request' = request
    BY <2>2
  <2>3. CASE \E s \in Slot : Connect(s)
    <3>1. plan.requests \in Request => request[plan.requests].status = "absent"
      <4>1. plan.requests <= plan.requests
        BY <1>1, NumberLemma DEF Inv
      <4> QED
        BY <1>1, <4>1 DEF Inv, RequestsOK
    <3> QED
      BY <2>1, <2>3, <3>1 DEF Connect
  <2>4. CASE \E s \in Slot : ConnectReply(s)
    BY <2>1, <2>4 DEF ConnectReply, RequestRow
  <2>5. CASE \E s \in Slot : ExpireRequest(s)
    BY <2>1, <2>5 DEF ExpireRequest, Expired, RequestRow
  <2>6. CASE \E s \in Slot : PollClaim(s)
    BY <2>1, <2>6 DEF PollClaim, RequestRow
  <2>7. CASE \E s \in Slot : ApproveCommit(s)
    BY <2>1, <2>7 DEF ApproveCommit, RequestRow
  <2>8. CASE \E s \in Slot : DenyCommit(s)
    BY <2>1, <2>8 DEF DenyCommit, RequestRow
  <2>9. CASE RequestDue
    BY <2>1, <2>9 DEF RequestDue, RequestRow
  <2>10. \/ request' = request
         \/ \E s \in Slot : \/ Connect(s) \/ ConnectReply(s) \/ ExpireRequest(s) \/ PollClaim(s)
                            \/ ApproveCommit(s) \/ DenyCommit(s)
         \/ RequestDue
    <3>1. ASSUME NEW s \in Slot, Handler(s)
          PROVE  request' = request \/ ExpireRequest(s) \/ PollClaim(s) \/ ApproveCommit(s) \/ DenyCommit(s)
      BY <3>1 DEF Handler, PollRead, PollFetch, PollUnseal, ApproveRead, ApproveStamp, DenyRead,
         LookupRead, Auth, Retire, RegisterFind, RegisterCount, RegisterInsert, UnlinkCommit,
         ReplayLookup, ReplayFind, ReplayRotate, Redeem, DialFind, ConfirmCommit,
         RevokeFrameClient, RevokeFrameRow, cloud
    <3>2. ASSUME NEW s \in Slot, Caller(s)
          PROVE  request' = request \/ ConnectReply(s)
      BY <3>2 DEF Caller, PollReply, RegisterReply, UnlinkReply, EnrollReply, DialReply, cloud
    <3>3. ASSUME NEW s \in Slot, Users(s) \/ Thread(s) \/ GiveUp(s) \/ HandlerFails(s)
          PROVE  request' = request \/ Connect(s)
      BY <3>3 DEF Users, Thread, Poll, Disconnect, EnrollPortal, EnrollBoot, Enroll, Decide, Confirm,
         RevokeFrame, Dial, GiveUp, HandlerFails, cloud
    <3>4. ASSUME clearPendingEnrollment \/ RevokeClient \/ Clocks \/ DeviceCrash \/ UNCHANGED vars
          PROVE  request' = request \/ RequestDue
      BY <3>4 DEF clearPendingEnrollment, RevokeClient, Clocks, GraceEnds, ClaimExpires,
         expireIfNeeded, PendingExpires, DeviceCrash, vars, cloud
    <3> QED
      BY <1>1, <3>1, <3>2, <3>3, <3>4 DEF Next
  <2> QED
    BY <2>2, <2>3, <2>4, <2>5, <2>6, <2>7, <2>8, <2>9, <2>10
<1> QED
  BY <1>1, InvHolds, PTL DEF Spec, DecisionStands

-----------------------------------------------------------------------------
(* The link's token.  Attempts apart, only an answer makes a token the     *)
(* link's, and the answer is true when it is given: OwnOK says which       *)
(* clients may hold which tokens, AloneOK that a single attempt at a time  *)
(* is the only one to replace one.                                         *)

HasToken(t) == \E c \in Token : client[c].cur = t
Enrolling(s) == call[s].job = "enroll"
Told(s, job) == At(s, job, "reply") /\ call[s].answer = "ok"

\* The client of a request holds the request's token, one of an attempt only
\* tokens of attempts; a rotation is of the latter; a poll's answer is true.
OwnOK ==
  /\ \A r \in Request : client[r].cur \in {0, r}
  /\ \A c \in Attempts : client[c].cur \in {0} \cup Attempts
  /\ \A c \in Token : client[c].frame = "pending" => c \in Attempts
  /\ \A s \in Slot : At(s, "enroll", "rotate") => call[s].on \in Attempts
  /\ \A s \in Slot : Told(s, "poll") => client[call[s].key].cur # 0

\* While attempts do not overlap: there is one at a time, the link's token is not
\* of an attempt then, and the answer and the link's token are somebody's.
AloneOK == ~overlap =>
  /\ \A s, t \in Slot : Enrolling(s) /\ Enrolling(t) => s = t
  /\ \A s \in Slot : Enrolling(s) => link.token <= MaxReq
  /\ \A s \in Slot : Told(s, "enroll") => HasToken(call[s].key)
  /\ link.token # 0 => HasToken(link.token)

LinkOK == OwnOK /\ AloneOK

\* The call of slot s is no new attempt, rotation or answer with a token.
CalmCall(s) ==
  /\ call'[s].job = "enroll" => call[s].job = "enroll"
  /\ call'[s].job = "enroll" /\ call'[s].at = "rotate" =>
       At(s, "enroll", "rotate") /\ call'[s].on = call[s].on
  /\ \A j \in {"poll", "enroll"} :
       (call'[s].job = j /\ call'[s].at = "reply" /\ call'[s].answer = "ok") =>
         Told(s, j) /\ call'[s].key = call[s].key

\* Neither a client nor the link gets a token.
CalmRows ==
  /\ \A c \in Token : /\ client'[c].cur = client[c].cur
                      /\ client'[c].frame = "pending" => client[c].frame = "pending"
  /\ link'.token \in {0, link.token} /\ overlap' = overlap

\* Such a step keeps LinkOK.
LEMMA CalmLemma ==
  ASSUME Inv, LinkOK, CalmRows, \A s \in Slot : CalmCall(s)
  PROVE  LinkOK'
<1>1. \A t : HasToken(t) => HasToken(t)'
  BY DEF HasToken, CalmRows
<1>2. OwnOK'
  <2>1. \A r \in Request : client'[r].cur \in {0, r}
    BY TokenLemma DEF LinkOK, OwnOK, CalmRows
  <2>2. \A c \in Attempts : client'[c].cur \in {0} \cup Attempts
    BY TokenLemma DEF LinkOK, OwnOK, CalmRows
  <2>3. \A c \in Token : client'[c].frame = "pending" => c \in Attempts
    BY DEF LinkOK, OwnOK, CalmRows
  <2>4. \A s \in Slot : At(s, "enroll", "rotate")' => call'[s].on \in Attempts
    BY DEF LinkOK, OwnOK, CalmCall, At
  <2>5. ASSUME NEW s \in Slot, Told(s, "poll")'
        PROVE  client'[call'[s].key].cur # 0
    <3>1. Told(s, "poll") /\ call'[s].key = call[s].key
      BY <2>5 DEF CalmCall, Told, At
    <3>2. call[s].key \in Token
      BY <3>1, HeldLemma, TokenLemma DEF Told, At, RequestJobs
    <3> QED
      BY <3>1, <3>2 DEF LinkOK, OwnOK, CalmRows
  <2> QED
    BY <2>1, <2>2, <2>3, <2>4, <2>5 DEF OwnOK
<1>3. ASSUME ~overlap'
      PROVE  /\ \A s, t \in Slot : Enrolling(s)' /\ Enrolling(t)' => s = t
             /\ \A s \in Slot : Enrolling(s)' => link'.token <= MaxReq
             /\ \A s \in Slot : Told(s, "enroll")' => HasToken(call[s].key)'
             /\ link'.token # 0 => HasToken(link.token)'
  <2>1. ~overlap
    BY <1>3 DEF CalmRows
  <2>2. \A s \in Slot : Enrolling(s)' => Enrolling(s)
    BY DEF CalmCall, Enrolling
  <2>3. \A s, t \in Slot : Enrolling(s)' /\ Enrolling(t)' => s = t
    BY <2>1, <2>2 DEF LinkOK, AloneOK
  <2>4. \A s \in Slot : Enrolling(s)' => link'.token <= MaxReq
    <3>1. 0 <= MaxReq
      OBVIOUS
    <3> QED
      BY <2>1, <2>2, <3>1 DEF LinkOK, AloneOK, CalmRows
  <2>5. \A s \in Slot : Told(s, "enroll")' => HasToken(call[s].key)'
    <3> SUFFICES ASSUME NEW s \in Slot, Told(s, "enroll")'
                 PROVE  HasToken(call[s].key)'
      OBVIOUS
    <3>1. Told(s, "enroll") /\ call'[s].key = call[s].key
      BY DEF CalmCall, Told, At
    <3>2. HasToken(call[s].key)
      BY <2>1, <3>1 DEF LinkOK, AloneOK
    <3> QED
      BY <3>1, <3>2 DEF HasToken, CalmRows
  <2>6. link'.token # 0 => HasToken(link.token)'
    BY <2>1 DEF LinkOK, AloneOK, CalmRows, HasToken
  <2> QED
    BY <2>3, <2>4, <2>5, <2>6
<1> QED
  BY <1>2, <1>3 DEF LinkOK, AloneOK

\* What a handler answers.
LEMMA AnswerLemma ==
  ASSUME TypeOK, NEW s \in Slot, NEW a \in Answers, Reply(s, a)
  PROVE  /\ Only(s)
         /\ \/ call'[s] = NoCall
            \/ /\ call'[s].at = "reply" /\ call'[s].job = call[s].job
               /\ call'[s].key = call[s].key /\ call'[s].answer = a
<1>1. CASE call[s].for = "nobody"
  BY <1>1, ReturnLemma DEF Reply
<1>2. CASE call[s].for # "nobody"
  <2> DEFINE y == [call[s] EXCEPT !.at = "reply", !.answer = a]
  <2>1. call[s] \in Call
    BY DEF TypeOK
  <2>2. y \in Call /\ y.at = "reply" /\ y.job = call[s].job /\ y.key = call[s].key /\ y.answer = a
    BY <2>1 DEF Call, Steps, Answers
  <2>3. call' = [call EXCEPT ![s] = y]
    BY <1>2, <2>1 DEF Reply, TypeOK
  <2> HIDE DEF y
  <2> QED
    BY <2>2, <2>3, PutLemma
<1> QED
  BY <1>1, <1>2

\* A slot that is not touched is calm.
LEMMA StillCalm ==
  ASSUME NEW s \in Slot, call'[s] = call[s]
  PROVE  CalmCall(s)
BY DEF CalmCall, Told, At

\* One call moves: it goes on, ends, answers without a token or is not a new
\* attempt.
LEMMA CallCalm ==
  ASSUME TypeOK, NEW s \in Slot,
         \/ \E x \in Steps \ {"rotate", "reply"} : Goto(s, x)
         \/ \E x \in Steps \ {"rotate", "reply"}, c \in Ref : GotoOn(s, x, c)
         \/ Return(s)
         \/ \E a \in Answers : Reply(s, a) /\ (a = "ok" => call[s].job \notin {"poll", "enroll"})
         \/ \E j \in Jobs \ {"enroll"}, x \in Steps, k \in Ref, w \in Callers :
              Start(s, j, x, k, w) /\ (j = "poll" => x = "read")
  PROVE  \A t \in Slot : CalmCall(t)
<1>1. Only(s) /\ CalmCall(s)
  <2>1. CASE \E x \in Steps \ {"rotate", "reply"} : Goto(s, x)
    BY <2>1, GotoLemma DEF CalmCall
  <2>2. CASE \E x \in Steps \ {"rotate", "reply"}, c \in Ref : GotoOn(s, x, c)
    BY <2>2, GotoOnLemma DEF CalmCall
  <2>3. CASE Return(s)
    BY <2>3, ReturnLemma, NoCallLemma DEF CalmCall
  <2>4. CASE \E a \in Answers : Reply(s, a) /\ (a = "ok" => call[s].job \notin {"poll", "enroll"})
    BY <2>4, AnswerLemma, NoCallLemma DEF CalmCall
  <2>5. CASE \E j \in Jobs \ {"enroll"}, x \in Steps, k \in Ref, w \in Callers :
               Start(s, j, x, k, w) /\ (j = "poll" => x = "read")
    BY <2>5, StartLemma DEF CalmCall
  <2> QED
    BY <2>1, <2>2, <2>3, <2>4, <2>5
<1>2. \A t \in Slot : t # s => CalmCall(t)
  BY <1>1, StillCalm DEF Only
<1> QED
  BY <1>1, <1>2

\* The rows that decide are left alone.
LEMMA SameCalm ==
  ASSUME UNCHANGED <<client, link, overlap>>
  PROVE  CalmRows
BY DEF CalmRows

\* Reads, and writes to requests.
LEMMA ReadsCalm ==
  ASSUME Inv, LinkOK, NEW s \in Slot,
         \/ PollRead(s) \/ ExpireRequest(s) \/ PollClaim(s) \/ PollFetch(s) \/ ApproveRead(s)
         \/ ApproveStamp(s) \/ DenyRead(s) \/ DenyCommit(s) \/ LookupRead(s) \/ Auth(s)
         \/ RegisterFind(s) \/ RegisterCount(s) \/ ReplayLookup(s) \/ DialFind(s)
         \/ HandlerFails(s)
  PROVE  LinkOK'
<1>1. CalmRows
  BY SameCalm DEF PollRead, ExpireRequest, PollClaim, PollFetch, ApproveRead, ApproveStamp,
       DenyRead, DenyCommit, LookupRead, Auth, RegisterFind, RegisterCount, ReplayLookup,
       DialFind, HandlerFails, cloud, device
<1>2. \/ \E x \in {"expire", "claim", "fetch", "unseal", "commit", "count", "insert", "redeem",
                   "find"} : Goto(s, x)
      \/ \E a \in Answers \ {"ok"} : Reply(s, a)
      \/ Reply(s, "ok") /\ call[s].job \notin {"poll", "enroll"}
      \/ \E x \in {"retire", "find", "commit"}, c \in Token : GotoOn(s, x, c)
  <2>1. CASE PollRead(s) \/ ExpireRequest(s) \/ PollClaim(s) \/ PollFetch(s)
    BY <2>1 DEF PollRead, ExpireRequest, PollClaim, PollFetch, Answers
  <2>2. CASE ApproveRead(s) \/ ApproveStamp(s) \/ DenyRead(s) \/ HandlerFails(s)
    BY <2>2 DEF ApproveRead, ApproveStamp, DenyRead, HandlerFails, Answers
  <2>3. CASE DenyCommit(s) \/ LookupRead(s)
    BY <2>3 DEF DenyCommit, LookupRead, Answers, At
  <2>4. CASE RegisterFind(s) \/ RegisterCount(s)
    BY <2>4 DEF RegisterFind, RegisterCount, Answers, At
  <2>5. CASE ReplayLookup(s)
    BY <2>5 DEF ReplayLookup
  <2>6. CASE DialFind(s)
    <3>1. PICK a \in {"ok", "refused"} : Reply(s, a)
      BY <2>6 DEF DialFind
    <3> QED
      BY <2>6, <3>1 DEF DialFind, At, Answers
  <2>7. CASE Auth(s)
    <3>1. call[s].job \in GuardedJobs
      BY <2>7, HeldLemma DEF Auth, CallGood
    <3>2. AfterAuth[call[s].job] \in {"find", "commit"}
      BY <3>1 DEF AfterAuth, GuardedJobs
    <3>3. \/ Reply(s, "refused")
          \/ \E c \in Token : GotoOn(s, IF client[c].cur = call[s].key /\ client[c].prev # 0
                                        THEN "retire" ELSE AfterAuth[call[s].job], c)
      BY <2>7 DEF Auth
    <3> QED
      BY <3>2, <3>3 DEF Answers
  <2> QED
    BY <2>1, <2>2, <2>3, <2>4, <2>5, <2>6, <2>7
<1>3. \A t \in Slot : CalmCall(t)
  <2>1. CASE \E x \in {"expire", "claim", "fetch", "unseal", "commit", "count", "insert", "redeem",
                       "find"} : Goto(s, x)
    <3>1. \E x \in Steps \ {"rotate", "reply"} : Goto(s, x)
      BY <2>1 DEF Steps
    <3> QED
      BY <3>1, CallCalm DEF Inv
  <2>2. CASE (\E a \in Answers \ {"ok"} : Reply(s, a))
             \/ (Reply(s, "ok") /\ call[s].job \notin {"poll", "enroll"})
    <3>1. \E a \in Answers : Reply(s, a) /\ (a = "ok" => call[s].job \notin {"poll", "enroll"})
      BY <2>2 DEF Answers
    <3> QED
      BY <3>1, CallCalm DEF Inv
  <2>3. CASE \E x \in {"retire", "find", "commit"}, c \in Token : GotoOn(s, x, c)
    <3>1. \E x \in Steps \ {"rotate", "reply"}, c \in Ref : GotoOn(s, x, c)
      BY <2>3, TokenLemma DEF Steps
    <3> QED
      BY <3>1, CallCalm DEF Inv
  <2> QED
    BY <1>2, <2>1, <2>2, <2>3
<1> QED
  BY <1>1, <1>3, CalmLemma

\* Writes to clients that give nobody a token.
LEMMA WritesCalm ==
  ASSUME Inv, LinkOK, NEW s \in Slot,
         \/ Retire(s) \/ RegisterInsert(s) \/ UnlinkCommit(s) \/ ConfirmCommit(s)
         \/ RevokeFrameClient(s) \/ RevokeFrameRow(s)
  PROVE  LinkOK'
<1>1. Harmless
  BY WritesHarmless
<1>2. CalmRows
  BY <1>1 DEF Harmless, ClientsKept, CalmRows, device
<1>3. \A t \in Slot : CalmCall(t)
  <2>1. CASE Retire(s)
    <3>1. call[s].job \in GuardedJobs
      BY <2>1, HeldLemma DEF Retire, CallGood
    <3>2. AfterAuth[call[s].job] \in {"find", "commit"}
      BY <3>1 DEF AfterAuth, GuardedJobs
    <3>3. \E x \in Steps \ {"rotate", "reply"} : Goto(s, x)
      BY <2>1, <3>2 DEF Retire, Steps
    <3> QED
      BY <3>3, CallCalm DEF Inv
  <2>2. CASE RegisterInsert(s) \/ UnlinkCommit(s)
    <3>1. \E a \in Answers : Reply(s, a) /\ (a = "ok" => call[s].job \notin {"poll", "enroll"})
      BY <2>2 DEF RegisterInsert, UnlinkCommit, At, Answers
    <3> QED
      BY <3>1, CallCalm DEF Inv
  <2>3. CASE ConfirmCommit(s) \/ RevokeFrameRow(s)
    <3>1. Return(s)
      BY <2>3 DEF ConfirmCommit, RevokeFrameRow
    <3> QED
      BY <3>1, CallCalm DEF Inv
  <2>4. CASE RevokeFrameClient(s)
    <3>1. \E x \in Steps \ {"rotate", "reply"} : Goto(s, x)
      BY <2>4 DEF RevokeFrameClient, Steps
    <3> QED
      BY <3>1, CallCalm DEF Inv
  <2> QED
    BY <2>1, <2>2, <2>3, <2>4
<1> QED
  BY <1>2, <1>3, CalmLemma

\* Calls that begin, but for attempts.
LEMMA BeginsCalm ==
  ASSUME Inv, LinkOK, NEW s \in Slot,
         \/ Connect(s) \/ Poll(s) \/ Disconnect(s) \/ Dial(s)
         \/ \E job \in {"approve", "deny", "lookup"} : Decide(s, job)
         \/ Confirm(s) \/ RevokeFrame(s)
  PROVE  LinkOK'
<1>1. CalmRows
  BY SameCalm DEF Connect, Poll, Disconnect, Dial, Decide, Confirm, RevokeFrame, cloud, device
<1>2. link.token \in Ref /\ link.code \in Ref
  BY DEF Inv, TypeOK
<1>3. \E j \in Jobs \ {"enroll"}, x \in Steps, k \in Ref, w \in Callers :
        Start(s, j, x, k, w) /\ (j = "poll" => x = "read")
  <2>1. CASE Connect(s)
    <3>1. plan.requests \in Ref
      BY DEF Inv, TypeOK, Plan, Ref
    <3>2. /\ "connect" \in Jobs \ {"enroll"} /\ "connect" # "poll" /\ "reply" \in Steps
          /\ "portal" \in Callers
      BY DEF Jobs, Steps, Callers
    <3> QED
      BY <2>1, <3>1, <3>2 DEF Connect
  <2>2. CASE Poll(s)
    <3>1. "poll" \in Jobs \ {"enroll"} /\ "read" \in Steps /\ "portal" \in Callers
      BY DEF Jobs, Steps, Callers
    <3> QED
      BY <2>2, <3>1, <1>2 DEF Poll
  <2>3. CASE Disconnect(s)
    <3>1. /\ "unlink" \in Jobs \ {"enroll"} /\ "unlink" # "poll"
          /\ "auth" \in Steps /\ "reply" \in Steps /\ "portal" \in Callers
      BY DEF Jobs, Steps, Callers
    <3>2. Start(s, "unlink", "auth", link.token, "portal")
            \/ Start(s, "unlink", "reply", link.token, "portal")
      BY <2>3 DEF Disconnect
    <3> QED
      BY <3>1, <3>2, <1>2
  <2>4. CASE Dial(s)
    <3>1. "dial" \in Jobs \ {"enroll"} /\ "dial" # "poll" /\ "auth" \in Steps /\ "thread" \in Callers
      BY DEF Jobs, Steps, Callers
    <3> QED
      BY <2>4, <3>1, <1>2 DEF Dial
  <2>5. CASE \E job \in {"approve", "deny", "lookup"} : Decide(s, job)
    <3>1. PICK job \in {"approve", "deny", "lookup"}, r \in Request :
                 Start(s, job, "read", r, "nobody")
      BY <2>5 DEF Decide
    <3>2. job \in Jobs \ {"enroll"} /\ job # "poll" /\ "read" \in Steps /\ "nobody" \in Callers
      BY DEF Jobs, Steps, Callers
    <3>3. r \in Ref
      BY TokenLemma
    <3> QED
      BY <3>1, <3>2, <3>3
  <2>6. CASE Confirm(s)
    <3>1. PICK c \in Token : Start(s, "confirm", "commit", c, "nobody")
      BY <2>6 DEF Confirm
    <3>2. /\ "confirm" \in Jobs \ {"enroll"} /\ "confirm" # "poll"
          /\ "commit" \in Steps /\ "nobody" \in Callers
      BY DEF Jobs, Steps, Callers
    <3> QED
      BY <3>1, <3>2, TokenLemma
  <2>7. CASE RevokeFrame(s)
    <3>1. PICK c \in Token : Start(s, "revokeFrame", "claim", c, "nobody")
      BY <2>7 DEF RevokeFrame
    <3>2. /\ "revokeFrame" \in Jobs \ {"enroll"} /\ "revokeFrame" # "poll"
          /\ "claim" \in Steps /\ "nobody" \in Callers
      BY DEF Jobs, Steps, Callers
    <3> QED
      BY <3>1, <3>2, TokenLemma
  <2> QED
    BY <2>1, <2>2, <2>3, <2>4, <2>5, <2>6, <2>7
<1>4. \A t \in Slot : CalmCall(t)
  BY <1>3, CallCalm DEF Inv
<1> QED
  BY <1>1, <1>4, CalmLemma

\* Callers whose answer is no token.
LEMMA CallersCalm ==
  ASSUME Inv, LinkOK, NEW s \in Slot,
         ConnectReply(s) \/ RegisterReply(s) \/ UnlinkReply(s) \/ DialReply(s)
  PROVE  LinkOK'
<1>1. client' = client /\ overlap' = overlap /\ Return(s)
  BY DEF ConnectReply, RegisterReply, UnlinkReply, DialReply, cloud
<1>2. link'.token \in {0, link.token}
  <2>1. Unlinked.token = 0
    BY DEF Unlinked
  <2>2. CASE ConnectReply(s)
    BY <2>2 DEF ConnectReply, Unlinked
  <2>3. CASE RegisterReply(s)
    BY <2>3 DEF RegisterReply, Inv, TypeOK
  <2>4. CASE UnlinkReply(s) \/ DialReply(s)
    BY <2>1, <2>4 DEF UnlinkReply, DialReply
  <2> QED
    BY <2>2, <2>3, <2>4
<1>3. CalmRows
  BY <1>1, <1>2 DEF CalmRows
<1>4. \A t \in Slot : CalmCall(t)
  BY <1>1, CallCalm DEF Inv
<1> QED
  BY <1>3, <1>4, CalmLemma

\* Callers that give up, restarts, clocks and the owner.
LEMMA OutsideCalm ==
  ASSUME Inv, LinkOK,
         \/ \E s \in Slot : GiveUp(s)
         \/ DeviceCrash \/ clearPendingEnrollment \/ RevokeClient \/ Clocks \/ UNCHANGED vars
  PROVE  LinkOK'
<1>1. link'.token \in {0, link.token} /\ overlap' = overlap
  <2>1. Unlinked.token = 0
    BY DEF Unlinked
  <2> QED
    BY <2>1 DEF GiveUp, DeviceCrash, clearPendingEnrollment, RevokeClient, Clocks, RequestDue,
         GraceEnds, ClaimExpires, expireIfNeeded, PendingExpires, vars, device
<1>2. \A c \in Token : /\ client'[c].cur = client[c].cur
                       /\ client'[c].frame = "pending" => client[c].frame = "pending"
  <2>1. CASE GraceEnds \/ RevokeClient
    <3>1. PICK c \in Token : \/ client' = [client EXCEPT ![c].grace = FALSE]
                             \/ client' = [client EXCEPT ![c].revoked = TRUE]
      BY <2>1 DEF GraceEnds, RevokeClient
    <3> QED
      BY <3>1, RowLemma DEF Inv, ClientsKept
  <2>2. CASE client' = client
    BY <2>2
  <2> QED
    BY <2>1, <2>2 DEF GiveUp, DeviceCrash, clearPendingEnrollment, Clocks, RequestDue,
         ClaimExpires, expireIfNeeded, PendingExpires, vars, cloud
<1>3. \A t \in Slot : call'[t] \in {call[t], NoCall, [call[t] EXCEPT !.for = "nobody"]}
  <2>1. CASE (\E s \in Slot : GiveUp(s)) \/ DeviceCrash
    BY <2>1 DEF GiveUp, DeviceCrash, Inv, TypeOK
  <2>2. CASE call' = call
    BY <2>2
  <2> QED
    BY <2>1, <2>2 DEF clearPendingEnrollment, RevokeClient, Clocks, RequestDue, GraceEnds,
         ClaimExpires, expireIfNeeded, PendingExpires, vars
<1>4. \A t \in Slot : CalmCall(t)
  <2> SUFFICES ASSUME NEW t \in Slot PROVE CalmCall(t)
    OBVIOUS
  <2>1. call[t] \in Call
    BY DEF Inv, TypeOK
  <2>2. CASE call'[t] = NoCall
    BY <2>2, NoCallLemma DEF CalmCall
  <2>3. CASE call'[t] = [call[t] EXCEPT !.for = "nobody"]
    <3>1. /\ call'[t].job = call[t].job /\ call'[t].at = call[t].at
          /\ call'[t].key = call[t].key /\ call'[t].on = call[t].on
          /\ call'[t].answer = call[t].answer
      BY <2>1, <2>3 DEF Call
    <3> QED
      BY <3>1 DEF CalmCall, Told, At
  <2>4. CASE call'[t] = call[t]
    BY <2>4, StillCalm
  <2> QED
    BY <1>3, <2>2, <2>3, <2>4
<1>5. CalmRows
  BY <1>1, <1>2 DEF CalmRows
<1> QED
  BY <1>4, <1>5, CalmLemma

\* One call moves, and no client loses its token: what OwnOK asks of the calls.
LEMMA OwnStep ==
  ASSUME Inv, LinkOK, NEW s \in Slot, Only(s),
         \A c \in Token : client[c].cur # 0 => client'[c].cur # 0,
         \A r \in Request : client'[r].cur \in {0, r},
         \A c \in Attempts : client'[c].cur \in {0} \cup Attempts,
         \A c \in Token : client'[c].frame = "pending" => c \in Attempts,
         At(s, "enroll", "rotate")' => call'[s].on \in Attempts,
         Told(s, "poll")' => client'[call'[s].key].cur # 0
  PROVE  OwnOK'
<1>1. \A t \in Slot : At(t, "enroll", "rotate")' => call'[t].on \in Attempts
  BY DEF LinkOK, OwnOK, At, Only
<1>2. ASSUME NEW t \in Slot, Told(t, "poll")'
      PROVE  client'[call'[t].key].cur # 0
  <2>1. CASE t = s
    BY <2>1, <1>2
  <2>2. CASE t # s
    <3>1. Told(t, "poll") /\ call'[t] = call[t]
      BY <1>2, <2>2 DEF Told, At, Only
    <3>2. call[t].key \in Token
      BY <3>1, HeldLemma, TokenLemma DEF Told, At, RequestJobs
    <3> QED
      BY <3>1, <3>2 DEF LinkOK, OwnOK
  <2> QED
    BY <2>1, <2>2
<1> QED
  BY <1>1, <1>2 DEF OwnOK

\* One call moves, and the tokens that count are still somebody's: all of them,
\* or, when the call is that of the one attempt, those of requests.
LEMMA AloneStep ==
  ASSUME Inv, LinkOK, NEW s \in Slot, Only(s), UNCHANGED <<link, overlap>>,
         Enrolling(s)' => Enrolling(s),
         \/ \A t \in Token : HasToken(t) => HasToken(t)'
         \/ Enrolling(s) /\ \A t \in Request : HasToken(t) => HasToken(t)',
         Told(s, "enroll")' => HasToken(call[s].key)'
  PROVE  AloneOK'
<1> SUFFICES ASSUME ~overlap
             PROVE  /\ \A t, u \in Slot : Enrolling(t)' /\ Enrolling(u)' => t = u
                    /\ \A t \in Slot : Enrolling(t)' => link.token <= MaxReq
                    /\ \A t \in Slot : Told(t, "enroll")' => HasToken(call[t].key)'
                    /\ link.token # 0 => HasToken(link.token)'
  BY DEF AloneOK
<1>1. \A t \in Slot : Enrolling(t)' => Enrolling(t)
  BY DEF Enrolling, Only
<1>2. \A t, u \in Slot : Enrolling(t)' /\ Enrolling(u)' => t = u
  BY <1>1 DEF LinkOK, AloneOK
<1>3. \A t \in Slot : Enrolling(t)' => link.token <= MaxReq
  BY <1>1 DEF LinkOK, AloneOK
<1>4. ASSUME NEW t \in Slot, Told(t, "enroll")'
      PROVE  HasToken(call[t].key)'
  <2>1. CASE t = s
    BY <2>1, <1>4
  <2>2. CASE t # s
    <3>1. Told(t, "enroll") /\ call'[t] = call[t] /\ Enrolling(t)
      BY <1>4, <2>2 DEF Told, At, Only, Enrolling
    <3>2. HasToken(call[t].key) /\ call[t].key \in Token
      BY <3>1, HeldAttempt DEF LinkOK, AloneOK, Enrolling
    <3>3. ~Enrolling(s)
      BY <2>2, <3>1 DEF LinkOK, AloneOK
    <3>4. \E c \in Token : client'[c].cur = call[t].key
      BY <3>2, <3>3 DEF HasToken
    <3> QED
      BY <3>1, <3>4 DEF HasToken
  <2> QED
    BY <2>1, <2>2
<1>5. ASSUME link.token # 0
      PROVE  HasToken(link.token)'
  <2>1. HasToken(link.token) /\ link.token \in Token
    <3>1. link.token \in Ref
      BY DEF Inv, TypeOK
    <3> QED
      BY <1>5, <3>1 DEF LinkOK, AloneOK, Ref, Token
  <2>2. CASE \A t \in Token : HasToken(t) => HasToken(t)'
    BY <2>1, <2>2 DEF HasToken
  <2>3. CASE Enrolling(s) /\ \A t \in Request : HasToken(t) => HasToken(t)'
    <3>1. link.token <= MaxReq
      BY <2>3 DEF LinkOK, AloneOK
    <3>2. link.token \in Request
      BY <2>1, <3>1 DEF Token, Request
    <3> QED
      BY <2>1, <2>3, <3>2 DEF HasToken
  <2> QED
    BY <2>2, <2>3
<1> QED
  BY <1>2, <1>3, <1>4, <1>5

\* The poll that sends the token of a request has found its client.
LEMMA UnsealToken ==
  ASSUME Inv, LinkOK, NEW s \in Slot, PollUnseal(s)
  PROVE  LinkOK'
<1> DEFINE r == call[s].key
<1>1. /\ call[s].job = "poll" /\ call[s].at = "unseal" /\ UNCHANGED <<link, overlap>>
      /\ client' = [client EXCEPT ![r].sealed = FALSE] /\ Reply(s, "ok") /\ "ok" \in Answers
  BY DEF PollUnseal, At, device, Answers
<1>2. \A c \in Token : client'[c].cur = client[c].cur /\ client'[c].frame = client[c].frame
  <2>1. client \in [Token -> ClientRow]
    BY ClientRows
  <2> HIDE DEF r
  <2>2. \A c \in Token : client'[c] = client[c] \/ client'[c] = [client[c] EXCEPT !.sealed = FALSE]
    BY <1>1, <2>1
  <2> SUFFICES ASSUME NEW c \in Token
               PROVE  client'[c].cur = client[c].cur /\ client'[c].frame = client[c].frame
    OBVIOUS
  <2>3. client[c] \in ClientRow
    BY <2>1
  <2> QED
    BY <2>2, <2>3 DEF ClientRow
<1>3. /\ Only(s)
      /\ call'[s] = NoCall \/ (call'[s].at = "reply" /\ call'[s].job = "poll" /\ call'[s].key = r)
  BY <1>1, AnswerLemma DEF Inv
<1>4. client[r].cur # 0 /\ r \in Token
  BY <1>1, HeldLemma, TokenLemma DEF CallGood, Redeeming, RequestJobs
<1>5. OwnOK'
  <2>1. Told(s, "poll")' => client'[call'[s].key].cur # 0
    BY <1>2, <1>3, <1>4, NoCallLemma DEF Told, At
  <2>2. ~At(s, "enroll", "rotate")'
    BY <1>3, NoCallLemma DEF At
  <2>3. /\ \A q \in Request : client'[q].cur \in {0, q}
        /\ \A c \in Attempts : client'[c].cur \in {0} \cup Attempts
        /\ \A c \in Token : client'[c].frame = "pending" => c \in Attempts
    BY <1>2, TokenLemma DEF LinkOK, OwnOK
  <2> QED
    BY <1>2, <1>3, <2>1, <2>2, <2>3, OwnStep
<1>6. AloneOK'
  <2>1. \A t \in Token : HasToken(t) => HasToken(t)'
    BY <1>2 DEF HasToken
  <2>2. ~Enrolling(s)' /\ ~Told(s, "enroll")'
    BY <1>3, NoCallLemma DEF Enrolling, Told, At
  <2> QED
    BY <1>1, <1>3, <2>1, <2>2, AloneStep
<1> QED
  BY <1>5, <1>6 DEF LinkOK

\* An approval makes a client where there was none.
LEMMA ApproveToken ==
  ASSUME Inv, LinkOK, NEW s \in Slot, ApproveCommit(s)
  PROVE  LinkOK'
<1> DEFINE r == call[s].key
           y == [NoClient EXCEPT !.cur = r, !.sealed = TRUE]
<1>1. /\ call[s].job = "approve" /\ UNCHANGED <<link, overlap>> /\ Reply(s, "ok") /\ "ok" \in Answers
  BY DEF ApproveCommit, At, device, Answers
<1>2. /\ Only(s)
      /\ call'[s] = NoCall \/ (call'[s].at = "reply" /\ call'[s].job = "approve")
  BY <1>1, AnswerLemma DEF Inv
<1>3. r \in Request /\ r \in Token /\ r \notin Attempts /\ r # 0
  <2>1. r \in Request
    BY <1>1, HeldLemma DEF RequestJobs
  <2> HIDE DEF r
  <2> QED
    BY <2>1, TokenLemma DEF Request, Attempts
<1>4. client \in [Token -> ClientRow]
  BY ClientRows
<1>5. \/ client' = client
      \/ client[r].cur = 0 /\ client' = [client EXCEPT ![r] = y]
  BY <1>3 DEF ApproveCommit, Inv, ApprovedOK
<1>6. y.cur = r /\ y.frame = "none"
  BY DEF NoClient
<1> HIDE DEF r, y
<1>7. /\ \A c \in Token : client'[c] = client[c] \/ (c = r /\ client[c].cur = 0 /\ client'[c] = y)
  BY <1>4, <1>5
<1>8. OwnOK'
  <2>1. \A c \in Token : client[c].cur # 0 => client'[c].cur # 0
    BY <1>7
  <2>2. \A q \in Request : client'[q].cur \in {0, q}
    BY <1>6, <1>7, TokenLemma DEF LinkOK, OwnOK
  <2>3. \A c \in Attempts : client'[c].cur \in {0} \cup Attempts
    BY <1>3, <1>7, TokenLemma DEF LinkOK, OwnOK
  <2>4. \A c \in Token : client'[c].frame = "pending" => c \in Attempts
    BY <1>6, <1>7 DEF LinkOK, OwnOK
  <2>5. ~At(s, "enroll", "rotate")' /\ ~Told(s, "poll")'
    BY <1>2, NoCallLemma DEF At, Told
  <2> QED
    BY <1>2, <2>1, <2>2, <2>3, <2>4, <2>5, OwnStep
<1>9. AloneOK'
  <2>1. \A t \in Token : HasToken(t) => HasToken(t)'
    <3>1. \A t \in Token : t # 0
      BY DEF Token
    <3> QED
      BY <1>7, <3>1 DEF HasToken
  <2>2. ~Enrolling(s)' /\ ~Told(s, "enroll")'
    BY <1>2, NoCallLemma DEF Enrolling, Told, At
  <2> QED
    BY <1>1, <1>2, <2>1, <2>2, AloneStep
<1> QED
  BY <1>8, <1>9 DEF LinkOK

\* The frame that an attempt repeats is of an attempt.
LEMMA FindToken ==
  ASSUME Inv, LinkOK, NEW s \in Slot, ReplayFind(s)
  PROVE  LinkOK'
<1>1. call[s].job = "enroll" /\ UNCHANGED <<client, link, overlap>>
  BY DEF ReplayFind, At, cloud, device
<1>2. CASE Goto(s, "redeem")
  <2>1. \A t \in Slot : CalmCall(t)
    BY <1>2, CallCalm DEF Inv, Steps
  <2> QED
    BY <1>1, <2>1, SameCalm, CalmLemma
<1>3. CASE \E c \in Token : PendingFrame(c) /\ GotoOn(s, "rotate", c)
  <2>1. PICK c \in Token : PendingFrame(c) /\ GotoOn(s, "rotate", c)
    BY <1>3
  <2>2. c \in Attempts /\ c \in Ref
    BY <2>1, TokenLemma DEF PendingFrame, LinkOK, OwnOK
  <2>3. Only(s) /\ call'[s].at = "rotate" /\ call'[s].job = "enroll" /\ call'[s].on = c
    BY <1>1, <2>1, <2>2, GotoOnLemma DEF Inv, Steps
  <2>4. OwnOK'
    <3>1. ~Told(s, "poll")'
      BY <2>3 DEF Told, At
    <3>2. /\ \A r \in Request : client'[r].cur \in {0, r}
          /\ \A d \in Attempts : client'[d].cur \in {0} \cup Attempts
          /\ \A d \in Token : client'[d].frame = "pending" => d \in Attempts
      BY <1>1 DEF LinkOK, OwnOK
    <3> QED
      BY <1>1, <2>2, <2>3, <3>1, <3>2, OwnStep
  <2>5. AloneOK'
    <3>1. Enrolling(s) /\ ~Told(s, "enroll")'
      BY <1>1, <2>3 DEF Enrolling, Told, At
    <3>2. \A t \in Token : HasToken(t) => HasToken(t)'
      BY <1>1 DEF HasToken
    <3> QED
      BY <1>1, <2>3, <3>1, <3>2, AloneStep
  <2> QED
    BY <2>4, <2>5 DEF LinkOK
<1> QED
  BY <1>2, <1>3 DEF ReplayFind

\* An attempt gives client c, which is of an attempt, its own token.
LEMMA GrantToken ==
  ASSUME Inv, LinkOK, NEW s \in Slot, call[s].job = "enroll", Reply(s, "ok"),
         UNCHANGED <<link, overlap>>, NEW c \in Attempts, NEW y \in ClientRow,
         y.cur = call[s].key, client' = [client EXCEPT ![c] = y]
  PROVE  LinkOK'
<1> DEFINE k == call[s].key
<1>1. k \in Attempts /\ k # 0 /\ c \in Token /\ c \notin Request
  BY HeldAttempt, TokenLemma DEF Attempts, Request
<1>2. /\ Only(s)
      /\ \/ call'[s] = NoCall
         \/ call'[s].at = "reply" /\ call'[s].job = "enroll" /\ call'[s].key = k
  BY AnswerLemma DEF Inv, Answers
<1>3. /\ client'[c].cur = k
      /\ \A d \in Token : d # c => client'[d] = client[d]
  BY <1>1, ClientRows
<1> HIDE DEF k
<1>4. OwnOK'
  <2>1. \A d \in Token : client[d].cur # 0 => client'[d].cur # 0
    BY <1>1, <1>3
  <2>2. \A r \in Request : client'[r].cur \in {0, r}
    BY <1>1, <1>3, TokenLemma DEF LinkOK, OwnOK
  <2>3. \A d \in Attempts : client'[d].cur \in {0} \cup Attempts
    BY <1>1, <1>3, TokenLemma DEF LinkOK, OwnOK
  <2>4. \A d \in Token : client'[d].frame = "pending" => d \in Attempts
    BY <1>3 DEF LinkOK, OwnOK
  <2>5. ~At(s, "enroll", "rotate")' /\ ~Told(s, "poll")'
    BY <1>2, NoCallLemma DEF At, Told
  <2> QED
    BY <1>2, <2>1, <2>2, <2>3, <2>4, <2>5, OwnStep
<1>5. AloneOK'
  <2>1. Enrolling(s)
    BY DEF Enrolling
  <2>2. \A t \in Request : HasToken(t) => HasToken(t)'
    <3> SUFFICES ASSUME NEW t \in Request, NEW d \in Token, client[d].cur = t
                 PROVE  \E e \in Token : client'[e].cur = t
      BY DEF HasToken
    <3>1. t # 0 /\ t \notin Attempts
      BY DEF Request, Attempts
    <3>2. d # c
      BY <3>1 DEF LinkOK, OwnOK
    <3> QED
      BY <1>3, <3>2
  <2>3. Told(s, "enroll")' => HasToken(call[s].key)'
    <3>1. Told(s, "enroll")' => call'[s].key = k
      BY <1>2, NoCallLemma DEF Told, At
    <3>2. \E d \in Token : client'[d].cur = k
      BY <1>1, <1>3
    <3> QED
      BY <3>1, <3>2 DEF HasToken
  <2> QED
    BY <1>2, <2>1, <2>2, <2>3, AloneStep
<1> QED
  BY <1>4, <1>5 DEF LinkOK

\* A repeated enrollment, and one that is redeemed.
LEMMA EnrollToken ==
  ASSUME Inv, LinkOK, NEW s \in Slot, ReplayRotate(s) \/ Redeem(s)
  PROVE  LinkOK'
<1>1. call[s].job = "enroll" /\ UNCHANGED <<link, overlap>>
  BY DEF ReplayRotate, Redeem, At, device
<1>2. client \in [Token -> ClientRow] /\ call[s].key \in Ref /\ call[s].key \in Attempts
  BY <1>1, ClientRows, HeldAttempt
<1>3. CASE ReplayRotate(s)
  <2> DEFINE c == call[s].on
             y == [client[c] EXCEPT !.prev = client[c].cur, !.grace = TRUE, !.cur = call[s].key]
  <2>1. c \in Attempts /\ c \in Token
    BY <1>3, TokenLemma DEF ReplayRotate, LinkOK, OwnOK
  <2>2. client[c] \in ClientRow
    BY <1>2, <2>1
  <2>3. y \in ClientRow /\ y.cur = call[s].key
    BY <1>2, <2>2 DEF ClientRow
  <2>4. client' = [client EXCEPT ![c] = y]
    BY <1>2, <1>3, <2>2 DEF ReplayRotate, ClientRow
  <2>5. Reply(s, "ok")
    BY <1>3 DEF ReplayRotate
  <2> HIDE DEF y, c
  <2> QED
    BY <1>1, <2>1, <2>3, <2>4, <2>5, GrantToken
<1>4. CASE Redeem(s) /\ UNCHANGED client /\ Reply(s, "refused")
  <2>1. \A t \in Slot : CalmCall(t)
    BY <1>4, CallCalm DEF Inv, Answers
  <2> QED
    BY <1>1, <1>4, <2>1, SameCalm, CalmLemma
<1>5. CASE Redeem(s) /\ ~(UNCHANGED client /\ Reply(s, "refused"))
  <2> DEFINE y == [NoClient EXCEPT !.cur = call[s].key, !.frame = "pending"]
  <2>1. Reply(s, "ok") /\ client' = [client EXCEPT ![call[s].key] = y]
    BY <1>5 DEF Redeem
  <2>2. y \in ClientRow /\ y.cur = call[s].key
    <3>1. NoClient \in ClientRow
      BY DEF NoClient, ClientRow, Ref
    <3> QED
      BY <1>2, <3>1 DEF ClientRow
  <2> HIDE DEF y
  <2> QED
    BY <1>1, <1>2, <2>1, <2>2, GrantToken
<1> QED
  BY <1>3, <1>4, <1>5

\* A new attempt is the only one, or overlaps.
LEMMA BeginToken ==
  ASSUME Inv, LinkOK, NEW s \in Slot, EnrollBoot(s) \/ EnrollPortal(s)
  PROVE  LinkOK'
<1>1. PICK w \in Callers : Enroll(s, w)
  BY DEF EnrollBoot, EnrollPortal, Callers
<1>2. UNCHANGED <<client, link>> /\ overlap' = (overlap \/ Beside)
  BY <1>1 DEF Enroll, cloud, device
<1>3. Only(s) /\ call'[s].at = "read"
  <2> DEFINE k == MaxReq + plan.attempts
  <2>1. plan.attempts \in 0 .. MaxAttempt
    BY DEF Inv, TypeOK, Plan
  <2>2. k \in Ref
    BY <2>1 DEF Ref
  <2> HIDE DEF k
  <2>3. Start(s, "enroll", "read", k, w)
    BY <1>1 DEF Enroll, k
  <2>4. "enroll" \in Jobs /\ "read" \in Steps
    BY DEF Jobs, Steps
  <2>5. TypeOK
    BY DEF Inv
  <2> QED
    BY <2>2, <2>3, <2>4, <2>5, StartLemma
<1>4. OwnOK'
  <2>1. ~At(s, "enroll", "rotate")' /\ ~Told(s, "poll")'
    BY <1>3 DEF At, Told
  <2>2. /\ \A r \in Request : client'[r].cur \in {0, r}
        /\ \A c \in Attempts : client'[c].cur \in {0} \cup Attempts
        /\ \A c \in Token : client'[c].frame = "pending" => c \in Attempts
    BY <1>2 DEF LinkOK, OwnOK
  <2> QED
    BY <1>2, <1>3, <2>1, <2>2, OwnStep
<1>5. AloneOK'
  <2> SUFFICES ASSUME ~overlap'
               PROVE  /\ \A t, u \in Slot : Enrolling(t)' /\ Enrolling(u)' => t = u
                      /\ \A t \in Slot : Enrolling(t)' => link'.token <= MaxReq
                      /\ \A t \in Slot : Told(t, "enroll")' => HasToken(call[t].key)'
                      /\ link'.token # 0 => HasToken(link.token)'
    BY DEF AloneOK
  <2>1. ~overlap /\ ~(link.token > MaxReq) /\ \A t \in Slot : ~Enrolling(t)
    BY <1>2 DEF Beside, Enrolling
  <2>2. \A t \in Slot : Enrolling(t)' => t = s
    BY <1>3, <2>1 DEF Only, Enrolling
  <2>3. link'.token <= MaxReq
    <3>1. link.token \in Int
      BY NumberLemma DEF Inv, TypeOK, Ref
    <3> QED
      BY <1>2, <2>1, <3>1
  <2>4. \A t \in Slot : ~Told(t, "enroll")'
    BY <1>3, <2>2 DEF Told, At, Enrolling
  <2>5. link'.token # 0 => HasToken(link.token)'
    BY <1>2, <2>1 DEF LinkOK, AloneOK, HasToken
  <2> QED
    BY <2>2, <2>3, <2>4, <2>5
<1> QED
  BY <1>4, <1>5 DEF LinkOK

\* The device takes the token of an answer, which is its client's.
LEMMA TakeToken ==
  ASSUME Inv, LinkOK, NEW s \in Slot, PollReply(s) \/ EnrollReply(s)
  PROVE  LinkOK'
<1>1. UNCHANGED <<client, overlap>>
  BY DEF PollReply, EnrollReply, cloud
<1>2. CASE link'.token \in {0, link.token} /\ Return(s)
  <2>1. CalmRows
    BY <1>1, <1>2 DEF CalmRows
  <2>2. \A t \in Slot : CalmCall(t)
    BY <1>2, CallCalm DEF Inv
  <2> QED
    BY <2>1, <2>2, CalmLemma
<1>3. CASE PollReply(s) /\ ~(link'.token \in {0, link.token} /\ Return(s))
  <2>1. /\ Told(s, "poll") /\ link'.token = call[s].key
        /\ call' = [call EXCEPT ![s].job = "register", ![s].at = "auth", ![s].answer = ""]
    <3> DEFINE x == [Unlinked EXCEPT !.status = "connected", !.token = call[s].key]
    <3>1. x.token = call[s].key /\ Unlinked.token = 0
      BY DEF Unlinked
    <3> HIDE DEF x
    <3>2. \/ /\ call[s].answer = "ok" /\ link' = x
             /\ call' = [call EXCEPT ![s].job = "register", ![s].at = "auth", ![s].answer = ""]
          \/ link' \in {Unlinked, link} /\ Return(s)
      BY <1>3 DEF PollReply, x
    <3>3. ~(link' \in {Unlinked, link} /\ Return(s))
      BY <1>3, <3>1
    <3>4. At(s, "poll", "reply")
      BY <1>3 DEF PollReply
    <3> QED
      BY <3>1, <3>2, <3>3, <3>4 DEF Told
  <2>2. call[s].key \in Request /\ call[s].key \in Token
    BY <2>1, HeldLemma, TokenLemma DEF Told, At, RequestJobs
  <2>3. client[call[s].key].cur = call[s].key
    BY <2>1, <2>2 DEF LinkOK, OwnOK
  <2>4. Only(s) /\ call'[s].job = "register" /\ call'[s].at = "auth"
    <3> DEFINE y == [call[s] EXCEPT !.job = "register", !.at = "auth", !.answer = ""]
    <3>1. call \in [Slot -> Call] /\ call[s] \in Call
      BY DEF Inv, TypeOK
    <3>2. y \in Call /\ y.job = "register" /\ y.at = "auth"
      <4>1. "register" \in Jobs /\ "auth" \in Steps
        BY DEF Jobs, Steps
      <4> QED
        BY <3>1, <4>1 DEF Call
    <3>3. call' = [call EXCEPT ![s] = y]
      BY <2>1, <3>1
    <3> HIDE DEF y
    <3> QED
      BY <3>2, <3>3, PutLemma DEF Inv
  <2>5. OwnOK'
    <3>1. ~At(s, "enroll", "rotate")' /\ ~Told(s, "poll")'
      BY <2>4 DEF At, Told
    <3>2. /\ \A r \in Request : client'[r].cur \in {0, r}
          /\ \A c \in Attempts : client'[c].cur \in {0} \cup Attempts
          /\ \A c \in Token : client'[c].frame = "pending" => c \in Attempts
      BY <1>1 DEF LinkOK, OwnOK
    <3> QED
      BY <1>1, <2>4, <3>1, <3>2, OwnStep
  <2>6. AloneOK'
    <3> SUFFICES ASSUME ~overlap
                 PROVE  /\ \A t, u \in Slot : Enrolling(t)' /\ Enrolling(u)' => t = u
                        /\ \A t \in Slot : Enrolling(t)' => link'.token <= MaxReq
                        /\ \A t \in Slot : Told(t, "enroll")' => HasToken(call[t].key)'
                        /\ link'.token # 0 => HasToken(link.token)'
      BY <1>1 DEF AloneOK
    <3>1. \A t \in Slot : Enrolling(t)' => Enrolling(t) /\ call'[t] = call[t]
      BY <2>4 DEF Only, Enrolling
    <3>2. \A t, u \in Slot : Enrolling(t)' /\ Enrolling(u)' => t = u
      BY <3>1 DEF LinkOK, AloneOK
    <3>3. link'.token <= MaxReq
      <4>1. call[s].key <= MaxReq
        BY <2>2 DEF Request
      <4> QED
        BY <2>1, <4>1
    <3>4. ASSUME NEW t \in Slot, Told(t, "enroll")'
          PROVE  HasToken(call[t].key)'
      <4>1. Told(t, "enroll") /\ call'[t] = call[t]
        BY <3>1, <3>4 DEF Told, At, Enrolling
      <4>2. HasToken(call[t].key)
        BY <4>1 DEF LinkOK, AloneOK
      <4> QED
        BY <1>1, <4>1, <4>2 DEF HasToken
    <3>5. HasToken(link.token)'
      BY <1>1, <2>1, <2>2, <2>3 DEF HasToken
    <3> QED
      BY <3>2, <3>3, <3>4, <3>5
  <2> QED
    BY <2>5, <2>6 DEF LinkOK
<1>4. CASE EnrollReply(s) /\ ~(link'.token \in {0, link.token} /\ Return(s))
  <2>1. Told(s, "enroll") /\ Enrolling(s) /\ link'.token = call[s].key /\ Return(s)
    BY <1>4 DEF EnrollReply, Told, Enrolling, At
  <2>2. Only(s) /\ call'[s].job = "none"
    BY <2>1, ReturnLemma, NoCallLemma DEF Inv
  <2>3. OwnOK'
    <3>1. ~At(s, "enroll", "rotate")' /\ ~Told(s, "poll")'
      BY <2>2 DEF At, Told
    <3>2. /\ \A r \in Request : client'[r].cur \in {0, r}
          /\ \A c \in Attempts : client'[c].cur \in {0} \cup Attempts
          /\ \A c \in Token : client'[c].frame = "pending" => c \in Attempts
      BY <1>1 DEF LinkOK, OwnOK
    <3> QED
      BY <1>1, <2>2, <3>1, <3>2, OwnStep
  <2>4. AloneOK'
    <3> SUFFICES ASSUME ~overlap
                 PROVE  /\ \A t, u \in Slot : Enrolling(t)' /\ Enrolling(u)' => t = u
                        /\ \A t \in Slot : Enrolling(t)' => link'.token <= MaxReq
                        /\ \A t \in Slot : Told(t, "enroll")' => HasToken(call[t].key)'
                        /\ link'.token # 0 => HasToken(link.token)'
      BY <1>1 DEF AloneOK
    <3>1. \A t \in Slot : ~Enrolling(t)'
      BY <2>1, <2>2 DEF LinkOK, AloneOK, Only, Enrolling
    <3>2. \A t \in Slot : ~Told(t, "enroll")'
      BY <3>1 DEF Told, At, Enrolling
    <3>3. HasToken(call[s].key)
      BY <2>1 DEF LinkOK, AloneOK
    <3>4. HasToken(link.token)'
      BY <1>1, <2>1, <3>3 DEF HasToken
    <3> QED
      BY <3>1, <3>2, <3>4
  <2> QED
    BY <2>3, <2>4 DEF LinkOK
<1> QED
  BY <1>2, <1>3, <1>4

\* Nobody has a token at the start, and every step keeps LinkOK.
LEMMA InitToken ==
  ASSUME Init
  PROVE  LinkOK
<1>1. \A c \in Token : client[c].cur = 0 /\ client[c].frame = "none"
  BY DEF Init, NoClient
<1>2. \A s \in Slot : call[s].job = "none"
  BY NoCallLemma DEF Init
<1>3. link.token = 0
  BY DEF Init, Unlinked
<1>4. OwnOK
  BY <1>1, <1>2, TokenLemma DEF OwnOK, At, Told
<1>5. AloneOK
  BY <1>2, <1>3 DEF AloneOK, Enrolling, Told, At
<1> QED
  BY <1>4, <1>5 DEF LinkOK

\* One lemma for each kind of step.
LEMMA TokenStep ==
  ASSUME Inv, LinkOK, [Next]_vars
  PROVE  LinkOK'
<1>1. ASSUME NEW s \in Slot, Handler(s)
      PROVE  LinkOK'
  BY <1>1, ReadsCalm, WritesCalm, UnsealToken, ApproveToken, FindToken, EnrollToken DEF Handler
<1>2. ASSUME NEW s \in Slot, Caller(s)
      PROVE  LinkOK'
  BY <1>2, CallersCalm, TakeToken DEF Caller
<1>3. ASSUME NEW s \in Slot, Users(s) \/ Thread(s)
      PROVE  LinkOK'
  BY <1>3, BeginsCalm, BeginToken DEF Users, Thread
<1>4. ASSUME NEW s \in Slot, GiveUp(s) \/ HandlerFails(s)
      PROVE  LinkOK'
  BY <1>4, OutsideCalm, ReadsCalm
<1>5. CASE clearPendingEnrollment \/ RevokeClient \/ Clocks \/ DeviceCrash \/ UNCHANGED vars
  BY <1>5, OutsideCalm
<1> QED
  BY <1>1, <1>2, <1>3, <1>4, <1>5 DEF Next

\* LinkOK holds of every state, on the first invariant.
THEOREM LinkHolds == Spec => []LinkOK
<1>1. Init => LinkOK
  BY InitToken
<1>2. Inv /\ LinkOK /\ [Next]_vars => LinkOK'
  BY TokenStep
<1> QED
  BY <1>1, <1>2, InvHolds, PTL DEF Spec

\* The token a link holds is a client's, unless enrollments overlapped: lost
\* answers, rotations, the grace window, restarts and disconnects never leave
\* the device with a token nobody knows (replayEnrollment, enrollManagedFrame).
THEOREM TokenLives == Spec => []LinkTokenLives
<1>1. LinkOK => LinkTokenLives
  BY DEF LinkOK, AloneOK, LinkTokenLives, HasToken
<1> QED
  BY <1>1, LinkHolds, PTL
-----------------------------------------------------------------------------
(* A frame that boots with a claim token, and whose portal nobody uses, is *)
(* not stranded.  The retries find the one frame there is and rotate its   *)
(* token (OneFrameOK), no token is ever somebody else's (UniqueOK), and so *)
(* the dial that follows is not refused while the frame waits (BootOK).    *)

NoFrame == \A c \in Token : ~PendingFrame(c)
Tokens(c) == {client[c].cur, client[c].prev}
Dials(s) == call[s].job = "dial" /\ call[s].for = "thread"

\* A token is one client's, now or before, and that of an attempt nobody's yet.
UniqueOK ==
  /\ \A c, d \in Token : c # d /\ client[c].cur # 0 => client[c].cur \notin Tokens(d)
  /\ \A s \in Slot : Enrolling(s) /\ call[s].at # "reply" =>
                       \A c \in Token : call[s].key \notin Tokens(c)
  /\ \A t \in Attempts : t <= MaxReq + plan.attempts => \A c \in Token : t \notin Tokens(c)
  /\ \A r \in Request : client[r].prev = 0
  /\ \A c \in Attempts : client[c].prev \in {0} \cup Attempts

\* What an attempt does next fits the frame that waits.
FitsFrame(x) ==
  /\ x.at = "redeem" => claim.expired \/ NoFrame
  /\ x.at = "rotate" => \A c \in Token : PendingFrame(c) => c = x.on
  /\ x.at = "reply" /\ x.answer = "ok" => \A c \in Token : PendingFrame(c) => client[c].cur = x.key
  /\ x.at = "reply" /\ x.answer \notin {"ok", "error"} => claim.expired \/ NoFrame

\* While attempts do not overlap one frame waits at most.
OneFrameOK == ~overlap =>
  /\ \A c, d \in Token : PendingFrame(c) /\ PendingFrame(d) => c = d
  /\ \A s \in Slot : Enrolling(s) => FitsFrame(call[s])

\* The hub thread waits for one answer at a time, and shreds no file meanwhile.
ThreadOK ==
  /\ \A s, t \in Slot : call[s].for = "thread" /\ call[t].for = "thread" => s = t
  /\ \A s \in Slot : call[s].at = "reply" => call[s].for # "nobody"
  /\ \A s \in Slot : call[s].for = "thread" =>
                       pending # "settled" /\ call[s].job \in {"enroll", "dial"}

\* Nobody uses the portal of a frame with a boot file.
PortalJobs == {"connect", "poll", "register", "unlink"}
AwayOK == plan.boot =>
  /\ plan.requests = 0 /\ ~plan.portal
  /\ link.status # "connecting" /\ link.token \notin Request
  /\ \A s \in Slot : call[s].job \notin PortalJobs /\ call[s].for # "portal"

\* The file is used up, no attempt runs; a frame that waits is the link's, and the
\* dial finds it.
Settled == ~claim.expired /\ pending # "file"
FindsFrame(x, c) == /\ x.at \in {"retire", "find"} => x.on = c
                    /\ x.at = "reply" => x.answer # "refused"
BootOK == (plan.boot /\ ~overlap) =>
  /\ Settled => \A s \in Slot : ~Enrolling(s)
  /\ \A s \in Slot : Dials(s) => call[s].key = link.token
  /\ Settled => \A c \in Token : PendingFrame(c) =>
        /\ client[c].cur = link.token
        /\ \A s \in Slot : Dials(s) => FindsFrame(call[s], c)

RetryOK == UniqueOK /\ OneFrameOK /\ ThreadOK /\ AwayOK /\ BootOK

-----------------------------------------------------------------------------
(* One call, every field of it.                                            *)

\* Slot s goes on, its caller still there.
Moves(s, x, c, a) ==
  /\ Only(s) /\ call'[s].job = call[s].job /\ call'[s].key = call[s].key
  /\ call'[s].for = call[s].for
  /\ call'[s].at = x /\ call'[s].on = c /\ call'[s].answer = a

\* A handler's next step, its answer, and the end of a call nobody waits for.
LEMMA MoveLemma ==
  ASSUME TypeOK, NEW s \in Slot
  PROVE  /\ \A x \in Steps : Goto(s, x) => Moves(s, x, call[s].on, call[s].answer)
         /\ \A x \in Steps, c \in Ref : GotoOn(s, x, c) => Moves(s, x, c, call[s].answer)
         /\ \A a \in Answers : Reply(s, a) =>
              \/ Return(s) /\ Only(s) /\ call'[s] = NoCall
              \/ call[s].for # "nobody" /\ Moves(s, "reply", call[s].on, a)
<1>0. call \in [Slot -> Call] /\ call[s] \in Call
  BY DEF TypeOK
<1>1. ASSUME NEW x \in Steps, NEW c \in Ref, NEW a \in Answers,
             call' = [call EXCEPT ![s] = [call[s] EXCEPT !.at = x, !.on = c, !.answer = a]]
      PROVE  Moves(s, x, c, a)
  <2> DEFINE y == [call[s] EXCEPT !.at = x, !.on = c, !.answer = a]
  <2>1. /\ y \in Call /\ y.at = x /\ y.on = c /\ y.answer = a /\ y.job = call[s].job
        /\ y.key = call[s].key /\ y.for = call[s].for
    BY <1>0 DEF Call, Answers
  <2>2. call' = [call EXCEPT ![s] = y]
    BY <1>1
  <2> HIDE DEF y
  <2>3. Only(s) /\ call'[s] = y
    BY <2>1, <2>2, PutLemma
  <2> QED
    BY <2>1, <2>3 DEF Moves
<1>2. call[s].on \in Ref /\ call[s].answer \in Answers
  BY <1>0 DEF Call, Answers
<1>3. ASSUME NEW x \in Steps, Goto(s, x)
      PROVE  Moves(s, x, call[s].on, call[s].answer)
  <2>1. [call[s] EXCEPT !.at = x] =
          [call[s] EXCEPT !.at = x, !.on = call[s].on, !.answer = call[s].answer]
    BY <1>0 DEF Call
  <2>2. call' = [call EXCEPT ![s] = [call[s] EXCEPT !.at = x]]
    BY <1>0, <1>3 DEF Goto
  <2> QED
    BY <1>1, <1>2, <2>1, <2>2
<1>4. ASSUME NEW x \in Steps, NEW c \in Ref, GotoOn(s, x, c)
      PROVE  Moves(s, x, c, call[s].answer)
  <2>1. [call[s] EXCEPT !.at = x, !.on = c] =
          [call[s] EXCEPT !.at = x, !.on = c, !.answer = call[s].answer]
    BY <1>0 DEF Call
  <2>2. call' = [call EXCEPT ![s] = [call[s] EXCEPT !.at = x, !.on = c]]
    BY <1>0, <1>4 DEF GotoOn
  <2> QED
    BY <1>1, <1>2, <2>1, <2>2
<1>5. ASSUME NEW a \in Answers, Reply(s, a)
      PROVE  \/ Return(s) /\ Only(s) /\ call'[s] = NoCall
             \/ call[s].for # "nobody" /\ Moves(s, "reply", call[s].on, a)
  <2>1. CASE call[s].for = "nobody"
    BY <1>5, <2>1, ReturnLemma DEF Reply
  <2>2. CASE call[s].for # "nobody"
    <3>1. [call[s] EXCEPT !.at = "reply", !.answer = a] =
            [call[s] EXCEPT !.at = "reply", !.on = call[s].on, !.answer = a]
      BY <1>0 DEF Call
    <3>2. call' = [call EXCEPT ![s] = [call[s] EXCEPT !.at = "reply", !.answer = a]]
      BY <1>0, <1>5, <2>2 DEF Reply
    <3>3. "reply" \in Steps
      BY DEF Steps
    <3> QED
      BY <1>1, <1>2, <2>2, <3>1, <3>2, <3>3
  <2> QED
    BY <2>1, <2>2
<1> QED
  BY <1>3, <1>4, <1>5

\* A new call, with its caller.
LEMMA StartMove ==
  ASSUME TypeOK, NEW s \in Slot, NEW j \in Jobs, NEW x \in Steps, NEW k \in Ref,
         NEW w \in Callers, Start(s, j, x, k, w)
  PROVE  /\ Only(s) /\ call[s] = NoCall
         /\ call'[s].at = x /\ call'[s].job = j /\ call'[s].key = k
         /\ call'[s].on = k /\ call'[s].for = w /\ call'[s].answer = ""
<1> DEFINE y == [NoCall EXCEPT !.job = j, !.at = x, !.key = k, !.on = k, !.for = w]
<1>1. /\ y \in Call /\ y.at = x /\ y.job = j /\ y.key = k /\ y.on = k /\ y.for = w
      /\ y.answer = ""
  BY DEF NoCall, Call, Callers
<1>2. call' = [call EXCEPT ![s] = y] /\ call[s] = NoCall
  BY DEF Start
<1> HIDE DEF y
<1> QED
  BY <1>1, <1>2, PutLemma

\* The slots whose call the steps below do not disturb.
Same(s) == /\ call'[s].key = call[s].key /\ call'[s].job = call[s].job
           /\ \/ /\ call'[s].at = call[s].at /\ call'[s].on = call[s].on
                 /\ call'[s].answer = call[s].answer
              \/ call'[s].at = "reply" /\ call'[s].answer = "error"
MinorEnroll(s) == Enrolling(s)' =>
  /\ Enrolling(s) /\ call'[s].key = call[s].key
  /\ call'[s].at # "reply" => call[s].at # "reply"
  /\ overlap \/ Same(s) \/ FitsFrame(call[s])'
MinorDial(s) == Dials(s)' =>
  /\ Dials(s) /\ call'[s].key = call[s].key
  /\ \A c \in Token :
       PendingFrame(c) /\ client[c].cur = call[s].key /\ FindsFrame(call[s], c) =>
         FindsFrame(call'[s], c)
MinorThread(s) == /\ call'[s].for = "thread" => call[s].for = "thread" /\ call'[s].job = call[s].job
                  /\ call'[s].at = "reply" => call'[s].for # "nobody"

\* A slot that goes on as it was, or fails.
LEMMA SameMinor ==
  ASSUME NEW s \in Slot, Same(s), call'[s].for = "thread" => call[s].for = "thread"
  PROVE  MinorEnroll(s) /\ MinorDial(s)
<1>1. MinorEnroll(s)
  BY DEF MinorEnroll, Same, Enrolling
<1>2. \A c : FindsFrame(call[s], c) => FindsFrame(call'[s], c)
  BY DEF Same, FindsFrame
<1>3. Dials(s)' => Dials(s) /\ call'[s].key = call[s].key
  BY DEF Same, Dials
<1>4. MinorDial(s)
  BY <1>2, <1>3 DEF MinorDial
<1> QED
  BY <1>1, <1>4

\* One that does not move, and one that is free.
LEMMA MinorStill ==
  ASSUME ThreadOK, NEW s \in Slot, call'[s] = call[s] \/ call'[s] = NoCall
  PROVE  MinorEnroll(s) /\ MinorDial(s) /\ MinorThread(s)
<1>1. CASE call'[s] = call[s]
  <2>1. call[s].at = "reply" => call[s].for # "nobody"
    BY DEF ThreadOK
  <2>2. MinorEnroll(s) /\ MinorDial(s)
    BY <1>1, SameMinor DEF Same
  <2> QED
    BY <1>1, <2>1, <2>2 DEF MinorThread
<1>2. CASE call'[s] = NoCall
  <2>1. NoCall.for = "nobody"
    BY DEF NoCall
  <2>2. call'[s].job = "none" /\ call'[s].at # "reply" /\ call'[s].for = "nobody"
    BY <1>2, <2>1, NoCallLemma
  <2> QED
    BY <2>2 DEF MinorEnroll, MinorDial, MinorThread, Enrolling, Dials
<1> QED
  BY <1>1, <1>2

-----------------------------------------------------------------------------
(* Steps that disturb none of it.                                          *)

\* Tokens stay, no frame begins to wait, the plan allows less.
TokensStay == \A c \in Token : /\ client'[c].cur = client[c].cur
                              /\ client'[c].prev \in {0, client[c].prev}
FramesStay == /\ (overlap => overlap') /\ (claim.expired => claim'.expired)
              /\ \A c \in Token : PendingFrame(c)' =>
                                     PendingFrame(c) /\ client'[c].cur = client[c].cur
PlanStays == plan'.boot = plan.boot /\ plan'.portal = plan.portal /\ Less
MinorAway(s) == plan.boot => call'[s].job \notin PortalJobs /\ call'[s].for # "portal"
MinorCall(s) == MinorEnroll(s) /\ MinorDial(s) /\ MinorThread(s) /\ MinorAway(s)

\* A plan that is spent from, or not.
LEMMA PlanLemma ==
  ASSUME TypeOK,
         Free \/ \E b \in {"requests", "attempts", "faults", "crashes", "clicks"} : Spend(b)
  PROVE  PlanStays
<1>1. plan \in Plan
  BY DEF TypeOK
<1>2. CASE Free
  BY <1>1, <1>2 DEF Free, PlanStays, Less, Plan
<1>3. ASSUME NEW b \in {"requests", "attempts", "faults", "crashes", "clicks"}, Spend(b)
      PROVE  PlanStays
  <2>1. plan'.boot = plan.boot /\ plan'.portal = plan.portal
    BY <1>1, <1>3 DEF Spend, Plan
  <2>2. Less
    BY <1>3, SpendLess
  <2> QED
    BY <2>1, <2>2 DEF PlanStays
<1> QED
  BY <1>2, <1>3

\* No token is given, no attempt begins.
LEMMA UniqueKeeps ==
  ASSUME Inv, TypeOK', UniqueOK, TokensStay, Less, \A s \in Slot : MinorEnroll(s)
  PROVE  UniqueOK'
<1>1. \A c \in Token : client'[c].cur = client[c].cur /\ Tokens(c)' \subseteq Tokens(c) \cup {0}
  BY DEF TokensStay, Tokens
<1>2. \A c, d \in Token : c # d /\ client'[c].cur # 0 => client'[c].cur \notin Tokens(d)'
  BY <1>1 DEF UniqueOK
<1>3. ASSUME NEW s \in Slot, Enrolling(s)', call'[s].at # "reply", NEW c \in Token
      PROVE  call'[s].key \notin Tokens(c)'
  <2>1. Enrolling(s) /\ call[s].at # "reply" /\ call'[s].key = call[s].key
    BY <1>3 DEF MinorEnroll
  <2>2. call[s].key # 0
    BY <2>1, HeldAttempt DEF Enrolling
  <2> QED
    BY <1>1, <2>1, <2>2 DEF UniqueOK
<1>4. ASSUME NEW t \in Attempts, t <= MaxReq + plan'.attempts, NEW c \in Token
      PROVE  t \notin Tokens(c)'
  <2>1. plan.attempts \in Int /\ plan'.attempts \in Int /\ MaxReq \in Int
    BY NumberLemma DEF Inv, TypeOK, Plan
  <2>2. t \in Int /\ t # 0 /\ t <= MaxReq + plan.attempts
    BY <1>4, <2>1 DEF Less, Attempts
  <2> QED
    BY <1>1, <2>2 DEF UniqueOK
<1>5. /\ \A r \in Request : client'[r].prev = 0
      /\ \A c \in Attempts : client'[c].prev \in {0} \cup Attempts
  BY TokenLemma DEF UniqueOK, TokensStay
<1> QED
  BY <1>2, <1>3, <1>4, <1>5 DEF UniqueOK

\* Attempts go on as they were, or fail.
LEMMA FrameKeeps ==
  ASSUME OneFrameOK, FramesStay, \A s \in Slot : MinorEnroll(s)
  PROVE  OneFrameOK'
<1> SUFFICES ASSUME ~overlap'
             PROVE  /\ \A c, d \in Token : PendingFrame(c)' /\ PendingFrame(d)' => c = d
                    /\ \A s \in Slot : Enrolling(s)' => FitsFrame(call[s])'
  BY DEF OneFrameOK
<1>1. ~overlap
  BY DEF FramesStay
<1>2. \A c, d \in Token : PendingFrame(c)' /\ PendingFrame(d)' => c = d
  BY <1>1 DEF FramesStay, OneFrameOK
<1>3. ASSUME NEW s \in Slot, Enrolling(s)'
      PROVE  FitsFrame(call[s])'
  <2>1. Enrolling(s) /\ (Same(s) \/ FitsFrame(call[s])')
    BY <1>1, <1>3 DEF MinorEnroll
  <2>2. CASE call'[s].at = "reply" /\ call'[s].answer = "error"
    BY <2>2 DEF FitsFrame
  <2>3. CASE /\ call'[s].at = call[s].at /\ call'[s].on = call[s].on
             /\ call'[s].answer = call[s].answer /\ call'[s].key = call[s].key
    <3>1. FitsFrame(call[s]) /\ call'[s].key = call[s].key
      BY <1>1, <2>1, <2>3 DEF OneFrameOK
    <3>2. NoFrame => NoFrame'
      BY DEF NoFrame, FramesStay
    <3>3. claim.expired => claim'.expired
      BY DEF FramesStay
    <3>4. \A c \in Token : PendingFrame(c)' => PendingFrame(c) /\ client'[c].cur = client[c].cur
      BY DEF FramesStay
    <3>5. /\ (call[s].at = "redeem" => claim.expired \/ NoFrame)'
          /\ (call[s].at = "rotate" => \A c \in Token : PendingFrame(c) => c = call[s].on)'
      BY <2>3, <3>1, <3>2, <3>3, <3>4 DEF FitsFrame
    <3>6. /\ (call[s].at = "reply" /\ call[s].answer = "ok" =>
                 \A c \in Token : PendingFrame(c) => client[c].cur = call[s].key)'
          /\ (call[s].at = "reply" /\ call[s].answer \notin {"ok", "error"} =>
                 claim.expired \/ NoFrame)'
      BY <2>3, <3>1, <3>2, <3>3, <3>4 DEF FitsFrame
    <3> QED
      BY <3>5, <3>6 DEF FitsFrame
  <2> QED
    BY <2>1, <2>2, <2>3 DEF Same
<1> QED
  BY <1>2, <1>3

\* The thread waits for no new answer.
LEMMA ThreadKeeps ==
  ASSUME ThreadOK, \A s \in Slot : MinorThread(s),
         pending' = "settled" => \/ pending = "settled"
                                 \/ \A s \in Slot : call'[s].for # "thread"
  PROVE  ThreadOK'
<1>1. \A s \in Slot : call'[s].for = "thread" => call[s].for = "thread" /\ call'[s].job = call[s].job
  BY DEF MinorThread
<1>2. \A s, t \in Slot : call'[s].for = "thread" /\ call'[t].for = "thread" => s = t
  BY <1>1 DEF ThreadOK
<1>3. \A s \in Slot : call'[s].at = "reply" => call'[s].for # "nobody"
  BY DEF MinorThread
<1>4. \A s \in Slot : call'[s].for = "thread" =>
                        pending' # "settled" /\ call'[s].job \in {"enroll", "dial"}
  BY <1>1 DEF ThreadOK
<1> QED
  BY <1>2, <1>3, <1>4 DEF ThreadOK

\* The portal stays unused.
LEMMA AwayKeeps ==
  ASSUME TypeOK, TypeOK', AwayOK, PlanStays, \A s \in Slot : MinorAway(s),
         plan.boot => link'.status # "connecting" /\ link'.token \notin Request
  PROVE  AwayOK'
<1> SUFFICES ASSUME plan'.boot
             PROVE  /\ plan'.requests = 0 /\ ~plan'.portal
                    /\ link'.status # "connecting" /\ link'.token \notin Request
                    /\ \A s \in Slot : call'[s].job \notin PortalJobs /\ call'[s].for # "portal"
  BY DEF AwayOK
<1>1. plan.boot
  BY DEF PlanStays
<1>2. plan'.requests = 0
  <2>1. plan.requests = 0
    BY <1>1 DEF AwayOK
  <2>2. plan'.requests \in Nat
    BY DEF TypeOK, Plan
  <2> QED
    BY <2>1, <2>2 DEF PlanStays, Less
<1>3. ~plan'.portal
  BY <1>1 DEF AwayOK, PlanStays
<1> QED
  BY <1>1, <1>2, <1>3 DEF MinorAway

\* The frame that waits is still the link's.
LEMMA BootKeeps ==
  ASSUME BootOK, FramesStay, PlanStays, plan.boot => link'.token = link.token,
         Settled' => Settled,
         \A s \in Slot : MinorEnroll(s) /\ MinorDial(s)
  PROVE  BootOK'
<1> SUFFICES ASSUME plan'.boot, ~overlap'
             PROVE  /\ Settled' => \A s \in Slot : ~Enrolling(s)'
                    /\ \A s \in Slot : Dials(s)' => call'[s].key = link'.token
                    /\ Settled' => \A c \in Token : PendingFrame(c)' =>
                          /\ client'[c].cur = link'.token
                          /\ \A s \in Slot : Dials(s)' => FindsFrame(call'[s], c)
  BY DEF BootOK, FindsFrame
<1>1. plan.boot /\ ~overlap /\ link'.token = link.token
  BY DEF PlanStays, FramesStay
<1>2. \A s \in Slot : Enrolling(s)' => Enrolling(s)
  BY DEF MinorEnroll
<1>3. \A s \in Slot : Dials(s)' => Dials(s) /\ call'[s].key = call[s].key
  BY DEF MinorDial
<1>4. Settled' => \A s \in Slot : ~Enrolling(s)'
  BY <1>1, <1>2 DEF BootOK
<1>5. \A s \in Slot : Dials(s)' => call'[s].key = link'.token
  BY <1>1, <1>3 DEF BootOK
<1>6. ASSUME Settled', NEW c \in Token, PendingFrame(c)'
      PROVE  /\ client'[c].cur = link'.token
             /\ \A s \in Slot : Dials(s)' => FindsFrame(call'[s], c)
  <2>1. PendingFrame(c) /\ client'[c].cur = client[c].cur
    BY <1>6 DEF FramesStay
  <2>2. client[c].cur = link.token /\ \A s \in Slot : Dials(s) => FindsFrame(call[s], c)
    BY <1>1, <1>6, <2>1 DEF BootOK
  <2>3. \A s \in Slot : Dials(s)' => FindsFrame(call[s], c) /\ FindsFrame(call'[s], c)
    <3> SUFFICES ASSUME NEW s \in Slot, Dials(s)'
                 PROVE  FindsFrame(call[s], c) /\ FindsFrame(call'[s], c)
      OBVIOUS
    <3>1. Dials(s) /\ call[s].key = link.token
      BY <1>1, <1>3 DEF BootOK
    <3> QED
      BY <2>1, <2>2, <3>1 DEF MinorDial
  <2> QED
    BY <1>1, <1>3, <2>1, <2>2, <2>3
<1> QED
  BY <1>4, <1>5, <1>6

\* What such a step does to the rows, the link and the file.
Undisturbed ==
  /\ TokensStay /\ FramesStay /\ PlanStays /\ (plan.boot => link' = link) /\ (Settled' => Settled)
  /\ pending' = "settled" => pending = "settled" \/ \A s \in Slot : call'[s].for # "thread"

\* Steps that leave the rows and the calls so keep all five.
LEMMA RetryKeeps ==
  ASSUME Inv, TypeOK', RetryOK, Undisturbed, \A s \in Slot : MinorCall(s)
  PROVE  RetryOK'
<1>1. UniqueOK /\ OneFrameOK /\ ThreadOK /\ AwayOK /\ BootOK /\ TypeOK
  BY DEF RetryOK, Inv
<1>2. Less
  BY DEF PlanStays, Undisturbed
<1>3. UniqueOK'
  BY <1>1, <1>2, UniqueKeeps DEF Undisturbed, MinorCall
<1>4. OneFrameOK'
  BY <1>1, FrameKeeps DEF Undisturbed, MinorCall
<1>5. ThreadOK'
  BY <1>1, ThreadKeeps DEF Undisturbed, MinorCall
<1>6. AwayOK'
  <2>1. plan.boot => link'.status # "connecting" /\ link'.token \notin Request
    BY <1>1 DEF Undisturbed, AwayOK
  <2> QED
    BY <1>1, <2>1, AwayKeeps DEF Undisturbed, MinorCall
<1>7. BootOK'
  BY <1>1, BootKeeps DEF Undisturbed, MinorCall
<1> QED
  BY <1>3, <1>4, <1>5, <1>6, <1>7 DEF RetryOK

\* One call moves: it goes on, ends, fails, or is no attempt and no dial.
LEMMA CallMinor ==
  ASSUME TypeOK, RetryOK, NEW s \in Slot,
         \/ call[s].job \notin {"enroll", "dial"} /\ \E x \in Steps \ {"reply"} : Goto(s, x)
         \/ /\ call[s].job \notin {"enroll", "dial"}
            /\ \E x \in Steps \ {"reply"}, c \in Ref : GotoOn(s, x, c)
         \/ Return(s)
         \/ \E a \in Answers : Reply(s, a) /\ (call[s].job \in {"enroll", "dial"} => a = "error")
         \/ \E j \in Jobs \ {"enroll", "dial"}, x \in Steps, k \in Ref, w \in {"nobody", "portal"} :
              /\ Start(s, j, x, k, w) /\ (x = "reply" => w = "portal")
              /\ plan.boot => j \notin PortalJobs /\ w = "nobody"
  PROVE  \A t \in Slot : MinorCall(t)
<1>0. ThreadOK /\ AwayOK
  BY DEF RetryOK
<1>1. \A t \in Slot : plan.boot => call[t].job \notin PortalJobs /\ call[t].for # "portal"
  BY <1>0 DEF AwayOK
<1>2. \A t \in Slot : call'[t] = call[t] \/ call'[t] = NoCall => MinorCall(t)
  <2> SUFFICES ASSUME NEW t \in Slot, call'[t] = call[t] \/ call'[t] = NoCall
               PROVE  MinorCall(t)
    OBVIOUS
  <2>1. MinorAway(t)
    <3>1. NoCall.job = "none" /\ NoCall.for = "nobody"
      BY DEF NoCall
    <3> QED
      BY <1>1, <3>1 DEF MinorAway, PortalJobs
  <2> QED
    BY <1>0, <2>1, MinorStill DEF MinorCall
<1>3. Only(s) /\ MinorCall(s)
  <2>1. ASSUME call[s].job \notin {"enroll", "dial"}, NEW x \in Steps, NEW c, NEW a,
               Moves(s, x, c, a), x # "reply" \/ call[s].for # "nobody"
        PROVE  Only(s) /\ MinorCall(s)
    <3>1. Only(s)
      BY <2>1 DEF Moves
    <3>2. MinorEnroll(s) /\ MinorDial(s)
      BY <2>1 DEF Moves, MinorEnroll, MinorDial, Enrolling, Dials
    <3>3. MinorThread(s)
      BY <2>1 DEF Moves, MinorThread
    <3>4. MinorAway(s)
      BY <1>1, <2>1 DEF Moves, MinorAway
    <3> QED
      BY <3>1, <3>2, <3>3, <3>4 DEF MinorCall
  <2>2. CASE /\ call[s].job \notin {"enroll", "dial"}
             /\ \/ \E x \in Steps \ {"reply"} : Goto(s, x)
                \/ \E x \in Steps \ {"reply"}, c \in Ref : GotoOn(s, x, c)
    BY <2>1, <2>2, MoveLemma
  <2>3. CASE Return(s)
    BY <2>3, <1>2, ReturnLemma
  <2>4. CASE \E a \in Answers : Reply(s, a) /\ (call[s].job \in {"enroll", "dial"} => a = "error")
    <3>1. PICK a \in Answers : Reply(s, a) /\ (call[s].job \in {"enroll", "dial"} => a = "error")
      BY <2>4
    <3>2. \/ Only(s) /\ call'[s] = NoCall
          \/ call[s].for # "nobody" /\ Moves(s, "reply", call[s].on, a)
      BY <3>1, MoveLemma
    <3>3. "reply" \in Steps
      BY DEF Steps
    <3>4. CASE call[s].for # "nobody" /\ Moves(s, "reply", call[s].on, a) /\ a = "error"
      <4>1. MinorEnroll(s) /\ MinorDial(s)
        BY <3>4, SameMinor DEF Moves, Same
      <4>2. MinorThread(s) /\ MinorAway(s)
        BY <1>1, <3>4 DEF Moves, MinorThread, MinorAway
      <4> QED
        BY <3>4, <4>1, <4>2 DEF MinorCall, Moves
    <3> QED
      BY <1>2, <2>1, <3>1, <3>2, <3>3, <3>4
  <2>5. ASSUME NEW j \in Jobs \ {"enroll", "dial"}, NEW x \in Steps, NEW k \in Ref,
               NEW w \in {"nobody", "portal"}, Start(s, j, x, k, w), x = "reply" => w = "portal",
               plan.boot => j \notin PortalJobs /\ w = "nobody"
        PROVE  Only(s) /\ MinorCall(s)
    <3>0. j \in Jobs /\ w \in Callers
      BY DEF Callers
    <3>1. /\ Only(s) /\ call'[s].job = j /\ call'[s].at = x /\ call'[s].for = w
      BY <2>5, <3>0, StartMove
    <3>2. MinorEnroll(s) /\ MinorDial(s)
      BY <3>1 DEF MinorEnroll, MinorDial, Enrolling, Dials
    <3>3. MinorThread(s) /\ MinorAway(s)
      BY <2>5, <3>1 DEF MinorThread, MinorAway
    <3> QED
      BY <3>1, <3>2, <3>3 DEF MinorCall
  <2> QED
    BY <2>2, <2>3, <2>4, <2>5
<1> QED
  BY <1>2, <1>3 DEF Only

\* Rows that do not move.
LEMMA StillUndisturbed ==
  ASSUME UNCHANGED <<client, claim, overlap>>
  PROVE  TokensStay /\ FramesStay
BY DEF TokensStay, FramesStay, PendingFrame

\* Neither do the device's own.
LEMMA DeviceUndisturbed ==
  ASSUME TypeOK, UNCHANGED device, TokensStay, FramesStay,
         Free \/ \E b \in {"requests", "attempts", "faults", "crashes", "clicks"} : Spend(b)
  PROVE  Undisturbed
<1>1. PlanStays
  BY PlanLemma
<1>2. Settled' => Settled
  BY DEF Settled, FramesStay, device
<1> QED
  BY <1>1, <1>2 DEF Undisturbed, device

\* Neither do the harmless writes.
LEMMA HarmlessUndisturbed ==
  ASSUME Inv, Harmless
  PROVE  Undisturbed
<1>1. TokensStay /\ FramesStay
  BY DEF Harmless, ClientsKept, TokensStay, FramesStay, PendingFrame
<1> QED
  BY <1>1, DeviceUndisturbed DEF Harmless, Inv

\* Handlers of the device flow, of the portal and of the owner that read, and
\* those that write to requests.
LEMMA ReadsRetry ==
  ASSUME Inv, TypeOK', RetryOK, NEW s \in Slot,
         \/ PollRead(s) \/ ExpireRequest(s) \/ PollClaim(s) \/ PollFetch(s) \/ ApproveRead(s)
         \/ ApproveStamp(s) \/ DenyRead(s) \/ DenyCommit(s) \/ LookupRead(s)
         \/ RegisterFind(s) \/ RegisterCount(s) \/ HandlerFails(s)
  PROVE  RetryOK'
<1>1. UNCHANGED <<client, claim, overlap, device>> /\ (Free \/ Spend("faults"))
  BY DEF PollRead, ExpireRequest, PollClaim, PollFetch, ApproveRead, ApproveStamp, DenyRead,
         DenyCommit, LookupRead, RegisterFind, RegisterCount, HandlerFails, cloud
<1>2. Undisturbed
  BY <1>1, StillUndisturbed, DeviceUndisturbed DEF Inv
<1>3. \/ /\ call[s].job \notin {"enroll", "dial"}
         /\ \/ \E x \in {"expire", "claim", "fetch", "unseal", "commit", "count", "insert"} : Goto(s, x)
            \/ \E a \in {"ok", "later", "refused"} : Reply(s, a)
      \/ Reply(s, "error")
  <2>1. CASE PollRead(s) \/ PollClaim(s) \/ PollFetch(s)
    BY <2>1 DEF PollRead, PollClaim, PollFetch, At
  <2>2. CASE ApproveRead(s) \/ ApproveStamp(s) \/ DenyRead(s) \/ DenyCommit(s)
    BY <2>2 DEF ApproveRead, ApproveStamp, DenyRead, DenyCommit, At
  <2>3. CASE LookupRead(s) \/ RegisterFind(s) \/ RegisterCount(s)
    BY <2>3 DEF LookupRead, RegisterFind, RegisterCount, At
  <2>4. CASE ExpireRequest(s)
    BY <2>4, HeldLemma DEF ExpireRequest, CallGood, RequestJobs
  <2>5. CASE HandlerFails(s)
    BY <2>5 DEF HandlerFails
  <2> QED
    BY <2>1, <2>2, <2>3, <2>4, <2>5
<1>4. \A t \in Slot : MinorCall(t)
  <2>1. TypeOK
    BY DEF Inv
  <2>2. CASE /\ call[s].job \notin {"enroll", "dial"}
             /\ \E x \in {"expire", "claim", "fetch", "unseal", "commit", "count", "insert"} : Goto(s, x)
    <3>1. \E x \in Steps \ {"reply"} : Goto(s, x)
      BY <2>2 DEF Steps
    <3> QED
      BY <2>1, <2>2, <3>1, CallMinor
  <2>3. CASE \/ /\ call[s].job \notin {"enroll", "dial"}
                /\ \E a \in {"ok", "later", "refused"} : Reply(s, a)
             \/ Reply(s, "error")
    <3>1. \E a \in Answers : Reply(s, a) /\ (call[s].job \in {"enroll", "dial"} => a = "error")
      BY <2>3 DEF Answers
    <3> QED
      BY <2>1, <3>1, CallMinor
  <2> QED
    BY <1>3, <2>2, <2>3
<1> QED
  BY <1>2, <1>4, RetryKeeps

\* Their writes to clients that give nobody a token.
LEMMA WritesRetry ==
  ASSUME Inv, TypeOK', RetryOK, NEW s \in Slot,
         \/ PollUnseal(s) \/ RegisterInsert(s) \/ UnlinkCommit(s) \/ ConfirmCommit(s)
         \/ RevokeFrameClient(s) \/ RevokeFrameRow(s)
  PROVE  RetryOK'
<1>1. Undisturbed
  <2>1. CASE PollUnseal(s)
    <3>1. client \in [Token -> ClientRow]
      BY ClientRows
    <3>2. \A c \in Token : client'[c] \in {client[c], [client[c] EXCEPT !.sealed = FALSE]}
      BY <2>1, <3>1 DEF PollUnseal
    <3>3. \A c \in Token : /\ client'[c].cur = client[c].cur /\ client'[c].prev = client[c].prev
                           /\ client'[c].frame = client[c].frame
                           /\ client'[c].revoked = client[c].revoked
      <4> SUFFICES ASSUME NEW c \in Token
                   PROVE  /\ client'[c].cur = client[c].cur /\ client'[c].prev = client[c].prev
                          /\ client'[c].frame = client[c].frame
                          /\ client'[c].revoked = client[c].revoked
        OBVIOUS
      <4>1. client[c] \in ClientRow
        BY <3>1
      <4> QED
        BY <3>2, <4>1 DEF ClientRow
    <3>4. TokensStay /\ FramesStay
      BY <2>1, <3>3 DEF PollUnseal, TokensStay, FramesStay, PendingFrame
    <3> QED
      BY <2>1, <3>4, DeviceUndisturbed DEF PollUnseal, Inv
  <2>2. CASE ~PollUnseal(s)
    BY <2>2, WritesHarmless, HarmlessUndisturbed
  <2> QED
    BY <2>1, <2>2
<1>2. call[s].job \notin {"enroll", "dial"}
  BY DEF PollUnseal, RegisterInsert, UnlinkCommit, ConfirmCommit, RevokeFrameClient,
         RevokeFrameRow, At
<1>3. \A t \in Slot : MinorCall(t)
  <2>1. TypeOK
    BY DEF Inv
  <2>2. CASE PollUnseal(s) \/ RegisterInsert(s) \/ UnlinkCommit(s)
    <3>1. \E a \in Answers : Reply(s, a)
      BY <2>2 DEF PollUnseal, RegisterInsert, UnlinkCommit, Answers
    <3> QED
      BY <1>2, <2>1, <3>1, CallMinor
  <2>3. CASE ConfirmCommit(s) \/ RevokeFrameRow(s)
    <3>1. Return(s)
      BY <2>3 DEF ConfirmCommit, RevokeFrameRow
    <3> QED
      BY <2>1, <3>1, CallMinor
  <2>4. CASE RevokeFrameClient(s)
    <3>1. \E x \in Steps \ {"reply"} : Goto(s, x)
      BY <2>4 DEF RevokeFrameClient, Steps
    <3> QED
      BY <1>2, <2>1, <3>1, CallMinor
  <2> QED
    BY <2>2, <2>3, <2>4
<1> QED
  BY <1>1, <1>3, RetryKeeps

\* What the owner begins.
LEMMA OwnerRetry ==
  ASSUME Inv, TypeOK', RetryOK, NEW s \in Slot,
         (\E job \in {"approve", "deny", "lookup"} : Decide(s, job)) \/ Confirm(s) \/ RevokeFrame(s)
  PROVE  RetryOK'
<1>1. UNCHANGED <<client, claim, overlap, device>> /\ Spend("clicks")
  BY DEF Decide, Confirm, RevokeFrame, cloud
<1>2. Undisturbed
  BY <1>1, StillUndisturbed, DeviceUndisturbed DEF Inv
<1>3. PICK j \in {"approve", "deny", "lookup", "confirm", "revokeFrame"},
           x \in {"read", "commit", "claim"}, k \in Token : Start(s, j, x, k, "nobody")
  <2>1. CASE \E job \in {"approve", "deny", "lookup"} : Decide(s, job)
    BY <2>1, TokenLemma DEF Decide
  <2>2. CASE Confirm(s) \/ RevokeFrame(s)
    BY <2>2 DEF Confirm, RevokeFrame
  <2> QED
    BY <2>1, <2>2
<1>4. /\ j \in Jobs \ {"enroll", "dial"} /\ j \notin PortalJobs
      /\ x \in Steps /\ x # "reply" /\ k \in Ref
  BY TokenLemma DEF Jobs, Steps, PortalJobs
<1>5. \A t \in Slot : MinorCall(t)
  BY <1>3, <1>4, CallMinor DEF Inv
<1> QED
  BY <1>2, <1>5, RetryKeeps

\* The portal of a frame with a boot file is not used.
LEMMA PortalRetry ==
  ASSUME Inv, TypeOK', RetryOK,
         \/ expireIfNeeded
         \/ \E s \in Slot : \/ Connect(s) \/ ConnectReply(s) \/ Poll(s) \/ PollReply(s)
                           \/ RegisterReply(s) \/ Disconnect(s) \/ UnlinkReply(s)
  PROVE  RetryOK'
<1>0. ThreadOK /\ AwayOK /\ TypeOK
  BY DEF RetryOK, Inv
<1>1. ~plan.boot
  <2> SUFFICES ASSUME plan.boot
               PROVE  FALSE
    OBVIOUS
  <2>1. /\ plan.requests = 0 /\ ~plan.portal /\ link.status # "connecting"
        /\ \A s \in Slot : call[s].job \notin PortalJobs
    BY <1>0 DEF AwayOK
  <2>2. \A s \in Slot : ~Connect(s)
    BY <2>1 DEF Connect, Spend
  <2>3. ~expireIfNeeded /\ \A s \in Slot : ~Poll(s) /\ ~Disconnect(s)
    BY <2>1 DEF expireIfNeeded, Poll, Disconnect
  <2>4. \A s \in Slot : ~ConnectReply(s) /\ ~PollReply(s) /\ ~RegisterReply(s) /\ ~UnlinkReply(s)
    BY <2>1 DEF ConnectReply, PollReply, RegisterReply, UnlinkReply, At, PortalJobs
  <2> QED
    BY <2>2, <2>3, <2>4
<1>2. /\ UNCHANGED <<client, claim, overlap, pending>> /\ (Free \/ Spend("requests"))
  BY DEF expireIfNeeded, Connect, ConnectReply, Poll, PollReply, RegisterReply, Disconnect,
         UnlinkReply, cloud, device
<1>3. Undisturbed
  <2>1. PlanStays
    BY <1>0, <1>2, PlanLemma
  <2>2. Settled' => Settled
    BY <1>2 DEF Settled
  <2> QED
    BY <1>1, <1>2, <2>1, <2>2, StillUndisturbed DEF Undisturbed
<1>4. \A t \in Slot : MinorCall(t)
  <2>1. CASE expireIfNeeded
    BY <1>0, <1>1, <2>1, MinorStill DEF expireIfNeeded, MinorCall, MinorAway
  <2>2. ASSUME NEW s \in Slot, Connect(s)
        PROVE  \A t \in Slot : MinorCall(t)
    <3>1. Start(s, "connect", "reply", plan.requests, "portal") /\ plan.requests \in Ref
      BY <1>0, <2>2 DEF Connect, TypeOK, Plan, Ref
    <3>2. "connect" \in Jobs \ {"enroll", "dial"} /\ "reply" \in Steps
      BY DEF Jobs, Steps
    <3> QED
      BY <1>0, <1>1, <3>1, <3>2, CallMinor
  <2>3. ASSUME NEW s \in Slot, Poll(s)
        PROVE  \A t \in Slot : MinorCall(t)
    <3>1. Start(s, "poll", "read", link.code, "portal") /\ link.code \in Ref
      BY <1>0, <2>3 DEF Poll, TypeOK
    <3>2. "poll" \in Jobs \ {"enroll", "dial"} /\ "read" \in Steps
      BY DEF Jobs, Steps
    <3> QED
      BY <1>0, <1>1, <3>1, <3>2, CallMinor
  <2>4. ASSUME NEW s \in Slot, Disconnect(s)
        PROVE  \A t \in Slot : MinorCall(t)
    <3>1. PICK x \in {"auth", "reply"} : Start(s, "unlink", x, link.token, "portal")
      BY <2>4 DEF Disconnect
    <3>2. "unlink" \in Jobs \ {"enroll", "dial"} /\ x \in Steps /\ link.token \in Ref
      BY <1>0 DEF Jobs, Steps, TypeOK
    <3> QED
      BY <1>0, <1>1, <3>1, <3>2, CallMinor
  <2>5. ASSUME NEW s \in Slot, Return(s)
        PROVE  \A t \in Slot : MinorCall(t)
    BY <1>0, <2>5, CallMinor
  <2>6. ASSUME NEW s \in Slot, PollReply(s), ~Return(s)
        PROVE  \A t \in Slot : MinorCall(t)
    <3> DEFINE y == [call[s] EXCEPT !.job = "register", !.at = "auth", !.answer = ""]
    <3>1. call \in [Slot -> Call] /\ call[s] \in Call
      BY <1>0 DEF TypeOK
    <3>2. y \in Call /\ y.job = "register" /\ y.at = "auth" /\ y.for = call[s].for
      <4>1. "register" \in Jobs /\ "auth" \in Steps
        BY DEF Jobs, Steps
      <4> QED
        BY <3>1, <4>1 DEF Call
    <3>3. call' = [call EXCEPT ![s] = y]
      BY <2>6, <3>1 DEF PollReply
    <3> HIDE DEF y
    <3>4. Only(s) /\ call'[s] = y
      BY <1>0, <3>2, <3>3, PutLemma
    <3>5. call[s].for # "thread"
      BY <1>0, <2>6 DEF PollReply, At, ThreadOK
    <3>6. MinorCall(s)
      BY <1>1, <3>2, <3>4, <3>5 DEF MinorCall, MinorEnroll, MinorDial, MinorThread, MinorAway,
           Enrolling, Dials
    <3>7. \A t \in Slot : t # s => MinorCall(t)
      BY <1>0, <1>1, <3>4, MinorStill DEF Only, MinorCall, MinorAway
    <3> QED
      BY <3>6, <3>7
  <2>7. \A s \in Slot : ConnectReply(s) \/ RegisterReply(s) \/ UnlinkReply(s) => Return(s)
    BY DEF ConnectReply, RegisterReply, UnlinkReply
  <2> QED
    BY <2>1, <2>2, <2>3, <2>4, <2>5, <2>6, <2>7
<1> QED
  BY <1>3, <1>4, RetryKeeps

\* Callers that give up, restarts, clocks and revocations.
LEMMA OutsideRetry ==
  ASSUME Inv, TypeOK', RetryOK,
         \/ \E s \in Slot : GiveUp(s)
         \/ DeviceCrash \/ clearPendingEnrollment \/ RevokeClient \/ RequestDue \/ GraceEnds
         \/ ClaimExpires \/ PendingExpires \/ UNCHANGED vars
  PROVE  RetryOK'
<1>0. ThreadOK /\ AwayOK /\ TypeOK
  BY DEF RetryOK, Inv
<1>1. /\ overlap' = overlap /\ (claim.expired => claim'.expired)
      /\ Free \/ \E b \in {"requests", "attempts", "faults", "crashes", "clicks"} : Spend(b)
  <2>1. claim.expired => claim'.expired
    BY <1>0 DEF GiveUp, DeviceCrash, clearPendingEnrollment, RevokeClient, RequestDue, GraceEnds,
         ClaimExpires, PendingExpires, vars, cloud, TypeOK
  <2>2. overlap' = overlap
    BY DEF GiveUp, DeviceCrash, clearPendingEnrollment, RevokeClient, RequestDue, GraceEnds,
         ClaimExpires, PendingExpires, vars
  <2>3. Free \/ \E b \in {"requests", "attempts", "faults", "crashes", "clicks"} : Spend(b)
    BY DEF GiveUp, DeviceCrash, clearPendingEnrollment, RevokeClient, RequestDue, GraceEnds,
         ClaimExpires, PendingExpires, vars, Free
  <2> QED
    BY <2>1, <2>2, <2>3
<1>2. TokensStay /\ FramesStay
  <2>1. CASE GraceEnds \/ RevokeClient
    <3>1. PICK c \in Token : \/ client' = [client EXCEPT ![c].grace = FALSE]
                             \/ client' = [client EXCEPT ![c].revoked = TRUE]
      BY <2>1 DEF GraceEnds, RevokeClient
    <3>2. ClientsKept
      BY <1>0, <3>1, RowLemma
    <3> QED
      BY <1>1, <3>2 DEF ClientsKept, TokensStay, FramesStay, PendingFrame
  <2>2. CASE client' = client
    BY <1>1, <2>2 DEF TokensStay, FramesStay, PendingFrame
  <2> QED
    BY <2>1, <2>2 DEF GiveUp, DeviceCrash, clearPendingEnrollment, RequestDue, ClaimExpires,
         PendingExpires, vars, cloud
<1>3. Undisturbed
  <2>1. PlanStays
    BY <1>0, <1>1, PlanLemma
  <2>2. plan.boot => link' = link
    <3>1. plan.boot => \A s \in Slot : call[s].job # "unlink"
      BY <1>0 DEF AwayOK, PortalJobs
    <3> QED
      BY <3>1 DEF GiveUp, DeviceCrash, clearPendingEnrollment, RevokeClient, RequestDue, GraceEnds,
           ClaimExpires, PendingExpires, vars, device
  <2>3. CASE PendingExpires
    <3>1. /\ claim.expired /\ UNCHANGED <<claim, call>>
          /\ \A s \in Slot : call[s].for # "thread"
      BY <2>3 DEF PendingExpires, ThreadFree, cloud
    <3>2. ~Settled'
      BY <3>1 DEF Settled
    <3>3. \A s \in Slot : call'[s].for # "thread"
      BY <3>1
    <3> QED
      BY <1>2, <2>1, <2>2, <3>2, <3>3 DEF Undisturbed
  <2>4. CASE ~PendingExpires
    <3>1. /\ pending' # "file" => pending # "file"
          /\ pending' = "settled" => pending = "settled"
      BY <2>4 DEF GiveUp, DeviceCrash, clearPendingEnrollment, RevokeClient, RequestDue, GraceEnds,
           ClaimExpires, vars, device
    <3>2. Settled' => Settled
      BY <1>1, <3>1 DEF Settled
    <3> QED
      BY <1>2, <2>1, <2>2, <3>1, <3>2 DEF Undisturbed
  <2> QED
    BY <2>3, <2>4
<1>4. \A t \in Slot : \/ call'[t] \in {call[t], NoCall}
                      \/ call'[t] = [call[t] EXCEPT !.for = "nobody"] /\ call[t].at # "reply"
  <2>1. CASE \E s \in Slot : GiveUp(s)
    BY <1>0, <2>1 DEF GiveUp, TypeOK
  <2>2. CASE DeviceCrash
    BY <2>2 DEF DeviceCrash
  <2>3. CASE call' = call
    BY <2>3
  <2> QED
    BY <2>1, <2>2, <2>3 DEF clearPendingEnrollment, RevokeClient, RequestDue, GraceEnds,
         ClaimExpires, PendingExpires, vars
<1>5. \A t \in Slot : MinorCall(t)
  <2> SUFFICES ASSUME NEW t \in Slot
               PROVE  MinorCall(t)
    OBVIOUS
  <2>1. CASE call'[t] \in {call[t], NoCall}
    <3>1. NoCall.job = "none" /\ NoCall.for = "nobody"
      BY DEF NoCall
    <3>2. MinorAway(t)
      BY <1>0, <2>1, <3>1 DEF MinorAway, AwayOK, PortalJobs
    <3> QED
      BY <1>0, <2>1, <3>2, MinorStill DEF MinorCall
  <2>2. CASE call'[t] = [call[t] EXCEPT !.for = "nobody"] /\ call[t].at # "reply"
    <3>1. call[t] \in Call
      BY <1>0 DEF TypeOK
    <3>2. /\ call'[t].job = call[t].job /\ call'[t].at = call[t].at
          /\ call'[t].key = call[t].key /\ call'[t].on = call[t].on
          /\ call'[t].answer = call[t].answer /\ call'[t].for = "nobody"
      BY <2>2, <3>1 DEF Call
    <3>3. MinorEnroll(t) /\ MinorDial(t) /\ MinorThread(t)
      BY <2>2, <3>2, SameMinor DEF MinorThread, Same
    <3>4. MinorAway(t)
      BY <1>0, <3>2 DEF MinorAway, AwayOK
    <3> QED
      BY <3>3, <3>4 DEF MinorCall
  <2> QED
    BY <1>4, <2>1, <2>2
<1> QED
  BY <1>3, <1>5, RetryKeeps

-----------------------------------------------------------------------------
(* Attempts that read, dials.                                              *)

\* The call of an attempt or a dial moves.
LEMMA StepMinor ==
  ASSUME RetryOK, NEW s \in Slot, NEW x, NEW c, NEW a, Moves(s, x, c, a),
         x # "reply" \/ call[s].for # "nobody", MinorEnroll(s), MinorDial(s)
  PROVE  \A t \in Slot : MinorCall(t)
<1>1. ThreadOK /\ AwayOK
  BY DEF RetryOK
<1>2. MinorThread(s) /\ MinorAway(s)
  BY <1>1 DEF Moves, MinorThread, MinorAway, AwayOK
<1>3. ASSUME NEW t \in Slot, t # s
      PROVE  MinorCall(t)
  <2>1. call'[t] = call[t]
    BY <1>3 DEF Moves, Only
  <2>2. MinorAway(t)
    BY <1>1, <2>1 DEF MinorAway, AwayOK
  <2> QED
    BY <1>1, <2>1, <2>2, MinorStill DEF MinorCall
<1> QED
  BY <1>2, <1>3 DEF MinorCall

\* As long as the claim token is not used, no frame waits.
LEMMA NoUseNoFrame ==
  ASSUME Inv, LinkOK, claim.uses = 0
  PROVE  NoFrame
<1> DEFINE S == {c \in Attempts : client[c].cur # 0}
<1>1. IsFiniteSet(S)
  <2>1. IsFiniteSet(Attempts)
    BY FS_Interval, NumberLemma DEF Inv, Attempts
  <2> QED
    BY <2>1, FS_Subset
<1>2. S = {}
  <2>1. Cardinality(S) = 0
    BY DEF Inv, BudgetExact
  <2> HIDE DEF S
  <2> QED
    BY <1>1, <2>1, FS_EmptySet
<1>3. \A c \in Token : PendingFrame(c) => c \in S
  BY DEF PendingFrame, Inv, TokensOK, LinkOK, OwnOK
<1> QED
  BY <1>2, <1>3 DEF NoFrame

\* The replay's reads: no frame, or the one there is.
LEMMA ReplayReadsRetry ==
  ASSUME Inv, LinkOK, TypeOK', RetryOK, NEW s \in Slot, ReplayLookup(s) \/ ReplayFind(s)
  PROVE  RetryOK'
<1>1. /\ call[s].job = "enroll" /\ call[s].at # "reply" /\ Free
      /\ UNCHANGED <<client, claim, overlap, device>>
  BY DEF ReplayLookup, ReplayFind, At, cloud
<1>2. Undisturbed
  BY <1>1, StillUndisturbed, DeviceUndisturbed DEF Inv
<1>3. TypeOK /\ OneFrameOK /\ \A x \in {"redeem", "find", "rotate"} : x \in Steps
  BY DEF Inv, RetryOK, Steps
<1>4. ASSUME NEW x \in {"redeem", "find", "rotate"}, NEW c, NEW a, Moves(s, x, c, a),
             overlap \/ FitsFrame(call[s])'
      PROVE  \A t \in Slot : MinorCall(t)
  <2>1. MinorEnroll(s) /\ MinorDial(s)
    BY <1>1, <1>4 DEF Moves, MinorEnroll, MinorDial, Enrolling, Dials
  <2> QED
    BY <1>4, <2>1, StepMinor
<1>5. ASSUME Goto(s, "redeem"), claim.expired \/ NoFrame
      PROVE  \A t \in Slot : MinorCall(t)
  <2>1. Moves(s, "redeem", call[s].on, call[s].answer)
    BY <1>3, <1>5, MoveLemma
  <2>2. claim'.expired \/ NoFrame'
    BY <1>1, <1>5 DEF NoFrame, PendingFrame
  <2>3. FitsFrame(call[s])'
    BY <2>1, <2>2 DEF Moves, FitsFrame
  <2> QED
    BY <1>4, <2>1, <2>3
<1>6. CASE Goto(s, "find")
  <2>1. Moves(s, "find", call[s].on, call[s].answer)
    BY <1>3, <1>6, MoveLemma
  <2>2. FitsFrame(call[s])'
    BY <2>1 DEF Moves, FitsFrame
  <2> QED
    BY <1>2, <1>4, <2>1, <2>2, RetryKeeps
<1>7. CASE ReplayLookup(s) /\ ~Goto(s, "find")
  BY <1>2, <1>5, <1>7, NoUseNoFrame, RetryKeeps DEF ReplayLookup
<1>8. CASE ReplayFind(s)
  <2>1. CASE (\A c \in Token : ~PendingFrame(c)) /\ Goto(s, "redeem")
    BY <1>2, <1>5, <2>1, RetryKeeps DEF NoFrame
  <2>2. ASSUME NEW c \in Token, PendingFrame(c), GotoOn(s, "rotate", c)
        PROVE  \A t \in Slot : MinorCall(t)
    <3>1. Moves(s, "rotate", c, call[s].answer)
      BY <1>3, <2>2, TokenLemma, MoveLemma
    <3>2. overlap \/ \A d \in Token : PendingFrame(d) => d = c
      BY <1>3, <2>2 DEF OneFrameOK
    <3>3. overlap \/ FitsFrame(call[s])'
      BY <1>1, <3>1, <3>2 DEF Moves, FitsFrame, PendingFrame
    <3> QED
      BY <1>4, <3>1, <3>3
  <2> QED
    BY <1>2, <1>8, <2>1, <2>2, RetryKeeps DEF ReplayFind
<1> QED
  BY <1>6, <1>7, <1>8

\* The token of a dial that finds its client is the one frame's that waits with it.
LEMMA AuthRetry ==
  ASSUME Inv, TypeOK', RetryOK, NEW s \in Slot, Auth(s)
  PROVE  RetryOK'
<1>1. UNCHANGED <<client, claim, overlap, device>> /\ Free
  BY DEF Auth, cloud
<1>2. Undisturbed
  BY <1>1, StillUndisturbed, DeviceUndisturbed DEF Inv
<1>3. call[s].job \in GuardedJobs /\ call[s].at = "auth" /\ TypeOK /\ UniqueOK
  BY HeldLemma DEF Auth, CallGood, Inv, RetryOK
<1>4. AfterAuth[call[s].job] \in {"find", "commit"}
  BY <1>3 DEF AfterAuth, GuardedJobs
<1>5. \/ (\A c \in Token : ~Matches(c, call[s].key)) /\ Reply(s, "refused")
      \/ \E c \in Token, x \in {"retire", "find", "commit"} :
           Matches(c, call[s].key) /\ GotoOn(s, x, c)
  BY <1>4 DEF Auth
<1>6. "refused" \in Answers /\ \A x \in {"retire", "find", "commit"} : x \in Steps \ {"reply"}
  BY DEF Answers, Steps
<1>7. CASE call[s].job # "dial"
  <2>1. call[s].job \notin {"enroll", "dial"}
    BY <1>3, <1>7 DEF GuardedJobs
  <2>2. \A t \in Slot : MinorCall(t)
    BY <1>3, <1>5, <1>6, <2>1, TokenLemma, CallMinor
  <2> QED
    BY <1>2, <2>2, RetryKeeps
<1>8. CASE call[s].job = "dial"
  <2>1. ASSUME NEW x, NEW c, NEW a, Moves(s, x, c, a)
        PROVE  MinorEnroll(s)
    BY <1>8, <2>1 DEF Moves, MinorEnroll, Enrolling
  <2>2. ASSUME \A c \in Token : ~Matches(c, call[s].key), Moves(s, "reply", call[s].on, "refused"),
               call[s].for # "nobody"
        PROVE  \A t \in Slot : MinorCall(t)
    <3>1. \A d \in Token : PendingFrame(d) => client[d].cur # call[s].key
      BY <2>2 DEF Inv, TokensOK, PendingFrame, Matches
    <3>2. MinorDial(s)
      BY <1>8, <2>2, <3>1 DEF Moves, MinorDial, Dials
    <3> QED
      BY <2>1, <2>2, <3>2, StepMinor
  <2>3. ASSUME NEW c \in Token, NEW x \in {"retire", "find", "commit"}, Matches(c, call[s].key),
               Moves(s, x, c, call[s].answer)
        PROVE  \A t \in Slot : MinorCall(t)
    <3>1. \A d \in Token : client[d].cur = call[s].key => d = c
      BY <1>3, <2>3 DEF Matches, UniqueOK, Tokens
    <3>2. \A d \in Token : client[d].cur = call[s].key => FindsFrame(call'[s], d)
      BY <2>3, <3>1 DEF Moves, FindsFrame
    <3>3. MinorDial(s)
      BY <1>8, <2>3, <3>2 DEF Moves, MinorDial, Dials
    <3> QED
      BY <2>1, <2>3, <3>3, StepMinor
  <2>4. CASE (\A c \in Token : ~Matches(c, call[s].key)) /\ Reply(s, "refused")
    <3>1. \/ Return(s)
          \/ call[s].for # "nobody" /\ Moves(s, "reply", call[s].on, "refused")
      BY <1>3, <1>6, <2>4, MoveLemma
    <3>2. \A t \in Slot : MinorCall(t)
      BY <1>3, <2>2, <2>4, <3>1, CallMinor
    <3> QED
      BY <1>2, <3>2, RetryKeeps
  <2>5. CASE \E c \in Token, x \in {"retire", "find", "commit"} :
               Matches(c, call[s].key) /\ GotoOn(s, x, c)
    <3>1. PICK c \in Token, x \in {"retire", "find", "commit"} :
                 Matches(c, call[s].key) /\ GotoOn(s, x, c)
      BY <2>5
    <3>2. Moves(s, x, c, call[s].answer)
      BY <1>3, <1>6, <3>1, TokenLemma, MoveLemma
    <3> QED
      BY <1>2, <2>3, <3>1, <3>2, RetryKeeps
  <2> QED
    BY <1>5, <2>4, <2>5
<1> QED
  BY <1>7, <1>8

\* The previous token retires, the call keeps its client.
LEMMA RetireRetry ==
  ASSUME Inv, TypeOK', RetryOK, NEW s \in Slot, Retire(s)
  PROVE  RetryOK'
<1>1. Undisturbed
  BY WritesHarmless, HarmlessUndisturbed
<1>2. call[s].job \in GuardedJobs /\ call[s].at = "retire" /\ TypeOK
  BY HeldLemma DEF Retire, CallGood, Inv
<1>3. CASE call[s].job # "dial"
  <2>1. call[s].job \notin {"enroll", "dial"}
    BY <1>2, <1>3 DEF GuardedJobs
  <2>2. AfterAuth[call[s].job] \in {"find", "commit"}
    BY <1>2 DEF AfterAuth, GuardedJobs
  <2>3. \E x \in Steps \ {"reply"} : Goto(s, x)
    BY <2>2 DEF Retire, Steps
  <2>4. \A t \in Slot : MinorCall(t)
    BY <1>2, <2>1, <2>3, CallMinor
  <2> QED
    BY <1>1, <2>4, RetryKeeps
<1>4. CASE call[s].job = "dial"
  <2>1. Goto(s, "find") /\ "find" \in Steps
    BY <1>4 DEF Retire, AfterAuth, Steps
  <2>2. Moves(s, "find", call[s].on, call[s].answer)
    BY <1>2, <2>1, MoveLemma
  <2>3. MinorEnroll(s)
    BY <1>4, <2>2 DEF Moves, MinorEnroll, Enrolling
  <2>4. MinorDial(s)
    BY <1>2, <1>4, <2>2 DEF Moves, MinorDial, Dials, FindsFrame
  <2>5. \A t \in Slot : MinorCall(t)
    BY <2>2, <2>3, <2>4, StepMinor
  <2> QED
    BY <1>1, <2>5, RetryKeeps
<1> QED
  BY <1>3, <1>4

\* A frame that waits may connect.
LEMMA DialFindRetry ==
  ASSUME Inv, TypeOK', RetryOK, NEW s \in Slot, DialFind(s)
  PROVE  RetryOK'
<1>1. /\ call[s].job = "dial" /\ call[s].at = "find" /\ Free /\ TypeOK
      /\ UNCHANGED <<client, claim, overlap, device>>
  BY DEF DialFind, At, cloud, Inv
<1>2. Undisturbed
  BY <1>1, StillUndisturbed, DeviceUndisturbed
<1> DEFINE a == IF client[call[s].on].frame \in {"pending", "active"} THEN "ok" ELSE "refused"
<1>3. /\ a \in {"ok", "refused"} /\ Reply(s, a)
      /\ client[call[s].on].frame = "pending" => a = "ok"
  BY DEF DialFind
<1> HIDE DEF a
<1>4. \/ Return(s)
      \/ call[s].for # "nobody" /\ Moves(s, "reply", call[s].on, a)
  BY <1>1, <1>3, MoveLemma DEF Answers
<1>5. CASE Return(s)
  <2>1. \A t \in Slot : MinorCall(t)
    BY <1>1, <1>5, CallMinor
  <2> QED
    BY <1>2, <2>1, RetryKeeps
<1>6. CASE call[s].for # "nobody" /\ Moves(s, "reply", call[s].on, a)
  <2>1. MinorEnroll(s)
    BY <1>1, <1>6 DEF Moves, MinorEnroll, Enrolling
  <2>2. \A c \in Token : PendingFrame(c) /\ FindsFrame(call[s], c) => a # "refused"
    BY <1>1, <1>3 DEF FindsFrame, PendingFrame
  <2>3. MinorDial(s)
    BY <1>1, <1>6, <2>2 DEF Moves, MinorDial, Dials, FindsFrame
  <2>4. \A t \in Slot : MinorCall(t)
    BY <1>6, <2>1, <2>3, StepMinor
  <2> QED
    BY <1>2, <2>4, RetryKeeps
<1> QED
  BY <1>4, <1>5, <1>6

-----------------------------------------------------------------------------
(* Tokens and frames that are made, answers that are taken.                *)

\* The client of an approved request has a token of its own.
LEMMA ApproveRetry ==
  ASSUME Inv, LinkOK, TypeOK', RetryOK, NEW s \in Slot, ApproveCommit(s)
  PROVE  RetryOK'
<1> DEFINE r == call[s].key
           y == [NoClient EXCEPT !.cur = r, !.sealed = TRUE]
<1>0. TypeOK /\ UniqueOK /\ OneFrameOK /\ ThreadOK /\ AwayOK /\ BootOK
  BY DEF Inv, RetryOK
<1>1. /\ call[s].job = "approve" /\ Reply(s, "ok") /\ "ok" \in Answers /\ Free
      /\ UNCHANGED <<claim, link, pending, overlap>>
  BY DEF ApproveCommit, At, device, Answers
<1>2. \A t \in Slot : MinorCall(t)
  BY <1>0, <1>1, CallMinor
<1>3. r \in Request /\ r \in Token /\ r \notin Attempts /\ r # 0
  <2>1. r \in Request
    BY <1>1, HeldLemma DEF RequestJobs
  <2> HIDE DEF r
  <2> QED
    BY <2>1, TokenLemma DEF Request, Attempts
<1>4. \/ client' = client
      \/ client[r].cur = 0 /\ client' = [client EXCEPT ![r] = y]
  BY <1>3 DEF ApproveCommit, Inv, ApprovedOK
<1>5. y.cur = r /\ y.prev = 0 /\ y.frame = "none"
  BY DEF NoClient
<1> HIDE DEF r, y
<1>6. \A c \in Token : client'[c] = client[c] \/ (c = r /\ client'[c] = y)
  BY <1>4, ClientRows
<1>7. \A d \in Token : d # r => r \notin Tokens(d)
  <2> SUFFICES ASSUME NEW d \in Token, d # r
               PROVE  client[d].cur # r /\ client[d].prev # r
    BY DEF Tokens
  <2>1. CASE d \in Request
    BY <1>0, <1>3, <2>1 DEF LinkOK, OwnOK, UniqueOK
  <2>2. CASE d \in Attempts
    BY <1>0, <1>3, <2>2 DEF LinkOK, OwnOK, UniqueOK
  <2>3. d \in Request \/ d \in Attempts
    BY DEF Token, Request, Attempts
  <2> QED
    BY <2>1, <2>2, <2>3
<1>8. \A c \in Token : Tokens(c)' \subseteq Tokens(c) \cup {0, r} /\ (c # r => client'[c] = client[c])
  BY <1>5, <1>6 DEF Tokens
<1>9. UniqueOK'
  <2>1. ASSUME NEW c \in Token, NEW d \in Token, c # d, client'[c].cur # 0
        PROVE  client'[c].cur \notin Tokens(d)'
    <3>1. CASE c = r /\ client'[c] = y
      BY <1>3, <1>5, <1>7, <1>8, <2>1, <3>1 DEF Tokens
    <3>2. CASE client'[c] = client[c]
      <4>1. client[c].cur \notin Tokens(d) /\ client[c].cur # 0
        BY <1>0, <2>1, <3>2 DEF UniqueOK
      <4>2. CASE d = r /\ client'[d] = y
        <5>1. client[c].cur # r
          BY <1>7, <2>1, <4>2 DEF Tokens
        <5> QED
          BY <1>5, <3>2, <4>1, <4>2, <5>1 DEF Tokens
      <4>3. CASE client'[d] = client[d]
        BY <3>2, <4>1, <4>3 DEF Tokens
      <4> QED
        BY <1>6, <4>2, <4>3
    <3> QED
      BY <1>6, <3>1, <3>2
  <2>2. ASSUME NEW t \in Slot, Enrolling(t)', call'[t].at # "reply", NEW c \in Token
        PROVE  call'[t].key \notin Tokens(c)'
    <3>1. Enrolling(t) /\ call[t].at # "reply" /\ call'[t].key = call[t].key
      BY <1>2, <2>2 DEF MinorCall, MinorEnroll
    <3>2. call[t].key # 0 /\ call[t].key # r
      BY <1>3, <3>1, HeldAttempt DEF Enrolling
    <3> QED
      BY <1>0, <1>8, <3>1, <3>2 DEF UniqueOK
  <2>3. ASSUME NEW t \in Attempts, t <= MaxReq + plan'.attempts, NEW c \in Token
        PROVE  t \notin Tokens(c)'
    <3>1. t # 0 /\ t # r
      BY <1>3 DEF Attempts
    <3> QED
      BY <1>0, <1>1, <1>8, <2>3, <3>1 DEF UniqueOK, Free
  <2>4. \A q \in Request : client'[q].prev = 0
    BY <1>0, <1>5, <1>6, TokenLemma DEF UniqueOK
  <2>5. \A c \in Attempts : client'[c].prev \in {0} \cup Attempts
    BY <1>0, <1>3, <1>8, TokenLemma DEF UniqueOK
  <2> QED
    BY <2>1, <2>2, <2>3, <2>4, <2>5 DEF UniqueOK
<1>10. FramesStay
  BY <1>1, <1>5, <1>6 DEF FramesStay, PendingFrame
<1>11. PlanStays
  BY <1>0, <1>1, PlanLemma
<1>12. OneFrameOK'
  BY <1>0, <1>2, <1>10, FrameKeeps DEF MinorCall
<1>13. ThreadOK'
  BY <1>0, <1>1, <1>2, ThreadKeeps DEF MinorCall
<1>14. AwayOK'
  <2>1. plan.boot => link'.status # "connecting" /\ link'.token \notin Request
    BY <1>0, <1>1 DEF AwayOK
  <2> QED
    BY <1>0, <1>2, <1>11, <2>1, AwayKeeps DEF MinorCall
<1>15. BootOK'
  <2>1. Settled' => Settled
    BY <1>1 DEF Settled
  <2> QED
    BY <1>0, <1>1, <1>2, <1>10, <1>11, <2>1, BootKeeps DEF MinorCall
<1> QED
  BY <1>9, <1>12, <1>13, <1>14, <1>15 DEF RetryOK

\* An attempt gives a client of an attempt its own token, and it has the one frame
\* that waits.
LEMMA GrantRetry ==
  ASSUME Inv, LinkOK, TypeOK', RetryOK, NEW s \in Slot, call[s].job = "enroll",
         call[s].at # "reply", Reply(s, "ok"), Free, UNCHANGED <<link, pending, overlap>>,
         claim'.expired = claim.expired,
         NEW c \in Attempts, NEW y \in ClientRow, y.cur = call[s].key, y.prev \in {0, client[c].cur},
         client' = [client EXCEPT ![c] = y],
         ~overlap => \A d \in Token : PendingFrame(d)' => d = c
  PROVE  RetryOK'
<1> DEFINE k == call[s].key
<1>0. TypeOK /\ UniqueOK /\ OneFrameOK /\ ThreadOK /\ AwayOK /\ BootOK /\ Enrolling(s)
  BY DEF Inv, RetryOK, Enrolling
<1>1. /\ k \in Attempts /\ k # 0 /\ k > MaxReq + plan.attempts /\ c \in Token /\ c \notin Request
      /\ \A d \in Token : k \notin Tokens(d)
  BY <1>0, HeldAttempt, TokenLemma DEF Attempts, Request, UniqueOK
<1>2. /\ Only(s)
      /\ \/ call'[s] = NoCall
         \/ /\ call[s].for # "nobody" /\ call'[s].at = "reply" /\ call'[s].job = "enroll"
            /\ call'[s].key = k /\ call'[s].answer = "ok" /\ call'[s].for = call[s].for
  BY <1>0, MoveLemma DEF Answers, Moves
<1>3. /\ client'[c].cur = k /\ client'[c].prev \in {0, client[c].cur}
      /\ \A d \in Token : d # c => client'[d] = client[d]
  BY <1>1, ClientRows
<1>4. plan' = plan
  BY DEF Free
<1>5. \A t \in Slot : t # s => call'[t] = call[t] /\ MinorThread(t) /\ MinorAway(t)
  BY <1>0, <1>2, MinorStill DEF Only, AwayOK, MinorAway
<1> HIDE DEF k
<1>6. UniqueOK'
  <2>1. ASSUME NEW d \in Token, NEW e \in Token, d # e, client'[d].cur # 0
        PROVE  client'[d].cur \notin Tokens(e)'
    <3>1. CASE d = c
      BY <1>1, <1>3, <2>1, <3>1 DEF Tokens
    <3>2. CASE e = c
      <4>1. client'[d].cur = client[d].cur /\ client[d].cur # k /\ client[d].cur # client[c].cur
        BY <1>0, <1>1, <1>3, <2>1, <3>2 DEF UniqueOK, Tokens
      <4> QED
        BY <1>3, <2>1, <3>2, <4>1 DEF Tokens
    <3>3. CASE d # c /\ e # c
      BY <1>0, <1>3, <2>1, <3>3 DEF UniqueOK, Tokens
    <3> QED
      BY <3>1, <3>2, <3>3
  <2>2. \A d \in Token : Tokens(d)' \subseteq Tokens(d) \cup {0, k}
    BY <1>3 DEF Tokens
  <2>3. ASSUME NEW t \in Slot, Enrolling(t)', call'[t].at # "reply", NEW d \in Token
        PROVE  call'[t].key \notin Tokens(d)'
    <3>1. t # s
      BY <1>2, <2>3, NoCallLemma DEF Enrolling
    <3>2. call'[t] = call[t] /\ Enrolling(t)
      BY <1>5, <2>3, <3>1 DEF Enrolling
    <3>3. call[t].key # 0 /\ call[t].key # k
      BY <1>0, <3>1, <3>2, HeldAttempt DEF Enrolling, Inv, CallsOK, Apart, k
    <3> QED
      BY <1>0, <2>2, <2>3, <3>2, <3>3 DEF UniqueOK
  <2>4. ASSUME NEW t \in Attempts, t <= MaxReq + plan'.attempts, NEW d \in Token
        PROVE  t \notin Tokens(d)'
    <3>1. plan.attempts \in Int /\ MaxReq \in Int
      BY <1>0, NumberLemma
    <3>2. t # 0 /\ t # k /\ t <= MaxReq + plan.attempts
      BY <1>1, <1>4, <2>4, <3>1 DEF Attempts
    <3> QED
      BY <1>0, <2>2, <3>2 DEF UniqueOK
  <2>5. \A q \in Request : client'[q].prev = 0
    BY <1>0, <1>1, <1>3, TokenLemma DEF UniqueOK
  <2>6. \A d \in Attempts : client'[d].prev \in {0} \cup Attempts
    BY <1>0, <1>3, TokenLemma DEF UniqueOK, LinkOK, OwnOK
  <2> QED
    BY <2>1, <2>3, <2>4, <2>5, <2>6 DEF UniqueOK
<1>7. OneFrameOK'
  <2> SUFFICES ASSUME ~overlap
               PROVE  /\ \A d, e \in Token : PendingFrame(d)' /\ PendingFrame(e)' => d = e
                      /\ \A t \in Slot : Enrolling(t)' => FitsFrame(call[t])'
    BY DEF OneFrameOK
  <2>1. \A d \in Token : PendingFrame(d)' => d = c
    OBVIOUS
  <2>2. \A t \in Slot : Enrolling(t)' => t = s
    BY <1>0, <1>5 DEF LinkOK, AloneOK, Enrolling
  <2>3. Enrolling(s)' => FitsFrame(call[s])'
    BY <1>2, <1>3, <2>1, NoCallLemma DEF FitsFrame, Enrolling
  <2> QED
    BY <2>1, <2>2, <2>3
<1>8. NoCall.job = "none" /\ NoCall.at # "reply" /\ NoCall.for = "nobody"
  <2>1. NoCall.for = "nobody"
    BY DEF NoCall
  <2> QED
    BY <2>1, NoCallLemma
<1>9. MinorThread(s) /\ MinorAway(s)
  BY <1>0, <1>2, <1>8 DEF MinorThread, MinorAway, AwayOK, PortalJobs
<1>10. ThreadOK'
  BY <1>0, <1>5, <1>9, ThreadKeeps
<1>11. AwayOK'
  <2>1. plan.boot => link'.status # "connecting" /\ link'.token \notin Request
    BY <1>0 DEF AwayOK
  <2> QED
    BY <1>0, <1>5, <1>9, <2>1, PlanLemma, AwayKeeps
<1>12. BootOK'
  <2> SUFFICES ASSUME plan.boot, ~overlap
               PROVE  ~Settled' /\ \A t \in Slot : Dials(t)' => call'[t].key = link'.token
    BY <1>4 DEF BootOK
  <2>1. ~Settled
    BY <1>0 DEF BootOK
  <2>2. ~Settled'
    BY <2>1 DEF Settled
  <2>3. ~Dials(s)'
    BY <1>2, <1>8 DEF Dials
  <2>4. \A t \in Slot : t # s /\ Dials(t)' => call'[t].key = link'.token
    BY <1>0, <1>5 DEF BootOK, Dials
  <2> QED
    BY <2>2, <2>3, <2>4
<1> QED
  BY <1>6, <1>7, <1>10, <1>11, <1>12 DEF RetryOK

\* The rotation is of the frame that waits; a redemption finds none, or is refused.
LEMMA EnrollRetry ==
  ASSUME Inv, LinkOK, TypeOK', RetryOK, NEW s \in Slot, ReplayRotate(s) \/ Redeem(s)
  PROVE  RetryOK'
<1>0. TypeOK /\ OneFrameOK
  BY DEF Inv, RetryOK
<1>1. /\ call[s].job = "enroll" /\ call[s].at # "reply" /\ Enrolling(s) /\ Free
      /\ UNCHANGED <<link, pending, overlap>>
  BY DEF ReplayRotate, Redeem, At, device, Enrolling
<1>2. client \in [Token -> ClientRow] /\ call[s].key \in Ref /\ call[s].key \in Attempts
  BY <1>1, ClientRows, HeldAttempt
<1>3. overlap \/ FitsFrame(call[s])
  BY <1>0, <1>1 DEF OneFrameOK
<1>4. CASE ReplayRotate(s)
  <2> DEFINE c == call[s].on
             y == [client[c] EXCEPT !.prev = client[c].cur, !.grace = TRUE, !.cur = call[s].key]
  <2>1. c \in Attempts /\ c \in Token /\ call[s].at = "rotate" /\ claim' = claim
    BY <1>4, TokenLemma DEF ReplayRotate, At, LinkOK, OwnOK
  <2>2. client[c] \in ClientRow
    BY <1>2, <2>1
  <2>3. /\ y \in ClientRow /\ y.cur = call[s].key /\ y.prev = client[c].cur
        /\ y.frame = client[c].frame /\ y.revoked = client[c].revoked
    BY <1>2, <2>2 DEF ClientRow
  <2>4. client' = [client EXCEPT ![c] = y]
    BY <1>2, <1>4, <2>2 DEF ReplayRotate, ClientRow
  <2>5. Reply(s, "ok")
    BY <1>4 DEF ReplayRotate
  <2>6. overlap \/ \A d \in Token : PendingFrame(d) => d = c
    BY <1>3, <2>1 DEF FitsFrame
  <2> HIDE DEF y, c
  <2>7. \A d \in Token : PendingFrame(d)' => PendingFrame(d)
    <3>1. \A d \in Token : client'[d] = IF d = c THEN y ELSE client[d]
      BY <1>2, <2>4
    <3> QED
      BY <2>3, <3>1 DEF PendingFrame
  <2>8. ~overlap => \A d \in Token : PendingFrame(d)' => d = c
    BY <2>6, <2>7
  <2> QED
    BY <1>1, <2>1, <2>3, <2>4, <2>5, <2>8, GrantRetry
<1>5. CASE Redeem(s) /\ UNCHANGED <<claim, client>> /\ Reply(s, "refused")
  <2>1. Undisturbed
    BY <1>0, <1>5, StillUndisturbed, DeviceUndisturbed DEF Redeem
  <2>2. \/ Return(s)
        \/ call[s].for # "nobody" /\ Moves(s, "reply", call[s].on, "refused")
    BY <1>0, <1>5, MoveLemma DEF Answers
  <2>3. CASE Return(s)
    <3>1. \A t \in Slot : MinorCall(t)
      BY <1>0, <2>3, CallMinor
    <3> QED
      BY <2>1, <3>1, RetryKeeps
  <2>4. CASE call[s].for # "nobody" /\ Moves(s, "reply", call[s].on, "refused")
    <3>1. overlap \/ claim.expired \/ NoFrame
      BY <1>3, <1>5 DEF Redeem, At, FitsFrame
    <3>2. NoFrame => NoFrame'
      BY <1>5 DEF NoFrame, PendingFrame
    <3>3. overlap \/ FitsFrame(call[s])'
      BY <1>5, <2>4, <3>1, <3>2 DEF Moves, FitsFrame
    <3>4. MinorEnroll(s) /\ MinorDial(s)
      BY <1>1, <2>4, <3>3 DEF Moves, MinorEnroll, MinorDial, Enrolling, Dials
    <3>5. \A t \in Slot : MinorCall(t)
      BY <2>4, <3>4, StepMinor
    <3> QED
      BY <2>1, <3>5, RetryKeeps
  <2> QED
    BY <2>2, <2>3, <2>4
<1>6. CASE Redeem(s) /\ ~(UNCHANGED <<claim, client>> /\ Reply(s, "refused"))
  <2> DEFINE k == call[s].key
             y == [NoClient EXCEPT !.cur = k, !.frame = "pending"]
  <2>1. /\ Reply(s, "ok") /\ client' = [client EXCEPT ![k] = y] /\ call[s].at = "redeem"
        /\ ~claim.expired /\ claim' = [claim EXCEPT !.uses = @ + 1]
    BY <1>6 DEF Redeem, At
  <2>2. claim'.expired = claim.expired
    BY <1>0, <2>1 DEF TypeOK
  <2>3. y \in ClientRow /\ y.cur = k /\ y.prev = 0
    <3>1. NoClient \in ClientRow /\ NoClient.prev = 0
      BY DEF NoClient, ClientRow, Ref
    <3> QED
      BY <1>2, <3>1 DEF ClientRow
  <2>4. overlap \/ NoFrame
    BY <1>3, <2>1 DEF FitsFrame
  <2> HIDE DEF y, k
  <2>5. ~overlap => \A d \in Token : PendingFrame(d)' => d = k
    <3>1. \A d \in Token : d # k => client'[d] = client[d]
      BY <1>2, <2>1
    <3> QED
      BY <2>4, <3>1 DEF NoFrame, PendingFrame
  <2>6. k \in Attempts
    BY <1>2 DEF k
  <2>7. y.cur = call[s].key
    BY <2>3 DEF k
  <2> QED
    BY <1>1, <2>1, <2>2, <2>3, <2>5, <2>6, <2>7, GrantRetry
<1> QED
  BY <1>4, <1>5, <1>6

\* The thread takes the frame's own token, or there is no frame.
LEMMA EnrollReplyRetry ==
  ASSUME Inv, LinkOK, TypeOK', RetryOK, NEW s \in Slot, EnrollReply(s)
  PROVE  RetryOK'
<1>0. TypeOK /\ UniqueOK /\ OneFrameOK /\ ThreadOK /\ AwayOK /\ BootOK
  BY DEF Inv, RetryOK
<1>1. /\ call[s].job = "enroll" /\ call[s].at = "reply" /\ Return(s) /\ Free
      /\ UNCHANGED <<client, claim, overlap>> /\ Enrolling(s)
      /\ link' = IF call[s].answer = "ok"
                 THEN [status |-> "connected", code |-> 0, token |-> call[s].key,
                       frame |-> call[s].on]
                 ELSE link
      /\ pending' = IF call[s].for = "thread" /\ call[s].answer # "error" THEN "settled"
                    ELSE pending
  BY DEF EnrollReply, At, cloud, Enrolling
<1>2. /\ call[s].answer = "ok" => link'.token = call[s].key /\ link'.status = "connected"
      /\ call[s].answer # "ok" => link' = link
  BY <1>1
<1>3. \A t \in Slot : MinorCall(t)
  BY <1>0, <1>1, CallMinor
<1>4. TokensStay /\ FramesStay /\ PlanStays
  BY <1>0, <1>1, StillUndisturbed, PlanLemma
<1>5. UniqueOK'
  BY <1>0, <1>3, <1>4, UniqueKeeps DEF MinorCall, PlanStays
<1>6. OneFrameOK'
  BY <1>0, <1>3, <1>4, FrameKeeps DEF MinorCall
<1>7. NoCall.job = "none" /\ NoCall.for = "nobody"
  BY DEF NoCall
<1>8. Only(s) /\ call'[s] = NoCall
  BY <1>0, <1>1, ReturnLemma
<1>9. call[s].for = "thread" => \A t \in Slot : call'[t].for # "thread"
  BY <1>0, <1>7, <1>8 DEF ThreadOK, Only
<1>10. ThreadOK'
  BY <1>0, <1>1, <1>3, <1>9, ThreadKeeps DEF MinorCall
<1>11. AwayOK'
  <2>1. plan.boot => link'.status # "connecting" /\ link'.token \notin Request
    BY <1>0, <1>1, <1>2, HeldAttempt DEF AwayOK
  <2> QED
    BY <1>0, <1>3, <1>4, <2>1, AwayKeeps DEF MinorCall
<1>12. BootOK'
  <2> SUFFICES ASSUME plan.boot, ~overlap
               PROVE  /\ \A t \in Slot : ~Enrolling(t)' /\ ~Dials(t)'
                      /\ Settled' => \A c \in Token : PendingFrame(c) => client[c].cur = link'.token
    BY <1>1 DEF BootOK, Free, PendingFrame
  <2>1. call[s].for = "thread"
    <3>1. call[s].for \in {"nobody", "portal", "thread"}
      BY <1>0 DEF TypeOK, Call
    <3> QED
      BY <1>0, <1>1, <3>1 DEF ThreadOK, AwayOK
  <2>2. \A t \in Slot : ~Dials(t)'
    BY <1>9, <2>1 DEF Dials
  <2>3. \A t \in Slot : ~Enrolling(t)'
    BY <1>1, <1>7, <1>8 DEF LinkOK, AloneOK, Only, Enrolling
  <2>4. ASSUME Settled', NEW c \in Token, PendingFrame(c)
        PROVE  client[c].cur = link'.token
    <3>1. ~Settled /\ ~claim.expired /\ pending' # "file"
      BY <1>0, <1>1, <2>4 DEF BootOK, Settled
    <3>2. call[s].answer # "error"
      BY <1>1, <3>1 DEF Settled
    <3>3. FitsFrame(call[s])
      BY <1>0, <1>1 DEF OneFrameOK
    <3>4. call[s].answer = "ok"
      BY <1>1, <2>4, <3>1, <3>2, <3>3 DEF FitsFrame, NoFrame
    <3> QED
      BY <1>1, <1>2, <2>4, <3>3, <3>4 DEF FitsFrame
  <2> QED
    BY <2>2, <2>3, <2>4
<1> QED
  BY <1>5, <1>6, <1>10, <1>11, <1>12 DEF RetryOK

\* An attempt begins, with a token that is new.
LEMMA BeginRetry ==
  ASSUME Inv, LinkOK, TypeOK', RetryOK, NEW s \in Slot, EnrollBoot(s) \/ EnrollPortal(s)
  PROVE  RetryOK'
<1> DEFINE k == MaxReq + plan.attempts
<1>0. TypeOK /\ UniqueOK /\ OneFrameOK /\ ThreadOK /\ AwayOK /\ BootOK
  BY DEF Inv, RetryOK
<1>1. PICK w \in {"thread", "portal"} :
        /\ Enroll(s, w)
        /\ w = "thread" => pending = "file" /\ ThreadFree
        /\ w = "portal" => plan.portal
  BY DEF EnrollBoot, EnrollPortal
<1>2. /\ UNCHANGED <<client, claim, link, pending>> /\ overlap' = (overlap \/ Beside)
      /\ Start(s, "enroll", "read", k, w) /\ Spend("attempts")
  BY <1>1 DEF Enroll, cloud, device
<1>3. k \in Attempts /\ k \in Ref /\ PlanStays
  <2>1. plan.attempts \in 1 .. MaxAttempt
    BY <1>0, <1>2 DEF TypeOK, Plan, Spend
  <2>2. k \in Attempts
    BY <2>1 DEF Attempts
  <2> QED
    BY <1>0, <1>2, <2>2, TokenLemma, PlanLemma
<1>4. /\ Only(s) /\ call'[s].at = "read" /\ call'[s].job = "enroll"
      /\ call'[s].key = k /\ call'[s].for = w
  <2>1. "enroll" \in Jobs /\ "read" \in Steps /\ w \in Callers
    BY DEF Jobs, Steps, Callers
  <2> HIDE DEF k
  <2> QED
    BY <1>0, <1>2, <1>3, <2>1, StartMove
<1>5. \A t \in Slot : t # s => call'[t] = call[t] /\ MinorThread(t) /\ MinorAway(t)
  BY <1>0, <1>4, MinorStill DEF Only, AwayOK, MinorAway
<1>6. UniqueOK'
  <2>1. \A c \in Token : k \notin Tokens(c)
    BY <1>0, <1>3, NumberLemma DEF UniqueOK
  <2> HIDE DEF k
  <2>2. ASSUME NEW t \in Slot, Enrolling(t)', call'[t].at # "reply", NEW c \in Token
        PROVE  call'[t].key \notin Tokens(c)
    <3>1. CASE t = s
      BY <1>4, <2>1, <3>1
    <3>2. CASE t # s
      BY <1>0, <1>5, <2>2, <3>2 DEF UniqueOK, Enrolling
    <3> QED
      BY <3>1, <3>2
  <2>3. ASSUME NEW t \in Attempts, t <= MaxReq + plan'.attempts, NEW c \in Token
        PROVE  t \notin Tokens(c)
    <3>1. plan.attempts \in Int /\ plan'.attempts \in Int /\ MaxReq \in Int
      BY <1>0, NumberLemma DEF TypeOK, Plan
    <3>2. t <= MaxReq + plan.attempts
      BY <1>3, <2>3, <3>1 DEF PlanStays, Less, Attempts
    <3> QED
      BY <1>0, <3>2 DEF UniqueOK
  <2>4. \A c \in Token : Tokens(c)' = Tokens(c) /\ client'[c] = client[c]
    BY <1>2 DEF Tokens
  <2>5. /\ \A c, d \in Token : c # d /\ client'[c].cur # 0 => client'[c].cur \notin Tokens(d)'
        /\ \A r \in Request : client'[r].prev = 0
        /\ \A c \in Attempts : client'[c].prev \in {0} \cup Attempts
    BY <1>0, <2>4, TokenLemma DEF UniqueOK
  <2> QED
    BY <2>2, <2>3, <2>4, <2>5 DEF UniqueOK
<1>7. OneFrameOK'
  <2> SUFFICES ASSUME ~overlap'
               PROVE  /\ \A c, d \in Token : PendingFrame(c)' /\ PendingFrame(d)' => c = d
                      /\ \A t \in Slot : Enrolling(t)' => FitsFrame(call[t])'
    BY DEF OneFrameOK
  <2>1. ~overlap /\ \A t \in Slot : ~Enrolling(t)
    BY <1>2 DEF Beside, Enrolling
  <2>2. \A t \in Slot : Enrolling(t)' => t = s
    BY <1>5, <2>1 DEF Enrolling
  <2>3. FitsFrame(call[s])'
    BY <1>4 DEF FitsFrame
  <2>4. \A c, d \in Token : PendingFrame(c)' /\ PendingFrame(d)' => c = d
    BY <1>0, <1>2, <2>1 DEF OneFrameOK, PendingFrame
  <2> QED
    BY <2>2, <2>3, <2>4
<1>8. ThreadOK'
  <2>1. CASE w = "portal"
    <3>1. MinorThread(s)
      BY <1>4, <2>1 DEF MinorThread
    <3> QED
      BY <1>0, <1>2, <1>5, <3>1, ThreadKeeps
  <2>2. CASE w = "thread"
    <3>1. \A t \in Slot : t # s => call'[t].for # "thread"
      BY <1>1, <1>5, <2>2 DEF ThreadFree
    <3>2. \A t \in Slot : call'[t].at = "reply" => call'[t].for # "nobody"
      BY <1>4, <1>5, <2>2 DEF MinorThread
    <3>3. pending' # "settled" /\ call'[s].job \in {"enroll", "dial"}
      BY <1>1, <1>2, <1>4, <2>2
    <3> QED
      BY <3>1, <3>2, <3>3 DEF ThreadOK
  <2> QED
    BY <2>1, <2>2
<1>9. AwayOK'
  <2>1. MinorAway(s)
    BY <1>0, <1>1, <1>4 DEF MinorAway, AwayOK, PortalJobs
  <2>2. plan.boot => link'.status # "connecting" /\ link'.token \notin Request
    BY <1>0, <1>2 DEF AwayOK
  <2> QED
    BY <1>0, <1>3, <1>5, <2>1, <2>2, AwayKeeps
<1>10. BootOK'
  <2> SUFFICES ASSUME plan.boot, ~overlap
               PROVE  ~Settled' /\ \A t \in Slot : Dials(t)' => call'[t].key = link'.token
    BY <1>2, <1>3 DEF BootOK, PlanStays
  <2>1. ~Settled'
    BY <1>0, <1>1, <1>2 DEF AwayOK, Settled
  <2>2. ASSUME NEW t \in Slot, Dials(t)'
        PROVE  call'[t].key = link'.token
    <3>1. t # s
      BY <1>4, <2>2 DEF Dials
    <3>2. Dials(t) /\ call'[t] = call[t]
      BY <1>5, <2>2, <3>1 DEF Dials
    <3> QED
      BY <1>0, <1>2, <3>2 DEF BootOK
  <2> QED
    BY <2>1, <2>2
<1> QED
  BY <1>6, <1>7, <1>8, <1>9, <1>10 DEF RetryOK

\* A dial begins with the link's token.
LEMMA DialRetry ==
  ASSUME Inv, TypeOK', RetryOK, NEW s \in Slot, Dial(s)
  PROVE  RetryOK'
<1>0. TypeOK /\ UniqueOK /\ OneFrameOK /\ ThreadOK /\ AwayOK /\ BootOK
  BY DEF Inv, RetryOK
<1>1. /\ UNCHANGED <<client, claim, link, pending, overlap>> /\ Free /\ ThreadFree
      /\ Start(s, "dial", "auth", link.token, "thread")
  BY DEF Dial, cloud, device
<1>2. /\ Only(s) /\ call'[s].at = "auth" /\ call'[s].job = "dial"
      /\ call'[s].key = link.token /\ call'[s].for = "thread"
  <2>1. "dial" \in Jobs /\ "auth" \in Steps /\ "thread" \in Callers /\ link.token \in Ref
    BY <1>0 DEF Jobs, Steps, Callers, TypeOK
  <2> DEFINE k == link.token
  <2>2. k \in Ref /\ Start(s, "dial", "auth", k, "thread")
    BY <1>1, <2>1
  <2> HIDE DEF k
  <2>3. /\ Only(s) /\ call'[s].at = "auth" /\ call'[s].job = "dial"
        /\ call'[s].key = k /\ call'[s].for = "thread"
    BY <1>0, <2>1, <2>2, StartMove
  <2> QED
    BY <2>3 DEF k
<1>3. TokensStay /\ FramesStay /\ PlanStays
  BY <1>0, <1>1, StillUndisturbed, PlanLemma
<1>4. \A t \in Slot : t # s => /\ call'[t] = call[t] /\ call'[t].for # "thread"
                              /\ MinorEnroll(t) /\ MinorThread(t) /\ MinorAway(t)
  BY <1>0, <1>1, <1>2, MinorStill DEF Only, ThreadFree, AwayOK, MinorAway
<1>5. MinorEnroll(s) /\ MinorAway(s)
  BY <1>2 DEF MinorEnroll, Enrolling, MinorAway, PortalJobs
<1>6. UniqueOK'
  BY <1>0, <1>3, <1>4, <1>5, UniqueKeeps DEF PlanStays
<1>7. OneFrameOK'
  BY <1>0, <1>3, <1>4, <1>5, FrameKeeps
<1>8. ThreadOK'
  <2>1. \A t \in Slot : call'[t].at = "reply" => call'[t].for # "nobody"
    BY <1>2, <1>4 DEF MinorThread
  <2>2. pending' # "settled"
    BY <1>1 DEF ThreadFree
  <2> QED
    BY <1>2, <1>4, <2>1, <2>2 DEF ThreadOK
<1>9. AwayOK'
  <2>1. plan.boot => link'.status # "connecting" /\ link'.token \notin Request
    BY <1>0, <1>1 DEF AwayOK
  <2> QED
    BY <1>0, <1>3, <1>4, <1>5, <2>1, AwayKeeps
<1>10. BootOK'
  <2> SUFFICES ASSUME plan.boot, ~overlap
               PROVE  /\ Settled => \A t \in Slot : ~Enrolling(t)'
                      /\ \A t \in Slot : Dials(t)' => call'[t].key = link.token
                      /\ Settled => \A c \in Token : PendingFrame(c) =>
                           /\ client[c].cur = link.token
                           /\ \A t \in Slot : Dials(t)' => FindsFrame(call'[t], c)
    BY <1>1 DEF BootOK, Free, PendingFrame, Settled, FindsFrame
  <2>1. \A t \in Slot : Dials(t)' => t = s
    BY <1>4 DEF Dials
  <2>2. \A c \in Token : FindsFrame(call'[s], c)
    BY <1>2 DEF FindsFrame
  <2>3. Settled => \A t \in Slot : ~Enrolling(t)'
    BY <1>0, <1>2, <1>4 DEF BootOK, Enrolling
  <2>4. Settled => \A c \in Token : PendingFrame(c) => client[c].cur = link.token
    BY <1>0 DEF BootOK
  <2> QED
    BY <1>2, <2>1, <2>2, <2>3, <2>4
<1> QED
  BY <1>6, <1>7, <1>8, <1>9, <1>10 DEF RetryOK

\* The thread's dial was not refused if the frame waits.
LEMMA DialReplyRetry ==
  ASSUME Inv, TypeOK', RetryOK, NEW s \in Slot, DialReply(s)
  PROVE  RetryOK'
<1>0. TypeOK /\ UniqueOK /\ OneFrameOK /\ ThreadOK /\ AwayOK /\ BootOK
  BY DEF Inv, RetryOK
<1>1. /\ call[s].job = "dial" /\ call[s].at = "reply" /\ Return(s) /\ Free
      /\ UNCHANGED <<client, claim, overlap, pending>>
      /\ link' = link \/ (link' = Unlinked /\ call[s].answer = "refused")
  BY DEF DialReply, At, cloud
<1>2. \A t \in Slot : MinorCall(t)
  BY <1>0, <1>1, CallMinor
<1>3. TokensStay /\ FramesStay /\ PlanStays
  BY <1>0, <1>1, StillUndisturbed, PlanLemma
<1>4. UniqueOK'
  BY <1>0, <1>2, <1>3, UniqueKeeps DEF MinorCall, PlanStays
<1>5. OneFrameOK'
  BY <1>0, <1>2, <1>3, FrameKeeps DEF MinorCall
<1>6. ThreadOK'
  BY <1>0, <1>1, <1>2, ThreadKeeps DEF MinorCall
<1>7. AwayOK'
  <2>1. Unlinked.status = "disconnected" /\ Unlinked.token = 0 /\ 0 \notin Request
    BY DEF Unlinked, Request
  <2>2. plan.boot => link'.status # "connecting" /\ link'.token \notin Request
    BY <1>0, <1>1, <2>1 DEF AwayOK
  <2> QED
    BY <1>0, <1>2, <1>3, <2>2, AwayKeeps DEF MinorCall
<1>8. BootOK'
  <2> SUFFICES ASSUME plan.boot, ~overlap
               PROVE  /\ Settled => \A t \in Slot : ~Enrolling(t)'
                      /\ \A t \in Slot : ~Dials(t)'
                      /\ Settled => \A c \in Token : PendingFrame(c) => client[c].cur = link'.token
    BY <1>1 DEF BootOK, Free, PendingFrame, Settled
  <2>1. Dials(s)
    <3>1. call[s].for \in {"nobody", "portal", "thread"}
      BY <1>0 DEF TypeOK, Call
    <3> QED
      BY <1>0, <1>1, <3>1 DEF ThreadOK, AwayOK, Dials
  <2>2. \A t \in Slot : ~Dials(t)'
    <3>1. Only(s) /\ call'[s] = NoCall
      BY <1>0, <1>1, ReturnLemma
    <3> QED
      BY <1>0, <2>1, <3>1, NoCallLemma DEF Dials, ThreadOK, Only
  <2>3. Settled => \A t \in Slot : ~Enrolling(t)'
    BY <1>0, <1>2 DEF BootOK, MinorCall, MinorEnroll
  <2>4. Settled => \A c \in Token : PendingFrame(c) => client[c].cur = link'.token
    BY <1>0, <1>1, <2>1 DEF BootOK, FindsFrame
  <2> QED
    BY <2>2, <2>3, <2>4
<1> QED
  BY <1>4, <1>5, <1>6, <1>7, <1>8 DEF RetryOK

-----------------------------------------------------------------------------
(* The theorem.                                                            *)

\* Frames that boot with a claim token are enrolled by it alone.
PortalUnused == \A p \in Plans : p.boot => p.requests = 0 /\ ~p.portal

\* Nobody has a token at the start, no call runs.
LEMMA InitRetry ==
  ASSUME PortalUnused, Init
  PROVE  RetryOK
<1>1. \A c \in Token : client[c].cur = 0 /\ client[c].prev = 0 /\ ~PendingFrame(c)
  BY DEF Init, NoClient, PendingFrame
<1>2. NoCall.for = "nobody"
  BY DEF NoCall
<1>3. \A s \in Slot : call[s].job = "none" /\ call[s].at # "reply" /\ call[s].for = "nobody"
  BY <1>2, NoCallLemma DEF Init
<1>4. UniqueOK
  <2>1. \A t \in Attempts : t # 0
    BY DEF Attempts
  <2> QED
    BY <1>1, <1>3, <2>1, TokenLemma DEF UniqueOK, Tokens, Enrolling
<1>5. OneFrameOK /\ ThreadOK
  BY <1>1, <1>3 DEF OneFrameOK, ThreadOK, Enrolling
<1>6. AwayOK
  <2>1. link.status # "connecting" /\ link.token \notin Request
    BY DEF Init, Unlinked, Request
  <2>2. plan.boot => plan.requests = 0 /\ ~plan.portal
    BY DEF Init, PortalUnused
  <2> QED
    BY <1>3, <2>1, <2>2 DEF AwayOK, PortalJobs
<1>7. BootOK
  BY <1>1, <1>3 DEF BootOK, Enrolling, Dials
<1> QED
  BY <1>4, <1>5, <1>6, <1>7 DEF RetryOK

\* Every step keeps RetryOK.
LEMMA RetryStep ==
  ASSUME Inv, TypeOK', LinkOK, RetryOK, [Next]_vars
  PROVE  RetryOK'
<1>1. ASSUME NEW s \in Slot, Handler(s)
      PROVE  RetryOK'
  BY <1>1, ReadsRetry, WritesRetry, ApproveRetry, AuthRetry, RetireRetry, DialFindRetry,
     ReplayReadsRetry, EnrollRetry DEF Handler
<1>2. ASSUME NEW s \in Slot, Caller(s)
      PROVE  RetryOK'
  BY <1>2, PortalRetry, EnrollReplyRetry, DialReplyRetry DEF Caller
<1>3. ASSUME NEW s \in Slot, Users(s) \/ Thread(s)
      PROVE  RetryOK'
  BY <1>3, PortalRetry, OwnerRetry, BeginRetry, DialRetry DEF Users, Thread
<1>4. ASSUME NEW s \in Slot, GiveUp(s) \/ HandlerFails(s)
      PROVE  RetryOK'
  BY <1>4, OutsideRetry, ReadsRetry
<1>5. CASE clearPendingEnrollment \/ RevokeClient \/ Clocks \/ DeviceCrash \/ UNCHANGED vars
  BY <1>5, OutsideRetry, PortalRetry DEF Clocks
<1> QED
  BY <1>1, <1>2, <1>3, <1>4, <1>5 DEF Next

\* "Retrying is safe": a frame that boots with a claim token, and whose portal
\* nobody uses, is never left without the link while its pending frame exists and
\* the token has not expired, unless enrollments overlapped: lost answers and
\* restarts alone do not strand it (replayEnrollment, enrollManagedFrame, the
\* streak of refusals in cloudHubThreadMain).
THEOREM RetryIsSafe == PortalUnused => (Spec => []SequentialRetryDoesNotStrand)
<1> SUFFICES ASSUME PortalUnused
             PROVE  Spec => []SequentialRetryDoesNotStrand
  OBVIOUS
<1>1. Init => RetryOK
  BY InitRetry
<1>2. Inv /\ Inv' /\ LinkOK /\ RetryOK /\ [Next]_vars => RetryOK'
  BY RetryStep DEF Inv
<1>3. Inv /\ RetryOK => SequentialRetryDoesNotStrand
  <2> SUFFICES ASSUME Inv, RetryOK, Strands, ~overlap
               PROVE  FALSE
    BY DEF SequentialRetryDoesNotStrand
  <2>1. PICK c \in Token : PendingFrame(c)
    BY TokenLemma DEF Strands
  <2>2. client[c].cur = link.token
    BY <2>1 DEF RetryOK, BootOK, Strands, Settled
  <2>3. client[c].cur # 0
    BY <2>1 DEF Inv, TokensOK, PendingFrame
  <2> QED
    BY <2>2, <2>3 DEF Strands
<1> QED
  BY <1>1, <1>2, <1>3, InvHolds, LinkHolds, PTL DEF Spec
=============================================================================
