----------------------------- MODULE CloudLink -----------------------------
(***************************************************************************)
(* How a frame gets, keeps and loses the link to its cloud account.        *)
(*                                                                         *)
(* Cloud side: the rows of one account (device authorization requests, one *)
(* claim token, linked clients and their frames) and the route handlers    *)
(* that write them.  A handler is a sequence of SQL statements without a   *)
(* transaction unless it opens one; call[s] is one running handler, one    *)
(* action is one statement (or one transaction), and handlers interleave.  *)
(* Device side: cloud_link.json, the pending enrollment file, the portal   *)
(* routes and the hub thread.  A device caller waits for its answer or     *)
(* gives up; the handler it called runs on either way.                     *)
(*                                                                         *)
(* Two ways lead to a link: the device flow (connect, the owner approves,  *)
(* poll, then register the key: "flow B") and the claim token (enroll:     *)
(* "flow A"), at boot from the pending file or pasted into the portal.     *)
(*                                                                         *)
(* Link token n is minted by the approval of request n, or by enrollment   *)
(* attempt n - MaxReq; linked client n is the one first given token n.     *)
(* Zero means "none".  The account id, key, scopes and names are constant. *)
(***************************************************************************)
EXTENDS Integers, FiniteSets

CONSTANTS
  Slot,          \* cloud handlers that may run at the same time
  MaxReq,        \* device authorization requests
  MaxAttempt,    \* claim-token enrollment attempts
  MaxUses,       \* use budget of the claim token
  MaxFrames,     \* frame quota of the account
  FailureLimit,  \* HubAuthFailureLimit
  Plans          \* bounds of one behaviour, chosen at the start (see Plan)

Token == 1 .. MaxReq + MaxAttempt
Ref == 0 .. MaxReq + MaxAttempt

\* requests, attempts: how many of each; faults: answers lost or handlers
\* aborted; crashes: device restarts; clicks: the owner's, of the kinds in
\* owner; calls: handlers at one time; boot: a claim token waits in the pending file; portal: the local
\* admin may also paste the claim token and disconnect.
Click == {"approve", "deny", "lookup", "confirm", "revoke", "revokeFrame"}
Plan == [requests : 0 .. MaxReq, attempts : 0 .. MaxAttempt, faults : Nat,
         crashes : Nat, clicks : Nat, calls : Nat, owner : SUBSET Click,
         boot : BOOLEAN, portal : BOOLEAN]

ASSUME LinkAssumption ==
  /\ Slot \subseteq Nat /\ MaxReq \in Nat /\ MaxAttempt \in Nat
  /\ MaxUses \in Nat \ {0} /\ MaxFrames \in Nat /\ FailureLimit \in Nat \ {0}
  /\ Plans \subseteq Plan

VARIABLES
  request,  \* device_authorization_requests
  claim,    \* the frame_enrollment_tokens row
  client,   \* linked_clients and the frame registered on each
  call,     \* running cloud handlers and who waits for them
  link,     \* cloud_link.json
  pending,  \* cloud_enroll_pending.json: "file", "settled" (to be shredded), "gone"
  strikes,  \* authFailures of the hub thread
  plan,     \* what is left of the bounds
  handed,   \* history: answers that carried the token of a request
  overlap   \* history: an enrollment began beside another one (see Enroll)

cloud == <<request, claim, client, handed>>
device == <<link, pending, strikes>>
vars == <<cloud, call, device, plan, overlap>>

Request == 1 .. MaxReq

NoCall == [job |-> "none", at |-> "", key |-> 0, on |-> 0, answer |-> "", for |-> "nobody"]
Jobs == {"none", "connect", "poll", "register", "enroll", "unlink", "dial",
         "approve", "deny", "lookup", "confirm", "revokeFrame"}
Steps == {"", "read", "expire", "claim", "fetch", "unseal", "find", "rotate", "redeem",
          "auth", "retire", "count", "insert", "commit", "reply"}
\* "later" is 428 authorization_pending, "refused" any 4xx, "error" a 500.
Call == [job : Jobs, at : Steps, key : Ref, on : Ref,
         answer : {"", "ok", "later", "refused", "error"},
         for : {"nobody", "portal", "thread"}]

NoClient == [cur |-> 0, prev |-> 0, grace |-> FALSE, sealed |-> FALSE,
             revoked |-> FALSE, frame |-> "none"]
Unlinked == [status |-> "disconnected", code |-> 0, token |-> 0, frame |-> 0]

TypeOK ==
  /\ request \in [Request -> [status : {"absent", "pending", "approved", "denied", "expired"},
                              due : BOOLEAN, redeemed : BOOLEAN, shown : BOOLEAN]]
  /\ claim \in [uses : Nat, expired : BOOLEAN]
  /\ client \in [Token -> [cur : Ref, prev : Ref, grace : BOOLEAN, sealed : BOOLEAN,
                           revoked : BOOLEAN, frame : {"none", "pending", "active", "revoked"}]]
  /\ call \in [Slot -> Call]
  /\ link \in [status : {"disconnected", "connecting", "connected"}, code : Ref,
               token : Ref, frame : Ref]
  /\ pending \in {"file", "settled", "gone"}
  /\ strikes \in 0 .. FailureLimit - 1
  /\ plan \in Plan
  /\ handed \in [Request -> Nat]
  /\ overlap \in BOOLEAN

Init ==
  /\ request = [r \in Request |-> [status |-> "absent", due |-> FALSE,
                                   redeemed |-> FALSE, shown |-> FALSE]]
  /\ claim = [uses |-> 0, expired |-> FALSE]
  /\ client = [c \in Token |-> NoClient]
  /\ call = [s \in Slot |-> NoCall]
  /\ link = Unlinked
  /\ plan \in Plans
  /\ pending = IF plan.boot THEN "file" ELSE "gone"
  /\ strikes = 0
  /\ handed = [r \in Request |-> 0]
  /\ overlap = FALSE

-----------------------------------------------------------------------------
(* Calls and their handlers.                                               *)

\* Slots are interchangeable: a new call takes the first free one.
Start(s, job, at, key, who) ==
  /\ s <= plan.calls /\ call[s] = NoCall
  /\ \A u \in Slot : u < s => call[u] # NoCall
  /\ call' = [call EXCEPT ![s] = [NoCall EXCEPT !.job = job, !.at = at, !.key = key,
                                                 !.on = key, !.for = who]]
At(s, job, at) == call[s].job = job /\ call[s].at = at
Goto(s, at) == call' = [call EXCEPT ![s].at = at]
GotoOn(s, at, c) == call' = [call EXCEPT ![s].at = at, ![s].on = c]
Return(s) == call' = [call EXCEPT ![s] = NoCall]
\* The handler ends; whoever waits has its answer to deal with.
Reply(s, answer) ==
  IF call[s].for = "nobody" THEN Return(s)
  ELSE call' = [call EXCEPT ![s].at = "reply", ![s].answer = answer]

Spend(budget) == plan[budget] > 0 /\ plan' = [plan EXCEPT ![budget] = @ - 1]
Free == plan' = plan

\* The hub thread does one thing at a time.
ThreadFree == pending # "settled" /\ \A s \in Slot : call[s].for # "thread"

\* The SQL UPDATEs of status = 'expired' do not ask for status = 'pending'.
Expired(r) == request' = [request EXCEPT ![r].status = "expired"]
Overdue(r) == request[r].status = "pending" /\ request[r].due

countFramesForAccount == Cardinality({c \in Token : client[c].frame # "none"})

-----------------------------------------------------------------------------
(* The device flow.                                                        *)

\* POST /api/cloud/connect and the INSERT of api/device/start.
Connect(s) ==
  /\ link.status # "connected"
  /\ Spend("requests")
  /\ Start(s, "connect", "reply", plan.requests, "portal")
  /\ request' = [request EXCEPT ![plan.requests].status = "pending"]
  /\ UNCHANGED <<claim, client, handed, device, overlap>>

ConnectReply(s) ==
  /\ At(s, "connect", "reply")
  /\ Return(s)
  /\ link' = [Unlinked EXCEPT !.status = "connecting", !.code = call[s].key]
  /\ request' = [request EXCEPT ![call[s].key].shown = TRUE]
  /\ Free /\ UNCHANGED <<claim, client, handed, pending, strikes, overlap>>

\* GET /api/cloud/status, or any route that begins with expireIfNeeded, once
\* the device's own clock says the code is over.
expireIfNeeded ==
  /\ link.status = "connecting"
  /\ link' = Unlinked
  /\ Free /\ UNCHANGED <<cloud, call, pending, strikes, overlap>>

Poll(s) ==
  /\ link.status = "connecting"
  /\ Start(s, "poll", "read", link.code, "portal")
  /\ Free /\ UNCHANGED <<cloud, device, overlap>>

PollRead(s) ==
  /\ At(s, "poll", "read")
  /\ LET r == call[s].key IN
     \/ Overdue(r) /\ Goto(s, "expire")
     \/ request[r].status = "pending" /\ ~request[r].due /\ Reply(s, "later")
     \/ request[r].status = "approved" /\ Goto(s, "claim")
     \/ request[r].status \notin {"pending", "approved"} /\ Reply(s, "refused")
  /\ Free /\ UNCHANGED <<cloud, device, overlap>>

\* The same UPDATE in poll, authorize and request.
ExpireRequest(s) ==
  /\ call[s].at = "expire"
  /\ Expired(call[s].key)
  /\ Reply(s, "refused")
  /\ Free /\ UNCHANGED <<claim, client, handed, device, overlap>>

\* Faulty variant: the redemption is not filtered on redeemed_at.
PollClaimAgain(s) ==
  /\ At(s, "poll", "claim")
  /\ request' = [request EXCEPT ![call[s].key].redeemed = TRUE]
  /\ Goto(s, "fetch")
  /\ Free /\ UNCHANGED <<claim, client, handed, device, overlap>>

PollClaim(s) ==
  /\ At(s, "poll", "claim")
  /\ IF request[call[s].key].redeemed
     THEN Reply(s, "refused") /\ UNCHANGED request
     ELSE /\ request' = [request EXCEPT ![call[s].key].redeemed = TRUE]
          /\ Goto(s, "fetch")
  /\ Free /\ UNCHANGED <<claim, client, handed, device, overlap>>

PollFetch(s) ==
  /\ At(s, "poll", "fetch")
  /\ LET c == client[call[s].key] IN
     IF c.revoked \/ ~c.sealed THEN Reply(s, "refused") ELSE Goto(s, "unseal")
  /\ Free /\ UNCHANGED <<cloud, device, overlap>>

\* The stored copy is dropped, then the decrypted token is sent.
PollUnseal(s) ==
  /\ At(s, "poll", "unseal")
  /\ client' = [client EXCEPT ![call[s].key].sealed = FALSE]
  /\ handed' = [handed EXCEPT ![call[s].key] = @ + 1]
  /\ Reply(s, "ok")
  /\ Free /\ UNCHANGED <<request, claim, device, overlap>>

\* The answer counts only if the link still waits for this very code.  A
\* token makes the link connected, and the same call goes on to register the
\* device key with it ("flow B").  Anything but "pending" resets the link.
PollReply(s) ==
  /\ At(s, "poll", "reply")
  /\ LET mine == link.status = "connecting" /\ link.code = call[s].key IN
     IF mine /\ call[s].answer = "ok"
     THEN /\ link' = [Unlinked EXCEPT !.status = "connected", !.token = call[s].key]
          /\ call' = [call EXCEPT ![s].job = "register", ![s].at = "auth", ![s].answer = ""]
     ELSE /\ link' = IF mine /\ call[s].answer # "later" THEN Unlinked ELSE link
          /\ Return(s)
  /\ Free /\ UNCHANGED <<cloud, pending, strikes, overlap>>

\* Faulty variant: the client is inserted whether or not the claim succeeded.
ApproveCommitAnyway(s) ==
  /\ At(s, "approve", "commit")
  /\ LET r == call[s].key IN
     /\ request' = [request EXCEPT ![r].status = IF @ = "pending" THEN "approved" ELSE @]
     /\ client' = [client EXCEPT ![r] = [NoClient EXCEPT !.cur = r, !.sealed = TRUE]]
  /\ Reply(s, "ok")
  /\ Free /\ UNCHANGED <<claim, handed, device, overlap>>

\* authorize: read, compute the claim's `new Date()`, then the transaction.
Decide(s, job) ==
  \E r \in Request :
    /\ job \in plan.owner /\ Spend("clicks")
    /\ request[r].shown
    /\ Start(s, job, "read", r, "nobody")
    /\ UNCHANGED <<cloud, device, overlap>>

ApproveRead(s) ==
  /\ At(s, "approve", "read")
  /\ LET r == call[s].key IN
     IF Overdue(r) THEN Goto(s, "expire")
     ELSE IF request[r].status = "pending" THEN Goto(s, "claim") ELSE Reply(s, "refused")
  /\ Free /\ UNCHANGED <<cloud, device, overlap>>

\* The `new Date()` the claim compares expires_at with is taken here; the
\* UPDATE commits later.
ApproveStamp(s) ==
  /\ At(s, "approve", "claim")
  /\ IF request[call[s].key].due THEN Reply(s, "refused") ELSE Goto(s, "commit")
  /\ Free /\ UNCHANGED <<cloud, device, overlap>>

ApproveCommit(s) ==
  /\ At(s, "approve", "commit")
  /\ LET r == call[s].key IN
     IF request[r].status = "pending"
     THEN /\ request' = [request EXCEPT ![r].status = "approved"]
          /\ client' = [client EXCEPT ![r] = [NoClient EXCEPT !.cur = r, !.sealed = TRUE]]
     ELSE UNCHANGED <<request, client>>
  /\ Reply(s, "ok")
  /\ Free /\ UNCHANGED <<claim, handed, device, overlap>>

\* deny reads and claims on status alone: an overdue request may be denied.
DenyRead(s) ==
  /\ At(s, "deny", "read")
  /\ IF request[call[s].key].status = "pending" THEN Goto(s, "commit") ELSE Reply(s, "refused")
  /\ Free /\ UNCHANGED <<cloud, device, overlap>>

\* Faulty variant: the claim is not filtered on status = 'pending'.
DenyCommitAnyway(s) ==
  /\ At(s, "deny", "commit")
  /\ request' = [request EXCEPT ![call[s].key].status = "denied"]
  /\ Reply(s, "ok")
  /\ Free /\ UNCHANGED <<claim, client, handed, device, overlap>>

DenyCommit(s) ==
  /\ At(s, "deny", "commit")
  /\ request' = [request EXCEPT ![call[s].key].status = IF @ = "pending" THEN "denied" ELSE @]
  /\ Reply(s, "ok")
  /\ Free /\ UNCHANGED <<claim, client, handed, device, overlap>>

LookupRead(s) ==
  /\ At(s, "lookup", "read")
  /\ IF Overdue(call[s].key) THEN Goto(s, "expire") ELSE Reply(s, "ok")
  /\ Free /\ UNCHANGED <<cloud, device, overlap>>

-----------------------------------------------------------------------------
(* Link tokens: authenticateLinkedClient and what it guards.               *)

Matches(c, t) == /\ t # 0 /\ ~client[c].revoked
                 /\ client[c].cur = t \/ (client[c].prev = t /\ client[c].grace)

\* First use of the current token retires the previous one, in a statement of
\* its own that asks for nothing but the client's id.
AfterAuth == [register |-> "find", unlink |-> "commit", dial |-> "find"]

Auth(s) ==
  /\ call[s].at = "auth"
  /\ LET t == call[s].key IN
     \/ /\ \A c \in Token : ~Matches(c, t)
        /\ Reply(s, "refused")
     \/ \E c \in Token :
          /\ Matches(c, t)
          /\ GotoOn(s, IF client[c].cur = t /\ client[c].prev # 0 THEN "retire"
                       ELSE AfterAuth[call[s].job], c)
  /\ Free /\ UNCHANGED <<cloud, device, overlap>>

Retire(s) ==
  /\ call[s].at = "retire"
  /\ client' = [client EXCEPT ![call[s].on].prev = 0, ![call[s].on].grace = FALSE]
  /\ Goto(s, AfterAuth[call[s].job])
  /\ Free /\ UNCHANGED <<request, claim, handed, device, overlap>>

\* enrollLinkedFrame: a frame that is there already is the answer.
RegisterFind(s) ==
  /\ At(s, "register", "find")
  /\ IF client[call[s].on].frame # "none" THEN Reply(s, "ok") ELSE Goto(s, "count")
  /\ Free /\ UNCHANGED <<cloud, device, overlap>>

RegisterCount(s) ==
  /\ At(s, "register", "count")
  /\ IF countFramesForAccount >= MaxFrames THEN Reply(s, "refused") ELSE Goto(s, "insert")
  /\ Free /\ UNCHANGED <<cloud, device, overlap>>

\* A unique index admits one frame per linked client.
RegisterInsert(s) ==
  /\ At(s, "register", "insert")
  /\ LET c == call[s].on IN
     IF client[c].frame # "none" THEN Reply(s, "error") /\ UNCHANGED client
     ELSE client' = [client EXCEPT ![c].frame = "active"] /\ Reply(s, "ok")
  /\ Free /\ UNCHANGED <<request, claim, handed, device, overlap>>

\* enrollManagedFrame's flow B asks that the link be connected, not that it
\* be the link the token came from.
RegisterReply(s) ==
  /\ At(s, "register", "reply")
  /\ link' = IF call[s].answer = "ok" /\ link.status = "connected"
             THEN [link EXCEPT !.frame = call[s].on] ELSE link
  /\ Return(s)
  /\ Free /\ UNCHANGED <<cloud, pending, strikes, overlap>>

\* POST /api/cloud/disconnect: unlink with the token there was, then reset
\* the link there is.
Disconnect(s) ==
  /\ plan.portal
  /\ Start(s, "unlink", IF link.status = "connected" THEN "auth" ELSE "reply",
           link.token, "portal")
  /\ Free /\ UNCHANGED <<cloud, device, overlap>>

UnlinkCommit(s) ==
  /\ At(s, "unlink", "commit")
  /\ client' = [client EXCEPT ![call[s].on].revoked = TRUE]
  /\ Reply(s, "ok")
  /\ Free /\ UNCHANGED <<request, claim, handed, device, overlap>>

UnlinkReply(s) ==
  /\ At(s, "unlink", "reply")
  /\ link' = Unlinked
  /\ Return(s)
  /\ Free /\ UNCHANGED <<cloud, pending, strikes, overlap>>

-----------------------------------------------------------------------------
(* The claim token ("flow A").                                             *)

\* An enrollment that runs beside another, whose caller gave up, or that
\* repeats one whose token the link already holds.
Beside == link.token > MaxReq \/ \E s \in Slot : call[s].job = "enroll"

Enroll(s, who) ==
  /\ Spend("attempts")
  /\ Start(s, "enroll", "read", MaxReq + plan.attempts, who)
  /\ overlap' = (overlap \/ Beside)
  /\ UNCHANGED <<cloud, device>>

\* The pending file, whatever the link is; and the portal's claim field.
EnrollBoot(s) == pending = "file" /\ ThreadFree /\ Enroll(s, "thread")
EnrollPortal(s) == plan.portal /\ link.status # "connected" /\ Enroll(s, "portal")

\* Faulty variant: every enrollment is a new one.
ReplayNever(s) ==
  /\ At(s, "enroll", "read")
  /\ Goto(s, "redeem")
  /\ Free /\ UNCHANGED <<cloud, device, overlap>>

\* replayEnrollment: the token's row, then this key's pending frame, then the
\* rotation, which asks for the client's id only.
ReplayLookup(s) ==
  /\ At(s, "enroll", "read")
  /\ Goto(s, IF claim.expired \/ claim.uses = 0 THEN "redeem" ELSE "find")
  /\ Free /\ UNCHANGED <<cloud, device, overlap>>

PendingFrame(c) == client[c].frame = "pending" /\ ~client[c].revoked

ReplayFind(s) ==
  /\ At(s, "enroll", "find")
  /\ \/ \E c \in Token : PendingFrame(c) /\ GotoOn(s, "rotate", c)
     \/ (\A c \in Token : ~PendingFrame(c)) /\ Goto(s, "redeem")
  /\ Free /\ UNCHANGED <<cloud, device, overlap>>

\* Faulty variant: the replay hands out a token it does not store.
ReplayForgetful(s) ==
  /\ At(s, "enroll", "rotate")
  /\ client' = [client EXCEPT ![call[s].on].prev = client[call[s].on].cur,
                              ![call[s].on].grace = TRUE]
  /\ Reply(s, "ok")
  /\ Free /\ UNCHANGED <<request, claim, handed, device, overlap>>

ReplayRotate(s) ==
  /\ At(s, "enroll", "rotate")
  /\ LET c == call[s].on IN
     client' = [client EXCEPT ![c].prev = client[c].cur, ![c].grace = TRUE,
                              ![c].cur = call[s].key]
  /\ Reply(s, "ok")
  /\ Free /\ UNCHANGED <<request, claim, handed, device, overlap>>

\* Faulty variant: the use is spent before the quota is looked at.
RedeemFirst(s) ==
  /\ At(s, "enroll", "redeem")
  /\ IF claim.uses < MaxUses /\ ~claim.expired
     THEN /\ claim' = [claim EXCEPT !.uses = @ + 1]
          /\ IF countFramesForAccount < MaxFrames
             THEN /\ client' = [client EXCEPT ![call[s].key] =
                                  [NoClient EXCEPT !.cur = call[s].key, !.frame = "pending"]]
                  /\ Reply(s, "ok")
             ELSE Reply(s, "refused") /\ UNCHANGED client
     ELSE Reply(s, "refused") /\ UNCHANGED <<claim, client>>
  /\ Free /\ UNCHANGED <<request, handed, device, overlap>>

\* The transaction: one use of the budget, the quota, the client and its
\* pending frame, or nothing.  The UPDATE of the budget locks the token's row
\* until the commit.
Redeem(s) ==
  /\ At(s, "enroll", "redeem")
  /\ IF claim.uses < MaxUses /\ ~claim.expired /\ countFramesForAccount < MaxFrames
     THEN /\ claim' = [claim EXCEPT !.uses = @ + 1]
          /\ client' = [client EXCEPT ![call[s].key] =
                          [NoClient EXCEPT !.cur = call[s].key, !.frame = "pending"]]
          /\ Reply(s, "ok")
     ELSE Reply(s, "refused") /\ UNCHANGED <<claim, client>>
  /\ Free /\ UNCHANGED <<request, handed, device, overlap>>

\* Faulty variant: the thread keeps the file of a refused enrollment.
EnrollReplyKeeps(s) ==
  /\ At(s, "enroll", "reply")
  /\ LET ok == call[s].answer = "ok" IN
     /\ link' = IF ok THEN [status |-> "connected", code |-> 0, token |-> call[s].key,
                            frame |-> call[s].on] ELSE link
     /\ pending' = IF ok /\ call[s].for = "thread" THEN "settled" ELSE pending
  /\ Return(s)
  /\ Free /\ UNCHANGED <<cloud, strikes, overlap>>

\* enrollManagedFrame saves a fresh managed link; the thread's pending file
\* then goes on any answer that is not worth a retry.
EnrollReply(s) ==
  /\ At(s, "enroll", "reply")
  /\ link' = IF call[s].answer = "ok"
             THEN [status |-> "connected", code |-> 0, token |-> call[s].key,
                   frame |-> call[s].on]
             ELSE link
  /\ pending' = IF call[s].for = "thread" /\ call[s].answer # "error" THEN "settled" ELSE pending
  /\ Return(s)
  /\ Free /\ UNCHANGED <<cloud, strikes, overlap>>

clearPendingEnrollment ==
  /\ pending = "settled"
  /\ pending' = "gone"
  /\ Free /\ UNCHANGED <<cloud, call, link, strikes, overlap>>

\* expires_epoch of the file: a day after the first attempt, never before the
\* token's own day is over.
PendingExpires ==
  /\ pending = "file" /\ ThreadFree /\ claim.expired
  /\ pending' = "settled"
  /\ Free /\ UNCHANGED <<cloud, call, link, strikes, overlap>>

-----------------------------------------------------------------------------
(* The hub thread's session, the owner's other clicks.                     *)

Dial(s) ==
  /\ link.frame # 0 /\ ThreadFree
  /\ Start(s, "dial", "auth", link.token, "thread")
  /\ Free /\ UNCHANGED <<cloud, device, overlap>>

\* deviceAuthError: a pending frame may connect.
DialFind(s) ==
  /\ At(s, "dial", "find")
  /\ Reply(s, IF client[call[s].on].frame \in {"pending", "active"} THEN "ok" ELSE "refused")
  /\ Free /\ UNCHANGED <<cloud, device, overlap>>

\* Faulty variant: a new session starts the count again.
DialReplyForgets(s) ==
  /\ At(s, "dial", "reply")
  /\ IF call[s].answer = "refused" /\ strikes + 1 = FailureLimit
     THEN link' = Unlinked /\ strikes' = 0
     ELSE strikes' = 0 /\ UNCHANGED link
  /\ Return(s)
  /\ Free /\ UNCHANGED <<cloud, pending, overlap>>

\* Faulty variant: the streak has no limit.
DialReplyPatient(s) ==
  /\ At(s, "dial", "reply")
  /\ strikes' = IF call[s].answer = "refused" THEN strikes + 1 ELSE 0
  /\ Return(s)
  /\ Free /\ UNCHANGED <<cloud, link, pending, overlap>>

\* The body of cloudHubThreadMain: a streak of refusals demotes the frame,
\* whatever link it holds by then; anything else ends the streak.
DialReply(s) ==
  /\ At(s, "dial", "reply")
  /\ LET refused == call[s].answer = "refused" IN
     /\ strikes' = IF refused /\ strikes + 1 < FailureLimit THEN strikes + 1 ELSE 0
     /\ link' = IF refused /\ strikes + 1 = FailureLimit THEN Unlinked ELSE link
  /\ Return(s)
  /\ Free /\ UNCHANGED <<cloud, pending, overlap>>

\* frames/[frameId]/confirm: read the status, then an unfiltered UPDATE.
Confirm(s) ==
  \E c \in Token :
    /\ "confirm" \in plan.owner /\ Spend("clicks")
    /\ client[c].frame = "pending"
    /\ Start(s, "confirm", "commit", c, "nobody")
    /\ UNCHANGED <<cloud, device, overlap>>

ConfirmCommit(s) ==
  /\ At(s, "confirm", "commit")
  /\ client' = [client EXCEPT ![call[s].key].frame = "active"]
  /\ Return(s)
  /\ Free /\ UNCHANGED <<request, claim, handed, device, overlap>>

\* revokeFrame: the linked client, then the frame.
RevokeFrame(s) ==
  \E c \in Token :
    /\ "revokeFrame" \in plan.owner /\ Spend("clicks")
    /\ client[c].frame # "none"
    /\ Start(s, "revokeFrame", "claim", c, "nobody")
    /\ UNCHANGED <<cloud, device, overlap>>

RevokeFrameClient(s) ==
  /\ At(s, "revokeFrame", "claim")
  /\ client' = [client EXCEPT ![call[s].key].revoked = TRUE]
  /\ Goto(s, "commit")
  /\ Free /\ UNCHANGED <<request, claim, handed, device, overlap>>

RevokeFrameRow(s) ==
  /\ At(s, "revokeFrame", "commit")
  /\ client' = [client EXCEPT ![call[s].key].frame = "revoked"]
  /\ Return(s)
  /\ Free /\ UNCHANGED <<request, claim, handed, device, overlap>>

\* api/device/revoke.
RevokeClient ==
  \E c \in Token :
    /\ "revoke" \in plan.owner /\ Spend("clicks")
    /\ client[c].cur # 0 /\ ~client[c].revoked
    /\ client' = [client EXCEPT ![c].revoked = TRUE]
    /\ UNCHANGED <<request, claim, handed, call, device, overlap>>

-----------------------------------------------------------------------------
(* Clocks and faults.                                                      *)

RequestDue == \E r \in Request :
  /\ request[r].status # "absent" /\ ~request[r].due
  /\ request' = [request EXCEPT ![r].due = TRUE]
  /\ Free /\ UNCHANGED <<claim, client, handed, call, device, overlap>>

GraceEnds == \E c \in Token :
  /\ client[c].grace
  /\ client' = [client EXCEPT ![c].grace = FALSE]
  /\ Free /\ UNCHANGED <<request, claim, handed, call, device, overlap>>

\* It matters only where the token may be used.
ClaimExpires ==
  /\ ~claim.expired /\ (plan.boot \/ plan.portal)
  /\ claim' = [claim EXCEPT !.expired = TRUE]
  /\ Free /\ UNCHANGED <<request, client, handed, call, device, overlap>>

\* The caller's timeout or a lost answer.  A failed unlink resets the link all
\* the same, a failed dial ends the streak, the others leave things alone.
GiveUp(s) ==
  /\ call[s].for # "nobody" /\ Spend("faults")
  /\ call' = [call EXCEPT ![s] = IF @.at = "reply" THEN NoCall ELSE [@ EXCEPT !.for = "nobody"]]
  /\ link' = IF call[s].job = "unlink" THEN Unlinked ELSE link
  /\ strikes' = IF call[s].job = "dial" THEN 0 ELSE strikes
  /\ UNCHANGED <<cloud, pending, overlap>>

\* A statement fails, or the web process goes away: the handler stops there.
HandlerFails(s) ==
  /\ call[s] # NoCall /\ call[s].at # "reply" /\ Spend("faults")
  /\ Reply(s, "error")
  /\ UNCHANGED <<cloud, device, overlap>>

\* The device restarts; its handlers on the server run on.
DeviceCrash ==
  /\ Spend("crashes")
  /\ call' = [s \in Slot |-> IF call[s].for = "nobody" THEN call[s]
                             ELSE IF call[s].at = "reply" THEN NoCall
                             ELSE [call[s] EXCEPT !.for = "nobody"]]
  /\ pending' = IF pending = "settled" THEN "file" ELSE pending
  /\ strikes' = 0
  /\ UNCHANGED <<cloud, link, overlap>>

-----------------------------------------------------------------------------
(* The specification.                                                      *)

\* What a running handler, or a caller with its answer, does next.
Handler(s) ==
  \/ PollRead(s) \/ ExpireRequest(s) \/ PollClaim(s) \/ PollFetch(s) \/ PollUnseal(s)
  \/ ApproveRead(s) \/ ApproveStamp(s) \/ ApproveCommit(s)
  \/ DenyRead(s) \/ DenyCommit(s) \/ LookupRead(s)
  \/ Auth(s) \/ Retire(s) \/ RegisterFind(s) \/ RegisterCount(s) \/ RegisterInsert(s)
  \/ UnlinkCommit(s) \/ ReplayLookup(s) \/ ReplayFind(s) \/ ReplayRotate(s) \/ Redeem(s)
  \/ DialFind(s) \/ ConfirmCommit(s) \/ RevokeFrameClient(s) \/ RevokeFrameRow(s)
Caller(s) ==
  \/ ConnectReply(s) \/ PollReply(s) \/ RegisterReply(s) \/ UnlinkReply(s)
  \/ EnrollReply(s) \/ DialReply(s)
\* What the portal's and the owner's users start.
Users(s) ==
  \/ Connect(s) \/ Poll(s) \/ Disconnect(s) \/ EnrollPortal(s)
  \/ (\E job \in {"approve", "deny", "lookup"} : Decide(s, job))
  \/ Confirm(s) \/ RevokeFrame(s)
Thread(s) == EnrollBoot(s) \/ Dial(s)
Clocks == RequestDue \/ GraceEnds \/ ClaimExpires \/ expireIfNeeded \/ PendingExpires

Next ==
  \/ \E s \in Slot : Handler(s) \/ Caller(s) \/ Users(s) \/ Thread(s) \/ GiveUp(s) \/ HandlerFails(s)
  \/ clearPendingEnrollment \/ RevokeClient \/ Clocks \/ DeviceCrash

\* Handlers and waiting callers run to their end; the hub thread keeps going
\* round its loop (strongly: other calls may hold every slot of the model now
\* and then, which the bounded pool must not turn into starvation).  Users,
\* clocks and faults owe nothing.
Fairness ==
  /\ \A s \in Slot : WF_vars(Handler(s) \/ Caller(s))
  /\ SF_vars(\E s \in Slot : EnrollBoot(s))
  /\ SF_vars(\E s \in Slot : Dial(s))
  /\ WF_vars(clearPendingEnrollment)

Spec == Init /\ [][Next]_vars /\ Fairness

-----------------------------------------------------------------------------
(* Properties.                                                             *)

\* The link token of an approved request leaves the server at most once, and
\* the decryptable copy is gone from the database when it does, however many
\* polls, retries and expiries run at once (poll's redemption claim and the
\* encryptedRefreshToken it clears).
TokenLeavesOnce ==
  \A r \in Request : handed[r] + (IF client[r].sealed THEN 1 ELSE 0) <= 1

\* A linked client of the device flow exists only behind a decision to approve:
\* no live credential is left behind a pending or a denied request, and no
\* approved request is without one (authorize's transaction).
CredentialHasApproval ==
  \A r \in Request :
    /\ client[r].cur # 0 => request[r].status \in {"approved", "expired"}
    /\ request[r].status = "approved" => client[r].cur # 0

\* Once decided, a request is never decided otherwise.  The one change left is
\* to expired, which the unfiltered UPDATEs of poll, authorize and request may
\* still write over a decision that was taken while they ran.
DecisionStands ==
  [][\A r \in Request :
       request[r].status \in {"approved", "denied", "expired"} =>
         request'[r].status \in {request[r].status, "expired"}]_vars

Attempts == MaxReq + 1 .. MaxReq + MaxAttempt

\* A use of the claim token is spent exactly when a frame is created with it:
\* refused and repeated enrollments spend nothing, and the budget holds under
\* concurrent ones (redeemClaimToken inside the enrollment's transaction).
BudgetExact ==
  /\ claim.uses <= MaxUses
  /\ claim.uses = Cardinality({c \in Attempts : client[c].cur # 0})

\* The device has thrown the pending file away and holds no link, and a pending
\* frame of its own is left behind, though the token had not expired.
Strands == /\ plan.boot /\ pending = "gone" /\ link.token = 0 /\ ~claim.expired
           /\ \E c \in Attempts : PendingFrame(c)

\* "Retrying is safe ... so a response lost in flight does not strand the
\* device" (docs/cloud-frames.md): so it is, as long as no attempt begins while
\* the handler of an earlier one still runs and nobody resets the link from the
\* frame's portal (/api/cloud/connect, /disconnect) meanwhile.
SequentialRetryDoesNotStrand == Strands => overlap

\* The token a link holds opens the account, unless its client was revoked or
\* enrollments overlapped: losing answers, rotations, the grace window and a
\* restart of the device never leave it with a dead token by themselves.
LinkTokenLives ==
  link.token # 0 => \/ overlap
                    \/ \E c \in Token : client[c].cur = link.token

\* A pending claim file is used up, whatever was lost or refused on the way:
\* the retries stop once the faults do (processPendingCloudEnrollment; the
\* plan allows an attempt more than there are faults and crashes).
PendingResolves == pending # "gone" ~> pending = "gone"

\* A frame whose link token was revoked notices and returns to standalone: the
\* refusals make an unbroken streak once the faults are over
\* (cloudHubThreadMain, demoteManagedLink).
RevokedIsDemoted ==
  \A t \in Token :
    (/\ link.token = t /\ link.frame # 0
     /\ \E c \in Token : client[c].cur = t /\ client[c].revoked) ~> link.token # t
=============================================================================
