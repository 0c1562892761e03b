----------------------------- MODULE RunnerLoop -----------------------------
(***************************************************************************)
(* The runner thread of a frame (frameos/runner.nim), what it keeps on     *)
(* disk (scenes.nim, boot_guard.nim) and who feeds it (channels.nim,       *)
(* cloud/hub_client.nim).                                                  *)
(*                                                                         *)
(* One thread runs two coroutines, the render loop and the message loop,   *)
(* which change places only where one of them awaits.  Other threads send  *)
(* events on a bounded channel at any time.  The process may die anywhere; *)
(* what the next start shows is decided by four small files.               *)
(*                                                                         *)
(* Four scenes stand for all: one of the build, one that is uploaded, the  *)
(* boot guard's, and another system scene, which the boot hotspot starts   *)
(* with.  The uploaded scene has one field that is kept on disk; its value *)
(* is the number of the event that set it.                                 *)
(***************************************************************************)
EXTENDS Integers, Sequences, FiniteSets

CONSTANTS
  Kinds,       \* the events that are sent, a set of Kind
  MaxEvents,   \* bound: events sent from outside
  Capacity,    \* slots of eventChannel
  CrashLimit,  \* BOOT_GUARD_CRASH_LIMIT
  ContextLimit,\* BOOT_GUARD_SUCCESS_PERSIST_LIMIT
  MaxBoots,    \* bound: starts of the runtime
  FaultKinds,  \* what may fail: "write" of a file, "init" of a scene
  MaxFaults    \* bound: how often

SystemScenes == {"system", "guard"}
Scene == {"home", "uploaded"} \cup SystemScenes
NoScene == "none"
\* "give" is a setCurrentScene that comes with a state.
Kind == [what : {"render", "move", "key", "state", "upload", "seed", "reload"},
         scene : {NoScene}] \cup [what : {"set", "give"}, scene : Scene]

ASSUME RunnerAssumption ==
  /\ Kinds \subseteq Kind
  /\ MaxEvents \in Nat /\ Capacity \in Nat \ {0}
  /\ CrashLimit \in Nat \ {0} /\ ContextLimit \in Nat
  /\ MaxBoots \in Nat /\ MaxFaults \in Nat /\ FaultKinds \subseteq {"write", "init"}

Num == 1 .. MaxEvents
\* An event on the channel; number 0 is a "render" a scene's own handler sent.
Event == [n : 0 .. MaxEvents, is : Kind]
FollowUp == [n |-> 0, is |-> [what |-> "render", scene |-> NoScene]]

VARIABLES
  at,        \* where the render loop is; "off" when no process runs, "retry"
             \* while the main loop waits to start again in the same process
  chan,      \* eventChannel, the message loop's pendingEvent, and whether it is draining
  loop,      \* RunnerThread and the locals of startRenderLoop
  insts,     \* the scenes table and the registry of exported scenes
  known,     \* what the process holds of its files, and whether it swept them
  disk,      \* state/boot_guard.json, scene.json, uploaded.json, the scene's state, the checksum
  acking,    \* the deploy the cloud client has queued and not recorded
  fate,      \* history: what became of each event
  moves,     \* history: which were mouseMoves
  unshown,   \* history: handled events whose change no pass has drawn
  starts,    \* history: registered starts in a row without a completed render
  want,      \* history: the value last given to the uploaded scene's field
  spoiled,   \* history: which files were left wrong, and not yet put right
  boots, faults  \* budgets

history == <<fate, moves, unshown, starts, want>>
vars == <<at, chan, loop, insts, known, disk, acking, history, spoiled, boots, faults>>

Fates == {"unsent", "dropped", "waiting", "handled", "coalesced", "refused", "lost"}
Instance == [scene : Scene \cup {NoScene}, live : BOOLEAN, error : BOOLEAN,
             kept : BOOLEAN, state : 0 .. MaxEvents]

TypeOK ==
  /\ at \in {"off", "retry", "init", "top", "render", "settle", "asleep"}
  /\ chan \in [queue : Seq(Event), pending : SUBSET Event, draining : BOOLEAN]
  /\ loop \in [cur : Scene, trigger : BOOLEAN, force : BOOLEAN,
               last : Scene \cup {NoScene}, held : Instance, passes : 0 .. ContextLimit,
               first : SystemScenes \cup {NoScene}]
  /\ insts \in [table : SUBSET Scene, kept : SUBSET Scene, state : 0 .. MaxEvents,
                version : 0 .. MaxEvents]
  /\ known \in [crashes : Nat, scene : {"home", "uploaded", NoScene}, saved : 0 .. MaxEvents,
                swept : BOOLEAN]
  /\ disk \in [crashes : Nat, scene : {"home", "uploaded", NoScene}, uploads : 0 .. MaxEvents,
               saved : 0 .. MaxEvents, checksum : 0 .. MaxEvents]
  /\ acking \in 0 .. MaxEvents
  /\ fate \in [Num -> Fates] /\ moves \subseteq Num
  /\ unshown \subseteq Num /\ starts \in Nat /\ want \in 0 .. MaxEvents
  /\ spoiled \subseteq {"crashes", "scene", "saved"}
  /\ boots \in 0 .. MaxBoots /\ faults \in 0 .. MaxFaults

NoInstance == [scene |-> NoScene, live |-> FALSE, error |-> FALSE, kept |-> FALSE, state |-> 0]
Idle == [cur |-> "home", trigger |-> FALSE, force |-> FALSE, last |-> NoScene,
         held |-> NoInstance, passes |-> 0, first |-> NoScene]
NoEvents == [queue |-> <<>>, pending |-> {}, draining |-> FALSE]

Nothing == [crashes |-> 0, scene |-> NoScene, saved |-> 0, swept |-> FALSE]
NoScenes == [table |-> {}, kept |-> {}, state |-> 0, version |-> 0]

Init ==
  /\ at = "off" /\ chan = NoEvents /\ loop = Idle /\ insts = NoScenes /\ known = Nothing
  /\ disk = [crashes |-> 0, scene |-> NoScene, uploads |-> 0, saved |-> 0, checksum |-> 0]
  /\ acking = 0
  /\ fate = [n \in Num |-> "unsent"] /\ moves = {}
  /\ unshown = {} /\ starts = 0 /\ want = 0 /\ spoiled = {}
  /\ boots = 0 /\ faults = 0

-----------------------------------------------------------------------------
(* Files.  A write that fails leaves the old content, or nothing that can  *)
(* be read; what the process holds of the file has changed all the same.   *)

Spend(k) == faults + k <= MaxFaults /\ faults' = faults + k

Left(failed, new, old, unreadable) == IF failed THEN {old, unreadable} ELSE {new}

\* writeBootGuardState(n), when it should be t and k other things fail beside it.
GuardFile(n, t, k) ==
  \/ /\ Spend(k)
     /\ disk' = [disk EXCEPT !.crashes = n]
     /\ spoiled' = IF n = t THEN spoiled \ {"crashes"} ELSE spoiled
  \/ /\ "write" \in FaultKinds /\ Spend(k + 1)
     /\ \E c \in Left(TRUE, n, disk.crashes, 0) : disk' = [disk EXCEPT !.crashes = c]
     /\ spoiled' = spoiled \cup {"crashes"}

Exported(s, version) == s # "uploaded" \/ version # 0

\* getFirstSceneId: on its first call it loads uploaded.json and deletes the state
\* of scenes that are not in it; then the last scene, if it can still be shown.
Loads == \/ ~known.swept
         \/ disk.scene = "uploaded" /\ insts.version = 0
LookUpVersion == IF disk.uploads # 0 /\ Loads THEN disk.uploads ELSE insts.version
LookUpScene == IF disk.scene # NoScene /\ Exported(disk.scene, LookUpVersion)
               THEN disk.scene ELSE "home"
Orphans == ~known.swept /\ disk.uploads = 0 /\ disk.saved # 0
LookUp ==
  /\ known' = [known EXCEPT !.swept = TRUE,
                            !.scene = IF disk.scene = NoScene THEN @ ELSE disk.scene]
  /\ disk' = IF Orphans THEN [disk EXCEPT !.saved = 0] ELSE disk
  /\ spoiled' = (spoiled \ (IF LookUpScene = disk.scene THEN {"scene"} ELSE {}))
                   \cup (IF Orphans THEN {"saved"} ELSE {})

\* loadPersistedState, before scene s is initialised.
Loaded(s) == IF s = "uploaded" /\ disk.saved # 0 THEN [known EXCEPT !.saved = disk.saved]
                                                 ELSE known

\* Faulty variant: a system scene is remembered like any other.
ToKeepAny(s, value, k) ==
  (IF s = "uploaded" /\ value # k.saved THEN {"saved"} ELSE {})
    \cup (IF s # k.scene THEN {"scene"} ELSE {})

\* Faulty variant: the scene to come back to is taken for unchanged.
ToKeepField(s, value, k) == IF s = "uploaded" /\ value # k.saved THEN {"saved"} ELSE {}

\* updateLastPersistedState writes what differs from what the process, which
\* knows k, takes to be on disk.
ToKeep(s, value, k) ==
  (IF s = "uploaded" /\ value # k.saved THEN {"saved"} ELSE {})
    \cup (IF s \notin SystemScenes /\ s # k.scene THEN {"scene"} ELSE {})

\* It keeps scene s, whose field has the given value.  For the files in right this
\* is what they should hold, and for those in stale what it should not have kept.
Keep(s, value, k, right, stale) ==
  LET todo == ToKeep(s, value, k) IN
  /\ known' = [k EXCEPT !.saved = IF "saved" \in todo THEN value ELSE @,
                        !.scene = IF "scene" \in todo THEN s ELSE @]
  /\ \E bad \in SUBSET todo :
       /\ bad # {} => "write" \in FaultKinds
       /\ Spend(Cardinality(bad))
       /\ \E v \in Left("saved" \in bad, value, disk.saved, 0),
             x \in Left("scene" \in bad, s, disk.scene, NoScene) :
            disk' = [disk EXCEPT !.saved = IF "saved" \in todo THEN v ELSE @,
                                 !.scene = IF "scene" \in todo THEN x ELSE @]
       /\ spoiled' = (spoiled \ ((todo \ bad) \cap right)) \cup bad \cup (todo \cap stale)

-----------------------------------------------------------------------------
(* The process.                                                            *)

\* What the main loop knows when it starts the runtime: the count of the guard
\* file, or, in the same process, what is left of it in memory.
Booted == IF at = "off" THEN [Nothing EXCEPT !.crashes = disk.crashes] ELSE known

\* Faulty variant: the count is kept in memory until a scene has been drawn.
StartUncounted ==
  /\ at \in {"off", "retry"} /\ boots < MaxBoots
  /\ at' = "init" /\ boots' = boots + 1 /\ starts' = starts + 1
  /\ \E hotspot \in {NoScene, "system"} :
       loop' = [Idle EXCEPT !.first = IF Booted.crashes + 1 >= CrashLimit THEN "guard" ELSE hotspot]
  /\ known' = [Booted EXCEPT !.crashes = @ + 1]
  /\ UNCHANGED <<chan, insts, disk, acking, fate, moves, unshown, want, spoiled, faults>>

\* registerBootCrash: one more crash, until a render says otherwise.  The first
\* scene is the hotspot's if the frame had to open one, the boot guard's if the
\* count has reached its limit.
Start ==
  /\ at \in {"off", "retry"} /\ boots < MaxBoots
  /\ at' = "init" /\ boots' = boots + 1 /\ starts' = starts + 1
  /\ LET count == Booted.crashes + 1 IN
     /\ \E hotspot \in {NoScene, "system"} :
          loop' = [Idle EXCEPT !.first = IF count >= CrashLimit THEN "guard" ELSE hotspot]
     /\ known' = [Booted EXCEPT !.crashes = count]
     /\ GuardFile(count, starts + 1, 0)
  /\ UNCHANGED <<chan, insts, acking, fate, moves, unshown, want>>

\* drivers.init succeeds and the runner thread starts.
RunnerStarts ==
  /\ at = "init" /\ at' = "top"
  /\ IF loop.first # NoScene
     THEN /\ loop' = [loop EXCEPT !.cur = loop.first, !.first = NoScene]
          /\ UNCHANGED <<insts, known, disk, spoiled>>
     ELSE /\ loop' = [loop EXCEPT !.cur = LookUpScene]
          /\ insts' = [insts EXCEPT !.version = LookUpVersion]
          /\ LookUp
  /\ UNCHANGED <<chan, acking, history, boots, faults>>

Ends ==
  /\ at' = "off" /\ known' = Nothing
  /\ chan' = NoEvents /\ loop' = Idle /\ insts' = NoScenes /\ acking' = 0
  /\ fate' = [n \in Num |-> IF fate[n] = "waiting" THEN "lost" ELSE fate[n]]
  /\ unshown' = {}

\* clearBootCrashCount by the main loop, though no scene has been drawn.
Forgive(count) ==
  \/ count = 0 /\ UNCHANGED <<disk, spoiled, faults>>
  \/ /\ count # 0
     /\ \/ disk' = [disk EXCEPT !.crashes = 0] /\ UNCHANGED faults
        \/ "write" \in FaultKinds /\ Spend(1) /\ UNCHANGED disk
     /\ spoiled' = spoiled \cup {"crashes"}

\* An exception before the runner runs, from drivers.init or earlier: the main
\* loop forgives the crash and starts again.
FatalRetry ==
  /\ at \in {"off", "retry", "init"}
  /\ at' = "retry" /\ loop' = Idle
  /\ known' = [Booted EXCEPT !.crashes = 0]
  /\ Forgive(Booted.crashes)
  /\ UNCHANGED <<chan, insts, acking, history, boots>>

\* Or it notes the error and quits, as it may when the web server fails.
FatalQuit ==
  /\ Ends
  /\ GuardFile(Booted.crashes, starts, 0)
  /\ UNCHANGED <<moves, starts, want, boots>>

\* The web server does not start, and the runner runs already: the crash is
\* forgiven.  The next attempt starts a second runner, which is not modelled.
ServerFails ==
  /\ at \notin {"off", "retry", "init"} /\ known.crashes # 0
  /\ known' = [known EXCEPT !.crashes = 0]
  /\ Forgive(known.crashes)
  /\ UNCHANGED <<at, chan, loop, insts, acking, history, boots>>

\* The process dies: native code, the watchdog, its power, or the quit of a
\* "restart" event, which is not sent here for that reason.
Crash ==
  /\ at # "off"
  /\ Ends
  /\ UNCHANGED <<disk, moves, starts, want, spoiled, boots, faults>>

-----------------------------------------------------------------------------
(* Senders: HTTP handlers, the scheduler, drivers, the cloud client.       *)

Running == at \notin {"off", "retry", "init"}
NextNumber(n) == fate[n] = "unsent" /\ \A m \in 1 .. n - 1 : fate[m] # "unsent"

Enqueue(n, k) ==
  /\ Running /\ NextNumber(n)
  /\ moves' = IF k.what = "move" THEN moves \cup {n} ELSE moves
  /\ IF Len(chan.queue) < Capacity
     THEN /\ chan' = [chan EXCEPT !.queue = Append(@, [n |-> n, is |-> k])]
          /\ fate' = [fate EXCEPT ![n] = "waiting"]
     ELSE fate' = [fate EXCEPT ![n] = "dropped"] /\ UNCHANGED chan
  /\ UNCHANGED <<at, loop, insts, known, disk, unshown, starts, want, spoiled, boots, faults>>

\* sendEvent.
SendEvent == \E n \in Num, k \in Kinds : Enqueue(n, k) /\ UNCHANGED acking

\* handleSetScenes of the cloud client: a full queue is an error.
HandleSetScenes ==
  /\ acking = 0 /\ Len(chan.queue) < Capacity
  /\ \E n \in Num, k \in Kinds :
       k.what \in {"upload", "seed"} /\ Enqueue(n, k) /\ acking' = n

\* persistChecksumFn.
PersistChecksum ==
  /\ acking # 0
  /\ disk' = [disk EXCEPT !.checksum = acking]
  /\ acking' = 0
  /\ UNCHANGED <<at, chan, loop, insts, known, history, spoiled, boots, faults>>

-----------------------------------------------------------------------------
(* The message loop.  It runs where the render loop awaits, and until the  *)
(* channel is empty.                                                       *)

Awaiting == at \in {"settle", "asleep"}
Changes(n) == unshown' = unshown \cup {n}

\* The instance the render loop holds when the scenes in S leave the table.
Orphaned(S) ==
  IF loop.held.live /\ loop.held.scene \in S
  THEN [loop.held EXCEPT !.live = FALSE, !.kept = loop.held.scene \in insts.kept,
                         !.state = insts.state]
  ELSE loop.held

Becomes(n, f) == fate' = [fate EXCEPT ![n] = f]
Rest == [queue |-> IF chan.pending = {} THEN Tail(chan.queue) ELSE chan.queue,
         pending |-> {}, draining |-> TRUE]

DoRender(n) ==
  /\ loop' = [loop EXCEPT !.trigger = TRUE]
  /\ IF n = 0 THEN UNCHANGED <<fate, unshown>> ELSE Becomes(n, "handled") /\ Changes(n)
  /\ chan' = Rest
  /\ UNCHANGED <<insts, known, disk, want, spoiled, faults>>

\* Any event without a case of its own: the current scene's handlers run.
DoDispatch(n) ==
  /\ Becomes(n, "handled")
  /\ chan' = Rest
  /\ UNCHANGED <<loop, insts, known, disk, unshown, want, spoiled, faults>>

Refuse(n) ==
  /\ Becomes(n, "refused")
  /\ chan' = Rest
  /\ UNCHANGED <<insts, disk, unshown, want, spoiled>>

\* The handler of scene s has set its field to n, and the state is kept at once.
Given(n, s, k) ==
  /\ insts' = [insts EXCEPT !.table = @ \cup {s}, !.kept = @ \cup {s},
                            !.state = IF s = "uploaded" THEN n ELSE @]
  /\ want' = IF s = "uploaded" THEN n ELSE want
  /\ Keep(s, n, k, {"saved", "scene"}, {})

\* setSceneState, if the current scene is in the table.  The scene's handler asks
\* for a render through the channel, which may be full again.
GiveState(n) ==
  LET room == Len(Rest.queue) < Capacity IN
  /\ loop.cur \in insts.table
  /\ Given(n, loop.cur, known)
  /\ Becomes(n, "handled")
  /\ chan' = IF room THEN [Rest EXCEPT !.queue = Append(@, FollowUp)] ELSE Rest
  /\ unshown' = IF room THEN unshown \cup {n} ELSE unshown
  /\ UNCHANGED loop

DoState(n) ==
  \/ GiveState(n)
  \/ loop.cur \notin insts.table /\ Refuse(n) /\ UNCHANGED <<loop, known, faults>>

\* setCurrentScene to another scene, with or without a state: it is initialised
\* here if need be, and kept at once.
SwitchTo(n, s, given) ==
  LET value == IF s \in insts.table THEN insts.state ELSE disk.saved
      k == IF s \in insts.table THEN known ELSE Loaded(s)
  IN
  /\ s # loop.cur /\ Exported(s, insts.version)
  /\ loop' = [loop EXCEPT !.cur = s, !.trigger = TRUE]
  /\ \/ given /\ Given(n, s, k)
     \/ /\ ~given
        /\ insts' = [insts EXCEPT !.table = @ \cup {s}, !.kept = @ \cup {s},
                                  !.state = IF s = "uploaded" THEN value ELSE @]
        /\ Keep(s, value, k, IF value = want THEN {"saved", "scene"} ELSE {"scene"}, {})
        /\ UNCHANGED want
  /\ Becomes(n, "handled") /\ Changes(n) /\ chan' = Rest

\* When the initialisation fails the old scene, already told to close, stays.
SwitchFails(n, s) ==
  /\ s # loop.cur /\ Exported(s, insts.version) /\ s \notin insts.table
  /\ "init" \in FaultKinds /\ Spend(1)
  /\ known' = Loaded(s)
  /\ Refuse(n) /\ UNCHANGED loop

\* setCurrentScene to the current scene, with a state.
GiveAgain(n) ==
  /\ loop.cur \in insts.table
  /\ Given(n, loop.cur, known)
  /\ loop' = [loop EXCEPT !.trigger = TRUE]
  /\ Becomes(n, "handled") /\ Changes(n) /\ chan' = Rest

\* It is refused for a scene that does not exist, has nothing to do for the
\* current one without a state, and finds no handler if that has no instance.
DoSet(n, s, given) ==
  \/ SwitchTo(n, s, given)
  \/ SwitchFails(n, s)
  \/ s = loop.cur /\ given /\ GiveAgain(n)
  \/ /\ s = loop.cur \/ ~Exported(s, insts.version)
     /\ given /\ s = loop.cur => s \notin insts.table
     /\ loop' = IF given /\ s = loop.cur THEN [loop EXCEPT !.trigger = TRUE] ELSE loop
     /\ Refuse(n) /\ UNCHANGED <<known, faults>>

\* What an upload has written when it succeeds, with a state or without one.
Stored(n, seeded) ==
  /\ known' = IF seeded THEN [known EXCEPT !.saved = n] ELSE known
  /\ disk' = [disk EXCEPT !.uploads = n, !.saved = IF seeded THEN n ELSE @]
  /\ want' = IF seeded THEN n ELSE want
  /\ spoiled' = IF seeded THEN spoiled \ {"saved"} ELSE spoiled

\* Faulty variant: the instance of the scene that was replaced stays.
UploadKeeps(n, seeded) ==
  /\ insts' = [insts EXCEPT !.version = n]
  /\ loop' = [loop EXCEPT !.cur = "uploaded", !.force = TRUE, !.trigger = TRUE]
  /\ Stored(n, seeded)
  /\ Becomes(n, "handled") /\ Changes(n) /\ chan' = Rest
  /\ UNCHANGED faults

\* uploadScenes: the registry, uploaded.json, the scene's state if it came with
\* one, and the instance leaves the table.
Upload(n, seeded) ==
  /\ insts' = [insts EXCEPT !.version = n, !.table = @ \ {"uploaded"}, !.kept = @ \ {"uploaded"}]
  /\ loop' = [loop EXCEPT !.cur = "uploaded", !.force = TRUE, !.trigger = TRUE,
                          !.held = Orphaned({"uploaded"})]
  /\ Stored(n, seeded)
  /\ Becomes(n, "handled") /\ Changes(n) /\ chan' = Rest
  /\ UNCHANGED faults

\* If a file cannot be written the handler stops there: uploaded.json, with the
\* registry changed, or the state, with uploaded.json written too.
UploadFails(n, seeded) ==
  /\ "write" \in FaultKinds /\ Spend(1)
  /\ insts' = [insts EXCEPT !.version = n]
  /\ \/ /\ \E u \in Left(TRUE, n, disk.uploads, 0) : disk' = [disk EXCEPT !.uploads = u]
        /\ UNCHANGED <<known, spoiled>>
     \/ /\ seeded
        /\ known' = [known EXCEPT !.saved = n]
        /\ \E v \in Left(TRUE, n, disk.saved, 0) :
             disk' = [disk EXCEPT !.uploads = n, !.saved = v]
        /\ spoiled' = spoiled \cup {"saved"}
  /\ Becomes(n, "refused") /\ chan' = Rest
  /\ UNCHANGED <<loop, unshown, want>>

\* reload: every instance leaves the table.
DoReload(n) ==
  /\ insts' = [insts EXCEPT !.table = {}, !.kept = {}, !.version = LookUpVersion]
  /\ loop' = [loop EXCEPT !.cur = LookUpScene, !.force = TRUE, !.trigger = TRUE,
                          !.held = Orphaned(Scene)]
  /\ LookUp
  /\ Becomes(n, "handled") /\ Changes(n) /\ chan' = Rest
  /\ UNCHANGED <<want, faults>>

\* The event the message loop takes next, if there is one.
Oldest == IF chan.pending # {} THEN chan.pending
          ELSE IF chan.queue # <<>> THEN {Head(chan.queue)} ELSE {}

\* The next event that is not a mouseMove.
HandleEvent ==
  /\ Awaiting
  /\ \E e \in Oldest :
       \/ e.is.what = "render" /\ DoRender(e.n)
       \/ e.is.what = "key" /\ DoDispatch(e.n)
       \/ e.is.what = "state" /\ DoState(e.n)
       \/ e.is.what \in {"set", "give"} /\ DoSet(e.n, e.is.scene, e.is.what = "give")
       \/ /\ e.is.what \in {"upload", "seed"}
          /\ \/ Upload(e.n, e.is.what = "seed")
             \/ UploadFails(e.n, e.is.what = "seed")
       \/ e.is.what = "reload" /\ DoReload(e.n)
  /\ UNCHANGED <<at, acking, moves, starts, boots>>

Move(e) == e.is.what = "move"

\* k is the number of mouseMoves at the head of the channel.
Burst(k) == /\ \A i \in 1 .. k : Move(chan.queue[i])
            /\ k < Len(chan.queue) => ~Move(chan.queue[k + 1])

\* Of a burst of k the event at position h is handled.
Coalesced(k, h) ==
  [n \in Num |-> IF n = chan.queue[h].n THEN "handled"
                 ELSE IF \E i \in 1 .. k : chan.queue[i].n = n THEN "coalesced" ELSE fate[n]]
AfterBurst(k) == SubSeq(chan.queue, k + 2, Len(chan.queue))
PutAside(k) == IF k < Len(chan.queue) THEN {chan.queue[k + 1]} ELSE {}

\* Faulty variant: the event that ends the burst is read and forgotten.
HandleMovesForgets ==
  /\ Awaiting /\ chan.pending = {}
  /\ \E k \in 1 .. Len(chan.queue) :
       /\ Burst(k) /\ fate' = Coalesced(k, k)
       /\ chan' = [queue |-> AfterBurst(k), pending |-> {}, draining |-> TRUE]
  /\ UNCHANGED <<at, loop, insts, known, disk, acking, moves, unshown, starts, want, spoiled, boots, faults>>

\* Faulty variant: the burst is skipped, and its first move dispatched.
HandleMovesOldest ==
  /\ Awaiting /\ chan.pending = {}
  /\ \E k \in 1 .. Len(chan.queue) :
       /\ Burst(k) /\ fate' = Coalesced(k, 1)
       /\ chan' = [queue |-> AfterBurst(k), pending |-> PutAside(k), draining |-> TRUE]
  /\ UNCHANGED <<at, loop, insts, known, disk, acking, moves, unshown, starts, want, spoiled, boots, faults>>

\* A burst of mouseMoves: the newest is dispatched, the first other event behind
\* it is put aside as pendingEvent.
HandleMoves ==
  /\ Awaiting /\ chan.pending = {}
  /\ \E k \in 1 .. Len(chan.queue) :
       /\ Burst(k) /\ fate' = Coalesced(k, k)
       /\ chan' = [queue |-> AfterBurst(k), pending |-> PutAside(k), draining |-> TRUE]
  /\ UNCHANGED <<at, loop, insts, known, disk, acking, moves, unshown, starts, want, spoiled, boots, faults>>

\* The channel is empty: the message loop awaits.
Drained ==
  /\ chan.draining /\ chan.queue = <<>> /\ chan.pending = {}
  /\ chan' = [chan EXCEPT !.draining = FALSE]
  /\ UNCHANGED <<at, loop, insts, known, disk, acking, history, spoiled, boots, faults>>

-----------------------------------------------------------------------------
(* The render loop.                                                        *)

\* Faulty variant: a reload requested by an event is not looked at.
BeginPassUnforced ==
  /\ at = "top"
  /\ LET s == loop.cur
         fresh == loop.last # s /\ s \notin insts.table IN
     /\ loop' = [loop EXCEPT !.trigger = FALSE, !.force = FALSE, !.last = s,
                   !.held = IF loop.last = s THEN @
                            ELSE [NoInstance EXCEPT !.scene = s, !.live = TRUE]]
     /\ insts' = IF fresh THEN [insts EXCEPT !.table = @ \cup {s},
                                  !.state = IF s = "uploaded" THEN disk.saved ELSE @]
                 ELSE insts
     /\ known' = IF fresh THEN Loaded(s) ELSE known
  /\ at' = "render" /\ unshown' = {}
  /\ UNCHANGED <<chan, disk, acking, fate, moves, starts, want, spoiled, boots, faults>>

\* Is the scene of the pass another than the last one's?  (The current scene is
\* always exported: RunnerLoopProofs, CurrentIsExported.)
Changed == loop.force \/ loop.last # loop.cur

LiveScene(s) == [scene |-> s, live |-> TRUE, error |-> FALSE, kept |-> FALSE, state |-> 0]
ErrorScene(s) == [scene |-> s, live |-> FALSE, error |-> TRUE, kept |-> FALSE, state |-> 0]

Begun(last, held) == [loop EXCEPT !.force = FALSE, !.trigger = FALSE,
                                  !.last = last, !.held = held]

\* The guard file keeps the scene about to be drawn, with the count unchanged; k
\* other things fail beside it.
GuardContext(k) ==
  IF Changed /\ loop.passes < ContextLimit /\ loop.cur # "guard"
  THEN GuardFile(known.crashes, starts, k)
  ELSE Spend(k) /\ UNCHANGED <<disk, spoiled>>

\* The instance of the last pass, or the one in the table.
TakeInstance ==
  /\ ~Changed \/ loop.cur \in insts.table
  /\ loop' = Begun(loop.cur, IF Changed THEN LiveScene(loop.cur) ELSE loop.held)
  /\ GuardContext(0) /\ UNCHANGED <<insts, known>>

\* It is initialised, with the state it left on disk.
InitInstance ==
  /\ Changed /\ loop.cur \notin insts.table
  /\ loop' = Begun(loop.cur, LiveScene(loop.cur))
  /\ insts' = [insts EXCEPT !.table = @ \cup {loop.cur},
                            !.state = IF loop.cur = "uploaded" THEN disk.saved ELSE @]
  /\ GuardContext(0) /\ known' = Loaded(loop.cur)

\* Or an error scene takes its place.
InitFails ==
  /\ Changed /\ loop.cur \notin insts.table
  /\ "init" \in FaultKinds
  /\ loop' = Begun(NoScene, ErrorScene(loop.cur))
  /\ GuardContext(1) /\ known' = Loaded(loop.cur)
  /\ UNCHANGED insts

\* From the top of the loop to the scene's render.
BeginPass ==
  /\ at = "top" /\ at' = "render"
  /\ TakeInstance \/ InitInstance \/ InitFails
  /\ unshown' = {}
  /\ UNCHANGED <<chan, acking, fate, moves, starts, want, boots>>

\* The scene is drawn (an error of its own is drawn too): clearBootCrashCount,
\* then the driver, then the await.
Rendered ==
  /\ at = "render" /\ at' = "settle"
  /\ loop' = [loop EXCEPT !.passes = IF @ < ContextLimit THEN @ + 1 ELSE @]
  /\ known' = [known EXCEPT !.crashes = 0] /\ starts' = 0
  /\ IF known.crashes # 0
     THEN GuardFile(0, 0, 0)
     ELSE /\ spoiled' = IF disk.crashes = 0 THEN spoiled \ {"crashes"} ELSE spoiled
          /\ UNCHANGED <<disk, faults>>
  /\ UNCHANGED <<chan, insts, acking, fate, moves, unshown, want, boots>>

\* Was the held instance kept within the last second?
HeldKept == IF loop.held.live THEN loop.held.scene \in insts.kept ELSE loop.held.kept

\* The value updateLastPersistedState finds in the held instance.
HeldValue == IF loop.held.error THEN 0 ELSE IF loop.held.live THEN insts.state ELSE loop.held.state

\* The await is over.  The render loop still has the instance it drew, whatever
\* the message loop did meanwhile, and keeps its state; then it sleeps, or goes
\* on at once if a render was asked for.
KeepHeld ==
  LET h == loop.held IN
  /\ insts' = IF h.live THEN [insts EXCEPT !.kept = @ \cup {h.scene}] ELSE insts
  /\ Keep(h.scene, HeldValue, known,
          {f \in {"scene"} : h.scene = loop.cur}
            \cup {f \in {"saved"} : h.live /\ HeldValue = want},
          {f \in {"scene"} : h.scene # loop.cur}
            \cup {f \in {"saved"} : ~h.live /\ HeldValue # want})

\* Faulty variant: a render asked for during the await is taken for done.
SettleForgets ==
  /\ at = "settle" /\ ~chan.draining
  /\ at' = "asleep" /\ loop' = [loop EXCEPT !.trigger = FALSE]
  /\ (HeldKept /\ UNCHANGED <<disk, insts, known, spoiled, faults>>) \/ KeepHeld
  /\ UNCHANGED <<chan, acking, history, boots>>

Settle ==
  /\ at = "settle" /\ ~chan.draining
  /\ at' = IF loop.trigger THEN "top" ELSE "asleep"
  /\ loop' = [loop EXCEPT !.trigger = FALSE]
  /\ (HeldKept /\ UNCHANGED <<disk, insts, known, spoiled, faults>>) \/ KeepHeld
  /\ UNCHANGED <<chan, acking, history, boots>>

\* Faulty variant: the sleep is cut short by a reload only.
WakeForced ==
  /\ at = "asleep" /\ ~chan.draining /\ loop.trigger /\ loop.force
  /\ at' = "top"
  /\ UNCHANGED <<chan, loop, insts, known, disk, acking, history, spoiled, boots, faults>>

\* A sleep slice ends and finds a render asked for.
Wake ==
  /\ at = "asleep" /\ ~chan.draining /\ loop.trigger
  /\ at' = "top"
  /\ UNCHANGED <<chan, loop, insts, known, disk, acking, history, spoiled, boots, faults>>

\* The scene's own interval is over; it may be days.
IntervalOver ==
  /\ at = "asleep" /\ ~chan.draining /\ ~loop.trigger
  /\ at' = "top"
  /\ UNCHANGED <<chan, loop, insts, known, disk, acking, history, spoiled, boots, faults>>

-----------------------------------------------------------------------------
(* The specification.                                                      *)

RenderLoop == BeginPass \/ Rendered \/ Settle \/ Wake
MessageLoop == HandleEvent \/ HandleMoves \/ Drained

Next ==
  \/ Start \/ RunnerStarts \/ FatalRetry \/ FatalQuit \/ ServerFails \/ Crash
  \/ SendEvent \/ HandleSetScenes \/ PersistChecksum
  \/ RenderLoop \/ IntervalOver \/ MessageLoop

Spec == Init /\ [][Next]_vars /\ WF_vars(RenderLoop) /\ SF_vars(MessageLoop)

-----------------------------------------------------------------------------
(* Properties.                                                             *)

\* No accepted event vanishes: until it is handled it is in the channel or put
\* aside, in order; only the death of the process takes it away.
NoEventVanishes ==
  {n \in Num : fate[n] = "waiting"} =
    {e.n : e \in chan.pending \cup {chan.queue[i] : i \in DOMAIN chan.queue}} \ {0}

\* Only mouseMoves are skipped, and only for a newer one with no other event in
\* between: a drag ends where it ended before the button was let go.
CoalescingKeepsLast ==
  \A n \in Num : fate[n] = "coalesced" =>
    /\ n \in moves
    /\ \E m \in moves : /\ m > n /\ fate[m] = "handled"
                        /\ \A i \in n .. m : i \in moves \/ fate[i] = "dropped"

\* A change the message loop has made is drawn by the next pass, and that pass
\* has been asked for: it is not left to the scene's interval.  (Only a state
\* whose follow-up render found the channel full again is left to it.)
NoLostRender ==
  unshown # {} =>
    \/ loop.trigger \/ at = "top"
    \/ FollowUp \in chan.pending
    \/ \E i \in DOMAIN chan.queue : chan.queue[i] = FollowUp

\* Asleep with nothing asked for, the frame shows the current scene, through
\* the instance events are dispatched to and not one that was replaced.
ShownIsCurrent ==
  (at = "asleep" /\ ~loop.trigger) =>
    /\ loop.held.scene = loop.cur
    /\ loop.held.live \/ loop.held.error
    /\ loop.held.live => loop.cur \in insts.table

\* The saved value of the field is the one last given to it, unless the file was
\* spoiled: a write of it failed (the process takes it for written, and does not
\* try again), the render loop wrote back the value of an instance that was
\* replaced while it awaited or of the error scene of a failed initialisation, or
\* the first look-up of a process found no uploaded.json and deleted it.
SavedStateSurvives == disk.saved = want \/ "saved" \in spoiled

\* "Changes to this field are persisted and restored after a reboot"
\* (SceneState.tsx): the value a start restores is the one last given.
FieldIsRestored == disk.saved = want

\* Asleep, the scene to come back to is the current one, unless scene.json was
\* spoiled: a write of it failed and is not tried again, or the render loop wrote
\* the scene it drew before the switch.
RememberedIsCurrent ==
  (at = "asleep" /\ ~loop.trigger /\ loop.cur \notin SystemScenes) =>
    disk.scene = loop.cur \/ "scene" \in spoiled

\* "then `scene_ack` once it is actually live" (docs/cloud-frames.md), lest it
\* "would tell the provider the frame is up to date forever" (hub_client.nim): when
\* the frame has taken in all it was sent and sleeps, the checksum it goes on
\* reporting is that of a payload the runner has applied.
AtRest == at = "asleep" /\ ~loop.trigger /\ chan.queue = <<>> /\ chan.pending = {}
ReportedIsLive ==
  AtRest /\ disk.checksum # 0 => fate[disk.checksum] = "handled"

\* Safe mode: the runner starts with the boot guard's scene exactly when this is
\* the third start in a row without a completed render (the hotspot's scene or
\* the look-up otherwise), unless the count is not that of the starts: a write of
\* it failed, or the main loop forgave a start that ended in an exception.
SafeModeAfterThree ==
  [][at = "init" /\ at' = "top" =>
       \/ "crashes" \in spoiled
       \/ loop'.cur = "guard" <=> starts >= CrashLimit]_vars

\* An accepted event that changes the display is drawn, refused or lost with
\* the process, however long the scene's interval is: again and again there is
\* nothing outstanding.
Outstanding == {n \in Num : fate[n] = "waiting"} \cup unshown
EventIsShown == []<>(Outstanding = {})
=============================================================================
