-------------------------- MODULE RunnerLoopProofs --------------------------
(***************************************************************************)
(* Theorems about RunnerLoop, for every set of kinds and every bound.      *)
(*                                                                         *)
(* Two inductive invariants, in parts.  Inv: TypeOK and ChannelOK say what *)
(* is in the variables, StoppedOK what a process that does not run has,    *)
(* HeldOK what the render loop's local instance has to do with the scenes  *)
(* table; on them rest four independent arguments, that a change is drawn, *)
(* that the frame shows the current scene, that the boot guard counts, and *)
(* that a saved value changes only on purpose or by the ways named in the  *)
(* specification.  LedgerOK, on top of it: FateOK follows every event      *)
(* through the channel, on it rests the order of coalesced moves, and      *)
(* KeptOK is about the scene to come back to.                              *)
(***************************************************************************)
EXTENDS RunnerLoop, FiniteSetTheorems, TLAPS

Events(c) == c.pending \cup {c.queue[i] : i \in DOMAIN c.queue}
Channel == [queue : Seq(Event), pending : SUBSET Event, draining : BOOLEAN]

\* Only a handler's own "render" has no number; one event at most is put aside.
ChannelOK ==
  /\ \A e \in Events(chan) : e.n = 0 => e = FollowUp
  /\ \A e, f \in chan.pending : e = f

\* Without a runner there is no scene and nothing to draw.
StoppedOK ==
  ~Running => /\ insts = NoScenes /\ unshown = {}
              /\ loop.last = NoScene /\ loop.held = NoInstance

\* The render loop's instance: that of lastSceneId, and of the table unless a
\* reload is pending.
HeldOK ==
  /\ loop.last # NoScene => loop.held.scene = loop.last
  /\ (loop.last # NoScene /\ ~loop.force) => loop.held.live
  /\ loop.held.live => loop.held.scene \in insts.table /\ ~loop.held.error
  /\ at \in {"render", "settle", "asleep"} => loop.held.scene # NoScene

\* ShownIsCurrent from the start of the pass.
ShownOK ==
  (at \in {"render", "settle", "asleep"} /\ ~loop.trigger) =>
    loop.held.scene = loop.cur /\ (loop.held.live \/ loop.held.error)

\* The count on the file, in memory and in fact, and what it decides.
CountOK ==
  /\ \/ "crashes" \in spoiled
     \/ disk.crashes = starts /\ (at # "off" => known.crashes = starts)
  /\ at = "init" => (loop.first = "guard" <=> known.crashes >= CrashLimit)

\* The value on the file, in the table and as last given.
SavedOK ==
  \/ "saved" \in spoiled
  \/ /\ disk.saved = want
     /\ "uploaded" \in insts.table => insts.state = want
     /\ known.saved # 0 => known.saved = want

Inv == /\ TypeOK /\ ChannelOK /\ StoppedOK /\ HeldOK
       /\ ShownOK /\ NoLostRender /\ CountOK /\ SavedOK

USE RunnerAssumption

-----------------------------------------------------------------------------
(* The channel.                                                            *)

\* The "render" a scene's handler sends is an event without a number.
LEMMA FollowUpLemma == FollowUp \in Event /\ FollowUp.n = 0
BY DEF FollowUp, Event, Kind

\* Sending an event adds just that one to the channel.
LEMMA AppendLemma ==
  ASSUME NEW c \in Channel, NEW e \in Event
  PROVE  /\ [c EXCEPT !.queue = Append(@, e)] \in Channel
         /\ Events([c EXCEPT !.queue = Append(@, e)]) = Events(c) \cup {e}
<1> DEFINE d == [c EXCEPT !.queue = Append(@, e)]
<1>1. c.queue \in Seq(Event)
  BY DEF Channel
<1>2. d.queue = Append(c.queue, e) /\ d.pending = c.pending /\ d \in Channel
  <2>1. Append(c.queue, e) \in Seq(Event)
    BY <1>1
  <2>2. d.queue = Append(c.queue, e) /\ d.pending = c.pending
    BY DEF Channel
  <2>3. d \in Channel
    BY <2>1 DEF Channel
  <2> QED
    BY <2>2, <2>3
<1>3. DOMAIN d.queue = 1 .. Len(c.queue) + 1 /\ DOMAIN c.queue = 1 .. Len(c.queue)
  BY <1>1, <1>2
<1>4. \A i \in 1 .. Len(c.queue) : d.queue[i] = c.queue[i]
  BY <1>1, <1>2
<1>5. d.queue[Len(c.queue) + 1] = e
  BY <1>1, <1>2
<1>6. Len(c.queue) \in Nat
  BY <1>1
<1> QED
  BY <1>2, <1>3, <1>4, <1>5, <1>6 DEF Events

\* Taking the oldest event leaves the others.
LEMMA RestLemma ==
  ASSUME chan \in Channel, \A x, y \in chan.pending : x = y, NEW e \in Oldest
  PROVE  /\ e \in Events(chan) /\ e \in Event
         /\ Rest \in Channel /\ Rest.pending = {}
         /\ Events(Rest) \subseteq Events(chan)
         /\ Events(chan) \subseteq Events(Rest) \cup {e}
<1>1. chan.queue \in Seq(Event) /\ chan.pending \subseteq Event
  BY DEF Channel
<1>2. CASE chan.pending # {}
  <2>1. Rest.queue = chan.queue /\ Rest.pending = {} /\ Oldest = chan.pending /\ Rest.draining = TRUE
    BY <1>2 DEF Rest, Oldest
  <2>2. e \in chan.pending /\ e \in Events(chan) /\ e \in Event
    BY <1>1, <2>1 DEF Events
  <2>3. Rest = [queue |-> chan.queue, pending |-> {}, draining |-> TRUE]
    BY <1>2 DEF Rest
  <2>4. Rest \in Channel
    BY <1>1, <2>3 DEF Channel
  <2>5. Events(Rest) = {chan.queue[i] : i \in DOMAIN chan.queue}
    BY <2>1 DEF Events
  <2>6. chan.pending = {e}
    BY <2>2, <1>2
  <2>7. Rest.pending = {}
    BY <2>3
  <2> QED
    BY <2>2, <2>4, <2>5, <2>6, <2>7 DEF Events
<1>3. CASE chan.pending = {}
  <2>1. chan.queue # <<>> /\ e = Head(chan.queue)
    BY <1>3 DEF Oldest
  <2>2. Rest.queue = Tail(chan.queue) /\ Rest.pending = {}
    BY <1>3 DEF Rest
  <2>3. /\ Len(chan.queue) \in Nat \ {0}
        /\ DOMAIN chan.queue = 1 .. Len(chan.queue)
        /\ Tail(chan.queue) \in Seq(Event)
        /\ DOMAIN Tail(chan.queue) = 1 .. Len(chan.queue) - 1
    BY <1>1, <2>1
  <2>4. e = chan.queue[1]
    BY <1>1, <2>1
  <2>5. \A i \in 1 .. Len(chan.queue) - 1 : Tail(chan.queue)[i] = chan.queue[i + 1]
    BY <1>1, <2>1
  <2>6. Events(Rest) \subseteq Events(chan)
    BY <1>3, <2>2, <2>3, <2>5 DEF Events
  <2>7. ASSUME NEW i \in 1 .. Len(chan.queue)
        PROVE  chan.queue[i] \in Events(Rest) \cup {e}
    <3>1. CASE i = 1
      BY <2>4, <3>1
    <3>2. CASE i # 1
      <4>1. i - 1 \in 1 .. Len(chan.queue) - 1 /\ Tail(chan.queue)[i - 1] = chan.queue[i]
        BY <2>3, <2>5, <3>2
      <4> QED
        BY <2>2, <2>3, <4>1 DEF Events
    <3> QED
      BY <3>1, <3>2
  <2> QED
    BY <1>1, <1>3, <2>2, <2>3, <2>4, <2>6, <2>7 DEF Events, Channel, Rest
<1> QED
  BY <1>2, <1>3

\* A burst takes moves only.
LEMMA BurstLemma ==
  ASSUME chan \in Channel, chan.pending = {}, NEW k \in 1 .. Len(chan.queue), Burst(k),
         NEW c, c = [queue |-> AfterBurst(k), pending |-> PutAside(k), draining |-> TRUE]
  PROVE  /\ c \in Channel /\ \A x, y \in c.pending : x = y
         /\ Events(c) \subseteq Events(chan)
         /\ \A e \in Events(chan) : e \in Events(c) \/ Move(e)
<1> DEFINE q == chan.queue
<1>1. q \in Seq(Event) /\ Len(q) \in Nat /\ DOMAIN q = 1 .. Len(q)
  BY DEF Channel
<1>2. AfterBurst(k) \in Seq(Event)
  BY <1>1 DEF AfterBurst
<1>3. DOMAIN AfterBurst(k) = 1 .. (IF k + 2 <= Len(q) THEN Len(q) - k - 1 ELSE 0)
  BY <1>1, <1>2 DEF AfterBurst
<1>4. \A i \in DOMAIN AfterBurst(k) : AfterBurst(k)[i] = q[i + k + 1] /\ i + k + 1 \in 1 .. Len(q)
  BY <1>1, <1>3 DEF AfterBurst
<1>5. c \in Channel /\ \A x, y \in c.pending : x = y
  BY <1>1, <1>2 DEF Channel, PutAside
<1>6. Events(c) \subseteq Events(chan)
  BY <1>1, <1>4 DEF Events, PutAside
<1>7. ASSUME NEW i \in 1 .. Len(q) PROVE q[i] \in Events(c) \/ Move(q[i])
  <2>1. CASE i <= k
    BY <1>1, <2>1 DEF Burst
  <2>2. CASE i = k + 1
    BY <1>1, <2>2 DEF Events, PutAside
  <2>3. CASE i > k + 1
    <3>1. i - k - 1 \in DOMAIN AfterBurst(k) /\ AfterBurst(k)[i - k - 1] = q[i]
      BY <1>1, <1>3, <1>4, <2>3
    <3> QED
      BY <3>1 DEF Events
  <2> QED
    BY <1>1, <2>1, <2>2, <2>3
<1> QED
  BY <1>1, <1>5, <1>6, <1>7 DEF Events

\* What the fields of an event range over.
LEMMA KindLemma ==
  ASSUME NEW e \in Event
  PROVE  /\ e.n \in 0 .. MaxEvents /\ (e.n # 0 => e.n \in Num)
         /\ e.is.what \in {"set", "give"} => e.is.scene \in Scene
BY DEF Event, Kind, Num

\* An event number fits where zero stands for none.
LEMMA MaxSlots == \A n \in Num : n \in 0 .. MaxEvents /\ n # 0
BY DEF Num

-----------------------------------------------------------------------------
(* TypeOK.                                                                 *)

LoopSet == [cur : Scene, trigger : BOOLEAN, force : BOOLEAN,
            last : Scene \cup {NoScene}, held : Instance, passes : 0 .. ContextLimit,
            first : SystemScenes \cup {NoScene}]
InstsSet == [table : SUBSET Scene, kept : SUBSET Scene, state : 0 .. MaxEvents,
             version : 0 .. MaxEvents]
KnownSet == [crashes : Nat, scene : {"home", "uploaded", NoScene}, saved : 0 .. MaxEvents,
             swept : BOOLEAN]
DiskSet == [crashes : Nat, scene : {"home", "uploaded", NoScene}, uploads : 0 .. MaxEvents,
            saved : 0 .. MaxEvents, checksum : 0 .. MaxEvents]
Files == {"crashes", "scene", "saved"}

LoopType == loop \in LoopSet
InstsType == insts \in InstsSet
KnownType == known \in KnownSet
DiskType == disk \in DiskSet

\* What TypeOK says of the variables that are not records.
CountsType ==
  /\ at \in {"off", "retry", "init", "top", "render", "settle", "asleep"}
  /\ acking \in 0 .. MaxEvents
  /\ fate \in [Num -> Fates] /\ moves \subseteq Num
  /\ unshown \subseteq Num /\ starts \in Nat /\ want \in 0 .. MaxEvents
  /\ spoiled \subseteq Files
  /\ boots \in 0 .. MaxBoots /\ faults \in 0 .. MaxFaults

\* TypeOK, one record at a time.
LEMMA TypeParts ==
  /\ TypeOK <=> CountsType /\ chan \in Channel /\ LoopType /\ InstsType /\ KnownType /\ DiskType
  /\ (TypeOK <=> CountsType /\ chan \in Channel /\ LoopType /\ InstsType /\ KnownType /\ DiskType)'
BY DEF TypeOK, CountsType, Channel, LoopType, InstsType, DiskType, KnownType, LoopSet, InstsSet,
       DiskSet, KnownSet, Files

\* The event the message loop is about to handle.
LEMMA TakenLemma ==
  ASSUME TypeOK, ChannelOK, NEW e \in Oldest
  PROVE  /\ e \in Event /\ e \in Events(chan)
         /\ e.is.what # "render" => e.n \in Num
         /\ e.n # 0 => e.n \in Num
         /\ e.is.what \in {"set", "give"} => e.is.scene \in Scene
         /\ Rest \in Channel /\ Rest.pending = {}
         /\ Events(Rest) \subseteq Events(chan)
         /\ Events(chan) \subseteq Events(Rest) \cup {e}
<1>1. chan \in Channel /\ \A x, y \in chan.pending : x = y
  BY DEF TypeOK, ChannelOK, Channel
<1>2. e \in Event /\ e \in Events(chan)
  BY <1>1, RestLemma
<1>3. e.n = 0 => e.is.what = "render"
  BY <1>2 DEF ChannelOK, FollowUp
<1> QED
  BY <1>1, <1>2, <1>3, RestLemma, KindLemma

\* A budget is spent within its bound.
LEMMA SpendLemma ==
  ASSUME faults \in 0 .. MaxFaults, NEW k \in Nat, Spend(k)
  PROVE  faults' \in 0 .. MaxFaults
BY DEF Spend

\* writeBootGuardState writes the count or spoils the file, and touches nothing
\* else.
LEMMA GuardFileLemma ==
  ASSUME DiskType, spoiled \subseteq Files, faults \in 0 .. MaxFaults,
         NEW n \in Nat, NEW t \in Nat, NEW k \in Nat, GuardFile(n, t, k)
  PROVE  /\ DiskType' /\ spoiled' \subseteq Files /\ faults' \in 0 .. MaxFaults
         /\ disk'.saved = disk.saved /\ disk'.scene = disk.scene
         /\ "saved" \in spoiled' <=> "saved" \in spoiled
         /\ "scene" \in spoiled' <=> "scene" \in spoiled
         /\ \/ "crashes" \in spoiled'
            \/ disk'.crashes = n /\ (n = t \/ "crashes" \notin spoiled)
<1>1. CASE /\ Spend(k) /\ disk' = [disk EXCEPT !.crashes = n]
           /\ spoiled' = IF n = t THEN spoiled \ {"crashes"} ELSE spoiled
  <2>1. DiskType' /\ disk'.saved = disk.saved /\ disk'.scene = disk.scene /\ disk'.crashes = n
    BY <1>1 DEF DiskType, DiskSet
  <2> QED
    BY <1>1, <2>1, SpendLemma
<1>2. CASE /\ Spend(k + 1) /\ spoiled' = spoiled \cup {"crashes"}
           /\ \E c \in Left(TRUE, n, disk.crashes, 0) : disk' = [disk EXCEPT !.crashes = c]
  <2>1. PICK c \in {disk.crashes, 0} : disk' = [disk EXCEPT !.crashes = c]
    BY <1>2 DEF Left
  <2>2. c \in Nat
    BY DEF DiskType, DiskSet
  <2>3. DiskType' /\ disk'.saved = disk.saved /\ disk'.scene = disk.scene
    BY <2>1, <2>2 DEF DiskType, DiskSet
  <2>4. faults' \in 0 .. MaxFaults
    BY <1>2, SpendLemma
  <2> QED
    BY <1>2, <2>3, <2>4 DEF Files
<1> QED
  BY <1>1, <1>2 DEF GuardFile

\* loadPersistedState changes what the process knows of the field only.
LEMMA LoadedLemma ==
  ASSUME DiskType, KnownType, NEW s
  PROVE  /\ Loaded(s) \in KnownSet
         /\ Loaded(s).crashes = known.crashes /\ Loaded(s).scene = known.scene
         /\ Loaded(s).saved = IF s = "uploaded" /\ disk.saved # 0 THEN disk.saved ELSE known.saved
BY DEF DiskType, KnownType, DiskSet, KnownSet, Loaded

\* getFirstSceneId names a scene that exists and is no system scene; it reads
\* what scene.json says, and deletes the field's file or leaves it.
LEMMA LookUpLemma ==
  ASSUME DiskType, KnownType, InstsType, spoiled \subseteq Files, LookUp
  PROVE  /\ LookUpScene \in {"home", "uploaded"} /\ LookUpVersion \in 0 .. MaxEvents
         /\ Exported(LookUpScene, LookUpVersion)
         /\ KnownType' /\ DiskType' /\ spoiled' \subseteq Files
         /\ known'.crashes = known.crashes /\ disk'.crashes = disk.crashes
         /\ known'.saved = known.saved
         /\ "crashes" \in spoiled' <=> "crashes" \in spoiled
         /\ "saved" \notin spoiled' => "saved" \notin spoiled /\ disk'.saved = disk.saved
         /\ disk'.scene = disk.scene
         /\ known'.scene = IF disk.scene = NoScene THEN known.scene ELSE disk.scene
         /\ "scene" \in spoiled' <=> "scene" \in spoiled /\ LookUpScene # disk.scene
<1>1. LookUpScene \in {"home", "uploaded"} /\ LookUpVersion \in 0 .. MaxEvents
      /\ Exported(LookUpScene, LookUpVersion)
  BY DEF LookUpScene, LookUpVersion, Exported, DiskType, InstsType, DiskSet, InstsSet, NoScene
<1>2. /\ known' = [known EXCEPT !.swept = TRUE,
                       !.scene = IF disk.scene = NoScene THEN @ ELSE disk.scene]
      /\ disk' = IF Orphans THEN [disk EXCEPT !.saved = 0] ELSE disk
      /\ spoiled' = (spoiled \ (IF LookUpScene = disk.scene THEN {"scene"} ELSE {}))
                       \cup (IF Orphans THEN {"saved"} ELSE {})
  BY DEF LookUp
<1>3. KnownType' /\ known'.crashes = known.crashes /\ known'.saved = known.saved
      /\ known'.scene = IF disk.scene = NoScene THEN known.scene ELSE disk.scene
  BY <1>2 DEF KnownType, KnownSet, DiskType, DiskSet
<1>4. DiskType' /\ disk'.crashes = disk.crashes /\ disk'.scene = disk.scene
      /\ (~Orphans => disk'.saved = disk.saved)
  BY <1>2 DEF DiskType, DiskSet
<1>5. spoiled' \subseteq Files
  BY <1>2 DEF Files
<1> QED
  BY <1>1, <1>2, <1>3, <1>4, <1>5

Kept == {"saved", "scene"}

\* updateLastPersistedState: for each of its two files it does nothing, or spoils
\* it, or writes it; the crash count is not its business.
LEMMA KeepLemma ==
  ASSUME DiskType, spoiled \subseteq Files, faults \in 0 .. MaxFaults,
         NEW s \in Scene, NEW v \in 0 .. MaxEvents, NEW k \in KnownSet,
         NEW right \in SUBSET Kept, NEW stale \in SUBSET Kept,
         Keep(s, v, k, right, stale)
  PROVE  /\ KnownType' /\ DiskType' /\ spoiled' \subseteq Files /\ faults' \in 0 .. MaxFaults
         /\ known'.crashes = k.crashes /\ disk'.crashes = disk.crashes
         /\ "crashes" \in spoiled' <=> "crashes" \in spoiled
         /\ \/ "saved" \in spoiled'
            \/ /\ s # "uploaded" \/ v = k.saved
               /\ disk'.saved = disk.saved /\ known'.saved = k.saved /\ "saved" \notin spoiled
            \/ /\ s = "uploaded" /\ disk'.saved = v /\ known'.saved = v /\ "saved" \notin stale
               /\ "saved" \in spoiled => "saved" \in right
         /\ \/ "scene" \in spoiled'
            \/ /\ s \in SystemScenes \/ s = k.scene
               /\ disk'.scene = disk.scene /\ known'.scene = k.scene
               /\ "scene" \notin spoiled
            \/ /\ s \notin SystemScenes /\ disk'.scene = s /\ known'.scene = s
               /\ "scene" \notin stale /\ ("scene" \in spoiled => "scene" \in right)
<1> DEFINE todo == ToKeep(s, v, k)
<1>1. /\ todo \subseteq Kept
      /\ "saved" \in todo <=> s = "uploaded" /\ v # k.saved
      /\ "scene" \in todo <=> s \notin SystemScenes /\ s # k.scene
  BY DEF ToKeep, Kept
<1> HIDE DEF todo
<1>2. PICK bad \in SUBSET todo :
        /\ Spend(Cardinality(bad))
        /\ \E w \in Left("saved" \in bad, v, disk.saved, 0),
              x \in Left("scene" \in bad, s, disk.scene, NoScene) :
             disk' = [disk EXCEPT !.saved = IF "saved" \in todo THEN w ELSE @,
                                  !.scene = IF "scene" \in todo THEN x ELSE @]
        /\ spoiled' = (spoiled \ ((todo \ bad) \cap right)) \cup bad \cup (todo \cap stale)
  BY DEF Keep, todo
<1>3. known' = [k EXCEPT !.saved = IF "saved" \in todo THEN v ELSE @,
                         !.scene = IF "scene" \in todo THEN s ELSE @]
  BY DEF Keep, todo
<1>4. faults' \in 0 .. MaxFaults
  <2>1. IsFiniteSet(Kept)
    <3>1. IsFiniteSet({"scene"}) /\ Kept = {"scene"} \cup {"saved"}
      BY FS_Singleton DEF Kept
    <3> QED
      BY <3>1, FS_Singleton, FS_Union
  <2>2. Cardinality(bad) \in Nat
    BY <1>1, <2>1, FS_Subset, FS_CardinalityType
  <2> QED
    BY <1>2, <2>2, SpendLemma
<1>p. PICK w \in Left("saved" \in bad, v, disk.saved, 0),
           x \in Left("scene" \in bad, s, disk.scene, NoScene) :
        disk' = [disk EXCEPT !.saved = IF "saved" \in todo THEN w ELSE @,
                             !.scene = IF "scene" \in todo THEN x ELSE @]
  BY <1>2
<1>5. /\ w \in 0 .. MaxEvents /\ ("saved" \notin bad => w = v)
      /\ "scene" \in todo => s \in {"home", "uploaded"}
      /\ "scene" \in todo => x \in {"home", "uploaded", NoScene}
      /\ "scene" \notin bad => x = s
  BY <1>1 DEF Left, DiskType, DiskSet, Scene
<1>6. /\ DiskType' /\ disk'.crashes = disk.crashes
      /\ disk'.saved = IF "saved" \in todo THEN w ELSE disk.saved
      /\ disk'.scene = IF "scene" \in todo THEN x ELSE disk.scene
  BY <1>p, <1>5 DEF DiskType, DiskSet
<1>7. /\ KnownType' /\ known'.crashes = k.crashes
      /\ known'.scene = IF "scene" \in todo THEN s ELSE k.scene
      /\ known'.saved = IF "saved" \in todo THEN v ELSE k.saved
  BY <1>3, <1>5 DEF KnownType, KnownSet
<1>8. /\ spoiled' \subseteq Files
      /\ "crashes" \in spoiled' <=> "crashes" \in spoiled
  BY <1>1, <1>2 DEF Files, Kept
<1> QED
  BY <1>1, <1>2, <1>4, <1>5, <1>6, <1>7, <1>8

\* What a new process starts with has its type.
LEMMA IdleType ==
  /\ Idle \in LoopSet /\ NoInstance \in Instance
  /\ NoEvents \in Channel /\ Events(NoEvents) = {}
  /\ NoScenes \in InstsSet /\ Nothing \in KnownSet
<1>1. NoInstance \in Instance
  BY DEF NoInstance, Instance
<1>2. Idle \in LoopSet
  BY <1>1 DEF Idle, Scene, LoopSet
<1>3. NoEvents \in Channel /\ Events(NoEvents) = {}
  BY DEF NoEvents, Channel, Events
<1>4. NoScenes \in InstsSet /\ Nothing \in KnownSet
  BY DEF NoScenes, InstsSet, Nothing, KnownSet
<1> QED
  BY <1>1, <1>2, <1>3, <1>4

\* The count a start begins from is that of the file, or of the same process.
LEMMA BootedLemma ==
  ASSUME DiskType, KnownType
  PROVE  /\ Booted \in KnownSet
         /\ Booted.crashes = IF at = "off" THEN disk.crashes ELSE known.crashes
         /\ Booted.scene = IF at = "off" THEN NoScene ELSE known.scene
         /\ Booted.saved = IF at = "off" THEN 0 ELSE known.saved
BY IdleType DEF Booted, DiskType, KnownType, DiskSet, KnownSet, Nothing

\* A start leaves the runner of a new process behind, with a first scene that
\* depends on the count.
LEMMA StartLemma ==
  ASSUME DiskType, KnownType, Start
  PROVE  /\ loop' \in LoopSet /\ ~Running /\ at' = "init"
         /\ loop'.cur = "home" /\ loop'.last = NoScene /\ loop'.held = NoInstance
         /\ ~loop'.trigger
         /\ known' \in KnownSet /\ known'.crashes = Booted.crashes + 1
         /\ known'.scene = Booted.scene /\ known'.saved = Booted.saved
         /\ loop'.first = "guard" <=> known'.crashes >= CrashLimit
         /\ GuardFile(known'.crashes, starts + 1, 0)
<1>1. /\ at \in {"off", "retry"} /\ at' = "init"
      /\ known' = [Booted EXCEPT !.crashes = Booted.crashes + 1]
      /\ GuardFile(Booted.crashes + 1, starts + 1, 0)
      /\ \E hotspot \in {NoScene, "system"} :
           loop' = [Idle EXCEPT !.first = IF Booted.crashes + 1 >= CrashLimit
                                          THEN "guard" ELSE hotspot]
  BY DEF Start
<1>2. known' \in KnownSet /\ known'.crashes = Booted.crashes + 1
      /\ known'.scene = Booted.scene /\ known'.saved = Booted.saved
  BY <1>1, BootedLemma DEF KnownSet
<1>3. /\ loop' \in LoopSet /\ loop'.cur = "home" /\ loop'.last = NoScene
      /\ loop'.held = NoInstance /\ ~loop'.trigger
      /\ loop'.first = "guard" <=> Booted.crashes + 1 >= CrashLimit
  <2>1. PICK f \in SystemScenes \cup {NoScene} :
          /\ loop' = [Idle EXCEPT !.first = f]
          /\ f = "guard" <=> Booted.crashes + 1 >= CrashLimit
    BY <1>1 DEF SystemScenes, NoScene
  <2> QED
    BY <2>1, IdleType DEF LoopSet, Idle
<1> QED
  BY <1>1, <1>2, <1>3 DEF Running

\* The invariant holds before the first start.
LEMMA InitInv == Init => Inv
<1> SUFFICES ASSUME Init PROVE Inv
  OBVIOUS
<1>1. TypeOK
  BY IdleType, TypeParts
     DEF Init, CountsType, LoopType, InstsType, KnownType, DiskType, DiskSet, Fates, NoScene
<1>2. ChannelOK
  BY IdleType DEF Init, ChannelOK, NoEvents
<1>3. HeldOK /\ ShownOK /\ CountOK /\ StoppedOK
  BY DEF Init, HeldOK, ShownOK, CountOK, StoppedOK, Idle, NoInstance
<1>4. NoLostRender /\ SavedOK
  BY DEF Init, NoLostRender, SavedOK, NoScenes, Nothing
<1> QED
  BY <1>1, <1>2, <1>3, <1>4 DEF Inv

\* A process that ends leaves typed variables behind.
LEMMA EndsType ==
  ASSUME TypeOK, Ends
  PROVE  /\ chan' \in Channel /\ LoopType' /\ InstsType' /\ KnownType'
         /\ at' = "off" /\ acking' = 0 /\ unshown' = {} /\ fate' \in [Num -> Fates]
BY IdleType DEF TypeOK, Ends, LoopType, InstsType, KnownType, Fates

\* A start keeps the types.
LEMMA StartType == ASSUME TypeOK, Start PROVE TypeOK'
<1> USE TypeParts
<1>1. LoopType' /\ KnownType' /\ at' = "init"
  BY StartLemma DEF LoopType, KnownType
<1>2. DiskType' /\ spoiled' \subseteq Files /\ faults' \in 0 .. MaxFaults
  <2>1. known'.crashes \in Nat /\ starts + 1 \in Nat
    BY StartLemma DEF KnownSet, CountsType
  <2> QED
    BY <2>1, StartLemma, GuardFileLemma DEF CountsType
<1>3. CountsType'
  BY <1>1, <1>2 DEF Start, CountsType
<1> QED
  BY <1>1, <1>2, <1>3 DEF Start, InstsType

\* The start of the runner thread keeps the types.
LEMMA RunnerStartsType == ASSUME TypeOK, RunnerStarts PROVE TypeOK'
<1> USE TypeParts
<1>1. CASE loop.first # NoScene
  <2>1. loop.first \in Scene
    BY <1>1 DEF LoopType, LoopSet, Scene
  <2>2. LoopType'
    BY <1>1, <2>1 DEF RunnerStarts, LoopType, LoopSet
  <2>3. CountsType'
    BY <1>1 DEF RunnerStarts, CountsType, history
  <2> QED
    BY <1>1, <2>2, <2>3 DEF RunnerStarts, InstsType, KnownType, DiskType
<1>2. CASE loop.first = NoScene
  <2>1. LookUp /\ loop' = [loop EXCEPT !.cur = LookUpScene]
        /\ insts' = [insts EXCEPT !.version = LookUpVersion]
    BY <1>2 DEF RunnerStarts
  <2>2. KnownType' /\ DiskType' /\ spoiled' \subseteq Files
        /\ LookUpScene \in Scene /\ LookUpVersion \in 0 .. MaxEvents
    BY <2>1, LookUpLemma DEF CountsType, Scene
  <2>3. LoopType' /\ InstsType'
    BY <2>1, <2>2 DEF LoopType, InstsType, LoopSet, InstsSet
  <2>4. CountsType'
    BY <2>2 DEF RunnerStarts, CountsType, history
  <2> QED
    BY <2>2, <2>3, <2>4 DEF RunnerStarts
<1> QED
  BY <1>1, <1>2

\* Forgiving a crash keeps the types, spoils the count, and nothing else.
LEMMA ForgiveLemma ==
  ASSUME TypeOK, NEW c \in Nat, Forgive(c)
  PROVE  /\ DiskType' /\ spoiled' \subseteq Files /\ faults' \in 0 .. MaxFaults
         /\ disk'.saved = disk.saved /\ disk'.scene = disk.scene
         /\ "saved" \in spoiled' <=> "saved" \in spoiled
         /\ "scene" \in spoiled' <=> "scene" \in spoiled
         /\ \/ "crashes" \in spoiled'
            \/ c = 0 /\ disk' = disk /\ "crashes" \notin spoiled
<1> USE TypeParts
<1>1. faults' \in 0 .. MaxFaults
  BY SpendLemma DEF Forgive, CountsType
<1>2. DiskType' /\ disk'.saved = disk.saved /\ disk'.scene = disk.scene
  BY DEF Forgive, DiskType, DiskSet
<1>3. \/ spoiled' = spoiled /\ c = 0 /\ disk' = disk
      \/ spoiled' = spoiled \cup {"crashes"}
  BY DEF Forgive
<1> QED
  BY <1>1, <1>2, <1>3 DEF CountsType, Files

\* The ways a start can end without a runner, and a server that fails, keep the
\* types.
LEMMA FatalType ==
  ASSUME TypeOK, FatalRetry \/ FatalQuit \/ ServerFails
  PROVE  TypeOK'
<1> USE TypeParts
<1>1. Booted \in KnownSet /\ Booted.crashes \in Nat /\ known.crashes \in Nat
  BY BootedLemma DEF KnownSet, KnownType
<1>2. CASE FatalRetry
  <2>1. KnownType' /\ LoopType'
    BY <1>1, <1>2, IdleType DEF FatalRetry, KnownType, LoopType, KnownSet
  <2>2. DiskType' /\ spoiled' \subseteq Files /\ faults' \in 0 .. MaxFaults
    BY <1>1, <1>2, ForgiveLemma DEF FatalRetry
  <2>3. CountsType'
    BY <1>2, <2>2 DEF FatalRetry, CountsType, history
  <2> QED
    BY <1>2, <2>1, <2>2, <2>3 DEF FatalRetry, InstsType
<1>3. CASE FatalQuit
  <2>1. DiskType' /\ spoiled' \subseteq Files /\ faults' \in 0 .. MaxFaults
    BY <1>1, <1>3, GuardFileLemma DEF FatalQuit, CountsType
  <2>2. CountsType'
    BY <1>3, <2>1, EndsType DEF FatalQuit, CountsType
  <2> QED
    BY <1>3, <2>1, <2>2, EndsType DEF FatalQuit
<1>4. CASE ServerFails
  <2>1. KnownType'
    BY <1>4 DEF ServerFails, KnownType, KnownSet
  <2>2. DiskType' /\ spoiled' \subseteq Files /\ faults' \in 0 .. MaxFaults
    BY <1>1, <1>4, ForgiveLemma DEF ServerFails
  <2>3. CountsType'
    BY <1>4, <2>2 DEF ServerFails, CountsType, history
  <2> QED
    BY <1>4, <2>1, <2>2, <2>3 DEF ServerFails, InstsType, LoopType
<1> QED
  BY <1>2, <1>3, <1>4

\* Sending an event keeps the types.
LEMMA EnqueueType ==
  ASSUME TypeOK, NEW n \in Num, NEW k \in Kinds, Enqueue(n, k), acking' \in 0 .. MaxEvents
  PROVE  TypeOK'
<1> USE TypeParts
<1> DEFINE e == [n |-> n, is |-> k]
<1>1. e \in Event
  BY MaxSlots DEF Event
<1>2. chan' \in Channel
  BY <1>1, AppendLemma DEF Enqueue
<1>3. CountsType'
  BY DEF Enqueue, CountsType, Fates
<1> QED
  BY <1>2, <1>3 DEF Enqueue, LoopType, InstsType, KnownType, DiskType

\* What every handler leaves alone.
Unmoved == UNCHANGED <<at, acking, moves, starts, boots>>

\* Handling "render" keeps the types.
LEMMA DoRenderType ==
  ASSUME TypeOK, ChannelOK, NEW e \in Oldest, DoRender(e.n), Unmoved
  PROVE  TypeOK'
<1> USE TypeParts
<1>1. CountsType'
  BY TakenLemma DEF DoRender, Unmoved, CountsType, Becomes, Changes, Fates
<1>2. LoopType'
  BY DEF DoRender, LoopType, LoopSet
<1> QED
  BY <1>1, <1>2, TakenLemma DEF DoRender, InstsType, KnownType, DiskType

\* Dispatching to the scene keeps the types.
LEMMA DoDispatchType ==
  ASSUME TypeOK, ChannelOK, NEW e \in Oldest, DoDispatch(e.n), Unmoved
  PROVE  TypeOK'
<1> USE TypeParts
<1>1. CountsType'
  BY DEF DoDispatch, Unmoved, CountsType, Becomes, Fates
<1> QED
  BY <1>1, TakenLemma DEF DoDispatch, LoopType, InstsType, KnownType, DiskType

\* What a refused event may have done: asked for a render, read a state's file,
\* failed once.
Refused(n) ==
  /\ Refuse(n)
  /\ loop' = loop \/ loop' = [loop EXCEPT !.trigger = TRUE]
  /\ known' = known \/ \E s \in Scene : known' = Loaded(s)
  /\ UNCHANGED faults \/ Spend(1)

\* A refused event keeps the types.
LEMMA RefusedType ==
  ASSUME TypeOK, ChannelOK, NEW e \in Oldest, Refused(e.n), Unmoved
  PROVE  TypeOK'
<1> USE TypeParts
<1>1. faults' \in 0 .. MaxFaults
  BY SpendLemma DEF Refused, CountsType
<1>2. CountsType'
  BY <1>1 DEF Refused, Refuse, Unmoved, CountsType, Becomes, Fates
<1>3. KnownType' /\ LoopType'
  BY LoadedLemma DEF Refused, KnownType, LoopType, LoopSet
<1> QED
  BY <1>2, <1>3, TakenLemma DEF Refused, Refuse, InstsType, DiskType

\* Keeping the value a handler was given, at once, keeps the types.
LEMMA GivenType ==
  ASSUME TypeOK, NEW n \in Num, NEW s \in Scene, NEW k \in KnownSet, Given(n, s, k)
  PROVE  /\ InstsType' /\ KnownType' /\ DiskType' /\ want' \in 0 .. MaxEvents
         /\ spoiled' \subseteq Files /\ faults' \in 0 .. MaxFaults
<1> USE TypeParts
<1>1. n \in 0 .. MaxEvents
  BY MaxSlots
<1>2. InstsType' /\ want' \in 0 .. MaxEvents
  BY <1>1 DEF Given, InstsType, InstsSet, CountsType
<1>3. Keep(s, n, k, {"saved", "scene"}, {})
  BY DEF Given
<1> QED
  BY <1>1, <1>2, <1>3, KeepLemma DEF Kept, CountsType

\* setSceneState keeps the types.
LEMMA GiveStateType ==
  ASSUME TypeOK, ChannelOK, NEW e \in Oldest, e.n \in Num, GiveState(e.n), Unmoved
  PROVE  TypeOK'
<1> USE TypeParts
<1>1. loop.cur \in Scene /\ known \in KnownSet
  BY DEF LoopType, LoopSet, KnownType
<1>2. /\ InstsType' /\ KnownType' /\ DiskType' /\ want' \in 0 .. MaxEvents
      /\ spoiled' \subseteq Files /\ faults' \in 0 .. MaxFaults
  BY <1>1, GivenType DEF GiveState
<1>3. chan' \in Channel
  BY TakenLemma, FollowUpLemma, AppendLemma DEF GiveState
<1>4. CountsType'
  BY <1>2 DEF GiveState, CountsType, Unmoved, Becomes, Fates
<1> QED
  BY <1>2, <1>3, <1>4 DEF GiveState, LoopType

\* What setCurrentScene knows of the new scene's files.
LEMMA SwitchKnows ==
  ASSUME TypeOK, NEW s
  PROVE  (IF s \in insts.table THEN known ELSE Loaded(s)) \in KnownSet
BY TypeParts, LoadedLemma DEF KnownType

\* setCurrentScene keeps the types.
LEMMA SwitchToType ==
  ASSUME TypeOK, ChannelOK, NEW e \in Oldest, e.n \in Num, e.is.scene \in Scene,
         NEW b \in BOOLEAN, SwitchTo(e.n, e.is.scene, b), Unmoved
  PROVE  TypeOK'
<1> USE TypeParts
<1> DEFINE s == e.is.scene
           value == IF s \in insts.table THEN insts.state ELSE disk.saved
           k == IF s \in insts.table THEN known ELSE Loaded(s)
           right == IF value = want THEN {"saved", "scene"} ELSE {"scene"}
<1>1. value \in 0 .. MaxEvents /\ k \in KnownSet
  BY SwitchKnows DEF InstsType, DiskType, InstsSet, DiskSet
<1>2. \/ Given(e.n, s, k)
      \/ /\ insts' = [insts EXCEPT !.table = @ \cup {s}, !.kept = @ \cup {s},
                                   !.state = IF s = "uploaded" THEN value ELSE @]
         /\ Keep(s, value, k, right, {}) /\ UNCHANGED want
  BY DEF SwitchTo
<1>3. /\ InstsType' /\ KnownType' /\ DiskType' /\ want' \in 0 .. MaxEvents
      /\ spoiled' \subseteq Files /\ faults' \in 0 .. MaxFaults
  <2> HIDE DEF value, k
  <2>1. CASE Given(e.n, s, k)
    BY <1>1, <2>1, GivenType
  <2>2. CASE /\ insts' = [insts EXCEPT !.table = @ \cup {s}, !.kept = @ \cup {s},
                                       !.state = IF s = "uploaded" THEN value ELSE @]
             /\ Keep(s, value, k, right, {}) /\ UNCHANGED want
    <3>1. InstsType' /\ want' \in 0 .. MaxEvents
      BY <1>1, <2>2 DEF InstsType, InstsSet, CountsType
    <3>2. right \in SUBSET Kept /\ {} \in SUBSET Kept
      BY DEF Kept
    <3> HIDE DEF right, s
    <3>3. s \in Scene
      BY DEF s
    <3> QED
      BY <1>1, <2>2, <3>1, <3>2, <3>3, KeepLemma DEF CountsType
  <2> QED
    BY <1>2, <2>1, <2>2
<1>4. LoopType'
  BY DEF SwitchTo, LoopType, LoopSet
<1>5. CountsType'
  BY <1>3 DEF SwitchTo, CountsType, Unmoved, Becomes, Changes, Fates
<1> QED
  BY <1>3, <1>4, <1>5, TakenLemma DEF SwitchTo

\* setCurrentScene to the current scene keeps the types.
LEMMA GiveAgainType ==
  ASSUME TypeOK, ChannelOK, NEW e \in Oldest, e.n \in Num, GiveAgain(e.n), Unmoved
  PROVE  TypeOK'
<1> USE TypeParts
<1>1. loop.cur \in Scene /\ known \in KnownSet
  BY DEF LoopType, LoopSet, KnownType
<1>2. /\ InstsType' /\ KnownType' /\ DiskType' /\ want' \in 0 .. MaxEvents
      /\ spoiled' \subseteq Files /\ faults' \in 0 .. MaxFaults
  BY <1>1, GivenType DEF GiveAgain
<1>3. LoopType'
  BY DEF GiveAgain, LoopType, LoopSet
<1>4. CountsType'
  BY <1>2 DEF GiveAgain, CountsType, Unmoved, Becomes, Changes, Fates
<1> QED
  BY <1>2, <1>3, <1>4, TakenLemma DEF GiveAgain

\* What the render loop holds after scenes have left the table is an instance.
LEMMA OrphanedLemma ==
  ASSUME LoopType, InstsType, NEW S
  PROVE  Orphaned(S) \in Instance
<1>1. loop.held \in Instance
  BY DEF LoopType, LoopSet
<1>2. insts.state \in 0 .. MaxEvents
  BY DEF InstsType, InstsSet
<1>3. ASSUME NEW kept \in BOOLEAN
      PROVE  [loop.held EXCEPT !.live = FALSE, !.kept = kept, !.state = insts.state] \in Instance
  BY <1>1, <1>2 DEF Instance
<1>4. (loop.held.scene \in insts.kept) \in BOOLEAN
  OBVIOUS
<1> QED
  BY <1>1, <1>3, <1>4 DEF Orphaned

\* uploadScenes keeps the types.
LEMMA UploadType ==
  ASSUME TypeOK, ChannelOK, NEW e \in Oldest, e.n \in Num,
         NEW b \in BOOLEAN, Upload(e.n, b), Unmoved
  PROVE  TypeOK'
<1> USE TypeParts
<1>1. e.n \in Num /\ e.n \in 0 .. MaxEvents /\ chan' \in Channel
  BY TakenLemma, MaxSlots DEF Upload
<1>2. DiskType' /\ KnownType' /\ want' \in 0 .. MaxEvents /\ spoiled' \subseteq Files
  BY <1>1 DEF Upload, Stored, DiskType, DiskSet, KnownType, KnownSet, CountsType
<1>3. InstsType'
  BY <1>1 DEF Upload, InstsType, InstsSet
<1>4. LoopType'
  BY OrphanedLemma DEF Upload, LoopType, LoopSet, Scene
<1>5. CountsType'
  BY <1>1, <1>2 DEF Upload, CountsType, Unmoved, Becomes, Changes, Fates
<1> QED
  BY <1>1, <1>2, <1>3, <1>4, <1>5

\* uploadScenes that fails half way keeps the types.
LEMMA UploadFailsType ==
  ASSUME TypeOK, ChannelOK, NEW e \in Oldest, e.n \in Num,
         NEW b \in BOOLEAN, UploadFails(e.n, b), Unmoved
  PROVE  TypeOK'
<1> USE TypeParts
<1>1. e.n \in Num /\ e.n \in 0 .. MaxEvents /\ chan' \in Channel
  BY TakenLemma, MaxSlots DEF UploadFails
<1>2. InstsType' /\ LoopType'
  BY <1>1 DEF UploadFails, InstsType, InstsSet, LoopType
<1>3. DiskType' /\ KnownType' /\ spoiled' \subseteq Files
  <2>1. CASE /\ \E u \in Left(TRUE, e.n, disk.uploads, 0) : disk' = [disk EXCEPT !.uploads = u]
             /\ UNCHANGED <<known, spoiled>>
    BY <1>1, <2>1 DEF Left, DiskType, DiskSet, KnownType, CountsType
  <2>2. CASE /\ known' = [known EXCEPT !.saved = e.n]
             /\ \E v \in Left(TRUE, e.n, disk.saved, 0) :
                  disk' = [disk EXCEPT !.uploads = e.n, !.saved = v]
             /\ spoiled' = spoiled \cup {"saved"}
    <3>1. KnownType' /\ spoiled' \subseteq Files
      BY <1>1, <2>2 DEF KnownType, KnownSet, CountsType, Files
    <3>2. PICK v \in {disk.saved, 0} :
            disk' = [disk EXCEPT !.uploads = e.n, !.saved = v]
      BY <2>2 DEF Left
    <3>3. v \in 0 .. MaxEvents
      BY DEF DiskType, DiskSet
    <3> QED
      BY <1>1, <3>1, <3>2, <3>3 DEF DiskType, DiskSet
  <2> QED
    BY <2>1, <2>2 DEF UploadFails
<1>4. faults' \in 0 .. MaxFaults
  BY SpendLemma DEF UploadFails, CountsType
<1>5. CountsType'
  BY <1>1, <1>3, <1>4 DEF UploadFails, CountsType, Unmoved, Becomes, Fates
<1> QED
  BY <1>1, <1>2, <1>3, <1>5

\* reload keeps the types.
LEMMA DoReloadType ==
  ASSUME TypeOK, ChannelOK, NEW e \in Oldest, e.n \in Num, DoReload(e.n), Unmoved
  PROVE  TypeOK'
<1> USE TypeParts
<1>1. chan' \in Channel
  BY TakenLemma DEF DoReload
<1>2. LookUpScene \in Scene /\ LookUpVersion \in 0 .. MaxEvents
      /\ KnownType' /\ DiskType' /\ spoiled' \subseteq Files
  BY LookUpLemma DEF DoReload, Scene, CountsType
<1>3. LoopType' /\ InstsType'
  BY <1>2, OrphanedLemma DEF DoReload, LoopType, LoopSet, InstsType, InstsSet
<1>4. CountsType'
  BY <1>2 DEF DoReload, CountsType, Unmoved, Becomes, Changes, Fates
<1> QED
  BY <1>1, <1>2, <1>3, <1>4

\* Coalescing mouse moves keeps the types.
LEMMA HandleMovesType == ASSUME TypeOK, HandleMoves PROVE TypeOK'
<1> USE TypeParts
<1>1. chan' \in Channel
  BY BurstLemma DEF HandleMoves
<1>2. CountsType'
  BY DEF HandleMoves, CountsType, Coalesced, Fates
<1> QED
  BY <1>1, <1>2 DEF HandleMoves, LoopType, InstsType, KnownType, DiskType

-----------------------------------------------------------------------------
(* The message loop's handlers, once for all the parts: the alternatives,  *)
(* and what each does to the channel.                                      *)

Switches(n, s) == s \in Scene /\ \E b \in BOOLEAN : SwitchTo(n, s, b)
Uploads(n) == \E b \in BOOLEAN : Upload(n, b) \/ UploadFails(n, b)

Handles(e) ==
  \/ e.is.what = "render" /\ DoRender(e.n)
  \/ DoDispatch(e.n)
  \/ Refused(e.n)
  \/ GiveState(e.n)
  \/ Switches(e.n, e.is.scene)
  \/ GiveAgain(e.n)
  \/ Uploads(e.n)
  \/ DoReload(e.n)

\* Handling an event happens at an await, and only "render" does what
\* "render" does.
LEMMA HandlesLemma ==
  ASSUME TypeOK, ChannelOK, HandleEvent
  PROVE  /\ at \in {"settle", "asleep"} /\ Unmoved
         /\ \E e \in Oldest : /\ Handles(e)
                              /\ e.is.what = "render" => DoRender(e.n)
                              /\ e.is.what # "render" => e.n \in Num
<1>1. PICK e \in Oldest :
        \/ e.is.what = "render" /\ DoRender(e.n)
        \/ e.is.what = "key" /\ DoDispatch(e.n)
        \/ e.is.what = "state" /\ DoState(e.n)
        \/ e.is.what \in {"set", "give"} /\ DoSet(e.n, e.is.scene, e.is.what = "give")
        \/ /\ e.is.what \in {"upload", "seed"}
           /\ \/ Upload(e.n, e.is.what = "seed")
              \/ UploadFails(e.n, e.is.what = "seed")
        \/ e.is.what = "reload" /\ DoReload(e.n)
  BY DEF HandleEvent
<1>2. (e.is.what = "seed") \in BOOLEAN /\ (e.is.what = "give") \in BOOLEAN
  OBVIOUS
<1>3. e.is.what # "render" => e.n \in Num
  BY TakenLemma
<1>4. ASSUME e.is.what = "state", DoState(e.n) PROVE Handles(e)
  <2>1. GiveState(e.n) \/ Refused(e.n)
    BY <1>4 DEF DoState, Refused
  <2> QED
    BY <2>1 DEF Handles
<1>5. ASSUME e.is.what \in {"set", "give"}, DoSet(e.n, e.is.scene, e.is.what = "give")
      PROVE  Handles(e)
  <2> DEFINE s == e.is.scene
             g == e.is.what = "give"
  <2>1. s \in Scene /\ g \in BOOLEAN
    BY <1>5, TakenLemma
  <2>2. CASE SwitchTo(e.n, s, g)
    <3>1. Switches(e.n, s)
      BY <2>1, <2>2 DEF Switches
    <3> QED
      BY <3>1 DEF Handles
  <2>3. CASE SwitchFails(e.n, s)
    <3>1. Refused(e.n)
      BY <2>1, <2>3 DEF SwitchFails, Refused
    <3> QED
      BY <3>1 DEF Handles
  <2>4. CASE GiveAgain(e.n)
    BY <2>4 DEF Handles
  <2>5. CASE /\ loop' = IF g /\ s = loop.cur THEN [loop EXCEPT !.trigger = TRUE] ELSE loop
             /\ Refuse(e.n) /\ UNCHANGED <<known, faults>>
    <3>1. Refused(e.n)
      BY <2>5 DEF Refused
    <3> QED
      BY <3>1 DEF Handles
  <2> QED
    BY <1>5, <2>2, <2>3, <2>4, <2>5 DEF DoSet
<1>8. ASSUME \/ Upload(e.n, e.is.what = "seed")
             \/ UploadFails(e.n, e.is.what = "seed")
      PROVE  Handles(e)
  <2>1. Uploads(e.n)
    BY <1>2, <1>8 DEF Uploads
  <2> QED
    BY <2>1 DEF Handles
<1>6. Handles(e)
  BY <1>1, <1>4, <1>5, <1>8 DEF Handles
<1>7. e.is.what = "render" => DoRender(e.n)
  BY <1>1
<1> QED
  BY <1>3, <1>6, <1>7 DEF HandleEvent, Awaiting, Unmoved

\* Handling any one event keeps the types.
LEMMA HandleEventType == ASSUME TypeOK, ChannelOK, HandleEvent PROVE TypeOK'
<1>1. PICK e \in Oldest : /\ Handles(e)
                          /\ e.is.what = "render" => DoRender(e.n)
                          /\ e.is.what # "render" => e.n \in Num
  BY HandlesLemma
<1>2. Unmoved
  BY HandlesLemma
<1>3. CASE e.is.what = "render"
  BY <1>1, <1>2, <1>3, DoRenderType
<1>4. CASE e.is.what # "render"
  BY <1>1, <1>2, <1>4, DoDispatchType, RefusedType, GiveStateType, SwitchToType, GiveAgainType,
     UploadType, UploadFailsType, DoReloadType DEF Handles, Switches, Uploads
<1> QED
  BY <1>3, <1>4

\* The instances made for a pass have their type.
LEMMA MadeLemma ==
  ASSUME LoopType
  PROVE  /\ loop.cur \in Scene /\ loop.cur # NoScene /\ loop.held \in Instance
         /\ LiveScene(loop.cur) \in Instance /\ ErrorScene(loop.cur) \in Instance
<1>1. loop.cur \in Scene /\ loop.cur # NoScene /\ loop.held \in Instance
  BY DEF LoopType, LoopSet, Scene, SystemScenes, NoScene
<1> QED
  BY <1>1 DEF LiveScene, ErrorScene, Instance

\* Keeping the context of the pass writes the count again, or spoils it, or
\* leaves the file alone.
LEMMA GuardContextLemma ==
  ASSUME TypeOK, NEW k \in Nat, GuardContext(k)
  PROVE  /\ DiskType' /\ spoiled' \subseteq Files /\ faults' \in 0 .. MaxFaults
         /\ disk'.saved = disk.saved /\ disk'.scene = disk.scene
         /\ "saved" \in spoiled' <=> "saved" \in spoiled
         /\ "scene" \in spoiled' <=> "scene" \in spoiled
         /\ \/ "crashes" \in spoiled'
            \/ /\ disk'.crashes = known.crashes
               /\ known.crashes = starts \/ "crashes" \notin spoiled
            \/ disk' = disk /\ "crashes" \notin spoiled
<1> USE TypeParts
<1>1. CASE GuardFile(known.crashes, starts, k)
  <2>1. known.crashes \in Nat /\ starts \in Nat
    BY DEF KnownType, KnownSet, CountsType
  <2> QED
    BY <1>1, <2>1, GuardFileLemma DEF CountsType
<1>2. CASE Spend(k) /\ UNCHANGED <<disk, spoiled>>
  BY <1>2, SpendLemma DEF CountsType, DiskType
<1> QED
  BY <1>1, <1>2 DEF GuardContext

\* What a pass begins with: an instance, and what the files said.
LEMMA PassLemma ==
  ASSUME TypeOK, BeginPass
  PROVE  /\ \E last \in {loop.cur, NoScene}, held \in Instance : loop' = Begun(last, held)
         /\ known' = known \/ known' = Loaded(loop.cur)
         /\ \E k \in Nat : GuardContext(k)
<1> USE TypeParts, MadeLemma
<1>1. CASE TakeInstance
  BY <1>1 DEF TakeInstance
<1>2. CASE InitInstance
  BY <1>2 DEF InitInstance
<1>3. CASE InitFails
  BY <1>3 DEF InitFails
<1> QED
  BY <1>1, <1>2, <1>3 DEF BeginPass

\* Beginning a pass keeps the types.
LEMMA BeginPassType == ASSUME TypeOK, BeginPass PROVE TypeOK'
<1> USE TypeParts, MadeLemma
<1>1. LoopType'
  <2>1. PICK last \in {loop.cur, NoScene}, held \in Instance : loop' = Begun(last, held)
    BY PassLemma
  <2> QED
    BY <2>1 DEF LoopType, LoopSet, Begun
<1>2. InstsType'
  <2>1. CASE InitInstance
    BY <2>1 DEF InitInstance, InstsType, InstsSet, DiskType, DiskSet
  <2>2. CASE UNCHANGED insts
    BY <2>2 DEF InstsType
  <2> QED
    BY <2>1, <2>2 DEF BeginPass, TakeInstance, InitFails
<1>3. DiskType' /\ spoiled' \subseteq Files /\ faults' \in 0 .. MaxFaults
  BY PassLemma, GuardContextLemma
<1>4. KnownType'
  BY PassLemma, LoadedLemma DEF KnownType
<1>5. CountsType'
  BY <1>3 DEF BeginPass, CountsType
<1> QED
  BY <1>1, <1>2, <1>3, <1>4, <1>5 DEF BeginPass

\* clearBootCrashCount sets both counts to zero, or spoils the file.
LEMMA ClearLemma ==
  ASSUME TypeOK, Rendered
  PROVE  /\ DiskType' /\ spoiled' \subseteq Files /\ faults' \in 0 .. MaxFaults
         /\ disk'.saved = disk.saved /\ disk'.scene = disk.scene
         /\ "saved" \in spoiled' <=> "saved" \in spoiled
         /\ "scene" \in spoiled' <=> "scene" \in spoiled
         /\ \/ "crashes" \in spoiled' \/ disk'.crashes = 0
            \/ disk' = disk /\ known.crashes = 0 /\ "crashes" \notin spoiled
<1> USE TypeParts
<1>1. CASE GuardFile(0, 0, 0)
  <2>1. 0 \in Nat
    OBVIOUS
  <2> QED
    BY <1>1, <2>1, GuardFileLemma DEF CountsType
<1>2. CASE /\ known.crashes = 0
           /\ spoiled' = IF disk.crashes = 0 THEN spoiled \ {"crashes"} ELSE spoiled
           /\ UNCHANGED <<disk, faults>>
  <2>1. DiskType' /\ spoiled' \subseteq Files /\ faults' \in 0 .. MaxFaults
    BY <1>2 DEF CountsType, DiskType
  <2> QED
    BY <1>2, <2>1
<1> QED
  BY <1>1, <1>2 DEF Rendered

\* Completing a render keeps the types.
LEMMA RenderedType == ASSUME TypeOK, Rendered PROVE TypeOK'
<1> USE TypeParts
<1> DEFINE passes == IF loop.passes < ContextLimit THEN loop.passes + 1 ELSE loop.passes
<1>1. passes \in 0 .. ContextLimit
  BY DEF LoopType, LoopSet
<1>2. loop' = [loop EXCEPT !.passes = passes]
  BY DEF Rendered
<1>3. LoopType'
  <2> HIDE DEF passes
  <2> QED
    BY <1>1, <1>2 DEF LoopType, LoopSet
<1>4. KnownType'
  BY DEF Rendered, KnownType, KnownSet
<1>5. CountsType'
  BY ClearLemma DEF Rendered, CountsType
<1> QED
  BY <1>3, <1>4, <1>5, ClearLemma DEF Rendered, InstsType

\* The value the render loop would keep is a value of the field.
LEMMA HeldValueType ==
  ASSUME LoopType, InstsType
  PROVE  HeldValue \in 0 .. MaxEvents
BY DEF LoopType, LoopSet, InstsType, InstsSet, Instance, HeldValue

\* What the render loop puts right, and what it makes stale.
HeldRight == {f \in {"scene"} : loop.held.scene = loop.cur}
               \cup {f \in {"saved"} : loop.held.live /\ HeldValue = want}
HeldStale == {f \in {"scene"} : loop.held.scene # loop.cur}
               \cup {f \in {"saved"} : ~loop.held.live /\ HeldValue # want}

\* The end of a pass leaves the files as they are, or keeps the held instance.
LEMMA SettleLemma ==
  ASSUME TypeOK, HeldOK, Settle
  PROVE  /\ LoopType' /\ loop' = [loop EXCEPT !.trigger = FALSE]
         /\ UNCHANGED <<disk, insts, known, spoiled, faults>> \/ KeepHeld
         /\ KeepHeld =>
              /\ InstsType' /\ insts'.table = insts.table /\ insts'.state = insts.state
              /\ insts'.version = insts.version
              /\ insts'.kept \subseteq insts.kept \cup {loop.held.scene}
              /\ ~loop.held.live => insts'.kept = insts.kept
              /\ loop.held.scene \in Scene /\ HeldValue \in 0 .. MaxEvents
              /\ HeldRight \in SUBSET Kept /\ HeldStale \in SUBSET Kept
              /\ Keep(loop.held.scene, HeldValue, known, HeldRight, HeldStale)
<1> USE TypeParts
<1>1. LoopType' /\ loop' = [loop EXCEPT !.trigger = FALSE]
  BY DEF Settle, LoopType, LoopSet
<1>2. loop.held.scene \in Scene /\ HeldValue \in 0 .. MaxEvents
  BY HeldValueType DEF LoopType, LoopSet, Instance, HeldOK, Settle
<1>3. ASSUME KeepHeld
      PROVE  /\ InstsType' /\ insts'.table = insts.table /\ insts'.state = insts.state
             /\ insts'.version = insts.version
             /\ insts'.kept \subseteq insts.kept \cup {loop.held.scene}
             /\ ~loop.held.live => insts'.kept = insts.kept
  BY <1>2, <1>3 DEF KeepHeld, InstsType, InstsSet
<1>4. HeldRight \in SUBSET Kept /\ HeldStale \in SUBSET Kept
  BY DEF HeldRight, HeldStale, Kept
<1>5. KeepHeld => Keep(loop.held.scene, HeldValue, known, HeldRight, HeldStale)
  BY DEF KeepHeld, HeldRight, HeldStale
<1> QED
  BY <1>1, <1>2, <1>3, <1>4, <1>5 DEF Settle

\* The end of the pass keeps the types.
LEMMA SettleType == ASSUME TypeOK, HeldOK, Settle PROVE TypeOK'
<1> USE TypeParts
<1>1. CASE KeepHeld
  <2>1. KnownType' /\ DiskType' /\ spoiled' \subseteq Files /\ faults' \in 0 .. MaxFaults
    BY <1>1, SettleLemma, KeepLemma DEF CountsType, KnownType
  <2>2. CountsType'
    BY <2>1 DEF Settle, CountsType, history
  <2> QED
    BY <1>1, <2>1, <2>2, SettleLemma DEF Settle
<1>2. CASE UNCHANGED <<disk, insts, known, spoiled, faults>>
  <2>1. CountsType'
    BY <1>2 DEF Settle, CountsType, history
  <2> QED
    BY <1>2, <2>1, SettleLemma DEF Settle, InstsType, KnownType, DiskType
<1> QED
  BY <1>1, <1>2, SettleLemma

\* The actions that only pass the turn on.
LEMMA QuietType ==
  ASSUME TypeOK, Drained \/ Wake \/ IntervalOver \/ UNCHANGED vars
  PROVE  TypeOK'
<1> USE TypeParts
<1>1. UNCHANGED <<loop, insts, known, disk>>
  BY DEF Drained, Wake, IntervalOver, vars
<1>2. chan' \in Channel
  BY DEF Drained, Wake, IntervalOver, vars, Channel
<1>3. CountsType'
  BY DEF Drained, Wake, IntervalOver, vars, history, CountsType
<1> QED
  BY <1>1, <1>2, <1>3 DEF LoopType, InstsType, KnownType, DiskType

\* The cloud client's acknowledgement keeps the types.
LEMMA ChecksumType == ASSUME TypeOK, PersistChecksum PROVE TypeOK'
<1> USE TypeParts
<1>1. CountsType'
  BY DEF PersistChecksum, CountsType, history
<1>2. DiskType'
  BY DEF PersistChecksum, CountsType, DiskType, DiskSet
<1> QED
  BY <1>1, <1>2 DEF PersistChecksum, LoopType, InstsType, KnownType

\* TypeOK is preserved.
LEMMA TypeStep == Inv /\ [Next]_vars => TypeOK'
<1> SUFFICES ASSUME Inv, [Next]_vars PROVE TypeOK'
  OBVIOUS
<1> USE DEF Inv
<1>1. CASE Start
  BY <1>1, StartType
<1>2. CASE RunnerStarts
  BY <1>2, RunnerStartsType
<1>3. CASE FatalRetry \/ FatalQuit \/ ServerFails
  BY <1>3, FatalType
<1>4. CASE Crash
  BY <1>4, EndsType, TypeParts DEF Crash, CountsType, DiskType
<1>5. CASE SendEvent
  BY <1>5, EnqueueType DEF SendEvent, TypeOK
<1>6. CASE HandleSetScenes
  BY <1>6, EnqueueType, MaxSlots DEF HandleSetScenes
<1>7. CASE PersistChecksum
  BY <1>7, ChecksumType
<1>8. CASE HandleEvent
  BY <1>8, HandleEventType
<1>9. CASE HandleMoves
  BY <1>9, HandleMovesType
<1>10. CASE BeginPass
  BY <1>10, BeginPassType
<1>11. CASE Rendered
  BY <1>11, RenderedType
<1>12. CASE Settle
  BY <1>12, SettleType
<1> QED
  BY <1>1, <1>2, <1>3, <1>4, <1>5, <1>6, <1>7, <1>8, <1>9, <1>10, <1>11, <1>12, QuietType
     DEF Next, RenderLoop, MessageLoop

\* Handling an event takes it from the channel and adds a follow-up at
\* most.
LEMMA HandledChannel ==
  ASSUME TypeOK, ChannelOK, NEW e \in Oldest, Handles(e)
  PROVE  /\ chan' \in Channel /\ chan'.pending = {}
         /\ Events(Rest) \subseteq Events(chan') /\ Events(chan') \subseteq Events(chan) \cup {FollowUp}
         /\ GiveState(e.n) \/ chan' = Rest
         /\ GiveState(e.n) => FollowUp \in Events(chan') \/ unshown' = unshown
<1>1. GiveState(e.n) \/ chan' = Rest
  BY DEF Handles, DoRender, DoDispatch, Refused, Refuse, Switches, SwitchTo, GiveAgain,
         Uploads, Upload, UploadFails, DoReload
<1>2. Rest \in Channel /\ Rest.pending = {} /\ Events(Rest) \subseteq Events(chan)
  BY TakenLemma
<1>3. CASE chan' = Rest /\ (GiveState(e.n) => unshown' = unshown)
  BY <1>2, <1>3
<1> DEFINE d == [Rest EXCEPT !.queue = Append(@, FollowUp)]
<1>4. CASE GiveState(e.n) /\ chan' = d
  <2>1. d \in Channel /\ Events(d) = Events(Rest) \cup {FollowUp}
    BY <1>2, AppendLemma, FollowUpLemma
  <2>2. d.pending = {}
    BY <1>2 DEF Channel
  <2> HIDE DEF d
  <2> QED
    BY <1>2, <1>4, <2>1, <2>2
<1>5. CASE GiveState(e.n)
  <2>1. \/ chan' = d
        \/ chan' = Rest /\ unshown' = unshown
    BY <1>5 DEF GiveState
  <2> QED
    BY <1>3, <1>4, <1>5, <2>1
<1> QED
  BY <1>1, <1>3, <1>5

\* Sending an event drops it or adds just that one.
LEMMA EnqueueEvents ==
  ASSUME TypeOK, NEW n \in Num, NEW k \in Kinds, Enqueue(n, k)
  PROVE  \/ chan' = chan
         \/ /\ chan'.pending = chan.pending
            /\ Events(chan') = Events(chan) \cup {[n |-> n, is |-> k]}
<1> DEFINE e == [n |-> n, is |-> k]
<1>1. e \in Event /\ chan \in Channel
  BY MaxSlots, TypeParts DEF Event
<1>2. Events([chan EXCEPT !.queue = Append(@, e)]) = Events(chan) \cup {e}
  BY <1>1, AppendLemma
<1>3. [chan EXCEPT !.queue = Append(@, e)].pending = chan.pending
  BY <1>1 DEF Channel
<1> QED
  BY <1>2, <1>3 DEF Enqueue

\* The end of a drain changes no event.
LEMMA DrainedEvents ==
  ASSUME TypeOK, Drained
  PROVE  chan'.pending = chan.pending /\ Events(chan') = Events(chan)
<1>1. chan'.pending = chan.pending /\ chan'.queue = chan.queue
  BY DEF TypeOK, Drained
<1> QED
  BY <1>1 DEF Events

-----------------------------------------------------------------------------
(* ChannelOK.                                                              *)

\* ChannelOK is preserved.
LEMMA ChannelStep == Inv /\ [Next]_vars => ChannelOK'
<1> SUFFICES ASSUME Inv, [Next]_vars PROVE ChannelOK'
  OBVIOUS
<1> USE DEF Inv
<1>1. CASE UNCHANGED chan
  BY <1>1 DEF ChannelOK, Events
<1>2. CASE Ends
  BY <1>2, IdleType DEF Ends, ChannelOK, NoEvents
<1>3. ASSUME NEW n \in Num, NEW k \in Kinds, Enqueue(n, k)
      PROVE  ChannelOK'
  BY <1>1, <1>3, EnqueueEvents, MaxSlots DEF ChannelOK
<1>4. CASE HandleEvent
  <2>1. PICK e \in Oldest : Handles(e)
    BY <1>4, HandlesLemma
  <2> QED
    BY <2>1, HandledChannel DEF ChannelOK
<1>5. CASE HandleMoves
  <2>1. chan \in Channel
    BY TypeParts
  <2>2. Events(chan') \subseteq Events(chan) /\ \A x, y \in chan'.pending : x = y
    BY <1>5, <2>1, BurstLemma DEF HandleMoves
  <2> QED
    BY <2>2 DEF ChannelOK
<1>6. CASE Drained
  BY <1>6, DrainedEvents DEF ChannelOK
<1> QED
  BY <1>1, <1>2, <1>3, <1>4, <1>5, <1>6
     DEF Next, RenderLoop, MessageLoop, Start, RunnerStarts, FatalRetry, FatalQuit, ServerFails, Crash, SendEvent,
         HandleSetScenes, PersistChecksum, BeginPass, Rendered, Settle, Wake, IntervalOver, vars

-----------------------------------------------------------------------------
(* StoppedOK, HeldOK and ShownOK.                                          *)

\* StoppedOK is preserved.
LEMMA StoppedStep == Inv /\ [Next]_vars => StoppedOK'
<1> SUFFICES ASSUME Inv, [Next]_vars PROVE StoppedOK'
  OBVIOUS
<1> USE TypeParts DEF Inv
<1>1. CASE Start
  BY <1>1, StartLemma DEF Start, StoppedOK
<1>2. CASE Ends
  BY <1>2 DEF Ends, Idle, StoppedOK
<1>3. CASE FatalRetry
  BY <1>3 DEF FatalRetry, Idle, StoppedOK, Running, history
<1>4. CASE at' \in {"top", "render", "settle", "asleep"}
  BY <1>4 DEF StoppedOK, Running
<1>5. CASE UNCHANGED <<at, loop, insts, unshown>>
  BY <1>5 DEF StoppedOK, Running
<1>6. CASE HandleEvent
  BY <1>4, <1>6, HandlesLemma DEF Unmoved
<1>7. CASE ServerFails
  BY <1>5, <1>7 DEF ServerFails, history
<1> QED
  BY <1>1, <1>2, <1>3, <1>4, <1>5, <1>6, <1>7
     DEF Next, RenderLoop, MessageLoop, RunnerStarts, FatalQuit, Crash, SendEvent, Enqueue,
         HandleSetScenes, PersistChecksum, BeginPass, Rendered, Settle, Wake, IntervalOver,
         HandleMoves, Drained, vars, history

\* A handler asks for a render or leaves the render loop's variables alone; only
\* an upload and a reload take scenes from the table.
LEMMA HandledLoop ==
  ASSUME TypeOK, NEW e, Handles(e)
  PROVE  /\ loop' = loop \/ loop'.trigger
         /\ \/ /\ loop'.last = loop.last /\ loop'.held = loop.held /\ loop'.force = loop.force
               /\ insts.table \subseteq insts'.table
            \/ \E b \in BOOLEAN : Upload(e.n, b)
            \/ DoReload(e.n)
<1> USE TypeParts DEF LoopType, LoopSet, InstsType, InstsSet
<1>1. CASE DoRender(e.n) \/ DoDispatch(e.n) \/ Refused(e.n)
  BY <1>1 DEF DoRender, DoDispatch, Refused, Refuse
<1>2. CASE GiveState(e.n) \/ GiveAgain(e.n)
  <2>1. \E x \in SUBSET Scene : insts'.table = insts.table \cup x
    <3>1. /\ loop.cur \in Scene
          /\ insts' = [insts EXCEPT !.table = @ \cup {loop.cur}, !.kept = @ \cup {loop.cur},
                                    !.state = IF loop.cur = "uploaded" THEN e.n ELSE @]
      BY <1>2, SMT DEF GiveState, GiveAgain, Given
    <3>2. insts'.table = insts.table \cup {loop.cur}
      BY <3>1, SMT
    <3> QED
      BY <3>1, <3>2, Zenon
  <2>2. loop' = loop \/ loop' = [loop EXCEPT !.trigger = TRUE]
    BY <1>2, Zenon DEF GiveState, GiveAgain
  <2>3. /\ loop' = loop \/ loop'.trigger
        /\ loop'.last = loop.last /\ loop'.held = loop.held /\ loop'.force = loop.force
    BY <2>2
  <2> QED
    BY <2>1, <2>3
<1>3. ASSUME NEW b \in BOOLEAN, SwitchTo(e.n, e.is.scene, b)
      PROVE  /\ loop'.trigger /\ insts.table \subseteq insts'.table
             /\ loop'.last = loop.last /\ loop'.held = loop.held /\ loop'.force = loop.force
  BY <1>3 DEF SwitchTo, Given
<1>4. ASSUME NEW b \in BOOLEAN, UploadFails(e.n, b)
      PROVE  loop' = loop /\ insts.table = insts'.table
  BY <1>4 DEF UploadFails
<1>5. ASSUME NEW b \in BOOLEAN, Upload(e.n, b)
      PROVE  loop'.trigger
  BY <1>5 DEF Upload
<1>6. DoReload(e.n) => loop'.trigger
  BY DEF DoReload
<1> QED
  BY <1>1, <1>2, <1>3, <1>4, <1>5, <1>6 DEF Handles, Switches, Uploads

\* HeldOK is preserved.
LEMMA HeldStep == Inv /\ [Next]_vars => HeldOK'
<1> SUFFICES ASSUME Inv, [Next]_vars PROVE HeldOK'
  OBVIOUS
<1> USE TypeParts DEF Inv, LoopType, LoopSet
<1>1. CASE Start \/ Ends \/ FatalRetry \/ RunnerStarts
  <2>1. at' \in {"init", "off", "retry", "top"} /\ loop'.last = NoScene /\ loop'.held = NoInstance
    <3>1. CASE Start
      BY <3>1, StartLemma
    <3>2. CASE Ends \/ FatalRetry
      BY <3>2 DEF Ends, FatalRetry, Idle
    <3>3. CASE RunnerStarts
      BY <3>3 DEF RunnerStarts, StoppedOK, Running
    <3> QED
      BY <1>1, <3>1, <3>2, <3>3
  <2> QED
    BY <2>1 DEF HeldOK, NoInstance
<1>2. CASE BeginPass
  <2>1. loop.cur \in Scene /\ loop.cur # NoScene
    BY MadeLemma
  <2>2. CASE TakeInstance
    <3>1. CASE Changed
      BY <1>2, <2>1, <2>2, <3>1 DEF BeginPass, TakeInstance, Begun, LiveScene, HeldOK
    <3>2. CASE ~Changed
      BY <1>2, <2>1, <2>2, <3>2 DEF BeginPass, TakeInstance, Begun, Changed, HeldOK
    <3> QED
      BY <3>1, <3>2
  <2>3. CASE InitInstance
    BY <1>2, <2>1, <2>3 DEF BeginPass, InitInstance, Begun, LiveScene, HeldOK, InstsType, InstsSet
  <2>4. CASE InitFails
    BY <1>2, <2>1, <2>4 DEF BeginPass, InitFails, Begun, ErrorScene, HeldOK
  <2> QED
    BY <1>2, <2>2, <2>3, <2>4 DEF BeginPass
<1>3. CASE HandleEvent
  <2>1. PICK e \in Oldest : Handles(e)
    BY <1>3, HandlesLemma
  <2>2. at' = at
    BY <1>3, HandlesLemma DEF Unmoved
  <2>3. CASE /\ loop'.last = loop.last /\ loop'.held = loop.held /\ loop'.force = loop.force
             /\ insts.table \subseteq insts'.table
    BY <2>2, <2>3 DEF HeldOK
  <2>4. ASSUME NEW b \in BOOLEAN, Upload(e.n, b) PROVE HeldOK'
    BY <2>2, <2>4, OrphanedLemma DEF Orphaned, Instance, Upload, HeldOK, InstsType, InstsSet
  <2>5. CASE DoReload(e.n)
    <3>1. /\ ~Orphaned(Scene).live /\ Orphaned(Scene).scene = loop.held.scene
      BY DEF HeldOK, InstsType, InstsSet, Orphaned, Instance
    <3>2. loop'.held = Orphaned(Scene) /\ loop'.force /\ loop'.last = loop.last
      BY <2>5, OrphanedLemma DEF DoReload
    <3> QED
      BY <2>2, <3>1, <3>2 DEF HeldOK
  <2> QED
    BY <2>1, <2>3, <2>4, <2>5, HandledLoop
<1>4. CASE Rendered
  BY <1>4 DEF Rendered, HeldOK
<1>5. CASE Settle
  <2>1. loop'.last = loop.last /\ loop'.held = loop.held /\ loop'.force = loop.force
    BY <1>5 DEF Settle
  <2>2. insts'.table = insts.table
    BY <1>5, SettleLemma
  <2> QED
    BY <1>5, <2>1, <2>2 DEF Settle, HeldOK
<1>6. CASE UNCHANGED <<loop, insts>> /\ at' \in {at, "top"}
  BY <1>6 DEF HeldOK
<1> QED
  BY <1>1, <1>2, <1>3, <1>4, <1>5, <1>6
     DEF Next, RenderLoop, MessageLoop, FatalQuit, ServerFails, Crash, SendEvent, HandleSetScenes,
         Enqueue, PersistChecksum, HandleMoves, Drained, Wake, IntervalOver, vars, history

\* ShownOK is preserved: whatever switches, uploads or reloads also asks
\* for a render.
LEMMA ShownStep == Inv /\ [Next]_vars => ShownOK'
<1> SUFFICES ASSUME Inv, [Next]_vars PROVE ShownOK'
  OBVIOUS
<1> USE TypeParts DEF Inv, LoopType, LoopSet
<1>1. CASE at' \in {"off", "retry", "init", "top"}
  BY <1>1 DEF ShownOK
<1>2. CASE BeginPass
  <2>1. loop.cur \in Scene /\ loop.cur # NoScene
    BY MadeLemma
  <2>2. CASE TakeInstance
    <3>1. CASE Changed
      BY <2>1, <2>2, <3>1 DEF TakeInstance, Begun, LiveScene, ShownOK
    <3>2. CASE ~Changed
      BY <2>1, <2>2, <3>2 DEF TakeInstance, Begun, Changed, HeldOK, ShownOK
    <3> QED
      BY <3>1, <3>2
  <2>3. CASE InitInstance
    BY <2>3 DEF InitInstance, Begun, LiveScene, ShownOK
  <2>4. CASE InitFails
    BY <2>4 DEF InitFails, Begun, ErrorScene, ShownOK
  <2> QED
    BY <1>2, <2>2, <2>3, <2>4 DEF BeginPass
<1>3. CASE Rendered
  BY <1>3 DEF Rendered, ShownOK
<1>4. CASE Settle
  BY <1>4 DEF Settle, ShownOK
<1>5. CASE HandleEvent
  <2>1. UNCHANGED loop \/ loop'.trigger
    BY <1>5, HandlesLemma, HandledLoop
  <2> QED
    BY <1>5, <2>1, HandlesLemma DEF ShownOK, Unmoved
<1>6. CASE UNCHANGED <<at, loop>>
  BY <1>6 DEF ShownOK
<1> QED
  BY <1>1, <1>2, <1>3, <1>4, <1>5, <1>6
     DEF Next, RenderLoop, MessageLoop, Start, RunnerStarts, FatalRetry, FatalQuit, ServerFails,
         Crash, Ends, SendEvent, HandleSetScenes, Enqueue, PersistChecksum, HandleMoves, Drained,
         Wake, IntervalOver, vars

-----------------------------------------------------------------------------
(* NoLostRender: a change not yet drawn has a pass asked for.              *)

\* NoLostRender in terms of the events on the channel.
LEMMA AskedLemma ==
  /\ NoLostRender <=>
       (unshown # {} => loop.trigger \/ at = "top" \/ FollowUp \in Events(chan))
  /\ (NoLostRender <=>
       (unshown # {} => loop.trigger \/ at = "top" \/ FollowUp \in Events(chan)))'
BY DEF NoLostRender, Events

\* NoLostRender is preserved: a change sets triggerRenderNext or leaves a
\* follow-up, and only a pass clears either.
LEMMA DrawnStep == Inv /\ [Next]_vars => NoLostRender'
<1> SUFFICES ASSUME Inv, [Next]_vars PROVE NoLostRender'
  OBVIOUS
<1> USE TypeParts, AskedLemma DEF Inv
<1>1. CASE unshown' = {}
  BY <1>1
<1>2. CASE ~Running /\ UNCHANGED unshown
  BY <1>1, <1>2 DEF StoppedOK
<1>3. CASE at' = "top" /\ UNCHANGED unshown
  BY <1>3
<1>4. CASE UNCHANGED <<at, unshown, loop>> /\ Events(chan) \subseteq Events(chan')
  BY <1>4
<1>5. ASSUME NEW n \in Num, NEW k \in Kinds, Enqueue(n, k)
      PROVE  NoLostRender'
  BY <1>4, <1>5, EnqueueEvents DEF Enqueue
<1>6. CASE Rendered
  <2>1. loop'.trigger = loop.trigger
    BY <1>6 DEF Rendered, LoopType, LoopSet
  <2> QED
    BY <1>6, <2>1 DEF Rendered
<1>7. CASE Settle
  BY <1>7 DEF Settle, history
<1>8. CASE HandleMoves
  <2>1. chan \in Channel
    OBVIOUS
  <2>2. \A e \in Events(chan) : e \in Events(chan') \/ Move(e)
    BY <1>8, <2>1, BurstLemma DEF HandleMoves
  <2>3. ~Move(FollowUp)
    BY DEF Move, FollowUp
  <2> QED
    BY <1>8, <2>2, <2>3 DEF HandleMoves
<1>9. CASE HandleEvent
  <2>1. PICK e \in Oldest : Handles(e) /\ (e.is.what = "render" => DoRender(e.n))
    BY <1>9, HandlesLemma
  <2>2. at' = at /\ at \in {"settle", "asleep"}
    BY <1>9, HandlesLemma DEF Unmoved
  <2>3. CASE e = FollowUp
    BY <2>1, <2>2, <2>3 DEF DoRender, FollowUp, LoopType, LoopSet
  <2>4. CASE e # FollowUp
    <3>1. FollowUp \in Events(chan) => FollowUp \in Events(chan')
      BY <2>1, <2>4, TakenLemma, HandledChannel
    <3>2. \/ loop'.trigger
          \/ UNCHANGED <<loop, unshown>>
          \/ GiveState(e.n) /\ UNCHANGED loop
      <4>1. UNCHANGED loop \/ loop'.trigger
        BY <2>1, HandledLoop
      <4>2. \/ DoRender(e.n) \/ GiveState(e.n) \/ UNCHANGED unshown \/ GiveAgain(e.n)
            \/ DoReload(e.n)
            \/ \E b \in BOOLEAN : SwitchTo(e.n, e.is.scene, b) \/ Upload(e.n, b)
        BY <2>1 DEF Handles, DoDispatch, Refused, Refuse, Switches, Uploads, UploadFails
      <4> QED
        BY <4>1, <4>2
           DEF DoRender, GiveAgain, SwitchTo, Upload, DoReload, LoopType, LoopSet
    <3> QED
      BY <2>1, <2>2, <3>1, <3>2, HandledChannel
  <2> QED
    BY <2>3, <2>4
<1>10. CASE Drained
  BY <1>4, <1>10, DrainedEvents DEF Drained, history
<1> QED
  BY <1>1, <1>2, <1>3, <1>4, <1>5, <1>6, <1>7, <1>8, <1>9, <1>10
     DEF Next, RenderLoop, MessageLoop, Start, RunnerStarts, FatalRetry, FatalQuit,
         ServerFails, Crash, Ends, SendEvent, HandleSetScenes, PersistChecksum, BeginPass, Wake,
         IntervalOver, Running, vars, history

-----------------------------------------------------------------------------
(* CountOK: the boot guard.                                                *)

\* A handler has nothing to do with the count.
LEMMA HandledCount ==
  ASSUME TypeOK, ChannelOK, NEW e \in Oldest, Handles(e), e.n \in Num \/ DoRender(e.n)
  PROVE  /\ known'.crashes = known.crashes /\ disk'.crashes = disk.crashes
         /\ "crashes" \in spoiled' <=> "crashes" \in spoiled
<1> USE TypeParts
<1>1. CASE DoRender(e.n) \/ DoDispatch(e.n)
  BY <1>1 DEF DoRender, DoDispatch
<1>2. CASE Refused(e.n)
  BY <1>2, LoadedLemma DEF Refused, Refuse
<1>3. ASSUME NEW s \in Scene, NEW k \in KnownSet, k.crashes = known.crashes,
             NEW v \in 0 .. MaxEvents, NEW right \in SUBSET Kept, Keep(s, v, k, right, {})
      PROVE  /\ known'.crashes = known.crashes /\ disk'.crashes = disk.crashes
             /\ "crashes" \in spoiled' <=> "crashes" \in spoiled
  <2>1. {} \in SUBSET Kept
    OBVIOUS
  <2> QED
    BY <1>3, <2>1, KeepLemma DEF CountsType
<1>4. CASE (GiveState(e.n) \/ GiveAgain(e.n)) /\ ~DoRender(e.n)
  <2>1. e.n \in 0 .. MaxEvents /\ loop.cur \in Scene /\ known \in KnownSet
        /\ {"saved", "scene"} \in SUBSET Kept
    BY <1>4, MaxSlots DEF LoopType, LoopSet, KnownType, Kept
  <2>2. Keep(loop.cur, e.n, known, {"saved", "scene"}, {})
    BY <1>4 DEF GiveState, GiveAgain, Given
  <2> QED
    BY <1>3, <2>1, <2>2
<1>5. ASSUME NEW b \in BOOLEAN, e.is.scene \in Scene, SwitchTo(e.n, e.is.scene, b)
      PROVE  /\ known'.crashes = known.crashes /\ disk'.crashes = disk.crashes
             /\ "crashes" \in spoiled' <=> "crashes" \in spoiled
  <2> DEFINE s == e.is.scene
             value == IF s \in insts.table THEN insts.state ELSE disk.saved
             k == IF s \in insts.table THEN known ELSE Loaded(s)
             right == IF value = want THEN {"saved", "scene"} ELSE {"scene"}
  <2>1. value \in 0 .. MaxEvents /\ k \in KnownSet /\ k.crashes = known.crashes
    BY SwitchKnows, LoadedLemma DEF InstsType, DiskType, InstsSet, DiskSet
  <2>2. right \in SUBSET Kept /\ {"saved", "scene"} \in SUBSET Kept /\ s \in Scene
        /\ e.n \in 0 .. MaxEvents
    BY <1>5, TakenLemma, KindLemma DEF Kept
  <2>3. Keep(s, e.n, k, {"saved", "scene"}, {}) \/ Keep(s, value, k, right, {})
    BY <1>5 DEF SwitchTo, Given
  <2> HIDE DEF s, value, k, right
  <2> QED
    BY <1>3, <2>1, <2>2, <2>3
<1>6. ASSUME NEW b \in BOOLEAN, Upload(e.n, b) \/ UploadFails(e.n, b)
      PROVE  /\ known'.crashes = known.crashes /\ disk'.crashes = disk.crashes
             /\ "crashes" \in spoiled' <=> "crashes" \in spoiled
  BY <1>6 DEF Upload, UploadFails, Stored, KnownType, KnownSet, DiskType, DiskSet
<1>7. CASE DoReload(e.n)
  BY <1>7, LookUpLemma DEF DoReload, CountsType
<1> QED
  BY <1>1, <1>2, <1>4, <1>5, <1>6, <1>7 DEF Handles, Switches, Uploads

\* CountOK is preserved.
LEMMA CountStep == Inv /\ [Next]_vars => CountOK'
<1> SUFFICES ASSUME Inv, [Next]_vars PROVE CountOK'
  OBVIOUS
<1> USE TypeParts DEF Inv
<1>a. known.crashes \in Nat /\ starts \in Nat /\ Booted.crashes \in Nat
      /\ Booted.crashes = IF at = "off" THEN disk.crashes ELSE known.crashes
  BY BootedLemma DEF KnownType, KnownSet, CountsType
<1>1. CASE Start
  <2>1. /\ known'.crashes = Booted.crashes + 1 /\ known'.crashes \in Nat
        /\ GuardFile(known'.crashes, starts + 1, 0) /\ starts' = starts + 1 /\ at' = "init"
        /\ loop'.first = "guard" <=> known'.crashes >= CrashLimit
    BY <1>a, <1>1, StartLemma DEF Start
  <2>2. \/ "crashes" \in spoiled'
        \/ /\ disk'.crashes = known'.crashes
           /\ known'.crashes = starts + 1 \/ "crashes" \notin spoiled
    BY <1>a, <2>1, GuardFileLemma DEF CountsType
  <2> QED
    BY <1>a, <2>1, <2>2 DEF CountOK
<1>2. CASE FatalRetry
  <2>1. /\ at' = "retry" /\ known'.crashes = 0 /\ starts' = starts /\ Forgive(Booted.crashes)
    BY <1>2, BootedLemma DEF FatalRetry, history, KnownSet
  <2>2. \/ "crashes" \in spoiled'
        \/ Booted.crashes = 0 /\ disk' = disk /\ "crashes" \notin spoiled
    BY <1>a, <2>1, ForgiveLemma
  <2> QED
    BY <1>a, <2>1, <2>2 DEF CountOK
<1>3. CASE FatalQuit
  <2>1. at' = "off" /\ starts' = starts /\ GuardFile(Booted.crashes, starts, 0)
    BY <1>3 DEF FatalQuit, Ends
  <2>2. \/ "crashes" \in spoiled'
        \/ /\ disk'.crashes = Booted.crashes
           /\ Booted.crashes = starts \/ "crashes" \notin spoiled
    BY <1>a, <2>1, GuardFileLemma DEF CountsType
  <2> QED
    BY <1>a, <2>1, <2>2 DEF CountOK
<1>4. CASE ServerFails
  <2>1. at # "init" /\ at' = at /\ known.crashes # 0 /\ Forgive(known.crashes)
    BY <1>4 DEF ServerFails
  <2>2. "crashes" \in spoiled'
    BY <1>a, <2>1, ForgiveLemma
  <2> QED
    BY <2>1, <2>2 DEF CountOK
<1>5. CASE Crash
  BY <1>5 DEF Crash, Ends, CountOK
<1>6. CASE /\ disk'.crashes = disk.crashes /\ known'.crashes = known.crashes /\ starts' = starts
           /\ "crashes" \in spoiled' <=> "crashes" \in spoiled
           /\ at # "off" /\ at' \notin {"off", "init"}
  BY <1>6 DEF CountOK
<1>7. CASE RunnerStarts
  <2>1. at = "init" /\ at' = "top" /\ starts' = starts
    BY <1>7 DEF RunnerStarts, history
  <2>2. UNCHANGED <<known, disk, spoiled>> \/ LookUp
    BY <1>7 DEF RunnerStarts
  <2> QED
    BY <1>6, <2>1, <2>2, LookUpLemma DEF CountsType
<1>8. CASE BeginPass
  <2>1. known'.crashes = known.crashes
    BY <1>8, PassLemma, LoadedLemma
  <2>2. \/ "crashes" \in spoiled'
        \/ /\ disk'.crashes = known.crashes
           /\ known.crashes = starts \/ "crashes" \notin spoiled
        \/ disk' = disk /\ "crashes" \notin spoiled
    BY <1>8, PassLemma, GuardContextLemma
  <2>3. at = "top" /\ at' = "render" /\ starts' = starts
    BY <1>8 DEF BeginPass
  <2> QED
    BY <2>1, <2>2, <2>3 DEF CountOK
<1>9. CASE Rendered
  <2>1. known'.crashes = 0 /\ starts' = 0 /\ at = "render" /\ at' = "settle"
    BY <1>9 DEF Rendered, KnownType, KnownSet
  <2> QED
    BY <1>9, <2>1, ClearLemma DEF CountOK
<1>10. CASE Settle
  <2>1. at # "off" /\ at' \notin {"off", "init"} /\ starts' = starts
    BY <1>10 DEF Settle, history
  <2>2. CASE KeepHeld
    <3>0. /\ loop.held.scene \in Scene /\ HeldValue \in 0 .. MaxEvents /\ known \in KnownSet
          /\ HeldRight \in SUBSET Kept /\ HeldStale \in SUBSET Kept
          /\ Keep(loop.held.scene, HeldValue, known, HeldRight, HeldStale)
      BY <1>10, <2>2, SettleLemma DEF KnownType
    <3>1. /\ known'.crashes = known.crashes /\ disk'.crashes = disk.crashes
          /\ "crashes" \in spoiled' <=> "crashes" \in spoiled
      <4> DEFINE s == loop.held.scene
                 v == HeldValue
                 k == known
                 right == HeldRight
                 stale == HeldStale
      <4>1. /\ s \in Scene /\ v \in 0 .. MaxEvents /\ k \in KnownSet
            /\ right \in SUBSET Kept /\ stale \in SUBSET Kept /\ Keep(s, v, k, right, stale)
            /\ k.crashes = known.crashes
        BY <3>0
      <4> HIDE DEF s, v, k, right, stale
      <4>2. DiskType /\ spoiled \subseteq Files /\ faults \in 0 .. MaxFaults
        BY DEF CountsType
      <4>3. known'.crashes = k.crashes /\ disk'.crashes = disk.crashes
        BY <4>1, <4>2, KeepLemma
      <4>4. "crashes" \in spoiled' <=> "crashes" \in spoiled
        BY <4>1, <4>2, KeepLemma
      <4> QED
        BY <4>1, <4>3, <4>4
    <3> QED
      BY <1>6, <2>1, <3>1
  <2> QED
    BY <1>6, <1>10, <2>1, <2>2, SettleLemma
<1>11. CASE HandleEvent
  <2>1. PICK e \in Oldest : Handles(e) /\ (e.n \in Num \/ DoRender(e.n))
    BY <1>11, HandlesLemma
  <2>2. at = at' /\ at \in {"settle", "asleep"} /\ starts' = starts
    BY <1>11, HandlesLemma DEF Unmoved
  <2> QED
    BY <1>6, <2>1, <2>2, HandledCount
<1>12. CASE /\ disk'.crashes = disk.crashes /\ UNCHANGED <<known, starts, spoiled>>
            /\ \/ UNCHANGED <<at, loop>>
               \/ at = "asleep" /\ at' = "top"
  BY <1>12 DEF CountOK
<1>13. CASE PersistChecksum
  BY <1>12, <1>13 DEF PersistChecksum, DiskType, DiskSet, history
<1> QED
  BY <1>1, <1>2, <1>3, <1>4, <1>5, <1>7, <1>8, <1>9, <1>10, <1>11, <1>12, <1>13
     DEF Next, RenderLoop, MessageLoop, SendEvent, HandleSetScenes, Enqueue,
         HandleMoves, Drained, Wake, IntervalOver, vars, history

-----------------------------------------------------------------------------
(* SavedOK: the value of the uploaded scene's field.                       *)

\* What a process may know of the field's file, unless that is spoiled.
KnowsSaved(k) == k.saved # 0 => k.saved = want

\* A value given to a handler becomes the value of the file, unless that is
\* spoiled now.
LEMMA GivenSaved ==
  ASSUME TypeOK, NEW n \in Num, NEW s \in Scene, NEW k \in KnownSet, Given(n, s, k),
         SavedOK, "saved" \in spoiled \/ KnowsSaved(k)
  PROVE  SavedOK'
<1> USE TypeParts
<1>1. n \in 0 .. MaxEvents /\ n # 0
  BY MaxSlots
<1>2. /\ insts'.table = insts.table \cup {s}
      /\ insts'.state = IF s = "uploaded" THEN n ELSE insts.state
      /\ want' = IF s = "uploaded" THEN n ELSE want
      /\ Keep(s, n, k, {"saved", "scene"}, {})
  BY DEF Given, InstsType, InstsSet
<1>3. \/ "saved" \in spoiled'
      \/ /\ s # "uploaded" \/ n = k.saved
         /\ disk'.saved = disk.saved /\ known'.saved = k.saved /\ "saved" \notin spoiled
      \/ s = "uploaded" /\ disk'.saved = n /\ known'.saved = n
  <2>1. {"saved", "scene"} \in SUBSET Kept /\ {} \in SUBSET Kept
    BY DEF Kept
  <2> QED
    BY <1>1, <1>2, <2>1, KeepLemma DEF CountsType
<1> QED
  BY <1>1, <1>2, <1>3 DEF SavedOK, KnowsSaved

\* setCurrentScene leaves the file with the value of the instance, unless it is
\* spoiled.
LEMMA SwitchedSaved ==
  ASSUME TypeOK, SavedOK, NEW n \in Num, NEW s \in Scene, NEW b \in BOOLEAN, SwitchTo(n, s, b)
  PROVE  SavedOK'
<1> USE TypeParts
<1> DEFINE value == IF s \in insts.table THEN insts.state ELSE disk.saved
           k == IF s \in insts.table THEN known ELSE Loaded(s)
           right == IF value = want THEN {"saved", "scene"} ELSE {"scene"}
<1>1. value \in 0 .. MaxEvents /\ k \in KnownSet
  BY SwitchKnows DEF InstsType, DiskType, InstsSet, DiskSet
<1>2. "saved" \in spoiled \/ KnowsSaved(k)
  BY LoadedLemma DEF SavedOK, KnowsSaved
<1>3. \/ Given(n, s, k)
      \/ /\ insts' = [insts EXCEPT !.table = @ \cup {s}, !.kept = @ \cup {s},
                                   !.state = IF s = "uploaded" THEN value ELSE @]
         /\ Keep(s, value, k, right, {}) /\ want' = want
  BY DEF SwitchTo
<1>4. CASE Given(n, s, k)
  <2> HIDE DEF k
  <2> QED
    BY <1>1, <1>2, <1>4, GivenSaved
<1>5. CASE /\ insts' = [insts EXCEPT !.table = @ \cup {s}, !.kept = @ \cup {s},
                                     !.state = IF s = "uploaded" THEN value ELSE @]
           /\ Keep(s, value, k, right, {}) /\ want' = want
  <2>1. /\ insts'.table = insts.table \cup {s}
        /\ insts'.state = IF s = "uploaded" THEN value ELSE insts.state
    BY <1>5 DEF InstsType, InstsSet
  <2>2. right \in SUBSET Kept /\ {} \in SUBSET Kept
    BY DEF Kept
  <2>3. "saved" \in right <=> value = want
    OBVIOUS
  <2>4. \/ "saved" \in spoiled'
        \/ /\ s # "uploaded" \/ value = k.saved
           /\ disk'.saved = disk.saved /\ known'.saved = k.saved /\ "saved" \notin spoiled
        \/ /\ s = "uploaded" /\ disk'.saved = value /\ known'.saved = value
           /\ "saved" \in spoiled => "saved" \in right
    <3> HIDE DEF value, k, right
    <3> QED
      BY <1>1, <1>5, <2>2, KeepLemma DEF CountsType
  <2>5. "saved" \notin spoiled /\ s = "uploaded" => value = want
    BY DEF SavedOK
  <2> HIDE DEF value, k, right
  <2> QED
    BY <1>2, <1>5, <2>1, <2>3, <2>4, <2>5 DEF SavedOK, KnowsSaved
<1> QED
  BY <1>3, <1>4, <1>5

\* SavedOK is preserved.
LEMMA SavedStep == Inv /\ [Next]_vars => SavedOK'
<1> SUFFICES ASSUME Inv, [Next]_vars, "saved" \notin spoiled' PROVE SavedOK'
  BY DEF SavedOK
<1> USE TypeParts DEF Inv
<1>a. known.crashes \in Nat /\ starts \in Nat /\ Booted.crashes \in Nat
      /\ Booted.saved = IF at = "off" THEN 0 ELSE known.saved
  BY BootedLemma DEF KnownType, KnownSet, CountsType
<1>1. CASE /\ "saved" \notin spoiled /\ disk'.saved = disk.saved /\ want' = want
           /\ known'.saved \in {0, known.saved, disk.saved}
           /\ "uploaded" \in insts'.table =>
                \/ "uploaded" \in insts.table /\ insts'.state = insts.state
                \/ insts'.state = disk.saved
  BY <1>1 DEF SavedOK
<1>2. CASE Start
  <2>1. disk'.saved = disk.saved /\ "saved" \notin spoiled /\ known'.saved \in {0, known.saved}
    <3>1. known'.crashes \in Nat /\ starts + 1 \in Nat /\ GuardFile(known'.crashes, starts + 1, 0)
      BY <1>2, StartLemma DEF CountsType, KnownSet
    <3>2. disk'.saved = disk.saved /\ "saved" \notin spoiled
      BY <3>1, GuardFileLemma DEF CountsType
    <3> QED
      BY <1>a, <1>2, <3>2, StartLemma
  <2> QED
    BY <1>1, <1>2, <2>1 DEF Start
<1>3. CASE FatalRetry \/ ServerFails
  <2>1. disk'.saved = disk.saved /\ "saved" \notin spoiled
    BY <1>a, <1>3, ForgiveLemma DEF FatalRetry, ServerFails
  <2>2. known'.saved \in {0, known.saved}
    BY <1>a, <1>3, BootedLemma DEF FatalRetry, ServerFails, KnownType, KnownSet
  <2> QED
    BY <1>1, <1>3, <2>1, <2>2 DEF FatalRetry, ServerFails, history
<1>4. CASE FatalQuit
  <2>1. disk'.saved = disk.saved /\ "saved" \notin spoiled
    BY <1>a, <1>4, GuardFileLemma DEF FatalQuit, CountsType
  <2> QED
    BY <1>1, <1>4, <2>1 DEF FatalQuit, Ends, Nothing, NoScenes
<1>5. CASE Crash
  BY <1>1, <1>5 DEF Crash, Ends, Nothing, NoScenes
<1>6. CASE RunnerStarts
  <2>1. insts'.table = {} /\ want' = want
    BY <1>6 DEF RunnerStarts, StoppedOK, Running, NoScenes, history
  <2>2. UNCHANGED <<known, disk, spoiled>> \/ LookUp
    BY <1>6 DEF RunnerStarts
  <2> QED
    BY <1>1, <2>1, <2>2, LookUpLemma DEF CountsType
<1>7. CASE BeginPass
  <2>1. disk'.saved = disk.saved /\ "saved" \notin spoiled
    BY <1>7, PassLemma, GuardContextLemma
  <2>2. known'.saved \in {known.saved, disk.saved}
    BY <1>7, PassLemma, LoadedLemma
  <2>3. CASE InitInstance
    <3>1. /\ insts'.table = insts.table \cup {loop.cur}
          /\ insts'.state = IF loop.cur = "uploaded" THEN disk.saved ELSE insts.state
      BY <2>3 DEF InitInstance, InstsType, InstsSet
    <3> QED
      BY <1>1, <1>7, <2>1, <2>2, <3>1 DEF BeginPass
  <2>4. CASE UNCHANGED insts
    BY <1>1, <1>7, <2>1, <2>2, <2>4 DEF BeginPass
  <2> QED
    BY <1>7, <2>3, <2>4 DEF BeginPass, TakeInstance, InitFails
<1>8. CASE Rendered
  BY <1>1, <1>8, ClearLemma DEF Rendered, KnownType, KnownSet
<1>9. CASE Settle
  <2>1. want' = want
    BY <1>9 DEF Settle, history
  <2>2. CASE KeepHeld
    <3>1. insts'.table = insts.table /\ insts'.state = insts.state
      BY <1>9, <2>2, SettleLemma
    <3>2. \/ /\ loop.held.scene # "uploaded" \/ HeldValue = known.saved
             /\ disk'.saved = disk.saved /\ known'.saved = known.saved /\ "saved" \notin spoiled
          \/ /\ loop.held.scene = "uploaded" /\ disk'.saved = HeldValue
             /\ known'.saved = HeldValue /\ "saved" \notin HeldStale
             /\ "saved" \in spoiled => "saved" \in HeldRight
      BY <1>9, <2>2, SettleLemma, KeepLemma DEF CountsType, KnownType
    <3>3. CASE loop.held.scene = "uploaded" /\ disk'.saved = HeldValue /\ known'.saved = HeldValue
               /\ "saved" \notin HeldStale /\ ("saved" \in spoiled => "saved" \in HeldRight)
      <4>1. loop.held.live => "uploaded" \in insts.table /\ HeldValue = insts.state
        BY <3>3 DEF HeldOK, HeldValue
      <4>2. "saved" \in HeldRight <=> loop.held.live /\ HeldValue = want
        BY DEF HeldRight
      <4>3. "saved" \in HeldStale <=> ~loop.held.live /\ HeldValue # want
        BY DEF HeldStale
      <4> HIDE DEF HeldRight, HeldStale
      <4>4. HeldValue = want
        BY <3>3, <4>1, <4>2, <4>3 DEF SavedOK
      <4>5. "uploaded" \in insts.table => insts.state = want
        <5>1. CASE "saved" \in spoiled
          BY <3>3, <4>1, <4>2, <5>1
        <5>2. CASE "saved" \notin spoiled
          BY <5>2 DEF SavedOK
        <5> QED
          BY <5>1, <5>2
      <4> QED
        BY <2>1, <3>1, <3>3, <4>4, <4>5 DEF SavedOK
    <3> QED
      BY <1>1, <2>1, <3>1, <3>2, <3>3
  <2>3. CASE UNCHANGED <<disk, insts, known, spoiled>>
    BY <1>1, <2>1, <2>3
  <2> QED
    BY <1>9, <2>2, <2>3, SettleLemma
<1>10. CASE HandleEvent
  <2>1. PICK e \in Oldest : Handles(e) /\ (e.n \in Num \/ DoRender(e.n))
    BY <1>10, HandlesLemma
  <2>2. CASE DoRender(e.n) \/ DoDispatch(e.n)
    BY <1>1, <2>2 DEF DoRender, DoDispatch
  <2>3. CASE Refused(e.n)
    <3>1. known'.saved \in {known.saved, disk.saved}
      BY <2>3, LoadedLemma DEF Refused
    <3> QED
      BY <1>1, <2>3, <3>1 DEF Refused, Refuse
  <2>4. CASE (GiveState(e.n) \/ GiveAgain(e.n)) /\ ~DoRender(e.n)
    <3>1. loop.cur \in Scene /\ known \in KnownSet /\ Given(e.n, loop.cur, known)
      BY <2>4 DEF GiveState, GiveAgain, LoopType, LoopSet, KnownType
    <3>2. "saved" \in spoiled \/ KnowsSaved(known)
      BY DEF SavedOK, KnowsSaved
    <3> QED
      BY <2>1, <2>4, <3>1, <3>2, GivenSaved
  <2>5. CASE Switches(e.n, e.is.scene) /\ ~DoRender(e.n)
    BY <2>1, <2>5, SwitchedSaved DEF Switches
  <2>6. ASSUME NEW b \in BOOLEAN, Upload(e.n, b) PROVE SavedOK'
    <3>1. "uploaded" \notin insts'.table
      BY <2>6 DEF Upload, InstsType, InstsSet
    <3>2. disk'.saved = want' /\ (known'.saved # 0 => known'.saved = want')
      BY <2>6 DEF Upload, Stored, SavedOK, DiskType, DiskSet, KnownType, KnownSet
    <3> QED
      BY <3>1, <3>2 DEF SavedOK
  <2>7. ASSUME NEW b \in BOOLEAN, UploadFails(e.n, b) PROVE SavedOK'
    <3>1. /\ \E u \in Left(TRUE, e.n, disk.uploads, 0) : disk' = [disk EXCEPT !.uploads = u]
          /\ UNCHANGED <<known, spoiled>>
      BY <2>7 DEF UploadFails
    <3> QED
      BY <1>1, <2>7, <3>1 DEF UploadFails, DiskType, DiskSet, InstsType, InstsSet
  <2>8. CASE DoReload(e.n)
    <3>1. insts'.table = {} /\ want' = want /\ LookUp
      BY <2>8 DEF DoReload, InstsType, InstsSet
    <3> QED
      BY <1>1, <3>1, LookUpLemma DEF CountsType
  <2> QED
    BY <2>1, <2>2, <2>3, <2>4, <2>5, <2>6, <2>7, <2>8 DEF Handles, Uploads
<1>11. CASE PersistChecksum
  BY <1>1, <1>11 DEF PersistChecksum, DiskType, DiskSet, history
<1>12. CASE UNCHANGED <<insts, known, disk, want, spoiled>>
  BY <1>1, <1>12
<1> QED
  BY <1>2, <1>3, <1>4, <1>5, <1>6, <1>7, <1>8, <1>9, <1>10, <1>11, <1>12
     DEF Next, RenderLoop, MessageLoop, SendEvent, HandleSetScenes, Enqueue,
         HandleMoves, Drained, Wake, IntervalOver, vars, history

-----------------------------------------------------------------------------
(* FateOK: the channel is a queue.  The numbers of its events are those of  *)
(* the events that wait, oldest first, and nothing is taken out of turn.   *)

Numbers(c) == {e.n : e \in Events(c)} \ {0}

\* Ascending, a handler's own "render" aside; pendingEvent comes first.
InOrder(c) ==
  /\ \A i, j \in DOMAIN c.queue :
       i < j /\ c.queue[j].n # 0 => c.queue[i].n < c.queue[j].n
  /\ \A e \in c.pending, j \in DOMAIN c.queue :
       c.queue[j].n # 0 => e.n < c.queue[j].n

\* Numbers are given in order, and an older event that waits has no newer one
\* behind it that is done with.
InTurn ==
  \A m, n \in Num : m < n =>
    /\ fate[n] # "unsent" => fate[m] # "unsent"
    /\ fate[m] = "waiting" => fate[n] \in {"unsent", "waiting", "dropped"}

MovesKnown == \A e \in Events(chan) : Move(e) => e.n \in moves

FateOK == NoEventVanishes /\ InOrder(chan) /\ InTurn /\ MovesKnown

\* NoEventVanishes in terms of the numbers.
LEMMA WaitingLemma ==
  /\ NoEventVanishes <=> {n \in Num : fate[n] = "waiting"} = Numbers(chan)
  /\ (NoEventVanishes <=> {n \in Num : fate[n] = "waiting"} = Numbers(chan))'
BY DEF NoEventVanishes, Numbers, Events

\* Sending at the end keeps the order.
LEMMA AppendOrder ==
  ASSUME NEW c \in Channel, InOrder(c), NEW e \in Event,
         e.n # 0 => \A x \in Events(c) : x.n < e.n
  PROVE  InOrder([c EXCEPT !.queue = Append(@, e)])
<1> DEFINE d == [c EXCEPT !.queue = Append(@, e)]
<1>1. c.queue \in Seq(Event)
  BY DEF Channel
<1>2. d.queue = Append(c.queue, e) /\ d.pending = c.pending
  BY DEF Channel
<1> HIDE DEF d
<1>3. /\ Len(c.queue) \in Nat
      /\ DOMAIN d.queue = 1 .. Len(c.queue) + 1 /\ DOMAIN c.queue = 1 .. Len(c.queue)
  BY <1>1, <1>2
<1>4. \A i \in 1 .. Len(c.queue) : d.queue[i] = c.queue[i] /\ c.queue[i] \in Events(c)
  BY <1>1, <1>2, <1>3 DEF Events
<1>5. d.queue[Len(c.queue) + 1] = e
  BY <1>1, <1>2
<1>6. \A x \in c.pending : x \in Events(c)
  BY DEF Events
<1>7. ASSUME NEW i \in DOMAIN d.queue, NEW j \in DOMAIN d.queue, i < j, d.queue[j].n # 0
      PROVE  d.queue[i].n < d.queue[j].n
  <2>1. i \in 1 .. Len(c.queue)
    BY <1>3, <1>7
  <2>2. CASE j \in 1 .. Len(c.queue)
    BY <1>3, <1>4, <1>7, <2>1, <2>2 DEF InOrder
  <2>3. CASE j = Len(c.queue) + 1
    BY <1>4, <1>5, <1>7, <2>1, <2>3
  <2> QED
    BY <1>3, <2>2, <2>3
<1>8. ASSUME NEW x \in d.pending, NEW j \in DOMAIN d.queue, d.queue[j].n # 0
      PROVE  x.n < d.queue[j].n
  <2>1. CASE j \in 1 .. Len(c.queue)
    BY <1>2, <1>3, <1>4, <1>8, <2>1 DEF InOrder
  <2>2. CASE j = Len(c.queue) + 1
    BY <1>2, <1>5, <1>6, <1>8, <2>2
  <2> QED
    BY <1>3, <2>1, <2>2
<1>9. InOrder(d)
  BY <1>7, <1>8 DEF InOrder
<1> QED
  BY <1>9 DEF d

\* The oldest event has the least number; without it the order is as before.
LEMMA RestOrder ==
  ASSUME chan \in Channel, \A x, y \in chan.pending : x = y, InOrder(chan), NEW e \in Oldest
  PROVE  /\ InOrder(Rest)
         /\ \A x \in Events(Rest) : x.n # 0 => e.n < x.n
<1>1. chan.queue \in Seq(Event) /\ chan.pending \subseteq Event
  BY DEF Channel
<1>2. CASE chan.pending # {}
  <2>1. Rest.queue = chan.queue /\ Rest.pending = {} /\ e \in chan.pending
    BY <1>2 DEF Rest, Oldest
  <2>2. Events(Rest) = {chan.queue[i] : i \in DOMAIN chan.queue}
    BY <2>1 DEF Events
  <2> QED
    BY <2>1, <2>2 DEF InOrder
<1>3. CASE chan.pending = {}
  <2>1. chan.queue # <<>> /\ e = Head(chan.queue)
    BY <1>3 DEF Oldest
  <2>2. Rest.queue = Tail(chan.queue) /\ Rest.pending = {}
    BY <1>3 DEF Rest
  <2>3. /\ Len(chan.queue) \in Nat \ {0}
        /\ DOMAIN chan.queue = 1 .. Len(chan.queue)
        /\ DOMAIN Tail(chan.queue) = 1 .. Len(chan.queue) - 1
        /\ e = chan.queue[1]
        /\ \A i \in 1 .. Len(chan.queue) - 1 : Tail(chan.queue)[i] = chan.queue[i + 1]
    BY <1>1, <2>1
  <2>4. InOrder(Rest)
    <3>1. ASSUME NEW i \in DOMAIN Rest.queue, NEW j \in DOMAIN Rest.queue,
                 i < j, Rest.queue[j].n # 0
          PROVE  Rest.queue[i].n < Rest.queue[j].n
      <4>1. /\ i + 1 \in DOMAIN chan.queue /\ j + 1 \in DOMAIN chan.queue
            /\ i + 1 < j + 1
            /\ Rest.queue[i] = chan.queue[i + 1] /\ Rest.queue[j] = chan.queue[j + 1]
        BY <2>2, <2>3, <3>1
      <4> QED
        BY <3>1, <4>1 DEF InOrder
    <3> QED
      BY <2>2, <3>1 DEF InOrder
  <2>5. \A i \in DOMAIN Rest.queue : Rest.queue[i].n # 0 => e.n < Rest.queue[i].n
    BY <2>2, <2>3 DEF InOrder
  <2> QED
    BY <2>2, <2>4, <2>5 DEF Events
<1> QED
  BY <1>2, <1>3

\* So has a burst: whatever is left is newer, and in order.
LEMMA BurstOrder ==
  ASSUME chan \in Channel, chan.pending = {}, InOrder(chan),
         NEW k \in 1 .. Len(chan.queue), Burst(k),
         NEW c, c = [queue |-> AfterBurst(k), pending |-> PutAside(k), draining |-> TRUE]
  PROVE  /\ InOrder(c)
         /\ \A i \in 1 .. k, x \in Events(c) : x.n # 0 => chan.queue[i].n < x.n
         /\ \A x \in Events(chan) : x \in Events(c) \/ \E i \in 1 .. k : x = chan.queue[i]
<1> DEFINE q == chan.queue
<1>1. q \in Seq(Event) /\ Len(q) \in Nat /\ DOMAIN q = 1 .. Len(q)
  BY DEF Channel
<1>2. /\ DOMAIN AfterBurst(k) = 1 .. (IF k + 2 <= Len(q) THEN Len(q) - k - 1 ELSE 0)
      /\ \A i \in DOMAIN AfterBurst(k) :
           AfterBurst(k)[i] = q[i + k + 1] /\ i + k + 1 \in 1 .. Len(q)
  <2>1. AfterBurst(k) \in Seq(Event)
    BY <1>1 DEF AfterBurst
  <2>2. DOMAIN AfterBurst(k) = 1 .. (IF k + 2 <= Len(q) THEN Len(q) - k - 1 ELSE 0)
    BY <1>1, <2>1 DEF AfterBurst
  <2>3. \A i \in DOMAIN AfterBurst(k) :
           AfterBurst(k)[i] = q[i + k + 1] /\ i + k + 1 \in 1 .. Len(q)
    BY <1>1, <2>2 DEF AfterBurst
  <2> QED
    BY <2>2, <2>3
<1>3. c.queue = AfterBurst(k) /\ c.pending = PutAside(k)
  OBVIOUS
<1>4. \A x \in PutAside(k) : k + 1 \in 1 .. Len(q) /\ x = q[k + 1]
  BY <1>1 DEF PutAside
<1>5. \A i, j \in 1 .. Len(q) : i < j /\ q[j].n # 0 => q[i].n < q[j].n
  BY <1>1 DEF InOrder
<1>6. InOrder(c)
  <2>1. ASSUME NEW i \in DOMAIN c.queue, NEW j \in DOMAIN c.queue, i < j, c.queue[j].n # 0
        PROVE  c.queue[i].n < c.queue[j].n
    <3>1. /\ i + k + 1 \in 1 .. Len(q) /\ j + k + 1 \in 1 .. Len(q)
          /\ i + k + 1 < j + k + 1
          /\ c.queue[i] = q[i + k + 1] /\ c.queue[j] = q[j + k + 1]
      BY <1>1, <1>2, <1>3, <2>1
    <3> QED
      BY <1>5, <2>1, <3>1
  <2>2. ASSUME NEW x \in c.pending, NEW j \in DOMAIN c.queue, c.queue[j].n # 0
        PROVE  x.n < c.queue[j].n
    <3>1. /\ j + k + 1 \in 1 .. Len(q) /\ k + 1 < j + k + 1 /\ c.queue[j] = q[j + k + 1]
      BY <1>1, <1>2, <1>3
    <3>2. k + 1 \in 1 .. Len(q) /\ x = q[k + 1]
      BY <1>3, <1>4
    <3> QED
      BY <1>5, <2>2, <3>1, <3>2
  <2> QED
    BY <2>1, <2>2 DEF InOrder
<1>7. ASSUME NEW x \in Events(c)
      PROVE  \E j \in 1 .. Len(q) : k < j /\ x = q[j]
  <2>1. CASE x \in PutAside(k)
    BY <1>4, <2>1
  <2>2. CASE \E i \in DOMAIN AfterBurst(k) : x = AfterBurst(k)[i]
    <3>1. PICK i \in DOMAIN AfterBurst(k) : x = AfterBurst(k)[i]
      BY <2>2
    <3>2. i + k + 1 \in 1 .. Len(q) /\ k < i + k + 1 /\ x = q[i + k + 1]
      BY <1>1, <1>2, <3>1
    <3> QED
      BY <3>2
  <2> QED
    BY <1>3, <2>1, <2>2 DEF Events
<1>8. \A i \in 1 .. k, x \in Events(c) : x.n # 0 => chan.queue[i].n < x.n
  <2> TAKE i \in 1 .. k, x \in Events(c)
  <2>1. PICK j \in 1 .. Len(q) : k < j /\ x = q[j]
    BY <1>7
  <2>2. i \in 1 .. Len(q) /\ i < j
    BY <1>1, <2>1
  <2> QED
    BY <1>5, <2>1, <2>2
<1>9. ASSUME NEW i \in 1 .. Len(q) PROVE q[i] \in Events(c) \/ \E j \in 1 .. k : q[i] = q[j]
  <2>1. CASE i <= k
    BY <1>1, <2>1
  <2>2. CASE i = k + 1
    BY <1>1, <1>3, <2>2 DEF Events, PutAside
  <2>3. CASE i > k + 1
    <3>1. i - k - 1 \in DOMAIN AfterBurst(k) /\ AfterBurst(k)[i - k - 1] = q[i]
      BY <1>1, <1>2, <2>3
    <3> QED
      BY <1>3, <3>1 DEF Events
  <2> QED
    BY <1>1, <2>1, <2>2, <2>3
<1> QED
  BY <1>1, <1>6, <1>8, <1>9 DEF Events

\* Handling an event leaves the rest of the channel and a follow-up at most.
LEMMA HandledRest ==
  ASSUME TypeOK, ChannelOK, InOrder(chan), NEW e \in Oldest, Handles(e)
  PROVE  /\ InOrder(chan')
         /\ Events(Rest) \subseteq Events(chan') /\ Events(chan') \subseteq Events(Rest) \cup {FollowUp}
<1>1. /\ chan \in Channel /\ \A x, y \in chan.pending : x = y
      /\ Rest \in Channel
  BY TypeParts, TakenLemma DEF ChannelOK
<1>2. InOrder(Rest)
  BY <1>1, RestOrder
<1> DEFINE d == [Rest EXCEPT !.queue = Append(@, FollowUp)]
<1>3. chan' = Rest \/ chan' = d
  BY DEF Handles, DoRender, DoDispatch, Refused, Refuse, GiveState, Switches, SwitchTo, GiveAgain,
         Uploads, Upload, UploadFails, DoReload
<1>4. InOrder(d) /\ Events(d) = Events(Rest) \cup {FollowUp}
  BY <1>1, <1>2, AppendOrder, AppendLemma, FollowUpLemma
<1> HIDE DEF d
<1> QED
  BY <1>2, <1>3, <1>4

\* A handler settles the event it was given and no other.
LEMMA HandledFate ==
  ASSUME TypeOK, ChannelOK, NEW e \in Oldest, Handles(e), e.is.what = "render" => DoRender(e.n)
  PROVE  IF e.n = 0 THEN fate' = fate
         ELSE /\ e.n \in Num
              /\ fate' = [fate EXCEPT ![e.n] = "handled"] \/ fate' = [fate EXCEPT ![e.n] = "refused"]
<1>1. e.n = 0 => e.is.what = "render"
  BY TakenLemma DEF ChannelOK, FollowUp
<1>2. CASE e.n = 0
  BY <1>1, <1>2 DEF DoRender
<1>3. CASE e.n # 0
  BY <1>3, TakenLemma
     DEF Handles, DoRender, DoDispatch, Refused, Refuse, GiveState, Switches, SwitchTo, GiveAgain,
         Uploads, Upload, UploadFails, DoReload, Becomes
<1> QED
  BY <1>2, <1>3

\* The events with the numbers in S leave the channel, those in front.
Takes(S) ==
  /\ S \subseteq Numbers(chan) /\ Numbers(chan') = Numbers(chan) \ S
  /\ \A x \in S, y \in Numbers(chan') : x < y
  /\ \A n \in Num : IF n \in S THEN fate'[n] \in {"handled", "coalesced", "refused"}
                    ELSE fate'[n] = fate[n]

\* Then the rest still waits, in turn.
LEMMA TakesLemma ==
  ASSUME TypeOK, NoEventVanishes, InTurn, NEW S, Takes(S)
  PROVE  NoEventVanishes' /\ InTurn'
<1>1. {n \in Num : fate[n] = "waiting"} = Numbers(chan)
  BY WaitingLemma
<1>2. \A n \in Num : fate'[n] = "waiting" <=> n \in Numbers(chan')
  BY <1>1 DEF Takes
<1>3. NoEventVanishes'
  BY <1>1, <1>2, WaitingLemma DEF Takes
<1>4. ASSUME NEW m \in Num, NEW n \in Num, m < n
      PROVE  /\ fate'[n] # "unsent" => fate'[m] # "unsent"
             /\ fate'[m] = "waiting" => fate'[n] \in {"unsent", "waiting", "dropped"}
  <2>1. \A x \in Num : fate'[x] = "unsent" <=> fate[x] = "unsent"
    BY <1>1 DEF Takes
  <2>2. ASSUME fate'[m] = "waiting"
        PROVE  fate'[n] \in {"unsent", "waiting", "dropped"}
    <3>1. m \in Numbers(chan') /\ m \in Numbers(chan)
      BY <1>2, <2>2 DEF Takes
    <3>2. n \notin S
      BY <1>4, <3>1 DEF Takes, Num
    <3> QED
      BY <1>1, <1>4, <3>1, <3>2 DEF Takes, InTurn
  <2> QED
    BY <1>4, <2>1, <2>2 DEF InTurn
<1> QED
  BY <1>3, <1>4 DEF InTurn

\* An event of the channel that is not without a number waits.
LEMMA InChannel ==
  ASSUME ChannelOK, NoEventVanishes, NEW e \in Events(chan), e.n # 0
  PROVE  e.n \in Num /\ fate[e.n] = "waiting" /\ e.n \in Numbers(chan)
BY WaitingLemma DEF Numbers

\* Handling the oldest event takes it.
LEMMA HandleTakes ==
  ASSUME TypeOK, ChannelOK, NoEventVanishes, InOrder(chan), NEW e \in Oldest, Handles(e),
         e.is.what = "render" => DoRender(e.n)
  PROVE  Takes({e.n} \ {0})
<1>1. /\ chan \in Channel /\ \A x, y \in chan.pending : x = y
      /\ e \in Events(chan)
      /\ Events(Rest) \subseteq Events(chan) /\ Events(chan) \subseteq Events(Rest) \cup {e}
  BY TypeParts, TakenLemma DEF ChannelOK
<1>2. \A x \in Events(Rest) : x.n # 0 => e.n < x.n
  BY <1>1, RestOrder
<1>3. Numbers(chan') = Numbers(Rest)
  BY HandledRest, FollowUpLemma DEF Numbers
<1>4. e.n \in 0 .. MaxEvents
  BY TakenLemma, KindLemma
<1>5. Numbers(Rest) = Numbers(chan) \ ({e.n} \ {0})
  BY <1>1, <1>2, <1>4 DEF Numbers
<1>6. \A x \in {e.n} \ {0}, y \in Numbers(Rest) : x < y
  BY <1>2 DEF Numbers
<1>7. {e.n} \ {0} \subseteq Numbers(chan)
  BY <1>1 DEF Numbers
<1>8. \A n \in Num : IF n \in {e.n} \ {0} THEN fate'[n] \in {"handled", "coalesced", "refused"}
                    ELSE fate'[n] = fate[n]
  BY HandledFate DEF TypeOK
<1> QED
  BY <1>3, <1>5, <1>6, <1>7, <1>8 DEF Takes

\* The burst of mouse moves takes its k.
LEMMA BurstTakes ==
  ASSUME TypeOK, ChannelOK, FateOK, chan.pending = {}, NEW k \in 1 .. Len(chan.queue), Burst(k),
         chan' = [queue |-> AfterBurst(k), pending |-> PutAside(k), draining |-> TRUE],
         fate' = Coalesced(k, k)
  PROVE  /\ Takes({chan.queue[i].n : i \in 1 .. k}) /\ InOrder(chan')
         /\ Events(chan') \subseteq Events(chan)
         /\ \A i \in 1 .. k : /\ i \in DOMAIN chan.queue /\ chan.queue[i] \in Events(chan)
                              /\ chan.queue[i].n \in Num /\ Move(chan.queue[i])
<1> DEFINE q == chan.queue
           S == {q[i].n : i \in 1 .. k}
<1>1. chan \in Channel /\ q \in Seq(Event) /\ Len(q) \in Nat /\ DOMAIN q = 1 .. Len(q)
  BY TypeParts DEF Channel
<1>2. \A i \in 1 .. k : i \in DOMAIN q /\ q[i] \in Events(chan) /\ Move(q[i])
  BY <1>1 DEF Burst, Events
<1>3. \A i \in 1 .. k : q[i].n # 0 /\ q[i].n \in Num /\ q[i].n \in Numbers(chan)
  <2>1. \A i \in 1 .. k : q[i].n # 0
    BY <1>2 DEF ChannelOK, Move, FollowUp
  <2> QED
    BY <1>2, <2>1, InChannel DEF FateOK
<1>4. /\ InOrder(chan')
      /\ \A i \in 1 .. k, x \in Events(chan') : x.n # 0 => q[i].n < x.n
      /\ \A x \in Events(chan) : x \in Events(chan') \/ \E i \in 1 .. k : x = q[i]
      /\ Events(chan') \subseteq Events(chan)
  BY <1>1, BurstOrder, BurstLemma DEF FateOK
<1>5. \A x \in S, y \in Numbers(chan') : x < y
  <2> TAKE x \in S, y \in Numbers(chan')
  <2>1. PICK i \in 1 .. k : x = q[i].n
    OBVIOUS
  <2>2. PICK e \in Events(chan') : y = e.n /\ e.n # 0
    BY DEF Numbers
  <2> QED
    BY <1>4, <2>1, <2>2
<1>6. S \subseteq Num /\ S \subseteq Numbers(chan) /\ Numbers(chan') \subseteq Numbers(chan)
  BY <1>3, <1>4 DEF Numbers
<1>7. Numbers(chan) \ S \subseteq Numbers(chan')
  <2> SUFFICES ASSUME NEW y \in Numbers(chan), y \notin S PROVE y \in Numbers(chan')
    OBVIOUS
  <2>1. PICK e \in Events(chan) : y = e.n /\ e.n # 0
    BY DEF Numbers
  <2>2. e \in Events(chan')
    BY <1>4, <2>1
  <2> QED
    BY <2>1, <2>2 DEF Numbers
<1>8. \A y \in Numbers(chan') : y \notin S
  <2> HIDE DEF S
  <2> SUFFICES ASSUME NEW y \in S, y \in Numbers(chan') PROVE FALSE
    OBVIOUS
  <2>1. y < y
    BY <1>5
  <2>2. y \in Nat
    BY <1>6 DEF Num
  <2> QED
    BY <2>1, <2>2
<1>9. \A n \in Num : IF n \in S THEN fate'[n] \in {"handled", "coalesced", "refused"}
                    ELSE fate'[n] = fate[n]
  BY <1>1 DEF Coalesced
<1>10. Takes(S)
  BY <1>5, <1>6, <1>7, <1>8, <1>9 DEF Takes
<1> QED
  BY <1>2, <1>3, <1>4, <1>10

\* A number that is given next is newer than all before.
LEMMA NextNumberLemma ==
  ASSUME TypeOK, ChannelOK, FateOK, NEW n \in Num, NextNumber(n)
  PROVE  /\ \A x \in Events(chan) : x.n # 0 => x.n < n
         /\ n \notin Numbers(chan)
<1>1. ASSUME NEW x \in Num, fate[x] # "unsent" PROVE x < n
  <2>1. x # n
    BY <1>1 DEF NextNumber
  <2>2. ~(n < x)
    BY <1>1 DEF NextNumber, FateOK, InTurn
  <2> QED
    BY <2>1, <2>2 DEF Num
<1>2. ASSUME NEW x \in Events(chan), x.n # 0 PROVE x.n < n
  BY <1>1, <1>2, InChannel DEF FateOK
<1>3. n \notin Numbers(chan)
  BY WaitingLemma DEF FateOK, NextNumber
<1> QED
  BY <1>2, <1>3

\* Sending an event keeps the queue in order.
LEMMA EnqueueFate ==
  ASSUME TypeOK, ChannelOK, FateOK, NEW n \in Num, NEW k \in Kinds, Enqueue(n, k)
  PROVE  FateOK'
<1> DEFINE e == [n |-> n, is |-> k]
           d == [chan EXCEPT !.queue = Append(@, e)]
<1>1. e \in Event /\ e.n = n /\ e.is = k /\ chan \in Channel /\ n \in Nat /\ n # 0
  BY MaxSlots, TypeParts DEF Event, Num
<1>2. /\ \A x \in Events(chan) : x.n # 0 => x.n < n
      /\ n \notin Numbers(chan) /\ fate[n] = "unsent"
      /\ \A m \in 1 .. n - 1 : fate[m] # "unsent"
  BY NextNumberLemma DEF Enqueue, NextNumber
<1>3. \A x \in Events(chan) : x.n < n
  BY <1>1, <1>2 DEF Num
<1>4. Events(d) = Events(chan) \cup {e} /\ InOrder(d)
  BY <1>1, <1>3, AppendLemma, AppendOrder DEF FateOK
<1> HIDE DEF d
<1>5. \/ chan' = d /\ fate' = [fate EXCEPT ![n] = "waiting"]
      \/ chan' = chan /\ fate' = [fate EXCEPT ![n] = "dropped"]
  BY DEF Enqueue, d
<1>6. InOrder(chan')
  BY <1>4, <1>5 DEF FateOK
<1>7. MovesKnown'
  BY <1>1, <1>4, <1>5 DEF Enqueue, FateOK, MovesKnown, Move
<1>8. fate \in [Num -> Fates] /\ {m \in Num : fate[m] = "waiting"} = Numbers(chan)
  BY WaitingLemma DEF TypeOK, FateOK
<1>9. NoEventVanishes'
  <2>1. CASE chan' = d /\ fate' = [fate EXCEPT ![n] = "waiting"]
    <3>1. Numbers(chan') = Numbers(chan) \cup {n}
      BY <1>1, <1>4, <2>1 DEF Numbers
    <3> QED
      BY <1>8, <2>1, <3>1, WaitingLemma
  <2>2. CASE chan' = chan /\ fate' = [fate EXCEPT ![n] = "dropped"]
    BY <1>2, <1>8, <2>2, WaitingLemma
  <2> QED
    BY <1>5, <2>1, <2>2
<1>10. InTurn'
  <2>1. fate'[n] \in {"waiting", "dropped"} /\ \A m \in Num : m # n => fate'[m] = fate[m]
    BY <1>5, <1>8
  <2>2. ASSUME NEW m \in Num, m < n PROVE fate[m] # "unsent"
    BY <1>2, <2>2 DEF Num
  <2>3. ASSUME NEW m \in Num, n < m PROVE fate[m] = "unsent"
    BY <1>2, <2>3 DEF FateOK, InTurn
  <2> QED
    BY <2>1, <2>2, <2>3 DEF FateOK, InTurn
<1> QED
  BY <1>6, <1>7, <1>9, <1>10 DEF FateOK

\* FateOK is preserved.
LEMMA FateStep == Inv /\ FateOK /\ [Next]_vars => FateOK'
<1> SUFFICES ASSUME Inv, FateOK, [Next]_vars PROVE FateOK'
  OBVIOUS
<1> USE DEF Inv
<1>1. CASE UNCHANGED <<chan, fate, moves>>
  BY <1>1 DEF FateOK, NoEventVanishes, InTurn, MovesKnown, Events
<1>2. CASE Ends /\ UNCHANGED moves
  <2>1. fate \in [Num -> Fates]
    BY DEF TypeOK
  <2>2. chan' = NoEvents /\ Events(chan') = {}
    BY <1>2, IdleType DEF Ends
  <2>3. \A n \in Num : fate'[n] = IF fate[n] = "waiting" THEN "lost" ELSE fate[n]
    BY <1>2 DEF Ends
  <2>4. Numbers(chan') = {}
    BY <2>2 DEF Numbers
  <2>5. NoEventVanishes'
    BY <2>3, <2>4, WaitingLemma
  <2>6. InOrder(chan')
    BY <2>2 DEF InOrder, NoEvents
  <2>7. InTurn'
    BY <2>3 DEF FateOK, InTurn
  <2> QED
    BY <2>2, <2>5, <2>6, <2>7 DEF FateOK, MovesKnown
<1>3. ASSUME NEW n \in Num, NEW k \in Kinds, Enqueue(n, k)
      PROVE  FateOK'
  BY <1>3, EnqueueFate
<1>4. CASE HandleEvent
  <2>1. PICK e \in Oldest : Handles(e) /\ (e.is.what = "render" => DoRender(e.n))
    BY <1>4, HandlesLemma
  <2>2. NoEventVanishes' /\ InTurn'
    BY <2>1, HandleTakes, TakesLemma DEF FateOK
  <2>3. InOrder(chan') /\ Events(chan') \subseteq Events(chan) \cup {FollowUp}
    BY <2>1, HandledRest, HandledChannel DEF FateOK
  <2>4. ~Move(FollowUp) /\ moves' = moves
    BY <1>4, HandlesLemma DEF Move, FollowUp, Unmoved
  <2> QED
    BY <2>2, <2>3, <2>4 DEF FateOK, MovesKnown
<1>5. CASE HandleMoves
  <2>1. PICK k \in 1 .. Len(chan.queue) :
          /\ Burst(k) /\ fate' = Coalesced(k, k)
          /\ chan' = [queue |-> AfterBurst(k), pending |-> PutAside(k), draining |-> TRUE]
    BY <1>5 DEF HandleMoves
  <2>2. chan.pending = {} /\ moves' = moves
    BY <1>5 DEF HandleMoves
  <2>3. /\ Takes({chan.queue[i].n : i \in 1 .. k}) /\ InOrder(chan')
        /\ Events(chan') \subseteq Events(chan)
    BY <2>1, <2>2, BurstTakes
  <2>4. NoEventVanishes' /\ InTurn'
    BY <2>3, TakesLemma DEF FateOK
  <2> QED
    BY <2>2, <2>3, <2>4 DEF FateOK, MovesKnown
<1>6. CASE Drained
  <2>1. chan'.pending = chan.pending /\ chan'.queue = chan.queue /\ Events(chan') = Events(chan)
    BY <1>6, DrainedEvents DEF Drained, TypeOK
  <2>2. UNCHANGED <<fate, moves>>
    BY <1>6 DEF Drained, history
  <2> QED
    BY <2>1, <2>2 DEF FateOK, NoEventVanishes, InOrder, InTurn, MovesKnown
<1> QED
  BY <1>1, <1>2, <1>3, <1>4, <1>5, <1>6
     DEF Next, RenderLoop, MessageLoop, Start, RunnerStarts, FatalRetry, FatalQuit, ServerFails, Crash, SendEvent,
         HandleSetScenes, PersistChecksum, BeginPass, Rendered, Settle, Wake, IntervalOver, vars,
         history

\* CoalescingKeepsLast is preserved: what lies between two moves of a burst is
\* of the burst too, or was dropped.
LEMMA CoalescingStep ==
  Inv /\ FateOK /\ CoalescingKeepsLast /\ [Next]_vars => CoalescingKeepsLast'
<1> SUFFICES ASSUME Inv, FateOK, CoalescingKeepsLast, [Next]_vars PROVE CoalescingKeepsLast'
  OBVIOUS
<1> USE DEF Inv
<1> DEFINE Stays(n) == fate'[n] = "coalesced" => fate[n] = "coalesced"
           Keeps == \A n \in Num : /\ fate[n] = "handled" => fate'[n] = "handled"
                                   /\ fate[n] = "dropped" => fate'[n] = "dropped"
<1>t. fate \in [Num -> Fates] /\ moves \subseteq Num /\ Num \subseteq Nat
  BY DEF TypeOK, Num
<1>1. ASSUME Keeps, moves \subseteq moves', NEW n \in Num, fate[n] = "coalesced"
      PROVE  /\ n \in moves'
             /\ \E m \in moves' : /\ m > n /\ fate'[m] = "handled"
                                  /\ \A i \in n .. m : i \in moves' \/ fate'[i] = "dropped"
  <2>1. n \in moves
    BY <1>1 DEF CoalescingKeepsLast
  <2>2. PICK m \in moves : /\ m > n /\ fate[m] = "handled"
                           /\ \A i \in n .. m : i \in moves \/ fate[i] = "dropped"
    BY <1>1 DEF CoalescingKeepsLast
  <2>3. m \in Num
    BY <1>t
  <2>4. \A i \in n .. m : i \in Num
    BY <2>3 DEF Num
  <2>5. \A i \in n .. m : i \in moves' \/ fate'[i] = "dropped"
    BY <1>1, <2>2, <2>4
  <2> QED
    BY <1>1, <2>1, <2>2, <2>3, <2>5
<1>2. ASSUME Keeps, moves \subseteq moves', \A n \in Num : Stays(n) PROVE CoalescingKeepsLast'
  BY <1>1, <1>2 DEF CoalescingKeepsLast
<1>3. CASE UNCHANGED <<fate, moves>>
  BY <1>2, <1>3
<1>4. CASE Ends /\ UNCHANGED moves
  BY <1>2, <1>4 DEF Ends
<1>5. ASSUME NEW n \in Num, NEW k \in Kinds, Enqueue(n, k)
      PROVE  CoalescingKeepsLast'
  <2>1. fate[n] = "unsent" /\ moves \subseteq moves'
    BY <1>5 DEF Enqueue, NextNumber
  <2>2. fate' = [fate EXCEPT ![n] = "waiting"] \/ fate' = [fate EXCEPT ![n] = "dropped"]
    BY <1>5 DEF Enqueue
  <2> QED
    BY <1>2, <1>t, <2>1, <2>2
<1>6. CASE HandleEvent
  <2>1. PICK e \in Oldest : Handles(e) /\ (e.is.what = "render" => DoRender(e.n))
    BY <1>6, HandlesLemma
  <2>2. moves' = moves /\ e \in Events(chan)
    BY <1>6, <2>1, HandlesLemma, TakenLemma DEF Unmoved
  <2>3. CASE e.n = 0
    BY <1>2, <2>1, <2>2, <2>3, HandledFate
  <2>4. CASE e.n # 0
    <3>1. e.n \in Num /\ fate[e.n] = "waiting"
      BY <2>2, <2>4, InChannel DEF FateOK
    <3>2. fate' = [fate EXCEPT ![e.n] = "handled"] \/ fate' = [fate EXCEPT ![e.n] = "refused"]
      BY <2>1, <2>4, HandledFate
    <3> QED
      BY <1>2, <1>t, <2>2, <3>1, <3>2
  <2> QED
    BY <2>3, <2>4
<1>7. CASE HandleMoves
  <2> DEFINE q == chan.queue
  <2>1. PICK k \in 1 .. Len(q) :
          /\ Burst(k) /\ fate' = Coalesced(k, k)
          /\ chan' = [queue |-> AfterBurst(k), pending |-> PutAside(k), draining |-> TRUE]
    BY <1>7 DEF HandleMoves
  <2>2. chan.pending = {} /\ moves' = moves
    BY <1>7 DEF HandleMoves
  <2> DEFINE h == q[k].n
  <2>3. q \in Seq(Event) /\ Len(q) \in Nat /\ DOMAIN q = 1 .. Len(q)
    BY TypeParts DEF Channel
  <2>4. \A i \in 1 .. k : /\ i \in DOMAIN q /\ q[i] \in Events(chan) /\ q[i].n \in Num
                          /\ q[i].n # 0 /\ fate[q[i].n] = "waiting" /\ q[i].n \in moves
    <3> TAKE i \in 1 .. k
    <3>1. i \in DOMAIN q /\ q[i] \in Events(chan) /\ q[i].n \in Num /\ Move(q[i])
      BY <2>1, <2>2, BurstTakes
    <3>2. q[i].n # 0
      BY <3>1 DEF Num
    <3> QED
      BY <3>1, <3>2, InChannel DEF FateOK, MovesKnown
  <2>5. \A n \in Num : \/ n = h /\ fate'[n] = "handled"
                       \/ n # h /\ fate'[n] = "coalesced" /\ \E i \in 1 .. k : q[i].n = n
                       \/ n # h /\ fate'[n] = fate[n]
    BY <2>1 DEF Coalesced
  <2>6. k \in 1 .. k /\ h \in Num /\ fate[h] = "waiting" /\ h \in moves
    BY <2>3, <2>4
  <2>7. Keeps
    BY <2>4, <2>5, <2>6
  <2> HIDE DEF Keeps
  <2>8. ASSUME NEW n \in Num, fate'[n] = "coalesced", fate[n] # "coalesced"
        PROVE  /\ n \in moves /\ h > n /\ fate'[h] = "handled"
               /\ \A i \in n .. h : i \in moves \/ fate'[i] = "dropped"
    <3>1. PICK j \in 1 .. k : q[j].n = n /\ n # h
      BY <2>5, <2>8
    <3>2. n \in moves /\ fate[n] = "waiting"
      BY <2>4, <3>1
    <3>3. j < k
      BY <2>3, <3>1
    <3>4. n < h
      BY <2>4, <2>6, <3>1, <3>3 DEF FateOK, InOrder
    <3>5. ASSUME NEW i \in n .. h PROVE i \in moves \/ fate'[i] = "dropped"
      <4>1. i \in Num
        BY <2>6 DEF Num
      <4>2. fate[i] \in {"waiting", "dropped"}
        <5>1. CASE i = n
          BY <3>2, <5>1
        <5>2. CASE i = h
          BY <2>6, <5>2
        <5>3. CASE i # n /\ i # h
          <6>0. n \in Int /\ i \in Int /\ h \in Int /\ n <= i /\ i <= h
            BY <2>6, <4>1 DEF Num
          <6>1. n < i /\ i < h
            <7> HIDE DEF h
            <7> QED
              BY <5>3, <6>0
          <6> QED
            BY <2>6, <3>2, <4>1, <6>1 DEF FateOK, InTurn
        <5> QED
          BY <5>1, <5>2, <5>3
      <4>3. CASE fate[i] = "dropped"
        BY <2>7, <4>1, <4>3 DEF Keeps
      <4>4. CASE fate[i] = "waiting"
        <5>1. i \in Numbers(chan)
          BY <4>1, <4>4, WaitingLemma DEF FateOK
        <5>2. PICK l \in DOMAIN q : q[l].n = i
          BY <2>2, <5>1 DEF Numbers, Events
        <5>3. i <= h /\ i # 0 /\ h \in Nat /\ i \in Nat
          BY <1>t, <2>6, <4>1 DEF Num
        <5>4. ~(k < l)
          <6>1. CASE k < l
            <7>1. h < i
              BY <2>3, <5>2, <5>3, <6>1 DEF FateOK, InOrder
            <7> QED
              BY <5>3, <7>1
          <6> QED
            BY <6>1
        <5>5. l \in 1 .. k
          BY <2>3, <5>4
        <5> QED
          BY <2>4, <5>2, <5>5
      <4> QED
        BY <4>2, <4>3, <4>4
    <3> QED
      BY <2>5, <2>6, <3>2, <3>4, <3>5
  <2>9. ASSUME NEW n \in Num, fate'[n] = "coalesced"
        PROVE  /\ n \in moves'
               /\ \E m \in moves' : /\ m > n /\ fate'[m] = "handled"
                                    /\ \A i \in n .. m : i \in moves' \/ fate'[i] = "dropped"
    <3>1. CASE fate[n] = "coalesced"
      BY <1>1, <2>2, <2>7, <3>1
    <3>2. CASE fate[n] # "coalesced"
      <4>1. /\ n \in moves /\ h > n /\ fate'[h] = "handled"
            /\ \A i \in n .. h : i \in moves \/ fate'[i] = "dropped"
        BY <2>8, <2>9, <3>2
      <4> QED
        BY <2>2, <2>6, <4>1
    <3> QED
      BY <3>1, <3>2
  <2> QED
    BY <2>9 DEF CoalescingKeepsLast
<1> QED
  BY <1>3, <1>4, <1>5, <1>6, <1>7
     DEF Next, RenderLoop, MessageLoop, Start, RunnerStarts, FatalRetry, FatalQuit, ServerFails, Crash, SendEvent,
         HandleSetScenes, PersistChecksum, BeginPass, Rendered, Settle, Drained, Wake,
         IntervalOver, vars, history

-----------------------------------------------------------------------------
(* KeptOK: the scene to come back to.                                      *)

\* The current scene is one that exists: startRenderLoop does not look for
\* another.
CurrentExists == Running => Exported(loop.cur, insts.version)

\* What the process takes scene.json to hold, and the scenes whose state it kept
\* within the last second.
FileKnown == "scene" \in spoiled \/ known.scene \in {NoScene, disk.scene}
Filed ==
  (loop.cur \in insts.kept /\ loop.cur \notin SystemScenes) =>
    disk.scene = loop.cur \/ "scene" \in spoiled

\* The current scene counts as kept only if it is the one on file, and an
\* error scene never does.
KeptOK ==
  /\ loop.held.error => ~loop.held.kept
  /\ CurrentExists /\ FileKnown /\ Filed /\ RememberedIsCurrent

\* Keeping the current scene puts it on file, or spoils that.
LEMMA KeptNow ==
  ASSUME TypeOK, FileKnown, NEW s \in Scene, NEW v \in 0 .. MaxEvents, NEW k \in KnownSet,
         NEW right \in SUBSET Kept, NEW stale \in SUBSET Kept, Keep(s, v, k, right, stale),
         k.scene = known.scene
  PROVE  /\ FileKnown'
         /\ s \in SystemScenes \/ disk'.scene = s \/ "scene" \in spoiled'
         /\ \/ "scene" \in stale /\ "scene" \in spoiled'
            \/ disk'.scene = disk.scene /\ "scene" \notin spoiled
            \/ "scene" \in spoiled'
            \/ "scene" \notin stale
<1>1. s # NoScene
  BY DEF Scene, SystemScenes, NoScene
<1>2. \/ "scene" \in spoiled'
      \/ /\ s \in SystemScenes \/ s = k.scene
         /\ disk'.scene = disk.scene /\ known'.scene = k.scene
         /\ "scene" \notin spoiled
      \/ /\ s \notin SystemScenes /\ disk'.scene = s /\ known'.scene = s
         /\ "scene" \notin stale /\ ("scene" \in spoiled => "scene" \in right)
  BY TypeParts, KeepLemma DEF CountsType
<1> QED
  BY <1>1, <1>2 DEF FileKnown

\* KeptOK is preserved: whatever makes another scene current keeps it at once,
\* or takes it out of the scenes that count as kept and asks for a render.
LEMMA KeptStep == Inv /\ KeptOK /\ [Next]_vars => KeptOK'
<1> SUFFICES ASSUME Inv, KeptOK, [Next]_vars PROVE KeptOK'
  OBVIOUS
<1> USE TypeParts DEF Inv
<1>a. known.crashes \in Nat /\ starts \in Nat /\ Booted.crashes \in Nat
      /\ Booted.scene = IF at = "off" THEN NoScene ELSE known.scene
  BY BootedLemma DEF KnownType, KnownSet, CountsType
<1>1. CASE /\ disk'.scene = disk.scene /\ ("scene" \in spoiled' <=> "scene" \in spoiled)
           /\ known'.scene \in {NoScene, known.scene}
           /\ loop'.held = NoInstance /\ insts'.kept = {}
           /\ at' \in {"off", "retry", "init"}
  BY <1>1 DEF KeptOK, CurrentExists, Running, FileKnown, Filed, RememberedIsCurrent, NoInstance
<1>2. CASE Start
  <2>1. known'.crashes \in Nat /\ starts + 1 \in Nat /\ GuardFile(known'.crashes, starts + 1, 0)
    BY <1>2, StartLemma DEF CountsType, KnownSet
  <2>2. disk'.scene = disk.scene /\ ("scene" \in spoiled' <=> "scene" \in spoiled)
    BY <2>1, GuardFileLemma DEF CountsType
  <2>3. insts'.kept = {} /\ loop'.held = NoInstance /\ known'.scene \in {NoScene, known.scene}
    BY <1>a, <1>2, StartLemma DEF Start, StoppedOK, NoScenes
  <2> QED
    BY <1>1, <1>2, <2>2, <2>3, StartLemma
<1>3. CASE FatalRetry
  <2>1. disk'.scene = disk.scene /\ ("scene" \in spoiled' <=> "scene" \in spoiled)
    BY <1>a, <1>3, ForgiveLemma DEF FatalRetry
  <2>2. known'.scene \in {NoScene, known.scene}
    BY <1>a, <1>3, BootedLemma DEF FatalRetry, KnownSet
  <2>3. insts'.kept = {} /\ loop'.held = NoInstance /\ at' = "retry"
    BY <1>3 DEF FatalRetry, StoppedOK, Running, NoScenes, Idle
  <2> QED
    BY <1>1, <2>1, <2>2, <2>3
<1>4. CASE FatalQuit
  <2>1. disk'.scene = disk.scene /\ ("scene" \in spoiled' <=> "scene" \in spoiled)
    BY <1>a, <1>4, GuardFileLemma DEF FatalQuit, CountsType
  <2> QED
    BY <1>1, <1>4, <2>1 DEF FatalQuit, Ends, Nothing, NoScenes, Idle
<1>5. CASE Crash
  BY <1>1, <1>5 DEF Crash, Ends, Nothing, NoScenes, Idle
<1>6. CASE RunnerStarts
  <2>1. loop'.held = NoInstance /\ insts'.kept = {} /\ at' = "top"
    <3>1. loop.held = NoInstance /\ insts.kept = {} /\ at' = "top"
      BY <1>6 DEF RunnerStarts, StoppedOK, Running, NoScenes
    <3>2. loop'.held = loop.held /\ insts'.kept = insts.kept
      BY <1>6 DEF RunnerStarts, LoopType, LoopSet, InstsType, InstsSet
    <3> QED
      BY <3>1, <3>2
  <2>2. CASE loop.first # NoScene
    <3>1. Exported(loop'.cur, insts'.version) /\ UNCHANGED <<known, disk, spoiled>>
      BY <1>6, <2>2 DEF RunnerStarts, LoopType, LoopSet, SystemScenes, Exported
    <3> QED
      BY <2>1, <3>1
         DEF KeptOK, CurrentExists, FileKnown, Filed, RememberedIsCurrent, NoInstance
  <2>3. CASE loop.first = NoScene
    <3>1. LookUp /\ loop'.cur = LookUpScene /\ insts'.version = LookUpVersion
      BY <1>6, <2>3 DEF RunnerStarts, LoopType, LoopSet, InstsType, InstsSet
    <3>2. /\ Exported(LookUpScene, LookUpVersion) /\ disk'.scene = disk.scene
          /\ known'.scene = IF disk.scene = NoScene THEN known.scene ELSE disk.scene
          /\ "scene" \in spoiled' <=> "scene" \in spoiled /\ LookUpScene # disk.scene
          /\ LookUpScene # NoScene
      BY <3>1, LookUpLemma DEF CountsType, NoScene
    <3> QED
      BY <2>1, <3>1, <3>2
         DEF KeptOK, CurrentExists, FileKnown, Filed, RememberedIsCurrent, NoInstance
  <2> QED
    BY <2>2, <2>3
<1>7. CASE /\ disk'.scene = disk.scene /\ ("scene" \in spoiled' <=> "scene" \in spoiled)
           /\ known'.scene = known.scene /\ loop'.cur = loop.cur
           /\ insts'.kept = insts.kept
           /\ insts'.version = insts.version \/ insts'.version # 0
           /\ Running
           /\ loop'.held.error => ~loop'.held.kept
           /\ \/ at' # "asleep"
              \/ at = "asleep" /\ (loop'.trigger \/ loop'.trigger = loop.trigger)
  BY <1>7 DEF KeptOK, CurrentExists, FileKnown, Filed, RememberedIsCurrent, Exported
<1>8. CASE ServerFails
  <2>1. disk'.scene = disk.scene /\ ("scene" \in spoiled' <=> "scene" \in spoiled)
    BY <1>a, <1>8, ForgiveLemma DEF ServerFails
  <2> QED
    BY <1>7, <1>8, <2>1 DEF ServerFails, Running, KnownType, KnownSet, KeptOK
<1>9. CASE BeginPass
  <2>1. disk'.scene = disk.scene /\ ("scene" \in spoiled' <=> "scene" \in spoiled)
    BY <1>9, PassLemma, GuardContextLemma
  <2>2. loop'.cur = loop.cur /\ known'.scene = known.scene
    BY <1>9, PassLemma, LoadedLemma DEF Begun, LoopType, LoopSet
  <2>3. insts'.kept = insts.kept /\ insts'.version = insts.version
    BY <1>9 DEF BeginPass, TakeInstance, InitInstance, InitFails, InstsType, InstsSet
  <2>4. loop'.held.error => ~loop'.held.kept
    <3>1. CASE TakeInstance
      BY <3>1 DEF TakeInstance, Begun, LiveScene, LoopType, LoopSet, KeptOK
    <3>2. CASE InitInstance
      BY <3>2 DEF InitInstance, Begun, LiveScene, LoopType, LoopSet
    <3>3. CASE InitFails
      BY <3>3 DEF InitFails, Begun, ErrorScene, LoopType, LoopSet
    <3> QED
      BY <1>9, <3>1, <3>2, <3>3 DEF BeginPass
  <2> QED
    BY <1>7, <1>9, <2>1, <2>2, <2>3, <2>4 DEF BeginPass, Running
<1>10. CASE Rendered
  <2>1. loop'.cur = loop.cur /\ loop'.held = loop.held /\ known'.scene = known.scene
    BY <1>10 DEF Rendered, LoopType, LoopSet, KnownType, KnownSet
  <2> QED
    BY <1>7, <1>10, <2>1, ClearLemma DEF Rendered, Running, KeptOK
<1>11. CASE Settle
  <2>1. /\ loop'.cur = loop.cur /\ loop'.held = loop.held /\ ~loop'.trigger
        /\ at = "settle" /\ at' = IF loop.trigger THEN "top" ELSE "asleep"
    BY <1>11 DEF Settle, LoopType, LoopSet
  <2>2. ~loop.trigger => loop.held.scene = loop.cur /\ (loop.held.live \/ loop.held.error)
    BY <2>1 DEF ShownOK
  <2>3. CASE HeldKept /\ UNCHANGED <<disk, insts, known, spoiled, faults>>
    <3>1. ~loop.trigger => loop.cur \in insts.kept
      BY <2>2, <2>3 DEF HeldKept, KeptOK
    <3> QED
      BY <2>1, <2>3, <3>1
         DEF KeptOK, CurrentExists, Running, FileKnown, Filed, RememberedIsCurrent
  <2>4. CASE KeepHeld
    <3> DEFINE s == loop.held.scene
    <3>1. /\ s \in Scene /\ HeldValue \in 0 .. MaxEvents /\ known \in KnownSet
          /\ HeldRight \in SUBSET Kept /\ HeldStale \in SUBSET Kept
          /\ Keep(s, HeldValue, known, HeldRight, HeldStale)
      BY <1>11, <2>4, SettleLemma DEF KnownType
    <3>2. /\ insts'.version = insts.version
          /\ insts'.kept \subseteq insts.kept \cup {s}
      BY <1>11, <2>4, SettleLemma
    <3>3. s # loop.cur => "scene" \in HeldStale
      BY DEF HeldStale
    <3>4. /\ FileKnown'
          /\ s \in SystemScenes \/ disk'.scene = s \/ "scene" \in spoiled'
          /\ "scene" \in HeldStale =>
               \/ "scene" \in spoiled'
               \/ disk'.scene = disk.scene /\ "scene" \notin spoiled
      <4> HIDE DEF s
      <4> QED
        BY <3>1, KeptNow DEF KeptOK
    <3>5. (loop.cur \notin SystemScenes /\ (loop.cur \in insts'.kept \/ ~loop.trigger)) =>
            disk'.scene = loop.cur \/ "scene" \in spoiled'
      <4>1. CASE s = loop.cur
        BY <3>4, <4>1
      <4>2. CASE s # loop.cur
        BY <2>2, <3>2, <3>3, <3>4, <4>2 DEF KeptOK, Filed
      <4> QED
        BY <4>1, <4>2
    <3> QED
      BY <2>1, <3>2, <3>4, <3>5 DEF KeptOK, CurrentExists, Running, Filed, RememberedIsCurrent
  <2> QED
    BY <1>11, <2>3, <2>4 DEF Settle
<1>12. CASE HandleEvent
  <2>1. PICK e \in Oldest : Handles(e) /\ (e.n \in Num \/ DoRender(e.n))
    BY <1>12, HandlesLemma
  <2>2. at' = at /\ at \in {"settle", "asleep"} /\ Running
    BY <1>12, HandlesLemma DEF Unmoved, Running
  <2>3. CASE DoRender(e.n) \/ DoDispatch(e.n)
    BY <1>7, <2>2, <2>3 DEF DoRender, DoDispatch, LoopType, LoopSet, KeptOK
  <2>4. CASE Refused(e.n)
    <3>1. loop'.cur = loop.cur /\ loop'.held = loop.held
          /\ (loop'.trigger \/ loop'.trigger = loop.trigger)
      BY <2>4 DEF Refused, LoopType, LoopSet
    <3>2. known'.scene = known.scene
      BY <2>4, LoadedLemma DEF Refused
    <3> QED
      BY <1>7, <2>2, <2>4, <3>1, <3>2 DEF Refused, Refuse, KeptOK
  <2>5. ASSUME NEW s \in Scene, NEW v \in 0 .. MaxEvents, NEW k \in KnownSet,
               NEW right \in SUBSET Kept, Keep(s, v, k, right, {}), k.scene = known.scene,
               loop'.cur = s, loop'.held = loop.held, Exported(s, insts'.version)
        PROVE  KeptOK'
    <3>1. {} \in SUBSET Kept
      OBVIOUS
    <3>2. FileKnown' /\ (s \in SystemScenes \/ disk'.scene = s \/ "scene" \in spoiled')
      BY <2>5, <3>1, KeptNow DEF KeptOK
    <3> QED
      BY <2>5, <3>2 DEF KeptOK, CurrentExists, Filed, RememberedIsCurrent
  <2>6. CASE (GiveState(e.n) \/ GiveAgain(e.n)) /\ ~DoRender(e.n)
    <3>1. /\ loop.cur \in Scene /\ e.n \in 0 .. MaxEvents /\ known \in KnownSet
          /\ {"saved", "scene"} \in SUBSET Kept
      BY <2>1, <2>6, MaxSlots DEF LoopType, LoopSet, KnownType, Kept
    <3>2. /\ Keep(loop.cur, e.n, known, {"saved", "scene"}, {})
          /\ loop'.cur = loop.cur /\ loop'.held = loop.held
          /\ insts'.version = insts.version
      BY <2>6 DEF GiveState, GiveAgain, Given, LoopType, LoopSet, InstsType, InstsSet
    <3>3. Exported(loop.cur, insts'.version)
      BY <2>2, <3>2 DEF KeptOK, CurrentExists
    <3> QED
      BY <2>5, <3>1, <3>2, <3>3
  <2>7. ASSUME NEW b \in BOOLEAN, e.is.scene \in Scene, SwitchTo(e.n, e.is.scene, b)
        PROVE  KeptOK'
    <3> DEFINE s == e.is.scene
               value == IF s \in insts.table THEN insts.state ELSE disk.saved
               k == IF s \in insts.table THEN known ELSE Loaded(s)
               right == IF value = want THEN {"saved", "scene"} ELSE {"scene"}
    <3>1. /\ value \in 0 .. MaxEvents /\ k \in KnownSet /\ k.scene = known.scene
      BY SwitchKnows, LoadedLemma DEF InstsType, DiskType, InstsSet, DiskSet
    <3>2. right \in SUBSET Kept /\ {"saved", "scene"} \in SUBSET Kept /\ s \in Scene
          /\ e.n \in 0 .. MaxEvents
      BY <2>7, TakenLemma, KindLemma DEF Kept
    <3>3. /\ Keep(s, e.n, k, {"saved", "scene"}, {}) \/ Keep(s, value, k, right, {})
          /\ loop'.cur = s /\ loop'.held = loop.held
          /\ Exported(s, insts'.version)
      BY <2>7 DEF SwitchTo, Given, LoopType, LoopSet, InstsType, InstsSet
    <3> HIDE DEF s, value, k, right
    <3> QED
      BY <2>5, <3>1, <3>2, <3>3
  <2>8. ASSUME NEW b \in BOOLEAN, Upload(e.n, b), ~DoRender(e.n) PROVE KeptOK'
    <3>1. /\ loop'.cur = "uploaded" /\ loop'.trigger
          /\ loop'.held = Orphaned({"uploaded"})
          /\ insts'.version = e.n /\ "uploaded" \notin insts'.kept
      BY <2>8 DEF Upload, LoopType, LoopSet, InstsType, InstsSet
    <3>2. e.n # 0
      BY <2>1, <2>8, MaxSlots
    <3>3. loop'.held.error => ~loop'.held.kept
      BY <3>1 DEF Orphaned, HeldOK, KeptOK, LoopType, LoopSet, Instance
    <3>4. disk'.scene = disk.scene /\ known'.scene = known.scene
          /\ ("scene" \in spoiled' <=> "scene" \in spoiled)
      BY <2>8 DEF Upload, Stored, DiskType, DiskSet, KnownType, KnownSet
    <3> QED
      BY <2>2, <3>1, <3>2, <3>3, <3>4
         DEF KeptOK, CurrentExists, FileKnown, Filed, RememberedIsCurrent, Exported
  <2>9. ASSUME NEW b \in BOOLEAN, UploadFails(e.n, b), ~DoRender(e.n) PROVE KeptOK'
    <3>1. /\ insts'.kept = insts.kept /\ insts'.version = e.n /\ loop' = loop
          /\ disk'.scene = disk.scene /\ known'.scene = known.scene
          /\ "scene" \in spoiled' <=> "scene" \in spoiled
      BY <2>9 DEF UploadFails, InstsType, InstsSet, DiskType, DiskSet, KnownType, KnownSet
    <3>2. e.n # 0
      BY <2>1, <2>9, MaxSlots
    <3> QED
      BY <1>7, <2>2, <3>1, <3>2 DEF KeptOK
  <2>10. CASE DoReload(e.n)
    <3>1. /\ loop'.cur = LookUpScene /\ loop'.trigger /\ loop'.held = Orphaned(Scene)
          /\ insts'.version = LookUpVersion /\ insts'.kept = {} /\ LookUp
      BY <2>10 DEF DoReload, LoopType, LoopSet, InstsType, InstsSet
    <3>2. /\ Exported(LookUpScene, LookUpVersion) /\ disk'.scene = disk.scene
          /\ known'.scene = IF disk.scene = NoScene THEN known.scene ELSE disk.scene
          /\ "scene" \in spoiled' <=> "scene" \in spoiled /\ LookUpScene # disk.scene
          /\ LookUpScene # NoScene
      BY <3>1, LookUpLemma DEF CountsType, NoScene
    <3>3. loop'.held.error => ~loop'.held.kept
      BY <3>1 DEF Orphaned, HeldOK, KeptOK, LoopType, LoopSet, Instance
    <3> QED
      BY <3>1, <3>2, <3>3 DEF KeptOK, CurrentExists, FileKnown, Filed, RememberedIsCurrent
  <2> QED
    BY <2>1, <2>3, <2>4, <2>6, <2>7, <2>8, <2>9, <2>10 DEF Handles, Switches, Uploads
<1>13. CASE PersistChecksum
  <2>1. disk'.scene = disk.scene /\ UNCHANGED <<at, known, loop, insts, spoiled>>
    BY <1>13 DEF PersistChecksum, DiskType, DiskSet
  <2> QED
    BY <2>1 DEF KeptOK, CurrentExists, Running, FileKnown, Filed, RememberedIsCurrent
<1>14. CASE /\ UNCHANGED <<loop, insts, known, disk, spoiled>>
            /\ at' = at \/ (at = "asleep" /\ at' = "top")
  BY <1>14 DEF KeptOK, CurrentExists, Running, FileKnown, Filed, RememberedIsCurrent
<1> QED
  BY <1>2, <1>3, <1>4, <1>5, <1>6, <1>8, <1>9, <1>10, <1>11, <1>12, <1>13, <1>14
     DEF Next, RenderLoop, MessageLoop, SendEvent, HandleSetScenes, Enqueue, HandleMoves,
         Drained, Wake, IntervalOver, vars

-----------------------------------------------------------------------------
(* The theorems.                                                           *)

\* The inductive invariant holds: with the parts below it the loops of the runner,
\* the files they keep and the senders preserve each other's share of it.
THEOREM InvHolds == Spec => []Inv
<1>1. Inv /\ [Next]_vars => Inv'
  BY TypeStep, ChannelStep, StoppedStep, HeldStep, ShownStep, DrawnStep, CountStep, SavedStep
     DEF Inv
<1> QED
  BY InitInv, <1>1, PTL DEF Spec

\* The variables keep their types, for every capacity and every number of events.
THEOREM TypeCorrect == Spec => []TypeOK
<1>1. Inv => TypeOK
  BY DEF Inv
<1> QED
  BY InvHolds, <1>1, PTL

\* A change the message loop has made is never left to the scene's interval:
\* triggerRender or a "render" still in the channel asks for its pass.
THEOREM ChangesAreDrawn == Spec => []NoLostRender
<1>1. Inv => NoLostRender
  BY DEF Inv
<1> QED
  BY InvHolds, <1>1, PTL

\* Asleep with nothing asked for, the render loop has drawn currentSceneId, and
\* through the instance of the scenes table.
THEOREM FrameShowsCurrent == Spec => []ShownIsCurrent
<1>1. Inv => ShownIsCurrent
  BY DEF Inv, ShownOK, HeldOK, ShownIsCurrent
<1> QED
  BY InvHolds, <1>1, PTL

\* updateLastPersistedState and setPersistedStateFromPayload leave the field's
\* value as last given, but for the ways to spoil it that are named.
THEOREM SavedStateIsLastGiven == Spec => []SavedStateSurvives
<1>1. Inv => SavedStateSurvives
  BY DEF Inv, SavedOK, SavedStateSurvives
<1> QED
  BY InvHolds, <1>1, PTL

\* registerBootCrash: the runner starts with the boot guard's scene exactly when
\* the limit of registered starts in a row without a render is reached, wherever
\* they died, unless the count was spoiled by a failed write or forgiven.
THEOREM SafeModeIsExact == Spec => SafeModeAfterThree
<1> DEFINE A == at = "init" /\ at' = "top" =>
                  \/ "crashes" \in spoiled
                  \/ loop'.cur = "guard" <=> starts >= CrashLimit
<1>1. ASSUME Inv, [Next]_vars PROVE [A]_vars
  <2> USE TypeParts DEF Inv
  <2>1. CASE RunnerStarts
    <3>1. /\ "crashes" \in spoiled \/ known.crashes = starts
          /\ loop.first = "guard" <=> known.crashes >= CrashLimit
      BY <1>1, <2>1 DEF RunnerStarts, CountOK
    <3>2. loop'.cur = "guard" <=> loop.first = "guard"
      <4>1. CASE loop.first # NoScene
        BY <1>1, <2>1, <4>1 DEF RunnerStarts, LoopType, LoopSet
      <4>2. CASE loop.first = NoScene
        <5>1. LookUp /\ loop'.cur = LookUpScene
          BY <1>1, <2>1, <4>2 DEF RunnerStarts, LoopType, LoopSet
        <5>2. LookUpScene # "guard"
          BY <1>1, <5>1, LookUpLemma DEF CountsType
        <5> QED
          BY <4>2, <5>1, <5>2 DEF NoScene
      <4> QED
        BY <4>1, <4>2
    <3> QED
      BY <3>1, <3>2
  <2>2. CASE ~RunnerStarts
    <3>1. CASE HandleEvent
      BY <1>1, <3>1, HandlesLemma DEF Unmoved
    <3> QED
      BY <1>1, <2>2, <3>1
         DEF Next, RenderLoop, MessageLoop, Start, FatalRetry, FatalQuit, ServerFails, Crash, Ends,
             SendEvent, HandleSetScenes, Enqueue, PersistChecksum, HandleMoves, Drained, BeginPass,
             Rendered, Settle, Wake, IntervalOver, vars
  <2> QED
    BY <2>1, <2>2
<1> QED
  BY InvHolds, <1>1, PTL DEF Spec, SafeModeAfterThree

\* The second invariant rests on the first: the events of the channel in their
\* order, and the scene to come back to.
LedgerOK == FateOK /\ CoalescingKeepsLast /\ KeptOK

\* Nothing has been sent or kept before the first start.
LEMMA InitLedger == Init => LedgerOK
<1> SUFFICES ASSUME Init PROVE LedgerOK
  OBVIOUS
<1>1. chan.queue = <<>> /\ chan.pending = {} /\ Events(chan) = {}
  BY DEF Init, NoEvents, Events
<1>2. \A n \in Num : fate[n] = "unsent"
  BY DEF Init
<1>3. FateOK
  <2>1. NoEventVanishes
    BY <1>1, <1>2, WaitingLemma DEF Numbers
  <2> QED
    BY <1>1, <1>2, <2>1 DEF FateOK, InOrder, InTurn, MovesKnown
<1>4. CoalescingKeepsLast
  BY <1>2 DEF CoalescingKeepsLast
<1>5. KeptOK
  BY DEF Init, KeptOK, CurrentExists, Running, FileKnown, Filed, RememberedIsCurrent, Idle,
         NoInstance, NoScenes, Nothing
<1> QED
  BY <1>3, <1>4, <1>5 DEF LedgerOK

\* LedgerOK holds of every state, on the first invariant.
THEOREM LedgerHolds == Spec => []LedgerOK
<1>1. Inv /\ LedgerOK /\ [Next]_vars => LedgerOK'
  BY FateStep, CoalescingStep, KeptStep DEF LedgerOK
<1> QED
  BY InitLedger, <1>1, InvHolds, PTL DEF Spec

\* An event sendEvent accepted is in eventChannel or is pendingEvent until
\* runMessageLoop handles it; only the end of the process takes it away.
THEOREM AcceptedEventsAreKept == Spec => []NoEventVanishes
<1>1. LedgerOK => NoEventVanishes
  BY DEF LedgerOK, FateOK
<1> QED
  BY LedgerHolds, <1>1, PTL

\* The coalescing of mouseMoves skips a move only for a newer one, and never
\* across another event.
THEOREM DragsEndWhereTheyEnded == Spec => []CoalescingKeepsLast
<1>1. LedgerOK => CoalescingKeepsLast
  BY DEF LedgerOK
<1> QED
  BY LedgerHolds, <1>1, PTL

\* Asleep, scene.json names the current scene, unless a write of it failed or the
\* render loop wrote the scene it drew before a switch.
THEOREM CurrentIsRemembered == Spec => []RememberedIsCurrent
<1>1. LedgerOK => RememberedIsCurrent
  BY DEF LedgerOK, KeptOK
<1> QED
  BY LedgerHolds, <1>1, PTL

\* While the runner runs its current scene is one that exists, so that
\* startRenderLoop never has to look for another.
THEOREM CurrentIsExported == Spec => [](Running => Exported(loop.cur, insts.version))
<1>1. LedgerOK => (Running => Exported(loop.cur, insts.version))
  BY DEF LedgerOK, KeptOK, CurrentExists
<1> QED
  BY LedgerHolds, <1>1, PTL
=============================================================================
