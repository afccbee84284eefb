--------------------------- MODULE SessionProofs ---------------------------
(***************************************************************************)
(* Theorems about sessions and the checkpoint between them, for any items, *)
(* batches and number of starts.                                           *)
(***************************************************************************)
EXTENDS Session, DataTheorems

-----------------------------------------------------------------------------
(* Types, and where main, the watcher and the workers are.                 *)

QueueTypes ==
    /\ file \in Seq(Items) \cup {Absent, Torn}
    /\ channel \in Seq(Items) /\ snapshot \in Seq(Items) /\ pending \in Int /\ revision \in Nat
    /\ enq \in [Producers -> {"idle", "send", "pending", "revision"}]
    /\ batch \in [Producers -> Batches \cup {<<>>}]
    /\ last_saved \in Nat \cup {-1} /\ rev \in Nat \cup {-1} /\ items \in Seq(Items)

MainTypes ==
    /\ pc \in {"load", "ask", "options", "adding", "save", "snapshot", "write", "loop", "wait",
               "preflight", "start_pool", "pool", "after", "prompt",
               "final", "clear", "exited", "error", "aborted"}
    /\ then \in {"loop", "start_pool", "after", "exited"}
    /\ waiting_for_mount \in BOOLEAN /\ watching \in BOOLEAN /\ watched \in Seq(Seq(Items))
    /\ stop_requested \in BOOLEAN

PoolTypes ==
    /\ worker \in [Workers -> {"exited", "recv"} \cup Items]
    /\ due \subseteq Items /\ secured \subseteq Items /\ dropped \subseteq Items
    /\ times \in [Items -> Nat] /\ starts \in Nat /\ crashes \in Nat
    /\ torn \in BOOLEAN /\ overlapped \in BOOLEAN

AllIdle == \A p \in Producers : enq[p] = "idle"

(* The devices that have not appeared are the last ones of Watched.        *)
Appeared(n) ==
    /\ Len(watched) + n = Len(Watched)
    /\ \A k \in 1..Len(watched) : watched[k] = Watched[k + n]

ControlInv ==
    /\ \E n \in Nat : Appeared(n)
    /\ pc # "adding" => enq["main"] = "idle"
    /\ ~watching => enq["watcher"] = "idle"
    /\ enq["watcher"] # "idle" => batch["watcher"] \in Range(Watched)
    /\ pc \in {"load", "ask", "options"} =>
           /\ ~watching /\ channel = <<>> /\ snapshot = <<>> /\ pending = 0
           /\ last_saved = -1 /\ due = {}
    /\ pc = "ask" => file \in Seq(Items)
    /\ pc # "pool" => \A w \in Workers : worker[w] = "exited"
    /\ pc = "adding" => batch["main"] = Added \/ (batch["main"] \in Mapped /\ due = {})

(* Steps that leave the queue, the checkpoint and the items alone ...      *)
Quiet ==
    \/ NothingMapped \/ SpawnWatcher \/ MappingsQueued \/ MappingsFail \/ ReadRevision \/ SaveFails
    \/ LoopHead \/ DeviceDetected \/ Preflight \/ StartPool \/ PoolEnds \/ BatchEnds \/ NoMoreFiles
    \/ FinalCheck \/ ClearFails \/ CtrlC
    \/ \E w \in Workers : FileDone(w) \/ PrepareFails(w) \/ WorkerExits(w)
    \/ UNCHANGED vars

(* ... and move main, or no more than a worker in the pool.                *)
Moves ==
    \/ /\ UNCHANGED <<pc, then, rev, due, crashes, torn>>
       /\ pc = "pool" \/ UNCHANGED worker
    \/ /\ UNCHANGED <<due, crashes, torn, worker>>
       /\ \/ /\ pc \in {"options", "prompt"} \/ (pc = "adding" /\ enq["main"] = "idle")
             /\ pc' = "save" /\ then' = "loop" /\ rev' = rev
          \/ /\ pc = "adding" /\ enq["main"] = "idle"
             /\ pc' = IF batch["main"] = Added THEN "final" ELSE "error"
             /\ UNCHANGED <<then, rev>>
          \/ pc = "save" /\ revision = last_saved /\ pc' = then /\ UNCHANGED <<then, rev>>
          \/ pc = "save" /\ revision # last_saved /\ pc' = "snapshot" /\ rev' = revision /\ then' = then
          \/ pc = "wait" /\ pc' \in {"final", "loop"} /\ UNCHANGED <<then, rev>>
          \/ /\ pc = "preflight" /\ rev' = rev
             /\ (pc' = "save" /\ then' = "start_pool") \/ (pc' = "error" /\ then' = then)
          \/ pc = "pool" /\ pc' = "save" /\ then' = "after" /\ rev' = rev /\ \A w \in Workers : worker[w] = "exited"
          \/ pc \in {"after", "prompt"} /\ pc' \in {"final", "prompt"} /\ UNCHANGED <<then, rev>>
          \/ pc \in {"clear", "ask"} /\ pc' = "aborted" /\ UNCHANGED <<then, rev>>
    \/ /\ pc = "start_pool" /\ pc' = "pool"
       /\ UNCHANGED <<then, rev, due, crashes, torn>>
    \/ /\ pc \in {"snapshot", "write"} /\ pc' = "aborted"
       /\ crashes' = crashes + 1 /\ torn' = (torn \/ pc = "write")
       /\ UNCHANGED <<then, rev, due, worker>>
    \/ /\ pc = "loop" /\ pc' \in {"final", "preflight", "wait"}
       /\ due' = Returned
       /\ UNCHANGED <<then, rev, crashes, torn, worker>>
    \/ /\ pc = "final" /\ due' = Returned
       /\ \/ pending = 0 /\ pc' = "clear" /\ then' = then
          \/ pending # 0 /\ pc' = "save" /\ then' = "exited"
       /\ UNCHANGED <<rev, crashes, torn, worker>>

(* A batch enters the mirror, from main or from the watcher.               *)
Extends(p, b) ==
    /\ Extend(p, b)
    /\ UNCHANGED <<file, save, stop_requested, pool, due, secured, runs>>
    /\ \/ /\ p = "main" /\ Fresh(b) /\ pc' = "adding"
          /\ \/ b = Added /\ pc = "prompt"
             \/ b \in Mapped /\ (pc = "options" \/ (pc = "adding" /\ batch["main"] \in Mapped))
          /\ UNCHANGED <<mount, watched>>
       \/ /\ p = "watcher" /\ watching /\ watched # <<>>
          /\ b = Head(watched) /\ watched' = Tail(watched)
          /\ UNCHANGED <<mount, pc>>

LEMMA QuietKept ==
    ASSUME Quiet
    PROVE  UNCHANGED <<file, queue, enqueue, last_saved, items, watched, times, secured, dropped,
                       starts, overlapped>>
<1>1. CASE UNCHANGED vars
  BY <1>1 DEF vars, save, pool, runs
<1>2. CASE \/ NothingMapped \/ SpawnWatcher \/ MappingsQueued \/ MappingsFail \/ ReadRevision
           \/ SaveFails \/ LoopHead \/ DeviceDetected \/ Preflight \/ StartPool
  BY <1>2 DEF NothingMapped, SpawnWatcher, MappingsQueued, MappingsFail, ReadRevision, SaveFails,
     LoopHead, DeviceDetected, Preflight, StartPool, save, pool, runs
<1>3. CASE \/ PoolEnds \/ BatchEnds \/ NoMoreFiles \/ FinalCheck \/ ClearFails \/ CtrlC
           \/ \E w \in Workers : FileDone(w) \/ PrepareFails(w) \/ WorkerExits(w)
  BY <1>3 DEF PoolEnds, BatchEnds, NoMoreFiles, FinalCheck, ClearFails, CtrlC, FileDone,
     PrepareFails, WorkerExits, save, pool, runs
<1> QED  BY <1>1, <1>2, <1>3 DEF Quiet

LEMMA QuietMoves ==
    ASSUME ControlInv, Quiet
    PROVE  Moves
<1>1. CASE UNCHANGED vars \/ CtrlC
  BY <1>1 DEF vars, CtrlC, save, pool, runs, Moves
<1>2. CASE NothingMapped \/ SpawnWatcher \/ MappingsQueued \/ MappingsFail \/ ReadRevision
  BY <1>2 DEF NothingMapped, SpawnWatcher, MappingsQueued, MappingsFail, ReadRevision, save, pool,
     runs, Moves
<1>3. CASE SaveFails
  BY <1>3, Zenon DEF SaveFails, save, pool, Moves
<1>4. CASE LoopHead \/ DeviceDetected
  <2>1. LoopHead => pc' \in {"final", "preflight", "wait"}
    BY Zenon DEF LoopHead
  <2>2. DeviceDetected => pc' \in {"final", "loop"}
    BY Zenon DEF DeviceDetected
  <2> QED  BY <1>4, <2>1, <2>2, Zenon DEF LoopHead, DeviceDetected, save, pool, runs, Moves
<1>5. CASE Preflight \/ StartPool \/ PoolEnds
  BY <1>5 DEF Preflight, StartPool, PoolEnds, save, pool, runs, Moves
<1>6. CASE BatchEnds \/ NoMoreFiles \/ ClearFails
  <2>1. BatchEnds => pc' \in {"final", "prompt"}
    BY Zenon DEF BatchEnds
  <2> QED  BY <1>6, <2>1, Zenon DEF BatchEnds, NoMoreFiles, ClearFails, save, pool, runs, Moves
<1>7. CASE FinalCheck
  BY <1>7 DEF FinalCheck, IsEmpty, save, pool, runs, Moves
<1>8. ASSUME NEW w \in Workers, FileDone(w) \/ PrepareFails(w) \/ WorkerExits(w)
      PROVE  Moves
  <2>1. worker[w] # "exited"
    BY <1>8, SessionAssumption DEF FileDone, PrepareFails, WorkerExits
  <2>2. pc = "pool"
    BY <2>1 DEF ControlInv
  <2> QED  BY <1>8, <2>2 DEF FileDone, PrepareFails, WorkerExits, save, runs, Moves
<1> QED  BY <1>1, <1>2, <1>3, <1>4, <1>5, <1>6, <1>7, <1>8 DEF Quiet

Enqueues(p) == SendBatch(p) \/ AddBatchLen(p) \/ BatchQueued(p)

LEMMA NextDevice ==
    ASSUME watched \in Seq(Seq(Items)), watched # <<>>, NEW n \in Nat, Appeared(n)
    PROVE  /\ Head(watched) = Watched[n + 1] /\ n + 1 \in DOMAIN Watched
           /\ Head(watched) \in Batches
           /\ Head(watched) = watched[1] /\ 1 \in 1..Len(watched)
           /\ watched' = Tail(watched) =>
                /\ Appeared(n + 1)'
                /\ \A k \in 1..Len(watched') : k + 1 \in 1..Len(watched) /\ watched'[k] = watched[k + 1]
<1>1. /\ Len(watched) \in Nat \ {0} /\ Head(watched) = watched[1]
      /\ Len(Tail(watched)) = Len(watched) - 1
      /\ \A k \in 1..Len(Tail(watched)) : Tail(watched)[k] = watched[k + 1]
  BY TailRange, HeadTailProperties
<1>2. DOMAIN Watched = 1..Len(Watched) /\ Len(Watched) \in Nat
  BY SessionAssumption, LenProperties
<1>3. Head(watched) = Watched[n + 1] /\ n + 1 \in DOMAIN Watched /\ 1 \in 1..Len(watched)
  BY <1>1, <1>2 DEF Appeared
<1>4. Head(watched) \in Batches
  BY <1>3 DEF Batches, Range
<1>5. ASSUME watched' = Tail(watched)
      PROVE  /\ Appeared(n + 1)'
             /\ \A k \in 1..Len(watched') : k + 1 \in 1..Len(watched) /\ watched'[k] = watched[k + 1]
  <2>1. Len(watched') = Len(watched) - 1 /\ \A k \in 1..Len(watched') : watched'[k] = watched[k + 1]
    BY <1>1, <1>5
  <2>2. \A k \in 1..Len(watched') : k + 1 \in 1..Len(watched) /\ k + 1 + n = k + (n + 1)
    BY <1>1, <2>1
  <2>3. Len(watched') + (n + 1) = Len(Watched)
    <3>1. Len(watched) + n = Len(Watched)
      BY DEF Appeared
    <3>2. Len(watched') + (n + 1) = Len(watched) + n
      BY <1>1, <2>1
    <3> QED  BY <3>1, <3>2
  <2> QED  BY <2>1, <2>2, <2>3 DEF Appeared
<1> QED  BY <1>1, <1>3, <1>4, <1>5

LEMMA Steps ==
    ASSUME TypeOK, ControlInv, [Next]_vars
    PROVE  \/ Quiet
           \/ LoadCheckpoint \/ Resume \/ IgnoreSaved
           \/ SnapshotItems \/ WriteCheckpoint \/ ClearCheckpoint
           \/ \E p \in Producers : Enqueues(p) \/ \E b \in Batches : Extends(p, b)
           \/ \E w \in Workers : Take(w)
           \/ Restart
<1>0. "main" \in Producers /\ "watcher" \in Producers
  BY DEF Producers
<1>1. ASSUME NEW b \in Mapped, EnqueueMappings(b)
      PROVE  Extends("main", b) /\ b \in Batches
  BY <1>1 DEF EnqueueMappings, Extends, Batches, pool, runs, save, mount
<1>2. ASSUME AddMoreFiles
      PROVE  Extends("main", Added) /\ Added \in Batches
  BY <1>2 DEF AddMoreFiles, Extends, Batches, pool, runs, save, mount
<1>3. ASSUME DeviceAppears
      PROVE  Extends("watcher", Head(watched)) /\ Head(watched) \in Batches
  <2>1. PICK n \in Nat : Appeared(n)
    BY DEF ControlInv
  <2>2. Head(watched) \in Batches
    BY <1>3, <2>1, NextDevice DEF DeviceAppears, TypeOK
  <2> QED  BY <1>3, <2>2 DEF DeviceAppears, Extends, pool, runs, save, mount
<1>4. ASSUME NEW p \in Producers, Enqueue(p)
      PROVE  \E q \in Producers : Enqueues(q)
  BY <1>4 DEF Enqueue, Enqueues
<1>5. CASE Main
  BY <1>0, <1>1, <1>2, <1>4, <1>5 DEF Main, Quiet
<1>6. CASE \E w \in Workers : Worker(w)
  BY <1>6 DEF Worker, Quiet
<1> QED  BY <1>0, <1>3, <1>4, <1>5, <1>6 DEF Next, Quiet

LEMMA Types == TypeOK <=> QueueTypes /\ MainTypes /\ PoolTypes
BY DEF TypeOK, QueueTypes, MainTypes, PoolTypes

LEMMA InitTyped == Init => TypeOK
<1> SUFFICES ASSUME Init
             PROVE  TypeOK
  OBVIOUS
<1>1. <<>> \in Seq(Items) /\ -1 \in Nat \cup {-1}
  OBVIOUS
<1>2. QueueTypes
  BY <1>1 DEF Init, QueueTypes, Idle, Nothing
<1>3. MainTypes
  BY SessionAssumption DEF Init, MainTypes
<1>4. PoolTypes
  BY DEF Init, PoolTypes, NoPool
<1> QED  BY <1>2, <1>3, <1>4, Types

LEMMA InitControl == Init => ControlInv
<1> SUFFICES ASSUME Init
             PROVE  ControlInv
  OBVIOUS
<1>1. Appeared(0)
  <2>1. Len(Watched) \in Nat
    BY SessionAssumption, LenProperties
  <2> QED  BY <2>1 DEF Init, Appeared
<1> QED  BY <1>1 DEF Init, ControlInv, Idle, NoPool, Producers


(* The flags and the workers in a quiet step.                              *)
LEMMA QuietFlags ==
    ASSUME Quiet
    PROVE  /\ watching' = watching \/ (watching' = TRUE /\ pc' = "save")
           /\ waiting_for_mount' \in {waiting_for_mount, stop_requested, TRUE}
           /\ stop_requested' \in {stop_requested, TRUE}
           /\ \/ worker' \in {worker, [w \in Workers |-> "recv"]}
              \/ \E w \in Workers, x \in {"exited", "recv"} : worker' = [worker EXCEPT ![w] = x]
<1>1. CASE UNCHANGED vars
  BY <1>1 DEF vars, mount, pool
<1>2. CASE SpawnWatcher
  BY <1>2, Zenon DEF SpawnWatcher, pool
<1>3. CASE DeviceDetected
  BY <1>3, Zenon DEF DeviceDetected, pool
<1>4. CASE CtrlC
  BY <1>4, Zenon DEF CtrlC, pool, mount
<1>5. CASE StartPool
  BY <1>5 DEF StartPool, mount
<1>6. CASE \/ NothingMapped \/ MappingsQueued \/ MappingsFail \/ ReadRevision
           \/ SaveFails \/ LoopHead \/ Preflight \/ PoolEnds \/ BatchEnds \/ NoMoreFiles
           \/ FinalCheck \/ ClearFails
  <2>1. UNCHANGED <<watching, waiting_for_mount, stop_requested, worker>>
    BY <1>6 DEF NothingMapped, MappingsQueued, MappingsFail, ReadRevision, SaveFails, LoopHead,
       Preflight, PoolEnds, BatchEnds, NoMoreFiles, FinalCheck, ClearFails, mount, pool
  <2> QED  BY <2>1
<1>7. ASSUME NEW w \in Workers, FileDone(w) \/ PrepareFails(w) \/ WorkerExits(w)
      PROVE  /\ UNCHANGED mount /\ stop_requested' \in {stop_requested, TRUE}
             /\ \E x \in {"exited", "recv"} : worker' = [worker EXCEPT ![w] = x]
  <2>1. CASE FileDone(w)
    <3> DEFINE x == IF stop_requested THEN "exited" ELSE "recv"
    <3>1. x \in {"exited", "recv"} /\ worker' = [worker EXCEPT ![w] = x]
      BY <2>1 DEF FileDone
    <3> QED  BY <2>1, <3>1 DEF FileDone
  <2>2. CASE PrepareFails(w)
    BY <2>2 DEF PrepareFails
  <2>3. CASE WorkerExits(w)
    BY <2>3 DEF WorkerExits
  <2> QED  BY <1>7, <2>1, <2>2, <2>3
<1> QED  BY <1>1, <1>2, <1>3, <1>4, <1>5, <1>6, <1>7 DEF Quiet, mount

LEMMA QuietTyped ==
    ASSUME QueueTypes, MainTypes, PoolTypes, ControlInv, Quiet
    PROVE  QueueTypes' /\ MainTypes' /\ PoolTypes'
<1>1. Moves
  BY QuietMoves
<1>2. QueueTypes'
  <2>1. UNCHANGED <<file, queue, enqueue, last_saved, items>> /\ rev' \in {rev, revision}
    BY <1>1, QuietKept DEF Moves
  <2> QED  BY <2>1 DEF QueueTypes, queue, enqueue
<1>3. MainTypes'
  <2>1. /\ pc' \in {"load", "ask", "options", "adding", "save", "snapshot", "write", "loop",
                    "wait", "preflight", "start_pool", "pool", "after", "prompt",
                    "final", "clear", "exited", "error", "aborted"}
        /\ then' \in {"loop", "start_pool", "after", "exited"}
    BY <1>1 DEF Moves, MainTypes
  <2>2. watched' = watched
    BY QuietKept
  <2>3. waiting_for_mount' \in BOOLEAN /\ watching' \in BOOLEAN /\ stop_requested' \in BOOLEAN
    BY QuietFlags, Zenon DEF MainTypes
  <2> QED  BY <2>1, <2>2, <2>3 DEF MainTypes
<1>4. PoolTypes'
  <2>1. UNCHANGED <<times, secured, dropped, starts, overlapped>>
    BY QuietKept
  <2>2. due' \subseteq Items
    <3>1. Returned \subseteq Items
      BY RangeTyped DEF Returned, QueueTypes
    <3>2. due' \in {due, Returned}
      BY <1>1 DEF Moves
    <3> QED  BY <3>1, <3>2 DEF PoolTypes
  <2>3. crashes' \in Nat
    <3>1. crashes' \in {crashes, crashes + 1}
      BY <1>1 DEF Moves
    <3> QED  BY <3>1 DEF PoolTypes
  <2>4. torn' \in BOOLEAN
    BY <1>1, Zenon DEF Moves, PoolTypes
  <2>5. worker' \in [Workers -> {"exited", "recv"} \cup Items]
    BY QuietFlags DEF PoolTypes
  <2> QED  BY <2>1, <2>2, <2>3, <2>4, <2>5 DEF PoolTypes
<1> QED  BY <1>2, <1>3, <1>4

LEMMA SavedIs ==
    ASSUME QueueTypes
    PROVE  /\ Saved \subseteq Items
           /\ file \in Seq(Items) => Saved = Range(file)
           /\ file \in {Absent, Torn} => Saved = {} /\ file \notin Seq(Items)
<1>1. file \in Seq(Items) => Saved = Range(file) /\ Saved \subseteq Items
  BY SessionAssumption, RangeTyped DEF Saved
<1>2. file \in {Absent, Torn} => Saved = {} /\ file \notin Seq(Items)
  BY SessionAssumption DEF Saved
<1> QED  BY <1>1, <1>2 DEF QueueTypes

LEMMA BatchTyped == \A b \in Batches \cup {<<>>} : b \in Seq(Items)
<1>1. \A b \in Range(Watched) : b \in Seq(Items)
  BY SessionAssumption, RangeTyped
<1>2. <<>> \in Seq(Items)
  OBVIOUS
<1>3. \A b \in Mapped \cup {Added} : b \in Seq(Items)
  BY SessionAssumption
<1> QED  BY <1>1, <1>2, <1>3, Zenon DEF Batches

(* The steps of enqueue_batch. *)
LEMMA EnqueueTyped ==
    ASSUME QueueTypes, MainTypes, PoolTypes, ControlInv, NEW p \in Producers,
           Enqueues(p) \/ \E b \in Batches : Extends(p, b)
    PROVE  QueueTypes' /\ MainTypes' /\ PoolTypes'
<1>0. batch[p] \in Seq(Items) /\ Len(batch[p]) \in Nat
  <2>1. batch[p] \in Seq(Items)
    BY BatchTyped DEF QueueTypes
  <2> QED  BY <2>1, LenProperties
<1>1. CASE Enqueues(p)
  <2>1. /\ UNCHANGED <<file, snapshot, batch, save, pc, mount, watched, stop_requested, pool, due,
                       secured, runs, overlapped>>
        /\ enq' \in {[enq EXCEPT ![p] = x] : x \in {"idle", "pending", "revision"}}
    BY <1>1 DEF Enqueues, SendBatch, AddBatchLen, BatchQueued
  <2>2. channel' \in Seq(Items)
    <3>1. channel' \in {channel, channel \o batch[p]}
      BY <1>1 DEF Enqueues, SendBatch, AddBatchLen, BatchQueued
    <3>2. channel \o batch[p] \in Seq(Items)
      BY <1>0, ConcatRange DEF QueueTypes
    <3> QED  BY <3>1, <3>2 DEF QueueTypes
  <2>3. pending' \in Int /\ revision' \in Nat
    BY <1>0, <1>1 DEF Enqueues, SendBatch, AddBatchLen, BatchQueued, QueueTypes
  <2>4. QueueTypes'
    BY <2>1, <2>2, <2>3 DEF QueueTypes, save
  <2> QED  BY <2>1, <2>4 DEF MainTypes, PoolTypes, save, mount, pool, runs
<1>2. ASSUME NEW b \in Batches, Extends(p, b)
      PROVE  QueueTypes' /\ MainTypes' /\ PoolTypes'
  <2>1. /\ snapshot' = snapshot \o b /\ batch' = [batch EXCEPT ![p] = b]
        /\ enq' = [enq EXCEPT ![p] = "send"]
        /\ UNCHANGED <<file, channel, pending, revision, save, stop_requested, pool, due, secured,
                       runs, mount>>
    BY <1>2 DEF Extends, Extend
  <2>2. snapshot \o b \in Seq(Items)
    BY BatchTyped, ConcatRange DEF QueueTypes
  <2>3. QueueTypes'
    BY <2>1, <2>2 DEF QueueTypes, save
  <2>4. MainTypes'
    <3>1. pc' \in {pc, "adding"}
      BY <1>2 DEF Extends
    <3>2. watched' \in Seq(Seq(Items))
      <4>1. watched' = watched \/ (watched # <<>> /\ watched' = Tail(watched))
        BY <1>2 DEF Extends
      <4>2. watched # <<>> => Tail(watched) \in Seq(Seq(Items))
        <5> DEFINE S == Seq(Items)
        <5>1. watched \in Seq(S)
          BY DEF MainTypes
        <5> HIDE DEF S
        <5>2. watched # <<>> => Tail(watched) \in Seq(S)
          BY <5>1, TailRange
        <5> QED  BY <5>2, Zenon DEF S
      <4> QED  BY <4>1, <4>2, Zenon DEF MainTypes
    <3> QED  BY <2>1, <3>1, <3>2 DEF MainTypes, save, mount
  <2>5. overlapped' \in BOOLEAN
    BY <1>2, Zenon DEF Extends, Extend, PoolTypes
  <2> QED  BY <2>1, <2>3, <2>4, <2>5 DEF PoolTypes, pool, runs
<1> QED  BY <1>1, <1>2

(* The steps that read or write the checkpoint. *)
LEMMA FileTyped ==
    ASSUME QueueTypes, MainTypes, PoolTypes, ControlInv,
           \/ LoadCheckpoint \/ Resume \/ IgnoreSaved
           \/ SnapshotItems \/ WriteCheckpoint \/ ClearCheckpoint
    PROVE  QueueTypes' /\ MainTypes' /\ PoolTypes'
<1>1. UNCHANGED <<enqueue, mount, watched, stop_requested, pool, due, starts, crashes, torn, overlapped>>
  BY DEF LoadCheckpoint, Resume, IgnoreSaved, SnapshotItems, WriteCheckpoint, ClearCheckpoint, runs
<1>2. QueueTypes'
  <2>1. CASE Resume
    <3>1. file \in Seq(Items)
      BY <2>1 DEF Resume, ControlInv
    <3>2. Len(file) \in Int
      BY <3>1, LenProperties
    <3> QED  BY <1>1, <2>1, <3>1, <3>2 DEF Resume, QueueTypes, enqueue, save
  <2>2. CASE \/ LoadCheckpoint \/ IgnoreSaved
             \/ SnapshotItems \/ WriteCheckpoint \/ ClearCheckpoint
    <3>1. UNCHANGED queue /\ file' \in {file, Absent, Torn, items}
      BY <2>2 DEF LoadCheckpoint, IgnoreSaved, SnapshotItems, WriteCheckpoint, ClearCheckpoint
    <3>2. /\ last_saved' \in {last_saved, rev} /\ rev' \in {rev, -1}
          /\ items' \in {items, snapshot, <<>>}
      BY <2>2
         DEF LoadCheckpoint, IgnoreSaved, SnapshotItems, WriteCheckpoint, ClearCheckpoint, save
    <3>3. <<>> \in Seq(Items) /\ -1 \in Nat \cup {-1}
      OBVIOUS
    <3>4. last_saved' \in Nat \cup {-1} /\ rev' \in Nat \cup {-1} /\ items' \in Seq(Items)
      BY <3>2, <3>3 DEF QueueTypes
    <3>5. file' \in Seq(Items) \cup {Absent, Torn}
      BY <3>1 DEF QueueTypes
    <3> QED  BY <1>1, <3>1, <3>4, <3>5 DEF QueueTypes, queue, enqueue
  <2> QED  BY <2>1, <2>2
<1>3. MainTypes'
  <2>1. pc' \in {"ask", "options", "loop", "write", then, "exited"} /\ then' = then
    BY DEF LoadCheckpoint, Resume, IgnoreSaved, SnapshotItems, WriteCheckpoint, ClearCheckpoint, save
  <2> QED  BY <1>1, <2>1 DEF MainTypes, mount
<1>4. secured' \subseteq Items /\ dropped' \subseteq Items
  <2>1. Saved \subseteq Items /\ Range(items) \subseteq Items
    BY SavedIs, RangeTyped DEF QueueTypes
  <2>2. pc = "ask" => Range(file) \subseteq Items
    BY RangeTyped DEF ControlInv
  <2> QED  BY <2>1, <2>2 DEF LoadCheckpoint, Resume, IgnoreSaved, SnapshotItems, WriteCheckpoint,
           ClearCheckpoint, runs, PoolTypes
<1> QED  BY <1>1, <1>2, <1>3, <1>4 DEF PoolTypes, pool

LEMMA TakeTyped ==
    ASSUME QueueTypes, MainTypes, PoolTypes, NEW w \in Workers, Take(w)
    PROVE  QueueTypes' /\ MainTypes' /\ PoolTypes'
<1>1. channel # <<>> /\ Tail(channel) \in Seq(Items) /\ Head(channel) \in Items
  BY TailRange DEF Take, QueueTypes
<1>2. snapshot' \in Seq(Items)
  BY TailRange DEF Take, QueueTypes
<1>3. QueueTypes'
  BY <1>1, <1>2 DEF Take, QueueTypes, enqueue, save
<1>4. MainTypes'
  BY DEF Take, MainTypes, save, mount
<1>5. worker' \in [Workers -> {"exited", "recv"} \cup Items] /\ times' \in [Items -> Nat]
  BY <1>1 DEF Take, PoolTypes
<1> QED  BY <1>3, <1>4, <1>5 DEF Take, PoolTypes, runs

LEMMA RestartTyped ==
    ASSUME QueueTypes, MainTypes, PoolTypes, Restart
    PROVE  QueueTypes' /\ MainTypes' /\ PoolTypes'
<1>1. <<>> \in Seq(Items) /\ -1 \in Nat \cup {-1}
  OBVIOUS
<1>2. QueueTypes'
  BY <1>1 DEF Restart, QueueTypes, Idle, Nothing
<1>3. MainTypes'
  BY DEF Restart, MainTypes
<1>4. torn' \in BOOLEAN
  BY Zenon DEF Restart, PoolTypes
<1>5. crashes' \in Nat /\ starts' \in Nat
  BY DEF Restart, PoolTypes
<1>6. worker' \in [Workers -> {"exited", "recv"} \cup Items]
  BY DEF Restart, NoPool
<1> QED  BY <1>2, <1>3, <1>4, <1>5, <1>6 DEF Restart, PoolTypes

LEMMA StepTyped ==
    ASSUME TypeOK, ControlInv, [Next]_vars
    PROVE  TypeOK'
<1>1. QueueTypes /\ MainTypes /\ PoolTypes
  BY Types
<1>2. QueueTypes' /\ MainTypes' /\ PoolTypes'
  BY <1>1, Steps, QuietTyped, EnqueueTyped, FileTyped, TakeTyped, RestartTyped
<1> QED  BY <1>2 DEF TypeOK, QueueTypes, MainTypes, PoolTypes

LEMMA ControlKept ==
    ASSUME TypeOK, ControlInv, [Next]_vars
    PROVE  ControlInv'
<1>0. QueueTypes /\ MainTypes /\ PoolTypes
  BY Types
<1>1. CASE Quiet
  <2>1. Moves
    BY <1>1, QuietMoves
  <2>2. UNCHANGED <<file, channel, snapshot, pending, enq, batch, last_saved, watched>>
    BY <1>1, QuietKept DEF queue, enqueue
  <2>3. \E n \in Nat : Appeared(n)'
    BY <2>2 DEF ControlInv, Appeared
  <2>4. pc' \in {"load", "ask", "options", "adding"} => pc' = pc /\ due' = due
    BY <1>0, <2>1 DEF Moves, MainTypes
  <2>5. pc' # "adding" => enq["main"] = "idle"
    BY <2>1 DEF Moves, ControlInv
  <2>6. pc' # "pool" => \A w \in Workers : worker'[w] = "exited"
    BY <2>1 DEF Moves, ControlInv
  <2>7. (~watching' => ~watching) /\ (pc' # "save" => watching' = watching)
    <3>1. watching' = watching \/ (watching' = TRUE /\ pc' = "save")
      BY <1>1, QuietFlags
    <3> QED  BY <3>1
  <2>8. pc' \in {"load", "ask", "options"} => ~watching' /\ pc \in {"load", "ask", "options"}
    <3>1. pc' \in {"load", "ask", "options"} => ~watching
      BY <2>4, Zenon DEF ControlInv
    <3>2. pc' \in {"load", "ask", "options"} => pc' # "save"
      OBVIOUS
    <3> QED  BY <2>4, <2>7, <3>1, <3>2, Zenon
  <2> QED  BY <2>1, <2>2, <2>3, <2>4, <2>5, <2>6, <2>7, <2>8 DEF ControlInv
<1>2. ASSUME NEW p \in Producers, Enqueues(p)
      PROVE  ControlInv'
  <2>1. /\ UNCHANGED <<file, snapshot, batch, last_saved, pc, watching, watched, worker, due>>
        /\ enq[p] # "idle" /\ \A q \in Producers \ {p} : enq'[q] = enq[q]
        /\ batch' = batch
    BY <1>0, <1>2
       DEF Enqueues, SendBatch, AddBatchLen, BatchQueued, save, mount, pool, QueueTypes
  <2>2. \E n \in Nat : Appeared(n)'
    BY <2>1 DEF ControlInv, Appeared
  <2>3. "main" \in Producers /\ "watcher" \in Producers /\ p \in {"main", "watcher"}
    BY DEF Producers
  <2>4. pc \notin {"load", "ask", "options"}
    BY <2>1, <2>3 DEF ControlInv
  <2> QED  BY <2>1, <2>2, <2>3, <2>4 DEF ControlInv
<1>3. ASSUME NEW p \in Producers, NEW b \in Batches, Extends(p, b)
      PROVE  ControlInv'
  <2>1. /\ UNCHANGED <<file, channel, pending, last_saved, watching, worker, due>>
        /\ snapshot' = snapshot \o b
        /\ \A q \in Producers \ {p} : enq'[q] = enq[q] /\ batch'[q] = batch[q]
        /\ batch'[p] = b
    BY <1>0, <1>3 DEF Extends, Extend, save, mount, pool, QueueTypes
  <2>2. \E n \in Nat : Appeared(n)'
    <3>1. PICK n \in Nat : Appeared(n)
      BY DEF ControlInv
    <3>2. watched' = watched => Appeared(n)'
      BY <3>1 DEF Appeared
    <3>3. watched # <<>> /\ watched' = Tail(watched) => Appeared(n + 1)'
      BY <1>0, <3>1, NextDevice DEF MainTypes
    <3> QED  BY <1>3, <3>2, <3>3 DEF Extends
  <2>3. CASE p = "main"
    <3>0. Added \notin Mapped
      BY SessionAssumption
    <3>1. pc' = "adding" /\ (b = Added \/ (b \in Mapped /\ due = {}))
      BY <1>3, <2>3, <3>0 DEF Extends, ControlInv
    <3>2. ~watching => enq'["watcher"] = "idle"
      BY <2>1, <2>3 DEF ControlInv, Producers
    <3>3. pc # "pool"
      BY <1>3, <2>3 DEF Extends
    <3>4. enq'["watcher"] = enq["watcher"] /\ batch'["watcher"] = batch["watcher"]
      BY <2>1, <2>3 DEF Producers
    <3>5. enq'["watcher"] # "idle" => batch'["watcher"] \in Range(Watched)
      BY <3>4 DEF ControlInv
    <3> QED  BY <2>1, <2>2, <2>3, <3>1, <3>2, <3>3, <3>5 DEF ControlInv
  <2>4. CASE p = "watcher"
    <3>1. pc' = pc /\ watching
      BY <1>3, <2>4 DEF Extends
    <3>4. batch'["watcher"] \in Range(Watched)
      <4>1. PICK n \in Nat : Appeared(n)
        BY DEF ControlInv
      <4>2. b = Head(watched) /\ watched # <<>>
        BY <1>3, <2>4 DEF Extends
      <4>3. Head(watched) = Watched[n + 1] /\ n + 1 \in DOMAIN Watched
        BY <1>0, <4>1, <4>2, NextDevice DEF MainTypes
      <4> QED  BY <2>1, <2>4, <4>2, <4>3 DEF Range
    <3>2. enq'["main"] = enq["main"] /\ batch'["main"] = batch["main"]
      BY <2>1, <2>4 DEF Producers
    <3>3. pc \notin {"load", "ask", "options"}
      BY <3>1 DEF ControlInv
    <3> QED  BY <2>1, <2>2, <3>1, <3>2, <3>3, <3>4 DEF ControlInv
  <2> QED  BY <2>3, <2>4 DEF Producers
<1>4. CASE LoadCheckpoint \/ IgnoreSaved \/ Resume
  <2>1. UNCHANGED <<enq, batch, last_saved, watching, watched, worker, due>>
    BY <1>4 DEF LoadCheckpoint, IgnoreSaved, Resume, enqueue, save, mount, pool
  <2>2. \E n \in Nat : Appeared(n)'
    BY <2>1 DEF ControlInv, Appeared
  <2>3. \/ pc' = "loop"
        \/ /\ pc' \in {"ask", "options"} /\ UNCHANGED <<channel, snapshot, pending>>
           /\ pc' = "ask" => file' = file /\ file \notin {Absent, Torn}
    BY <1>4 DEF LoadCheckpoint, IgnoreSaved, Resume, queue
  <2>4. pc \in {"load", "ask"}
    BY <1>4 DEF LoadCheckpoint, IgnoreSaved, Resume
  <2> QED  BY <1>0, <2>1, <2>2, <2>3, <2>4 DEF ControlInv, QueueTypes
<1>5. CASE SnapshotItems \/ WriteCheckpoint \/ ClearCheckpoint
  <2>1. /\ UNCHANGED <<channel, snapshot, pending, enq, batch, watching, watched, worker>>
        /\ pc \in {"snapshot", "write", "clear"} /\ pc' \in {"write", then, "exited"}
    BY <1>5 DEF SnapshotItems, WriteCheckpoint, ClearCheckpoint, queue, enqueue, mount, pool
  <2>2. \E n \in Nat : Appeared(n)'
    BY <2>1 DEF ControlInv, Appeared
  <2>3. pc' \notin {"load", "ask", "options", "adding"}
    BY <1>0, <2>1 DEF MainTypes
  <2> QED  BY <2>1, <2>2, <2>3 DEF ControlInv
<1>6. ASSUME NEW w \in Workers, Take(w)
      PROVE  ControlInv'
  <2>1. UNCHANGED <<file, enq, batch, last_saved, pc, watching, watched, due>>
    BY <1>6 DEF Take, enqueue, save, mount
  <2>2. \E n \in Nat : Appeared(n)'
    BY <2>1 DEF ControlInv, Appeared
  <2>3. pc = "pool"
    <3>1. worker[w] # "exited"
      BY <1>6 DEF Take
    <3> QED  BY <3>1 DEF ControlInv
  <2> QED  BY <2>1, <2>2, <2>3 DEF ControlInv
<1>7. CASE Restart
  <2>1. \E n \in Nat : Appeared(n)'
    BY <1>7 DEF ControlInv, Appeared, Restart
  <2> QED  BY <1>7, <2>1 DEF ControlInv, Restart, NoPool, Idle, Producers
<1> QED  BY <1>1, <1>2, <1>3, <1>4, <1>5, <1>6, <1>7, Steps

-----------------------------------------------------------------------------
(* CheckpointCurrent: every change of the mirror ends in a new revision.   *)

(* What the producers at a step of enqueue_batch carry. *)
Part(p, step) == IF enq[p] = step THEN Len(batch[p]) ELSE 0
Carried(step) == Part("main", step) + Part("watcher", step)

LengthInv ==
    /\ Len(snapshot) = Len(channel) + Carried("send")
    /\ pending = Len(channel) - Carried("pending")

SaveInv ==
    /\ last_saved <= revision
    /\ pc \in {"snapshot", "write"} => last_saved < revision /\ rev \in Nat /\ rev <= revision
    /\ pc = "write" => /\ items # <<>>
                       /\ Range(items) \subseteq Range(snapshot)
                       /\ rev = revision /\ AllIdle => items = snapshot
    /\ pc = "clear" /\ last_saved = revision /\ AllIdle => snapshot = <<>>
    /\ CheckpointCurrent

LEMMA PartTyped ==
    ASSUME QueueTypes, NEW p \in Producers, NEW step
    PROVE  Part(p, step) \in Nat /\ Carried(step) \in Nat
<1>1. \A q \in Producers : Len(batch[q]) \in Nat
  <2> SUFFICES ASSUME NEW q \in Producers
               PROVE  Len(batch[q]) \in Nat
    OBVIOUS
  <2>1. batch[q] \in Seq(Items)
    BY BatchTyped DEF QueueTypes
  <2> QED  BY <2>1, LenProperties
<1>2. \A q \in Producers : Part(q, step) \in Nat
  BY <1>1 DEF Part
<1>3. Part("main", step) \in Nat /\ Part("watcher", step) \in Nat
  BY <1>2 DEF Producers
<1> QED  BY <1>2, <1>3 DEF Carried

LEMMA CarriedChange ==
    ASSUME QueueTypes, QueueTypes', NEW p \in Producers, NEW step,
           \A q \in Producers \ {p} : enq'[q] = enq[q] /\ batch'[q] = batch[q]
    PROVE  Carried(step)' = Carried(step) - Part(p, step) + Part(p, step)'
<1>1. \A q \in Producers : Part(q, step) \in Nat
  BY PartTyped
<1>2. \A q \in Producers \ {p} : Part(q, step)' = Part(q, step)
  BY DEF Part
<1>3. Part(p, step)' \in Nat
  <2>1. batch'[p] \in Seq(Items)
    BY BatchTyped DEF QueueTypes
  <2> QED  BY <2>1, LenProperties DEF Part
<1>4. CASE p = "main"
  BY <1>1, <1>2, <1>3, <1>4 DEF Carried, Producers
<1>5. CASE p = "watcher"
  BY <1>1, <1>2, <1>3, <1>5 DEF Carried, Producers
<1> QED  BY <1>4, <1>5 DEF Producers

LEMMA IdleCarries ==
    ASSUME enq["main"] = "idle", enq["watcher"] = "idle"
    PROVE  Carried("send") = 0 /\ Carried("pending") = 0
BY DEF Carried, Part

LEMMA LengthKept ==
    ASSUME TypeOK, TypeOK', ControlInv, LengthInv, [Next]_vars
    PROVE  LengthInv'
<1>0. QueueTypes /\ MainTypes /\ PoolTypes /\ QueueTypes'
  BY Types DEF TypeOK, QueueTypes
<1>1. CASE UNCHANGED <<queue, enqueue>>
  BY <1>1 DEF LengthInv, Carried, Part, queue, enqueue
<1>2. CASE \/ Quiet \/ LoadCheckpoint \/ IgnoreSaved \/ SnapshotItems \/ WriteCheckpoint
           \/ ClearCheckpoint
  BY <1>1, <1>2, QuietKept
     DEF LoadCheckpoint, IgnoreSaved, SnapshotItems, WriteCheckpoint, ClearCheckpoint
<1>3. CASE Resume
  <2>1. enq["main"] = "idle" /\ enq["watcher"] = "idle"
    BY <1>3 DEF Resume, ControlInv
  <2>2. /\ enq'["main"] = "idle" /\ enq'["watcher"] = "idle"
        /\ channel' = file /\ snapshot' = file /\ pending' = Len(file)
    BY <1>3, <2>1 DEF Resume, enqueue
  <2>3. Carried("send")' = 0 /\ Carried("pending")' = 0
    <3>1. /\ Part("main", "send")' = 0 /\ Part("watcher", "send")' = 0
          /\ Part("main", "pending")' = 0 /\ Part("watcher", "pending")' = 0
      BY <2>2 DEF Part
    <3> QED  BY <3>1 DEF Carried
  <2>4. Len(file) \in Nat
    BY <1>3, LenProperties DEF ControlInv, Resume
  <2> QED  BY <2>2, <2>3, <2>4 DEF LengthInv
<1>4. ASSUME NEW p \in Producers, Enqueues(p) \/ \E b \in Batches : Extends(p, b)
      PROVE  LengthInv'
  <2>1. \A q \in Producers \ {p} : enq'[q] = enq[q] /\ batch'[q] = batch[q]
    BY <1>0, <1>4
       DEF Enqueues, SendBatch, AddBatchLen, BatchQueued, Extends, Extend, QueueTypes
  <2> DEFINE s0 == Carried("send")
             p0 == Carried("pending")
  <2>2. /\ s0' = s0 - Part(p, "send") + Part(p, "send")'
        /\ p0' = p0 - Part(p, "pending") + Part(p, "pending")'
    BY <1>0, <2>1, CarriedChange
  <2>3. /\ s0 \in Nat /\ p0 \in Nat /\ Len(channel) \in Nat /\ Len(snapshot) \in Nat /\ pending \in Int
        /\ Len(snapshot) = Len(channel) + s0 /\ pending = Len(channel) - p0
    BY <1>0, PartTyped, LenProperties DEF QueueTypes, LengthInv
  <2> DEFINE n == Len(batch[p])
  <2>4. batch[p] \in Seq(Items) /\ n \in Nat
    <3>1. batch[p] \in Seq(Items)
      BY <1>0, BatchTyped DEF QueueTypes
    <3> QED  BY <3>1, LenProperties
  <2> HIDE DEF s0, p0, n
  <2>5. CASE SendBatch(p)
    <3>1. /\ channel' = channel \o batch[p] /\ UNCHANGED <<snapshot, pending, batch>>
          /\ enq[p] = "send" /\ enq'[p] = "pending"
      BY <1>0, <2>5 DEF SendBatch, QueueTypes
    <3>2. Len(channel') = Len(channel) + n
      BY <1>0, <2>4, <3>1, ConcatRange DEF QueueTypes, n
    <3>3. Part(p, "send") = n /\ Part(p, "send")' = 0 /\ Part(p, "pending") = 0 /\ Part(p, "pending")' = n
      BY <3>1 DEF Part, n
    <3>4. Len(snapshot') = Len(snapshot) /\ pending' = pending
      BY <3>1
    <3>5. Len(snapshot') = Len(channel') + s0' /\ pending' = Len(channel') - p0'
      BY <2>2, <2>3, <2>4, <3>2, <3>3, <3>4
    <3> QED  BY <3>5 DEF LengthInv, s0, p0
  <2>6. CASE AddBatchLen(p)
    <3>1. /\ UNCHANGED <<channel, snapshot, batch>> /\ pending' = pending + n
          /\ enq[p] = "pending" /\ enq'[p] = "revision"
      BY <1>0, <2>6 DEF AddBatchLen, QueueTypes, n
    <3>2. Part(p, "send") = 0 /\ Part(p, "send")' = 0 /\ Part(p, "pending") = n /\ Part(p, "pending")' = 0
      BY <3>1 DEF Part, n
    <3>3. Len(snapshot') = Len(channel') + s0' /\ pending' = Len(channel') - p0'
      BY <2>2, <2>3, <2>4, <3>1, <3>2
    <3> QED  BY <3>3 DEF LengthInv, s0, p0
  <2>7. CASE BatchQueued(p)
    <3>1. /\ UNCHANGED <<channel, snapshot, pending, batch>>
          /\ enq[p] = "revision" /\ enq'[p] = "idle"
      BY <1>0, <2>7 DEF BatchQueued, QueueTypes
    <3>2. Part(p, "send") = 0 /\ Part(p, "send")' = 0 /\ Part(p, "pending") = 0 /\ Part(p, "pending")' = 0
      BY <3>1 DEF Part
    <3>3. Len(snapshot') = Len(channel') + s0' /\ pending' = Len(channel') - p0'
      BY <2>2, <2>3, <3>1, <3>2
    <3> QED  BY <3>3 DEF LengthInv, s0, p0
  <2>8. ASSUME NEW b \in Batches, Extends(p, b)
        PROVE  LengthInv'
    <3>1. /\ UNCHANGED <<channel, pending>> /\ snapshot' = snapshot \o b
          /\ enq[p] = "idle" /\ enq'[p] = "send" /\ batch'[p] = b
      BY <1>0, <2>8 DEF Extends, Extend, QueueTypes
    <3>2. Len(snapshot') = Len(snapshot) + Len(b) /\ Len(b) \in Nat
      BY <1>0, <3>1, BatchTyped, ConcatRange DEF QueueTypes
    <3>3. Part(p, "send") = 0 /\ Part(p, "send")' = Len(b) /\ Part(p, "pending") = 0 /\ Part(p, "pending")' = 0
      BY <3>1 DEF Part
    <3>4. Len(snapshot') = Len(channel') + s0' /\ pending' = Len(channel') - p0'
      BY <2>2, <2>3, <3>1, <3>2, <3>3
    <3> QED  BY <3>4 DEF LengthInv, s0, p0
  <2> QED  BY <1>4, <2>5, <2>6, <2>7, <2>8 DEF Enqueues
<1>5. ASSUME NEW w \in Workers, Take(w)
      PROVE  LengthInv'
  <2>1. /\ channel # <<>> /\ channel' = Tail(channel) /\ pending' = pending - 1
        /\ snapshot' = IF snapshot = <<>> THEN <<>> ELSE Tail(snapshot)
        /\ UNCHANGED <<enq, batch>>
    BY <1>5 DEF Take, enqueue
  <2>2. Len(channel) \in Nat \ {0} /\ Len(channel') = Len(channel) - 1
    BY <1>0, <2>1, TailRange DEF QueueTypes
  <2>3. Carried("send")' = Carried("send") /\ Carried("pending")' = Carried("pending")
    BY <2>1 DEF Carried, Part
  <2>4. Carried("send") \in Nat /\ Carried("pending") \in Nat
    BY <1>0, PartTyped DEF Producers
  <2>5. snapshot # <<>>
    <3>1. Len(snapshot) # 0
      BY <2>2, <2>4 DEF LengthInv
    <3> QED  BY <3>1, EmptyRange
  <2>6. Len(snapshot') = Len(snapshot) - 1 /\ Len(snapshot) \in Nat
    BY <1>0, <2>1, <2>5, TailRange DEF QueueTypes
  <2>7. /\ Len(snapshot) = Len(channel) + Carried("send")
        /\ pending = Len(channel) - Carried("pending")
    BY DEF LengthInv
  <2>8. /\ Len(snapshot') = Len(channel') + Carried("send")'
        /\ pending' = Len(channel') - Carried("pending")'
    BY <1>0, <2>1, <2>2, <2>3, <2>4, <2>6, <2>7
  <2> QED  BY <2>8 DEF LengthInv
<1>6. CASE Restart
  BY <1>6, EmptyRange DEF Restart, LengthInv, Carried, Part, Idle, Producers
<1> QED  BY <1>2, <1>3, <1>4, <1>5, <1>6, Steps

LEMMA SaveKept ==
    ASSUME TypeOK, TypeOK', ControlInv, LengthInv, SaveInv, [Next]_vars
    PROVE  SaveInv'
<1>0. QueueTypes /\ MainTypes /\ QueueTypes'
  BY Types DEF TypeOK, QueueTypes
<1>a. revision \in Nat /\ last_saved \in Nat \cup {-1} /\ last_saved <= revision
  BY <1>0 DEF QueueTypes, SaveInv
<1>1. CASE Quiet
  <2>1. Moves /\ UNCHANGED <<file, snapshot, revision, enq, last_saved, items>>
    BY <1>1, QuietMoves, QuietKept DEF queue, enqueue
  <2>2. /\ AllIdle' <=> AllIdle
        /\ last_saved' = last_saved /\ revision' = revision
    BY <2>1 DEF AllIdle
  <2>3. pc' \in {"snapshot", "write"} => last_saved < revision /\ rev' \in Nat /\ rev' <= revision
    <3>1. pc' \in {"snapshot", "write"} => \/ pc' = pc /\ rev' = rev
                                           \/ rev' = revision /\ revision # last_saved
      BY <1>0, <2>1 DEF Moves, MainTypes
    <3> QED  BY <1>a, <3>1 DEF SaveInv
  <2>4. pc' = "write" => pc = "write" /\ rev' = rev
    BY <1>0, <2>1 DEF Moves, MainTypes
  <2>5. pc' = "clear" /\ last_saved = revision /\ AllIdle => snapshot = <<>>
    <3>1. CASE pc = "clear"
      BY <3>1 DEF SaveInv
    <3>2. CASE pc' = "clear" /\ pc # "clear" /\ AllIdle
      <4>1. pending = 0
        BY <1>0, <2>1, <3>2 DEF Moves, MainTypes
      <4>2. Carried("send") = 0 /\ Carried("pending") = 0
        BY <3>2, IdleCarries DEF AllIdle, Producers
      <4>3. Len(snapshot) = 0
        BY <1>0, <4>1, <4>2, LenProperties DEF LengthInv, QueueTypes
      <4> QED  BY <1>0, <4>3, EmptyOnly DEF QueueTypes
    <3> QED  BY <3>1, <3>2
  <2>6. CheckpointCurrent'
    <3> SUFFICES ASSUME last_saved = revision, AllIdle
                 PROVE  file = IF snapshot = <<>> THEN Absent ELSE snapshot
      BY <2>1, <2>2 DEF CheckpointCurrent, AllIdle
    <3>1. pc \notin {"snapshot", "write"}
      BY <1>a DEF SaveInv
    <3> QED  BY <3>1 DEF SaveInv, CheckpointCurrent, AllIdle
  <2> QED  BY <1>a, <2>1, <2>2, <2>3, <2>4, <2>5, <2>6 DEF SaveInv
<1>2. CASE LoadCheckpoint \/ IgnoreSaved \/ Resume
  <2>1. last_saved' = -1 /\ revision' \in Nat /\ pc' \in {"ask", "options", "loop"}
    BY <1>0, <1>2 DEF LoadCheckpoint, IgnoreSaved, Resume, ControlInv, save, queue, QueueTypes
  <2> QED  BY <2>1 DEF SaveInv, CheckpointCurrent
<1>3. CASE SnapshotItems
  <2>1. UNCHANGED <<snapshot, revision, enq>> /\ last_saved < revision /\ rev \in Nat /\ rev <= revision
    BY <1>3 DEF SnapshotItems, SaveInv, queue, enqueue
  <2>2. CASE snapshot = <<>>
    <3>1. file' = Absent /\ last_saved' = rev /\ pc' = then
      BY <1>3, <2>2 DEF SnapshotItems
    <3>2. pc' \notin {"snapshot", "write", "clear"}
      BY <1>0, <3>1 DEF MainTypes
    <3> QED  BY <2>1, <2>2, <3>1, <3>2 DEF SaveInv, CheckpointCurrent
  <2>3. CASE snapshot # <<>>
    <3>1. items' = snapshot /\ pc' = "write" /\ UNCHANGED <<last_saved, rev>>
      BY <1>3, <2>3 DEF SnapshotItems
    <3> QED  BY <2>1, <2>3, <3>1 DEF SaveInv, CheckpointCurrent
  <2> QED  BY <2>2, <2>3
<1>4. CASE WriteCheckpoint
  <2>1. /\ UNCHANGED <<snapshot, revision, enq>> /\ file' = items /\ last_saved' = rev
        /\ pc = "write" /\ pc' = then
    BY <1>4 DEF WriteCheckpoint, queue, enqueue
  <2>2. pc' \notin {"snapshot", "write", "clear"}
    BY <1>0, <2>1 DEF MainTypes
  <2>3. rev <= revision /\ items # <<>> /\ (rev = revision /\ AllIdle => items = snapshot)
    BY <2>1 DEF SaveInv
  <2> QED  BY <2>1, <2>2, <2>3 DEF SaveInv, CheckpointCurrent, AllIdle
<1>5. CASE ClearCheckpoint
  <2>1. /\ UNCHANGED <<snapshot, revision, enq, last_saved>> /\ file' = Absent
        /\ pc = "clear" /\ pc' = "exited"
    BY <1>5 DEF ClearCheckpoint, queue, enqueue, save
  <2> QED  BY <1>a, <2>1 DEF SaveInv, CheckpointCurrent, AllIdle
<1>6. ASSUME NEW p \in Producers, SendBatch(p) \/ AddBatchLen(p)
      PROVE  SaveInv'
  <2>1. UNCHANGED <<snapshot, revision, save, pc>> /\ enq'[p] # "idle"
    BY <1>0, <1>6 DEF SendBatch, AddBatchLen, QueueTypes
  <2> QED  BY <1>a, <2>1 DEF SaveInv, CheckpointCurrent, AllIdle, save
<1>7. ASSUME NEW p \in Producers, BatchQueued(p)
      PROVE  SaveInv'
  <2>1. UNCHANGED <<snapshot, save, pc>> /\ revision' = revision + 1
    BY <1>7 DEF BatchQueued
  <2>2. /\ last_saved' = last_saved /\ last_saved < revision'
        /\ pc = "write" => rev' = rev /\ rev \in Nat /\ rev < revision'
    BY <1>a, <2>1 DEF SaveInv, save
  <2> QED  BY <1>a, <2>1, <2>2 DEF SaveInv, CheckpointCurrent, save
<1>8. ASSUME NEW p \in Producers, NEW b \in Batches, Extends(p, b)
      PROVE  SaveInv'
  <2>1. /\ UNCHANGED <<revision, save>> /\ enq'[p] = "send" /\ pc' \in {pc, "adding"}
        /\ snapshot' = snapshot \o b
    BY <1>0, <1>8 DEF Extends, Extend, QueueTypes
  <2>2. Range(snapshot) \subseteq Range(snapshot')
    BY <1>0, <2>1, BatchTyped, ConcatRange DEF QueueTypes
  <2>3. enq'[p] # "idle"
    BY <2>1
  <2>4. UNCHANGED <<revision, save>> /\ pc' \in {pc, "adding"}
    BY <2>1
  <2> QED  BY <1>a, <2>2, <2>3, <2>4 DEF SaveInv, CheckpointCurrent, AllIdle, save
<1>9. ASSUME NEW w \in Workers, Take(w)
      PROVE  SaveInv'
  <2>1. UNCHANGED save /\ pc' = pc /\ revision' = revision + 1
    BY <1>9 DEF Take
  <2>2. pc = "pool"
    BY <1>9 DEF Take, ControlInv
  <2> QED  BY <1>a, <2>1, <2>2 DEF SaveInv, CheckpointCurrent, save
<1>10. CASE Restart
  <2>1. last_saved' = -1 /\ revision' = 0 /\ pc' = "load"
    BY <1>10 DEF Restart
  <2> QED  BY <2>1 DEF SaveInv, CheckpointCurrent
<1> QED  BY <1>1, <1>2, <1>3, <1>4, <1>5, <1>6, <1>7, <1>8, <1>9, <1>10, Steps DEF Enqueues

-----------------------------------------------------------------------------
(* Sessions in which no two batches were enqueued at once.  The mirror is  *)
(* the channel and what is about to be sent; a batch whose length is not   *)
(* counted yet is the last thing in the channel. *)

LastSent(p) ==
    \A k \in 0..Len(channel) - 1 :
        k < Len(batch[p]) => channel[Len(channel) - k] = batch[p][Len(batch[p]) - k]

OrderInv ==
    /\ \A p, q \in Producers : enq[p] # "idle" /\ enq[q] # "idle" => p = q
    /\ \A p \in Producers : enq[p] = "send" => snapshot = channel \o batch[p]
    /\ (\A p \in Producers : enq[p] # "send") => snapshot = channel
    /\ \A p \in Producers : enq[p] \in {"pending", "revision"} => LastSent(p)

LEMMA OverlapStays ==
    ASSUME TypeOK, ControlInv, [Next]_vars, ~overlapped'
    PROVE  ~overlapped
<1>1. \A p \in Producers, b \in Batches : Extends(p, b) => ~overlapped
  BY Zenon DEF Extends, Extend
<1>2. \A p \in Producers : Enqueues(p) => ~overlapped
  BY Zenon DEF Enqueues, SendBatch, AddBatchLen, BatchQueued
<1>3. Quiet => ~overlapped
  BY QuietKept, Zenon
<1>4. \/ LoadCheckpoint \/ Resume \/ IgnoreSaved \/ SnapshotItems \/ WriteCheckpoint
      \/ ClearCheckpoint \/ Restart
      => ~overlapped
  BY Zenon
     DEF LoadCheckpoint, Resume, IgnoreSaved, SnapshotItems, WriteCheckpoint, ClearCheckpoint, Restart
<1>5. \A w \in Workers : Take(w) => ~overlapped
  BY Zenon DEF Take
<1> QED  BY <1>1, <1>2, <1>3, <1>4, <1>5, Steps, Zenon

LEMMA ExtendsAlone ==
    ASSUME NEW p \in Producers, NEW b, Extends(p, b), ~overlapped'
    PROVE  AllIdle
BY Zenon DEF Extends, Extend, AllIdle

LEMMA OrderKept ==
    ASSUME TypeOK, ControlInv, OrderInv, [Next]_vars, ~overlapped'
    PROVE  OrderInv'
<1>0. QueueTypes /\ MainTypes
  BY Types
<1>1. CASE UNCHANGED <<queue, enqueue>>
  BY <1>1 DEF OrderInv, LastSent, queue, enqueue
<1>2. CASE \/ Quiet \/ LoadCheckpoint \/ IgnoreSaved \/ SnapshotItems \/ WriteCheckpoint
           \/ ClearCheckpoint
  BY <1>1, <1>2, QuietKept
     DEF LoadCheckpoint, IgnoreSaved, SnapshotItems, WriteCheckpoint, ClearCheckpoint
<1>3. CASE Resume \/ Restart
  <2>1. (\A p \in Producers : enq'[p] = "idle") /\ snapshot' = channel'
    BY <1>3 DEF Resume, Restart, ControlInv, Idle, Producers, enqueue
  <2> QED  BY <2>1 DEF OrderInv
<1>4. ASSUME NEW p \in Producers, Enqueues(p)
      PROVE  OrderInv'
  <2>1. batch[p] \in Seq(Items)
    BY <1>0, BatchTyped DEF QueueTypes
  <2>2. /\ UNCHANGED <<snapshot, batch>> /\ enq[p] # "idle"
        /\ \A q \in Producers \ {p} : enq'[q] = enq[q]
    BY <1>0, <1>4 DEF Enqueues, SendBatch, AddBatchLen, BatchQueued, QueueTypes
  <2>3. \A q \in Producers \ {p} : enq[q] = "idle" /\ enq'[q] = "idle"
    BY <2>2 DEF OrderInv
  <2>4. snapshot' = channel' /\ enq'[p] # "send" /\ (enq'[p] # "idle" => LastSent(p)')
    <3>1. CASE SendBatch(p)
      <4>1. channel' = channel \o batch[p] /\ snapshot = channel \o batch[p] /\ enq'[p] = "pending"
        BY <1>0, <3>1 DEF SendBatch, OrderInv, QueueTypes
      <4>2. /\ Len(channel \o batch[p]) = Len(channel) + Len(batch[p])
            /\ Len(channel) \in Nat /\ Len(batch[p]) \in Nat
            /\ \A k \in 1..Len(batch[p]) : (channel \o batch[p])[Len(channel) + k] = batch[p][k]
        BY <1>0, <2>1, ConcatRange DEF QueueTypes
      <4>3. ASSUME NEW k \in 0..Len(channel') - 1, k < Len(batch[p])
            PROVE  channel'[Len(channel') - k] = batch[p][Len(batch[p]) - k]
        <5>1. Len(batch[p]) - k \in 1..Len(batch[p])
          BY <4>2, <4>3
        <5>2. Len(channel') - k = Len(channel) + (Len(batch[p]) - k)
          BY <4>1, <4>2
        <5> QED  BY <4>1, <4>2, <5>1, <5>2
      <4>4. LastSent(p)'
        BY <2>2, <4>3 DEF LastSent
      <4> QED  BY <2>2, <4>1, <4>4
    <3>2. CASE AddBatchLen(p) \/ BatchQueued(p)
      <4>1. /\ channel' = channel /\ enq[p] \in {"pending", "revision"}
            /\ enq'[p] \in {"revision", "idle"}
        BY <1>0, <3>2 DEF AddBatchLen, BatchQueued, QueueTypes
      <4>2. snapshot = channel /\ LastSent(p)
        BY <2>3, <4>1 DEF OrderInv
      <4> QED  BY <2>2, <4>1, <4>2 DEF LastSent
    <3> QED  BY <1>4, <3>1, <3>2 DEF Enqueues
  <2> QED  BY <2>2, <2>3, <2>4 DEF OrderInv
<1>5. ASSUME NEW p \in Producers, NEW b \in Batches, Extends(p, b)
      PROVE  OrderInv'
  <2>1. \A q \in Producers : enq[q] = "idle"
    BY <1>5, ExtendsAlone DEF AllIdle
  <2>2. /\ channel' = channel /\ snapshot' = snapshot \o b
        /\ enq'[p] = "send" /\ batch'[p] = b /\ \A q \in Producers \ {p} : enq'[q] = enq[q]
    BY <1>0, <1>5 DEF Extends, Extend, QueueTypes
  <2>3. snapshot = channel
    BY <2>1 DEF OrderInv
  <2> QED  BY <2>1, <2>2, <2>3 DEF OrderInv
<1>6. ASSUME NEW w \in Workers, Take(w)
      PROVE  OrderInv'
  <2>1. /\ UNCHANGED <<enq, batch>> /\ channel # <<>> /\ channel' = Tail(channel)
        /\ snapshot' = IF snapshot = <<>> THEN <<>> ELSE Tail(snapshot)
    BY <1>6 DEF Take, enqueue
  <2>2. ASSUME NEW p \in Producers, enq[p] = "send"
        PROVE  snapshot' = channel' \o batch[p]
    <3>1. batch[p] \in Seq(Items) /\ snapshot = channel \o batch[p]
      BY <1>0, <2>2, BatchTyped DEF QueueTypes, OrderInv
    <3>2. channel \o batch[p] # <<>> /\ Tail(channel \o batch[p]) = Tail(channel) \o batch[p]
      BY <1>0, <2>1, <3>1, TailConcat DEF QueueTypes
    <3> QED  BY <2>1, <3>1, <3>2, Zenon
  <2>3. snapshot = channel => snapshot' = channel'
    BY <2>1
  <2>4. ASSUME NEW p \in Producers, LastSent(p)
        PROVE  LastSent(p)'
    <3>1. /\ Len(channel) \in Nat \ {0} /\ Len(channel') = Len(channel) - 1
          /\ \A k \in 1..Len(channel') : channel'[k] = channel[k + 1]
      BY <1>0, <2>1, TailRange DEF QueueTypes
    <3>2. ASSUME NEW k \in 0..Len(channel') - 1, k < Len(batch[p])
          PROVE  channel'[Len(channel') - k] = batch[p][Len(batch[p]) - k]
      <4>1. Len(channel') - k \in 1..Len(channel') /\ (Len(channel') - k) + 1 = Len(channel) - k
        BY <3>1
      <4>2. channel'[Len(channel') - k] = channel[Len(channel) - k] /\ k \in 0..Len(channel) - 1
        BY <3>1, <4>1
      <4> QED  BY <2>4, <3>2, <4>2 DEF LastSent
    <3> QED  BY <2>1, <3>2 DEF LastSent
  <2> QED  BY <2>1, <2>2, <2>3, <2>4 DEF OrderInv
<1> QED  BY <1>2, <1>3, <1>4, <1>5, <1>6, Steps

(* The items of batches that are being enqueued, and the other pending     *)
(* ones: these are in the file when it is up to date. *)
InFlight == UNION {Range(batch[p]) : p \in {q \in Producers : enq[q] # "idle"}}
Settled  == Range(snapshot) \ InFlight

FileInv ==
    /\ pc \notin {"snapshot", "write"} /\ last_saved = revision =>
           Settled \subseteq Saved /\ Saved \subseteq Range(snapshot)
    /\ pc = "write" /\ rev = revision => Settled \subseteq Range(items)
    /\ pc = "clear" /\ last_saved = revision => Settled = {}

LEMMA ReturnedSettled ==
    ASSUME QueueTypes, OrderInv
    PROVE  Returned \subseteq Settled
<1>1. CASE \E p \in Producers : enq[p] = "send"
  <2>1. PICK p \in Producers : enq[p] = "send"
    BY <1>1
  <2>2. snapshot = channel \o batch[p] /\ batch[p] \in Seq(Items)
    BY <2>1, BatchTyped DEF OrderInv, QueueTypes
  <2>3. Range(channel \o batch[p]) = Range(channel) \cup Range(batch[p])
    BY <2>2, ConcatRange DEF QueueTypes
  <2>4. Range(channel) \subseteq Range(snapshot)
    BY <2>2, <2>3, Zenon
  <2> QED  BY <2>4 DEF Returned, Settled, InFlight
<1>2. CASE \A p \in Producers : enq[p] # "send"
  <2>1. snapshot = channel
    BY <1>2 DEF OrderInv
  <2> QED  BY <2>1 DEF Returned, Settled, InFlight
<1> QED  BY <1>1, <1>2

LEMMA EmptySettled ==
    ASSUME QueueTypes, OrderInv, LengthInv, pending = 0
    PROVE  Settled = {}
<1>0. Len(channel) \in Nat /\ Len(channel) = Carried("pending")
  <2>1. Len(channel) \in Nat /\ Carried("pending") \in Nat
    BY PartTyped, LenProperties DEF QueueTypes, Producers
  <2> QED  BY <2>1 DEF LengthInv
<1>1. CASE AllIdle
  <2>1. Carried("send") = 0 /\ Carried("pending") = 0
    BY <1>1, IdleCarries DEF AllIdle, Producers
  <2>2. Len(snapshot) = 0
    BY <1>0, <2>1 DEF LengthInv
  <2> QED  BY <2>2, EmptyOnly, EmptyRange DEF Settled, QueueTypes
<1>2. ASSUME NEW p \in Producers, enq[p] # "idle"
      PROVE  Settled = {}
  <2>1. batch[p] \in Seq(Items) /\ Len(batch[p]) \in Nat
    <3>1. batch[p] \in Seq(Items)
      BY BatchTyped DEF QueueTypes
    <3> QED  BY <3>1, LenProperties
  <2>2. \A q \in Producers \ {p} : enq[q] = "idle"
    BY <1>2 DEF OrderInv
  <2>3. Carried("pending") = Part(p, "pending")
    <3>1. \A q \in Producers \ {p} : Part(q, "pending") = 0
      BY <2>2 DEF Part
    <3>2. Part(p, "pending") \in Nat
      BY PartTyped
    <3> QED  BY <3>1, <3>2 DEF Carried, Producers
  <2>4. Range(batch[p]) \subseteq InFlight
    BY <1>2 DEF InFlight
  <2>5. CASE enq[p] = "pending"
    <3>1. snapshot = channel /\ LastSent(p) /\ Len(channel) = Len(batch[p])
      BY <1>0, <2>2, <2>3, <2>5 DEF OrderInv, Part
    <3>2. ASSUME NEW k \in 1..Len(channel)
          PROVE  channel[k] \in Range(batch[p])
      <4>1. Len(channel) - k \in 0..Len(channel) - 1 /\ Len(channel) - (Len(channel) - k) = k
        BY <1>0
      <4>2. Len(channel) - k < Len(batch[p])
        BY <1>0, <3>1, <4>1
      <4>3. channel[Len(channel) - (Len(channel) - k)] = batch[p][Len(batch[p]) - (Len(channel) - k)]
        BY <3>1, <4>1, <4>2 DEF LastSent
      <4>4. channel[k] = batch[p][k] /\ k \in 1..Len(batch[p])
        BY <3>1, <4>1, <4>3, Zenon
      <4> QED  BY <2>1, <4>4, LenProperties DEF Range
    <3>3. Range(channel) \subseteq Range(batch[p])
      BY <3>2, LenProperties DEF Range, QueueTypes
    <3> QED  BY <2>4, <3>1, <3>3 DEF Settled
  <2>6. CASE enq[p] # "pending"
    <3>1. channel = <<>>
      BY <1>0, <2>3, <2>6, EmptyOnly DEF Part, QueueTypes
    <3>2. CASE enq[p] = "send"
      <4>1. snapshot = channel \o batch[p]
        BY <3>2 DEF OrderInv
      <4>2. Range(channel \o batch[p]) = Range(channel) \cup Range(batch[p])
        BY <2>1, ConcatRange DEF QueueTypes
      <4>3. Range(snapshot) = Range(batch[p])
        BY <3>1, <4>1, <4>2, EmptyRange, Zenon
      <4> QED  BY <2>4, <4>3 DEF Settled
    <3>3. CASE enq[p] # "send"
      <4>1. snapshot = channel
        BY <2>2, <3>3 DEF OrderInv
      <4> QED  BY <3>1, <4>1, EmptyRange DEF Settled
    <3> QED  BY <3>2, <3>3
  <2> QED  BY <2>5, <2>6
<1> QED  BY <1>1, <1>2 DEF AllIdle

LEMMA SettledSame ==
    ASSUME UNCHANGED <<snapshot, enq, batch>>
    PROVE  Settled' = Settled /\ InFlight' = InFlight
BY DEF Settled, InFlight

LEMMA SettledSent ==
    ASSUME QueueTypes, NEW p \in Producers, SendBatch(p) \/ AddBatchLen(p)
    PROVE  Settled' = Settled /\ InFlight' = InFlight
<1>1. /\ UNCHANGED <<snapshot, batch>>
      /\ \A q \in Producers : enq'[q] # "idle" <=> enq[q] # "idle"
  BY DEF SendBatch, AddBatchLen, QueueTypes
<1>2. {q \in Producers : enq'[q] # "idle"} = {q \in Producers : enq[q] # "idle"}
  BY <1>1
<1>3. InFlight' = InFlight
  BY <1>1, <1>2, Zenon DEF InFlight
<1> QED  BY <1>1, <1>3 DEF Settled

LEMMA SettledQueued ==
    ASSUME QueueTypes, NEW p \in Producers, BatchQueued(p)
    PROVE  Settled \subseteq Settled' /\ InFlight' \subseteq InFlight
<1>1. /\ UNCHANGED <<snapshot, batch>>
      /\ \A q \in Producers : enq'[q] # "idle" => enq[q] # "idle"
  BY DEF BatchQueued, QueueTypes
<1>2. InFlight' \subseteq InFlight
  BY <1>1 DEF InFlight
<1> QED  BY <1>1, <1>2 DEF Settled

LEMMA SettledExtends ==
    ASSUME QueueTypes, AllIdle, NEW p \in Producers, NEW b \in Batches, Extends(p, b)
    PROVE  /\ Settled = Range(snapshot) /\ InFlight = {} /\ InFlight' = Range(b)
           /\ Range(snapshot') = Range(snapshot) \cup Range(b)
           /\ Settled' = Settled \ Range(b)
<1>1. /\ snapshot' = snapshot \o b /\ enq'[p] = "send" /\ batch'[p] = b
      /\ \A q \in Producers \ {p} : enq'[q] = "idle"
  BY DEF Extends, Extend, AllIdle, QueueTypes
<1>2. InFlight = {}
  BY DEF InFlight, AllIdle
<1>3. InFlight' = Range(b)
  <2>1. {q \in Producers : enq'[q] # "idle"} = {p}
    BY <1>1
  <2>2. InFlight' = UNION {Range(batch'[q]) : q \in {p}}
    BY <2>1, Zenon DEF InFlight
  <2> QED  BY <1>1, <2>2
<1>4. Range(snapshot \o b) = Range(snapshot) \cup Range(b)
  BY BatchTyped, ConcatRange DEF QueueTypes
<1>5. Range(snapshot') = Range(snapshot) \cup Range(b)
  BY <1>1, <1>4, Zenon
<1> QED  BY <1>2, <1>3, <1>5 DEF Settled

LEMMA FileKept ==
    ASSUME TypeOK, TypeOK', ControlInv, LengthInv, SaveInv, OrderInv, FileInv, [Next]_vars,
           ~overlapped'
    PROVE  FileInv'
<1>0. QueueTypes /\ MainTypes /\ QueueTypes'
  BY Types DEF TypeOK, QueueTypes
<1>a. revision \in Nat /\ last_saved \in Nat \cup {-1} /\ last_saved <= revision
  BY <1>0 DEF QueueTypes, SaveInv
<1>b. file' = Absent => Saved' = {}
  BY DEF Saved
<1>1. CASE Quiet
  <2>1. /\ Moves /\ UNCHANGED <<file, snapshot, revision, enq, batch, last_saved, items>>
    BY <1>1, QuietMoves, QuietKept DEF queue, enqueue
  <2>2. Settled' = Settled /\ Saved' = Saved
    BY <2>1, SettledSame DEF Saved
  <2>3. pc' = "write" => pc = "write" /\ rev' = rev
    BY <1>0, <2>1 DEF Moves, MainTypes
  <2>4. pc' = "clear" => pc = "clear" \/ pending = 0
    BY <1>0, <2>1 DEF Moves, MainTypes
  <2>5. pc \in {"snapshot", "write"} => last_saved # revision
    BY <1>a DEF SaveInv
  <2>6. pending = 0 => Settled = {}
    BY <1>0, EmptySettled
  <2> QED  BY <2>1, <2>2, <2>3, <2>4, <2>5, <2>6 DEF FileInv
<1>2. CASE LoadCheckpoint \/ IgnoreSaved \/ Resume \/ Restart
  <2>1. last_saved' = -1 /\ revision' \in Nat /\ pc' \in {"ask", "options", "loop", "load"}
    BY <1>0, <1>2 DEF LoadCheckpoint, IgnoreSaved, Resume, Restart, ControlInv, save, queue, QueueTypes
  <2> QED  BY <2>1 DEF FileInv
<1>3. CASE SnapshotItems
  <2>1. UNCHANGED <<snapshot, revision, enq, batch>>
    BY <1>3 DEF SnapshotItems, queue, enqueue
  <2>2. Settled' = Settled /\ Settled \subseteq Range(snapshot)
    BY <2>1, SettledSame DEF Settled
  <2>3. CASE snapshot = <<>>
    <3>1. file' = Absent /\ pc' = then
      BY <1>3, <2>3 DEF SnapshotItems
    <3>2. pc' \notin {"snapshot", "write", "clear"}
      BY <1>0, <3>1 DEF MainTypes
    <3>3. Settled = {}
      BY <2>2, <2>3, EmptyRange
    <3> QED  BY <1>b, <2>2, <3>1, <3>2, <3>3 DEF FileInv
  <2>4. CASE snapshot # <<>>
    <3>1. items' = snapshot /\ pc' = "write"
      BY <1>3, <2>4 DEF SnapshotItems
    <3> QED  BY <2>2, <3>1 DEF FileInv
  <2> QED  BY <2>3, <2>4
<1>4. CASE WriteCheckpoint
  <2>1. /\ UNCHANGED <<snapshot, revision, enq, batch>> /\ file' = items /\ last_saved' = rev
        /\ pc = "write" /\ pc' = then
    BY <1>4 DEF WriteCheckpoint, queue, enqueue
  <2>2. pc' \notin {"snapshot", "write", "clear"}
    BY <1>0, <2>1 DEF MainTypes
  <2>3. Settled' = Settled
    BY <2>1, SettledSame
  <2>4. Saved' = Range(items)
    <3>1. items \notin {Absent, Torn}
      BY <1>0, SessionAssumption DEF QueueTypes
    <3> QED  BY <2>1, <3>1 DEF Saved
  <2>5. Range(items) \subseteq Range(snapshot) /\ (rev = revision => Settled \subseteq Range(items))
    BY <2>1 DEF SaveInv, FileInv
  <2> QED  BY <2>1, <2>2, <2>3, <2>4, <2>5 DEF FileInv
<1>5. CASE ClearCheckpoint
  <2>1. /\ UNCHANGED <<snapshot, revision, enq, batch, last_saved>> /\ file' = Absent
        /\ pc = "clear" /\ pc' = "exited"
    BY <1>5 DEF ClearCheckpoint, queue, enqueue, save
  <2> QED  BY <1>b, <2>1, SettledSame DEF FileInv
<1>6. ASSUME NEW p \in Producers, SendBatch(p) \/ AddBatchLen(p)
      PROVE  FileInv'
  <2>1. UNCHANGED <<file, snapshot, revision, save, pc>>
    BY <1>6 DEF SendBatch, AddBatchLen
  <2>2. Settled' = Settled /\ Saved' = Saved
    BY <1>0, <1>6, <2>1, SettledSent DEF Saved
  <2> QED  BY <2>1, <2>2 DEF FileInv, save
<1>7. CASE (\E p \in Producers : BatchQueued(p)) \/ (\E w \in Workers : Take(w))
  <2>1. UNCHANGED save /\ pc' = pc /\ revision' = revision + 1
    BY <1>7 DEF BatchQueued, Take
  <2>2. last_saved' # revision' /\ (pc' = "write" => rev' # revision')
    BY <1>a, <2>1 DEF SaveInv, save
  <2> QED  BY <2>2 DEF FileInv
<1>8. ASSUME NEW p \in Producers, NEW b \in Batches, Extends(p, b)
      PROVE  FileInv'
  <2>1. UNCHANGED <<file, revision, save>> /\ pc' \in {pc, "adding"}
    BY <1>8 DEF Extends, Extend
  <2>2. Settled' \subseteq Settled /\ Range(snapshot) \subseteq Range(snapshot') /\ Saved' = Saved
    BY <1>0, <1>8, <2>1, ExtendsAlone, SettledExtends DEF Saved
  <2>3. pc' = "adding" /\ pc' # pc => pc \in {"options", "prompt"}
    BY <1>8 DEF Extends
  <2> QED  BY <2>1, <2>2, <2>3 DEF FileInv, save
<1> QED  BY <1>1, <1>2, <1>3, <1>4, <1>5, <1>6, <1>7, <1>8, Steps DEF Enqueues

-----------------------------------------------------------------------------
(* No item is twice in the mirror or in the file, and those of the devices *)
(* that have not appeared are nowhere yet. *)

Seen == Range(snapshot) \cup Saved \cup secured \cup {i \in Items : times[i] # 0}
            \cup (IF pc = "write" THEN Range(items) ELSE {})

NewInv ==
    /\ IsInjective(snapshot)
    /\ file \in Seq(Items) => IsInjective(file)
    /\ pc = "write" => IsInjective(items)
    /\ \A k \in 1..Len(watched) : Range(watched[k]) \cap Seen = {}

LEMMA FileChange ==
    ASSUME QueueTypes
    PROVE  /\ file' \in {Absent, Torn} => Saved' = {} /\ file' \notin Seq(Items)
           /\ file' = items => Saved' = Range(items)
           /\ file' = file => Saved' = Saved
<1>1. items \notin {Absent, Torn} /\ {Absent, Torn} \cap Seq(Items) = {}
  BY SessionAssumption DEF QueueTypes
<1> QED  BY <1>1 DEF Saved

(* What a new batch shares with the rest. *)
LEMMA BatchNew ==
    ASSUME TypeOK, ControlInv, NewInv, NEW p \in Producers, NEW b \in Batches, Extends(p, b)
    PROVE  /\ IsInjective(b) /\ Range(b) \subseteq Items
           /\ \A i \in Range(b) : i \notin Range(snapshot) \cup secured /\ times[i] = 0
           /\ \A k \in 1..Len(watched') :
                /\ Range(watched'[k]) \cap Range(b) = {}
                /\ \E j \in 1..Len(watched) : watched'[k] = watched[j]
<1>1. IsInjective(b)
  BY SessionAssumption
<1>2. Range(b) \subseteq Items
  BY BatchTyped, RangeTyped
<1>3. PICK n \in Nat : Appeared(n)
  BY DEF ControlInv
<1>4. watched \in Seq(Seq(Items)) /\ Len(watched) \in Nat
  BY LenProperties DEF TypeOK
<1>5. \A k \in 1..Len(watched) : k + n \in DOMAIN Watched /\ watched[k] = Watched[k + n]
  <2>1. DOMAIN Watched = 1..Len(Watched) /\ Len(Watched) \in Nat
    BY SessionAssumption, LenProperties
  <2> QED  BY <1>3, <1>4, <2>1 DEF Appeared
<1>6. CASE p = "main"
  <2>1. Fresh(b) /\ b \in Mapped \cup {Added} /\ watched' = watched
    BY <1>6 DEF Extends
  <2>2. \A k \in DOMAIN Watched : Range(Watched[k]) \cap Range(b) = {}
    BY <2>1, SessionAssumption
  <2>3. \A k \in 1..Len(watched) : Range(watched[k]) \cap Range(b) = {}
    BY <1>5, <2>2
  <2> QED  BY <1>1, <1>2, <2>1, <2>3 DEF Fresh
<1>7. CASE p = "watcher"
  <2>1. watched # <<>> /\ b = Head(watched) /\ watched' = Tail(watched)
    BY <1>7 DEF Extends
  <2>2. /\ b = watched[1] /\ 1 \in 1..Len(watched)
        /\ \A k \in 1..Len(watched') : k + 1 \in 1..Len(watched) /\ watched'[k] = watched[k + 1]
    BY <1>3, <1>4, <2>1, NextDevice
  <2>3. \A i \in Range(b) : i \notin Seen
    BY <2>2 DEF NewInv
  <2>4. ASSUME NEW k \in 1..Len(watched')
        PROVE  Range(watched'[k]) \cap Range(b) = {}
    <3>1. /\ b = Watched[1 + n] /\ watched'[k] = Watched[k + 1 + n]
          /\ 1 + n \in DOMAIN Watched /\ k + 1 + n \in DOMAIN Watched
      BY <1>5, <2>2
    <3>2. 1 + n # k + 1 + n
      BY <1>3
    <3>3. Range(Watched[k + 1 + n]) \cap Range(Watched[1 + n]) = {}
      BY <3>1, <3>2, SessionAssumption
    <3> QED  BY <3>1, <3>3
  <2> QED  BY <1>1, <1>2, <2>2, <2>3, <2>4 DEF Seen
<1> QED  BY <1>6, <1>7 DEF Producers

LEMMA TakesHead ==
    ASSUME QueueTypes, OrderInv, NEW w \in Workers, Take(w)
    PROVE  /\ snapshot # <<>> /\ Head(snapshot) = Head(channel) /\ snapshot' = Tail(snapshot)
           /\ Head(channel) \in Items
           /\ Head(channel) \in Range(snapshot)
           /\ Range(snapshot) = Range(snapshot') \cup {Head(channel)}
           /\ IsInjective(snapshot) => IsInjective(snapshot') /\ Head(channel) \notin Range(snapshot')
<1>1. channel # <<>> /\ snapshot' = IF snapshot = <<>> THEN <<>> ELSE Tail(snapshot)
  BY DEF Take
<1>2. snapshot # <<>> /\ Head(snapshot) = Head(channel)
  <2>1. CASE \E p \in Producers : enq[p] = "send"
    <3>1. PICK p \in Producers : enq[p] = "send"
      BY <2>1
    <3>2. snapshot = channel \o batch[p] /\ batch[p] \in Seq(Items)
      BY <3>1, BatchTyped DEF OrderInv, QueueTypes
    <3>3. channel \o batch[p] # <<>> /\ Head(channel \o batch[p]) = Head(channel)
      BY <1>1, <3>2, TailConcat DEF QueueTypes
    <3> QED  BY <3>2, <3>3, Zenon
  <2>2. CASE \A p \in Producers : enq[p] # "send"
    BY <1>1, <2>2 DEF OrderInv
  <2> QED  BY <2>1, <2>2
<1>3. snapshot' = Tail(snapshot)
  BY <1>1, <1>2
<1> QED  BY <1>2, <1>3, TailRange DEF QueueTypes

LEMMA NewKept ==
    ASSUME TypeOK, TypeOK', ControlInv, OrderInv, NewInv, [Next]_vars
    PROVE  NewInv'
<1>0. QueueTypes /\ MainTypes /\ PoolTypes
  BY Types
<1>a. ASSUME UNCHANGED watched, Seen' \subseteq Seen
      PROVE  \A k \in 1..Len(watched') : Range(watched'[k]) \cap Seen' = {}
  BY <1>a DEF NewInv
<1>1. CASE Quiet
  <2>1. Moves /\ UNCHANGED <<file, snapshot, items, watched, times, secured>>
    BY <1>1, QuietMoves, QuietKept DEF queue
  <2>2. pc' = "write" => pc = "write"
    BY <1>0, <2>1 DEF Moves, MainTypes
  <2>3. Seen' \subseteq Seen
    BY <1>0, <2>1, <2>2, FileChange DEF Seen
  <2> QED  BY <1>a, <2>1, <2>2, <2>3 DEF NewInv
<1>2. CASE \/ LoadCheckpoint \/ IgnoreSaved \/ ClearCheckpoint
  <2>1. /\ UNCHANGED <<snapshot, watched, times, secured>> /\ pc' \in {"ask", "options", "exited"}
        /\ file' = file \/ file' = Absent
    BY <1>2 DEF LoadCheckpoint, IgnoreSaved, ClearCheckpoint, queue, pool
  <2>2. Seen' \subseteq Seen
    BY <1>0, <2>1, FileChange DEF Seen
  <2> QED  BY <1>0, <1>a, <2>1, <2>2, FileChange DEF NewInv
<1>3. CASE Resume
  <2>1. /\ UNCHANGED <<file, watched, times, secured>> /\ pc' = "loop" /\ snapshot' = file
        /\ file \in Seq(Items)
    BY <1>3 DEF Resume, pool, ControlInv
  <2>2. Saved' = Range(file) /\ Saved = Range(file)
    BY <1>0, <2>1, SavedIs, FileChange
  <2>3. Seen' \subseteq Seen
    BY <2>1, <2>2 DEF Seen
  <2> QED  BY <1>a, <2>1, <2>3 DEF NewInv
<1>4. CASE SnapshotItems
  <2>1. UNCHANGED <<snapshot, watched, times, secured>> /\ file' \in {Absent, Torn}
    BY <1>4 DEF SnapshotItems, queue, pool
  <2>2. pc' = "write" => items' = snapshot
    BY <1>0, <1>4 DEF SnapshotItems, MainTypes
  <2>3. Seen' \subseteq Seen
    BY <1>0, <2>1, <2>2, FileChange DEF Seen
  <2> QED  BY <1>0, <1>a, <2>1, <2>2, <2>3, FileChange DEF NewInv
<1>5. CASE WriteCheckpoint
  <2>1. /\ UNCHANGED <<snapshot, watched, times>> /\ secured' \subseteq secured \cup Range(items)
        /\ file' = items /\ pc = "write" /\ pc' = then
    BY <1>5 DEF WriteCheckpoint, queue, pool
  <2>2. pc' # "write"
    BY <1>0, <2>1 DEF MainTypes
  <2>3. Seen' \subseteq Seen
    BY <1>0, <2>1, <2>2, FileChange DEF Seen
  <2> QED  BY <1>a, <2>1, <2>2, <2>3 DEF NewInv
<1>6. ASSUME NEW p \in Producers, Enqueues(p)
      PROVE  NewInv'
  <2>1. UNCHANGED <<file, snapshot, items, watched, times, secured, pc>>
    BY <1>6 DEF Enqueues, SendBatch, AddBatchLen, BatchQueued, save, pool
  <2>2. Seen' \subseteq Seen
    BY <1>0, <2>1, FileChange DEF Seen
  <2> QED  BY <1>a, <2>1, <2>2 DEF NewInv
<1>7. ASSUME NEW p \in Producers, NEW b \in Batches, Extends(p, b)
      PROVE  NewInv'
  <2>1. /\ UNCHANGED <<file, items, times, secured>> /\ pc' \in {pc, "adding"}
        /\ snapshot' = snapshot \o b
    BY <1>7 DEF Extends, Extend, save, pool
  <2>2. /\ IsInjective(b) /\ Range(b) \subseteq Items
        /\ \A i \in Range(b) : i \notin Range(snapshot) \cup secured /\ times[i] = 0
        /\ \A k \in 1..Len(watched') :
             /\ Range(watched'[k]) \cap Range(b) = {}
             /\ \E j \in 1..Len(watched) : watched'[k] = watched[j]
    BY <1>7, BatchNew
  <2>3. /\ Range(snapshot \o b) = Range(snapshot) \cup Range(b)
        /\ IsInjective(snapshot \o b)
    BY <1>0, <2>2, BatchTyped, ConcatRange DEF QueueTypes, NewInv
  <2>4. IsInjective(snapshot') /\ Range(snapshot') = Range(snapshot) \cup Range(b)
    BY <2>1, <2>3, Zenon
  <2>5. Seen' \subseteq Seen \cup Range(b)
    <3>1. Saved' = Saved
      BY <1>0, <2>1, FileChange
    <3> QED  BY <2>1, <2>4, <3>1 DEF Seen
  <2>6. \A k \in 1..Len(watched') : Range(watched'[k]) \cap Seen' = {}
    BY <2>2, <2>5 DEF NewInv
  <2>7. UNCHANGED <<file, items>> /\ (pc' = "write" => pc = "write")
    BY <2>1
  <2> QED  BY <2>4, <2>6, <2>7 DEF NewInv
<1>8. ASSUME NEW w \in Workers, Take(w)
      PROVE  NewInv'
  <2>1. /\ UNCHANGED <<file, items, watched, secured, pc>>
        /\ times' = [times EXCEPT ![Head(channel)] = @ + 1]
    BY <1>8 DEF Take, save
  <2>2. /\ Head(channel) \in Range(snapshot) /\ Range(snapshot') \subseteq Range(snapshot)
        /\ IsInjective(snapshot')
    BY <1>0, <1>8, TakesHead DEF NewInv
  <2>3. \A i \in Items : times'[i] = times[i] \/ i = Head(channel)
    BY <1>0, <2>1 DEF PoolTypes
  <2>4. Seen' \subseteq Seen
    BY <1>0, <2>1, <2>2, <2>3, FileChange DEF Seen
  <2> QED  BY <1>a, <2>1, <2>2, <2>4 DEF NewInv
<1>9. CASE Restart
  <2>1. UNCHANGED <<file, watched, times, secured>> /\ snapshot' = <<>> /\ pc' = "load"
    BY <1>9 DEF Restart
  <2>2. Seen' \subseteq Seen
    BY <1>0, <2>1, FileChange, EmptyRange DEF Seen
  <2> QED  BY <1>a, <2>1, <2>2, EmptyRange DEF NewInv
<1> QED  BY <1>1, <1>2, <1>3, <1>4, <1>5, <1>6, <1>7, <1>8, <1>9, Steps

-----------------------------------------------------------------------------
(* NoRedo: an item that is pending, or in a file that a restart may resume *)
(* without a crash, was given to a worker no more than once per crash. *)

BatchRuns == pc = "pool" \/ (pc \in {"save", "snapshot"} /\ then = "after")

TimesInv ==
    /\ \A i \in Items : times[i] <= 1 + crashes
    /\ \A i \in Range(snapshot) : times[i] <= crashes
    /\ ~BatchRuns => \A i \in Saved : times[i] <= crashes

LEMMA TimesKept ==
    ASSUME TypeOK, TypeOK', ControlInv, SaveInv, OrderInv, FileInv, NewInv, TimesInv, [Next]_vars
    PROVE  TimesInv'
<1>0. QueueTypes /\ MainTypes /\ PoolTypes
  BY Types
<1>a. /\ crashes \in Nat /\ \A i \in Items : times[i] \in Nat
      /\ Range(snapshot) \subseteq Items /\ Saved \subseteq Items
  BY <1>0, RangeTyped, SavedIs DEF QueueTypes, PoolTypes
<1>1. CASE Quiet
  <2>1. Moves /\ UNCHANGED <<file, snapshot, times, last_saved, revision>>
    BY <1>1, QuietMoves, QuietKept DEF queue
  <2>2. Saved' = Saved
    BY <1>0, <2>1, FileChange
  <2>3. crashes' = crashes \/ crashes' = crashes + 1
    BY <2>1 DEF Moves
  <2>4. \/ crashes' = crashes + 1
        \/ BatchRuns'
        \/ ~BatchRuns
        \/ pc = "save" /\ revision = last_saved
    BY <1>0, <2>1 DEF Moves, MainTypes, BatchRuns
  <2>5. pc = "save" /\ revision = last_saved => Saved \subseteq Range(snapshot)
    BY DEF FileInv
  <2>6. /\ \A i \in Items : times[i] <= 1 + crashes'
        /\ \A i \in Range(snapshot) : times[i] <= crashes'
    BY <1>a, <2>3 DEF TimesInv
  <2>7. ~BatchRuns' => \A i \in Saved : times[i] <= crashes'
    <3>1. CASE crashes' = crashes + 1
      BY <1>a, <3>1 DEF TimesInv
    <3>2. CASE crashes' = crashes /\ ~BatchRuns
      BY <3>2 DEF TimesInv
    <3>3. CASE crashes' = crashes /\ pc = "save" /\ revision = last_saved
      BY <2>5, <3>3 DEF TimesInv
    <3> QED  BY <2>3, <2>4, <3>1, <3>2, <3>3
  <2> QED  BY <2>1, <2>2, <2>6, <2>7 DEF TimesInv
<1>2. CASE \/ LoadCheckpoint \/ IgnoreSaved \/ ClearCheckpoint \/ SnapshotItems
  <2>1. UNCHANGED <<snapshot, times, crashes>> /\ file' \in {file, Absent, Torn}
    BY <1>2 DEF LoadCheckpoint, IgnoreSaved, ClearCheckpoint, SnapshotItems, queue, pool, runs
  <2>2. file' \in {Absent, Torn} \/ (file' = file /\ ~BatchRuns)
    BY <1>2 DEF LoadCheckpoint, IgnoreSaved, ClearCheckpoint, SnapshotItems, BatchRuns
  <2>3. Saved' = {} \/ (Saved' = Saved /\ ~BatchRuns)
    BY <1>0, <2>2, FileChange
  <2> QED  BY <2>1, <2>3 DEF TimesInv
<1>3. CASE Resume
  <2>1. /\ UNCHANGED <<file, times, crashes>> /\ snapshot' = file /\ pc = "ask"
        /\ file \in Seq(Items)
    BY <1>3 DEF Resume, pool, runs, ControlInv
  <2>2. Range(snapshot') = Saved /\ Saved' = Saved
    BY <1>0, <2>1, SavedIs, FileChange
  <2> QED  BY <2>1, <2>2 DEF TimesInv, BatchRuns
<1>4. CASE WriteCheckpoint
  <2>1. UNCHANGED <<snapshot, times, crashes>> /\ file' = items /\ pc = "write"
    BY <1>4 DEF WriteCheckpoint, queue, pool, runs
  <2>2. Saved' \subseteq Range(snapshot)
    BY <1>0, <2>1, FileChange DEF SaveInv
  <2> QED  BY <2>1, <2>2 DEF TimesInv
<1>5. ASSUME NEW p \in Producers, Enqueues(p)
      PROVE  TimesInv'
  <2>1. UNCHANGED <<file, snapshot, times, crashes, pc, then>>
    BY <1>5 DEF Enqueues, SendBatch, AddBatchLen, BatchQueued, save, pool, runs
  <2> QED  BY <1>0, <2>1, FileChange DEF TimesInv, BatchRuns
<1>6. ASSUME NEW p \in Producers, NEW b \in Batches, Extends(p, b)
      PROVE  TimesInv'
  <2>1. /\ UNCHANGED <<file, times, crashes, then>>
        /\ pc' = pc \/ (pc' = "adding" /\ pc \in {"options", "adding", "prompt"})
        /\ snapshot' = snapshot \o b
    BY <1>6 DEF Extends, Extend, save, pool, runs
  <2>2. \A i \in Range(b) : times[i] = 0
    BY <1>6, BatchNew
  <2>3. Range(snapshot \o b) = Range(snapshot) \cup Range(b)
    BY <1>0, BatchTyped, ConcatRange DEF QueueTypes
  <2>4. Range(snapshot') = Range(snapshot) \cup Range(b)
    BY <2>1, <2>3, Zenon
  <2>5. BatchRuns' <=> BatchRuns
    BY <2>1 DEF BatchRuns
  <2>6. Saved' = Saved
    BY <1>0, <2>1, FileChange
  <2>7. \A i \in Range(snapshot') : times[i] <= crashes
    BY <1>a, <2>2, <2>4 DEF TimesInv
  <2>8. UNCHANGED <<times, crashes>>
    BY <2>1
  <2> QED  BY <2>5, <2>6, <2>7, <2>8 DEF TimesInv
<1>7. ASSUME NEW w \in Workers, Take(w)
      PROVE  TimesInv'
  <2> DEFINE h == Head(channel)
  <2>1. /\ UNCHANGED <<crashes, pc>> /\ times' = [times EXCEPT ![h] = @ + 1]
    BY <1>7 DEF Take, runs
  <2>2. h \in Items /\ h \in Range(snapshot) /\ Range(snapshot) = Range(snapshot') \cup {h} /\ h \notin Range(snapshot')
    BY <1>0, <1>7, TakesHead DEF NewInv
  <2> HIDE DEF h
  <2>3. times'[h] = times[h] + 1 /\ \A i \in Items \ {h} : times'[i] = times[i]
    BY <1>0, <2>1, <2>2 DEF PoolTypes
  <2>4. times[h] <= crashes
    BY <2>2 DEF TimesInv
  <2>5. pc = "pool"
    BY <1>7 DEF Take, ControlInv
  <2>6. \A i \in Items : times'[i] <= 1 + crashes
    BY <1>a, <2>2, <2>3, <2>4 DEF TimesInv
  <2>7. \A i \in Range(snapshot') : times'[i] <= crashes
    BY <1>a, <2>2, <2>3 DEF TimesInv
  <2> QED  BY <2>1, <2>5, <2>6, <2>7 DEF TimesInv, BatchRuns
<1>8. CASE Restart
  <2>1. /\ UNCHANGED <<file, times>> /\ snapshot' = <<>>
        /\ crashes' = crashes + 1 \/ (crashes' = crashes /\ pc \in {"exited", "error", "aborted"})
    BY <1>8 DEF Restart
  <2>2. Saved' = Saved /\ Range(snapshot') = {}
    BY <1>0, <2>1, FileChange, EmptyRange
  <2>3. \A i \in Saved : times[i] <= crashes'
    BY <1>a, <2>1 DEF TimesInv, BatchRuns
  <2>4. \A i \in Items : times[i] <= 1 + crashes'
    BY <1>a, <2>1 DEF TimesInv
  <2> QED  BY <2>1, <2>2, <2>3, <2>4 DEF TimesInv
<1> QED  BY <1>1, <1>2, <1>3, <1>4, <1>5, <1>6, <1>7, <1>8, Steps

-----------------------------------------------------------------------------
(* DueSaved: what the loop saw as pending is among the settled items until *)
(* a save has put it into the file. *)

WatchedItems == UNION {Range(b) : b \in Range(Watched)}

DueInv ==
    /\ pc = "preflight" \/ (pc \in {"save", "snapshot"} /\ then \in {"start_pool", "exited"}) =>
          due \subseteq Settled
    /\ pc = "write" /\ then \in {"start_pool", "exited"} => due \subseteq Range(items)
    /\ pc \in {"start_pool", "pool", "exited"} => due \subseteq Saved
    /\ pc = "clear" => due = {}
    /\ pc = "error" => due \ WatchedItems \subseteq Saved
    /\ pc \in {"loop", "wait", "preflight"} => Range(snapshot) \ WatchedItems \subseteq Saved
    /\ pc = "write" /\ then = "loop" => Range(snapshot) \ WatchedItems \subseteq Range(items)

LEMMA MainSettled ==
    ASSUME ControlInv, pc # "adding"
    PROVE  Range(snapshot) \ WatchedItems \subseteq Settled
<1>1. enq["main"] = "idle"
  BY DEF ControlInv
<1>2. InFlight \subseteq WatchedItems
  <2> SUFFICES ASSUME NEW p \in Producers, enq[p] # "idle"
               PROVE  Range(batch[p]) \subseteq WatchedItems
    BY DEF InFlight
  <2>1. p = "watcher"
    BY <1>1 DEF Producers
  <2> QED  BY <2>1 DEF ControlInv, WatchedItems
<1> QED  BY <1>2 DEF Settled

LEMMA DueKeptQuiet ==
    ASSUME TypeOK, ControlInv, LengthInv, SaveInv, OrderInv, FileInv, DueInv, Quiet
    PROVE  DueInv'
<1>0. QueueTypes /\ MainTypes
  BY Types
<1>1. Moves /\ UNCHANGED <<file, snapshot, enq, batch, items, last_saved, revision>>
  BY QuietMoves, QuietKept DEF queue, enqueue
<1>2. Saved' = Saved /\ Settled' = Settled /\ Range(snapshot') = Range(snapshot)
  BY <1>0, <1>1, FileChange, SettledSame
<1>3. Returned \subseteq Settled /\ Settled \subseteq Range(snapshot) /\ (pending = 0 => Settled = {})
  BY <1>0, ReturnedSettled, EmptySettled DEF Settled
<1>4. pc = "save" /\ revision = last_saved => Settled \subseteq Saved
  BY DEF FileInv
<1>5. pc # "adding" => Range(snapshot) \ WatchedItems \subseteq Settled
  BY MainSettled
<1>6. Range(items') = Range(items) /\ WatchedItems' = WatchedItems
  BY <1>1 DEF WatchedItems
<1>a. pc = "adding" /\ batch["main"] # Added => due = {}
  BY DEF ControlInv
<1>7. \/ pc' = "preflight"
      \/ pc' \in {"save", "snapshot"} /\ then' \in {"start_pool", "exited"}
      => due' \subseteq Settled
  BY <1>0, <1>1, <1>3 DEF Moves, MainTypes, DueInv
<1>8. /\ pc' = "write" /\ then' \in {"start_pool", "exited"} => due' \subseteq Range(items)
      /\ pc' = "write" /\ then' = "loop" => Range(snapshot) \ WatchedItems \subseteq Range(items)
  <2>1. pc' = "write" => pc = "write" /\ then' = then /\ due' = due
    BY <1>0, <1>1 DEF Moves, MainTypes
  <2> QED  BY <2>1 DEF DueInv
<1>9. pc' \in {"start_pool", "pool", "exited"} => due' \subseteq Saved
  BY <1>0, <1>1, <1>4 DEF Moves, MainTypes, DueInv
<1>10. pc' = "clear" => due' = {}
  BY <1>0, <1>1, <1>3 DEF Moves, MainTypes, DueInv
<1>11. pc' = "error" => due' \ WatchedItems \subseteq Saved
  BY <1>0, <1>1, <1>3, <1>a DEF Moves, MainTypes, DueInv
<1>12. pc' \in {"loop", "wait", "preflight"} => Range(snapshot) \ WatchedItems \subseteq Saved
  BY <1>0, <1>1, <1>4, <1>5 DEF Moves, MainTypes, DueInv
<1> QED  BY <1>2, <1>6, <1>7, <1>8, <1>9, <1>10, <1>11, <1>12 DEF DueInv

LEMMA DueKept ==
    ASSUME TypeOK, ControlInv, LengthInv, SaveInv, OrderInv, FileInv, NewInv, DueInv, [Next]_vars,
           ~overlapped'
    PROVE  DueInv'
<1>0. QueueTypes /\ MainTypes
  BY Types
<1>1. CASE Quiet
  BY <1>1, DueKeptQuiet
<1>2. CASE LoadCheckpoint \/ IgnoreSaved \/ Restart
  <2>1. pc' \in {"load", "ask", "options"}
    BY <1>2 DEF LoadCheckpoint, IgnoreSaved, Restart
  <2> QED  BY <2>1 DEF DueInv
<1>3. CASE Resume
  <2>1. pc' = "loop" /\ snapshot' = file /\ file' = file /\ file \in Seq(Items)
    BY <1>3 DEF Resume, ControlInv
  <2>2. Saved' = Range(snapshot')
    BY <1>0, <2>1, SavedIs, FileChange
  <2> QED  BY <2>1, <2>2 DEF DueInv
<1>4. CASE SnapshotItems
  <2>1. UNCHANGED <<snapshot, due, then, enq, batch>> /\ pc = "snapshot"
    BY <1>4 DEF SnapshotItems, queue, enqueue
  <2>2. Settled \subseteq Range(snapshot)
    BY DEF Settled
  <2>3. then \in {"start_pool", "exited"} => due \subseteq Settled
    BY <2>1 DEF DueInv
  <2>4. CASE snapshot = <<>>
    <3>1. pc' = then /\ pc' \in {"loop", "start_pool", "after", "exited"}
      BY <1>0, <1>4, <2>4 DEF SnapshotItems, MainTypes
    <3>2. Range(snapshot') = {}
      BY <2>1, <2>4, EmptyRange
    <3>3. then \in {"start_pool", "exited"} => due' = {}
      BY <2>1, <2>2, <2>3, <3>2
    <3> QED  BY <3>1, <3>2, <3>3 DEF DueInv
  <2>5. CASE snapshot # <<>>
    <3>1. pc' = "write" /\ items' = snapshot
      BY <1>4, <2>5 DEF SnapshotItems
    <3> QED  BY <2>1, <2>2, <2>3, <3>1 DEF DueInv
  <2> QED  BY <2>4, <2>5
<1>5. CASE WriteCheckpoint
  <2>1. UNCHANGED <<snapshot, due, then>> /\ file' = items /\ pc = "write" /\ pc' = then
    BY <1>5 DEF WriteCheckpoint, queue
  <2>2. Saved' = Range(items) /\ pc' \in {"loop", "start_pool", "after", "exited"}
    BY <1>0, <2>1, FileChange DEF MainTypes
  <2> QED  BY <2>1, <2>2 DEF DueInv
<1>6. CASE ClearCheckpoint
  <2>1. due' = due /\ pc = "clear" /\ pc' = "exited"
    BY <1>6 DEF ClearCheckpoint
  <2> QED  BY <2>1 DEF DueInv
<1>7. ASSUME NEW p \in Producers, Enqueues(p)
      PROVE  DueInv'
  <2>1. UNCHANGED <<file, snapshot, items, due, pc, then>>
    BY <1>7 DEF Enqueues, SendBatch, AddBatchLen, BatchQueued, save
  <2>2. Settled \subseteq Settled'
    BY <1>0, <1>7, SettledSent, SettledQueued DEF Enqueues
  <2>3. Saved' = Saved
    BY <1>0, <2>1, FileChange
  <2> QED  BY <2>1, <2>2, <2>3 DEF DueInv
<1>8. ASSUME NEW p \in Producers, NEW b \in Batches, Extends(p, b)
      PROVE  DueInv'
  <2>1. CASE pc' = "adding"
    BY <2>1 DEF DueInv
  <2>2. CASE pc' # "adding"
    <3>1. /\ UNCHANGED <<file, items, due, pc, then>> /\ p = "watcher" /\ b = Head(watched)
          /\ watched # <<>>
      BY <1>8, <2>2 DEF Extends, save
    <3>2. PICK n \in Nat : Appeared(n)
      BY DEF ControlInv
    <3>3. b \in Range(Watched)
      BY <1>0, <3>1, <3>2, NextDevice DEF MainTypes, Range
    <3>4. Range(b) \subseteq WatchedItems
      BY <3>3 DEF WatchedItems
    <3>5. /\ Range(snapshot') = Range(snapshot) \cup Range(b)
          /\ Settled = Range(snapshot) /\ Settled' = Settled \ Range(b)
      BY <1>0, <1>8, ExtendsAlone, SettledExtends
    <3>6. Range(b) \cap Range(snapshot) = {}
      BY <1>8, BatchNew
    <3>7. Settled' = Settled /\ Saved' = Saved
      BY <1>0, <3>1, <3>5, <3>6, FileChange
    <3>8. Range(snapshot') \ WatchedItems = Range(snapshot) \ WatchedItems
      BY <3>4, <3>5
    <3>9. UNCHANGED <<items, due, pc, then>>
      BY <3>1
    <3> QED  BY <3>7, <3>8, <3>9 DEF DueInv
  <2> QED  BY <2>1, <2>2
<1>9. ASSUME NEW w \in Workers, Take(w)
      PROVE  DueInv'
  <2>1. UNCHANGED <<file, due, pc, then>>
    BY <1>9 DEF Take, save
  <2>2. pc = "pool"
    BY <1>9 DEF Take, ControlInv
  <2> QED  BY <1>0, <2>1, <2>2, FileChange DEF DueInv
<1> QED  BY <1>1, <1>2, <1>3, <1>4, <1>5, <1>6, <1>7, <1>8, <1>9, Steps

-----------------------------------------------------------------------------
(* CheckpointSurvives: an item that a checkpoint held is not in flight,    *)
(* and until a worker takes it main may only forget it while the file has  *)
(* it, and the file while main has it.                                     *)

Held(i) ==
    /\ pc \notin {"load", "ask", "aborted"} => i \in Range(snapshot)
    /\ pc # "write" => i \in Saved
    /\ pc = "write" => i \in Range(items)
    /\ pc # "clear"

AllHeld == \A i \in secured \ dropped : times[i] = 0 => Held(i)

KeptInv ==
    /\ secured \cap InFlight = {}
    /\ ~torn => AllHeld

LEMMA TornStays ==
    ASSUME TypeOK, ControlInv, [Next]_vars, ~torn'
    PROVE  ~torn
<1>1. \A p \in Producers, b \in Batches : Extends(p, b) => ~torn
  BY Zenon DEF Extends, runs
<1>2. \A p \in Producers : Enqueues(p) => ~torn
  BY Zenon DEF Enqueues, SendBatch, AddBatchLen, BatchQueued, runs
<1>3. Quiet => ~torn
  BY QuietMoves, Zenon DEF Moves
<1>4. LoadCheckpoint \/ Resume \/ IgnoreSaved => ~torn
  BY Zenon DEF LoadCheckpoint, Resume, IgnoreSaved, runs
<1>5. SnapshotItems \/ WriteCheckpoint \/ ClearCheckpoint => ~torn
  BY Zenon DEF SnapshotItems, WriteCheckpoint, ClearCheckpoint, runs
<1>6. Restart => ~torn
  BY Zenon DEF Restart
<1>7. \A w \in Workers : Take(w) => ~torn
  BY Zenon DEF Take, runs
<1> QED  BY <1>1, <1>2, <1>3, <1>4, <1>5, <1>6, <1>7, Steps, Zenon

LEMMA KeptQuiet ==
    ASSUME TypeOK, ControlInv, LengthInv, OrderInv, KeptInv, Quiet
    PROVE  KeptInv'
<1>0. QueueTypes /\ MainTypes
  BY Types
<1>1. /\ UNCHANGED <<file, snapshot, enq, batch, items, secured, dropped, times>>
      /\ Moves
  BY QuietMoves, QuietKept DEF queue, enqueue
<1>2. Saved' = Saved /\ InFlight' = InFlight
  BY <1>0, <1>1, FileChange, SettledSame
<1>3. ~torn' => ~torn /\ (pc = "write" => pc' # "aborted")
  <2>1. ~torn' => ~torn
    BY <1>1, Zenon DEF Moves
  <2>2. pc = "write" /\ pc' = "aborted" => torn'
    <3>1. pc = "write" /\ pc' = "aborted" => torn' = (torn \/ pc = "write")
      BY <1>1 DEF Moves
    <3> QED  BY <3>1, Zenon
  <2> QED  BY <2>1, <2>2, Zenon
<1>4. pending = 0 => Range(snapshot) \subseteq InFlight
  BY <1>0, EmptySettled DEF Settled
<1>5. /\ pc' = "write" => pc = "write"
      /\ pc = "write" => pc' \in {"write", "aborted"}
      /\ pc' \notin {"load", "ask", "aborted"} => pc \notin {"load", "ask", "aborted"}
      /\ pc' = "clear" => pc = "clear" \/ (pending = 0 /\ pc \notin {"load", "ask", "aborted"})
  BY <1>0, <1>1 DEF Moves, MainTypes
<1>6. ASSUME ~torn'
      PROVE  AllHeld'
  <2>1. AllHeld /\ (pc = "write" => pc' = "write")
    <3>1. AllHeld
      BY <1>3, <1>6, Zenon DEF KeptInv
    <3>2. pc = "write" => pc' # "aborted"
      BY <1>3, <1>6, Zenon
    <3> QED  BY <1>5, <3>1, <3>2
  <2> SUFFICES ASSUME NEW i \in secured \ dropped, times[i] = 0
               PROVE  Held(i)'
    BY <1>1 DEF AllHeld
  <2>2. Held(i)
    BY <2>1 DEF AllHeld
  <2>3. pending = 0 => i \notin Range(snapshot)
    BY <1>4 DEF KeptInv
  <2> QED  BY <1>1, <1>2, <1>5, <2>1, <2>2, <2>3 DEF Held
<1>7. secured' \cap InFlight' = {}
  BY <1>1, <1>2 DEF KeptInv
<1> QED  BY <1>6, <1>7 DEF KeptInv

LEMMA KeptKept ==
    ASSUME TypeOK, ControlInv, LengthInv, SaveInv, OrderInv, NewInv, KeptInv, [Next]_vars,
           ~overlapped'
    PROVE  KeptInv'
<1>0. QueueTypes /\ MainTypes /\ PoolTypes
  BY Types
<1>a. ~torn' => AllHeld
  <2>1. ~torn' => ~torn
    BY TornStays
  <2> QED  BY <2>1, Zenon DEF KeptInv
<1>1. CASE Quiet
  BY <1>1, KeptQuiet
<1>2. CASE LoadCheckpoint \/ IgnoreSaved
  <2>1. /\ UNCHANGED <<enq, batch, snapshot, items, secured, times>>
    BY <1>2 DEF LoadCheckpoint, IgnoreSaved, enqueue, queue, pool, save
  <2>2. InFlight' = InFlight
    BY <2>1, SettledSame
  <2>3. \/ file' = file /\ dropped' = dropped /\ pc' = "ask" /\ pc = "load"
        \/ Saved \ dropped' = {} /\ dropped \subseteq dropped' /\ pc \in {"load", "ask"}
    <3>1. pc = "ask" => Saved = Range(file)
      BY <1>0, SavedIs DEF ControlInv
    <3>2. file \in {Absent, Torn} => Saved = {}
      BY <1>0, SavedIs
    <3> QED  BY <1>2, <3>1, <3>2, SessionAssumption DEF LoadCheckpoint, IgnoreSaved
  <2>4. AllHeld => AllHeld'
    <3> SUFFICES ASSUME AllHeld, NEW i \in secured \ dropped', times[i] = 0
                 PROVE  Held(i)'
      BY <2>1 DEF AllHeld
    <3>1. i \in Saved
      BY <2>3 DEF AllHeld, Held
    <3>2. Held(i) /\ file' = file /\ pc' = "ask"
      BY <2>3, <3>1 DEF AllHeld
    <3>3. Saved' = Saved
      BY <1>0, <3>2, FileChange
    <3> QED  BY <3>1, <3>2, <3>3 DEF Held
  <2> QED  BY <1>a, <2>1, <2>2, <2>4 DEF KeptInv
<1>3. CASE Resume
  <2>1. /\ UNCHANGED <<file, enq, batch, secured, dropped, times>> /\ snapshot' = file
        /\ pc = "ask" /\ pc' = "loop" /\ file \in Seq(Items)
    BY <1>3 DEF Resume, pool, runs, enqueue, ControlInv
  <2>2. InFlight' = InFlight /\ Saved = Range(snapshot') /\ Saved' = Saved
    BY <1>0, <2>1, SavedIs, FileChange DEF InFlight
  <2>3. AllHeld => AllHeld'
    BY <2>1, <2>2 DEF AllHeld, Held
  <2> QED  BY <1>a, <2>1, <2>2, <2>3 DEF KeptInv
<1>4. CASE SnapshotItems
  <2>1. UNCHANGED <<snapshot, enq, batch, secured, dropped, times>> /\ pc = "snapshot"
    BY <1>4 DEF SnapshotItems, pool, runs, enqueue, queue
  <2>2. snapshot # <<>> => items' = snapshot /\ pc' = "write"
    BY <1>4 DEF SnapshotItems
  <2>3. AllHeld => AllHeld'
    BY <2>1, <2>2, EmptyRange DEF AllHeld, Held
  <2>4. InFlight' = InFlight
    BY <2>1, SettledSame
  <2> QED  BY <1>a, <2>1, <2>3, <2>4 DEF KeptInv
<1>5. CASE WriteCheckpoint
  <2>1. /\ UNCHANGED <<snapshot, enq, batch, dropped, times>> /\ file' = items
        /\ pc = "write" /\ pc' = then
        /\ secured' = secured \cup (Range(items) \cap Returned)
    BY <1>5 DEF WriteCheckpoint, pool, runs, enqueue, queue
  <2>2. InFlight' = InFlight /\ Saved' = Range(items) /\ Range(items) \subseteq Range(snapshot)
    BY <1>0, <2>1, SettledSame, FileChange DEF SaveInv
  <2>3. pc' \notin {"write", "clear"}
    BY <1>0, <2>1 DEF MainTypes
  <2>4. AllHeld => AllHeld'
    BY <2>1, <2>2, <2>3 DEF AllHeld, Held
  <2>5. Returned \cap InFlight = {}
    BY DEF Returned, InFlight
  <2> QED  BY <1>a, <2>1, <2>2, <2>4, <2>5 DEF KeptInv
<1>6. CASE ClearCheckpoint
  <2>1. UNCHANGED <<snapshot, enq, batch, secured, dropped, times>> /\ pc = "clear"
    BY <1>6 DEF ClearCheckpoint, pool, runs, enqueue, queue
  <2>2. InFlight' = InFlight
    BY <2>1, SettledSame
  <2>3. AllHeld => AllHeld'
    BY <2>1 DEF AllHeld, Held
  <2> QED  BY <1>a, <2>1, <2>2, <2>3 DEF KeptInv
<1>7. ASSUME NEW p \in Producers, Enqueues(p)
      PROVE  KeptInv'
  <2>1. UNCHANGED <<file, snapshot, items, pc, secured, dropped, times>>
    BY <1>7 DEF Enqueues, SendBatch, AddBatchLen, BatchQueued, save, pool, runs
  <2>2. InFlight' \subseteq InFlight
    BY <1>0, <1>7, SettledSent, SettledQueued DEF Enqueues
  <2>3. Saved' = Saved
    BY <1>0, <2>1, FileChange
  <2>4. AllHeld => AllHeld'
    BY <2>1, <2>3 DEF AllHeld, Held
  <2> QED  BY <1>a, <2>1, <2>2, <2>4 DEF KeptInv
<1>8. ASSUME NEW p \in Producers, NEW b \in Batches, Extends(p, b)
      PROVE  KeptInv'
  <2>1. /\ UNCHANGED <<file, items, secured, dropped, times>>
        /\ pc' = pc \/ (pc' = "adding" /\ pc \in {"options", "adding", "prompt"})
    BY <1>8 DEF Extends, Extend, save, pool, runs
  <2>2. /\ InFlight' = Range(b) /\ Range(snapshot) \subseteq Range(snapshot')
    BY <1>0, <1>8, ExtendsAlone, SettledExtends
  <2>3. \A i \in Range(b) : i \notin secured
    BY <1>8, BatchNew
  <2>4. Saved' = Saved
    BY <1>0, <2>1, FileChange
  <2>5. AllHeld => AllHeld'
    BY <2>1, <2>2, <2>4 DEF AllHeld, Held
  <2> QED  BY <1>a, <2>1, <2>2, <2>3, <2>5 DEF KeptInv
<1>9. ASSUME NEW w \in Workers, Take(w)
      PROVE  KeptInv'
  <2>1. /\ UNCHANGED <<file, items, pc, enq, batch, secured, dropped>>
        /\ times' = [times EXCEPT ![Head(channel)] = @ + 1]
    BY <1>9 DEF Take, save, runs, enqueue
  <2>2. /\ Head(channel) \in Items /\ Range(snapshot) = Range(snapshot') \cup {Head(channel)}
    BY <1>0, <1>9, TakesHead
  <2>3. \A i \in Items : times'[i] = 0 => times[i] = 0 /\ i # Head(channel)
    BY <1>0, <2>1, <2>2 DEF PoolTypes
  <2>4. Saved' = Saved /\ InFlight' = InFlight
    BY <1>0, <2>1, FileChange DEF InFlight
  <2>5. secured \subseteq Items
    BY <1>0 DEF PoolTypes
  <2>6. AllHeld => AllHeld'
    BY <2>1, <2>2, <2>3, <2>4, <2>5 DEF AllHeld, Held
  <2> QED  BY <1>a, <2>1, <2>4, <2>6 DEF KeptInv
<1>10. CASE Restart
  <2>1. /\ UNCHANGED <<file, secured, dropped, times>> /\ pc' = "load"
        /\ \A p \in Producers : enq'[p] = "idle"
    BY <1>10 DEF Restart, Idle
  <2>2. InFlight' = {} /\ Saved' = Saved
    BY <1>0, <2>1, FileChange DEF InFlight
  <2>3. ~torn' => pc # "write"
    BY <1>10, Zenon DEF Restart
  <2>4. AllHeld /\ pc # "write" => AllHeld'
    BY <2>1, <2>2 DEF AllHeld, Held
  <2> QED  BY <1>a, <2>1, <2>2, <2>3, <2>4 DEF KeptInv
<1> QED  BY <1>1, <1>2, <1>3, <1>4, <1>5, <1>6, <1>7, <1>8, <1>9, <1>10, Steps

-----------------------------------------------------------------------------
(* The inductive invariant, and the theorems.                              *)

AloneInv == OrderInv /\ FileInv /\ NewInv /\ TimesInv /\ DueInv /\ KeptInv

SessionInv == ControlInv /\ LengthInv /\ SaveInv /\ (~overlapped => AloneInv)

LEMMA InitLater ==
    ASSUME Init
    PROVE  LengthInv /\ SaveInv /\ AloneInv
<1>0. TypeOK /\ QueueTypes /\ MainTypes
  BY InitTyped, Types
<1>1. /\ \A p \in Producers : enq[p] = "idle"
      /\ "main" \in Producers /\ "watcher" \in Producers
      /\ snapshot = <<>> /\ channel = <<>> /\ pending = 0 /\ revision = 0 /\ last_saved = -1
      /\ pc = "load" /\ file = Absent /\ secured = {} /\ crashes = 0
      /\ \A i \in Items : times[i] = 0
  BY DEF Init, Idle, Producers
<1>2. Saved = {} /\ InFlight = {} /\ Range(snapshot) = {} /\ file \notin Seq(Items)
  BY <1>0, <1>1, SavedIs, EmptyRange DEF InFlight
<1>3. LengthInv
  BY <1>1, IdleCarries, EmptyRange DEF LengthInv
<1>4. SaveInv
  BY <1>1 DEF SaveInv, CheckpointCurrent
<1>5. OrderInv
  BY <1>1 DEF OrderInv
<1>6. FileInv
  BY <1>1 DEF FileInv
<1>7. NewInv
  BY <1>1, <1>2, EmptyRange DEF NewInv, Seen
<1>8. TimesInv
  BY <1>1, <1>2 DEF TimesInv
<1>9. DueInv
  BY <1>1 DEF DueInv
<1>10. KeptInv
  BY <1>1 DEF KeptInv, AllHeld
<1> QED  BY <1>3, <1>4, <1>5, <1>6, <1>7, <1>8, <1>9, <1>10 DEF AloneInv

LEMMA SessionInvKept ==
    ASSUME TypeOK, TypeOK', SessionInv, [Next]_vars
    PROVE  SessionInv'
<1>1. ControlInv /\ LengthInv /\ SaveInv
  BY DEF SessionInv
<1>2. ControlInv' /\ LengthInv' /\ SaveInv'
  BY <1>1, ControlKept, LengthKept, SaveKept
<1>3. ASSUME ~overlapped'
      PROVE  AloneInv'
  <2>1. ~overlapped
    BY <1>1, <1>3, OverlapStays
  <2>2. AloneInv
    BY <2>1, Zenon DEF SessionInv
  <2> QED  BY <1>1, <1>3, <2>2, OrderKept, FileKept, NewKept, TimesKept, DueKept, KeptKept
           DEF AloneInv
<1> QED  BY <1>2, <1>3 DEF SessionInv

LEMMA Invariance == Spec => [](TypeOK /\ SessionInv)
<1>1. Init => TypeOK /\ SessionInv
  BY InitTyped, InitControl, InitLater DEF SessionInv
<1>2. TypeOK /\ SessionInv /\ [Next]_vars => (TypeOK /\ SessionInv)'
  <2> SUFFICES ASSUME TypeOK, SessionInv, [Next]_vars
               PROVE  TypeOK' /\ SessionInv'
    OBVIOUS
  <2>1. TypeOK'
    BY StepTyped DEF SessionInv
  <2> QED  BY <2>1, SessionInvKept
<1> QED  BY <1>1, <1>2, PTL DEF Spec

(* The variables of Session keep their types over any number of starts.    *)
THEOREM SessionTypes == Spec => []TypeOK
BY Invariance, PTL

(* save_queue_checkpoint may skip a save by comparing revisions: whenever  *)
(* they agree, and no enqueue or save is under way, the file is exactly    *)
(* the mirror, however main, the watcher and the workers interleaved.      *)
THEOREM SessionCheckpointCurrent == Spec => []CheckpointCurrent
<1>1. SessionInv => CheckpointCurrent
  BY DEF SessionInv, SaveInv
<1> QED  BY <1>1, Invariance, PTL

(* While a batch runs, and after the process has ended by itself, the file *)
(* holds every item the loop saw as pending when it last looked; when an   *)
(* error ended it before, every one that the watcher did not queue.        *)
THEOREM SessionDueSaved == Spec => []DueSaved
<1>1. DueInv => /\ pc \in {"pool", "exited"} => due \subseteq Saved
                /\ pc = "error" => due \ UNION {Range(b) : b \in Range(Watched)} \subseteq Saved
  BY DEF DueInv, WatchedItems
<1>2. SessionInv => DueSaved
  BY <1>1, Zenon DEF SessionInv, AloneInv, DueSaved
<1> QED  BY <1>2, Invariance, PTL

(* A worker is given an item once, and once more for each kill or failed   *)
(* save: no checkpoint resurrects a transfer that was finished otherwise.  *)
THEOREM SessionNoRedo == Spec => []NoRedo
<1>1. SessionInv => NoRedo
  BY Zenon DEF SessionInv, AloneInv, TimesInv, NoRedo
<1> QED  BY <1>1, Invariance, PTL

(* What a completed checkpoint held, and no worker was given, is in memory *)
(* or in the file for good, unless the user refused it, the file could not *)
(* be read, or a write of it was cut.                                      *)
THEOREM SessionCheckpointSurvives == Spec => []CheckpointSurvives
<1>1. AllHeld => \A i \in secured \ dropped : times[i] = 0 => i \in Range(snapshot) \cup Saved
  BY DEF AllHeld, Held
<1>2. SessionInv => CheckpointSurvives
  BY <1>1, Zenon DEF SessionInv, AloneInv, KeptInv, CheckpointSurvives
<1> QED  BY <1>2, Invariance, PTL
=============================================================================
