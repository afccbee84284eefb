------------------------------ MODULE Session ------------------------------
(***************************************************************************)
(* run() of src/app/mod.rs and the checkpoint of src/app/checkpoint.rs     *)
(* across restarts: main loads pending_queue.json, resumes or builds a     *)
(* queue, runs batches, and saves the queue's mirror around them.  The     *)
(* process may be killed at any step, inside a write of the file too, and  *)
(* be started again.                                                       *)
(*                                                                         *)
(* Only main reads the mirror and it does so while no pool runs, so a      *)
(* worker's receive is one step here; the steps of enqueue_batch stay      *)
(* apart, because the mount watcher takes them while main saves.           *)
(***************************************************************************)
EXTENDS Integers, Sequences, FiniteSets, Functions

CONSTANTS
    Items,
    Mapped,        \* the batches the user's mappings give, if a destination is present
    Watched,       \* the batches the watcher queues as devices appear, in order
    Added,         \* the batch add_more_files queues
    Workers,
    Absent, Torn,  \* pending_queue.json is not there; is cut short
    MaxSessions    \* bound on the starts of the process

Batches == Mapped \cup Range(Watched) \cup {Added}

(* An item is one entry of the queue: a batch has no item twice, and those *)
(* of a device share none with another batch.                              *)
ASSUME SessionAssumption ==
    /\ Mapped \subseteq Seq(Items) /\ Watched \in Seq(Seq(Items)) /\ Added \in Seq(Items)
    /\ Added \notin Mapped
    /\ \A b \in Batches : IsInjective(b)
    /\ \A k \in DOMAIN Watched :
           /\ \A b \in Mapped \cup {Added} : Range(Watched[k]) \cap Range(b) = {}
           /\ \A j \in DOMAIN Watched : j # k => Range(Watched[k]) \cap Range(Watched[j]) = {}
    /\ Absent \notin Seq(Items) /\ Torn \notin Seq(Items) /\ Absent # Torn
    /\ {"exited", "recv"} \cap Items = {}
    /\ MaxSessions \in Nat

VARIABLES
    file,                         \* pending_queue.json
    channel, snapshot, pending, revision,     \* the queue
    enq, batch,                   \* each producer's next step of enqueue_batch, and its batch
    last_saved,                   \* last_saved_revision; -1 is u64::MAX
    pc, then,                     \* main's next step, and the one after the save it is in
    rev, items,                   \* what the save has read
    waiting_for_mount, watching,  \* watching: the watcher thread was spawned
    watched,                      \* batches of devices that have not appeared yet
    stop_requested,
    worker,                       \* what each worker does, or the item it has
    due,                          \* history: what was pending when the loop last looked
    times,                        \* history: how often a worker was given each item
    secured,                      \* history: pending items that a completed checkpoint held
    dropped,                      \* history: items that were refused, or not read, at a start
    starts, crashes,              \* history; crashes includes failed saves
    torn, overlapped              \* history: a crash cut a write; two batches were enqueued at once

queue   == <<channel, snapshot, pending, revision>>
enqueue == <<enq, batch>>
save    == <<last_saved, then, rev, items>>
mount   == <<waiting_for_mount, watching>>
pool    == <<worker, times>>
runs    == <<starts, crashes, torn, dropped>>
vars    == <<file, queue, enqueue, save, pc, mount, watched, stop_requested, pool, due,
             secured, runs, overlapped>>

Producers == {"main", "watcher"}

TypeOK ==
    /\ file \in Seq(Items) \cup {Absent, Torn}
    /\ channel \in Seq(Items) /\ snapshot \in Seq(Items) /\ pending \in Int /\ revision \in Nat
    /\ enq \in [Producers -> {"idle", "send", "pending", "revision"}]
    /\ batch \in [Producers -> Batches \cup {<<>>}]
    /\ last_saved \in Nat \cup {-1} /\ rev \in Nat \cup {-1} /\ items \in Seq(Items)
    /\ pc \in {"load", "ask", "options", "adding", "save", "snapshot", "write", "loop", "wait",
               "preflight", "start_pool", "pool", "after", "prompt",
               "final", "clear", "exited", "error", "aborted"}
    /\ then \in {"loop", "start_pool", "after", "exited"}
    /\ waiting_for_mount \in BOOLEAN /\ watching \in BOOLEAN /\ watched \in Seq(Seq(Items))
    /\ stop_requested \in BOOLEAN
    /\ worker \in [Workers -> {"exited", "recv"} \cup Items]
    /\ due \subseteq Items /\ secured \subseteq Items /\ dropped \subseteq Items
    /\ times \in [Items -> Nat] /\ starts \in Nat /\ crashes \in Nat
    /\ torn \in BOOLEAN /\ overlapped \in BOOLEAN

IsEmpty == pending = 0

(* The items enqueue_batch has returned for that no worker has taken.      *)
Returned == Range(channel) \ UNION {Range(batch[p]) : p \in {q \in Producers : enq[q] # "idle"}}

Saved == IF file \in {Absent, Torn} THEN {} ELSE Range(file)

Nothing == [p \in Producers |-> <<>>]
Idle    == [p \in Producers |-> "idle"]
NoPool  == [w \in Workers |-> "exited"]

Init ==
    /\ file = Absent
    /\ channel = <<>> /\ snapshot = <<>> /\ pending = 0 /\ revision = 0
    /\ enq = Idle /\ batch = Nothing
    /\ last_saved = -1 /\ then = "loop" /\ rev = -1 /\ items = <<>>
    /\ pc = "load"
    /\ waiting_for_mount = FALSE /\ watching = FALSE /\ stop_requested = FALSE
    /\ worker = NoPool /\ due = {}
    /\ watched = Watched
    /\ times = [i \in Items |-> 0] /\ secured = {} /\ dropped = {}
    /\ starts = 1 /\ crashes = 0 /\ torn = FALSE /\ overlapped = FALSE

-----------------------------------------------------------------------------
(* load_queue_checkpoint, the question, restore_items.                     *)

(* A file that is cut short is removed, one that cannot be read ignored.   *)
LoadCheckpoint ==
    /\ pc = "load"
    /\ file' = IF file = Torn THEN Absent ELSE file
    /\ \/ /\ pc' = IF file \in {Absent, Torn} THEN "options" ELSE "ask"
          /\ UNCHANGED dropped
       \/ /\ pc' = "options"
          /\ dropped' = dropped \cup Saved
    /\ UNCHANGED <<queue, enqueue, save, mount, watched, stop_requested, pool, due, secured,
                   starts, crashes, torn, overlapped>>

Resume ==
    /\ pc = "ask"
    /\ channel' = file /\ snapshot' = file
    /\ pending' = Len(file) /\ revision' = revision + 1
    /\ pc' = "loop"
    /\ UNCHANGED <<file, enqueue, save, mount, watched, stop_requested, pool, due, secured,
                   runs, overlapped>>

IgnoreSaved ==
    /\ pc = "ask"
    /\ dropped' = dropped \cup Range(file)
    /\ file' = Absent
    /\ pc' = "options"
    /\ UNCHANGED <<queue, enqueue, save, mount, watched, stop_requested, pool, due, secured,
                   starts, crashes, torn, overlapped>>

-----------------------------------------------------------------------------
(* enqueue_batch, in main's thread or the watcher's.                       *)

Extend(p, b) ==
    /\ enq[p] = "idle"
    /\ snapshot' = snapshot \o b
    /\ batch' = [batch EXCEPT ![p] = b]
    /\ enq' = [enq EXCEPT ![p] = "send"]
    /\ overlapped' = (overlapped \/ \E q \in Producers : enq[q] # "idle")
    /\ UNCHANGED <<channel, pending, revision>>

SendBatch(p) ==
    /\ enq[p] = "send"
    /\ channel' = channel \o batch[p]
    /\ enq' = [enq EXCEPT ![p] = "pending"]
    /\ UNCHANGED <<file, snapshot, pending, revision, batch, save, pc, mount, watched,
                   stop_requested, pool, due, secured, runs, overlapped>>

AddBatchLen(p) ==
    /\ enq[p] = "pending"
    /\ pending' = pending + Len(batch[p])
    /\ enq' = [enq EXCEPT ![p] = "revision"]
    /\ UNCHANGED <<file, channel, snapshot, revision, batch, save, pc, mount, watched,
                   stop_requested, pool, due, secured, runs, overlapped>>

BatchQueued(p) ==
    /\ enq[p] = "revision"
    /\ revision' = revision + 1
    /\ enq' = [enq EXCEPT ![p] = "idle"]
    /\ UNCHANGED <<file, channel, snapshot, pending, batch, save, pc, mount, watched,
                   stop_requested, pool, due, secured, runs, overlapped>>

Enqueue(p) == SendBatch(p) \/ AddBatchLen(p) \/ BatchQueued(p)

(* What main queues is new: the same file queued twice is another item.    *)
Fresh(b) == \A i \in Range(b) : i \notin Range(snapshot) \cup secured \cup dropped /\ times[i] = 0

(* enqueue_initial_mappings: a destination is present, and each mapping    *)
(* gives a batch or, if it is unchanged, none ... *)
EnqueueMappings(b) ==
    /\ pc = "options" \/ (pc = "adding" /\ batch["main"] \in Mapped)
    /\ Fresh(b)
    /\ Extend("main", b)
    /\ pc' = "adding"
    /\ UNCHANGED <<file, save, mount, watched, stop_requested, pool, due, secured, runs>>

NothingMapped ==
    /\ pc \in {"options", "prompt"}
    /\ pc' = "save" /\ then' = "loop"
    /\ UNCHANGED <<file, queue, enqueue, last_saved, rev, items, mount, watched,
                   stop_requested, pool, due, secured, runs, overlapped>>

(* (add_more_files may find nothing to queue, too) or no destination is,   *)
(* and the watcher is spawned.                                             *)
SpawnWatcher ==
    /\ pc = "options"
    /\ waiting_for_mount' = TRUE /\ watching' = TRUE
    /\ pc' = "save" /\ then' = "loop"
    /\ UNCHANGED <<file, queue, enqueue, last_saved, rev, items, watched, stop_requested,
                   pool, due, secured, runs, overlapped>>

(* auto_queue_mappings_for_mount *)
DeviceAppears ==
    /\ watching /\ watched # <<>>
    /\ Extend("watcher", Head(watched))
    /\ watched' = Tail(watched)
    /\ UNCHANGED <<file, save, pc, mount, stop_requested, pool, due, secured, runs>>

(* Both callers of main go on to save the queue ... *)
MappingsQueued ==
    /\ pc = "adding" /\ enq["main"] = "idle"
    /\ pc' = "save" /\ then' = "loop"
    /\ UNCHANGED <<file, queue, enqueue, last_saved, rev, items, mount, watched,
                   stop_requested, pool, due, secured, runs, overlapped>>

(* ... unless a later source or prompt fails: run() returns the error of   *)
(* enqueue_initial_mappings, and leaves the loop on add_more_files'. *)
MappingsFail ==
    /\ pc = "adding" /\ enq["main"] = "idle"
    /\ pc' = IF batch["main"] = Added THEN "final" ELSE "error"
    /\ UNCHANGED <<file, queue, enqueue, save, mount, watched, stop_requested, pool, due,
                   secured, runs, overlapped>>

-----------------------------------------------------------------------------
(* save_queue_checkpoint.                                                  *)

(* Slip: whatever has been saved once counts as saved. *)
SavedOnce ==
    /\ pc = "save"
    /\ IF last_saved # -1
       THEN pc' = then /\ UNCHANGED rev
       ELSE pc' = "snapshot" /\ rev' = revision
    /\ UNCHANGED <<file, queue, enqueue, last_saved, then, items, mount, watched,
                   stop_requested, pool, due, secured, runs, overlapped>>

ReadRevision ==
    /\ pc = "save"
    /\ IF revision = last_saved
       THEN pc' = then /\ UNCHANGED rev
       ELSE pc' = "snapshot" /\ rev' = revision
    /\ UNCHANGED <<file, queue, enqueue, last_saved, then, items, mount, watched,
                   stop_requested, pool, due, secured, runs, overlapped>>

(* fs::write truncates the file before it writes. *)
SnapshotItems ==
    /\ pc = "snapshot"
    /\ IF snapshot = <<>>
       THEN /\ file' = Absent
            /\ last_saved' = rev /\ rev' = -1
            /\ pc' = then
            /\ UNCHANGED items
       ELSE /\ file' = Torn
            /\ items' = snapshot
            /\ pc' = "write"
            /\ UNCHANGED <<last_saved, rev>>
    /\ UNCHANGED <<queue, enqueue, then, mount, watched, stop_requested, pool, due, secured,
                   runs, overlapped>>

(* Slip: the revision is read again after the write. *)
WriteThenRead ==
    /\ pc = "write"
    /\ file' = items /\ items' = <<>>
    /\ last_saved' = revision /\ rev' = -1
    /\ pc' = then
    /\ secured' = secured \cup (Range(items) \cap Returned)
    /\ UNCHANGED <<queue, enqueue, then, mount, watched, stop_requested, pool, due, runs,
                   overlapped>>

WriteCheckpoint ==
    /\ pc = "write"
    /\ file' = items /\ items' = <<>>
    /\ last_saved' = rev /\ rev' = -1
    /\ pc' = then
    /\ secured' = secured \cup (Range(items) \cap Returned)
    /\ UNCHANGED <<queue, enqueue, then, mount, watched, stop_requested, pool, due, runs,
                   overlapped>>

(* The file cannot be removed, opened or written: run() returns the error. *)
(* What fs::write has truncated stays so.  For what is left behind this is *)
(* a crash.                                                                *)
SaveFails ==
    /\ pc \in {"snapshot", "write"}
    /\ pc' = "aborted"
    /\ crashes' = crashes + 1
    /\ torn' = (torn \/ pc = "write")
    /\ UNCHANGED <<file, queue, enqueue, save, mount, watched, stop_requested, pool, due,
                   secured, starts, dropped, overlapped>>

-----------------------------------------------------------------------------
(* The transfer loop.                                                      *)

LoopHead ==
    /\ pc = "loop"
    /\ due' = Returned
    /\ pc' = IF stop_requested THEN "final"
             ELSE IF ~IsEmpty THEN "preflight"
             ELSE IF waiting_for_mount THEN "wait" ELSE "final"
    /\ UNCHANGED <<file, queue, enqueue, save, mount, watched, stop_requested, pool, secured,
                   runs, overlapped>>

DeviceDetected ==
    /\ pc = "wait"
    /\ stop_requested \/ ~IsEmpty
    /\ pc' = IF stop_requested THEN "final" ELSE "loop"
    /\ waiting_for_mount' = stop_requested
    /\ UNCHANGED <<file, queue, enqueue, save, watching, watched, stop_requested, pool, due,
                   secured, runs, overlapped>>

(* Slip: the batch starts without a save. *)
PreflightUnsaved ==
    /\ pc = "preflight"
    /\ pc' \in {"start_pool", "error"}
    /\ UNCHANGED <<file, queue, enqueue, save, mount, watched, stop_requested, pool, due,
                   secured, runs, overlapped>>

(* preflight_pending_destinations; run() returns its error. *)
Preflight ==
    /\ pc = "preflight"
    /\ \/ pc' = "save" /\ then' = "start_pool"
       \/ pc' = "error" /\ UNCHANGED then
    /\ UNCHANGED <<file, queue, enqueue, last_saved, rev, items, mount, watched,
                   stop_requested, pool, due, secured, runs, overlapped>>

StartPool ==
    /\ pc = "start_pool"
    /\ worker' = [w \in Workers |-> "recv"]
    /\ pc' = "pool"
    /\ UNCHANGED <<file, queue, enqueue, save, mount, watched, stop_requested, times, due,
                   secured, runs, overlapped>>

PoolEnds ==
    /\ pc = "pool"
    /\ \A w \in Workers : worker[w] = "exited"
    /\ pc' = "save" /\ then' = "after"
    /\ UNCHANGED <<file, queue, enqueue, last_saved, rev, items, mount, watched,
                   stop_requested, pool, due, secured, runs, overlapped>>

(* A stop ends the loop; otherwise the user is asked for more files.       *)
BatchEnds ==
    /\ pc = "after"
    /\ pc' = IF stop_requested THEN "final" ELSE "prompt"
    /\ UNCHANGED <<file, queue, enqueue, save, mount, watched, stop_requested, pool, due,
                   secured, runs, overlapped>>

NoMoreFiles ==
    /\ pc = "prompt"
    /\ pc' = "final"
    /\ UNCHANGED <<file, queue, enqueue, save, mount, watched, stop_requested, pool, due,
                   secured, runs, overlapped>>

AddMoreFiles ==
    /\ pc = "prompt"
    /\ Fresh(Added)
    /\ Extend("main", Added)
    /\ pc' = "adding"
    /\ UNCHANGED <<file, save, mount, watched, stop_requested, pool, due, secured, runs>>

(* Slip: the checkpoint is deleted whatever is left. *)
FinalClear ==
    /\ pc = "final"
    /\ due' = Returned
    /\ pc' = "clear"
    /\ UNCHANGED <<file, queue, enqueue, save, mount, watched, stop_requested, pool, secured,
                   runs, overlapped>>

FinalCheck ==
    /\ pc = "final"
    /\ due' = Returned
    /\ IF IsEmpty THEN pc' = "clear" /\ UNCHANGED then ELSE pc' = "save" /\ then' = "exited"
    /\ UNCHANGED <<file, queue, enqueue, last_saved, rev, items, mount, watched,
                   stop_requested, pool, secured, runs, overlapped>>

ClearCheckpoint ==
    /\ pc = "clear"
    /\ file' = Absent
    /\ pc' = "exited"
    /\ UNCHANGED <<queue, enqueue, save, mount, watched, stop_requested, pool, due, secured,
                   runs, overlapped>>

(* clear_queue_checkpoint fails here, or when the saved queue is refused.  *)
ClearFails ==
    /\ pc \in {"clear", "ask"}
    /\ pc' = "aborted"
    /\ UNCHANGED <<file, queue, enqueue, save, mount, watched, stop_requested, pool, due,
                   secured, runs, overlapped>>

Main == \/ LoadCheckpoint \/ Resume \/ IgnoreSaved
        \/ (\E b \in Mapped : EnqueueMappings(b)) \/ NothingMapped \/ SpawnWatcher
        \/ Enqueue("main") \/ MappingsQueued \/ MappingsFail
        \/ ReadRevision \/ SnapshotItems \/ WriteCheckpoint \/ SaveFails
        \/ LoopHead \/ DeviceDetected \/ Preflight \/ StartPool \/ PoolEnds
        \/ BatchEnds \/ NoMoreFiles \/ AddMoreFiles
        \/ FinalCheck \/ ClearCheckpoint \/ ClearFails

-----------------------------------------------------------------------------
(* The workers (WorkerPool), as far as the queue and the stop flag go.     *)

Take(w) ==
    /\ worker[w] = "recv"
    /\ channel # <<>>
    /\ channel' = Tail(channel)
    /\ snapshot' = IF snapshot = <<>> THEN <<>> ELSE Tail(snapshot)
    /\ pending' = pending - 1
    /\ revision' = revision + 1
    /\ worker' = [worker EXCEPT ![w] = Head(channel)]
    /\ times' = [times EXCEPT ![Head(channel)] = @ + 1]
    /\ UNCHANGED <<file, enqueue, save, pc, mount, watched, stop_requested, due, secured,
                   runs, overlapped>>

(* Copied, or failed: the worker goes on unless it is told to stop. *)
FileDone(w) ==
    /\ worker[w] \in Items
    /\ worker' = [worker EXCEPT ![w] = IF stop_requested THEN "exited" ELSE "recv"]
    /\ UNCHANGED <<file, queue, enqueue, save, pc, mount, watched, stop_requested, times,
                   due, secured, runs, overlapped>>

PrepareFails(w) ==
    /\ worker[w] \in Items
    /\ stop_requested' = TRUE
    /\ worker' = [worker EXCEPT ![w] = "exited"]
    /\ UNCHANGED <<file, queue, enqueue, save, pc, mount, watched, times, due, secured, runs,
                   overlapped>>

(* Nothing was received in time, and the counter says that no item is left.*)
WorkerExits(w) ==
    /\ worker[w] = "recv"
    /\ IsEmpty \/ stop_requested
    /\ worker' = [worker EXCEPT ![w] = "exited"]
    /\ UNCHANGED <<file, queue, enqueue, save, pc, mount, watched, stop_requested, times,
                   due, secured, runs, overlapped>>

Worker(w) == Take(w) \/ FileDone(w) \/ PrepareFails(w) \/ WorkerExits(w)

-----------------------------------------------------------------------------
CtrlC ==
    /\ ~stop_requested /\ pc \notin {"exited", "error", "aborted"}
    /\ stop_requested' = TRUE
    /\ UNCHANGED <<file, queue, enqueue, save, pc, mount, watched, pool, due, secured, runs,
                   overlapped>>

(* The process is killed, or has ended, and the user starts it again with  *)
(* empty memory. *)
Restart ==
    /\ starts < MaxSessions
    /\ starts' = starts + 1
    /\ crashes' = IF pc \in {"exited", "error", "aborted"} THEN crashes ELSE crashes + 1
    /\ torn' = (torn \/ pc = "write")
    /\ channel' = <<>> /\ snapshot' = <<>> /\ pending' = 0 /\ revision' = 0
    /\ enq' = Idle /\ batch' = Nothing
    /\ last_saved' = -1 /\ then' = "loop" /\ rev' = -1 /\ items' = <<>>
    /\ pc' = "load"
    /\ waiting_for_mount' = FALSE /\ watching' = FALSE /\ stop_requested' = FALSE
    /\ worker' = NoPool /\ due' = {}
    /\ UNCHANGED <<file, watched, times, secured, dropped, overlapped>>

Next == \/ Main
        \/ pc \notin {"error", "aborted"} /\ (Enqueue("watcher") \/ DeviceAppears)
        \/ \E w \in Workers : Worker(w)
        \/ CtrlC
        \/ Restart

Spec == Init /\ [][Next]_vars

-----------------------------------------------------------------------------
(* Properties.  Two batches enqueued at once may leave the mirror in an    *)
(* order other than the channel's (TransferQueue, SnapshotInQueueOrder);   *)
(* what is promised of a session in which that happened says so.           *)

(* CheckpointCurrent: when last_saved_revision is the queue's revision and *)
(* no enqueue or save is under way, the file holds exactly the mirror:     *)
(* comparing revisions skips only the writes that would change nothing.    *)
CheckpointCurrent ==
    /\ last_saved = revision
    /\ \A p \in Producers : enq[p] = "idle"
    /\ pc \notin {"snapshot", "write"}
    => file = IF snapshot = <<>> THEN Absent ELSE snapshot

(* DueSaved: from the moment a batch runs, or the process has ended by     *)
(* itself, the file holds every item whose enqueue_batch had returned when *)
(* the loop last looked, so that killing the process loses none of them.   *)
(* When an error before the batch ends run(), that is so of all but the    *)
(* items the watcher has queued, which may be in no file yet.              *)
DueSaved ==
    ~overlapped => /\ pc \in {"pool", "exited"} => due \subseteq Saved
                   /\ pc = "error" => due \ UNION {Range(b) : b \in Range(Watched)} \subseteq Saved

(* NoRedo: an item is given to a worker once, and once more for each time  *)
(* the process was killed or could not save: no checkpoint resurrects a    *)
(* finished transfer otherwise.                                            *)
NoRedo == ~overlapped => \A i \in Items : times[i] <= 1 + crashes

(* CheckpointSurvives: an item whose enqueue had returned, that was in a   *)
(* completed checkpoint and that no worker was ever given is still in      *)
(* memory or in the file, unless the user refused it, the file could not   *)
(* be read, or a write of it was cut.                                      *)
CheckpointSurvives ==
    ~torn /\ ~overlapped => \A i \in secured \ dropped : times[i] = 0 => i \in Range(snapshot) \cup Saved
=============================================================================
