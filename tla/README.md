# A verification development for transfer-plan

transfer-plan moves files from local folders to removable drives.  It queues
the files its mappings name, copies them with a pool of worker threads, checks
free space, verifies, optionally deletes the sources, keeps a checkpoint of
what is left, waits for drives to be mounted, and unmounts them at the end.

The modules here model that program, TLC checks them on small instances, and
TLAPS proves theorems about the transfer queue, the update policy, the worker
pool, sessions and their checkpoint, the copy of a file, space reservations, the
mount watcher and the final sync for every instance.  Paths below are relative
to the repository's crate (`src/queue.rs` is `src/src/queue.rs` in
`PROJECT.json`).

## 1. The system

| Component | State it keeps | Operations | Modelled by |
|---|---|---|---|
| Transfer queue, `src/queue.rs` | channel, mirror `snapshot_items`, `total_size`, `pending_items`, `revision`, command channel, `stop_requested` | `enqueue_batch`, `recv_timeout`, `restore_items`, the readers; the walk of a folder and the update policy | `TransferQueue`, `PendingLog`, `CountedQueue`; `UpdateMode` |
| Worker pool, `src/worker/{pool,worker_loop,monitor,types}.rs` | the transfer context: statistics, stop reason, sync targets, cleanup roots; workers; monitor | start, receive, prepare, copy, fail, stop, join, clean up, terminate, sync | `WorkerPool` |
| Session and checkpoint, `src/app/mod.rs`, `src/app/checkpoint.rs`, `src/ui/flows.rs` | `pending_queue.json`, `last_saved_revision`, `waiting_for_mount` | load, resume, ignore, save, clear, the transfer loop, adding files | `Session` |
| File copy, `src/transfer/{copy,progress,helpers,verify}.rs` | temporary file, destination, shared and per-file progress, attempt | copy in two ways, finalise, verify, roll back, retry | `CopyFile` |
| Space reservation, `src/worker/space.rs` | `space_reservations` (shared), a cache of probes per worker | probe, reserve, refuse, release | `SpaceReservation` |
| Source cleanup, `src/worker/cleanup.rs` | `cleanup_roots` | remove a source, record its folder, remove empty folders | steps of `WorkerPool`, `CopyFile` |
| Post-transfer sync, `src/worker/sync.rs` | `sync_targets` (filled by the workers), the devices synced so far | open each target, sync its filesystem once | which destinations it is given: `WorkerPool`; the sync: `Finish` |
| Mount watcher, `src/app/mounts.rs` | watches, event channel, `seen_mount_paths` | register, scan, handle events, queue the mappings of a mount | `MountWatcher`; as a producer, in every module with a queue |
| Preflight checks, `src/app/preflight.rs` | none | compare pending bytes with free space | `SpaceReservation`; in `Session`, a step that passes or ends the run |
| Unmount, `src/unmount/` | none of its own; the mount table and the processes of the system | flush, unmount in three ways, find and signal busy processes, try again | `Finish` |
| Configuration, `src/config.rs`; user interface, `src/ui/`; entry point | - | load and save settings; prompts; display | not modelled |

How they interact.  `run()` (the main task) owns the loop: it fills the queue,
saves the checkpoint, starts a pool, waits for it and saves again.  The workers
share the queue and the transfer context.  The monitor is a task that main
starts with the pool and ends with a command.  The mount watcher is a thread
that enqueues whenever a device appears, whatever main and the workers do.
The sync runs at the end of each batch on what the workers have recorded, the
unmounts at the end of a run that was not stopped; both work on drives that
other programs use and the user may pull.
Ctrl+C and a failing worker set `stop_requested` and send `Stop`.  No lock
covers two of these pieces of state at once, so every interaction is an
interleaving of single steps.

What is hard here, and what makes each part correct:

* **Queue.**  One set of pending items is kept in five places that are updated
  one after the other, by producers and consumers that run at the same time.
  Correct: no counter update is lost, all views agree when nothing is under
  way, "empty" means done, and the mirror is at every moment enough to restart.
* **Pool.**  Workers leave on a counter that lags behind the channel; a stop
  may come between any two steps; the monitor ends for three reasons.  Correct:
  a batch handles all it was started with, reports what happened, stops soon
  after it was told to, cleans up and syncs after everything it did, and ends.
* **Session.**  The process may be killed anywhere and a thread may enqueue
  during a save.  Correct: what is about to be transferred is on disk, a
  finished transfer is not resurrected, and no pending item is forgotten.
* **Copy.**  Any operation may fail, two ways to copy exist, a failed attempt
  is taken back from counters other workers are changing, a source may change
  under the copy, and two items may have one source or one destination.
  Correct: a destination is always one whole file, a verified one is equal, what
  is left behind could not be removed, bytes are counted once, every copy ends.
* **Space.**  The probe is cached and taken outside the lock of the
  reservations, the preflight check sees only what was queued before it, and a
  transfer may take more than it reserved.  Correct: reservations are exact, the
  margin is kept but for that excess, and each check makes up for what the other
  cannot see.
* **Update mode.**  The decision not to copy compares two modification times
  that have different origins and resolutions, while the owner may edit.
  Correct: what is skipped is up to date.
* **Mount watcher.**  Mounting is no event; it comes before or after the events
  of its directory, during a scan or between two; and what cannot be read counts
  as not mounted.  Correct: every announced device is queued, and once, unless
  an error was met.
* **Finish.**  Any call may fail, a drive may be pulled, and the processes that
  were found may have ended and their ids be reused.  Correct: an error on one
  drive leaves no other unsynced, "safely ejected" is true of every drive the
  mount table tells of, and only ids that were found and agreed upon are
  signalled.

`PROJECT.json` lists each hazard at its line with the properties that watch it.

## 2. Modules

    PendingLog                      what the queue promises: nothing pending is
                                    missing from the mirror
    CountedQueue                    what the worker pool relies on: a channel and
                                    a count that is late in both directions
    TransferQueue                   src/queue.rs, one atomic step per action
      MCTransferQueue               instances
      TransferQueueProofs           theorems (TLAPS), with those of UpdateMode
    WorkerPool     MCWorkerPool     src/worker: main's batch, workers, monitor
      WorkerPoolProofs              theorems (TLAPS)
    Session        MCSession        src/app: checkpoint, loop, crashes, restarts
      SessionProofs                 theorems (TLAPS)
    CopyFile       MCCopyFile       src/transfer: one file per worker
      CopyFileProofs                theorems (TLAPS)
    SpaceReservation                src/worker/space.rs and src/app/preflight.rs,
                                    one filesystem
      MCSpaceReservation            instance
      SpaceReservationProofs        theorems (TLAPS)
    DataTheorems                    lemmas: the elements of a sequence, sums over
                                    a finite set
    UpdateMode     MCUpdateMode     the update policy of src/queue.rs over runs
    MountWatcher   MCMountWatcher   src/app/mounts.rs
      MountWatcherProofs            theorems (TLAPS)
    Finish         MCFinish         src/worker/sync.rs and src/unmount
      FinishProofs                  theorems (TLAPS)

Each module abstracts the ones below it.  `TransferQueue` has every step of
`enqueue_batch` and `recv_timeout`.  `WorkerPool` keeps of them what the pool
observes, the channel and the lagging counter.  `CountedQueue` joins the two:
`TransferQueue` implements it, and what main, the workers and the watcher do to
the queue in `WorkerPool` is a behaviour of it too (`ImplementsCounted` in both),
so that the steps the pool's properties rest on are steps of the queue.  `Session` makes a worker's
receive one step, because main reads the mirror only while no pool runs, but
keeps the steps of `enqueue_batch` apart, because the watcher takes them while
main saves.  A copy is one step of `WorkerPool`, and is taken apart in
`CopyFile`; so is the space check, in `SpaceReservation`.

Each module names its actions after the code and has a program counter
(`pc`, `ppc`, `cpc`, `wpc`, `mpc`) per thread.  Variables that exist only to
state properties are marked *history* where they are declared; no guard of the
program reads one (`Fresh` in `Session` and `submitted` in `TransferQueue` keep
the environment from queuing the same item twice).

Operators whose comment begins with *Slip* are faulty variants of the action
that follows them: a dropped guard, a missing update, a swapped order.  They
are not part of any `Next`.  `PROJECT.json` pairs each with a property that
fails when the variant takes the action's place, which shows that the property
depends on that piece of code.

Some steps are coarser than the code where no property can tell.  `CtrlC` of
`WorkerPool` stands for the two stores of `app/mod.rs:48` and 56.  The error
exits of spawning a worker (`pool.rs:80`) and of joining one that panicked
(`pool.rs:98`) are left out.  `WorkerPool` and `Session` send a batch in one
step where `queue.rs:114` sends item by item; `TransferQueue` has the single
sends, and `CountedQueue` covers both.  A checkpoint that cannot be read, as
opposed to one that is invalid, stays where it is (`checkpoint.rs:57`);
`Session` has the invalid one, which is removed.

### TransferQueue

`channel` is `items_tx`/`items_rx`, `snapshot` the mirror.  `ExtendSnapshot`,
`Send` (one item a step), `AddBatchSize`, `AddBatchLen`, `BatchQueued` are
`enqueue_batch`; `Take`, `SubItemSize`, `SubOne`, `ItemReceived`, `PopSnapshot`
are `recv_timeout`.  The counters are 64-bit words that are only added to and
subtracted from; the variables hold the exact integer, which may be negative
for a moment, and the readers take it modulo `WordSize`.  The directory walk
and the update policy decide what a batch holds; here a batch is any sequence
of distinct items.

`CountedQueue` has the channel, the count, and two sets: `ahead`, the items that
were sent and are not counted yet, and `behind`, the ones that were taken and
still are.  `TransferQueue` maps `ahead` to what its producers have sent of
batches they have yet to add (it sends item by item), `WorkerPool` to the
batches main and the watcher have sent and not counted (a batch a step); both
map `behind` to the items of workers between the receive and the subtraction.

### WorkerPool

Main goes through `loop`, `join`, `cleanup`, `terminate`, `await`, `sync`,
`batch_done` as `transfer_worker_pool` does.  A worker's steps are the ones of
`transfer_worker_single` and, when preparing fails, the four of
`transfer_failure_stop`.  The monitor reads the statistics, polls the command
channel, and looks at an empty queue twice with `QUEUE_SETTLE_MS` between.
`cmds` outlives the pool, as the channel in `TransferQueue` does.  After a
batch the user may add files, which may fail after some were queued
(`AddMoreFails`): the loop then ends with them in the queue.  Removing the
empty directories is one step without an effect on the state.

### Session

Main's steps from `load_queue_checkpoint` to the end of `run()`.  A save is
three steps: the revision is read and compared, the mirror is copied and
`fs::write` truncates the file, and the content is written.  `Restart` is
enabled at every step, and starts the process again with empty memory: after a
kill, or after it had ended.  `Torn` is a file cut inside the write, by a kill
or by an error (`SaveFails`).  Errors of a prompt, which also end `run()`, leave
behind what a kill at that step does and are not actions of their own.

### CopyFile

Each worker copies one file, `from` which and `to` which destination is chosen
at the start.  Two workers may copy the same one, which is what happens when two
devices get the same mapping; a source that one of them deletes can be read to
its end by the other but not opened again.  And two sources of one name have the
same destination, `dest_root.join(file_name)` in `queue.rs:138`, which nothing
in the program prevents: `dest` belongs to the destination, not to the worker,
and `last` records who changed it last.

A file is a sequence of units.  Those of a source bear its name, so that two
files in one place can be told apart; `new` was put there by the owner, `bad` is
a write that silently went wrong.
`CopyRange` is one `copy_file_range` call, which copies no more than the queued
size, `ReadUnit` one turn of the read/write loop with its delayed counting,
`Finalize` the rename and the completion of the bar, `AttemptFails` any error of
an attempt, `Rollback` `rollback_file_attempt_progress` and the decision to try
again.  `RemoveTemp` is the `let _ = fs::remove_file(..)` of `copy.rs:72` and
137, which may fail: the next attempt takes another name, and `parts` counts the
temporary files of an item that are on the disk, `refused` those the disk would
not remove.

The overall progress bar is left out: the monitor overwrites it from
`copied_bytes` at each tick.  An action makes one access to the shared
`copied_bytes`; a file's own bar is touched by its worker only, so it may change
in the same step.  The buffer pool and the caches of directories are left out,
and so are two attempts at one destination in the same nanosecond, which would
have the same temporary file.

### SpaceReservation

One filesystem and its entry in `space_reservations`.  Files are queued,
`Preflight` compares their sum with what is available, and the batch begins;
the watcher queues more files during it.  A worker probes, or keeps its probe,
then reserves under the mutex, copies, and releases.

A copy is all the attempts of `copy.rs:275-315`, under one reservation of the
queued size.  `Write` is one unit; a source that grew goes on beyond `bytes`.
After `VerifyFails` the destination stays (`kept`) while the next attempt writes
its temporary file (`written`) beside it.  `AttemptFails` removes the temporary
file, or leaves it where it cannot be removed, and keeps the earlier
destination, or not, if the fallback of the rename took it away.  `Copied` and
`CopyFails` end the copy.  `excess` counts how often a transfer began to take
more than it reserved, in any of these ways; `outgrown` are the bytes that
transfers which are over left beyond their reservations.  A destination never
replaces an older file and no other program writes: both would only change
`available` in ways the code cannot see.

### UpdateMode

Whole runs over one folder, one after another.  `Skip` and `Collect` are the
two outcomes of the test in the walk, `BatchQueued` the end of the walk,
`WalkFails` an entry that cannot be read, which loses the batch.  The walk also
reads the size (`item_size`).  A copy reads its source at `StartCopy`: to its
end, or, if the file is of at least `COPY_FILE_RANGE_THRESHOLD` bytes and has
grown since the walk, possibly only to the queued size (`Prefix`, `copy.rs:102`);
which of the two depends on whether the kernel offers the call.  A large file
that has shrunk fails or is read to its end.  The copy completes the destination
at `CopyEnds`, with the time of that moment in the filesystem's resolution
(`Stored`), as no copy sets the modification time.  The clock counts half seconds, so that `Seconds`
truncates as `as_secs` does.  The owner may edit a file at any moment, or put
one with an older time in its place.

### MountWatcher

`Register`, `ReadRoot`, `LookAt`, `Insert` are one turn each of the loops of
`watch_mounts_for_queueing` and `mounted_paths_in_watch_roots`; `TakeEvent` one
event, after which `AllInserted` starts the rescan.  `CheckAgain` and
`QueueMapping` are `auto_queue_mappings_for_mount`.  The system makes and
removes folders, which is an event if the folder's root is watched, and mounts
and unmounts devices, which is none.  Reading a watched folder may be an event
itself, depending on the version of the library, and its queue may overflow.

The watcher ignores every error, and so each of its reads may fail.  A watch may
be refused.  A folder that cannot be read has no entries (`ReadRootFails`), and
a mount table that cannot be read lists nothing (`LookAtFails`,
`CheckAgainFails`, and the choice in `TakeEvent`: `is_mount_point`,
`mounts.rs:219`, answers false).  The same function compares a path with the
text of `/proc/mounts`, where a space is `\040`: `Unlisted` are the paths it
never finds.  An error while a mapping is queued is printed, and the mapping is
passed over for good (`QueueMappingFails`, `mounts.rs:283` and 312).  `failed`
records what was lost in this way.  What queuing does to the queue is in
`TransferQueue`.

### Finish

First `run_scoped_sync` on the recorded targets in order, then, if the user
wants it, `safe_unmount` of each configured drive.  `dirty` holds the drives
with data that is not on the device yet.  A drive that is pulled is no longer
mounted and keeps what was not written.  The three ways to unmount are
one action with three program counters, since they fail and succeed alike.
`is_mount_point` (`linux.rs:200-207`) is `Listed`: it compares with the text of
`/proc/mounts`, which differs from the configured path for `Unlisted` drives (an
escaped space, a trailing slash), and answers false when the table cannot be
read or is no UTF-8 text (`ReadTableFails`; `misread` has these drives).
`LookAt` examines one process a step, as `/proc` is read while processes come
and go, unless they cannot be listed (`DetectFails`); `Terminate`, `Kill` are
the two signals.  A process may keep a drive
busy by its working directory, which the search does not see, and the files of
other users' processes cannot be read.

## 3. Runs

| Run | Configuration | Checks |
|---|---|---|
| `one_producer` | `OneProducer.cfg` | `TypeOK`, `SnapshotInQueueOrder`, `ImplementsLog`, `DeliveredEventually` |
| `two_producers` | `TwoProducers.cfg` | `QuiescentAgreement`, `ImplementsCounted` |
| `worker_pool` | `WorkerPool.cfg` | `TypeOK`, `BatchDrained`, `FatesReported`, `OneFileAfterStop`, `AftermathSeesAll`, `CompleteIsDone`, `FateDecidedOnce` |
| `pool_liveness` | `WorkerPoolLiveness.cfg` | `ImplementsCounted`, `PoolEnds`, `StopEndsRun` |
| `session` | `Session.cfg` | `CheckpointCurrent`, `DueSaved`, `NoRedo`, `CheckpointSurvives` |
| `copy_file` | `CopyFile.cfg` | `TypeOK`, `DestinationWhole`, `DeletedIsKept`, `NothingLeftBehind`, `CopiedExact`, `ResultIsFinal`, `CopyEnds` |
| `space` | `SpaceReservation.cfg` | `TypeOK`, `ReservedExact`, `MarginKept`, `FullOnlyLate` |
| `watcher` | `MountWatcher.cfg` | `TypeOK`, `QueuedOnce`, `AnnouncedQueued` |
| `finish` | `Finish.cfg` | `TypeOK`, `SyncCovers`, `EjectedIsSafe`, `ClosesHolders` |
| `update` | `UpdateMode.cfg` | `TypeOK`, `UpToDate` |

Four properties are theorems without a run of their own.  `CounterExact` and
`EmptyMeansDone` come out of what `two_producers` checks: `ImplementsCounted` moves
the count as the channel, `QuiescentAgreement` equates the two at rest.
`SnapshotCoversPending` is true of every `PendingLog`, which `ImplementsLog` says
the queue is.  `TypeOK` of `Session` gives only the ranges its proofs need.

Bounds, and why they are enough:

* **Queue.**  Four items in three batches, one of two items, so that a batch
  can be half sent; one item of zero bytes; two workers, so that one can
  overtake the other between the receive and the pop; one or two producers.
  `WordSize = 16` is above every value the counters reach, and wraps when a
  worker subtracts before the producer has added.
* **Pool.**  Two workers, two files of one folder at the start, one file the
  watcher queues at any moment, and one the user adds after a batch, so there
  can be two pools in one run and the watcher can come into either.
  `pool_liveness` has one file at the start, none added, and a folder of two that
  the watcher queues, so that workers take and copy while part of a batch, or all
  of it, is not counted yet; it keeps all interleavings, without symmetry.
* **Session.**  Five items: a mapped folder of two, two devices, one file added
  between batches.  Three starts allow a crash, and a crash of the resumed run.
* **Copy.**  A file of one unit that is read and verified, and one of two units
  that is copied by `copy_file_range` and not verified.  Either both workers copy
  the first, to two destinations, or each copies one of them to the same
  destination; that of the first worker exists before.  One retry distinguishes
  first, repeated and last attempts (`MAX_RETRIES` is 3); the disk refuses to
  remove one temporary file (`MaxRefusals`); the owner changes one source once,
  at any moment (`OwnerIntrudes`; in `lost_growth` only while no copy has it
  open).
* **Space.**  Three files before the batch and one during it, for two workers;
  sizes 1 to 3 with `Recheck = 2`: below, at and above `SPACE_RECHECK_BYTES`; a
  capacity of 5 is passed by some of these batches and exceeded by others, with
  and without the margin of 1.  A transfer exceeds its reservation at most twice
  (`MaxExcess`), so that one can do it in two ways, or two workers at once.
* **Update.**  Two files of three sizes, of which two are at or above
  `Threshold`, so that a large file can grow and a small one become large; two
  runs, one edit.  A clock of nine half
  seconds reaches every distance from zero to beyond the tolerance with the
  resolution of FAT (2 s) added.
* **Watcher.**  `/media` and `/run/media/<user>`, one mount point in each and one
  more that `/proc/mounts` has another text for; a mapping of either kind; and
  two changes of folders and devices.  The initial states have every combination
  of folders and mounts, and reading a watched folder may be an event, which
  starts another scan: so two changes are enough for a folder to be made and
  mounted on, or a device to be removed and mounted anew, with a scan before,
  between and after.  Two events in the channel make an overflow possible.
* **Finish.**  Two drives, one whose path is not the text of `/proc/mounts`;
  three targets, two of them on one drive, so that a failed device is met again;
  a process of the user and one of another user, each in any initial state; and
  three events of the system, enough for an exit, a restart with the same id and
  another change.

Deadlock is not checked because each of these models really may stop: the
process ends, the copies are done, all items are transferred, a worker was
refused, the drives are unmounted, nothing is mounted any more.  That nothing stops too early is what the liveness properties check.

Symmetry of the workers is used in `WorkerPool.cfg`, `Session.cfg` and
`SpaceReservation.cfg`, and of the files in `UpdateMode.cfg`: no definition
names one of them, and only invariants and properties of single steps are
checked there.

### Fairness

Threads and tasks are scheduled (the runtime is multi-threaded, so the monitor
runs while main blocks in the joins): weak fairness for each worker, for main's and
the monitor's steps, and for a producer once it has begun to enqueue.  The
receive has a timeout and the joins have no other condition, so no strong
fairness is needed.  The user, Ctrl+C and the devices are not fair: none of
them need ever act.  In `CopyFile` an I/O operation returns, with or
without an error; weak fairness of the workers together says this much, and is
enough, because each copy has boundedly many steps, so that no worker can go on
while another waits for ever.  `PoolEnds` needs no assumption on the watcher
beyond finishing the enqueue it is in, and a finite number of devices.  In
`MountWatcher` the thread is weakly fair (`WF_vars(Watcher)`): its only wait is
for an event.  The system is not; that devices are mounted, or that events come,
is assumed nowhere.

### Where the program differs from what it says

| Run | Property | What TLC shows |
|---|---|---|
| `lost_growth` | `DeletedIsCopied` | A source that grew after it was queued is copied up to its old size by `copy_file_range`, reported as copied, and deleted (`copy.rs:102`). |
| `recopied` | `UnchangedIsSkipped` | A file that has not changed since it was copied is queued again in update mode, because its destination has the time of the copy (`queue.rs:69`, prompt in `flows.rs:114`). |

Other differences met while modelling, which the properties that hold take into
account:

* With two producers the mirror and the channel can hold their batches in
  different orders for good, and workers then pop the wrong items off the mirror
  (`queue.rs:108`, against the comment at 212).  `SnapshotInQueueOrder` is checked
  and proved for one producer.
* A monitor that ended on an empty queue leaves its `Terminate` in the channel;
  the next batch's monitor takes it and ends at its first look (`pool.rs:107`).
  That batch has no display and is not affected otherwise.
* When the preflight check ends the run, items the watcher has queued are in no
  checkpoint (`app/mod.rs:251`): `DueSaved` exempts them.
* Two mapped sources of the same name have one destination (`queue.rs:138`,
  168-180, without a check): the second copy replaces the first
  (`helpers.rs:97`), both are reported as transferred, and in delete mode both
  sources are removed, so that the first file is kept nowhere.
* A temporary file that cannot be removed stays, as the error is ignored
  (`copy.rs:72`, 137) and the next attempt takes another name.
* Bytes written since the cached probe are in neither the probe nor, after the
  release, the reservations (`space.rs:111`), and late files see no preflight
  check: together they let a copy find the filesystem full.  So does a transfer
  that takes more than it reserved: by a second attempt beside a destination
  that failed its verification (`copy.rs:275-315`), by reading a source that has
  grown to its end (`copy.rs:62`), or by a temporary file that stays.
  `FullOnlyLate` says that nothing less than one of the two does.
* In update mode, too, a large file that grew between the walk and its copy is
  cut to the size it had at the walk (`copy.rs:102`).  The next update run sees
  that the sizes differ.
* "All transfers complete" is printed with items in the queue when adding files
  failed halfway or the watcher came after the last batch (`app/mod.rs:379`).
  The queue is saved; `CompleteIsDone` says what is complete.
* A device mounted on an existing directory, or below a root that did not exist
  when the watcher started, is noticed at the next event only, which may never
  come (`mounts.rs:362`, `mounts.rs:398`).  `AnnouncedQueued` promises nothing
  before an event.  A path is never queued a second time, so neither is a device
  that was removed and mounted anew, nor a mapping whose queuing met an error
  (`mounts.rs:283`, 312).
* A mount point with a space is not found in `/proc/mounts`, where it is written
  `\040`, and no mount point is found in a table that cannot be read.  The
  watcher then never queues for the device, or not before the next event
  (`mounts.rs:219-231`), and the drive is reported as safely ejected while it is
  mounted (`linux.rs:200-207`; there a configured path with a trailing slash is
  enough).
* Signals go to process ids: one that was found busy may have ended and its id
  be another process's by then (`busy.rs:138`).
* One filesystem that was synced is enough for no warning to be printed about
  the others (`sync.rs:168`).

Consequences for the properties that hold:

* Those of `Session` about order are stated for sessions in which no two batches
  were enqueued at once (`~overlapped`), `CheckpointSurvives` also for sessions
  in which no crash cut the write of the file (`~torn`, `checkpoint.rs:45` writes
  in place).
* `DeletedIsKept` ends for a destination when an item of the same name changes
  it, and `ResultIsFinal` lets only such an item change a destination that was
  reported.  `NothingLeftBehind` counts the files the disk refused to remove.
* `MarginKept` is for histories in which every reservation used a probe that was
  still true (`~stale`), and subtracts what transfers took beyond their
  reservations; `FullOnlyLate` names both.
* `UpToDate` allows the cut large file, with a size that gives it away.
* `AnnouncedQueued` is for paths that are the text of `/proc/mounts`, and allows
  for the errors that were met; `EjectedIsSafe` exempts the drives that text or
  a read error hid, and those that were pulled.

## 4. Proofs

### TransferQueueProofs

For any items, sizes, batches and consumers:

| Theorem | States | Assumes |
|---|---|---|
| `TypeCorrect` | `Spec => []TypeOK` | - |
| `CounterIsExact` | `Spec => []CounterExact` | - |
| `EmptyQueueIsDone` | `Spec => []EmptyMeansDone` | `Items` finite, fewer than `WordSize` |
| `QuiescentViewsAgree` | `Spec => []QuiescentAgreement` | `Items` finite, fewer than `WordSize`, their bytes less than `WordSize` |
| `SnapshotIsQueueOrder` | `Spec => []SnapshotInQueueOrder` | one producer |
| `SnapshotCovers` | `Spec => []SnapshotCoversPending` | one producer |
| `QueueImplementsLog` | `Spec => ImplementsLog` | one producer |
| `QueueImplementsCounted` | `Spec => ImplementsCounted` | - |

The three about the mirror's order are false for two producers, so their
hypothesis `Producers = {m}` is needed; the others hold for any number.

The argument.  `TypeOK` is not inductive: that a worker about to subtract has
an item, and a producer about to add has a batch, is `AtWork`; `TypeInv` is
both.  `Distinct` says that no item is twice in the channel and the unsent
parts, and that none of these has been taken, so `Take` adds an item to
`taken` that was not there and both sides of `CounterExact` move by one.
`SizeExact` says of `total_size` what `CounterExact` says of `pending`: it is
the bytes of what was submitted, without the batches whose producer has yet to
add them (`NotYetSized`), less the bytes of what was taken, without the items
whose worker has yet to subtract them (`StillSized`).  `MirrorCount` says only
how long the mirror is, what was submitted less what was popped from it, which
is true in whatever order two producers extended it.  `Placed` says that each
submitted item is in the channel, taken or unsent.  With no call under way each
comes down to the channel, and the bounds on items and bytes remove the modulus the
readers apply.

For the order, `Mirrored(m)` says that the mirror
is the concatenation of as many items as workers have yet to pop (`Popping`),
the channel, and what the producer has not sent (`Lined`).  Each step of either
side keeps that shape: extending adds to the unsent part, sending moves its
head to the channel, a receive moves the channel's head to the first part, a
pop drops one of it.  `Located` says where every submitted item is.  With no
call under way the first and last parts are empty, which is
`SnapshotInQueueOrder`; the same shape gives the refinement, with the mirror as
the log and the number of poppers as its cursor.

`ImplementsCounted` needs no order.  That a sent item is new, and that one
consumer's subtraction leaves the others' items behind the count, is `Distinct`;
that a producer's addition leaves the others' items ahead of it is `Apart`: two
batches under way share no item.  `RestoreItems` stores the count instead of
adding to it, which `CounterExact` allows as nothing is under way then.

The module ends with two theorems about the other part of `src/queue.rs`, the
update policy, for any files, sizes, tolerance, resolution of the destination's
times, and number of runs and edits:

| Theorem | States | Assumes |
|---|---|---|
| `PolicyTyped` | `Spec => []TypeOK` of `UpdateMode` | `UpdateAssumption` |
| `PolicyUpToDate` | `Spec => []UpToDate` | `UpdateAssumption` |

`ReadingInv`: a copy under way of a file that is still current has read what
the source is now, or its first part, which is shorter (`CutShort`); both stay
true until the copy ends, and each gives one alternative of `UpToDate`.
`TimeInv`: a destination has the time at which its copy was
completed, rounded down.  A file is skipped if that is within the tolerance of
the source's time, and `CloseEnough` turns this into the bound `UpToDate` gives:
`as_secs` loses up to one half second, and the rounding up to one less than the
resolution.

### WorkerPoolProofs

For any number of workers, any items and roots, and any batches of the user and
the watcher:

| Theorem | States |
|---|---|
| `PoolTyped` | `Spec => []TypeOK` |
| `PoolDrains` | `Spec => []OneFileAfterStop` |
| `AftermathComplete` | `Spec => []AftermathSeesAll` |
| `PoolBatchDrained` | `Spec => []BatchDrained` |
| `PoolFatesReported` | `Spec => []FatesReported` |
| `PoolCompleteIsDone` | `Spec => []CompleteIsDone` |
| `PoolFatesDecided` | `Spec => FateDecidedOnce` |
| `PoolImplementsCounted` | `Spec => ImplementsCounted` |

`TypeInv` adds to `TypeOK` that a worker between a receive and its end has an
item and a watcher that counts has a batch.  `StopInv` says that a worker which
took an item after the stop does not wait for another: it passes `check`, where
the flag, which nothing resets, sends it to its end, and `StartPool` tests the
flag.  `AftermathInv` says what holds while workers still run: a folder that
lost a file is recorded or some worker is at the step that records it, an item
that is being written is a sync target already, and outside `join` every worker
has exited.  The join turns the second alternative off.

The theorems from `PoolBatchDrained` on share `PoolInv`.  `ItemInv` places the entries: those still to
be queued are new (`ComeInv`), the channel holds exactly those whose status is
"queued", each once (`ChannelInv`), and no two workers have the same one in hand
(`WorkInv`).  `TallyInv`: `completed` and `failed` together are the items of
this batch that no worker is busy with.  `FailInv`: where an item could not be
prepared, its worker is at the steps that record the reason and the stop, or
they are recorded.  `DrainInv` is `BatchDrained` while workers still run: one
that has left without a stop found nothing due in the channel, and nothing due
is queued again.  A worker leaves by the channel only, after a receive that
found nothing; the counter just decides whether it then leaves or tries again.

`CompleteIsDone` does depend on the counter, by which main decides whether to
start a pool.  `PendingInv`: `pending` is the length of the channel and the
items taken and not yet subtracted (`Counting`), less the batches sent and not
yet added (`Uncounted`).  It may be negative, which a reader sees as a large
number, and that is harmless: the last worker to leave without a stop read a
multiple of `WordSize`, and `pending` is nearer to 0 than that, so from then on
it is at least 0, and at least the length of a batch main adds.  `DoneInv`
follows the first batch and the added files: they are in the channel when main
looks at the counter, so they are due in the pool that follows, and are handled
and stay so when it ends.

The two properties of steps use the same invariant.  `WorkInv` gives the fate an
item has before a worker decides on it, `ChannelInv` that of the one received,
`ComeInv` that of a batch that is queued: these are the only steps that change
a fate.  For `ImplementsCounted`, the three together make a batch that is sent
new to the queue (`FreshBatch`), and the item of a worker that subtracts no
other's; a pool starts when no worker is between its receive and its
subtraction (`AftermathInv`).

### MountWatcherProofs

For any directories, mount points, mappings and number of events:

| Theorem | States |
|---|---|
| `WatcherTyped` | `Spec => []TypeOK` |
| `MountQueuedOnce` | `Spec => []QueuedOnce` |

The set of seen mounts is filled before a mount is queued, by two loops.
`QueuingInv` relates it to the watcher's next step: nothing was queued for a
path that was not seen, nor for the path at hand when it has just become seen,
and while its mappings are gone through nothing was for the ones that are left.

### FinishProofs

For any drives, targets, processes and number of changes in the system:

| Theorem | States |
|---|---|
| `FinishTyped` | `Spec => []TypeOK` |
| `SyncCoversDrives` | `Spec => []SyncCovers` |
| `EjectedDrivesAreSafe` | `Spec => []EjectedIsSafe` |
| `ClosesOnlyHolders` | `Spec => []ClosesHolders` |

`SafeInv`: data that is not on its drive is on a drive that is mounted or was
pulled, so a drive that is found unmounted, other than through a table that
could not be read or does not have its path, has everything.  `SyncInv` says where each
drive stands while the targets are gone through: of the data that is
missing without an excuse (`Missing`) every drive still has a target ahead
(`Ahead`), and a device in `synced_devices` has none, except the one whose sync
is under way.  `ClosesInv` says that the processes found are noted until they
are dealt with, one after the other (`Pending`), that none is left on the second
try, and that nobody looks for processes again once a signal was sent.

### SessionProofs

For any items, batches, devices, workers and number of starts, with kills at
every step:

| Theorem | States |
|---|---|
| `SessionTypes` | `Spec => []TypeOK` |
| `SessionCheckpointCurrent` | `Spec => []CheckpointCurrent` |
| `SessionDueSaved` | `Spec => []DueSaved` |
| `SessionNoRedo` | `Spec => []NoRedo` |
| `SessionCheckpointSurvives` | `Spec => []CheckpointSurvives` |

The invariant has two halves.  `ControlInv`, `LengthInv` and `SaveInv` hold in
every session: where main, the watcher and the workers can be at once; that
the mirror and `pending` count what the channel holds, but for the batches on
their way; and that `last_saved = revision` means that the file is the mirror, or one of the steps
that will change that is under way.  This is `CheckpointCurrent`, and needs
no hypothesis about order.  The rest, `AloneInv`, is about sessions in which no
two batches were enqueued at once.  `OrderInv`: the mirror is the channel
followed by the unsent part of the one batch under way, so a receive takes the
item the mirror pops.  `FileInv`: what the file holds of settled items (their
enqueue has returned) while a pool runs or a save is between its steps.
`NewInv` and `TimesInv`: an item that is pending or saved was given to a worker
at most `crashes` times, one that is in neither at most once more.  `KeptInv`
is `CheckpointSurvives` with the steps of a save and the time between two
processes included.

### CopyFileProofs

For any files, sizes, workers, number of retries, and assignment of sources and
destinations to the workers:

| Theorem | States |
|---|---|
| `CopyTypes` | `Spec => []TypeOK` |
| `CopyDestinationWhole` | `Spec => []DestinationWhole` |
| `CopyDeletedIsKept` | `Spec => []DeletedIsKept` |
| `CopyNothingLeftBehind` | `Spec => []NothingLeftBehind` |
| `CopyCopiedExact` | `Spec => []CopiedExact` |
| `CopyResultIsFinal` | `Spec => ResultIsFinal` |

`WorkerInv` says what each worker's temporary file and counters are at each of
its steps: how much of the source the file holds, that it is complete when it is
finalised, that it is the only one on the disk beside those that were refused
(`TempInv`), and what its bar shows.  It is kept by the worker's own steps and,
since it speaks of the source's content only as long as nobody changed it, by
those of the owner and of other workers that delete the source.

The destinations are shared, so what is true of them cannot be said worker by
worker.  `DestInv`: each is absent, old, or the whole file of the worker that
changed it last (`last`).  A worker's step changes its own destination only, and
becomes the last one there (`DestChanged`).  `KeptInv` is for a worker that
succeeded and is still the last one at its destination: the file there is
whole, and equal to the source where it was verified.  It is made true when the
worker reports success, and no step of another worker can disturb it but one
that becomes the last there itself.  With `RemovedInv`, a deleted source has a
worker that reported success, this is `DeletedIsKept`.

`CountInv` is the sum of the bars over all workers: a step changes one of them
and the shared counter by the same number of bytes (`SumChange`).  `ResultInv`
says where a worker with a result can be: at the removal of its source or at its
end, from where no step touches the result or a destination.  So whoever changes
a destination has no result yet, which is `ResultIsFinal`.

### SpaceReservationProofs

For any workers, sizes, capacity, margin and interval between probes:

| Theorem | States |
|---|---|
| `SpaceTypes` | `Spec => []TypeOK` |
| `SpaceReservedExact` | `Spec => []ReservedExact` |
| `SpaceMarginKept` | `Spec => []MarginKept` |
| `SpaceFullOnlyLate` | `Spec => []FullOnlyLate` |

The properties sum over the workers that hold a reservation, a set that
changes.  `SpaceInv` sums over all workers instead, with a zero for those that
do not count, so that a step changes one term; `SumWhere` gives the properties
back.  `HeldSum` is what is reserved, `DueSum` what the reservations under way
have left, where a worker that takes more than it reserved counts negatively,
`OwedSum` what the workers are to write yet, reserved or not, and `GivenSum` what
they give back if their copies fail, which with what is available is never more
than the capacity.

Two inequalities follow the available bytes.  As long as every probe was true,
they cover, with `outgrown`, the margin and `DueSum`: a reservation adds a term
that its own probe has covered (`DueSum` is at most `HeldSum`, which is
`reserved`), a write takes one from either side, and what a transfer
leaves on the disk for good goes from its term to `outgrown`.  This is
`MarginKept`.  As long as nothing came late and nothing exceeded its
reservation, they cover the queue and `OwedSum`.  For `FullOnlyLate` suppose
there was no excess.  Then `outgrown` is zero and no term of either sum is
negative (the last part of `StepInv`, `CalmSums`), so that a worker that finds
nothing available before its size is written contradicts the first inequality if
no probe was stale, and the second if nothing was late.

### DataTheorems

The elements of a sequence: what appending, the head, the tail and a
concatenation do to `Range`, to `IsInjective` and to the number of elements.
And what `SumFunctionOnSet` computes.  It is a fold, a function that is recursive
over the subsets of a finite set.  The induction theorems that take an operator
are of no use to the provers at hand, but the strict subsets of a finite set are
well founded, and that is a fact about a relation: the set of subsets for which
a claim fails has a minimal element (`SmallestSubset`), for which one step of
the recursion refutes the claim.  In this way the recursive function exists
(`SumsExist`), is unique (`SumsAgree`), and its sums do not depend on the order
(`SumRemove`); the lemmas the other modules cite follow, on changing one term,
comparing sums, and the sum of a queue.

### Assumptions, and what is only model-checked

The assumptions on the constants are the named `ASSUME`s of the modules;
TLC evaluates them on the instances of the runs.  `SizeAssumption` of
`TransferQueue` states that the bytes of a batch are a natural number.
`SessionAssumption` states that an item is one entry of the queue: a batch has
no entry twice and a device's batch shares none with another.  (Two entries may
name the same source; what that leads to is in `CopyFile`.)  `EntryAssumption`
of `WorkerPool` states the same of the batches there, and that there are fewer
entries than the counter, a machine word, can count.  `UpdateAssumption` of `UpdateMode`, a
hypothesis of its two theorems, states that the bounds are natural numbers, that
the resolution is not zero, and that `None` is no file's metadata.

Only model-checked: all liveness (`DeliveredEventually`, `PoolEnds`,
`StopEndsRun`, `CopyEnds`, `AnnouncedQueued`), as the provers do not treat
fairness.  Every other property of a passing run is a theorem.

## 5. Not modelled, and what could follow

Left out for good: prompts and display (`src/ui`, `worker/progress_ui.rs`,
`transfer/format.rs`), configuration, USB speeds, the entry point.  They keep
no shared state and run one after another.  `cleanup_empty_roots` only calls
`remove_dir`, which removes a directory that is empty, so a model of it could
only restate that.  The code for other systems than Linux is left out, and so
are the files the preflight check writes to test for permission.

What a next step could add: the caches of directories and the buffer pool of
`src/transfer/helpers.rs`, temporary files of the same name (two attempts at one
destination in the same nanosecond), and a link between `WorkerPool`, where a copy is one
step, and `CopyFile`, like the one `CountedQueue` makes between the pool and the
queue.

Out of reach: proofs of liveness, and of what `RECURSIVE` operators compute; the
modules have none.
