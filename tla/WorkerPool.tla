----------------------------- MODULE WorkerPool -----------------------------
(***************************************************************************)
(* The worker pool of src/worker: the main task starts a batch, worker     *)
(* threads take items off the queue and transfer them, a monitor task      *)
(* reads the statistics and the command channel, and main joins the        *)
(* workers, cleans up, ends the monitor and syncs.  Meanwhile the mount    *)
(* watcher may enqueue and the user may press Ctrl+C.                      *)
(*                                                                         *)
(* Of the queue the pool only sees the channel and pending_items, whose    *)
(* updates lag behind it (TransferQueue); the two stay separate steps      *)
(* here.  Copying one file is a step that succeeds or fails (CopyFile),    *)
(* and so is preparing its destination (SpaceReservation).                 *)
(***************************************************************************)
EXTENDS Integers, Sequences, FiniteSets, Functions

CONSTANTS
    Items,
    Root,         \* Root[i]: cleanup_root of item i, or NoRoot
    NoRoot,
    Initial,      \* the batch queued before the first pool starts
    Added,        \* what add_more_files queues when the user says yes
    Watched,      \* the batches the mount watcher queues, in order
    Workers,
    DeleteMode,   \* cleanup_mode = "delete"
    NoItem,
    WordSize

ASSUME PoolAssumption ==
    /\ Initial \in Seq(Items) /\ Added \in Seq(Items) /\ Watched \in Seq(Seq(Items))
    /\ DOMAIN Root = Items
    /\ Workers # {} /\ IsFiniteSet(Workers)
    /\ DeleteMode \in BOOLEAN
    /\ NoItem \notin Items

(* An item is one entry of the queue, in one place of one batch, and there *)
(* are fewer of them than the counter can count.                           *)
ASSUME EntryAssumption ==
    /\ \A b \in {Initial, Added} \cup Range(Watched) : IsInjective(b)
    /\ Range(Initial) \cap Range(Added) = {}
    /\ \A k \in DOMAIN Watched :
           /\ Range(Watched[k]) \cap (Range(Initial) \cup Range(Added)) = {}
           /\ \A j \in DOMAIN Watched : j # k => Range(Watched[k]) \cap Range(Watched[j]) = {}
    /\ IsFiniteSet(Items) /\ WordSize \in Nat /\ Cardinality(Items) < WordSize

VARIABLES
    channel, pending,     \* the queue
    cmds,                 \* cmd_tx / cmd_rx
    stop_requested,
    wpc, item,            \* each worker's next step and item
    completed, failed,    \* TransferStats
    stop_reason,          \* the item whose preparation failed first, or NoItem
    sync_targets,         \* items whose destination was pushed
    cleanup_roots,
    mpc, seen,            \* the monitor's next step; completed + failed > 0 as it read them
    monitor_stopped,      \* MonitorOutcome.stopped_by_user
    pc,                   \* main's next step
    added,                \* whether the user has added files: "no", "all", or "part" before an error
    watching,             \* the watcher's next step
    watched,              \* batches the watcher has yet to queue
    status,               \* history: what became of each item
    due,                  \* history: what the channel held when the pool started
    batch,                \* history: the items the workers of this pool took
    after_stop            \* history: items each worker took after stop_requested

queue   == <<channel, pending>>
ctx     == <<completed, failed, stop_reason, sync_targets, cleanup_roots>>
monitor == <<mpc, seen, monitor_stopped>>
main    == <<pc, added, due>>
history == <<status, batch, after_stop>>
watcher == <<watching, watched>>
vars    == <<queue, cmds, stop_requested, wpc, item, ctx, monitor, main, watcher,
             history>>

Commands == {"Stop", "Terminate"}
WorkerSteps == {"check", "recv", "none", "count", "prepare", "fail_reason", "fail_flag",
                "fail_send", "copy", "remove", "root", "exited"}
(* "taken" while a worker has it; a transferred item is "copied", and      *)
(* "removed" once its source is deleted; "unprepared" stopped the pool.    *)
Fates == {"unqueued", "queued", "taken", "copied", "removed", "error", "unprepared"}

TypeOK ==
    /\ channel \in Seq(Items) /\ pending \in Int
    /\ cmds \in Seq(Commands)
    /\ stop_requested \in BOOLEAN
    /\ wpc \in [Workers -> WorkerSteps] /\ item \in [Workers -> Items \cup {NoItem}]
    /\ completed \in Nat /\ failed \in Nat
    /\ stop_reason \in Items \cup {NoItem}
    /\ sync_targets \subseteq Items /\ cleanup_roots \subseteq Range(Root) \ {NoRoot}
    /\ mpc \in {"read", "cmd", "idle", "settle", "done"} /\ seen \in BOOLEAN
    /\ monitor_stopped \in BOOLEAN
    /\ pc \in {"loop", "join", "cleanup", "terminate", "await", "sync", "batch_done",
               "prompt", "add_send", "add_count", "finished"}
    /\ added \in {"no", "all", "part"}
    /\ watching \in {"idle", "count"} /\ watched \in Seq(Seq(Items))
    /\ status \in [Items -> Fates]
    /\ due \subseteq Items /\ batch \subseteq Items /\ after_stop \in [Workers -> Nat]

IsEmpty == pending % WordSize = 0

Init ==
    /\ channel = Initial /\ pending = Len(Initial)
    /\ cmds = <<>> /\ stop_requested = FALSE
    /\ wpc = [w \in Workers |-> "exited"] /\ item = [w \in Workers |-> NoItem]
    /\ completed = 0 /\ failed = 0 /\ stop_reason = NoItem
    /\ sync_targets = {} /\ cleanup_roots = {}
    /\ mpc = "done" /\ seen = FALSE /\ monitor_stopped = FALSE
    /\ pc = "loop" /\ added = "no" /\ due = {} /\ batch = {}
    /\ watching = "idle" /\ watched = Watched
    /\ status = [i \in Items |-> IF i \in Range(Initial) THEN "queued" ELSE "unqueued"]
    /\ after_stop = [w \in Workers |-> 0]

Queued(b) == [i \in Items |-> IF i \in Range(b) THEN "queued" ELSE status[i]]

-----------------------------------------------------------------------------
(* The main task: the head of run()'s loop, then transfer_worker_pool.     *)

(* The loop ends on a stop request or an empty queue. *)
LoopEnds ==
    /\ pc = "loop"
    /\ stop_requested \/ IsEmpty
    /\ pc' = "finished"
    /\ UNCHANGED <<queue, cmds, stop_requested, wpc, item, ctx, monitor, added, due,
                   watcher, history>>

(* A pool starts with a context of its own; the command channel is the     *)
(* queue's and outlives it. *)
StartPool ==
    /\ pc = "loop"
    /\ ~stop_requested /\ ~IsEmpty
    /\ pc' = "join"
    /\ due' = Range(channel) /\ batch' = {}
    /\ completed' = 0 /\ failed' = 0 /\ stop_reason' = NoItem
    /\ sync_targets' = {} /\ cleanup_roots' = {}
    /\ wpc' = [w \in Workers |-> "check"]
    /\ mpc' = "read" /\ seen' = FALSE /\ monitor_stopped' = FALSE
    /\ UNCHANGED <<queue, cmds, stop_requested, item, added, watcher, status, after_stop>>

(* Slip: the pool goes on when one worker has exited. *)
JoinAny ==
    /\ pc = "join"
    /\ \E w \in Workers : wpc[w] = "exited"
    /\ pc' = "cleanup"
    /\ UNCHANGED <<queue, cmds, stop_requested, wpc, item, ctx, monitor, added, due,
                   watcher, history>>

JoinWorkers ==
    /\ pc = "join"
    /\ \A w \in Workers : wpc[w] = "exited"
    /\ pc' = "cleanup"
    /\ UNCHANGED <<queue, cmds, stop_requested, wpc, item, ctx, monitor, added, due,
                   watcher, history>>

(* cleanup_empty_roots looks at the recorded roots once. *)
CleanupRoots ==
    /\ pc = "cleanup"
    /\ pc' = "terminate"
    /\ UNCHANGED <<queue, cmds, stop_requested, wpc, item, ctx, monitor, added, due,
                   watcher, history>>

SendTerminate ==
    /\ pc = "terminate"
    /\ cmds' = Append(cmds, "Terminate")
    /\ pc' = "await"
    /\ UNCHANGED <<queue, stop_requested, wpc, item, ctx, monitor, added, due,
                   watcher, history>>

AwaitMonitor ==
    /\ pc = "await"
    /\ mpc = "done"
    /\ pc' = IF completed + failed > 0 THEN "sync" ELSE "batch_done"
    /\ UNCHANGED <<queue, cmds, stop_requested, wpc, item, ctx, monitor, added, due,
                   watcher, history>>

SyncTargets ==
    /\ pc = "sync"
    /\ pc' = "batch_done"
    /\ UNCHANGED <<queue, cmds, stop_requested, wpc, item, ctx, monitor, added, due,
                   watcher, history>>

(* Slip: only a Stop that the monitor received counts. *)
StoppedByMonitor == monitor_stopped

(* TransferOutcome.stopped_by_user, and run()'s own test of the flag. *)
Stopped == monitor_stopped \/ stop_requested

BatchEnds ==
    /\ pc = "batch_done"
    /\ pc' = IF Stopped THEN "finished" ELSE "prompt"
    /\ UNCHANGED <<queue, cmds, stop_requested, wpc, item, ctx, monitor, added, due,
                   watcher, history>>

(* "Add more files?"  A stop does not end the prompt. *)
UserAnswers ==
    /\ pc = "prompt"
    /\ \/ pc' = "finished" /\ UNCHANGED added
       \/ added = "no" /\ pc' = "add_send" /\ added' = "all"
    /\ UNCHANGED <<queue, cmds, stop_requested, wpc, item, ctx, monitor, due,
                   watcher, history>>

AddMoreSend ==
    /\ pc = "add_send"
    /\ channel' = channel \o Added
    /\ status' = Queued(Added)
    /\ pc' = "add_count"
    /\ UNCHANGED <<pending, cmds, stop_requested, wpc, item, ctx, monitor, added, due,
                   watcher, batch, after_stop>>

(* Slip: the files are queued and not counted. *)
AddMoreUncounted ==
    /\ pc = "add_count"
    /\ pc' = "loop"
    /\ UNCHANGED <<queue, cmds, stop_requested, wpc, item, ctx, monitor, added, due, watcher,
                   history>>

AddMoreCount ==
    /\ pc = "add_count"
    /\ pending' = pending + Len(Added)
    /\ pc' = "loop"
    /\ UNCHANGED <<channel, cmds, stop_requested, wpc, item, ctx, monitor, added, due, watcher,
                   history>>

(* An error after files were queued, at a prompt or in a later folder,     *)
(* ends the loop. *)
AddMoreFails ==
    /\ pc = "add_count"
    /\ pending' = pending + Len(Added)
    /\ added' = "part"
    /\ pc' = "finished"
    /\ UNCHANGED <<channel, cmds, stop_requested, wpc, item, ctx, monitor, due, watcher,
                   history>>

Main == \/ LoopEnds \/ StartPool \/ JoinWorkers \/ CleanupRoots \/ SendTerminate
        \/ AwaitMonitor \/ SyncTargets \/ BatchEnds \/ AddMoreSend \/ AddMoreCount \/ AddMoreFails

-----------------------------------------------------------------------------
(* transfer_worker_single.                                                 *)

Goto(w, step) == wpc' = [wpc EXCEPT ![w] = step]
Becomes(w, fate) == status' = [status EXCEPT ![item[w]] = fate]

(* Slip: the flag is not looked at between files. *)
NoCheck(w) ==
    /\ wpc[w] = "check"
    /\ Goto(w, "recv")
    /\ UNCHANGED <<queue, cmds, stop_requested, item, ctx, monitor, main, watcher, history>>

CheckStop(w) ==
    /\ wpc[w] = "check"
    /\ Goto(w, IF stop_requested THEN "exited" ELSE "recv")
    /\ UNCHANGED <<queue, cmds, stop_requested, item, ctx, monitor, main, watcher, history>>

Take(w) ==
    /\ wpc[w] = "recv"
    /\ channel # <<>>
    /\ channel' = Tail(channel)
    /\ item' = [item EXCEPT ![w] = Head(channel)]
    /\ status' = [status EXCEPT ![Head(channel)] = "taken"]
    /\ batch' = batch \cup {Head(channel)}
    /\ after_stop' = [after_stop EXCEPT ![w] = IF stop_requested THEN @ + 1 ELSE @]
    /\ Goto(w, "count")
    /\ UNCHANGED <<pending, cmds, stop_requested, ctx, monitor, main, watcher>>

(* Nothing came within QUEUE_POLL_INTERVAL_MS. *)
ReceiveTimeout(w) ==
    /\ wpc[w] = "recv"
    /\ channel = <<>>
    /\ Goto(w, "none")
    /\ UNCHANGED <<queue, cmds, stop_requested, item, ctx, monitor, main, watcher, history>>

NothingReceived(w) ==
    /\ wpc[w] = "none"
    /\ Goto(w, IF IsEmpty \/ stop_requested THEN "exited" ELSE "check")
    /\ UNCHANGED <<queue, cmds, stop_requested, item, ctx, monitor, main, watcher, history>>

(* Slip: a received item stays counted. *)
CountNothing(w) ==
    /\ wpc[w] = "count"
    /\ Goto(w, "prepare")
    /\ UNCHANGED <<queue, cmds, stop_requested, item, ctx, monitor, main, watcher, history>>

CountReceived(w) ==
    /\ wpc[w] = "count"
    /\ pending' = pending - 1
    /\ Goto(w, "prepare")
    /\ UNCHANGED <<channel, cmds, stop_requested, item, ctx, monitor, main, watcher, history>>

(* The destination's parent exists and its space is reserved. *)
Prepared(w) ==
    /\ wpc[w] = "prepare"
    /\ sync_targets' = sync_targets \cup {item[w]}
    /\ Goto(w, "copy")
    /\ UNCHANGED <<queue, cmds, stop_requested, item, completed, failed, stop_reason,
                   cleanup_roots, monitor, main, watcher, history>>

(* transfer_failure_stop, in its order. *)
PrepareFails(w) ==
    /\ wpc[w] = "prepare"
    /\ failed' = failed + 1
    /\ Becomes(w, "unprepared")
    /\ Goto(w, "fail_reason")
    /\ UNCHANGED <<queue, cmds, stop_requested, item, completed, stop_reason, sync_targets,
                   cleanup_roots, monitor, main, watcher, batch, after_stop>>

(* Slip: the test for an earlier reason is inverted. *)
SetStopReasonAgain(w) ==
    /\ wpc[w] = "fail_reason"
    /\ stop_reason' = IF stop_reason # NoItem THEN item[w] ELSE stop_reason
    /\ Goto(w, "fail_flag")
    /\ UNCHANGED <<queue, cmds, stop_requested, item, completed, failed, sync_targets,
                   cleanup_roots, monitor, main, watcher, history>>

SetStopReasonOnce(w) ==
    /\ wpc[w] = "fail_reason"
    /\ stop_reason' = IF stop_reason = NoItem THEN item[w] ELSE stop_reason
    /\ Goto(w, "fail_flag")
    /\ UNCHANGED <<queue, cmds, stop_requested, item, completed, failed, sync_targets,
                   cleanup_roots, monitor, main, watcher, history>>

(* Slip: the failure does not stop the pool. *)
RequestNothing(w) ==
    /\ wpc[w] = "fail_flag"
    /\ Goto(w, "fail_send")
    /\ UNCHANGED <<queue, cmds, stop_requested, item, ctx, monitor, main, watcher, history>>

RequestStop(w) ==
    /\ wpc[w] = "fail_flag"
    /\ stop_requested' = TRUE
    /\ Goto(w, "fail_send")
    /\ UNCHANGED <<queue, cmds, item, ctx, monitor, main, watcher, history>>

SendStop(w) ==
    /\ wpc[w] = "fail_send"
    /\ cmds' = Append(cmds, "Stop")
    /\ Goto(w, "exited")
    /\ UNCHANGED <<queue, stop_requested, item, ctx, monitor, main, watcher, history>>

CopySucceeds(w) ==
    /\ wpc[w] = "copy"
    /\ completed' = completed + 1
    /\ Becomes(w, "copied")
    /\ Goto(w, IF DeleteMode THEN "remove" ELSE "check")
    /\ UNCHANGED <<queue, cmds, stop_requested, item, failed, stop_reason, sync_targets,
                   cleanup_roots, monitor, main, watcher, batch, after_stop>>

(* Slip: the source is removed whatever the copy's result. *)
CopyFailsRemoved(w) ==
    /\ wpc[w] = "copy"
    /\ failed' = failed + 1
    /\ Becomes(w, "error")
    /\ Goto(w, IF DeleteMode THEN "remove" ELSE "check")
    /\ UNCHANGED <<queue, cmds, stop_requested, item, completed, stop_reason, sync_targets,
                   cleanup_roots, monitor, main, watcher, batch, after_stop>>

CopyFails(w) ==
    /\ wpc[w] = "copy"
    /\ failed' = failed + 1
    /\ Becomes(w, "error")
    /\ Goto(w, "check")
    /\ UNCHANGED <<queue, cmds, stop_requested, item, completed, stop_reason, sync_targets,
                   cleanup_roots, monitor, main, watcher, batch, after_stop>>

(* finish_successful_transfer: a source that cannot be removed stays. *)
RemoveSource(w) ==
    /\ wpc[w] = "remove"
    /\ \/ Becomes(w, "removed") /\ Goto(w, "root")
       \/ UNCHANGED status /\ Goto(w, "check")
    /\ UNCHANGED <<queue, cmds, stop_requested, item, ctx, monitor, main, watcher, batch, after_stop>>

(* Slip: an item without a root is recorded too. *)
InsertAnyRoot(w) ==
    /\ wpc[w] = "root"
    /\ cleanup_roots' = cleanup_roots \cup {Root[item[w]]}
    /\ Goto(w, "check")
    /\ UNCHANGED <<queue, cmds, stop_requested, item, completed, failed, stop_reason,
                   sync_targets, monitor, main, watcher, history>>

InsertRoot(w) ==
    /\ wpc[w] = "root"
    /\ cleanup_roots' = cleanup_roots \cup ({Root[item[w]]} \ {NoRoot})
    /\ Goto(w, "check")
    /\ UNCHANGED <<queue, cmds, stop_requested, item, completed, failed, stop_reason,
                   sync_targets, monitor, main, watcher, history>>

Worker(w) ==
    \/ CheckStop(w) \/ Take(w) \/ ReceiveTimeout(w) \/ NothingReceived(w) \/ CountReceived(w)
    \/ Prepared(w) \/ PrepareFails(w) \/ SetStopReasonOnce(w) \/ RequestStop(w) \/ SendStop(w)
    \/ CopySucceeds(w) \/ CopyFails(w) \/ RemoveSource(w) \/ InsertRoot(w)

-----------------------------------------------------------------------------
(* run_progress_monitor.                                                   *)

ReadStats ==
    /\ mpc = "read"
    /\ seen' = (completed + failed > 0)
    /\ mpc' = "cmd"
    /\ UNCHANGED <<queue, cmds, stop_requested, wpc, item, ctx, monitor_stopped, main, watcher,
                   history>>

ReceiveCommand ==
    /\ mpc = "cmd"
    /\ cmds # <<>>
    /\ cmds' = Tail(cmds)
    /\ monitor_stopped' = (Head(cmds) = "Stop")
    /\ mpc' = "done"
    /\ UNCHANGED <<queue, stop_requested, wpc, item, ctx, seen, main, watcher, history>>

NoCommand ==
    /\ mpc = "cmd"
    /\ cmds = <<>>
    /\ mpc' = "idle"
    /\ UNCHANGED <<queue, cmds, stop_requested, wpc, item, ctx, seen, monitor_stopped, main,
                   watcher, history>>

(* An empty queue is looked at again after QUEUE_SETTLE_MS. *)
Settle ==
    /\ mpc = "idle"
    /\ mpc' = IF IsEmpty /\ seen THEN "settle" ELSE "read"
    /\ UNCHANGED <<queue, cmds, stop_requested, wpc, item, ctx, seen, monitor_stopped, main,
                   watcher, history>>

Settled ==
    /\ mpc = "settle"
    /\ mpc' = IF IsEmpty THEN "done" ELSE "read"
    /\ UNCHANGED <<queue, cmds, stop_requested, wpc, item, ctx, seen, monitor_stopped, main,
                   watcher, history>>

Monitor == ReadStats \/ ReceiveCommand \/ NoCommand \/ Settle \/ Settled

-----------------------------------------------------------------------------
(* The rest of the process.                                                *)

(* install_ctrl_c_handler: only the first request is sent on. *)
CtrlC ==
    /\ ~stop_requested
    /\ stop_requested' = TRUE
    /\ cmds' = Append(cmds, "Stop")
    /\ UNCHANGED <<queue, wpc, item, ctx, monitor, main, watcher, history>>

(* enqueue_batch in the watcher's thread: the channel, then the count. *)
WatcherSends ==
    /\ watching = "idle" /\ watched # <<>>
    /\ channel' = channel \o Head(watched)
    /\ status' = Queued(Head(watched))
    /\ watching' = "count"
    /\ UNCHANGED <<pending, cmds, stop_requested, wpc, item, ctx, monitor, main, watched,
                   batch, after_stop>>

WatcherCounts ==
    /\ watching = "count"
    /\ pending' = pending + Len(Head(watched))
    /\ watched' = Tail(watched)
    /\ watching' = "idle"
    /\ UNCHANGED <<channel, cmds, stop_requested, wpc, item, ctx, monitor, main, history>>

Next == \/ Main \/ UserAnswers
        \/ \E w \in Workers : Worker(w)
        \/ Monitor
        \/ CtrlC
        \/ WatcherSends \/ WatcherCounts

Spec == Init /\ [][Next]_vars

(* Threads and tasks are scheduled, and every copy ends.  The user need    *)
(* not answer or press Ctrl+C, and no device need be mounted; but a        *)
(* watcher that has begun to enqueue goes on. *)
FairSpec ==
    /\ Spec
    /\ WF_vars(Main) /\ WF_vars(Monitor) /\ WF_vars(WatcherCounts)
    /\ \A w \in Workers : WF_vars(Worker(w))

-----------------------------------------------------------------------------
(* Properties.                                                             *)

Handled   == {"copied", "removed", "error"}
AfterJoin == pc \in {"cleanup", "terminate", "await", "sync", "batch_done"}

(* BatchDrained: a batch that ends without a stop has handled every item   *)
(* that was in the channel when it started, although the workers decide    *)
(* that they are done by a counter that lags behind the channel.           *)
BatchDrained ==
    pc = "batch_done" /\ ~stop_requested =>
        \A i \in due : status[i] \in Handled

(* FatesReported: when the workers are joined no transfer is under way and *)
(* every item that left the queue is counted in one batch as completed or  *)
(* failed; and a batch in which an item could not be prepared ends as      *)
(* stopped, with a reason. *)
FatesReported ==
    /\ AfterJoin => /\ \A i \in Items : status[i] # "taken"
                    /\ completed + failed = Cardinality(batch)
    /\ pc = "batch_done" /\ (\E i \in Items : status[i] = "unprepared") =>
          Stopped /\ stop_reason # NoItem

(* OneFileAfterStop: once a stop is requested each worker finishes its     *)
(* current file and starts at most one more, the one it was waiting for.   *)
OneFileAfterStop == \A w \in Workers : after_stop[w] <= 1

(* AftermathSeesAll: when the source folders are cleaned up and the drives *)
(* synced, no worker is between removing a source and recording its        *)
(* folder, or between writing and recording a destination: every folder    *)
(* that lost a file in this batch is visited, and every destination that   *)
(* was written is synced, the ones of failed copies too. *)
AftermathSeesAll ==
    AfterJoin =>
        /\ {Root[i] : i \in {j \in batch : status[j] = "removed"}} \ {NoRoot} \subseteq cleanup_roots
        /\ {i \in batch : status[i] \in Handled} \subseteq sync_targets

(* CompleteIsDone: when the run ends without a stop and says that all      *)
(* transfers are complete, everything that was mapped or added by hand has *)
(* been handled.  What may be left is what the watcher has queued since    *)
(* the last batch, and what was added before an error of add_more_files.   *)
CompleteIsDone ==
    pc = "finished" /\ ~stop_requested =>
        \A i \in Range(Initial) \cup (IF added = "all" THEN Range(Added) ELSE {}) :
            status[i] \in Handled

(* FateDecidedOnce: an item is handed to one worker, once; what becomes of *)
(* it is decided once, and a source is removed only after its copy         *)
(* succeeded.                                                              *)
Decisions == {<<"unqueued", "queued">>, <<"queued", "taken">>, <<"copied", "removed">>}
             \cup {"taken"} \X {"copied", "error", "unprepared"}
FateDecidedOnce ==
    [][\A i \in Items : status'[i] # status[i] => <<status[i], status'[i]>> \in Decisions]_vars

(* ImplementsCounted: what the pool, main and the watcher do to the queue  *)
(* is what a CountedQueue allows, which TransferQueue implements.          *)
Counted == INSTANCE CountedQueue WITH
               Pieces <- {Added} \cup Range(Watched), Batches <- {Added} \cup Range(Watched),
               ahead  <- (IF watching = "count" THEN Range(Head(watched)) ELSE {})
                         \cup (IF pc = "add_count" THEN Range(Added) ELSE {}),
               behind <- {item[w] : w \in {v \in Workers : wpc[v] = "count"}}
ImplementsCounted == Counted!Spec

(* PoolEnds: a pool that was started is joined and its monitor ends, with  *)
(* the watcher enqueuing meanwhile and whatever fails. *)
PoolEnds == (pc = "join") ~> (pc = "batch_done")

(* StopEndsRun: a stop requested while a batch runs ends the run.          *)
StopEndsRun ==
    (stop_requested /\ pc \in {"join", "cleanup", "terminate", "await", "sync"})
        ~> (pc = "finished")
=============================================================================
