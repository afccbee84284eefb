-------------------------- MODULE WorkerPoolProofs --------------------------
(***************************************************************************)
(* Theorems about the worker pool, for any number of workers, any items,   *)
(* and any batches of the watcher and the user.                            *)
(***************************************************************************)
EXTENDS WorkerPool, DataTheorems

-----------------------------------------------------------------------------
(* Type correctness.  A worker between a receive and its end has an item,  *)
(* and a watcher that counts has a batch.                                  *)

AtWork == {"count", "prepare", "fail_reason", "fail_flag", "fail_send", "copy", "remove", "root"}

TypeInv ==
    /\ TypeOK
    /\ \A w \in Workers : wpc[w] \in AtWork => item[w] \in Items
    /\ watching = "count" => watched # <<>>

LEMMA InitTyped == Init => TypeInv
<1> SUFFICES ASSUME Init
             PROVE  TypeInv
  OBVIOUS
<1> USE PoolAssumption
<1>1. channel \in Seq(Items) /\ pending \in Int /\ cmds \in Seq(Commands)
  BY EmptySeq, LenProperties DEF Init
<1>2. /\ wpc \in [Workers -> WorkerSteps] /\ item \in [Workers -> Items \cup {NoItem}]
      /\ \A w \in Workers : wpc[w] = "exited"
  BY DEF Init, WorkerSteps
<1>3. status \in [Items -> Fates] /\ after_stop \in [Workers -> Nat]
  BY DEF Init, Fates
<1>4. /\ stop_requested \in BOOLEAN /\ completed \in Nat /\ failed \in Nat
      /\ stop_reason \in Items \cup {NoItem} /\ sync_targets = {} /\ cleanup_roots = {}
      /\ mpc = "done" /\ seen \in BOOLEAN /\ monitor_stopped \in BOOLEAN
      /\ pc = "loop" /\ added = "no" /\ watching = "idle" /\ watched \in Seq(Seq(Items))
      /\ due = {} /\ batch = {}
  BY DEF Init
<1> QED  BY <1>1, <1>2, <1>3, <1>4 DEF TypeInv, TypeOK, AtWork

(* The steps of main that only move it, and those of a worker. *)
LEMMA StepTypedMain == TypeInv /\ (Main \/ UserAnswers) => TypeInv'
<1> SUFFICES ASSUME TypeInv, Main \/ UserAnswers
             PROVE  TypeInv'
  OBVIOUS
<1> USE PoolAssumption DEF TypeInv, TypeOK
<1>1. CASE LoopEnds \/ JoinWorkers \/ CleanupRoots \/ AwaitMonitor \/ SyncTargets \/ BatchEnds
           \/ UserAnswers
  <2>1. /\ pc' \in {"finished", "cleanup", "terminate", "sync", "batch_done", "prompt", "add_send"}
        /\ added' \in {"no", "all", "part"}
        /\ UNCHANGED <<queue, cmds, stop_requested, wpc, item, ctx, monitor, due, watcher, history>>
    BY <1>1 DEF LoopEnds, JoinWorkers, CleanupRoots, AwaitMonitor, SyncTargets, BatchEnds,
                UserAnswers
  <2> QED  BY <2>1 DEF queue, ctx, monitor, watcher, history
<1>2. CASE StartPool
  <2>1. due' \subseteq Items
    BY <1>2 DEF StartPool, Range
  <2>2. wpc' \in [Workers -> WorkerSteps] /\ \A w \in Workers : wpc'[w] = "check"
    BY <1>2 DEF StartPool, WorkerSteps
  <2> QED  BY <1>2, <2>1, <2>2 DEF StartPool, queue, watcher, AtWork
<1>3. CASE SendTerminate
  <2>1. cmds' \in Seq(Commands)
    BY <1>3, AppendProperties DEF SendTerminate, Commands
  <2> QED  BY <1>3, <2>1 DEF SendTerminate, queue, ctx, monitor, watcher, history
<1>4. CASE AddMoreSend
  <2>1. channel' \in Seq(Items)
    BY <1>4, ConcatProperties DEF AddMoreSend
  <2>2. status' \in [Items -> Fates]
    BY <1>4 DEF AddMoreSend, Queued, Fates
  <2> QED  BY <1>4, <2>1, <2>2 DEF AddMoreSend, ctx, monitor, watcher
<1>5. CASE AddMoreCount \/ AddMoreFails
  <2>1. pending' \in Int
    BY <1>5, LenProperties DEF AddMoreCount, AddMoreFails
  <2> QED  BY <1>5, <2>1 DEF AddMoreCount, AddMoreFails, ctx, monitor, watcher, history
<1> QED  BY <1>1, <1>2, <1>3, <1>4, <1>5 DEF Main

LEMMA StepTypedWorker ==
    ASSUME NEW w \in Workers, TypeInv, Worker(w)
    PROVE  TypeInv'
<1> USE PoolAssumption DEF TypeInv, TypeOK
<1>1. /\ \E s \in WorkerSteps : wpc' = [wpc EXCEPT ![w] = s]
      /\ wpc' \in [Workers -> WorkerSteps]
      /\ \A v \in Workers \ {w} : wpc'[v] = wpc[v]
  BY DEF Worker, CheckStop, Take, ReceiveTimeout, NothingReceived, CountReceived, Prepared,
         PrepareFails, SetStopReasonOnce, RequestStop, SendStop, CopySucceeds, CopyFails,
         RemoveSource, InsertRoot, Goto, WorkerSteps
<1>2. CASE CheckStop(w) \/ ReceiveTimeout(w) \/ NothingReceived(w)
  <2>1. wpc'[w] \notin AtWork
    BY <1>2 DEF CheckStop, ReceiveTimeout, NothingReceived, Goto, AtWork
  <2>2. UNCHANGED <<queue, cmds, stop_requested, item, ctx, monitor, main, watcher, history>>
    BY <1>2 DEF CheckStop, ReceiveTimeout, NothingReceived
  <2> QED  BY <1>1, <2>1, <2>2 DEF queue, ctx, monitor, main, watcher, history
<1>3. CASE Take(w)
  <2>1. Head(channel) \in Items /\ Tail(channel) \in Seq(Items)
    BY <1>3, HeadTailProperties DEF Take
  <2>2. status' \in [Items -> Fates]
    BY <1>3, <2>1 DEF Take, Fates
  <2>3. item' \in [Workers -> Items \cup {NoItem}] /\ item'[w] \in Items
        /\ \A v \in Workers \ {w} : item'[v] = item[v]
    BY <1>3, <2>1 DEF Take
  <2>4. after_stop' \in [Workers -> Nat]
    BY <1>3 DEF Take
  <2> QED  BY <1>1, <1>3, <2>1, <2>2, <2>3, <2>4 DEF Take, ctx, monitor, main, watcher
<1>4. CASE CountReceived(w) \/ Prepared(w) \/ SetStopReasonOnce(w) \/ RequestStop(w)
  <2>1. wpc[w] \in AtWork
    BY <1>4 DEF CountReceived, Prepared, SetStopReasonOnce, RequestStop, AtWork
  <2>2. CASE CountReceived(w)
    BY <1>1, <2>1, <2>2 DEF CountReceived, ctx, monitor, main, watcher, history
  <2>3. CASE Prepared(w)
    BY <1>1, <2>1, <2>3 DEF Prepared, queue, monitor, main, watcher, history
  <2>4. CASE SetStopReasonOnce(w)
    BY <1>1, <2>1, <2>4 DEF SetStopReasonOnce, queue, monitor, main, watcher, history
  <2>5. CASE RequestStop(w)
    BY <1>1, <2>1, <2>5 DEF RequestStop, queue, ctx, monitor, main, watcher, history
  <2> QED  BY <1>4, <2>2, <2>3, <2>4, <2>5
<1>5. CASE SendStop(w)
  <2>1. cmds' \in Seq(Commands)
    BY <1>5, AppendProperties DEF SendStop, Commands
  <2>2. wpc[w] \in AtWork
    BY <1>5 DEF SendStop, AtWork
  <2> QED  BY <1>1, <1>5, <2>1, <2>2 DEF SendStop, queue, ctx, monitor, main, watcher, history
<1>6. CASE PrepareFails(w) \/ CopySucceeds(w) \/ CopyFails(w) \/ RemoveSource(w)
  <2>1. status' \in [Items -> Fates]
    BY <1>6 DEF PrepareFails, CopySucceeds, CopyFails, RemoveSource, Becomes, Fates
  <2>2. wpc[w] \in AtWork
    BY <1>6 DEF PrepareFails, CopySucceeds, CopyFails, RemoveSource, AtWork
  <2>3. /\ completed' \in Nat /\ failed' \in Nat
        /\ UNCHANGED <<queue, cmds, stop_requested, item, stop_reason, sync_targets, cleanup_roots,
                       monitor, main, watcher, batch, after_stop>>
    <3>1. CASE PrepareFails(w)
      BY <3>1 DEF PrepareFails
    <3>2. CASE CopySucceeds(w)
      BY <3>2 DEF CopySucceeds
    <3>3. CASE CopyFails(w)
      BY <3>3 DEF CopyFails
    <3>4. CASE RemoveSource(w)
      BY <3>4 DEF RemoveSource, ctx
    <3> QED  BY <1>6, <3>1, <3>2, <3>3, <3>4
  <2> QED  BY <1>1, <2>1, <2>2, <2>3 DEF queue, monitor, main, watcher
<1>7. CASE InsertRoot(w)
  <2>1. wpc[w] \in AtWork
    BY <1>7 DEF InsertRoot, AtWork
  <2>2. cleanup_roots' \subseteq Range(Root) \ {NoRoot}
    BY <1>7, <2>1 DEF InsertRoot, Range
  <2> QED  BY <1>1, <1>7, <2>1, <2>2 DEF InsertRoot, queue, monitor, main, watcher, history
<1> QED  BY <1>2, <1>3, <1>4, <1>5, <1>6, <1>7 DEF Worker

LEMMA StepTyped == TypeInv /\ [Next]_vars => TypeInv'
<1> SUFFICES ASSUME TypeInv, [Next]_vars
             PROVE  TypeInv'
  OBVIOUS
<1> USE PoolAssumption DEF TypeInv, TypeOK
<1>1. CASE ReadStats \/ NoCommand \/ Settle \/ Settled
  <2>1. /\ mpc' \in {"read", "cmd", "idle", "settle", "done"}
        /\ UNCHANGED <<queue, cmds, stop_requested, wpc, item, ctx, monitor_stopped, main, watcher,
                       history>>
    BY <1>1 DEF ReadStats, NoCommand, Settle, Settled
  <2>2. CASE ReadStats
    <3>1. seen' = (completed + failed > 0)
      BY <2>2 DEF ReadStats
    <3>2. (completed + failed > 0) \in BOOLEAN
      BY SMT
    <3>3. seen' \in BOOLEAN
      BY <3>1, <3>2, Zenon
    <3> QED  BY <2>1, <3>3 DEF queue, ctx, main, watcher, history
  <2>3. CASE NoCommand \/ Settle \/ Settled
    <3>1. UNCHANGED seen
      BY <2>3 DEF NoCommand, Settle, Settled
    <3> QED  BY <2>1, <3>1 DEF queue, ctx, main, watcher, history
  <2> QED  BY <1>1, <2>2, <2>3
<1>2. CASE ReceiveCommand
  <2>1. cmds' \in Seq(Commands)
    BY <1>2, HeadTailProperties DEF ReceiveCommand
  <2> QED  BY <1>2, <2>1 DEF ReceiveCommand, queue, ctx, main, watcher, history
<1>3. CASE CtrlC
  <2>1. cmds' \in Seq(Commands)
    BY <1>3, AppendProperties DEF CtrlC, Commands
  <2> QED  BY <1>3, <2>1 DEF CtrlC, queue, ctx, monitor, main, watcher, history
<1>4. CASE WatcherSends
  <2>1. Head(watched) \in Seq(Items)
    BY <1>4, HeadTailProperties DEF WatcherSends
  <2>2. channel' \in Seq(Items)
    BY <1>4, <2>1, ConcatProperties DEF WatcherSends
  <2>3. status' \in [Items -> Fates]
    BY <1>4 DEF WatcherSends, Queued, Fates
  <2> QED  BY <1>4, <2>2, <2>3 DEF WatcherSends, ctx, monitor, main
<1>5. CASE WatcherCounts
  <2>1. Head(watched) \in Seq(Items) /\ Tail(watched) \in Seq(Seq(Items))
    BY <1>5, HeadTailProperties DEF WatcherCounts
  <2>2. pending' \in Int
    BY <1>5, <2>1, LenProperties DEF WatcherCounts
  <2>3. /\ watched' = Tail(watched) /\ watching' = "idle"
        /\ UNCHANGED <<channel, cmds, stop_requested, wpc, item, ctx, monitor, main, history>>
    BY <1>5 DEF WatcherCounts
  <2> QED  BY <2>1, <2>2, <2>3 DEF ctx, monitor, main, history
<1>6. CASE UNCHANGED vars
  BY <1>6 DEF vars, queue, ctx, monitor, main, watcher, history
<1> QED
  BY <1>1, <1>2, <1>3, <1>4, <1>5, <1>6, StepTypedMain, StepTypedWorker DEF Next, Monitor

(* The variables keep their types, and only roots of items are recorded    *)
(* for the cleanup. *)
THEOREM PoolTyped == Spec => []TypeOK
<1>1. Init => TypeInv
  BY InitTyped
<1>2. TypeInv /\ [Next]_vars => TypeInv'
  BY StepTyped
<1>3. TypeInv => TypeOK
  BY DEF TypeInv
<1> QED  BY <1>1, <1>2, <1>3, PTL DEF Spec

-----------------------------------------------------------------------------
(* The drain after a stop.  A worker that took an item after the request   *)
(* never waits for another one: it finds the flag when it is back at       *)
(* "check", and no pool starts any more.                                   *)

StopInv ==
    \A w \in Workers :
        after_stop[w] > 0 => after_stop[w] = 1 /\ stop_requested /\ wpc[w] # "recv"

LEMMA StopKept == TypeInv /\ StopInv /\ [Next]_vars => StopInv'
<1> SUFFICES ASSUME TypeInv, StopInv, [Next]_vars
             PROVE  StopInv'
  OBVIOUS
<1> USE PoolAssumption DEF TypeInv, TypeOK
<1>1. CASE UNCHANGED <<wpc, after_stop, stop_requested>>
  BY <1>1 DEF StopInv
<1>2. CASE StartPool
  <2>1. \A w \in Workers : wpc'[w] = "check"
    BY <1>2 DEF StartPool
  <2> QED  BY <1>2, <2>1 DEF StartPool, StopInv
<1>3. CASE CtrlC
  BY <1>3 DEF CtrlC, StopInv, history
<1>4. ASSUME NEW w \in Workers, Worker(w)
      PROVE  StopInv'
  <2>1. \A v \in Workers \ {w} : wpc'[v] = wpc[v] /\ after_stop'[v] = after_stop[v]
    BY <1>4 DEF Worker, CheckStop, Take, ReceiveTimeout, NothingReceived, CountReceived, Prepared,
           PrepareFails, SetStopReasonOnce, RequestStop, SendStop, CopySucceeds, CopyFails,
           RemoveSource, InsertRoot, Goto, history
  <2>2. stop_requested => stop_requested'
    BY <1>4 DEF Worker, CheckStop, Take, ReceiveTimeout, NothingReceived, CountReceived, Prepared,
           PrepareFails, SetStopReasonOnce, RequestStop, SendStop, CopySucceeds, CopyFails,
           RemoveSource, InsertRoot
  <2>3. CASE Take(w)
    <3>1. wpc[w] = "recv" /\ wpc'[w] = "count"
      BY <2>3 DEF Take, Goto
    <3>2. after_stop[w] = 0
      BY <3>1 DEF StopInv
    <3>3. after_stop'[w] = IF stop_requested THEN 1 ELSE 0
      BY <2>3, <3>2 DEF Take
    <3>4. after_stop'[w] > 0 => after_stop'[w] = 1 /\ stop_requested /\ stop_requested'
      BY <2>2, <3>3
    <3> QED  BY <2>1, <2>2, <3>1, <3>4 DEF StopInv
  <2>4. CASE ~Take(w)
    <3>1. after_stop' = after_stop
      BY <1>4, <2>4 DEF Worker, CheckStop, ReceiveTimeout, NothingReceived, CountReceived, Prepared,
             PrepareFails, SetStopReasonOnce, RequestStop, SendStop, CopySucceeds, CopyFails,
             RemoveSource, InsertRoot, history
    <3>2. stop_requested => wpc'[w] # "recv"
      BY <1>4, <2>4 DEF Worker, CheckStop, ReceiveTimeout, NothingReceived, CountReceived, Prepared,
             PrepareFails, SetStopReasonOnce, RequestStop, SendStop, CopySucceeds, CopyFails,
             RemoveSource, InsertRoot, Goto
    <3> QED  BY <2>1, <2>2, <3>1, <3>2 DEF StopInv
  <2> QED  BY <2>3, <2>4
<1> QED
  <2>1. CASE Main \/ UserAnswers
    <3>1. StartPool \/ UNCHANGED <<wpc, after_stop, stop_requested>>
      BY <2>1 DEF Main, LoopEnds, JoinWorkers, CleanupRoots, SendTerminate, AwaitMonitor, SyncTargets,
             BatchEnds, UserAnswers, AddMoreSend, AddMoreCount, AddMoreFails, history
    <3> QED  BY <1>1, <1>2, <3>1
  <2>2. CASE Monitor \/ WatcherSends \/ WatcherCounts \/ UNCHANGED vars
    <3>1. UNCHANGED <<wpc, after_stop, stop_requested>>
      BY <2>2 DEF Monitor, ReadStats, ReceiveCommand, NoCommand, Settle, Settled, WatcherSends,
             WatcherCounts, vars, history
    <3> QED  BY <1>1, <3>1
  <2> QED  BY <1>3, <1>4, <2>1, <2>2 DEF Next

(* After a stop request each worker finishes the file it has and starts at *)
(* most one more (OneFileAfterStop), with any number of workers, whatever  *)
(* the watcher queues meanwhile. *)
THEOREM PoolDrains == Spec => []OneFileAfterStop
<1>1. Init => TypeInv /\ StopInv
  BY InitTyped DEF Init, StopInv
<1>2. TypeInv /\ StopInv /\ [Next]_vars => TypeInv' /\ StopInv'
  BY StepTyped, StopKept
<1>3. TypeInv /\ StopInv => OneFileAfterStop
  BY DEF TypeInv, TypeOK, StopInv, OneFileAfterStop
<1> QED  BY <1>1, <1>2, <1>3, PTL DEF Spec

-----------------------------------------------------------------------------
(* What the cleanup and the sync see.  Outside "join" every worker has     *)
(* exited.  In it, a folder that lost a file is recorded or a worker is    *)
(* about to record it, and an item being written is a sync target.         *)

AftermathInv ==
    /\ pc # "join" => \A w \in Workers : wpc[w] = "exited"
    /\ \A i \in batch : status[i] = "removed" =>
           \/ Root[i] = NoRoot
           \/ Root[i] \in cleanup_roots
           \/ \E w \in Workers : wpc[w] = "root" /\ item[w] = i
    /\ \A i \in batch : status[i] \in Handled => i \in sync_targets
    /\ \A w \in Workers : wpc[w] \in {"copy", "remove", "root"} => item[w] \in sync_targets

LEMMA AftermathKeptMain == TypeInv /\ AftermathInv /\ (Main \/ UserAnswers) => AftermathInv'
<1> SUFFICES ASSUME TypeInv, AftermathInv, Main \/ UserAnswers
             PROVE  AftermathInv'
  OBVIOUS
<1> USE PoolAssumption DEF TypeInv, TypeOK
<1>1. CASE StartPool
  <2>1. \A w \in Workers : wpc'[w] = "check"
    BY <1>1 DEF StartPool
  <2> QED  BY <1>1, <2>1 DEF StartPool, AftermathInv
<1>2. CASE AddMoreSend
  <2>1. \A i \in Items : status'[i] = "queued" \/ status'[i] = status[i]
    BY <1>2 DEF AddMoreSend, Queued
  <2>2. UNCHANGED <<wpc, item, batch, cleanup_roots, sync_targets>> /\ pc # "join"
    BY <1>2 DEF AddMoreSend, ctx
  <2> QED  BY <2>1, <2>2 DEF AftermathInv, Handled
<1>3. CASE ~StartPool /\ ~AddMoreSend
  <2>1. UNCHANGED <<wpc, item, batch, status, cleanup_roots, sync_targets>>
    BY <1>3 DEF Main, LoopEnds, JoinWorkers, CleanupRoots, SendTerminate, AwaitMonitor, SyncTargets,
           BatchEnds, UserAnswers, AddMoreCount, AddMoreFails, ctx, history
  <2>2. pc # "join" \/ \A w \in Workers : wpc[w] = "exited"
    BY <1>3 DEF Main, LoopEnds, JoinWorkers, CleanupRoots, SendTerminate, AwaitMonitor, SyncTargets,
           BatchEnds, UserAnswers, AddMoreCount, AddMoreFails
  <2> QED  BY <2>1, <2>2 DEF AftermathInv
<1> QED  BY <1>1, <1>2, <1>3

LEMMA AftermathKeptWorker ==
    ASSUME NEW w \in Workers, TypeInv, AftermathInv, Worker(w)
    PROVE  AftermathInv'
<1>0. /\ batch \subseteq Items /\ channel \in Seq(Items) /\ status \in [Items -> Fates]
      /\ \A v \in Workers : wpc[v] \in AtWork => item[v] \in Items
      /\ wpc \in [Workers -> WorkerSteps] /\ item \in [Workers -> Items \cup {NoItem}]
  BY DEF TypeInv, TypeOK
<1>1. /\ pc' = pc /\ wpc[w] # "exited"
      /\ \A v \in Workers \ {w} : wpc'[v] = wpc[v] /\ item'[v] = item[v]
  BY <1>0 DEF Worker, CheckStop, Take, ReceiveTimeout, NothingReceived, CountReceived, Prepared,
         PrepareFails, SetStopReasonOnce, RequestStop, SendStop, CopySucceeds, CopyFails,
         RemoveSource, InsertRoot, Goto, main
<1>2. pc = "join"
  BY <1>0, <1>1 DEF AftermathInv
<1>3. CASE Take(w)
  <2>1. Head(channel) \in Items
    BY <1>0, <1>3, HeadTailProperties DEF Take
  <2>2. /\ wpc[w] = "recv" /\ wpc'[w] = "count"
        /\ UNCHANGED <<cleanup_roots, sync_targets>>
    BY <1>0, <1>3 DEF Take, Goto, ctx
  <2>3. \A i \in batch' : status'[i] = "taken" \/ (i \in batch /\ status'[i] = status[i])
    BY <1>0, <1>3, <2>1 DEF Take
  <2>4. ASSUME NEW i \in batch', status'[i] = "removed"
        PROVE  \/ Root[i] = NoRoot
               \/ Root[i] \in cleanup_roots'
               \/ \E v \in Workers : wpc'[v] = "root" /\ item'[v] = i
    <3>1. i \in batch /\ status[i] = "removed"
      BY <2>3, <2>4
    <3>2. CASE \E v \in Workers : wpc[v] = "root" /\ item[v] = i
      <4>1. PICK v \in Workers : wpc[v] = "root" /\ item[v] = i
        BY <3>2
      <4> QED  BY <1>1, <2>2, <4>1
    <3> QED  BY <2>2, <3>1, <3>2 DEF AftermathInv
  <2>5. \A i \in batch' : status'[i] \in Handled => i \in sync_targets'
    BY <2>2, <2>3 DEF AftermathInv, Handled
  <2>6. \A v \in Workers : wpc'[v] \in {"copy", "remove", "root"} => item'[v] \in sync_targets'
    BY <1>1, <2>2 DEF AftermathInv
  <2> QED  BY <1>1, <1>2, <2>4, <2>5, <2>6 DEF AftermathInv
<1>4. CASE Prepared(w)
  <2>1. /\ wpc[w] = "prepare" /\ wpc'[w] = "copy" /\ item' = item
        /\ sync_targets' = sync_targets \cup {item[w]}
        /\ UNCHANGED <<batch, status, cleanup_roots>>
    BY <1>0, <1>4 DEF Prepared, Goto, history
  <2> QED  BY <1>0, <1>1, <1>2, <2>1 DEF AftermathInv
<1>5. CASE CopySucceeds(w) \/ CopyFails(w) \/ PrepareFails(w)
  <2>1. /\ wpc[w] \in {"copy", "prepare"} /\ wpc'[w] \in {"remove", "check", "fail_reason"}
        /\ item' = item
        /\ wpc[w] = "prepare" => wpc'[w] = "fail_reason"
        /\ UNCHANGED <<batch, sync_targets, cleanup_roots>>
    BY <1>0, <1>5 DEF CopySucceeds, CopyFails, PrepareFails, Goto
  <2>2. \A i \in Items \ {item[w]} : status'[i] = status[i]
    BY <1>0, <1>5 DEF CopySucceeds, CopyFails, PrepareFails, Becomes
  <2>3. status'[item[w]] \in {"copied", "error"} \/ status'[item[w]] = "unprepared"
    BY <1>0, <1>5 DEF CopySucceeds, CopyFails, PrepareFails, Becomes, AtWork
  <2>4. status'[item[w]] \in {"copied", "error"} => item[w] \in sync_targets
    BY <1>0, <1>5 DEF CopySucceeds, CopyFails, PrepareFails, Becomes, AtWork, AftermathInv
  <2> QED  BY <1>0, <1>1, <1>2, <2>1, <2>2, <2>3, <2>4 DEF AftermathInv, Handled
<1>6. CASE RemoveSource(w)
  <2>1. /\ wpc[w] = "remove" /\ item' = item /\ item[w] \in Items /\ item[w] \in sync_targets
        /\ UNCHANGED <<batch, sync_targets, cleanup_roots>>
    BY <1>0, <1>6 DEF RemoveSource, ctx, AtWork, AftermathInv
  <2>2. CASE Becomes(w, "removed") /\ Goto(w, "root")
    <3>1. wpc'[w] = "root" /\ \A i \in Items \ {item[w]} : status'[i] = status[i]
      BY <1>0, <2>2 DEF Becomes, Goto
    <3> QED  BY <1>0, <1>1, <1>2, <2>1, <3>1 DEF AftermathInv
  <2>3. CASE UNCHANGED status /\ Goto(w, "check")
    <3>1. wpc'[w] = "check"
      BY <1>0, <2>3 DEF Goto
    <3> QED  BY <1>0, <1>1, <1>2, <2>1, <2>3, <3>1 DEF AftermathInv
  <2> QED  BY <1>6, <2>2, <2>3 DEF RemoveSource
<1>7. CASE InsertRoot(w)
  <2>1. /\ wpc[w] = "root" /\ wpc'[w] = "check" /\ item' = item
        /\ cleanup_roots' = cleanup_roots \cup ({Root[item[w]]} \ {NoRoot})
        /\ UNCHANGED <<batch, status, sync_targets>>
    BY <1>0, <1>7 DEF InsertRoot, Goto, history
  <2>2. ASSUME NEW i \in batch', status'[i] = "removed"
        PROVE  \/ Root[i] = NoRoot
               \/ Root[i] \in cleanup_roots'
               \/ \E v \in Workers : wpc'[v] = "root" /\ item'[v] = i
    <3>1. CASE \E v \in Workers : wpc[v] = "root" /\ item[v] = i
      <4>1. PICK v \in Workers : wpc[v] = "root" /\ item[v] = i
        BY <3>1
      <4>2. CASE v = w
        BY <2>1, <4>1, <4>2
      <4>3. CASE v # w
        BY <1>1, <4>1, <4>3
      <4> QED  BY <4>2, <4>3
    <3> QED  BY <2>1, <2>2, <3>1 DEF AftermathInv
  <2>3. \A i \in batch' : status'[i] \in Handled => i \in sync_targets'
    BY <2>1 DEF AftermathInv
  <2>4. \A v \in Workers : wpc'[v] \in {"copy", "remove", "root"} => item'[v] \in sync_targets'
    BY <1>1, <2>1 DEF AftermathInv
  <2> QED  BY <1>1, <1>2, <2>2, <2>3, <2>4 DEF AftermathInv
<1>8. CASE \/ CheckStop(w) \/ ReceiveTimeout(w) \/ NothingReceived(w) \/ CountReceived(w)
           \/ SetStopReasonOnce(w) \/ RequestStop(w) \/ SendStop(w)
  <2>1. /\ wpc[w] # "root" /\ wpc'[w] \notin {"copy", "remove", "root"} /\ item' = item
        /\ UNCHANGED <<batch, status, sync_targets, cleanup_roots>>
    BY <1>0, <1>8 DEF CheckStop, ReceiveTimeout, NothingReceived, CountReceived, SetStopReasonOnce,
           RequestStop, SendStop, Goto, ctx, history
  <2> QED  BY <1>0, <1>1, <1>2, <2>1 DEF AftermathInv
<1> QED  BY <1>3, <1>4, <1>5, <1>6, <1>7, <1>8 DEF Worker

LEMMA AftermathKept == TypeInv /\ AftermathInv /\ [Next]_vars => AftermathInv'
<1> SUFFICES ASSUME TypeInv, AftermathInv, [Next]_vars
             PROVE  AftermathInv'
  OBVIOUS
<1> USE PoolAssumption DEF TypeInv, TypeOK
<1>1. CASE WatcherSends
  <2>1. \A i \in Items : status'[i] = "queued" \/ status'[i] = status[i]
    BY <1>1 DEF WatcherSends, Queued
  <2>2. UNCHANGED <<pc, wpc, item, batch, cleanup_roots, sync_targets>>
    BY <1>1 DEF WatcherSends, ctx, main
  <2> QED  BY <2>1, <2>2 DEF AftermathInv, Handled
<1>2. CASE Monitor \/ CtrlC \/ WatcherCounts \/ UNCHANGED vars
  <2>1. UNCHANGED <<pc, wpc, item, batch, status, cleanup_roots, sync_targets>>
    BY <1>2 DEF Monitor, ReadStats, ReceiveCommand, NoCommand, Settle, Settled, CtrlC,
           WatcherCounts, vars, ctx, main, history
  <2> QED  BY <2>1 DEF AftermathInv
<1> QED  BY <1>1, <1>2, AftermathKeptMain, AftermathKeptWorker DEF Next

(* When the folders are cleaned up and the drives synced every folder that *)
(* lost a file is recorded and every destination written is known          *)
(* (AftermathSeesAll), with any number of workers. *)
THEOREM AftermathComplete == Spec => []AftermathSeesAll
<1>1. Init => TypeInv /\ AftermathInv
  BY InitTyped DEF Init, AftermathInv
<1>2. TypeInv /\ AftermathInv /\ [Next]_vars => TypeInv' /\ AftermathInv'
  BY StepTyped, AftermathKept
<1>3. TypeInv /\ AftermathInv => AftermathSeesAll
  <2> SUFFICES ASSUME TypeInv, AftermathInv, AfterJoin
               PROVE  /\ {Root[i] : i \in {j \in batch : status[j] = "removed"}} \ {NoRoot}
                             \subseteq cleanup_roots
                      /\ {i \in batch : status[i] \in Handled} \subseteq sync_targets
    BY DEF AftermathSeesAll
  <2>1. \A w \in Workers : wpc[w] # "root"
    BY DEF AfterJoin, AftermathInv
  <2> QED  BY <2>1 DEF AftermathInv
<1> QED  BY <1>1, <1>2, <1>3, PTL DEF Spec
-----------------------------------------------------------------------------
(* What becomes of the items.  From here on an item is one entry of the    *)
(* queue (EntryAssumption).                                                *)

Holding == {"count", "prepare", "copy"}
Busy    == Holding \cup {"remove"}

(* The batches that are still to be queued share no item with each other,  *)
(* and none of their items has been queued. *)
ComeInv ==
    /\ pc \in {"add_send", "add_count"} => added = "all"
    /\ pc # "finished" => added # "part"
    /\ \A k \in 1..Len(watched) :
           /\ IsInjective(watched[k]) /\ Range(watched[k]) \cap Range(Added) = {}
           /\ \A j \in 1..Len(watched) : j # k => Range(watched[k]) \cap Range(watched[j]) = {}
           /\ k > 1 \/ watching = "idle" => \A i \in Range(watched[k]) : status[i] = "unqueued"
    /\ added = "no" \/ pc = "add_send" => \A i \in Range(Added) : status[i] = "unqueued"

ChannelInv ==
    /\ IsInjective(channel)
    /\ \A i \in Items : i \in Range(channel) <=> status[i] = "queued"

(* No two workers have the same item in hand. *)
WorkInv ==
    /\ \A w \in Workers : /\ wpc[w] \in Holding => status[item[w]] = "taken"
                          /\ wpc[w] = "remove" => status[item[w]] = "copied"
    /\ \A v, w \in Workers : wpc[v] \in Busy /\ wpc[w] \in Busy /\ item[v] = item[w] => v = w
    /\ \A i \in Items : status[i] = "taken" =>
           i \in batch /\ \E w \in Workers : wpc[w] \in Holding /\ item[w] = i

ItemInv == ComeInv /\ ChannelInv /\ WorkInv

(* The steps, as far as items are concerned. *)
Ends(w) ==
    /\ wpc[w] \in {"prepare", "copy"}
    /\ \E fate \in {"copied", "error", "unprepared"} :
           /\ status' = [status EXCEPT ![item[w]] = fate]
           /\ wpc'[w] = "remove" => fate = "copied"
    /\ wpc'[w] \notin Holding
    /\ completed' + failed' = completed + failed + 1
    /\ UNCHANGED <<channel, item, batch>>

Removes(w) ==
    /\ wpc[w] = "remove" /\ wpc'[w] = "root"
    /\ status' = [status EXCEPT ![item[w]] = "removed"]
    /\ UNCHANGED <<channel, item, batch, completed, failed>>

Passes(w) ==
    /\ wpc[w] \in Holding <=> wpc'[w] \in Holding
    /\ wpc'[w] # "remove"
    /\ UNCHANGED <<channel, status, item, batch, completed, failed>>

Sends(b) ==
    /\ channel' = channel \o b
    /\ status' = Queued(b)
    /\ UNCHANGED <<wpc, item, batch, completed, failed>>

Rests == UNCHANGED <<channel, status, wpc, item, batch, completed, failed>>

LEMMA WorkerForms ==
    ASSUME TypeInv, NEW w \in Workers, Worker(w)
    PROVE  /\ UNCHANGED <<pc, added, due, watching, watched>>
           /\ \A v \in Workers \ {w} : wpc'[v] = wpc[v] /\ item'[v] = item[v]
           /\ Take(w) \/ Ends(w) \/ Removes(w) \/ Passes(w)
<1>0. /\ wpc \in [Workers -> WorkerSteps] /\ item \in [Workers -> Items \cup {NoItem}]
      /\ completed \in Nat /\ failed \in Nat
  BY DEF TypeInv, TypeOK
<1>1. UNCHANGED <<pc, added, due, watching, watched>>
  BY DEF Worker, CheckStop, Take, ReceiveTimeout, NothingReceived, CountReceived, Prepared,
         PrepareFails, SetStopReasonOnce, RequestStop, SendStop, CopySucceeds, CopyFails,
         RemoveSource, InsertRoot, main, watcher
<1>2. \A v \in Workers \ {w} : wpc'[v] = wpc[v] /\ item'[v] = item[v]
  BY <1>0 DEF Worker, CheckStop, Take, ReceiveTimeout, NothingReceived, CountReceived, Prepared,
         PrepareFails, SetStopReasonOnce, RequestStop, SendStop, CopySucceeds, CopyFails,
         RemoveSource, InsertRoot, Goto
<1>3. CASE PrepareFails(w) \/ CopySucceeds(w) \/ CopyFails(w)
  <2>1. /\ wpc[w] \in {"prepare", "copy"} /\ wpc'[w] \in {"fail_reason", "remove", "check"}
        /\ wpc'[w] = "remove" => CopySucceeds(w)
        /\ UNCHANGED <<channel, item, batch>>
    BY <1>0, <1>3 DEF PrepareFails, CopySucceeds, CopyFails, Goto, queue
  <2>2. completed' + failed' = completed + failed + 1
    BY <1>0, <1>3 DEF PrepareFails, CopySucceeds, CopyFails
  <2>3. \E fate \in {"copied", "error", "unprepared"} :
            /\ status' = [status EXCEPT ![item[w]] = fate]
            /\ wpc'[w] = "remove" => fate = "copied"
    BY <1>3, <2>1 DEF PrepareFails, CopySucceeds, CopyFails, Becomes
  <2> QED  BY <1>1, <1>2, <2>1, <2>2, <2>3 DEF Ends, Holding
<1>4. CASE RemoveSource(w)
  <2>1. wpc[w] = "remove" /\ UNCHANGED <<channel, item, batch, completed, failed>>
    BY <1>4 DEF RemoveSource, queue, ctx
  <2>2. \/ status' = [status EXCEPT ![item[w]] = "removed"] /\ wpc'[w] = "root"
        \/ status' = status /\ wpc'[w] = "check"
    BY <1>0, <1>4 DEF RemoveSource, Becomes, Goto
  <2> QED  BY <1>1, <1>2, <2>1, <2>2 DEF Removes, Passes, Holding
<1>5. CASE \/ CheckStop(w) \/ ReceiveTimeout(w) \/ NothingReceived(w) \/ CountReceived(w)
           \/ Prepared(w) \/ SetStopReasonOnce(w) \/ RequestStop(w) \/ SendStop(w) \/ InsertRoot(w)
  <2>1. /\ wpc[w] \in Holding <=> wpc'[w] \in Holding
        /\ wpc'[w] # "remove"
    BY <1>0, <1>5 DEF CheckStop, ReceiveTimeout, NothingReceived, CountReceived, Prepared,
           SetStopReasonOnce, RequestStop, SendStop, InsertRoot, Goto, Holding
  <2>2. UNCHANGED <<channel, status, item, batch, completed, failed>>
    BY <1>5 DEF CheckStop, ReceiveTimeout, NothingReceived, CountReceived, Prepared,
           SetStopReasonOnce, RequestStop, SendStop, InsertRoot, queue, ctx, history
  <2> QED  BY <1>1, <1>2, <2>1, <2>2 DEF Passes
<1> QED  BY <1>1, <1>2, <1>3, <1>4, <1>5 DEF Worker

LEMMA Forms ==
    ASSUME [Next]_vars
    PROVE  (\E w \in Workers : Worker(w)) \/ StartPool \/ AddMoreSend \/ WatcherSends \/ Rests
<1>1. CASE LoopEnds \/ JoinWorkers \/ CleanupRoots \/ SendTerminate \/ AwaitMonitor \/ SyncTargets
           \/ BatchEnds \/ UserAnswers \/ AddMoreCount \/ AddMoreFails
  BY <1>1 DEF LoopEnds, JoinWorkers, CleanupRoots, SendTerminate, AwaitMonitor, SyncTargets,
         BatchEnds, UserAnswers, AddMoreCount, AddMoreFails, Rests, queue, ctx, history
<1>2. CASE Monitor \/ CtrlC \/ WatcherCounts \/ UNCHANGED vars
  BY <1>2 DEF Monitor, ReadStats, ReceiveCommand, NoCommand, Settle, Settled, CtrlC, WatcherCounts,
         vars, Rests, queue, ctx, history
<1> QED  BY <1>1, <1>2 DEF Next, Main

(* A batch that is queued is new. *)
LEMMA BatchNew ==
    ASSUME TypeInv, ComeInv, AddMoreSend \/ WatcherSends
    PROVE  \E b \in Seq(Items) :
               /\ Sends(b) /\ IsInjective(b)
               /\ \A i \in Range(b) : status[i] = "unqueued"
<1>1. CASE AddMoreSend
  <2>1. Added \in Seq(Items) /\ IsInjective(Added)
    BY PoolAssumption, EntryAssumption
  <2>2. Sends(Added)
    BY <1>1 DEF AddMoreSend, Sends, ctx
  <2>3. \A i \in Range(Added) : status[i] = "unqueued"
    BY <1>1 DEF AddMoreSend, ComeInv
  <2> QED  BY <2>1, <2>2, <2>3
<1>2. CASE WatcherSends
  <2>1. watched \in Seq(Seq(Items)) /\ watched # <<>> /\ watching = "idle"
    BY <1>2 DEF WatcherSends, TypeInv, TypeOK
  <2>2. Head(watched) \in Seq(Items) /\ Head(watched) = watched[1] /\ 1 \in 1..Len(watched)
    BY <2>1, HeadTailProperties, LenProperties, EmptySeq
  <2>3. Sends(Head(watched))
    BY <1>2 DEF WatcherSends, Sends, ctx
  <2>4. IsInjective(watched[1]) /\ \A i \in Range(watched[1]) : status[i] = "unqueued"
    BY <2>1, <2>2 DEF ComeInv
  <2> QED  BY <2>2, <2>3, <2>4
<1> QED  BY <1>1, <1>2

LEMMA QueuedIs ==
    ASSUME NEW b, Sends(b), NEW i \in Items
    PROVE  status'[i] = IF i \in Range(b) THEN "queued" ELSE status[i]
BY DEF Sends, Queued

LEMMA TakeIs ==
    ASSUME TypeInv, NEW w \in Workers, Take(w)
    PROVE  /\ Head(channel) \in Items /\ Head(channel) \in Range(channel)
           /\ wpc[w] = "recv" /\ wpc'[w] = "count" /\ item'[w] = Head(channel)
           /\ \A i \in Items : status'[i] = IF i = Head(channel) THEN "taken" ELSE status[i]
           /\ batch' = batch \cup {Head(channel)} /\ completed' = completed /\ failed' = failed
           /\ channel \in Seq(Items) /\ channel # <<>> /\ channel' = Tail(channel)
<1>1. /\ channel \in Seq(Items) /\ wpc \in [Workers -> WorkerSteps]
      /\ item \in [Workers -> Items \cup {NoItem}] /\ status \in [Items -> Fates]
  BY DEF TypeInv, TypeOK
<1>2. channel # <<>>
  BY DEF Take
<1>3. Head(channel) \in Items /\ Head(channel) \in Range(channel)
  BY <1>1, <1>2, TailRange
<1> QED  BY <1>1, <1>2, <1>3 DEF Take, Goto, ctx

(* Only a batch that is sent brings items into the queue, and what was     *)
(* handled stays so. *)
Settles ==
    \A i \in Items : /\ status'[i] = "unqueued" <=> status[i] = "unqueued"
                     /\ status'[i] = "queued" => status[i] = "queued"
                     /\ status[i] \in Handled => status'[i] \in Handled

LEMMA WorkerSettles ==
    ASSUME TypeInv, ChannelInv, WorkInv, NEW w \in Workers, Worker(w)
    PROVE  Settles
<1>0. status \in [Items -> Fates] /\ \A v \in Workers : wpc[v] \in AtWork => item[v] \in Items
  BY DEF TypeInv, TypeOK
<1>1. CASE Take(w)
  <2>1. status[Head(channel)] = "queued"
    BY <1>1, TakeIs DEF ChannelInv
  <2> QED  BY <1>1, <2>1, TakeIs DEF Settles, Handled
<1>2. CASE Ends(w)
  <2>1. item[w] \in Items /\ status[item[w]] = "taken"
    BY <1>0, <1>2 DEF Ends, AtWork, WorkInv, Holding
  <2>2. PICK fate \in {"copied", "error", "unprepared"} : status' = [status EXCEPT ![item[w]] = fate]
    BY <1>2 DEF Ends
  <2> QED  BY <1>0, <2>1, <2>2 DEF Settles, Handled
<1>3. CASE Removes(w)
  <2>1. item[w] \in Items /\ status[item[w]] = "copied"
    BY <1>0, <1>3 DEF Removes, AtWork, WorkInv
  <2> QED  BY <1>0, <1>3, <2>1 DEF Removes, Settles, Handled
<1>4. CASE Passes(w)
  BY <1>4 DEF Passes, Settles
<1> QED  BY <1>1, <1>2, <1>3, <1>4, WorkerForms

LEMMA ItemSteps ==
    ASSUME TypeInv, ItemInv, [Next]_vars
    PROVE  Settles \/ AddMoreSend \/ WatcherSends
<1>1. CASE StartPool \/ Rests
  BY <1>1 DEF StartPool, Rests, Settles
<1> QED  BY <1>1, Forms, WorkerSettles DEF ItemInv

LEMMA ComeKept ==
    ASSUME TypeInv, ItemInv, [Next]_vars
    PROVE  ComeInv'
<1>0. /\ watched \in Seq(Seq(Items)) /\ status \in [Items -> Fates] /\ Added \in Seq(Items)
      /\ Range(Added) \subseteq Items
  BY PoolAssumption, RangeTyped DEF TypeInv, TypeOK
<1>a. \A k \in 1..Len(watched) : watched[k] \in Seq(Items) /\ Range(watched[k]) \subseteq Items
  <2> SUFFICES ASSUME NEW k \in 1..Len(watched)
               PROVE  watched[k] \in Seq(Items) /\ Range(watched[k]) \subseteq Items
    OBVIOUS
  <2>1. watched[k] \in Seq(Items)
    BY <1>0, ElementOfSeq
  <2> QED  BY <2>1, RangeTyped
<1>b. /\ pc \in {"add_send", "add_count"} => added = "all"
      /\ pc # "finished" => added # "part"
      /\ \A k \in 1..Len(watched) :
             /\ IsInjective(watched[k]) /\ Range(watched[k]) \cap Range(Added) = {}
             /\ \A j \in 1..Len(watched) : j # k => Range(watched[k]) \cap Range(watched[j]) = {}
             /\ k > 1 \/ watching = "idle" => \A i \in Range(watched[k]) : status[i] = "unqueued"
      /\ added = "no" \/ pc = "add_send" => \A i \in Range(Added) : status[i] = "unqueued"
  BY DEF ItemInv, ComeInv
<1>c. /\ pc \in {"loop", "join", "cleanup", "terminate", "await", "sync", "batch_done",
                 "prompt", "add_send", "add_count", "finished"}
      /\ added \in {"no", "all", "part"}
  BY DEF TypeInv, TypeOK
<1>1. CASE AddMoreSend
  <2>1. /\ pc = "add_send" /\ pc' = "add_count" /\ UNCHANGED <<added, watching, watched>>
        /\ status' = Queued(Added)
    BY <1>1 DEF AddMoreSend, watcher
  <2>2. \A k \in 1..Len(watched) : \A i \in Range(watched[k]) : status'[i] = status[i]
    BY <1>a, <1>b, <2>1 DEF Queued
  <2> QED  BY <1>b, <2>1, <2>2 DEF ComeInv
<1>2. CASE WatcherSends
  <2>1. /\ watching = "idle" /\ watching' = "count" /\ watched # <<>>
        /\ UNCHANGED <<added, pc, watched>> /\ status' = Queued(Head(watched))
    BY <1>2 DEF WatcherSends, main
  <2>2. Head(watched) = watched[1] /\ Len(watched) \in Nat \ {0}
    BY <1>0, <2>1, HeadTailProperties, LenProperties, EmptySeq
  <2>3. \A i \in Items \ Range(watched[1]) : status'[i] = status[i]
    BY <2>1, <2>2 DEF Queued
  <2>4. 1 \in 1..Len(watched)
    BY <2>2
  <2>5. ASSUME NEW k \in 1..Len(watched), k > 1, NEW i \in Range(watched[k])
        PROVE  status'[i] = "unqueued"
    <3>1. i \in Items /\ status[i] = "unqueued"
      BY <1>a, <1>b, <2>5
    <3>2. i \notin Range(watched[1])
      BY <1>b, <2>4, <2>5
    <3> QED  BY <2>3, <3>1, <3>2
  <2>6. ASSUME NEW i \in Range(Added)
        PROVE  status'[i] = status[i]
    <3>1. i \in Items /\ i \notin Range(watched[1])
      BY <1>0, <1>b, <2>4
    <3> QED  BY <2>3, <3>1
  <2>7. \A k \in 1..Len(watched') :
            /\ IsInjective(watched'[k]) /\ Range(watched'[k]) \cap Range(Added) = {}
            /\ \A j \in 1..Len(watched') : j # k => Range(watched'[k]) \cap Range(watched'[j]) = {}
            /\ k > 1 \/ watching' = "idle" => \A i \in Range(watched'[k]) : status'[i] = "unqueued"
    BY <1>b, <2>1, <2>5
  <2>8. added' = "no" \/ pc' = "add_send" => \A i \in Range(Added) : status'[i] = "unqueued"
    BY <1>b, <2>1, <2>6
  <2> QED  BY <1>b, <2>1, <2>7, <2>8 DEF ComeInv
<1>3. CASE WatcherCounts
  <2>1. /\ watching = "count" /\ watching' = "idle" /\ watched' = Tail(watched)
        /\ UNCHANGED <<added, pc, status>> /\ watched # <<>>
    BY <1>3 DEF WatcherCounts, main, history, TypeInv
  <2>2. /\ Len(watched') = Len(watched) - 1 /\ Len(watched) \in Nat \ {0}
        /\ \A k \in 1..Len(watched') : watched'[k] = watched[k + 1]
    BY <1>0, <2>1, HeadTailProperties, LenProperties, EmptySeq
  <2>3. \A k \in 1..Len(watched') : k + 1 \in 1..Len(watched) /\ k + 1 > 1
    BY <2>2
  <2>4. ASSUME NEW k \in 1..Len(watched')
        PROVE  /\ IsInjective(watched'[k]) /\ Range(watched'[k]) \cap Range(Added) = {}
               /\ \A j \in 1..Len(watched') : j # k => Range(watched'[k]) \cap Range(watched'[j]) = {}
               /\ \A i \in Range(watched'[k]) : status'[i] = "unqueued"
    <3>1. \A j \in 1..Len(watched') : j # k => j + 1 # k + 1
      BY <2>2
    <3> QED  BY <1>b, <2>1, <2>2, <2>3, <3>1
  <2>5. added' = "no" \/ pc' = "add_send" => \A i \in Range(Added) : status'[i] = "unqueued"
    BY <1>b, <2>1
  <2> QED  BY <1>b, <2>1, <2>4, <2>5 DEF ComeInv
<1>4. CASE Settles /\ UNCHANGED <<watching, watched>>
  <2>1. /\ \A k \in 1..Len(watched) : \A i \in Range(watched[k]) :
               status[i] = "unqueued" => status'[i] = "unqueued"
        /\ \A i \in Range(Added) : status[i] = "unqueued" => status'[i] = "unqueued"
    BY <1>0, <1>a, <1>4 DEF Settles
  <2>2. CASE UNCHANGED <<pc, added>>
    BY <1>4, <1>b, <2>1, <2>2 DEF ComeInv
  <2>3. CASE Main \/ UserAnswers
    <3>1. CASE AddMoreSend
      BY <1>1, <3>1
    <3>2. CASE ~AddMoreSend
      <4>1. /\ pc' \in {"add_send", "add_count"} => added' = "all"
            /\ pc' # "finished" => added' # "part"
            /\ added' = "no" \/ pc' = "add_send" => added = "no" \/ pc = "add_send"
        BY <1>b, <1>c, <2>3, <3>2 DEF Main, LoopEnds, StartPool, JoinWorkers, CleanupRoots,
               SendTerminate, AwaitMonitor, SyncTargets, BatchEnds, UserAnswers, AddMoreCount,
               AddMoreFails
      <4> QED  BY <1>4, <1>b, <2>1, <4>1 DEF ComeInv
    <3> QED  BY <3>1, <3>2
  <2>4. Main \/ UserAnswers \/ UNCHANGED <<pc, added>>
    <3>1. CASE \E w \in Workers : Worker(w)
      BY <3>1, WorkerForms
    <3>2. CASE Monitor \/ CtrlC \/ WatcherSends \/ WatcherCounts \/ UNCHANGED vars
      BY <3>2 DEF Monitor, ReadStats, ReceiveCommand, NoCommand, Settle, Settled, CtrlC,
             WatcherSends, WatcherCounts, vars, main
    <3> QED  BY <3>1, <3>2 DEF Next
  <2> QED  BY <2>2, <2>3, <2>4
<1>5. AddMoreSend \/ WatcherSends \/ WatcherCounts \/ UNCHANGED <<watching, watched>>
  <2>1. CASE \E w \in Workers : Worker(w)
    BY <2>1, WorkerForms
  <2>2. CASE Main \/ UserAnswers \/ Monitor \/ CtrlC \/ UNCHANGED vars
    BY <2>2 DEF Main, LoopEnds, StartPool, JoinWorkers, CleanupRoots, SendTerminate, AwaitMonitor,
           SyncTargets, BatchEnds, UserAnswers, AddMoreSend, AddMoreCount, AddMoreFails,
           Monitor, ReadStats, ReceiveCommand, NoCommand, Settle, Settled, CtrlC, vars, watcher
  <2> QED  BY <2>1, <2>2 DEF Next
<1> QED  BY <1>1, <1>2, <1>3, <1>4, <1>5, ItemSteps

LEMMA ChannelKept ==
    ASSUME TypeInv, ItemInv, [Next]_vars
    PROVE  ChannelInv'
<1>0. /\ channel \in Seq(Items) /\ Range(channel) \subseteq Items /\ status \in [Items -> Fates]
      /\ \A w \in Workers : wpc[w] \in AtWork => item[w] \in Items
  BY RangeTyped DEF TypeInv, TypeOK
<1>a. IsInjective(channel) /\ \A i \in Items : i \in Range(channel) <=> status[i] = "queued"
  BY DEF ItemInv, ChannelInv
<1>1. ASSUME NEW w \in Workers, Worker(w)
      PROVE  ChannelInv'
  <2>1. CASE Take(w)
    <3>1. /\ Range(channel) = Range(Tail(channel)) \cup {Head(channel)}
          /\ IsInjective(Tail(channel)) /\ Head(channel) \notin Range(Tail(channel))
      BY <1>0, <1>a, <2>1, TakeIs, TailRange
    <3>2. \A i \in Items : i \in Range(Tail(channel)) <=> status'[i] = "queued"
      BY <1>a, <2>1, <3>1, TakeIs
    <3> QED  BY <2>1, <3>1, <3>2, TakeIs DEF ChannelInv
  <2>2. CASE Ends(w) \/ Removes(w) \/ Passes(w)
    <3>1. channel' = channel
      BY <2>2 DEF Ends, Removes, Passes
    <3>2. \A i \in Items : status'[i] = "queued" <=> status[i] = "queued"
      <4>1. CASE Passes(w)
        BY <4>1 DEF Passes
      <4>2. CASE Ends(w) \/ Removes(w)
        <5>1. item[w] \in Items /\ status[item[w]] # "queued"
          BY <1>0, <4>2 DEF Ends, Removes, AtWork, ItemInv, WorkInv, Holding
        <5>2. \E fate \in {"copied", "error", "unprepared", "removed"} :
                  status' = [status EXCEPT ![item[w]] = fate]
          BY <4>2 DEF Ends, Removes
        <5> QED  BY <1>0, <5>1, <5>2
      <4> QED  BY <2>2, <4>1, <4>2
    <3> QED  BY <1>a, <3>1, <3>2 DEF ChannelInv
  <2> QED  BY <1>1, <2>1, <2>2, WorkerForms
<1>2. CASE AddMoreSend \/ WatcherSends
  <2>1. PICK b \in Seq(Items) : /\ Sends(b) /\ IsInjective(b)
                                /\ \A i \in Range(b) : status[i] = "unqueued"
    BY <1>2, BatchNew DEF ItemInv
  <2>2. Range(b) \subseteq Items /\ Range(channel) \cap Range(b) = {}
    BY <1>0, <1>a, <2>1, RangeTyped
  <2>3. Range(channel \o b) = Range(channel) \cup Range(b) /\ IsInjective(channel \o b)
    BY <1>0, <1>a, <2>1, <2>2, ConcatRange
  <2>4. \A i \in Items : i \in Range(channel \o b) <=> status'[i] = "queued"
    BY <1>a, <2>1, <2>2, <2>3, QueuedIs
  <2> QED  BY <2>1, <2>3, <2>4 DEF Sends, ChannelInv
<1>3. CASE StartPool \/ Rests
  <2>1. UNCHANGED <<channel, status>>
    BY <1>3 DEF StartPool, Rests, queue
  <2> QED  BY <1>a, <2>1 DEF ChannelInv
<1> QED  BY <1>1, <1>2, <1>3, Forms

LEMMA WorkKept ==
    ASSUME TypeInv, AftermathInv, ItemInv, [Next]_vars
    PROVE  WorkInv'
<1>0. /\ channel \in Seq(Items) /\ status \in [Items -> Fates] /\ batch \subseteq Items
      /\ \A w \in Workers : wpc[w] \in AtWork => item[w] \in Items
  BY DEF TypeInv, TypeOK
<1>a. /\ \A w \in Workers : /\ wpc[w] \in Holding => status[item[w]] = "taken"
                            /\ wpc[w] = "remove" => status[item[w]] = "copied"
      /\ \A v, w \in Workers : wpc[v] \in Busy /\ wpc[w] \in Busy /\ item[v] = item[w] => v = w
      /\ \A i \in Items : status[i] = "taken" =>
             i \in batch /\ \E w \in Workers : wpc[w] \in Holding /\ item[w] = i
  BY DEF ItemInv, WorkInv
<1>b. \A w \in Workers : wpc[w] \in Busy => item[w] \in Items
  BY <1>0 DEF Busy, Holding, AtWork
<1>1. ASSUME NEW w \in Workers, Worker(w)
      PROVE  WorkInv'
  <2>0. \A v \in Workers \ {w} : wpc'[v] = wpc[v] /\ item'[v] = item[v]
    BY <1>1, WorkerForms
  <2>1. CASE Take(w)
    <3> DEFINE h == Head(channel)
    <3>1. /\ h \in Items /\ wpc[w] = "recv" /\ wpc'[w] = "count" /\ item'[w] = h
          /\ \A i \in Items : status'[i] = IF i = h THEN "taken" ELSE status[i]
          /\ batch' = batch \cup {h} /\ status[h] = "queued"
      BY <2>1, TakeIs DEF ItemInv, ChannelInv
    <3> HIDE DEF h
    <3>2. \A v \in Workers \ {w} : wpc[v] \in Busy => item[v] # h
      BY <1>a, <3>1 DEF Busy
    <3>3. ASSUME NEW v \in Workers
          PROVE  /\ wpc'[v] \in Holding => status'[item'[v]] = "taken"
                 /\ wpc'[v] = "remove" => status'[item'[v]] = "copied"
      BY <1>a, <1>b, <2>0, <3>1, <3>2 DEF Busy
    <3>4. \A u, v \in Workers : wpc'[u] \in Busy /\ wpc'[v] \in Busy /\ item'[u] = item'[v] => u = v
      BY <1>a, <2>0, <3>1, <3>2
    <3>5. ASSUME NEW i \in Items, status'[i] = "taken"
          PROVE  i \in batch' /\ \E v \in Workers : wpc'[v] \in Holding /\ item'[v] = i
      <4>1. CASE i = h
        BY <3>1, <4>1 DEF Holding
      <4>2. CASE i # h
        <5>1. status[i] = "taken"
          BY <3>1, <3>5, <4>2
        <5>2. PICK v \in Workers : wpc[v] \in Holding /\ item[v] = i
          BY <1>a, <5>1
        <5>3. v # w
          BY <3>1, <5>2 DEF Holding
        <5> QED  BY <1>a, <2>0, <3>1, <5>1, <5>2, <5>3
      <4> QED  BY <4>1, <4>2
    <3> QED  BY <3>3, <3>4, <3>5 DEF WorkInv
  <2>2. CASE Ends(w) \/ Removes(w)
    <3>1. /\ wpc[w] \in Busy /\ item' = item /\ batch' = batch
          /\ wpc'[w] \notin Holding
      BY <2>2 DEF Ends, Removes, Busy, Holding
    <3>2. PICK fate \in {"copied", "error", "unprepared", "removed"} :
              /\ status' = [status EXCEPT ![item[w]] = fate]
              /\ wpc'[w] = "remove" => fate = "copied"
      BY <2>2 DEF Ends, Removes
    <3>3. item[w] \in Items /\ status'[item[w]] = fate
      BY <1>0, <1>b, <3>1, <3>2
    <3>4. \A i \in Items \ {item[w]} : status'[i] = status[i]
      BY <1>0, <3>2
    <3>5. \A v \in Workers \ {w} : wpc[v] \in Busy => item[v] \in Items \ {item[w]}
      BY <1>a, <1>b, <3>1
    <3>6. ASSUME NEW v \in Workers
          PROVE  /\ wpc'[v] \in Holding => status'[item'[v]] = "taken"
                 /\ wpc'[v] = "remove" => status'[item'[v]] = "copied"
      <4>1. CASE v = w
        BY <3>1, <3>2, <3>3, <4>1
      <4>2. CASE v # w
        BY <1>a, <2>0, <3>1, <3>4, <3>5, <4>2 DEF Busy
      <4> QED  BY <4>1, <4>2
    <3>7. \A v \in Workers : wpc'[v] \in Busy => wpc[v] \in Busy
      BY <2>0, <3>1
    <3>8. ASSUME NEW i \in Items, status'[i] = "taken"
          PROVE  i \in batch' /\ \E v \in Workers : wpc'[v] \in Holding /\ item'[v] = i
      <4>1. i # item[w] /\ status[i] = "taken"
        BY <3>3, <3>4, <3>8
      <4>2. PICK v \in Workers : wpc[v] \in Holding /\ item[v] = i
        BY <1>a, <4>1
      <4> QED  BY <1>a, <2>0, <3>1, <4>1, <4>2
    <3> QED  BY <1>a, <3>1, <3>6, <3>7, <3>8 DEF WorkInv
  <2>3. CASE Passes(w)
    <3>1. /\ wpc[w] \in Holding <=> wpc'[w] \in Holding
          /\ wpc'[w] # "remove" /\ UNCHANGED <<item, status, batch>>
      BY <2>3 DEF Passes
    <3>2. /\ \A v \in Workers : wpc'[v] \in Holding <=> wpc[v] \in Holding
          /\ \A v \in Workers : wpc'[v] = "remove" => wpc[v] = "remove"
      BY <2>0, <3>1
    <3>3. \A v \in Workers : wpc'[v] \in Busy => wpc[v] \in Busy
      BY <3>2 DEF Busy
    <3> QED  BY <1>a, <3>1, <3>2, <3>3 DEF WorkInv
  <2> QED  BY <1>1, <2>1, <2>2, <2>3, WorkerForms
<1>2. CASE AddMoreSend \/ WatcherSends
  <2>1. PICK b \in Seq(Items) : Sends(b) /\ \A i \in Range(b) : status[i] = "unqueued"
    BY <1>2, BatchNew DEF ItemInv
  <2>2. UNCHANGED <<wpc, item, batch>>
    BY <2>1 DEF Sends
  <2>3. \A i \in Items : /\ status[i] \in {"taken", "copied"} => status'[i] = status[i]
                         /\ status'[i] = "taken" => status[i] = "taken"
    BY <2>1, QueuedIs
  <2>4. \A w \in Workers : /\ wpc[w] \in Holding => status'[item[w]] = "taken"
                           /\ wpc[w] = "remove" => status'[item[w]] = "copied"
    BY <1>a, <1>b, <2>3 DEF Busy
  <2> QED  BY <1>a, <2>2, <2>3, <2>4 DEF WorkInv
<1>3. CASE StartPool
  <2>1. \A w \in Workers : wpc[w] = "exited" /\ wpc'[w] = "check"
    BY <1>3 DEF StartPool, AftermathInv
  <2>2. \A i \in Items : status[i] # "taken"
    BY <1>a, <2>1 DEF Holding
  <2>3. status' = status
    BY <1>3 DEF StartPool
  <2> QED  BY <2>1, <2>2, <2>3 DEF WorkInv, Holding, Busy
<1>4. CASE Rests
  BY <1>a, <1>4 DEF Rests, WorkInv
<1> QED  BY <1>1, <1>2, <1>3, <1>4, Forms

-----------------------------------------------------------------------------
(* Every item that left the queue is counted once, and a batch with an     *)
(* item that could not be prepared is stopped. *)

Ended == {i \in batch : status[i] # "taken"}

TallyInv ==
    /\ \A i \in batch : status[i] \notin {"unqueued", "queued"}
    /\ completed + failed = Cardinality(Ended)

FailInv ==
    /\ \A w \in Workers : wpc[w] = "fail_send" => stop_requested
    /\ \A i \in Items : status[i] = "unprepared" =>
           /\ stop_requested \/ \E w \in Workers : wpc[w] \in {"fail_reason", "fail_flag"}
           /\ stop_reason # NoItem \/ \E w \in Workers : wpc[w] = "fail_reason"

LEMMA TallyKept ==
    ASSUME TypeInv, ItemInv, TallyInv, [Next]_vars
    PROVE  TallyInv'
<1>0. /\ status \in [Items -> Fates] /\ batch \subseteq Items
      /\ completed \in Nat /\ failed \in Nat
      /\ \A w \in Workers : wpc[w] \in AtWork => item[w] \in Items
  BY DEF TypeInv, TypeOK
<1>a. /\ \A i \in batch : status[i] \notin {"unqueued", "queued"}
      /\ completed + failed = Cardinality(Ended)
      /\ IsFiniteSet(Ended)
  <2>1. Ended \subseteq Items
    BY <1>0 DEF Ended
  <2> QED  BY <2>1, EntryAssumption, FS_Subset DEF TallyInv
<1>1. ASSUME NEW w \in Workers, Worker(w)
      PROVE  TallyInv'
  <2>1. CASE Take(w)
    <3>1. Head(channel) \in Items /\ status[Head(channel)] = "queued"
      BY <2>1, TakeIs DEF ItemInv, ChannelInv
    <3>2. Head(channel) \notin batch
      BY <1>a, <3>1
    <3>3. \A i \in batch : status'[i] = status[i]
      BY <1>0, <2>1, <3>2, TakeIs
    <3>4. Ended' = Ended
      BY <2>1, <3>1, <3>2, <3>3, TakeIs DEF Ended
    <3>5. \A i \in batch' : status'[i] \notin {"unqueued", "queued"}
      BY <1>a, <2>1, <3>3, <3>1, TakeIs
    <3> QED  BY <1>a, <2>1, <3>4, <3>5, TakeIs DEF TallyInv
  <2>2. CASE Ends(w)
    <3>1. item[w] \in Items /\ status[item[w]] = "taken" /\ item[w] \in batch
      BY <1>0, <2>2 DEF Ends, AtWork, ItemInv, WorkInv, Holding
    <3>2. PICK fate \in {"copied", "error", "unprepared"} :
              status' = [status EXCEPT ![item[w]] = fate]
      BY <2>2 DEF Ends
    <3>3. \A i \in Items : status'[i] = IF i = item[w] THEN fate ELSE status[i]
      BY <1>0, <3>2
    <3>4. batch' = batch /\ completed' + failed' = completed + failed + 1
      BY <2>2 DEF Ends
    <3>5. Ended' = Ended \cup {item[w]} /\ item[w] \notin Ended
      BY <1>0, <3>1, <3>3, <3>4 DEF Ended
    <3>6. Cardinality(Ended') = Cardinality(Ended) + 1
      BY <1>a, <3>5, FS_AddElement
    <3>7. \A i \in batch' : status'[i] \notin {"unqueued", "queued"}
      BY <1>0, <1>a, <3>3, <3>4
    <3> QED  BY <1>a, <3>4, <3>6, <3>7 DEF TallyInv
  <2>3. CASE Removes(w) \/ Passes(w)
    <3>1. UNCHANGED <<batch, completed, failed>>
      BY <2>3 DEF Removes, Passes
    <3>2. \A i \in Items : status'[i] = status[i] \/ (status[i] = "copied" /\ status'[i] = "removed")
      <4>1. CASE Removes(w)
        <5>1. item[w] \in Items /\ status[item[w]] = "copied"
          BY <1>0, <4>1 DEF Removes, AtWork, ItemInv, WorkInv
        <5> QED  BY <1>0, <4>1, <5>1 DEF Removes
      <4>2. CASE Passes(w)
        BY <4>2 DEF Passes
      <4> QED  BY <2>3, <4>1, <4>2
    <3>3. Ended' = Ended
      BY <1>0, <3>1, <3>2 DEF Ended
    <3> QED  BY <1>0, <1>a, <3>1, <3>2, <3>3 DEF TallyInv
  <2> QED  BY <1>1, <2>1, <2>2, <2>3, WorkerForms
<1>2. CASE AddMoreSend \/ WatcherSends
  <2>1. PICK b \in Seq(Items) : Sends(b) /\ \A i \in Range(b) : status[i] = "unqueued"
    BY <1>2, BatchNew DEF ItemInv
  <2>2. \A i \in batch : status'[i] = status[i]
    BY <1>0, <1>a, <2>1, QueuedIs
  <2>3. UNCHANGED <<batch, completed, failed>>
    BY <2>1 DEF Sends
  <2>4. Ended' = Ended
    BY <2>2, <2>3 DEF Ended
  <2> QED  BY <1>a, <2>2, <2>3, <2>4 DEF TallyInv
<1>3. CASE StartPool
  <2>1. batch' = {} /\ completed' = 0 /\ failed' = 0
    BY <1>3 DEF StartPool
  <2>2. Ended' = {}
    BY <2>1 DEF Ended
  <2>3. Cardinality(Ended') = 0
    BY <2>2, FS_EmptySet
  <2> QED  BY <2>1, <2>3 DEF TallyInv
<1>4. CASE Rests
  <2>1. Ended' = Ended
    BY <1>4 DEF Rests, Ended
  <2> QED  BY <1>4, <1>a, <2>1 DEF Rests, TallyInv
<1> QED  BY <1>1, <1>2, <1>3, <1>4, Forms

LEMMA StopStays == [Next]_vars => (stop_requested => stop_requested')
<1> SUFFICES ASSUME [Next]_vars, stop_requested
             PROVE  stop_requested'
  OBVIOUS
<1>1. CASE Main \/ UserAnswers
  BY <1>1 DEF Main, LoopEnds, StartPool, JoinWorkers, CleanupRoots, SendTerminate, AwaitMonitor,
         SyncTargets, BatchEnds, UserAnswers, AddMoreSend, AddMoreCount, AddMoreFails
<1>2. CASE \E w \in Workers : Worker(w)
  BY <1>2 DEF Worker, CheckStop, Take, ReceiveTimeout, NothingReceived, CountReceived, Prepared,
         PrepareFails, SetStopReasonOnce, RequestStop, SendStop, CopySucceeds, CopyFails,
         RemoveSource, InsertRoot
<1>3. CASE Monitor \/ CtrlC \/ WatcherSends \/ WatcherCounts \/ UNCHANGED vars
  BY <1>3 DEF Monitor, ReadStats, ReceiveCommand, NoCommand, Settle, Settled, CtrlC, WatcherSends,
         WatcherCounts, vars
<1> QED  BY <1>1, <1>2, <1>3 DEF Next

LEMMA FailKept ==
    ASSUME TypeInv, AftermathInv, ItemInv, FailInv, [Next]_vars
    PROVE  FailInv'
<1>0. /\ status \in [Items -> Fates] /\ wpc \in [Workers -> WorkerSteps]
      /\ \A w \in Workers : wpc[w] \in AtWork => item[w] \in Items
      /\ NoItem \notin Items
  BY PoolAssumption DEF TypeInv, TypeOK
<1> DEFINE Failing(w) == wpc[w] \in {"fail_reason", "fail_flag"}
<1>s. stop_requested => stop_requested'
  BY StopStays
(* A step that fails nothing and leaves those that failed where they are. *)
<1>1. ASSUME \A i \in Items : status'[i] = "unprepared" => status[i] = "unprepared",
             stop_reason' = stop_reason,
             \A w \in Workers : Failing(w) => wpc'[w] = wpc[w],
             \A w \in Workers : wpc'[w] = "fail_send" => wpc[w] = "fail_send"
      PROVE  FailInv'
  <2>1. \A w \in Workers : wpc'[w] = "fail_send" => stop_requested'
    BY <1>s, <1>1 DEF FailInv
  <2>2. ASSUME NEW i \in Items, status'[i] = "unprepared"
        PROVE  stop_requested' \/ \E w \in Workers : wpc'[w] \in {"fail_reason", "fail_flag"}
    <3>1. stop_requested \/ \E w \in Workers : Failing(w)
      BY <1>1, <2>2 DEF FailInv
    <3> QED  BY <1>1, <1>s, <3>1
  <2>3. ASSUME NEW i \in Items, status'[i] = "unprepared"
        PROVE  stop_reason' # NoItem \/ \E w \in Workers : wpc'[w] = "fail_reason"
    <3>1. stop_reason # NoItem \/ \E w \in Workers : wpc[w] = "fail_reason"
      BY <1>1, <2>3 DEF FailInv
    <3> QED  BY <1>1, <3>1
  <2> QED  BY <2>1, <2>2, <2>3 DEF FailInv
<1>2. ASSUME NEW w \in Workers, Worker(w)
      PROVE  FailInv'
  <2>0. \A v \in Workers \ {w} : wpc'[v] = wpc[v]
    BY <1>2, WorkerForms
  <2>1. CASE PrepareFails(w)
    <3>1. wpc[w] = "prepare" /\ wpc'[w] = "fail_reason" /\ UNCHANGED <<stop_requested, stop_reason>>
      BY <1>0, <2>1 DEF PrepareFails, Goto
    <3>2. \A v \in Workers : wpc'[v] = "fail_send" => wpc[v] = "fail_send"
      BY <2>0, <3>1
    <3> QED  BY <3>1, <3>2 DEF FailInv
  <2>2. CASE SetStopReasonOnce(w)
    <3>1. /\ wpc[w] = "fail_reason" /\ wpc'[w] = "fail_flag"
          /\ stop_reason' = IF stop_reason = NoItem THEN item[w] ELSE stop_reason
          /\ UNCHANGED <<stop_requested, status>>
      BY <1>0, <2>2 DEF SetStopReasonOnce, Goto, history
    <3>2. stop_reason' # NoItem
      BY <1>0, <3>1 DEF AtWork
    <3>3. \A v \in Workers : wpc'[v] = "fail_send" => wpc[v] = "fail_send"
      BY <2>0, <3>1
    <3> QED  BY <3>1, <3>2, <3>3 DEF FailInv
  <2>3. CASE RequestStop(w)
    <3>1. stop_requested' /\ wpc[w] = "fail_flag" /\ UNCHANGED <<stop_reason, status>>
      BY <2>3 DEF RequestStop, ctx, history
    <3>2. \A v \in Workers : wpc[v] = "fail_reason" => wpc'[v] = "fail_reason"
      BY <2>0, <3>1
    <3> QED  BY <3>1, <3>2 DEF FailInv
  <2>4. CASE SendStop(w)
    <3>1. wpc[w] = "fail_send" /\ wpc'[w] = "exited" /\ UNCHANGED <<stop_reason, status>>
      BY <1>0, <2>4 DEF SendStop, Goto, ctx, history
    <3> QED  BY <1>1, <2>0, <3>1
  <2>5. CASE ~PrepareFails(w) /\ ~SetStopReasonOnce(w) /\ ~RequestStop(w) /\ ~SendStop(w)
    <3>1. /\ ~Failing(w) /\ wpc'[w] # "fail_send" /\ stop_reason' = stop_reason
      BY <1>0, <1>2, <2>5 DEF Worker, CheckStop, Take, ReceiveTimeout, NothingReceived,
             CountReceived, Prepared, CopySucceeds, CopyFails, RemoveSource, InsertRoot, Goto, ctx
    <3>2. \A i \in Items : status'[i] = "unprepared" => status[i] = "unprepared"
      <4>1. CASE Take(w)
        BY <4>1, TakeIs
      <4>2. CASE CopySucceeds(w) \/ CopyFails(w) \/ RemoveSource(w)
        <5>1. item[w] \in Items
          BY <1>0, <4>2 DEF CopySucceeds, CopyFails, RemoveSource, AtWork
        <5> QED  BY <1>0, <4>2, <5>1 DEF CopySucceeds, CopyFails, RemoveSource, Becomes
      <4>3. CASE \/ CheckStop(w) \/ ReceiveTimeout(w) \/ NothingReceived(w) \/ CountReceived(w)
                 \/ Prepared(w) \/ InsertRoot(w)
        BY <4>3 DEF CheckStop, ReceiveTimeout, NothingReceived, CountReceived, Prepared, InsertRoot,
               history
      <4> QED  BY <1>2, <2>5, <4>1, <4>2, <4>3 DEF Worker
    <3> QED  BY <1>1, <2>0, <3>1, <3>2
  <2> QED  BY <2>1, <2>2, <2>3, <2>4, <2>5
<1>3. CASE StartPool
  <2>1. \A w \in Workers : wpc[w] = "exited" /\ wpc'[w] = "check"
    BY <1>3 DEF StartPool, AftermathInv
  <2>2. ~stop_requested /\ status' = status
    BY <1>3 DEF StartPool
  <2>3. \A i \in Items : status[i] # "unprepared"
    BY <2>1, <2>2 DEF FailInv
  <2> QED  BY <2>1, <2>2, <2>3 DEF FailInv
<1>4. CASE AddMoreSend \/ WatcherSends
  <2>1. PICK b \in Seq(Items) : Sends(b)
    BY <1>4, BatchNew DEF ItemInv
  <2>2. stop_reason' = stop_reason
    BY <1>4 DEF AddMoreSend, WatcherSends, ctx
  <2>3. \A i \in Items : status'[i] = "unprepared" => status[i] = "unprepared"
    BY <2>1, QueuedIs
  <2> QED  BY <1>1, <2>1, <2>2, <2>3 DEF Sends
<1>5. CASE Rests /\ stop_reason' = stop_reason
  BY <1>1, <1>5 DEF Rests
<1>6. (\E w \in Workers : Worker(w)) \/ StartPool \/ stop_reason' = stop_reason
  BY DEF Next, Main, LoopEnds, JoinWorkers, CleanupRoots, SendTerminate, AwaitMonitor, SyncTargets,
         BatchEnds, UserAnswers, AddMoreSend, AddMoreCount, AddMoreFails, Monitor, ReadStats,
         ReceiveCommand, NoCommand, Settle, Settled, CtrlC, WatcherSends, WatcherCounts, vars, ctx
<1> QED  BY <1>2, <1>3, <1>4, <1>5, <1>6, Forms

-----------------------------------------------------------------------------
(* A worker leaves after it has found the channel empty, or after a stop,  *)
(* and what was due is never queued again. *)

Drained == \A i \in due : status[i] # "queued"

DrainInv ==
    /\ pc = "join" \/ AfterJoin => \A i \in due : status[i] # "unqueued"
    /\ pc = "join" => \A w \in Workers : /\ wpc[w] = "none" => Drained
                                         /\ wpc[w] = "exited" => Drained \/ stop_requested
    /\ AfterJoin => Drained \/ stop_requested

LEMMA DrainKept ==
    ASSUME TypeInv, AftermathInv, ItemInv, FailInv, DrainInv, [Next]_vars
    PROVE  DrainInv'
<1>0. /\ wpc \in [Workers -> WorkerSteps] /\ channel \in Seq(Items) /\ due \subseteq Items
      /\ Workers # {}
  BY PoolAssumption DEF TypeInv, TypeOK
<1>s. stop_requested => stop_requested'
  BY StopStays
<1> DEFINE New == \A i \in due : status[i] # "unqueued"
<1>a. ASSUME due' = due, New
      PROVE  New' /\ (Drained => Drained')
  <2>1. CASE Settles
    BY <1>0, <1>a, <2>1 DEF Settles, Drained
  <2>2. CASE AddMoreSend \/ WatcherSends
    <3>1. PICK b \in Seq(Items) : Sends(b) /\ \A i \in Range(b) : status[i] = "unqueued"
      BY <2>2, BatchNew DEF ItemInv
    <3>2. \A i \in due : status'[i] = status[i]
      BY <1>0, <1>a, <3>1, QueuedIs
    <3> QED  BY <1>a, <3>2 DEF Drained
  <2> QED  BY <2>1, <2>2, ItemSteps
<1>b. ASSUME due' = due, pc' = pc, wpc' = wpc
      PROVE  DrainInv'
  <2>1. AfterJoin' <=> AfterJoin
    BY <1>b DEF AfterJoin
  <2>2. CASE pc = "join" \/ AfterJoin
    <3>1. New' /\ (Drained => Drained')
      BY <1>a, <1>b, <2>2 DEF DrainInv
    <3> HIDE DEF New
    <3>2. New' => \A i \in due' : status'[i] # "unqueued"
      BY DEF New
    <3> QED  BY <1>b, <1>s, <2>1, <3>1, <3>2 DEF DrainInv
  <2>3. CASE ~(pc = "join" \/ AfterJoin)
    BY <1>b, <2>1, <2>3 DEF DrainInv
  <2> QED  BY <2>2, <2>3
<1>1. ASSUME NEW w \in Workers, Worker(w)
      PROVE  DrainInv'
  <2>1. /\ UNCHANGED <<pc, due>> /\ \A v \in Workers \ {w} : wpc'[v] = wpc[v]
    BY <1>1, WorkerForms
  <2>2. pc = "join" /\ ~AfterJoin'
    <3>1. wpc[w] # "exited"
      BY <1>1 DEF Worker, CheckStop, Take, ReceiveTimeout, NothingReceived, CountReceived, Prepared,
             PrepareFails, SetStopReasonOnce, RequestStop, SendStop, CopySucceeds, CopyFails,
             RemoveSource, InsertRoot
    <3>2. pc = "join"
      BY <3>1 DEF AftermathInv
    <3> QED  BY <2>1, <3>2 DEF AfterJoin
  <2>3. New' /\ (Drained => Drained')
    BY <1>a, <2>1, <2>2 DEF DrainInv
  <2>4. wpc'[w] = "none" => Drained'
    <3>1. SUFFICES ASSUME wpc'[w] = "none"
                   PROVE  Drained
      BY <2>3
    <3>2. channel = <<>>
      BY <1>0, <1>1, <3>1 DEF Worker, CheckStop, Take, ReceiveTimeout, NothingReceived,
             CountReceived, Prepared, PrepareFails, SetStopReasonOnce, RequestStop, SendStop,
             CopySucceeds, CopyFails, RemoveSource, InsertRoot, Goto
    <3>3. Range(channel) = {}
      BY <3>2, EmptyRange
    <3> QED  BY <1>0, <3>3 DEF Drained, ItemInv, ChannelInv
  <2>5. wpc'[w] = "exited" => Drained' \/ stop_requested'
    <3>1. SUFFICES ASSUME wpc'[w] = "exited"
                   PROVE  Drained \/ stop_requested
      BY <1>s, <2>3
    <3>2. \/ CheckStop(w) /\ stop_requested
          \/ wpc[w] \in {"none", "fail_send"}
      BY <1>0, <1>1, <3>1 DEF Worker, CheckStop, Take, ReceiveTimeout, NothingReceived,
             CountReceived, Prepared, PrepareFails, SetStopReasonOnce, RequestStop, SendStop,
             CopySucceeds, CopyFails, RemoveSource, InsertRoot, Goto
    <3> QED  BY <2>2, <3>2 DEF DrainInv, FailInv
  <2>6. \A v \in Workers : /\ wpc'[v] = "none" => Drained'
                           /\ wpc'[v] = "exited" => Drained' \/ stop_requested'
    <3> SUFFICES ASSUME NEW v \in Workers
                 PROVE  /\ wpc'[v] = "none" => Drained'
                        /\ wpc'[v] = "exited" => Drained' \/ stop_requested'
      OBVIOUS
    <3>1. CASE v = w
      BY <2>4, <2>5, <3>1
    <3>2. CASE v # w
      BY <1>s, <2>1, <2>2, <2>3, <3>2 DEF DrainInv
    <3> QED  BY <3>1, <3>2
  <2> QED  BY <2>2, <2>3, <2>6 DEF DrainInv
<1>2. CASE StartPool
  <2>1. /\ pc' = "join" /\ due' = Range(channel) /\ status' = status
        /\ \A w \in Workers : wpc'[w] = "check"
    BY <1>2 DEF StartPool
  <2>2. \A i \in due' : status'[i] = "queued"
    BY <1>0, <2>1, RangeTyped DEF ItemInv, ChannelInv
  <2>3. ~AfterJoin'
    BY <2>1 DEF AfterJoin
  <2> QED  BY <2>1, <2>2, <2>3 DEF DrainInv
<1>3. CASE JoinWorkers
  <2>1. /\ pc = "join" /\ pc' = "cleanup" /\ \A w \in Workers : wpc[w] = "exited"
        /\ UNCHANGED <<due, status, stop_requested>>
    BY <1>3 DEF JoinWorkers, history
  <2>2. PICK w \in Workers : TRUE
    BY <1>0
  <2>3. Drained \/ stop_requested
    BY <2>1, <2>2 DEF DrainInv
  <2>4. \A i \in due : status[i] # "unqueued"
    BY <2>1 DEF DrainInv
  <2>5. (Drained <=> Drained')
    BY <2>1 DEF Drained
  <2> QED  BY <1>s, <2>1, <2>3, <2>4, <2>5 DEF DrainInv
<1>4. CASE (Main \/ UserAnswers) /\ ~StartPool /\ ~JoinWorkers
  <2>1. /\ UNCHANGED <<due, wpc>> /\ pc' # "join"
        /\ AfterJoin' => AfterJoin
    BY <1>4 DEF Main, LoopEnds, CleanupRoots, SendTerminate, AwaitMonitor, SyncTargets,
           BatchEnds, UserAnswers, AddMoreSend, AddMoreCount, AddMoreFails, AfterJoin
  <2>2. CASE AfterJoin
    <3>1. New' /\ (Drained => Drained')
      BY <1>a, <2>1, <2>2 DEF DrainInv
    <3> HIDE DEF New
    <3>2. New' => \A i \in due' : status'[i] # "unqueued"
      BY DEF New
    <3> QED  BY <1>s, <2>1, <2>2, <3>1, <3>2 DEF DrainInv
  <2>3. CASE ~AfterJoin
    BY <2>1, <2>3 DEF DrainInv
  <2> QED  BY <2>2, <2>3
<1>5. CASE Monitor \/ CtrlC \/ WatcherSends \/ WatcherCounts \/ UNCHANGED vars
  <2>1. UNCHANGED <<due, pc, wpc>>
    BY <1>5 DEF Monitor, ReadStats, ReceiveCommand, NoCommand, Settle, Settled, CtrlC, WatcherSends,
           WatcherCounts, vars, main
  <2> QED  BY <1>b, <2>1
<1> QED  BY <1>1, <1>2, <1>3, <1>4, <1>5 DEF Next

LEMMA DueHandled ==
    ASSUME TypeInv, AftermathInv, ItemInv, FailInv, DrainInv, AfterJoin, ~stop_requested
    PROVE  \A i \in due : status[i] \in Handled
<1>1. \A w \in Workers : wpc[w] = "exited"
  BY DEF AfterJoin, AftermathInv
<1>2. \A i \in Items : status[i] \in Fates /\ status[i] # "taken"
  BY <1>1 DEF ItemInv, WorkInv, Holding, TypeInv, TypeOK
<1>3. \A i \in Items : status[i] # "unprepared"
  BY <1>1 DEF FailInv
<1>4. \A i \in due : i \in Items /\ status[i] # "unqueued" /\ status[i] # "queued"
  BY DEF DrainInv, Drained, TypeInv, TypeOK
<1> QED  BY <1>2, <1>3, <1>4 DEF Fates, Handled

-----------------------------------------------------------------------------
(* The count.  pending is the length of the channel, and the items their   *)
(* workers have yet to count off, less the batches yet to be counted.  It  *)
(* may be negative, but not when the last worker leaves without a stop:    *)
(* it found the count a multiple of WordSize, and it is nearer to 0 than   *)
(* that. *)

Counting  == {w \in Workers : wpc[w] = "count"}
Uncounted == (IF watching = "count" THEN Len(Head(watched)) ELSE 0)
             + (IF pc = "add_count" THEN Len(Added) ELSE 0)
AllExited == \A w \in Workers : wpc[w] = "exited"

PendingInv ==
    /\ pending = Len(channel) + Cardinality(Counting) - Uncounted
    /\ ~stop_requested /\ AllExited => pending >= 0
    /\ ~stop_requested /\ pc = "loop" =>
           pending >= IF added = "no" THEN Len(Initial) ELSE Len(Added)

LEMMA Lengths ==
    ASSUME TypeInv
    PROVE  /\ Len(channel) \in Nat /\ Len(Added) \in Nat /\ Len(Initial) \in Nat
           /\ watching = "count" => Len(Head(watched)) \in Nat
           /\ Uncounted \in Nat
           /\ IsFiniteSet(Counting) /\ Cardinality(Counting) \in Nat
<1>1. Len(channel) \in Nat /\ Len(Added) \in Nat /\ Len(Initial) \in Nat
  BY PoolAssumption, LenProperties DEF TypeInv, TypeOK
<1>2. watching = "count" => Len(Head(watched)) \in Nat
  <2>1. watched \in Seq(Seq(Items)) /\ (watching = "count" => watched # <<>>)
    BY DEF TypeInv, TypeOK
  <2>2. watching = "count" => Head(watched) \in Seq(Items)
    BY <2>1, HeadTailProperties
  <2> QED  BY <2>2, LenProperties
<1>3. IsFiniteSet(Counting) /\ Cardinality(Counting) \in Nat
  <2>1. Counting \subseteq Workers
    BY DEF Counting
  <2> QED  BY <2>1, PoolAssumption, FS_Subset, FS_CardinalityType
<1>4. Uncounted \in Nat
  <2> DEFINE m == IF watching = "count" THEN Len(Head(watched)) ELSE 0
             n == IF pc = "add_count" THEN Len(Added) ELSE 0
  <2>1. m \in Nat /\ n \in Nat
    BY <1>1, <1>2
  <2>2. Uncounted = m + n
    BY DEF Uncounted
  <2> HIDE DEF m, n
  <2> QED  BY <2>1, <2>2
<1> QED  BY <1>1, <1>2, <1>3, <1>4

(* A batch in the channel, or on its way to the count, is shorter than     *)
(* WordSize. *)
LEMMA ShortSequence ==
    ASSUME NEW s \in Seq(Items), IsInjective(s)
    PROVE  Len(s) < WordSize
<1>1. /\ Range(s) \subseteq Items /\ IsFiniteSet(Items)
      /\ Cardinality(Items) < WordSize /\ WordSize \in Nat
  BY EntryAssumption, RangeTyped
<1>2. Cardinality(Range(s)) = Len(s)
  BY RangeCardinality
<1>3. Cardinality(Range(s)) <= Cardinality(Items) /\ Cardinality(Items) \in Nat
  BY <1>1, FS_Subset, FS_CardinalityType
<1>4. Len(s) \in Nat
  BY LenProperties
<1> QED  BY <1>1, <1>2, <1>3, <1>4

LEMMA NearZero ==
    ASSUME NEW p \in Int, NEW n \in Nat, p > 0 - n, p < n, p % n = 0
    PROVE  p = 0
OBVIOUS

(* The steps, as far as the count is concerned. *)
LEMMA CountKept ==
    ASSUME TypeInv, AftermathInv, [Next]_vars,
           pending = Len(channel) + Cardinality(Counting) - Uncounted
    PROVE  pending' = Len(channel') + Cardinality(Counting') - Uncounted'
<1>0. /\ wpc \in [Workers -> WorkerSteps] /\ channel \in Seq(Items) /\ pending \in Int
      /\ watched \in Seq(Seq(Items)) /\ Added \in Seq(Items)
      /\ watching = "count" => watched # <<>>
  BY PoolAssumption DEF TypeInv, TypeOK
<1>a. /\ Len(channel) \in Nat /\ Len(Added) \in Nat /\ Uncounted \in Nat
      /\ watching = "count" => Len(Head(watched)) \in Nat
      /\ IsFiniteSet(Counting) /\ Cardinality(Counting) \in Nat
  BY Lengths
<1>1. ASSUME NEW w \in Workers, Worker(w)
      PROVE  pending' = Len(channel') + Cardinality(Counting') - Uncounted'
  <2>1. /\ UNCHANGED <<pc, watching, watched>>
        /\ \A v \in Workers \ {w} : wpc'[v] = wpc[v]
    BY <1>1, WorkerForms
  <2>2. Uncounted' = Uncounted
    BY <2>1 DEF Uncounted
  <2>3. CASE Take(w)
    <3>1. wpc[w] = "recv" /\ wpc'[w] = "count" /\ channel # <<>> /\ channel' = Tail(channel)
      BY <2>3, TakeIs
    <3>2. Len(channel') = Len(channel) - 1
      BY <1>0, <3>1, TailRange
    <3>3. Counting' = Counting \cup {w} /\ w \notin Counting
      BY <2>1, <3>1 DEF Counting
    <3>4. Cardinality(Counting') = Cardinality(Counting) + 1
      BY <1>a, <3>3, FS_AddElement
    <3>5. pending' = pending
      BY <2>3 DEF Take
    <3> QED  BY <1>a, <2>2, <3>2, <3>4, <3>5
  <2>4. CASE CountReceived(w)
    <3>1. wpc[w] = "count" /\ wpc'[w] = "prepare" /\ channel' = channel /\ pending' = pending - 1
      BY <1>0, <2>4 DEF CountReceived, Goto
    <3>2. Counting' = Counting \ {w} /\ w \in Counting
      BY <2>1, <3>1 DEF Counting
    <3>3. Cardinality(Counting') = Cardinality(Counting) - 1
      BY <1>a, <3>2, FS_RemoveElement
    <3> QED  BY <1>a, <2>2, <3>1, <3>3
  <2>5. CASE ~Take(w) /\ ~CountReceived(w)
    <3>1. wpc[w] # "count" /\ wpc'[w] # "count" /\ UNCHANGED queue
      BY <1>0, <1>1, <2>5 DEF Worker, CheckStop, ReceiveTimeout, NothingReceived, Prepared,
             PrepareFails, SetStopReasonOnce, RequestStop, SendStop, CopySucceeds, CopyFails,
             RemoveSource, InsertRoot, Goto
    <3>2. Counting' = Counting
      BY <2>1, <3>1 DEF Counting
    <3> QED  BY <2>2, <3>1, <3>2 DEF queue
  <2> QED  BY <2>3, <2>4, <2>5
<1>2. CASE StartPool
  <2>1. /\ \A w \in Workers : wpc[w] = "exited" /\ wpc'[w] = "check"
        /\ pc = "loop" /\ pc' = "join" /\ UNCHANGED <<channel, pending, watching, watched>>
    BY <1>2 DEF StartPool, AftermathInv, queue, watcher
  <2>2. Counting' = Counting /\ Uncounted' = Uncounted
    BY <2>1 DEF Counting, Uncounted
  <2> QED  BY <2>1, <2>2
<1>3. CASE AddMoreSend
  <2>1. /\ channel' = channel \o Added /\ pc = "add_send" /\ pc' = "add_count"
        /\ UNCHANGED <<pending, wpc, watching, watched>>
    BY <1>3 DEF AddMoreSend, watcher
  <2>2. Len(channel') = Len(channel) + Len(Added)
    BY <1>0, <2>1, ConcatRange
  <2>3. Counting' = Counting /\ Uncounted' = Uncounted + Len(Added)
    BY <1>a, <2>1 DEF Counting, Uncounted
  <2> QED  BY <1>a, <2>1, <2>2, <2>3
<1>4. CASE AddMoreCount \/ AddMoreFails
  <2>1. /\ pending' = pending + Len(Added) /\ pc = "add_count" /\ pc' # "add_count"
        /\ UNCHANGED <<channel, wpc, watching, watched>>
    BY <1>4 DEF AddMoreCount, AddMoreFails, watcher
  <2>2. Counting' = Counting /\ Uncounted' = Uncounted - Len(Added)
    BY <1>a, <2>1 DEF Counting, Uncounted
  <2> QED  BY <1>0, <1>a, <2>1, <2>2
<1>5. CASE WatcherSends
  <2>1. /\ channel' = channel \o Head(watched) /\ watching = "idle" /\ watching' = "count"
        /\ watched # <<>> /\ UNCHANGED <<pending, wpc, pc, watched>>
    BY <1>5 DEF WatcherSends, main
  <2>2. Head(watched) \in Seq(Items)
    BY <1>0, <2>1, HeadTailProperties
  <2>3. Len(channel') = Len(channel) + Len(Head(watched)) /\ Len(Head(watched)) \in Nat
    BY <1>0, <2>1, <2>2, ConcatRange
  <2>4. Counting' = Counting /\ Uncounted' = Uncounted + Len(Head(watched))
    BY <1>a, <2>1, <2>3 DEF Counting, Uncounted
  <2> QED  BY <1>a, <2>1, <2>3, <2>4
<1>6. CASE WatcherCounts
  <2>1. /\ pending' = pending + Len(Head(watched)) /\ watching = "count" /\ watching' = "idle"
        /\ UNCHANGED <<channel, wpc, pc>>
    BY <1>6 DEF WatcherCounts, main
  <2>2. Counting' = Counting /\ Uncounted' = Uncounted - Len(Head(watched))
    BY <1>a, <2>1 DEF Counting, Uncounted
  <2> DEFINE n == Len(Head(watched))
  <2>3. n \in Nat /\ pending' = pending + n /\ Uncounted' = Uncounted - n
    BY <1>a, <2>1, <2>2
  <2>4. Len(channel') = Len(channel) /\ Cardinality(Counting') = Cardinality(Counting)
    BY <2>1, <2>2
  <2> HIDE DEF n
  <2> QED  BY <1>0, <1>a, <2>3, <2>4
<1>7. CASE UNCHANGED <<channel, pending, wpc, watching, watched>> /\ (pc' = "add_count" <=> pc = "add_count")
  <2>1. Counting' = Counting /\ Uncounted' = Uncounted
    BY <1>7 DEF Counting, Uncounted
  <2> QED  BY <1>7, <2>1
<1>8. CASE LoopEnds \/ JoinWorkers \/ CleanupRoots \/ SendTerminate \/ AwaitMonitor \/ SyncTargets
           \/ BatchEnds \/ UserAnswers
  BY <1>7, <1>8 DEF LoopEnds, JoinWorkers, CleanupRoots, SendTerminate, AwaitMonitor, SyncTargets,
         BatchEnds, UserAnswers, queue, watcher
<1>9. CASE Monitor \/ CtrlC \/ UNCHANGED vars
  BY <1>7, <1>9 DEF Monitor, ReadStats, ReceiveCommand, NoCommand, Settle, Settled, CtrlC,
         vars, queue, watcher, main
<1> QED  BY <1>1, <1>2, <1>3, <1>4, <1>5, <1>6, <1>8, <1>9 DEF Next, Main

LEMMA PendingKept ==
    ASSUME TypeInv, AftermathInv, ItemInv, FailInv, PendingInv, [Next]_vars
    PROVE  PendingInv'
<1>0. wpc \in [Workers -> WorkerSteps] /\ channel \in Seq(Items) /\ pending \in Int
  BY DEF TypeInv, TypeOK
<1>a. /\ Len(channel) \in Nat /\ Len(Added) \in Nat
      /\ watching = "count" => Len(Head(watched)) \in Nat
  BY Lengths
<1>s. ~stop_requested' => ~stop_requested
  BY StopStays
<1>t. /\ ~stop_requested /\ AllExited => pending >= 0
      /\ ~stop_requested /\ pc = "loop" =>
             pending >= IF added = "no" THEN Len(Initial) ELSE Len(Added)
  BY DEF PendingInv
<1>c. pending' = Len(channel') + Cardinality(Counting') - Uncounted'
  BY CountKept DEF PendingInv
<1> DEFINE Bounds == /\ ~stop_requested' /\ AllExited' => pending' >= 0
                     /\ ~stop_requested' /\ pc' = "loop" =>
                            pending' >= IF added' = "no" THEN Len(Initial) ELSE Len(Added)
<1> SUFFICES Bounds
  BY <1>c DEF PendingInv
<1>1. ASSUME NEW w \in Workers, Worker(w)
      PROVE  Bounds
  <2>1. /\ UNCHANGED <<pc, watching, watched>> /\ wpc[w] # "exited"
        /\ \A v \in Workers \ {w} : wpc'[v] = wpc[v]
    BY <1>1, WorkerForms DEF Worker, CheckStop, Take, ReceiveTimeout, NothingReceived,
           CountReceived, Prepared, PrepareFails, SetStopReasonOnce, RequestStop, SendStop,
           CopySucceeds, CopyFails, RemoveSource, InsertRoot
  <2>2. pc = "join"
    BY <2>1 DEF AftermathInv
  <2>3. ASSUME ~stop_requested', AllExited'
        PROVE  pending' >= 0
    <3>1. NothingReceived(w)
      <4>1. wpc'[w] = "exited" /\ ~stop_requested
        BY <1>s, <2>3 DEF AllExited
      <4>2. ~SendStop(w)
        BY <4>1 DEF SendStop, FailInv
      <4> QED  BY <1>0, <1>1, <4>1, <4>2 DEF Worker, CheckStop, Take, ReceiveTimeout,
                  CountReceived, Prepared, PrepareFails, SetStopReasonOnce, RequestStop,
                  CopySucceeds, CopyFails, RemoveSource, InsertRoot, Goto
    <3>2. pending % WordSize = 0 /\ UNCHANGED <<channel, pending>>
      <4>1. wpc'[w] = "exited" /\ wpc'[w] = IF IsEmpty \/ stop_requested THEN "exited" ELSE "check"
        BY <1>0, <2>3, <3>1 DEF NothingReceived, Goto, AllExited
      <4> QED  BY <1>s, <2>3, <3>1, <4>1 DEF NothingReceived, queue, IsEmpty
    <3>3. Cardinality(Counting') = 0
      <4>1. Counting' = {}
        BY <2>3 DEF Counting, AllExited
      <4> QED  BY <4>1, FS_EmptySet
    <3>4. Len(channel) < WordSize
      BY <1>0, ShortSequence DEF ItemInv, ChannelInv
    <3>5. watching = "count" => Len(Head(watched)) < WordSize
      <4> SUFFICES ASSUME watching = "count"
                   PROVE  Len(Head(watched)) < WordSize
        OBVIOUS
      <4>1. watched \in Seq(Seq(Items)) /\ watched # <<>>
        BY DEF TypeInv, TypeOK
      <4>2. Head(watched) \in Seq(Items) /\ Head(watched) = watched[1] /\ 1 \in 1..Len(watched)
        BY <4>1, HeadTailProperties, LenProperties, EmptySeq
      <4>3. IsInjective(Head(watched))
        BY <4>2 DEF ItemInv, ComeInv
      <4> QED  BY <4>2, <4>3, ShortSequence
    <3>6. pending = Len(channel) - (IF watching = "count" THEN Len(Head(watched)) ELSE 0)
      <4>1. Uncounted' = IF watching = "count" THEN Len(Head(watched)) ELSE 0
        BY <1>a, <2>1, <2>2 DEF Uncounted
      <4> QED  BY <1>a, <1>c, <3>2, <3>3, <4>1
    <3>7. WordSize \in Nat
      BY EntryAssumption
    <3>8. pending > 0 - WordSize /\ pending < WordSize
      BY <1>a, <3>4, <3>5, <3>6, <3>7
    <3>9. pending = 0
      BY <1>0, <3>2, <3>7, <3>8, NearZero
    <3> QED  BY <3>2, <3>9
  <2> QED  BY <2>1, <2>2, <2>3
<1>2. CASE StartPool
  <2>1. (\A w \in Workers : wpc'[w] = "check") /\ pc' = "join"
    BY <1>2 DEF StartPool
  <2>2. ~AllExited'
    BY <2>1, PoolAssumption DEF AllExited
  <2> QED  BY <2>1, <2>2
<1>3. CASE UNCHANGED <<pending, wpc>> /\ pc' # "loop"
  BY <1>3, <1>s, <1>t DEF AllExited
<1>4. CASE (pending' = pending \/ WatcherCounts) /\ UNCHANGED <<wpc, pc, added>>
  <2>1. pending' >= pending /\ pending' \in Int
    <3>1. CASE WatcherCounts
      BY <1>0, <1>a, <3>1 DEF WatcherCounts
    <3> QED  BY <1>0, <1>4, <3>1
  <2>2. Len(Initial) \in Nat
    BY Lengths
  <2> QED  BY <1>0, <1>a, <1>4, <1>s, <1>t, <2>1, <2>2 DEF AllExited
<1>5. CASE AddMoreCount \/ AddMoreFails
  <2>1. /\ pending' = pending + Len(Added) /\ pc = "add_count" /\ wpc' = wpc
        /\ pc' = "loop" => added' = added
    BY <1>5 DEF AddMoreCount, AddMoreFails
  <2>2. AllExited /\ added = "all"
    BY <2>1 DEF AllExited, AftermathInv, ItemInv, ComeInv
  <2>3. ~stop_requested => pending >= 0
    BY <1>t, <2>2
  <2> QED  BY <1>0, <1>a, <1>s, <2>1, <2>2, <2>3
<1>6. CASE LoopEnds \/ JoinWorkers \/ CleanupRoots \/ SendTerminate \/ AwaitMonitor \/ SyncTargets
           \/ BatchEnds \/ UserAnswers \/ AddMoreSend
  BY <1>3, <1>6 DEF LoopEnds, JoinWorkers, CleanupRoots, SendTerminate, AwaitMonitor, SyncTargets,
         BatchEnds, UserAnswers, AddMoreSend, queue
<1>7. CASE Monitor \/ CtrlC \/ WatcherSends \/ WatcherCounts \/ UNCHANGED vars
  BY <1>4, <1>7 DEF Monitor, ReadStats, ReceiveCommand, NoCommand, Settle, Settled, CtrlC,
         WatcherSends, WatcherCounts, vars, queue, main
<1> HIDE DEF Bounds
<1> QED  BY <1>1, <1>2, <1>5, <1>6, <1>7 DEF Next, Main

-----------------------------------------------------------------------------
(* The end of the run.  The first batch and the files the user added are   *)
(* due in the pool that follows them, and stay handled from its end on.    *)

Done(q)      == \A i \in Range(q) : status[i] \in Handled
AllQueued(q) == \A i \in Range(q) : status[i] = "queued"

DoneInv ==
    /\ pc = "loop" => AllQueued(IF added = "no" THEN Initial ELSE Added)
    /\ pc = "add_count" => AllQueued(Added)
    /\ pc \in {"add_send", "add_count", "prompt"} \/ (pc = "loop" /\ added # "no") =>
           stop_requested \/ Done(Initial)
    /\ pc = "prompt" /\ added # "no" => stop_requested \/ Done(Added)
    /\ pc = "join" \/ AfterJoin =>
           IF added = "no" THEN Range(Initial) \subseteq due
           ELSE Range(Added) \subseteq due /\ (stop_requested \/ Done(Initial))
    /\ CompleteIsDone

PoolInv == TypeInv /\ AftermathInv /\ ItemInv /\ TallyInv /\ FailInv /\ DrainInv /\ PendingInv

LEMMA HandledStays ==
    ASSUME TypeInv, ItemInv, [Next]_vars, NEW i \in Items, status[i] \in Handled
    PROVE  status'[i] \in Handled
<1>1. CASE Settles
  BY <1>1 DEF Settles
<1>2. CASE AddMoreSend \/ WatcherSends
  <2>1. PICK b \in Seq(Items) : Sends(b) /\ \A j \in Range(b) : status[j] = "unqueued"
    BY <1>2, BatchNew DEF ItemInv
  <2>2. i \notin Range(b)
    BY <2>1 DEF Handled
  <2> QED  BY <2>1, <2>2, QueuedIs
<1> QED  BY <1>1, <1>2, ItemSteps

(* Between two pools nothing leaves the queue. *)
LEMMA QueuedStays ==
    ASSUME TypeInv, AftermathInv, ItemInv, [Next]_vars, pc # "join",
           NEW i \in Items, status[i] = "queued"
    PROVE  status'[i] = "queued"
<1>1. CASE \E w \in Workers : Worker(w)
  <2>1. PICK w \in Workers : Worker(w)
    BY <1>1
  <2>2. wpc[w] # "exited"
    BY <2>1 DEF Worker, CheckStop, Take, ReceiveTimeout, NothingReceived, CountReceived, Prepared,
           PrepareFails, SetStopReasonOnce, RequestStop, SendStop, CopySucceeds, CopyFails,
           RemoveSource, InsertRoot
  <2> QED  BY <2>2 DEF AftermathInv
<1>2. CASE AddMoreSend \/ WatcherSends
  <2>1. PICK b \in Seq(Items) : Sends(b)
    BY <1>2, BatchNew DEF ItemInv
  <2> QED  BY <2>1, QueuedIs
<1>3. CASE StartPool \/ Rests
  BY <1>3 DEF StartPool, Rests
<1> QED  BY <1>1, <1>2, <1>3, Forms

LEMMA EmptyMeansNone ==
    ASSUME PoolInv, ~stop_requested, pc = "loop", IsEmpty
    PROVE  /\ added = "no" => Range(Initial) = {}
           /\ added # "no" => Range(Added) = {}
<1>0. /\ channel \in Seq(Items) /\ pending \in Int /\ WordSize \in Nat
      /\ Initial \in Seq(Items) /\ Added \in Seq(Items)
  BY PoolAssumption, EntryAssumption DEF PoolInv, TypeInv, TypeOK
<1>1. /\ Len(channel) \in Nat /\ Len(Added) \in Nat /\ Len(Initial) \in Nat /\ Uncounted \in Nat
  BY Lengths DEF PoolInv
<1>2. Cardinality(Counting) = 0
  <2>1. Counting = {}
    BY DEF PoolInv, AftermathInv, Counting
  <2> QED  BY <2>1, FS_EmptySet
<1>3. Len(channel) < WordSize
  BY <1>0, ShortSequence DEF PoolInv, ItemInv, ChannelInv
<1>4. /\ pending = Len(channel) - Uncounted
      /\ pending >= IF added = "no" THEN Len(Initial) ELSE Len(Added)
  BY <1>1, <1>2 DEF PoolInv, PendingInv
<1>5. pending >= 0 /\ pending < WordSize /\ pending > 0 - WordSize
  BY <1>0, <1>1, <1>3, <1>4
<1>6. pending = 0
  BY <1>0, <1>5, NearZero DEF IsEmpty
<1>7. /\ added = "no" => Len(Initial) = 0
      /\ added # "no" => Len(Added) = 0
  BY <1>1, <1>4, <1>6
<1> QED  BY <1>0, <1>7, EmptyOnly, EmptyRange

LEMMA DoneKept ==
    ASSUME PoolInv, DoneInv, [Next]_vars
    PROVE  DoneInv'
<1>0. Range(Initial) \subseteq Items /\ Range(Added) \subseteq Items
  BY PoolAssumption, RangeTyped
<1>s. stop_requested => stop_requested'
  BY StopStays
<1>d. (Done(Initial) => Done(Initial)') /\ (Done(Added) => Done(Added)')
  BY <1>0, HandledStays DEF Done, PoolInv
<1>q. pc # "join" => /\ AllQueued(Initial) => AllQueued(Initial)'
                     /\ AllQueued(Added) => AllQueued(Added)'
  BY <1>0, QueuedStays DEF AllQueued, PoolInv
<1>i. /\ pc = "loop" /\ added = "no" => AllQueued(Initial)
      /\ pc = "loop" /\ added # "no" => AllQueued(Added)
      /\ pc = "add_count" => AllQueued(Added)
      /\ pc \in {"add_send", "add_count", "prompt"} \/ (pc = "loop" /\ added # "no") =>
             stop_requested \/ Done(Initial)
      /\ pc = "prompt" /\ added # "no" => stop_requested \/ Done(Added)
      /\ pc = "join" \/ AfterJoin =>
             /\ added = "no" => Range(Initial) \subseteq due
             /\ added # "no" => Range(Added) \subseteq due /\ (stop_requested \/ Done(Initial))
      /\ pc = "finished" /\ ~stop_requested =>
             Done(Initial) /\ (added = "all" => Done(Added))
  BY DEF DoneInv, CompleteIsDone, Done
(* What is to be shown, in the same form. *)
<1>j. ASSUME /\ pc' = "loop" /\ added' = "no" => AllQueued(Initial)'
             /\ pc' = "loop" /\ added' # "no" => AllQueued(Added)'
             /\ pc' = "add_count" => AllQueued(Added)'
             /\ pc' \in {"add_send", "add_count", "prompt"} \/ (pc' = "loop" /\ added' # "no") =>
                    stop_requested' \/ Done(Initial)'
             /\ pc' = "prompt" /\ added' # "no" => stop_requested' \/ Done(Added)'
             /\ pc' = "join" \/ AfterJoin' =>
                    /\ added' = "no" => Range(Initial) \subseteq due'
                    /\ added' # "no" => /\ Range(Added) \subseteq due'
                                        /\ stop_requested' \/ Done(Initial)'
             /\ pc' = "finished" /\ ~stop_requested' =>
                    Done(Initial)' /\ (added' = "all" => Done(Added)')
      PROVE  DoneInv'
  <2>1. CompleteIsDone'
    BY <1>j DEF CompleteIsDone, Done
  <2>2. pc' = "loop" => AllQueued(IF added = "no" THEN Initial ELSE Added)'
    <3>1. CASE added' = "no"
      BY <1>j, <3>1 DEF AllQueued
    <3>2. CASE added' # "no"
      BY <1>j, <3>2 DEF AllQueued
    <3> QED  BY <3>1, <3>2
  <2> QED  BY <1>j, <2>1, <2>2 DEF DoneInv
<1>1. CASE UNCHANGED <<pc, added, due>>
  <2>1. AfterJoin' <=> AfterJoin
    BY <1>1 DEF AfterJoin
  <2> QED  BY <1>1, <1>s, <1>d, <1>q, <1>i, <1>j, <2>1
<1>2. CASE LoopEnds
  <2>1. /\ pc = "loop" /\ pc' = "finished" /\ UNCHANGED <<added, stop_requested, status>>
        /\ stop_requested \/ IsEmpty
    BY <1>2 DEF LoopEnds, history
  <2>2. ~stop_requested' => Done(Initial)' /\ (added' = "all" => Done(Added)')
    <3> SUFFICES ASSUME ~stop_requested
                 PROVE  Done(Initial) /\ (added = "all" => Done(Added))
      BY <1>d, <2>1
    <3>1. /\ added = "no" => Range(Initial) = {}
          /\ added # "no" => Range(Added) = {}
      BY <2>1, EmptyMeansNone
    <3>2. added # "no" => Done(Initial)
      BY <1>i, <2>1
    <3> QED  BY <3>1, <3>2 DEF Done
  <2> QED  BY <1>j, <2>1, <2>2 DEF AfterJoin
<1>3. CASE StartPool
  <2>1. /\ pc = "loop" /\ pc' = "join" /\ due' = Range(channel) /\ added' = added
    BY <1>3 DEF StartPool
  <2>2. \A i \in Items : status[i] = "queued" => i \in Range(channel)
    BY DEF PoolInv, ItemInv, ChannelInv
  <2>3. /\ AllQueued(Initial) => Range(Initial) \subseteq due'
        /\ AllQueued(Added) => Range(Added) \subseteq due'
    BY <1>0, <2>1, <2>2 DEF AllQueued
  <2> QED  BY <1>s, <1>d, <1>i, <1>j, <2>1, <2>3
<1>4. CASE JoinWorkers \/ CleanupRoots \/ SendTerminate \/ AwaitMonitor \/ SyncTargets
  <2>1. /\ pc = "join" \/ AfterJoin
        /\ pc' \in {"cleanup", "terminate", "await", "sync", "batch_done"}
        /\ UNCHANGED <<added, due>>
    BY <1>4 DEF JoinWorkers, CleanupRoots, SendTerminate, AwaitMonitor, SyncTargets, AfterJoin
  <2> QED  BY <1>s, <1>d, <1>i, <1>j, <2>1
<1>5. CASE BatchEnds
  <2>1. /\ pc = "batch_done" /\ AfterJoin /\ pc' \in {"finished", "prompt"}
        /\ UNCHANGED <<added, due, stop_requested>>
    BY <1>5 DEF BatchEnds, AfterJoin
  <2>2. ~stop_requested => \A i \in due : status[i] \in Handled
    BY <2>1, DueHandled DEF PoolInv
  <2>3. ~stop_requested => Done(Initial) /\ (added # "no" => Done(Added))
    BY <1>i, <2>1, <2>2 DEF Done
  <2> QED  BY <1>d, <1>j, <2>1, <2>3 DEF AfterJoin
<1>6. CASE UserAnswers
  <2>1. /\ pc = "prompt" /\ UNCHANGED <<due, stop_requested>>
        /\ \/ pc' = "finished" /\ added' = added
           \/ pc' = "add_send" /\ added' = "all"
    BY <1>6 DEF UserAnswers
  <2> QED  BY <1>d, <1>i, <1>j, <2>1 DEF AfterJoin
<1>7. CASE AddMoreSend
  <2>1. pc = "add_send" /\ pc' = "add_count" /\ status' = Queued(Added)
    BY <1>7 DEF AddMoreSend
  <2>2. AllQueued(Added)'
    BY <1>0, <2>1 DEF AllQueued, Queued
  <2> QED  BY <1>s, <1>d, <1>i, <1>j, <2>1, <2>2 DEF AfterJoin
<1>8. CASE AddMoreCount \/ AddMoreFails
  <2>1. /\ pc = "add_count" /\ added = "all"
        /\ \/ pc' = "loop" /\ added' = added
           \/ pc' = "finished" /\ added' = "part"
    BY <1>8 DEF AddMoreCount, AddMoreFails, PoolInv, ItemInv, ComeInv
  <2> QED  BY <1>s, <1>d, <1>q, <1>i, <1>j, <2>1 DEF AfterJoin
<1>9. CASE (\E w \in Workers : Worker(w)) \/ Monitor \/ CtrlC \/ WatcherSends \/ WatcherCounts
           \/ UNCHANGED vars
  <2>1. CASE \E w \in Workers : Worker(w)
    BY <1>1, <2>1, WorkerForms DEF PoolInv
  <2>2. CASE Monitor \/ CtrlC \/ WatcherSends \/ WatcherCounts \/ UNCHANGED vars
    BY <1>1, <2>2 DEF Monitor, ReadStats, ReceiveCommand, NoCommand, Settle, Settled, CtrlC,
           WatcherSends, WatcherCounts, vars, main
  <2> QED  BY <1>9, <2>1, <2>2
<1> QED  BY <1>2, <1>3, <1>4, <1>5, <1>6, <1>7, <1>8, <1>9 DEF Next, Main

-----------------------------------------------------------------------------

LEMMA InitPool == Init => PoolInv /\ DoneInv
<1> SUFFICES ASSUME Init
             PROVE  PoolInv /\ DoneInv
  OBVIOUS
<1>0. /\ Initial \in Seq(Items) /\ Added \in Seq(Items) /\ Watched \in Seq(Seq(Items))
      /\ Workers # {} /\ IsFiniteSet(Workers)
  BY PoolAssumption
<1>1. /\ channel = Initial /\ pending = Len(Initial) /\ pc = "loop" /\ added = "no"
      /\ watching = "idle" /\ watched = Watched /\ due = {} /\ batch = {}
      /\ completed = 0 /\ failed = 0 /\ ~stop_requested
      /\ \A w \in Workers : wpc[w] = "exited"
      /\ \A i \in Items : status[i] = IF i \in Range(Initial) THEN "queued" ELSE "unqueued"
  BY DEF Init
<1>2. TypeInv /\ AftermathInv
  BY InitTyped DEF Init, AftermathInv
<1>3. ComeInv
  <2>1. \A k \in 1..Len(watched) :
            /\ IsInjective(watched[k]) /\ Range(watched[k]) \cap Range(Added) = {}
            /\ Range(watched[k]) \cap Range(Initial) = {} /\ Range(watched[k]) \subseteq Items
            /\ \A j \in 1..Len(watched) : j # k => Range(watched[k]) \cap Range(watched[j]) = {}
    <3> SUFFICES ASSUME NEW k \in 1..Len(Watched)
                 PROVE  /\ IsInjective(Watched[k]) /\ Range(Watched[k]) \cap Range(Added) = {}
                        /\ Range(Watched[k]) \cap Range(Initial) = {} /\ Range(Watched[k]) \subseteq Items
                        /\ \A j \in 1..Len(Watched) :
                               j # k => Range(Watched[k]) \cap Range(Watched[j]) = {}
      BY <1>1
    <3>1. DOMAIN Watched = 1..Len(Watched) /\ Watched[k] \in Range(Watched)
      BY <1>0, LenProperties DEF Range
    <3>2. Watched[k] \in Seq(Items)
      BY <1>0, ElementOfSeq
    <3>3. Range(Watched[k]) \subseteq Items
      BY <3>2, RangeTyped
    <3> QED  BY <3>1, <3>3, EntryAssumption
  <2>2. Range(Added) \subseteq Items /\ Range(Initial) \cap Range(Added) = {}
    BY <1>0, RangeTyped, EntryAssumption
  <2> QED  BY <1>1, <2>1, <2>2 DEF ComeInv
<1>4. ChannelInv
  BY <1>1, EntryAssumption DEF ChannelInv
<1>5. WorkInv
  BY <1>1 DEF WorkInv, Holding, Busy
<1>6. TallyInv
  <2>1. Ended = {}
    BY <1>1 DEF Ended
  <2> QED  BY <1>1, <2>1, FS_EmptySet DEF TallyInv
<1>7. FailInv
  BY <1>1 DEF FailInv
<1>8. DrainInv
  BY <1>1 DEF DrainInv, AfterJoin
<1>9. PendingInv
  <2>1. Counting = {} /\ Uncounted = 0
    BY <1>1 DEF Counting, Uncounted
  <2>2. Cardinality(Counting) = 0 /\ Len(Initial) \in Nat
    BY <1>0, <2>1, FS_EmptySet, LenProperties
  <2> QED  BY <1>1, <2>1, <2>2 DEF PendingInv
<1>10. DoneInv
  <2>1. AllQueued(Initial)
    BY <1>0, <1>1, RangeTyped DEF AllQueued
  <2> QED  BY <1>1, <2>1 DEF DoneInv, AfterJoin, CompleteIsDone
<1> QED  BY <1>2, <1>3, <1>4, <1>5, <1>6, <1>7, <1>8, <1>9, <1>10 DEF PoolInv, ItemInv

LEMMA PoolKept == PoolInv /\ [Next]_vars => PoolInv'
<1> SUFFICES ASSUME PoolInv, [Next]_vars
             PROVE  PoolInv'
  OBVIOUS
<1>1. TypeInv /\ AftermathInv /\ ItemInv /\ TallyInv /\ FailInv /\ DrainInv /\ PendingInv
  BY DEF PoolInv
<1>2. TypeInv' /\ AftermathInv'
  BY <1>1, StepTyped, AftermathKept
<1>3. ItemInv'
  BY <1>1, ComeKept, ChannelKept, WorkKept DEF ItemInv
<1>4. TallyInv'
  BY <1>1, TallyKept
<1>5. FailInv'
  BY <1>1, FailKept
<1>6. DrainInv'
  BY <1>1, DrainKept
<1>7. PendingInv'
  BY <1>1, PendingKept
<1> QED  BY <1>2, <1>3, <1>4, <1>5, <1>6, <1>7 DEF PoolInv

(* A batch that ends without a stop has handled every item that was in the *)
(* channel when it started (BatchDrained), with any number of workers and  *)
(* whatever is queued meanwhile: no worker leaves while one of them is in  *)
(* the channel. *)
THEOREM PoolBatchDrained == Spec => []BatchDrained
<1>1. Init => PoolInv
  BY InitPool
<1>2. PoolInv /\ [Next]_vars => PoolInv'
  BY PoolKept
<1>3. PoolInv => BatchDrained
  BY DueHandled DEF PoolInv, BatchDrained, AfterJoin
<1> QED  BY <1>1, <1>2, <1>3, PTL DEF Spec

(* Once the workers are joined no transfer is under way and the statistics *)
(* count every item that left the queue; a batch in which an item could    *)
(* not be prepared ends as stopped, with a reason (FatesReported).         *)
THEOREM PoolFatesReported == Spec => []FatesReported
<1>1. Init => PoolInv
  BY InitPool
<1>2. PoolInv /\ [Next]_vars => PoolInv'
  BY PoolKept
<1>3. PoolInv => FatesReported
  <2> SUFFICES ASSUME PoolInv, AfterJoin
               PROVE  /\ \A i \in Items : status[i] # "taken"
                      /\ completed + failed = Cardinality(batch)
                      /\ (\E i \in Items : status[i] = "unprepared") =>
                             Stopped /\ stop_reason # NoItem
    BY DEF FatesReported, AfterJoin
  <2>1. \A w \in Workers : wpc[w] = "exited"
    BY DEF AfterJoin, PoolInv, AftermathInv
  <2>2. \A i \in Items : status[i] # "taken"
    BY <2>1 DEF PoolInv, ItemInv, WorkInv, Holding
  <2>3. Ended = batch
    BY <2>2 DEF Ended, PoolInv, TypeInv, TypeOK
  <2>4. (\E i \in Items : status[i] = "unprepared") => stop_requested /\ stop_reason # NoItem
    BY <2>1 DEF PoolInv, FailInv
  <2> QED  BY <2>2, <2>3, <2>4 DEF PoolInv, TallyInv, Stopped
<1> QED  BY <1>1, <1>2, <1>3, PTL DEF Spec

(* When the run ends without a stop everything that was mapped or added by *)
(* hand has been handled (CompleteIsDone), although main and the workers   *)
(* only look at a counter that lags behind the channel.                    *)
THEOREM PoolCompleteIsDone == Spec => []CompleteIsDone
<1>1. Init => PoolInv /\ DoneInv
  BY InitPool
<1>2. PoolInv /\ DoneInv /\ [Next]_vars => PoolInv' /\ DoneInv'
  BY PoolKept, DoneKept
<1>3. DoneInv => CompleteIsDone
  BY DEF DoneInv
<1> QED  BY <1>1, <1>2, <1>3, PTL DEF Spec

-----------------------------------------------------------------------------
(* What a step does to the items.                                          *)

LEMMA FatesDecided ==
    ASSUME TypeInv, ItemInv, [Next]_vars, NEW i \in Items, status'[i] # status[i]
    PROVE  <<status[i], status'[i]>> \in Decisions
<1>0. status \in [Items -> Fates] /\ \A w \in Workers : wpc[w] \in AtWork => item[w] \in Items
  BY DEF TypeInv, TypeOK
<1>1. ASSUME NEW w \in Workers, Worker(w)
      PROVE  <<status[i], status'[i]>> \in Decisions
  <2>1. CASE Take(w)
    <3>1. i = Head(channel) /\ status'[i] = "taken"
      BY <2>1, TakeIs
    <3>2. status[i] = "queued"
      BY <2>1, <3>1, TakeIs DEF ItemInv, ChannelInv
    <3> QED  BY <3>1, <3>2 DEF Decisions
  <2>2. CASE Ends(w)
    <3>1. item[w] \in Items /\ status[item[w]] = "taken"
      BY <1>0, <2>2 DEF Ends, AtWork, ItemInv, WorkInv, Holding
    <3>2. PICK fate \in {"copied", "error", "unprepared"} : status' = [status EXCEPT ![item[w]] = fate]
      BY <2>2 DEF Ends
    <3>3. i = item[w] /\ status'[i] = fate
      BY <1>0, <3>1, <3>2
    <3> QED  BY <3>1, <3>3 DEF Decisions
  <2>3. CASE Removes(w)
    <3>1. item[w] \in Items /\ status[item[w]] = "copied"
      BY <1>0, <2>3 DEF Removes, AtWork, ItemInv, WorkInv
    <3>2. i = item[w] /\ status'[i] = "removed"
      BY <1>0, <2>3, <3>1 DEF Removes
    <3> QED  BY <3>1, <3>2 DEF Decisions
  <2> QED  BY <1>1, <2>1, <2>2, <2>3, WorkerForms DEF Passes
<1>2. CASE AddMoreSend \/ WatcherSends
  <2>1. PICK b \in Seq(Items) : Sends(b) /\ \A j \in Range(b) : status[j] = "unqueued"
    BY <1>2, BatchNew DEF ItemInv
  <2>2. status[i] = "unqueued" /\ status'[i] = "queued"
    BY <2>1, QueuedIs
  <2> QED  BY <2>2 DEF Decisions
<1> QED  BY <1>1, <1>2, Forms DEF StartPool, Rests

(* An item is handed to one worker, once; what becomes of it is decided    *)
(* once, and a source is removed only after its copy (FateDecidedOnce),    *)
(* with any number of workers and whatever is queued meanwhile. *)
THEOREM PoolFatesDecided == Spec => FateDecidedOnce
<1>1. Init => PoolInv
  BY InitPool
<1>2. PoolInv /\ [Next]_vars => PoolInv'
  BY PoolKept
<1>3. PoolInv /\ [Next]_vars =>
          [\A i \in Items : status'[i] # status[i] => <<status[i], status'[i]>> \in Decisions]_vars
  BY FatesDecided DEF PoolInv
<1> QED  BY <1>1, <1>2, <1>3, PTL DEF Spec, FateDecidedOnce
-----------------------------------------------------------------------------
(* The pool's queue is a CountedQueue: what is ahead of the count are the  *)
(* batches that were sent and not counted, what is behind it the items of  *)
(* the workers that have not counted theirs. *)

LEMMA CountedRange == \A s : Counted!Range(s) = Range(s)
BY DEF Counted!Range, Range

(* The batches the watcher has left are some of those it had. *)
LeftInv == Range(watched) \subseteq Range(Watched)

LEMMA LeftKept == TypeInv /\ LeftInv /\ [Next]_vars => LeftInv'
<1> SUFFICES ASSUME TypeInv, LeftInv, [Next]_vars
             PROVE  LeftInv'
  OBVIOUS
<1>1. CASE WatcherCounts
  <2>1. watched \in Seq(Seq(Items)) /\ watched # <<>> /\ watched' = Tail(watched)
    BY <1>1 DEF TypeInv, TypeOK, WatcherCounts
  <2>2. Range(watched') \subseteq Range(watched)
    BY <2>1, TailRange
  <2> QED  BY <2>2 DEF LeftInv
<1>2. CASE watched' = watched
  BY <1>2 DEF LeftInv
<1>3. WatcherCounts \/ watched' = watched
  <2>1. CASE \E w \in Workers : Worker(w)
    BY <2>1, WorkerForms
  <2>2. CASE Main \/ UserAnswers \/ Monitor \/ CtrlC \/ WatcherSends \/ UNCHANGED vars
    BY <2>2 DEF Main, LoopEnds, StartPool, JoinWorkers, CleanupRoots, SendTerminate, AwaitMonitor,
           SyncTargets, BatchEnds, UserAnswers, AddMoreSend, AddMoreCount, AddMoreFails, Monitor,
           ReadStats, ReceiveCommand, NoCommand, Settle, Settled, CtrlC, WatcherSends, vars, watcher
  <2> QED  BY <2>1, <2>2 DEF Next
<1> QED  BY <1>1, <1>2, <1>3

Behind == {item[w] : w \in {v \in Workers : wpc[v] = "count"}}
SentBy(b, counting) == IF counting THEN Range(b) ELSE {}
Ahead == SentBy(Head(watched), watching = "count") \cup SentBy(Added, pc = "add_count")

LEMMA AheadIs ==
    /\ Ahead = (IF watching = "count" THEN Counted!Range(Head(watched)) ELSE {})
               \cup (IF pc = "add_count" THEN Counted!Range(Added) ELSE {})
    /\ Ahead = (IF watching = "count" THEN Range(Head(watched)) ELSE {})
               \cup (IF pc = "add_count" THEN Range(Added) ELSE {})
BY CountedRange DEF Ahead, SentBy

(* A batch to come shares no item with what the queue knows. *)
LEMMA FreshBatch ==
    ASSUME TypeInv, ItemInv, NEW b \in Seq(Items), \A i \in Range(b) : status[i] = "unqueued"
    PROVE  Range(b) \cap (Range(channel) \cup Behind) = {}
<1>1. Range(b) \subseteq Items
  BY RangeTyped
<1>2. Range(b) \cap Range(channel) = {}
  BY <1>1 DEF ItemInv, ChannelInv
<1>3. \A i \in Behind : status[i] = "taken"
  BY DEF Behind, Holding, ItemInv, WorkInv
<1> QED  BY <1>2, <1>3

(* The watcher's next batch, when it has one. *)
LEMMA HeadWatched ==
    ASSUME TypeInv, ItemInv, LeftInv, watched # <<>>
    PROVE  /\ Head(watched) \in Seq(Items) /\ Head(watched) \in Range(Watched)
           /\ Range(Head(watched)) \cap Range(Added) = {}
           /\ watching = "idle" => \A i \in Range(Head(watched)) : status[i] = "unqueued"
<1>1. watched \in Seq(Seq(Items))
  BY DEF TypeInv, TypeOK
<1>2. /\ Head(watched) = watched[1] /\ 1 \in 1..Len(watched)
      /\ Head(watched) \in Seq(Items) /\ Head(watched) \in Range(watched)
  BY <1>1, TailRange, HeadTailProperties
<1> QED  BY <1>2 DEF LeftInv, ItemInv, ComeInv

LEMMA PoolCountedStep ==
    ASSUME PoolInv, LeftInv, [Next]_vars
    PROVE  [Counted!Next]_Counted!vars
<1> USE CountedRange
<1>0. TypeInv /\ ItemInv /\ AftermathInv
  BY DEF PoolInv
<1>a. /\ channel \in Seq(Items) /\ wpc \in [Workers -> WorkerSteps]
      /\ item \in [Workers -> Items \cup {NoItem}] /\ Added \in Seq(Items)
      /\ watching \in {"idle", "count"}
  BY <1>0, PoolAssumption DEF TypeInv, TypeOK
<1>b. Counted!vars = <<channel, pending, Ahead, Behind>>
  BY AheadIs DEF Counted!vars, Behind
<1>c. Counted!vars' = <<channel', pending', Ahead', Behind'>>
  BY DEF Counted!vars, Ahead, SentBy, Behind
<1>d. UNCHANGED <<channel, pending, Ahead, Behind>> => UNCHANGED Counted!vars
  BY <1>b, <1>c
<1>1. CASE AddMoreSend
  <2>1. /\ pc = "add_send" /\ pc' = "add_count" /\ channel' = channel \o Added
        /\ UNCHANGED <<pending, wpc, item, watching, watched>>
    BY <1>1 DEF AddMoreSend, watcher
  <2>2. Ahead' = Ahead \cup Range(Added) /\ Behind' = Behind
    BY <2>1 DEF Ahead, SentBy, Behind
  <2>3. \A i \in Range(Added) : status[i] = "unqueued"
    BY <1>0, <2>1 DEF ItemInv, ComeInv
  <2>4. Range(Added) \cap Ahead = {}
    <3>1. watching = "count" => Range(Head(watched)) \cap Range(Added) = {}
      BY <1>0, HeadWatched DEF TypeInv
    <3> QED  BY <2>1, <3>1 DEF Ahead, SentBy
  <2>5. Range(Added) \cap (Range(channel) \cup Ahead \cup Behind) = {}
    BY <1>0, <1>a, <2>3, <2>4, FreshBatch
  <2>6. Counted!Send(Added)
    BY <2>1, <2>2, <2>5, AheadIs DEF Counted!Send, Ahead, SentBy, Behind
  <2> QED  BY <2>6 DEF Counted!Next
<1>2. CASE WatcherSends
  <2> DEFINE b == Head(watched)
  <2>1. /\ watching = "idle" /\ watching' = "count" /\ channel' = channel \o b /\ watched # <<>>
        /\ UNCHANGED <<pending, wpc, item, watched, pc>>
    BY <1>2 DEF WatcherSends, main
  <2>2. Ahead' = Ahead \cup Range(b) /\ Behind' = Behind
    BY <2>1 DEF Ahead, SentBy, Behind
  <2>3. b \in Seq(Items) /\ b \in Range(Watched) /\ Range(b) \cap Range(Added) = {}
        /\ \A i \in Range(b) : status[i] = "unqueued"
    BY <1>0, <2>1, HeadWatched
  <2>4. Range(b) \cap Ahead = {}
    BY <2>1, <2>3 DEF Ahead, SentBy
  <2>5. Range(b) \cap (Range(channel) \cup Ahead \cup Behind) = {}
    BY <1>0, <2>3, <2>4, FreshBatch
  <2>6. Counted!Send(b)
    BY <2>1, <2>2, <2>5 DEF Counted!Send, Ahead, SentBy, Behind
  <2> QED  BY <2>3, <2>6 DEF Counted!Next
<1>3. CASE AddMoreCount \/ AddMoreFails
  <2>1. /\ pc = "add_count" /\ pc' # "add_count" /\ pending' = pending + Len(Added)
        /\ UNCHANGED <<channel, wpc, item, watching, watched>>
    BY <1>3 DEF AddMoreCount, AddMoreFails, watcher
  <2>2. watching = "count" => Range(Head(watched)) \cap Range(Added) = {}
    BY <1>0, HeadWatched DEF TypeInv
  <2>3. Range(Added) \subseteq Ahead /\ Ahead' = Ahead \ Range(Added) /\ Behind' = Behind
    BY <2>1, <2>2 DEF Ahead, SentBy, Behind
  <2>4. Counted!CountSent(Added)
    BY <2>1, <2>3 DEF Counted!CountSent, Ahead, SentBy, Behind
  <2> QED  BY <2>4 DEF Counted!Next
<1>4. CASE WatcherCounts
  <2> DEFINE b == Head(watched)
  <2>1. /\ watching = "count" /\ watching' = "idle" /\ pending' = pending + Len(b) /\ watched # <<>>
        /\ UNCHANGED <<channel, wpc, item, pc>>
    BY <1>0, <1>4 DEF WatcherCounts, main, TypeInv
  <2>2. b \in Range(Watched) /\ Range(b) \cap Range(Added) = {}
    BY <1>0, <2>1, HeadWatched
  <2>3. Range(b) \subseteq Ahead /\ Ahead' = Ahead \ Range(b) /\ Behind' = Behind
    BY <2>1, <2>2 DEF Ahead, SentBy, Behind
  <2>4. Counted!CountSent(b)
    BY <2>1, <2>3 DEF Counted!CountSent, Ahead, SentBy, Behind
  <2> QED  BY <2>2, <2>4 DEF Counted!Next
<1>5. ASSUME NEW w \in Workers, Worker(w)
      PROVE  [Counted!Next]_Counted!vars
  <2>0. /\ UNCHANGED <<pc, watching, watched>>
        /\ \A v \in Workers \ {w} : wpc'[v] = wpc[v] /\ item'[v] = item[v]
    BY <1>0, <1>5, WorkerForms
  <2>a. Ahead' = Ahead
    BY <2>0 DEF Ahead, SentBy
  <2>1. CASE Take(w)
    <3>1. /\ wpc[w] = "recv" /\ wpc'[w] = "count" /\ item'[w] = Head(channel)
          /\ channel # <<>> /\ channel' = Tail(channel) /\ pending' = pending
          /\ status[Head(channel)] = "queued"
      BY <1>0, <2>1, TakeIs DEF Take, ItemInv, ChannelInv
    <3>2. Behind' = Behind \cup {Head(channel)}
      BY <2>0, <3>1 DEF Behind
    <3>3. Head(channel) \notin Behind
      BY <1>0, <3>1 DEF Behind, Holding, ItemInv, WorkInv
    <3>4. Counted!Take
      BY <2>a, <3>1, <3>2, <3>3 DEF Counted!Take, Ahead, SentBy, Behind
    <3> QED  BY <3>4 DEF Counted!Next
  <2>2. CASE CountReceived(w)
    <3>1. /\ wpc[w] = "count" /\ wpc'[w] = "prepare" /\ UNCHANGED <<channel, item>>
          /\ pending' = pending - 1
      BY <1>a, <2>2 DEF CountReceived, Goto
    <3>2. \A v \in Workers \ {w} : wpc[v] = "count" => item[v] # item[w]
      BY <1>0, <3>1 DEF ItemInv, WorkInv, Busy, Holding
    <3>3. PICK i \in Behind : i = item[w]
      BY <3>1 DEF Behind
    <3>4. Behind' = Behind \ {i}
      BY <2>0, <3>1, <3>2, <3>3 DEF Behind
    <3>5. Counted!CountTaken(i)
      BY <2>a, <3>1, <3>4 DEF Counted!CountTaken, Ahead, SentBy, Behind
    <3> QED  BY <3>5 DEF Counted!Next, Behind
  <2>3. CASE ~Take(w) /\ ~CountReceived(w)
    <3>1. /\ wpc[w] # "count" /\ wpc'[w] # "count" /\ UNCHANGED <<channel, pending, item>>
      BY <1>a, <1>5, <2>3 DEF Worker, CheckStop, ReceiveTimeout, NothingReceived, Prepared,
             PrepareFails, SetStopReasonOnce, RequestStop, SendStop, CopySucceeds, CopyFails,
             RemoveSource, InsertRoot, Goto, queue
    <3>2. Behind' = Behind
      BY <2>0, <3>1 DEF Behind
    <3> QED  BY <1>d, <2>a, <3>1, <3>2
  <2> QED  BY <2>1, <2>2, <2>3
<1>6. CASE StartPool
  <2>1. \A w \in Workers : wpc[w] = "exited" /\ wpc'[w] = "check"
    BY <1>0, <1>6 DEF StartPool, AftermathInv
  <2>2. Behind = {} /\ Behind' = {}
    BY <2>1 DEF Behind
  <2>3. Ahead' = Ahead /\ UNCHANGED <<channel, pending>>
    BY <1>6 DEF StartPool, queue, watcher, Ahead, SentBy
  <2> QED  BY <1>d, <2>2, <2>3
<1>7. CASE \/ LoopEnds \/ JoinWorkers \/ CleanupRoots \/ SendTerminate \/ AwaitMonitor
           \/ SyncTargets \/ BatchEnds \/ UserAnswers
  <2>1. /\ UNCHANGED <<channel, pending, wpc, item, watching, watched>>
        /\ pc # "add_count" /\ pc' # "add_count"
    BY <1>7 DEF LoopEnds, JoinWorkers, CleanupRoots, SendTerminate, AwaitMonitor, SyncTargets,
           BatchEnds, UserAnswers, queue, watcher
  <2> QED  BY <1>d, <2>1 DEF Ahead, SentBy, Behind
<1>8. CASE Monitor \/ CtrlC \/ UNCHANGED vars
  <2>1. UNCHANGED <<channel, pending, wpc, item, watching, watched, pc>>
    BY <1>8 DEF Monitor, ReadStats, ReceiveCommand, NoCommand, Settle, Settled, CtrlC, vars, queue,
           watcher, main
  <2> QED  BY <1>d, <2>1 DEF Ahead, SentBy, Behind
<1> QED
  BY <1>1, <1>2, <1>3, <1>4, <1>5, <1>6, <1>7, <1>8 DEF Next, Main

(* What main, the workers and the watcher do to the queue is what a        *)
(* CountedQueue allows (ImplementsCounted), with any number of workers and *)
(* any batches: the link to TransferQueue, which implements it too.        *)
THEOREM PoolImplementsCounted == Spec => ImplementsCounted
<1>1. Init => PoolInv /\ LeftInv
  BY InitPool DEF Init, LeftInv
<1>2. PoolInv /\ LeftInv /\ [Next]_vars => PoolInv' /\ LeftInv'
  BY PoolKept, LeftKept DEF PoolInv
<1>3. PoolInv /\ LeftInv /\ [Next]_vars => [Counted!Next]_Counted!vars
  BY PoolCountedStep
<1>4. Init => Counted!Init
  BY DEF Init, Counted!Init
<1> QED  BY <1>1, <1>2, <1>3, <1>4, PTL DEF Spec, ImplementsCounted, Counted!Spec
=============================================================================
