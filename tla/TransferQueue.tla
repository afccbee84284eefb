--------------------------- MODULE TransferQueue ---------------------------
(***************************************************************************)
(* The shared queue of src/queue.rs, one atomic step of the code per       *)
(* action.                                                                 *)
(*                                                                         *)
(* TransferQueue keeps one set of pending items in five places that no     *)
(* common lock protects: the crossbeam channel the workers receive from,   *)
(* the mutex-protected mirror snapshot_items the checkpoint is written     *)
(* from, and the atomic counters total_size, pending_items and revision.   *)
(* enqueue_batch and recv_timeout update them one after the other, and     *)
(* run at the same time: the main task and the mount watcher enqueue while *)
(* the workers of the pool receive.                                        *)
(*                                                                         *)
(* A batch is what one call of add_file_with_policy or                     *)
(* add_directory_with_policy found (the walk itself is left out);          *)
(* an item stands for one call's TransferItem, so no item is in two        *)
(* batches.  The counters are machine words.  Every update of them is an   *)
(* addition or a subtraction, so the variable holds the exact integer and  *)
(* the reads (Length, TotalBytes) take it modulo WordSize.                 *)
(***************************************************************************)
EXTENDS Integers, Sequences, FiniteSets, Functions

CONSTANTS
    Items,       \* the TransferItems
    Size,        \* Size[i]: bytes of item i, as read when it was queued
    Batches,     \* the batches that may be enqueued, as sequences of items
    Producers,   \* threads that call enqueue_batch
    Consumers,   \* worker threads, that call recv_timeout
    NoItem,      \* what a worker holds before it received anything
    WordSize     \* 2^64 in the program

ASSUME ConsumersAssumption == IsFiniteSet(Consumers)
ASSUME WordSizeAssumption  == WordSize \in Nat \ {0}
ASSUME NoItemAssumption    == NoItem \notin Items
ASSUME BatchesAssumption   ==
    /\ Batches \subseteq Seq(Items)
    /\ \A b \in Batches : IsInjective(b)
    /\ \A b, d \in Batches : Range(b) \cap Range(d) # {} => b = d

(* batch_size: the bytes of a whole batch. *)
BytesOf(b) == SumFunction([i \in DOMAIN b |-> Size[b[i]]])

ASSUME SizeAssumption ==
    /\ Size \in [Items -> Nat]
    /\ \A b \in Batches : BytesOf(b) \in Nat

VARIABLES
    channel,        \* items_tx / items_rx
    snapshot,       \* snapshot_items
    total_size,     \* bytes queued
    pending,        \* pending_items
    revision,
    ppc,            \* next step of each producer
    batch,          \* the batch each producer enqueues
    unsent,         \* the part of it that is not in the channel yet
    cpc,            \* next step of each consumer
    item,           \* the item each consumer received last
    submitted,      \* history: the batches enqueue_batch was called with
    taken           \* history: the items received from the channel

counters == <<total_size, pending, revision>>
pvars    == <<ppc, batch, unsent, submitted>>
cvars    == <<cpc, item, taken>>
vars     == <<channel, snapshot, counters, pvars, cvars>>

ProducerSteps == {"idle", "send", "total_size", "pending", "revision"}
ConsumerSteps == {"idle", "total_size", "pending", "revision", "snapshot"}

TypeOK ==
    /\ channel \in Seq(Items)
    /\ snapshot \in Seq(Items)
    /\ total_size \in Int /\ pending \in Int /\ revision \in Nat
    /\ ppc \in [Producers -> ProducerSteps]
    /\ batch \in [Producers -> Batches \cup {<<>>}]
    /\ unsent \in [Producers -> Seq(Items)]
    /\ cpc \in [Consumers -> ConsumerSteps]
    /\ item \in [Consumers -> Items \cup {NoItem}]
    /\ submitted \subseteq Batches
    /\ taken \subseteq Items

-----------------------------------------------------------------------------
(* What the readers see: len() (and is_empty()) and total_size().          *)

Length     == pending % WordSize
IsEmpty    == Length = 0
TotalBytes == total_size % WordSize

(* TransferQueue::new *)
Init ==
    /\ channel = <<>> /\ snapshot = <<>>
    /\ total_size = 0 /\ pending = 0 /\ revision = 0
    /\ ppc = [p \in Producers |-> "idle"]
    /\ batch = [p \in Producers |-> <<>>]
    /\ unsent = [p \in Producers |-> <<>>]
    /\ cpc = [c \in Consumers |-> "idle"]
    /\ item = [c \in Consumers |-> NoItem]
    /\ submitted = {} /\ taken = {}

(* restore_items: called once, before any other thread knows the queue, so *)
(* its stores are one step.  The checkpoint it restores is never empty.    *)
RestoreItems(b) ==
    /\ submitted = {}
    /\ b # <<>>
    /\ channel' = b
    /\ snapshot' = b
    /\ total_size' = BytesOf(b)
    /\ pending' = Len(b)
    /\ revision' = revision + 1
    /\ submitted' = {b}
    /\ UNCHANGED <<ppc, batch, unsent, cvars>>

-----------------------------------------------------------------------------
(* enqueue_batch.                                                          *)

(* Slip: the mirror is extended at its front. *)
ExtendFront(p, b) ==
    /\ ppc[p] = "idle"
    /\ b \notin submitted
    /\ b # <<>>
    /\ snapshot' = b \o snapshot
    /\ batch' = [batch EXCEPT ![p] = b]
    /\ unsent' = [unsent EXCEPT ![p] = b]
    /\ ppc' = [ppc EXCEPT ![p] = "send"]
    /\ submitted' = submitted \cup {b}
    /\ UNCHANGED <<channel, counters, cvars>>

(* The early return for an empty batch, and the guarded extend. *)
ExtendSnapshot(p, b) ==
    /\ ppc[p] = "idle"
    /\ b \notin submitted
    /\ b # <<>>
    /\ snapshot' = snapshot \o b
    /\ batch' = [batch EXCEPT ![p] = b]
    /\ unsent' = [unsent EXCEPT ![p] = b]
    /\ ppc' = [ppc EXCEPT ![p] = "send"]
    /\ submitted' = submitted \cup {b}
    /\ UNCHANGED <<channel, counters, cvars>>

(* Slips: the batch is sent from its end; only its first item is sent. *)
SendLast(p) ==
    /\ ppc[p] = "send"
    /\ unsent[p] # <<>>
    /\ channel' = Append(channel, unsent[p][Len(unsent[p])])
    /\ unsent' = [unsent EXCEPT ![p] = SubSeq(@, 1, Len(@) - 1)]
    /\ ppc' = [ppc EXCEPT ![p] = IF Tail(unsent[p]) = <<>> THEN "total_size" ELSE "send"]
    /\ UNCHANGED <<snapshot, counters, batch, submitted, cvars>>

SendFirst(p) ==
    /\ ppc[p] = "send"
    /\ unsent[p] # <<>>
    /\ channel' = Append(channel, Head(unsent[p]))
    /\ unsent' = [unsent EXCEPT ![p] = <<>>]
    /\ ppc' = [ppc EXCEPT ![p] = "total_size"]
    /\ UNCHANGED <<snapshot, counters, batch, submitted, cvars>>

(* One turn of the send loop. *)
Send(p) ==
    /\ ppc[p] = "send"
    /\ unsent[p] # <<>>
    /\ channel' = Append(channel, Head(unsent[p]))
    /\ unsent' = [unsent EXCEPT ![p] = Tail(unsent[p])]
    /\ ppc' = [ppc EXCEPT ![p] = IF Tail(unsent[p]) = <<>> THEN "total_size" ELSE "send"]
    /\ UNCHANGED <<snapshot, counters, batch, submitted, cvars>>

AddBatchSize(p) ==
    /\ ppc[p] = "total_size"
    /\ total_size' = total_size + BytesOf(batch[p])
    /\ ppc' = [ppc EXCEPT ![p] = "pending"]
    /\ UNCHANGED <<channel, snapshot, pending, revision, batch, unsent, submitted, cvars>>

(* Slip: a batch counts as one item. *)
AddBatchAsOne(p) ==
    /\ ppc[p] = "pending"
    /\ pending' = pending + 1
    /\ ppc' = [ppc EXCEPT ![p] = "revision"]
    /\ UNCHANGED <<channel, snapshot, total_size, revision, batch, unsent, submitted, cvars>>

AddBatchLen(p) ==
    /\ ppc[p] = "pending"
    /\ pending' = pending + Len(batch[p])
    /\ ppc' = [ppc EXCEPT ![p] = "revision"]
    /\ UNCHANGED <<channel, snapshot, total_size, revision, batch, unsent, submitted, cvars>>

BatchQueued(p) ==
    /\ ppc[p] = "revision"
    /\ revision' = revision + 1
    /\ ppc' = [ppc EXCEPT ![p] = "idle"]
    /\ UNCHANGED <<channel, snapshot, total_size, pending, batch, unsent, submitted, cvars>>

Enqueue(p) == \/ \E b \in Batches : ExtendSnapshot(p, b)
              \/ Send(p)
              \/ AddBatchSize(p)
              \/ AddBatchLen(p)
              \/ BatchQueued(p)

-----------------------------------------------------------------------------
(* recv_timeout.  A timeout changes nothing and is not an action.          *)

Take(c) ==
    /\ cpc[c] = "idle"
    /\ channel # <<>>
    /\ channel' = Tail(channel)
    /\ item' = [item EXCEPT ![c] = Head(channel)]
    /\ cpc' = [cpc EXCEPT ![c] = "total_size"]
    /\ taken' = taken \cup {Head(channel)}
    /\ UNCHANGED <<snapshot, counters, pvars>>

(* Slip: the size of a received item stays in total_size. *)
SubNothing(c) ==
    /\ cpc[c] = "total_size"
    /\ cpc' = [cpc EXCEPT ![c] = "pending"]
    /\ UNCHANGED <<channel, snapshot, counters, pvars, item, taken>>

SubItemSize(c) ==
    /\ cpc[c] = "total_size"
    /\ total_size' = total_size - Size[item[c]]
    /\ cpc' = [cpc EXCEPT ![c] = "pending"]
    /\ UNCHANGED <<channel, snapshot, pending, revision, pvars, item, taken>>

SubOne(c) ==
    /\ cpc[c] = "pending"
    /\ pending' = pending - 1
    /\ cpc' = [cpc EXCEPT ![c] = "revision"]
    /\ UNCHANGED <<channel, snapshot, total_size, revision, pvars, item, taken>>

(* Slip: a receive takes a revision back. *)
RevisionBack(c) ==
    /\ cpc[c] = "revision"
    /\ revision' = revision - 1
    /\ cpc' = [cpc EXCEPT ![c] = "snapshot"]
    /\ UNCHANGED <<channel, snapshot, total_size, pending, pvars, item, taken>>

ItemReceived(c) ==
    /\ cpc[c] = "revision"
    /\ revision' = revision + 1
    /\ cpc' = [cpc EXCEPT ![c] = "snapshot"]
    /\ UNCHANGED <<channel, snapshot, total_size, pending, pvars, item, taken>>

(* The mirror loses its front, whichever item that is. *)
PopSnapshot(c) ==
    /\ cpc[c] = "snapshot"
    /\ snapshot' = IF snapshot = <<>> THEN <<>> ELSE Tail(snapshot)
    /\ cpc' = [cpc EXCEPT ![c] = "idle"]
    /\ UNCHANGED <<channel, counters, pvars, item, taken>>

Receive(c) == \/ Take(c)
              \/ SubItemSize(c)
              \/ SubOne(c)
              \/ ItemReceived(c)
              \/ PopSnapshot(c)

-----------------------------------------------------------------------------
Next == \/ \E b \in Batches : RestoreItems(b)
        \/ \E p \in Producers : Enqueue(p)
        \/ \E c \in Consumers : Receive(c)

Spec == Init /\ [][Next]_vars

(* Once enqueue_batch has started it runs to its end, and a worker of the  *)
(* pool keeps calling recv_timeout.                                        *)
Fairness == /\ \A p \in Producers : WF_vars(Send(p) \/ AddBatchSize(p) \/ AddBatchLen(p) \/ BatchQueued(p))
            /\ \A c \in Consumers : WF_vars(Receive(c))

FairSpec == Spec /\ Fairness

-----------------------------------------------------------------------------
(* Vocabulary of the properties.                                           *)

Submitted == UNION {Range(b) : b \in submitted}

(* Items whose batch pending_items does not include yet, and items a       *)
(* worker took that pending_items still includes.                          *)
NotYetCounted ==
    UNION {Range(batch[p]) : p \in {q \in Producers : ppc[q] \in {"send", "total_size", "pending"}}}
StillCounted ==
    {item[c] : c \in {d \in Consumers : cpc[d] \in {"total_size", "pending"}}}

(* Workers between the receive and the pop of the mirror. *)
Popping == {c \in Consumers : cpc[c] # "idle"}

(* No call of enqueue_batch or recv_timeout is under way: the pool is      *)
(* joined and no thread enqueues.                                          *)
Quiescent == /\ \A p \in Producers : ppc[p] = "idle"
             /\ \A c \in Consumers : cpc[c] = "idle"

-----------------------------------------------------------------------------
(* Properties.                                                             *)

(* CounterExact: pending_items is always the number of items of the        *)
(* batches counted so far, less the received items already subtracted,     *)
(* however the steps of enqueue_batch and recv_timeout interleave: no      *)
(* update is lost, and none is made twice.                                 *)
CounterExact ==
    pending = Cardinality(Submitted \ NotYetCounted) - Cardinality(taken \ StillCounted)

(* QuiescentAgreement: when no call is under way, len(), total_size() and  *)
(* the mirror's length agree with what is in the channel.  The main loop   *)
(* and the pool decide by len() and total_size() whether work is left      *)
(* (src/app/mod.rs:211, 335), and the checkpoint is the mirror.            *)
QuiescentAgreement ==
    Quiescent => /\ Length = Len(channel)
                 /\ TotalBytes = BytesOf(channel)
                 /\ Len(snapshot) = Len(channel)

(* EmptyMeansDone: when no call is under way and is_empty() holds, every   *)
(* submitted item has been handed to a worker.  run() deletes the          *)
(* checkpoint on the strength of is_empty().                               *)
EmptyMeansDone == (Quiescent /\ IsEmpty) => Submitted \subseteq taken

(* SnapshotInQueueOrder: when no call is under way, snapshot_items() lists *)
(* the pending items, all of them and in the order the workers will        *)
(* receive them.                                                           *)
SnapshotInQueueOrder == Quiescent => snapshot = channel

(* SnapshotCoversPending: at every moment, each submitted item is in the   *)
(* mirror or was handed to a worker, so a checkpoint written now restores  *)
(* all that is left to do.                                                 *)
SnapshotCoversPending == Submitted \ taken \subseteq Range(snapshot)

(* ImplementsLog: the queue is a PendingLog, with the mirror as the log    *)
(* and the workers that have not popped it yet as the cursor.              *)
Log == INSTANCE PendingLog WITH log <- snapshot, cursor <- Cardinality(Popping),
                                delivered <- taken
ImplementsLog == Log!Spec

(* ImplementsCounted: to the workers the queue is a CountedQueue, with any *)
(* number of threads on either side: each step of enqueue_batch and        *)
(* recv_timeout moves items between the channel and what the count lacks   *)
(* or has too many, and the count moves by just as many.                   *)
Counted == INSTANCE CountedQueue WITH
               Pieces <- {<<i>> : i \in Items},
               ahead  <- NotYetCounted \ UNION {Range(unsent[p]) : p \in Producers},
               behind <- StillCounted
ImplementsCounted == Counted!Spec

(* DeliveredEventually: with workers that keep receiving, every submitted  *)
(* item reaches one, and the counters then come back to zero.              *)
DeliveredEventually ==
    /\ \A i \in Items : (i \in Submitted) ~> (i \in taken)
    /\ []<>(Quiescent /\ IsEmpty)
=============================================================================
