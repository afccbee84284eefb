----------------------------- MODULE PendingLog -----------------------------
(***************************************************************************)
(* What TransferQueue promises the rest of the program: a log of pending   *)
(* items that a checkpoint can be written from at any moment.              *)
(*                                                                         *)
(* Batches are appended to the log.  Items are delivered to the workers in *)
(* log order, each once; cursor counts the delivered items that the log    *)
(* still holds.  Only a delivered item leaves the log, oldest first: a     *)
(* session that restarts from the log redoes at most the transfers under   *)
(* way and misses nothing.                                                 *)
(***************************************************************************)
EXTENDS Integers, Sequences, Functions

CONSTANT Batches   \* the batches that may be appended

VARIABLES log, cursor, submitted, delivered

vars == <<log, cursor, submitted, delivered>>

Init == log = <<>> /\ cursor = 0 /\ submitted = {} /\ delivered = {}

Submit(b) ==
    /\ b \notin submitted
    /\ log' = log \o b
    /\ submitted' = submitted \cup {b}
    /\ UNCHANGED <<cursor, delivered>>

Deliver ==
    /\ cursor < Len(log)
    /\ delivered' = delivered \cup {log[cursor + 1]}
    /\ cursor' = cursor + 1
    /\ UNCHANGED <<log, submitted>>

Retire ==
    /\ cursor > 0
    /\ log' = Tail(log)
    /\ cursor' = cursor - 1
    /\ UNCHANGED <<submitted, delivered>>

Next == (\E b \in Batches : Submit(b)) \/ Deliver \/ Retire

Spec == Init /\ [][Next]_vars
=============================================================================
