---------------------------- MODULE CountedQueue ----------------------------
(***************************************************************************)
(* What the worker pool can rely on in the queue: a channel that hands out *)
(* each item once, in the order of the sends, and a count that follows the *)
(* channel item by item.                                                   *)
(*                                                                         *)
(* The count may be late in both directions: ahead holds items that were   *)
(* sent and are not counted yet, behind items that were taken and are      *)
(* still counted.  An item may be in both.                                 *)
(***************************************************************************)
EXTENDS Integers, Sequences, Functions

CONSTANTS
    Pieces,    \* the sequences of items that may be sent in one step
    Batches    \* those that may be counted in one step

VARIABLES channel, pending, ahead, behind

vars == <<channel, pending, ahead, behind>>

Init == pending = Len(channel) /\ ahead = {} /\ behind = {}

(* A queue that was never used is filled from a checkpoint. *)
Restore ==
    /\ channel = <<>> /\ pending = 0 /\ ahead = {} /\ behind = {}
    /\ pending' = Len(channel')
    /\ UNCHANGED <<ahead, behind>>

Send(s) ==
    /\ Range(s) \cap (Range(channel) \cup ahead \cup behind) = {}
    /\ channel' = channel \o s
    /\ ahead' = ahead \cup Range(s)
    /\ UNCHANGED <<pending, behind>>

CountSent(b) ==
    /\ Range(b) \subseteq ahead
    /\ pending' = pending + Len(b)
    /\ ahead' = ahead \ Range(b)
    /\ UNCHANGED <<channel, behind>>

Take ==
    /\ channel # <<>> /\ Head(channel) \notin behind
    /\ channel' = Tail(channel)
    /\ behind' = behind \cup {Head(channel)}
    /\ UNCHANGED <<pending, ahead>>

CountTaken(i) ==
    /\ pending' = pending - 1
    /\ behind' = behind \ {i}
    /\ UNCHANGED <<channel, ahead>>

Next == \/ Restore
        \/ \E s \in Pieces : Send(s)
        \/ \E b \in Batches : CountSent(b)
        \/ Take
        \/ \E i \in behind : CountTaken(i)

Spec == Init /\ [][Next]_vars
=============================================================================
