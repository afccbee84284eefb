-------------------------- MODULE SpaceReservation --------------------------
(***************************************************************************)
(* The space checks of src/worker/space.rs, on one filesystem: before a    *)
(* worker copies a file it reserves the file's bytes in a map the pool     *)
(* shares, if what the filesystem had available when the worker last       *)
(* probed it, less what is reserved, covers them and a safety margin.      *)
(* Each worker keeps its probe and renews it after SPACE_RECHECK_BYTES of  *)
(* reservations or SPACE_RECHECK_INTERVAL_MS.                              *)
(*                                                                         *)
(* The probe is not taken under the mutex of the reservations; copying and *)
(* releasing go on between the two.  No other program writes to the        *)
(* filesystem, and no item's destination replaces another file.            *)
(*                                                                         *)
(* One reservation covers all attempts at a file (src/transfer/copy.rs).   *)
(* They may take more than was reserved: the destination of an attempt     *)
(* that failed its verification stays while the next one writes its own    *)
(* temporary file, a source may have grown since it was queued, and a      *)
(* temporary file may turn out not to be removable.                        *)
(*                                                                         *)
(* Before the batch src/app/preflight.rs compares the sum of what is       *)
(* queued with what is available.  What the mount watcher queues during    *)
(* the batch goes to the workers without that comparison.                  *)
(***************************************************************************)
EXTENDS Integers, Sequences, FiniteSets, Functions

CONSTANTS
    Workers,
    Sizes,      \* sizes of the files, in units
    Capacity,   \* what the filesystem has available to begin with
    Margin,     \* LOW_SPACE_GUARD_MARGIN_BYTES
    Recheck,    \* SPACE_RECHECK_BYTES
    MaxFiles,   \* bound on the files that are queued before the batch
    MaxLate,    \* bound on the files the watcher queues during it
    MaxExcess   \* bound on the times a transfer takes more than it reserved

ASSUME SpaceAssumption ==
    /\ IsFiniteSet(Workers) /\ Sizes \subseteq Nat
    /\ Capacity \in Nat /\ Margin \in Nat /\ Recheck \in Nat /\ MaxFiles \in Nat
    /\ MaxLate \in Nat /\ MaxExcess \in Nat

VARIABLES
    available,      \* bytes the filesystem has available
    reserved,       \* the filesystem's entry in space_reservations; 0 when there is none
    probe, until,   \* each worker's SpaceProbeCacheEntry: available (-1: none), bytes_until_recheck
    pc, bytes,      \* each worker's next step, and the size of its file
    written, kept,  \* the bytes of its temporary file, and of a destination that failed
                    \* the verification of an earlier attempt
    phase,          \* the batch: collected, compared, transferred, or refused
    channel,        \* the sizes of the files queued, in order
    late,           \* files the watcher has queued
    stale,          \* history: space was reserved on a probe that was out of date
    outgrown,       \* history: bytes that transfers left beyond their reservations
    excess,         \* history: how often a transfer began to take more than it reserved
    full            \* history: a copy found the filesystem full before its size was written

cache == <<probe, until>>
batch == <<phase, channel, late>>
disk  == <<written, kept, outgrown, excess>>
vars  == <<available, reserved, cache, pc, bytes, disk, batch, stale, full>>

Holds(w) == pc[w] \in {"copy", "release"}

TypeOK ==
    /\ available \in 0..Capacity /\ reserved \in Nat
    /\ probe \in [Workers -> Nat \cup {-1}] /\ until \in [Workers -> 0..Recheck]
    /\ pc \in [Workers -> {"idle", "probe", "reserve", "copy", "release", "stopped"}]
    /\ bytes \in [Workers -> Sizes \cup {0}]
    /\ written \in [Workers -> Nat] /\ kept \in [Workers -> Nat]
    /\ outgrown \in Nat /\ excess \in 0..MaxExcess
    /\ phase \in {"queue", "transfer", "refused"}
    /\ channel \in Seq(Sizes) /\ late \in 0..MaxLate
    /\ stale \in BOOLEAN /\ full \in BOOLEAN

Init ==
    /\ available = Capacity /\ reserved = 0
    /\ probe = [w \in Workers |-> -1] /\ until = [w \in Workers |-> 0]
    /\ pc = [w \in Workers |-> "idle"] /\ bytes = [w \in Workers |-> 0]
    /\ written = [w \in Workers |-> 0] /\ kept = [w \in Workers |-> 0]
    /\ outgrown = 0 /\ excess = 0
    /\ phase = "queue" /\ channel = <<>> /\ late = 0
    /\ stale = FALSE /\ full = FALSE

Minus(a, b) == IF a < b THEN 0 ELSE a - b     \* saturating_sub
Set(f, w, x) == [f EXCEPT ![w] = x]

-----------------------------------------------------------------------------
(* Before the batch, and around it.                                        *)

Total(q) == FoldFunction(+, 0, q)

Queue(n) ==
    /\ phase = "queue" /\ Len(channel) < MaxFiles
    /\ channel' = Append(channel, n)
    /\ UNCHANGED <<available, reserved, cache, pc, bytes, disk, phase, late, stale, full>>

(* Slip: every file is compared by itself. *)
EachFits == \A i \in DOMAIN channel : channel[i] <= available

(* preflight_pending_destinations, without the margin of the reservations. *)
PreflightFits == Total(channel) <= available

Preflight ==
    /\ phase = "queue" /\ channel # <<>>
    /\ phase' = IF PreflightFits THEN "transfer" ELSE "refused"
    /\ UNCHANGED <<available, reserved, cache, pc, bytes, disk, channel, late, stale, full>>

WatcherQueues(n) ==
    /\ phase = "transfer" /\ late < MaxLate
    /\ channel' = Append(channel, n)
    /\ late' = late + 1
    /\ UNCHANGED <<available, reserved, cache, pc, bytes, disk, phase, stale, full>>

-----------------------------------------------------------------------------
(* reserve_destination_space.                                              *)

(* A worker may take a file after another has asked the pool to stop.      *)
TakeFile(w) ==
    /\ phase = "transfer" /\ pc[w] = "idle"
    /\ channel # <<>>
    /\ channel' = Tail(channel)
    /\ bytes' = Set(bytes, w, Head(channel))
    /\ pc' = Set(pc, w, "probe")
    /\ UNCHANGED <<available, reserved, cache, disk, phase, late, stale, full>>

(* The interval may have elapsed at any time. *)
Probe(w) ==
    /\ pc[w] = "probe"
    /\ probe' = Set(probe, w, available)
    /\ until' = Set(until, w, Recheck)
    /\ pc' = Set(pc, w, "reserve")
    /\ UNCHANGED <<available, reserved, bytes, disk, batch, stale, full>>

KeepProbe(w) ==
    /\ pc[w] = "probe"
    /\ probe[w] # -1 /\ until[w] >= bytes[w]
    /\ pc' = Set(pc, w, "reserve")
    /\ UNCHANGED <<available, reserved, cache, bytes, disk, batch, stale, full>>

(* Slip: what the others reserved is not looked at. *)
FitsAlone(w) == probe[w] >= bytes[w] + Margin

(* Under the mutex. *)
Fits(w) == Minus(probe[w], reserved) >= bytes[w] + Margin

(* Slip: bytes_until_recheck is not saturated. *)
ReserveUnsaturated(w) ==
    /\ pc[w] = "reserve"
    /\ Fits(w)
    /\ reserved' = reserved + bytes[w]
    /\ until' = Set(until, w, until[w] - bytes[w])
    /\ pc' = Set(pc, w, "copy")
    /\ stale' = (stale \/ probe[w] # available)
    /\ UNCHANGED <<available, probe, bytes, disk, batch, full>>

Reserve(w) ==
    /\ pc[w] = "reserve"
    /\ Fits(w)
    /\ reserved' = reserved + bytes[w]
    /\ until' = Set(until, w, Minus(until[w], bytes[w]))
    /\ pc' = Set(pc, w, "copy")
    /\ stale' = (stale \/ probe[w] # available)
    /\ UNCHANGED <<available, probe, bytes, disk, batch, full>>

(* Low disk space: the worker stops the pool. *)
Refuse(w) ==
    /\ pc[w] = "reserve"
    /\ ~Fits(w)
    /\ pc' = Set(pc, w, "stopped")
    /\ UNCHANGED <<available, reserved, cache, bytes, disk, batch, stale, full>>

(* The filesystem cannot be inspected, which stops the pool too.           *)
InspectFails(w) ==
    /\ pc[w] = "probe"
    /\ pc' = Set(pc, w, "stopped")
    /\ UNCHANGED <<available, reserved, cache, bytes, disk, batch, stale, full>>

-----------------------------------------------------------------------------
(* The attempts at a file, and release_reserved_space after the last.       *)

Exceeds == excess < MaxExcess /\ excess' = excess + 1

Write(w) ==
    /\ pc[w] = "copy"
    /\ available > 0
    /\ IF written[w] < bytes[w] THEN UNCHANGED excess ELSE Exceeds
    /\ written' = Set(written, w, written[w] + 1)
    /\ available' = available - 1
    /\ UNCHANGED <<reserved, cache, pc, bytes, kept, outgrown, batch, stale, full>>

(* The rename frees the destination of an earlier attempt.  The source may *)
(* have shrunk since it was queued, or grown.  So ends a verification that *)
(* fails for the last time, too. *)
Copied(w) ==
    /\ pc[w] = "copy"
    /\ available' = available + kept[w]
    /\ outgrown' = outgrown + Minus(written[w], bytes[w])
    /\ written' = Set(written, w, 0) /\ kept' = Set(kept, w, 0)
    /\ pc' = Set(pc, w, "release")
    /\ UNCHANGED <<reserved, cache, bytes, excess, batch, stale, full>>

(* The destination stays, and the next attempt writes beside it. *)
VerifyFails(w) ==
    /\ pc[w] = "copy"
    /\ Exceeds
    /\ available' = available + kept[w]
    /\ kept' = Set(kept, w, written[w]) /\ written' = Set(written, w, 0)
    /\ UNCHANGED <<reserved, cache, pc, bytes, outgrown, batch, stale, full>>

(* A failed attempt: `stays' is left of its temporary file, all of it if   *)
(* it cannot be removed, and `keeps' of an earlier destination, nothing if *)
(* that was removed for a rename that failed again. *)
Fails(w, stays, keeps) ==
    /\ pc[w] = "copy"
    /\ IF stays = 0 THEN UNCHANGED excess ELSE Exceeds
    /\ full' = (full \/ (available = 0 /\ written[w] < bytes[w]))
    /\ available' = available + (written[w] - stays) + (kept[w] - keeps)
    /\ written' = Set(written, w, 0)
    /\ UNCHANGED <<reserved, cache, batch, stale>>

(* Another attempt follows. *)
AttemptFails(w) ==
    \E stays \in {0, written[w]}, keeps \in {0, kept[w]} :
        /\ Fails(w, stays, keeps)
        /\ kept' = Set(kept, w, keeps)
        /\ outgrown' = outgrown + stays
        /\ UNCHANGED <<pc, bytes>>

(* Slip: a failed copy keeps its reservation. *)
FailsUnreleased(w) ==
    \E stays \in {0, written[w]}, keeps \in {0, kept[w]} :
        /\ Fails(w, stays, keeps)
        /\ kept' = Set(kept, w, 0)
        /\ outgrown' = outgrown + Minus(stays + keeps, bytes[w])
        /\ bytes' = Set(bytes, w, 0)
        /\ pc' = Set(pc, w, "idle")

(* The last attempt fails. *)
CopyFails(w) ==
    \E stays \in {0, written[w]}, keeps \in {0, kept[w]} :
        /\ Fails(w, stays, keeps)
        /\ kept' = Set(kept, w, 0)
        /\ outgrown' = outgrown + Minus(stays + keeps, bytes[w])
        /\ pc' = Set(pc, w, "release")
        /\ UNCHANGED bytes

Release(w) ==
    /\ pc[w] = "release"
    /\ reserved' = Minus(reserved, bytes[w])
    /\ bytes' = Set(bytes, w, 0)
    /\ pc' = Set(pc, w, "idle")
    /\ UNCHANGED <<available, cache, disk, batch, stale, full>>

Next == \/ Preflight
        \/ \E n \in Sizes : Queue(n) \/ WatcherQueues(n)
        \/ \E w \in Workers :
            \/ TakeFile(w)
            \/ Probe(w) \/ KeepProbe(w) \/ InspectFails(w) \/ Reserve(w) \/ Refuse(w)
            \/ Write(w) \/ Copied(w) \/ VerifyFails(w) \/ AttemptFails(w) \/ CopyFails(w)
            \/ Release(w)

Spec == Init /\ [][Next]_vars

-----------------------------------------------------------------------------
(* Properties.                                                             *)

(* ReservedExact: the map holds the bytes of the transfers under way, no   *)
(* more and no less, whichever of them fail: no reservation leaks into the *)
(* next transfers, and none is given back twice.                           *)
ReservedExact ==
    reserved = SumFunction([w \in {v \in Workers : Holds(v)} |-> bytes[w]])

(* MarginKept: as long as every reservation was made on a probe that was   *)
(* still true, the safety margin is left over when everything reserved has *)
(* been written, less only what transfers took beyond their reservations:  *)
(* outgrown by those that ended, and a negative term for one under way.    *)
MarginKept ==
    ~stale /\ (\E w \in Workers : Holds(w)) =>
        available + outgrown >= Margin + SumFunction([w \in {v \in Workers : pc[v] = "copy"} |->
                                                          bytes[w] - written[w] - kept[w]])

(* FullOnlyLate: a transfer finds the filesystem full before it has        *)
(* written its file's size only if some transfer took more than it had     *)
(* reserved, or if the watcher queued files the preflight check has not    *)
(* seen and a reservation was made on a probe out of date: each of the two *)
(* checks makes up for the other. *)
FullOnlyLate == full => excess > 0 \/ (late > 0 /\ stale)
=============================================================================
