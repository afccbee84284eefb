----------------------------- MODULE UpdateMode -----------------------------
(***************************************************************************)
(* Update mode (src/queue.rs): a run queues a file of a mapped folder only *)
(* if the destination differs from it in size, or the two modification     *)
(* times are apart.  Over several runs, with an owner who edits the files  *)
(* at any moment, this decides whether the copies stay up to date.         *)
(*                                                                         *)
(* A copy does not carry over the modification time of its source, so a    *)
(* destination has the time of the copy, in the resolution of its          *)
(* filesystem (two seconds on FAT).  Time is counted in half seconds.      *)
(*                                                                         *)
(* The copy is src/transfer/copy.rs, which CopyFile has in detail: a small *)
(* file is read to its end, a large one, where the kernel copies it, only  *)
(* to the size it had when the walk came by.                               *)
(***************************************************************************)
EXTENDS Integers, FiniteSets

CONSTANTS
    Files,
    Sizes,
    Tolerance,      \* UPDATE_MTIME_TOLERANCE_SECS
    Threshold,      \* COPY_FILE_RANGE_THRESHOLD
    Granularity,    \* resolution of the destination's times, in half seconds
    None,           \* no file
    MaxTime,        \* bound on the clock
    MaxEdits,       \* bound on the owner's changes
    MaxRuns         \* bound on the runs

(* data tells contents apart; a file with the same data has the same size, *)
(* but for Cut, which stands for the first part of some source's. *)
Meta == [data : Nat, size : Sizes, mtime : 0..MaxTime]
Cut  == MaxEdits + 1

ASSUME UpdateAssumption ==
    /\ IsFiniteSet(Files) /\ Sizes \subseteq Nat /\ Threshold \in Nat
    /\ Tolerance \in Nat /\ Granularity \in Nat \ {0}
    /\ MaxTime \in Nat /\ MaxEdits \in Nat /\ MaxRuns \in Nat
    /\ None \notin Meta

VARIABLES
    now,            \* the clock
    src, dst,       \* each source, and its destination or None
    pc, runs,       \* the run's next step; how many runs were started
    update_mode,    \* the user's answer in this run
    todo,           \* files the directory walk has yet to visit
    queued,         \* the batch, then what the workers have yet to copy
    item_size,      \* the size of each queued file as of the walk
    reading,        \* what a copy under way has read, or None
    edits,
    written,        \* history: when each destination was completed
    current         \* history: files a run skipped or copied, and nobody changed since

env  == <<now, edits>>
run  == <<pc, runs, update_mode, todo>>
vars == <<env, src, dst, run, queued, item_size, reading, written, current>>

TypeOK ==
    /\ now \in 0..MaxTime /\ edits \in 0..MaxEdits
    /\ src \in [Files -> Meta] /\ dst \in [Files -> Meta \cup {None}]
    /\ pc \in {"idle", "walk", "copy"} /\ runs \in 0..MaxRuns /\ update_mode \in BOOLEAN
    /\ todo \subseteq Files /\ queued \subseteq Files /\ (pc = "idle" => queued = {})
    /\ item_size \in [queued -> Sizes]
    /\ reading \in [Files -> Meta \cup {None}]
    /\ \A f \in Files : reading[f] # None => f \in queued
    /\ written \in [Files -> 0..MaxTime] /\ current \subseteq Files

Init ==
    /\ now = 0 /\ edits = 0
    /\ src \in [Files -> [data : {0}, size : Sizes, mtime : {0}]]
    /\ dst = [f \in Files |-> None]
    /\ pc = "idle" /\ runs = 0 /\ update_mode = FALSE
    /\ todo = {} /\ queued = {} /\ item_size = [f \in {} |-> 0]
    /\ reading = [f \in Files |-> None]
    /\ written = [f \in Files |-> 0] /\ current = {}

Distance(s, t) == IF s >= t THEN s - t ELSE t - s
Seconds(t) == t \div 2                              \* Duration::as_secs
Stored(t) == t - (t % Granularity)

-----------------------------------------------------------------------------
(* The policy.                                                             *)

(* Slip: a source that is older than the destination counts as unchanged.  *)
OlderIsClose(s, t) == s <= t \/ Seconds(s - t) <= Tolerance

mtime_close_enough(s, t) == Seconds(Distance(s, t)) <= Tolerance

destination_is_unchanged(f) ==
    /\ dst[f] # None
    /\ src[f].size = dst[f].size
    /\ mtime_close_enough(src[f].mtime, dst[f].mtime)

-----------------------------------------------------------------------------
(* A run: the walk decides file by file, the batch is queued once it has   *)
(* ended, and the workers copy what is queued.                             *)

StartRun ==
    /\ pc = "idle"
    /\ runs < MaxRuns
    /\ runs' = runs + 1
    /\ update_mode' \in BOOLEAN
    /\ todo' = Files /\ current' = {}
    /\ pc' = "walk"
    /\ UNCHANGED <<env, src, dst, queued, item_size, reading, written>>

Skip(f) ==
    /\ pc = "walk" /\ f \in todo
    /\ update_mode /\ destination_is_unchanged(f)
    /\ todo' = todo \ {f}
    /\ current' = current \cup {f}
    /\ UNCHANGED <<env, src, dst, pc, runs, update_mode, queued, item_size, reading, written>>

Collect(f) ==
    /\ pc = "walk" /\ f \in todo
    /\ ~(update_mode /\ destination_is_unchanged(f))
    /\ todo' = todo \ {f}
    /\ queued' = queued \cup {f}
    /\ item_size' = [g \in queued' |-> IF g = f THEN src[f].size ELSE item_size[g]]
    /\ UNCHANGED <<env, src, dst, pc, runs, update_mode, reading, written, current>>

BatchQueued ==
    /\ pc = "walk" /\ todo = {}
    /\ pc' = IF queued = {} THEN "idle" ELSE "copy"
    /\ UNCHANGED <<env, src, dst, runs, update_mode, todo, queued, item_size, reading, written,
                   current>>

(* Slip: what was collected before the error is kept. *)
WalkFailsLate ==
    /\ pc = "walk" /\ todo # {}
    /\ todo' = {} /\ pc' = "idle"
    /\ UNCHANGED <<env, src, dst, runs, update_mode, queued, item_size, reading, written, current>>

(* An entry that cannot be read fails the whole folder: nothing is queued. *)
WalkFails ==
    /\ pc = "walk" /\ todo # {}
    /\ todo' = {} /\ queued' = {} /\ item_size' = [f \in {} |-> 0]
    /\ pc' = "idle"
    /\ UNCHANGED <<env, src, dst, runs, update_mode, reading, written, current>>

(* copy_file_range is told how much to copy.                               *)
Prefix(f) == [src[f] EXCEPT !.data = Cut, !.size = item_size[f]]

(* The source is read as it is now: to its end, or, if it is large and has *)
(* grown since the walk, to the end it had then. *)
StartCopy(f) ==
    /\ pc = "copy" /\ f \in queued /\ reading[f] = None
    /\ \/ reading' = [reading EXCEPT ![f] = src[f]]
       \/ /\ item_size[f] >= Threshold /\ item_size[f] < src[f].size
          /\ reading' = [reading EXCEPT ![f] = Prefix(f)]
    /\ current' = current \cup {f}
    /\ UNCHANGED <<env, src, dst, run, queued, item_size, written>>

LeavesQueue(f) ==
    /\ queued' = queued \ {f}
    /\ item_size' = [g \in queued' |-> item_size[g]]
    /\ reading' = [reading EXCEPT ![f] = None]
    /\ pc' = IF queued = {f} THEN "idle" ELSE "copy"
    /\ UNCHANGED <<runs, update_mode, todo>>

CopyEnds(f) ==
    /\ pc = "copy" /\ reading[f] # None
    /\ dst' = [dst EXCEPT ![f] = [reading[f] EXCEPT !.mtime = Stored(now)]]
    /\ written' = [written EXCEPT ![f] = now]
    /\ LeavesQueue(f)
    /\ UNCHANGED <<env, src, current>>

(* The old destination stays.  So ends a large source that has shrunk. *)
CopyFails(f) ==
    /\ pc = "copy" /\ reading[f] # None
    /\ current' = current \ {f}
    /\ LeavesQueue(f)
    /\ UNCHANGED <<env, src, dst, written>>

-----------------------------------------------------------------------------
(* The owner of the files.                                                 *)

Tick ==
    /\ now < MaxTime
    /\ now' = now + 1
    /\ UNCHANGED <<edits, src, dst, run, queued, item_size, reading, written, current>>

(* An edit leaves the time of the edit; a file put in the place of another *)
(* may bring an older time with it.                                        *)
Change(f, n, t) ==
    /\ edits < MaxEdits
    /\ edits' = edits + 1
    /\ src' = [src EXCEPT ![f] = [data |-> edits + 1, size |-> n, mtime |-> t]]
    /\ current' = current \ {f}
    /\ UNCHANGED <<now, dst, run, queued, item_size, reading, written>>

Next ==
    \/ StartRun \/ BatchQueued \/ WalkFails
    \/ \E f \in Files : Skip(f) \/ Collect(f) \/ StartCopy(f) \/ CopyEnds(f) \/ CopyFails(f)
    \/ Tick
    \/ \E f \in Files, n \in Sizes, t \in {0, now} : Change(f, n, t)

Spec == Init /\ [][Next]_vars

-----------------------------------------------------------------------------
(* Properties.                                                             *)

(* UpToDate: after a run has skipped or copied a file the destination      *)
(* holds what the source holds, as long as nobody changes the source, with *)
(* two exceptions.  A source of the same size may have been taken for      *)
(* unchanged: its time is less than a second beyond the tolerance (as_secs *)
(* truncates), and the resolution of the destination's times, from the     *)
(* moment its older copy was made.  And a large source that grew between   *)
(* the walk and its copy may have been cut to the size it had at the walk; *)
(* its destination is shorter, which the next update run sees. *)
UpToDate ==
    \A f \in current :
        reading[f] = None =>
            /\ dst[f] # None
            /\ \/ dst[f].data = src[f].data
               \/ /\ dst[f].size = src[f].size
                  /\ Distance(src[f].mtime, written[f]) < 2 * (Tolerance + 1) + Granularity - 1
               \/ /\ dst[f].data = Cut
                  /\ Threshold <= dst[f].size /\ dst[f].size < src[f].size

(* UnchangedIsSkipped: in update mode a file that was copied before and    *)
(* has not changed since is not queued again.                              *)
UnchangedIsSkipped ==
    [][\A f \in Files :
          Collect(f) /\ update_mode /\ dst[f] # None => dst[f].data # src[f].data]_vars
=============================================================================
