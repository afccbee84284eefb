------------------------------ MODULE CopyFile ------------------------------
(***************************************************************************)
(* copy_file_optimized of src/transfer, and what the worker does with its  *)
(* result: attempts that copy into a temporary file, by copy_file_range or *)
(* by reading to the end of the source, and rename it over the             *)
(* destination; verification; the rollback of the bytes a failed attempt   *)
(* had counted; and the removal of the source in delete mode.              *)
(*                                                                         *)
(* Each worker copies one file; two may copy the same one, for two devices *)
(* with the same mapping.  A destination is a directory joined with the    *)
(* name of a mapped source (src/queue.rs): the files of two sources of one *)
(* name have the same destination, which is the last one's.  Attempts at   *)
(* one destination at the same nanosecond, which would share their         *)
(* temporary file too, are left out.                                       *)
(*                                                                         *)
(* The workers share the byte counter copied_bytes; every action makes at  *)
(* most one access to it.  Contents are sequences of units.  The size of a *)
(* file was read when it was queued: its owner may change it before and    *)
(* during the copy.  The disk may fail any operation, the removal of a     *)
(* temporary file too, and may write a unit wrong without saying so.       *)
(***************************************************************************)
EXTENDS Integers, Sequences, FiniteSets, Functions

CONSTANTS
    Workers, Files, Dests,
    Assignments,       \* which source and destination each worker's item may have
    Existing,          \* the destinations that exist already
    Size,              \* Size[f]: the size of f when it was queued, in units
    Threshold,         \* COPY_FILE_RANGE_THRESHOLD
    VerifyLimit,       \* VERIFICATION_SIZE_LIMIT
    Verify,            \* the user wants verification
    DeleteMode,        \* cleanup_mode = "delete"
    MaxRetries,        \* MAX_RETRIES
    OwnerIntrudes,     \* an owner may change a source while it is being copied
    MaxRefusals,       \* bound on the temporary files the disk refuses to remove
    NoFile, OldFile    \* there is no file; the file the destination had before

ASSUME CopyAssumption ==
    /\ IsFiniteSet(Workers) /\ Existing \subseteq Dests
    /\ Assignments \subseteq [from : [Workers -> Files], to : [Workers -> Dests]]
    /\ Size \in [Files -> Nat] /\ MaxRetries \in Nat
    /\ Verify \in BOOLEAN /\ DeleteMode \in BOOLEAN /\ OwnerIntrudes \in BOOLEAN

VARIABLES
    from, to,             \* the source and the destination of each worker's item
    source, removed,      \* the content of each source; the sources that were deleted
    temp,                 \* the temporary file of each worker's attempt
    parts,                \* how many temporary files of its item are on the disk
    dest,                 \* the content of each destination
    copied_bytes,         \* io_bytes of the pool
    progress,             \* position of the file's progress bar
    pending_bytes,        \* read, but not counted in the two above yet
    zero_copy,            \* use_copy_file_range
    attempt,
    pc, next,             \* next step, and the one after a rollback
    result,
    change,               \* history: what the owner did to each source
    last,                 \* history: the worker that last changed each destination
    refused               \* history: the temporary files of its item the disk refused to remove

sources == <<from, to, source, removed>>
temps   == <<temp, parts, refused>>
dests   == <<dest, last>>
files   == <<sources, temps, dests>>
counts  == <<copied_bytes, progress, pending_bytes>>
control == <<zero_copy, attempt, next, result>>
vars    == <<files, counts, control, pc, change>>

Units     == Files \cup {"new", "bad"}      \* a file's own units bear its name
IsFile(f) == f \notin {NoFile, OldFile}

TypeOK ==
    /\ [from |-> from, to |-> to] \in Assignments
    /\ source \in [Files -> Seq(Units)] /\ removed \subseteq Files
    /\ temp \in [Workers -> {NoFile} \cup Seq(Units)] /\ parts \in [Workers -> Nat]
    /\ dest \in [Dests -> {NoFile, OldFile} \cup Seq(Units)]
    /\ copied_bytes \in Nat
    /\ progress \in [Workers -> Nat] /\ pending_bytes \in [Workers -> Nat]
    /\ zero_copy \in [Workers -> BOOLEAN] /\ attempt \in [Workers -> 0..MaxRetries]
    /\ pc \in [Workers -> {"open", "copy", "finalize", "verify", "rollback", "remove", "end"}]
    /\ next \in [Workers -> {"open", "retry"}]
    /\ result \in [Workers -> {"none", "ok", "error"}]
    /\ change \in [Files -> {"none", "grown", "shrunk", "rewritten"}]
    /\ last \in [Dests -> Workers \cup {NoFile}] /\ refused \in [Workers -> Nat]

SizeOf(w)  == Size[from[w]]
Content(w) == source[from[w]]

(* An open file can be read after it was deleted, but not opened again.    *)
Exists(w)  == from[w] \notin removed
Steady(w)  == change[from[w]] = "none"

CanVerify(w) == Verify /\ SizeOf(w) <= VerifyLimit

Original(f) == [k \in 1..Size[f] |-> f]

Init ==
    /\ \E a \in Assignments : from = a.from /\ to = a.to
    /\ source = [f \in Files |-> Original(f)] /\ removed = {}
    /\ temp = [w \in Workers |-> NoFile] /\ parts = [w \in Workers |-> 0]
    /\ dest = [d \in Dests |-> IF d \in Existing THEN OldFile ELSE NoFile]
    /\ copied_bytes = 0
    /\ progress = [w \in Workers |-> 0] /\ pending_bytes = [w \in Workers |-> 0]
    /\ zero_copy = [w \in Workers |-> SizeOf(w) >= Threshold]
    /\ attempt = [w \in Workers |-> 0]
    /\ pc = [w \in Workers |-> "open"] /\ next = [w \in Workers |-> "retry"]
    /\ result = [w \in Workers |-> "none"]
    /\ change = [f \in Files |-> "none"]
    /\ last = [d \in Dests |-> NoFile] /\ refused = [w \in Workers |-> 0]

Set(f, w, x) == [f EXCEPT ![w] = x]
Count(w, n) == /\ copied_bytes' = copied_bytes + n
               /\ progress' = Set(progress, w, progress[w] + n)

-----------------------------------------------------------------------------
(* One attempt: copy_attempt with copy_file_copy_file_range or             *)
(* copy_file_iocopy.                                                       *)

Open(w) ==
    /\ pc[w] = "open"
    /\ Exists(w)
    /\ temp' = Set(temp, w, <<>>) /\ parts' = Set(parts, w, parts[w] + 1)
    /\ pending_bytes' = Set(pending_bytes, w, 0)
    /\ pc' = Set(pc, w, "copy")
    /\ UNCHANGED <<sources, dests, refused, copied_bytes, progress, control, change>>

(* Only the name of the temporary file is forgotten if the disk refuses to *)
(* remove it: the next attempt takes another. *)
RemoveTemp(w) ==
    /\ temp' = Set(temp, w, NoFile)
    /\ \/ /\ parts' = Set(parts, w, IF pc[w] = "open" THEN parts[w] ELSE parts[w] - 1)
          /\ UNCHANGED refused
       \/ /\ pc[w] # "open" /\ SumFunction(refused) < MaxRefusals
          /\ refused' = Set(refused, w, refused[w] + 1)
          /\ UNCHANGED parts

(* The next unit of the source, and whether it is written right. *)
WriteUnit(w) ==
    \E u \in {Content(w)[Len(temp[w]) + 1], "bad"} : temp' = Set(temp, w, Append(temp[w], u))

(* copy_file_range copies the bytes the queue knew of, and counts each     *)
(* chunk at once. *)
CopyRange(w) ==
    /\ pc[w] = "copy" /\ zero_copy[w]
    /\ Len(temp[w]) < SizeOf(w) /\ Len(temp[w]) < Len(Content(w))
    /\ WriteUnit(w)
    /\ Count(w, 1)
    /\ UNCHANGED <<sources, parts, refused, dests, pending_bytes, control, pc, change>>

(* Slip: the last unit is left out. *)
RangeShort(w) ==
    /\ pc[w] = "copy" /\ zero_copy[w]
    /\ Len(temp[w]) >= SizeOf(w) - 1
    /\ pc' = Set(pc, w, "finalize")
    /\ UNCHANGED <<files, counts, control, change>>

RangeCopied(w) ==
    /\ pc[w] = "copy" /\ zero_copy[w]
    /\ Len(temp[w]) = SizeOf(w)
    /\ pc' = Set(pc, w, "finalize")
    /\ UNCHANGED <<files, counts, control, change>>

(* Slip: the bytes copied by copy_file_range stay counted. *)
UnavailableUnrolled(w) ==
    /\ pc[w] = "copy" /\ zero_copy[w]
    /\ Len(temp[w]) < SizeOf(w)
    /\ RemoveTemp(w)
    /\ zero_copy' = Set(zero_copy, w, FALSE)
    /\ pc' = Set(pc, w, "open")
    /\ UNCHANGED <<sources, dests, counts, attempt, next, result, change>>

(* EINVAL, ENOSYS or EXDEV: the same attempt goes on without zero-copy. *)
ZeroCopyUnavailable(w) ==
    /\ pc[w] = "copy" /\ zero_copy[w]
    /\ Len(temp[w]) < SizeOf(w)
    /\ RemoveTemp(w)
    /\ zero_copy' = Set(zero_copy, w, FALSE)
    /\ pc' = Set(pc, w, "rollback") /\ next' = Set(next, w, "open")
    /\ UNCHANGED <<sources, dests, counts, attempt, result, change>>

(* ProgressReader counts what it has read when enough has been read or     *)
(* enough time has passed ... *)
ReadUnit(w) ==
    /\ pc[w] = "copy" /\ ~zero_copy[w]
    /\ Len(temp[w]) < Len(Content(w))
    /\ WriteUnit(w)
    /\ \/ /\ pending_bytes' = Set(pending_bytes, w, pending_bytes[w] + 1)
          /\ UNCHANGED <<copied_bytes, progress>>
       \/ /\ Count(w, pending_bytes[w] + 1)
          /\ pending_bytes' = Set(pending_bytes, w, 0)
    /\ UNCHANGED <<sources, parts, refused, dests, control, pc, change>>

(* ... and at the end of the source. *)
EndOfFile(w) ==
    /\ pc[w] = "copy" /\ ~zero_copy[w]
    /\ Len(temp[w]) >= Len(Content(w))
    /\ Count(w, pending_bytes[w])
    /\ pending_bytes' = Set(pending_bytes, w, 0)
    /\ pc' = Set(pc, w, "finalize")
    /\ UNCHANGED <<files, control, change>>

(* finalize_atomic_destination, then finish_with_overall_sync: the bar     *)
(* goes to its end, and what it lacked is counted. *)
Finalize(w) ==
    /\ pc[w] = "finalize"
    /\ dest' = Set(dest, to[w], temp[w]) /\ last' = Set(last, to[w], w)
    /\ temp' = Set(temp, w, NoFile) /\ parts' = Set(parts, w, parts[w] - 1)
    /\ copied_bytes' = copied_bytes + (IF progress[w] < SizeOf(w) THEN SizeOf(w) - progress[w] ELSE 0)
    /\ progress' = Set(progress, w, SizeOf(w))
    /\ IF CanVerify(w)
       THEN pc' = Set(pc, w, "verify") /\ UNCHANGED result
       ELSE /\ pc' = Set(pc, w, IF DeleteMode THEN "remove" ELSE "end")
            /\ result' = Set(result, w, "ok")
    /\ UNCHANGED <<sources, refused, pending_bytes, zero_copy, attempt, next, change>>

(* Slip: the temporary file stays. *)
FailsUntidy(w) ==
    /\ pc[w] \in {"open", "copy", "finalize"}
    /\ temp' = Set(temp, w, NoFile)
    /\ pc' = Set(pc, w, "rollback") /\ next' = Set(next, w, "retry")
    /\ UNCHANGED <<sources, parts, refused, dests, counts, zero_copy, attempt, result, change>>

(* Any operation of an attempt fails, or copy_file_range finds the source  *)
(* too short: the temporary file is removed.  The fallback of the rename   *)
(* may have removed the file at the destination by then. *)
AttemptFails(w) ==
    /\ pc[w] \in {"open", "copy", "finalize"}
    /\ \/ UNCHANGED dests
       \/ /\ pc[w] = "finalize"
          /\ dest' = Set(dest, to[w], NoFile) /\ last' = Set(last, to[w], w)
    /\ RemoveTemp(w)
    /\ pc' = Set(pc, w, "rollback") /\ next' = Set(next, w, "retry")
    /\ UNCHANGED <<sources, counts, zero_copy, attempt, result, change>>

-----------------------------------------------------------------------------
(* The end of an attempt: verify_attempt, and the loop around it.          *)

(* Slip: only the lengths are compared. *)
VerifiedLength(w) ==
    /\ pc[w] = "verify"
    /\ Exists(w) /\ IsFile(dest[to[w]]) /\ Len(Content(w)) = Len(dest[to[w]])
    /\ result' = Set(result, w, "ok")
    /\ pc' = Set(pc, w, IF DeleteMode THEN "remove" ELSE "end")
    /\ UNCHANGED <<files, counts, zero_copy, attempt, next, change>>

Verified(w) ==
    /\ pc[w] = "verify"
    /\ Exists(w) /\ Content(w) = dest[to[w]]
    /\ result' = Set(result, w, "ok")
    /\ pc' = Set(pc, w, IF DeleteMode THEN "remove" ELSE "end")
    /\ UNCHANGED <<files, counts, zero_copy, attempt, next, change>>

(* The hashes differ, or a file could not be read. *)
NotVerified(w) ==
    /\ pc[w] = "verify"
    /\ pc' = Set(pc, w, "rollback") /\ next' = Set(next, w, "retry")
    /\ UNCHANGED <<files, counts, zero_copy, attempt, result, change>>

(* Slips: an attempt too many; the attempts are not counted. *)
RollbackBeyond(w) ==
    /\ pc[w] = "rollback"
    /\ copied_bytes' = IF copied_bytes < progress[w] THEN 0 ELSE copied_bytes - progress[w]
    /\ progress' = Set(progress, w, 0)
    /\ pc' = Set(pc, w, "open")
    /\ attempt' = Set(attempt, w, IF next[w] = "open" THEN attempt[w] ELSE attempt[w] + 1)
    /\ UNCHANGED <<files, pending_bytes, zero_copy, next, result, change>>

RollbackUncounted(w) ==
    /\ pc[w] = "rollback"
    /\ copied_bytes' = IF copied_bytes < progress[w] THEN 0 ELSE copied_bytes - progress[w]
    /\ progress' = Set(progress, w, 0)
    /\ pc' = Set(pc, w, "open")
    /\ UNCHANGED <<files, pending_bytes, zero_copy, attempt, next, result, change>>

(* rollback_file_attempt_progress *)
Rollback(w) ==
    /\ pc[w] = "rollback"
    /\ copied_bytes' = IF copied_bytes < progress[w] THEN 0 ELSE copied_bytes - progress[w]
    /\ progress' = Set(progress, w, 0)
    /\ IF next[w] = "open" \/ attempt[w] < MaxRetries
       THEN /\ pc' = Set(pc, w, "open")
            /\ attempt' = Set(attempt, w, IF next[w] = "open" THEN attempt[w] ELSE attempt[w] + 1)
            /\ UNCHANGED result
       ELSE /\ pc' = Set(pc, w, "end")
            /\ result' = Set(result, w, "error")
            /\ UNCHANGED attempt
    /\ UNCHANGED <<files, pending_bytes, zero_copy, next, change>>

(* Slip: a source that cannot be removed fails the attempt. *)
RemoveOrRetry(w) ==
    /\ pc[w] = "remove"
    /\ \/ Exists(w) /\ removed' = removed \cup {from[w]} /\ pc' = Set(pc, w, "end")
       \/ UNCHANGED removed /\ pc' = Set(pc, w, "rollback")
    /\ UNCHANGED <<from, to, source, temps, dests, counts, control, change>>

(* finish_successful_transfer: a source that cannot be removed stays. *)
RemoveSource(w) ==
    /\ pc[w] = "remove"
    /\ \/ Exists(w) /\ removed' = removed \cup {from[w]}
       \/ UNCHANGED removed
    /\ pc' = Set(pc, w, "end")
    /\ UNCHANGED <<from, to, source, temps, dests, counts, control, change>>

Worker(w) ==
    \/ Open(w) \/ CopyRange(w) \/ RangeCopied(w) \/ ZeroCopyUnavailable(w)
    \/ ReadUnit(w) \/ EndOfFile(w) \/ Finalize(w) \/ AttemptFails(w)
    \/ Verified(w) \/ NotVerified(w) \/ Rollback(w) \/ RemoveSource(w)

-----------------------------------------------------------------------------
(* The owner of a source changes it, once in a run of the model. *)
Changes(f, how) ==
    /\ \A g \in Files : change[g] = "none"
    /\ f \in Range(from) \ removed
    /\ ~OwnerIntrudes => \A w \in Workers : from[w] = f => pc[w] = "open"
    /\ how = "shrunk" => source[f] # <<>>
    /\ change' = Set(change, f, how)
    /\ source' = Set(source, f,
         IF how = "grown" THEN Append(source[f], "new")
         ELSE IF how = "shrunk" THEN SubSeq(source[f], 1, Len(source[f]) - 1)
         ELSE [k \in DOMAIN source[f] |-> "new"])
    /\ UNCHANGED <<from, to, removed, temps, dests, counts, control, pc>>

Next == \/ \E w \in Workers : Worker(w)
        \/ \E f \in Files, how \in {"grown", "shrunk", "rewritten"} : Changes(f, how)

Spec == Init /\ [][Next]_vars

(* A worker is not held up for ever by an operation of the disk.           *)
FairSpec == Spec /\ WF_vars(\E w \in Workers : Worker(w))

-----------------------------------------------------------------------------
(* Properties.                                                             *)

(* DestinationWhole: whatever fails, and however the renames of several    *)
(* workers to one destination are ordered, a destination is absent, the    *)
(* old file, or the whole file of the worker that changed it last: it      *)
(* never shows a part of a source that was not changed meanwhile.          *)
DestinationWhole ==
    \A d \in Dests : IsFile(dest[d]) =>
        \E w \in Workers : /\ last[d] = w /\ to[w] = d
                           /\ Steady(w) => Len(dest[d]) = SizeOf(w)

(* DeletedIsKept: a transfer that succeeded with verification left a       *)
(* destination equal to the source, and a source that was deleted is whole *)
(* at a destination that was reported as transferred, although the copies  *)
(* of the same source for another device may fail now that it is gone.     *)
(* Two exceptions: sources that their owner changed, and destinations that *)
(* an item of the same name changed after, which may have been the only    *)
(* copy of a deleted source.                                               *)
DeletedIsKept ==
    /\ \A w \in Workers :
           result[w] = "ok" /\ CanVerify(w) /\ Steady(w) /\ last[to[w]] = w =>
               dest[to[w]] = Original(from[w])
    /\ \A f \in {g \in removed : change[g] = "none"} :
           \E w \in Workers : /\ from[w] = f /\ result[w] = "ok"
                              /\ last[to[w]] = w => Len(dest[to[w]]) = Size[f]

(* NothingLeftBehind: a copy that ended, well or not, leaves no temporary  *)
(* file but those the disk refused to remove.                              *)
NothingLeftBehind == \A w \in Workers : pc[w] = "end" => parts[w] = refused[w]

(* CopiedExact: copied_bytes is the sum of the positions of the workers'   *)
(* bars, and in the end the sum of the sizes of the files that were        *)
(* transferred: no attempt, failed or repeated, is counted twice.  A file  *)
(* that grew is the exception.                                             *)
CopiedExact ==
    (\A f \in Files : change[f] # "grown") =>
        /\ copied_bytes = SumFunction(progress)
        /\ \A w \in Workers : pc[w] = "end" =>
               progress[w] = IF result[w] = "ok" THEN SizeOf(w) ELSE 0

(* ResultIsFinal: a result that was reported never changes, and the        *)
(* destination it was reported of is changed after only by another item of *)
(* the same name that is not reported yet, whatever the removal of the     *)
(* source meets with; and a source is only removed by a worker that        *)
(* reported its copy as good.                                              *)
ResultIsFinal ==
    [][/\ \A w \in Workers : result[w] # "none" =>
           /\ UNCHANGED result[w]
           /\ dest'[to[w]] # dest[to[w]] =>
                \E v \in Workers \ {w} : to[v] = to[w] /\ result[v] = "none"
       /\ \A f \in removed' \ removed : \E w \in Workers : from[w] = f /\ result[w] = "ok"]_vars

(* CopyEnds: retries are bounded, and every copy ends with a result.       *)
CopyEnds == <>(\A w \in Workers : pc[w] = "end" /\ result[w] # "none")

(* DeletedIsCopied: a source that its owner left alone while it was open   *)
(* is deleted only if the destination has all of it (~OwnerIntrudes).      *)
DeletedIsCopied ==
    \A w \in Workers :
        result[w] = "ok" /\ from[w] \in removed => Len(dest[to[w]]) = Len(Content(w))
=============================================================================
