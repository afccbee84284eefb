--------------------------- MODULE CopyFileProofs ---------------------------
(***************************************************************************)
(* Theorems about copying files, for any workers, files, sizes and number  *)
(* of attempts, in every mode.                                             *)
(*                                                                         *)
(* The invariant follows one worker through an attempt: what its temporary *)
(* file and its bar hold at each step.  The step of another worker leaves  *)
(* all of it alone, but for the sources it deletes.  The workers share the *)
(* byte counter, which is the sum of the bars, and the destinations, which *)
(* are as the worker that changed them last left them.                     *)
(***************************************************************************)
EXTENDS CopyFile, DataTheorems

Grown(w) == change[from[w]] = "grown"

(* The temporary file exists from Open to Finalize, beside those that the  *)
(* disk refused to remove. *)
TempInv(w) ==
    IF pc[w] \in {"copy", "finalize"}
    THEN temp[w] \in Seq(Units) /\ parts[w] = refused[w] + 1
    ELSE temp[w] = NoFile /\ parts[w] = refused[w]

(* The result is there when the copy has ended, or its source is left to   *)
(* be removed. *)
ResultInv(w) ==
    /\ result[w] = "none" => pc[w] \notin {"remove", "end"}
    /\ result[w] = "ok" => pc[w] \in {"remove", "end"}
    /\ result[w] = "error" => pc[w] = "end"

(* The bar of a worker whose source did not grow. *)
BarInv(w) ==
    /\ pc[w] = "open" => progress[w] = 0
    /\ pc[w] \in {"copy", "finalize"} => Len(temp[w]) <= SizeOf(w)
    /\ pc[w] = "copy" => /\ progress[w] + pending_bytes[w] = Len(temp[w])
                         /\ zero_copy[w] => pending_bytes[w] = 0
    /\ pc[w] = "finalize" => progress[w] = Len(temp[w])
    /\ pc[w] \in {"verify", "remove"} => progress[w] = SizeOf(w)
    /\ pc[w] = "end" => progress[w] = IF result[w] = "ok" THEN SizeOf(w) ELSE 0

WorkerInv(w) ==
    /\ TempInv(w)
    /\ ResultInv(w)
    /\ Steady(w) /\ pc[w] = "finalize" => Len(temp[w]) = SizeOf(w)
    /\ ~Grown(w) => BarInv(w)

SourceInv ==
    \A f \in Files : /\ change[f] = "none" => source[f] = Original(f)
                     /\ change[f] # "grown" => Len(source[f]) <= Size[f]

(* A destination is the whole file of the worker that changed it last. *)
DestInv ==
    \A d \in Dests : IsFile(dest[d]) =>
        \E w \in Workers : /\ last[d] = w /\ to[w] = d
                           /\ Steady(w) => Len(dest[d]) = SizeOf(w)

(* A transfer that succeeded, and whose destination no other worker has    *)
(* changed since. *)
KeptInv(w) ==
    result[w] = "ok" /\ Steady(w) /\ last[to[w]] = w =>
        /\ Len(dest[to[w]]) = SizeOf(w)
        /\ CanVerify(w) => dest[to[w]] = Original(from[w])

RemovedInv == \A f \in removed : \E w \in Workers : from[w] = f /\ result[w] = "ok"

CountInv ==
    (\A f \in Files : change[f] # "grown") => copied_bytes = SumFunctionOnSet(progress, Workers)

CopyInv ==
    /\ \A w \in Workers : WorkerInv(w) /\ KeptInv(w)
    /\ SourceInv /\ DestInv /\ RemovedInv /\ CountInv

-----------------------------------------------------------------------------
(* Types.                                                                  *)

FileTypes ==
    /\ from \in [Workers -> Files] /\ to \in [Workers -> Dests]
    /\ source \in [Files -> Seq(Units)] /\ removed \subseteq Files
    /\ temp \in [Workers -> {NoFile} \cup Seq(Units)]
    /\ parts \in [Workers -> Nat] /\ refused \in [Workers -> Nat]
    /\ dest \in [Dests -> {NoFile, OldFile} \cup Seq(Units)]
    /\ last \in [Dests -> Workers \cup {NoFile}]

StateTypes ==
    /\ copied_bytes \in Nat
    /\ progress \in [Workers -> Nat] /\ pending_bytes \in [Workers -> Nat]
    /\ zero_copy \in [Workers -> BOOLEAN] /\ attempt \in [Workers -> 0..MaxRetries]
    /\ pc \in [Workers -> {"open", "copy", "finalize", "verify", "rollback", "remove", "end"}]
    /\ next \in [Workers -> {"open", "retry"}]
    /\ result \in [Workers -> {"none", "ok", "error"}]
    /\ change \in [Files -> {"none", "grown", "shrunk", "rewritten"}]

LEMMA Types == TypeOK <=> [from |-> from, to |-> to] \in Assignments /\ FileTypes /\ StateTypes
<1>1. [from |-> from, to |-> to] \in Assignments => from \in [Workers -> Files] /\ to \in [Workers -> Dests]
  BY CopyAssumption
<1> QED  BY <1>1 DEF TypeOK, FileTypes, StateTypes

LEMMA SourceTyped ==
    ASSUME FileTypes, NEW w \in Workers
    PROVE  from[w] \in Files /\ SizeOf(w) \in Nat /\ Content(w) \in Seq(Units)
<1>1. Size \in [Files -> Nat]
  BY CopyAssumption
<1> QED  BY <1>1 DEF FileTypes, SizeOf, Content

LEMMA OriginalTyped ==
    ASSUME NEW f \in Files
    PROVE  Original(f) \in Seq(Units) /\ Len(Original(f)) = Size[f] /\ Size[f] \in Nat
<1>1. Size[f] \in Nat
  BY CopyAssumption
<1> QED  BY <1>1 DEF Original, Units

LEMMA InitTyped == Init => TypeOK
<1> SUFFICES ASSUME Init
             PROVE  TypeOK
  OBVIOUS
<1>1. /\ from \in [Workers -> Files] /\ to \in [Workers -> Dests]
      /\ [from |-> from, to |-> to] \in Assignments
  <2>1. PICK a \in Assignments : from = a.from /\ to = a.to
    BY DEF Init
  <2>2. a \in [from : [Workers -> Files], to : [Workers -> Dests]]
    BY CopyAssumption
  <2>3. a = [from |-> from, to |-> to]
    BY <2>1, <2>2
  <2> QED  BY <2>1, <2>2, <2>3
<1>2. source \in [Files -> Seq(Units)] /\ removed \subseteq Files
  BY OriginalTyped DEF Init
<1>3. FileTypes
  BY <1>1, <1>2 DEF Init, FileTypes
<1>4. 0 \in 0..MaxRetries
  BY CopyAssumption
<1>5. zero_copy \in [Workers -> BOOLEAN]
  BY DEF Init
<1>6. StateTypes
  BY <1>4, <1>5 DEF Init, StateTypes
<1> QED  BY <1>1, <1>3, <1>6, Types

LEMMA WriteUnitTyped ==
    ASSUME FileTypes, NEW w \in Workers, temp[w] \in Seq(Units),
           Len(temp[w]) < Len(Content(w)), WriteUnit(w)
    PROVE  /\ temp' \in [Workers -> {NoFile} \cup Seq(Units)]
           /\ temp'[w] \in Seq(Units) /\ Len(temp'[w]) = Len(temp[w]) + 1
           /\ \A v \in Workers \ {w} : temp'[v] = temp[v]
<1>1. PICK u \in {Content(w)[Len(temp[w]) + 1], "bad"} : temp' = Set(temp, w, Append(temp[w], u))
  BY DEF WriteUnit
<1>2. u \in Units
  <2>1. Content(w) \in Seq(Units)
    BY SourceTyped
  <2>2. Content(w)[Len(temp[w]) + 1] \in Units
    <3>1. Len(temp[w]) \in Nat
      OBVIOUS
    <3> QED  BY <2>1, <3>1
  <2>3. "bad" \in Units
    BY DEF Units
  <2> QED  BY <1>1, <2>2, <2>3
<1>3. Append(temp[w], u) \in Seq(Units) /\ Len(Append(temp[w], u)) = Len(temp[w]) + 1
  BY <1>2
<1> QED  BY <1>1, <1>3 DEF FileTypes, Set

LEMMA RemoveTempTyped ==
    ASSUME FileTypes, NEW w \in Workers, TempInv(w), pc[w] \in {"open", "copy", "finalize"},
           RemoveTemp(w)
    PROVE  /\ temp' = Set(temp, w, NoFile)
           /\ parts' = parts \/ \E n \in Nat : parts' = Set(parts, w, n)
           /\ refused' = refused \/ \E n \in Nat : refused' = Set(refused, w, n)
           /\ parts'[w] = refused'[w]
<1>1. parts[w] \in Nat /\ refused[w] \in Nat /\ \A n : Set(parts, w, n)[w] = n /\ Set(refused, w, n)[w] = n
  BY DEF FileTypes, Set
<1>2. CASE pc[w] = "open"
  <2>1. parts[w] = refused[w] /\ parts' = Set(parts, w, parts[w]) /\ UNCHANGED refused
    BY <1>2 DEF RemoveTemp, TempInv
  <2> QED  BY <1>1, <2>1 DEF RemoveTemp
<1>3. CASE pc[w] # "open"
  <2>1. parts[w] = refused[w] + 1
    BY <1>3 DEF TempInv
  <2>2. CASE parts' = Set(parts, w, parts[w] - 1) /\ UNCHANGED refused
    <3>1. parts[w] - 1 \in Nat /\ parts'[w] = refused[w]
      BY <1>1, <2>1, <2>2
    <3> QED  BY <2>2, <3>1 DEF RemoveTemp
  <2>3. CASE refused' = Set(refused, w, refused[w] + 1) /\ UNCHANGED parts
    <3>1. refused[w] + 1 \in Nat /\ refused'[w] = parts[w]
      BY <1>1, <2>1, <2>3
    <3> QED  BY <2>3, <3>1 DEF RemoveTemp
  <2> QED  BY <1>3, <2>2, <2>3 DEF RemoveTemp
<1> QED  BY <1>2, <1>3

(* How a worker changes a destination. *)
LEMMA DestStep ==
    ASSUME NEW w \in Workers, Worker(w)
    PROVE  \/ UNCHANGED dests
           \/ /\ last' = Set(last, to[w], w)
              /\ \/ AttemptFails(w) /\ dest' = Set(dest, to[w], NoFile)
                 \/ Finalize(w) /\ dest' = Set(dest, to[w], temp[w])
<1>1. CASE Open(w) \/ CopyRange(w) \/ ZeroCopyUnavailable(w) \/ ReadUnit(w) \/ RemoveSource(w)
  BY <1>1 DEF Open, CopyRange, ZeroCopyUnavailable, ReadUnit, RemoveSource
<1>2. CASE RangeCopied(w) \/ EndOfFile(w) \/ Verified(w) \/ NotVerified(w) \/ Rollback(w)
  BY <1>2 DEF RangeCopied, EndOfFile, Verified, NotVerified, Rollback, files
<1>3. CASE Finalize(w)
  BY <1>3 DEF Finalize
<1>4. CASE AttemptFails(w)
  BY <1>4 DEF AttemptFails
<1> QED  BY <1>1, <1>2, <1>3, <1>4 DEF Worker

LEMMA StepFiles ==
    ASSUME FileTypes, StateTypes, \A w \in Workers : TempInv(w), [Next]_vars
    PROVE  FileTypes'
<1>1. ASSUME UNCHANGED files
      PROVE  FileTypes'
  BY <1>1 DEF files, sources, temps, dests, FileTypes
<1>2. ASSUME NEW w \in Workers, Open(w)
      PROVE  FileTypes'
  <2>1. UNCHANGED <<sources, dests, refused>> /\ temp' = Set(temp, w, <<>>) /\ parts' = Set(parts, w, parts[w] + 1)
    BY <1>2 DEF Open
  <2>2. <<>> \in Seq(Units)
    OBVIOUS
  <2>3. temp' \in [Workers -> {NoFile} \cup Seq(Units)]
    BY <2>1, <2>2 DEF FileTypes, Set
  <2>4. parts' \in [Workers -> Nat]
    BY <2>1 DEF FileTypes, Set
  <2> QED  BY <2>1, <2>3, <2>4 DEF FileTypes, sources, dests
<1>3. ASSUME NEW w \in Workers, CopyRange(w) \/ ReadUnit(w)
      PROVE  FileTypes'
  <2>1. /\ UNCHANGED <<sources, dests, parts, refused>>
        /\ pc[w] = "copy" /\ WriteUnit(w) /\ Len(temp[w]) < Len(Content(w))
    BY <1>3 DEF CopyRange, ReadUnit
  <2>2. temp' \in [Workers -> {NoFile} \cup Seq(Units)]
    BY <2>1, WriteUnitTyped DEF TempInv
  <2> QED  BY <2>1, <2>2 DEF FileTypes, sources, dests
<1>4. ASSUME NEW w \in Workers, Worker(w)
      PROVE  dest' \in [Dests -> {NoFile, OldFile} \cup Seq(Units)] /\ last' \in [Dests -> Workers \cup {NoFile}]
  <2>1. CASE UNCHANGED dests
    BY <2>1 DEF dests, FileTypes
  <2>2. CASE last' = Set(last, to[w], w) /\ dest' = Set(dest, to[w], NoFile)
    BY <2>2 DEF FileTypes, Set
  <2>3. CASE last' = Set(last, to[w], w) /\ Finalize(w) /\ dest' = Set(dest, to[w], temp[w])
    <3>1. temp[w] \in Seq(Units)
      BY <2>3 DEF Finalize, TempInv
    <3> QED  BY <2>3, <3>1 DEF FileTypes, Set
  <2> QED  BY <1>4, <2>1, <2>2, <2>3, DestStep
<1>5. ASSUME NEW w \in Workers, Finalize(w) \/ AttemptFails(w) \/ ZeroCopyUnavailable(w)
      PROVE  FileTypes'
  <2>1. UNCHANGED sources /\ temp' = Set(temp, w, NoFile)
    BY <1>5 DEF Finalize, AttemptFails, ZeroCopyUnavailable, RemoveTemp
  <2>2. parts' \in [Workers -> Nat] /\ refused' \in [Workers -> Nat]
    <3>1. CASE Finalize(w)
      <4>1. parts' = Set(parts, w, parts[w] - 1) /\ refused' = refused /\ parts[w] = refused[w] + 1
        BY <3>1 DEF Finalize, TempInv
      <4>2. refused[w] \in Nat
        BY DEF FileTypes
      <4>3. parts[w] - 1 \in Nat
        BY <4>1, <4>2
      <4> QED  BY <4>1, <4>3 DEF FileTypes, Set
    <3>2. CASE AttemptFails(w) \/ ZeroCopyUnavailable(w)
      <4>1. RemoveTemp(w) /\ pc[w] \in {"open", "copy", "finalize"} /\ TempInv(w)
        BY <3>2 DEF AttemptFails, ZeroCopyUnavailable
      <4>2. /\ parts' = parts \/ \E n \in Nat : parts' = Set(parts, w, n)
            /\ refused' = refused \/ \E n \in Nat : refused' = Set(refused, w, n)
        BY <4>1, RemoveTempTyped
      <4> QED  BY <4>2 DEF FileTypes, Set
    <3> QED  BY <1>5, <3>1, <3>2
  <2>3. temp' \in [Workers -> {NoFile} \cup Seq(Units)]
    BY <2>1 DEF FileTypes, Set
  <2> QED  BY <1>4, <1>5, <2>1, <2>2, <2>3 DEF FileTypes, sources, Worker
<1>6. ASSUME NEW w \in Workers, RemoveSource(w)
      PROVE  FileTypes'
  <2>1. UNCHANGED <<from, to, source, temps, dests>>
    BY <1>6 DEF RemoveSource
  <2>2. removed' \subseteq Files
    BY <1>6 DEF RemoveSource, FileTypes
  <2> QED  BY <2>1, <2>2 DEF FileTypes, temps, dests
<1>7. ASSUME NEW f \in Files, NEW how \in {"grown", "shrunk", "rewritten"}, Changes(f, how)
      PROVE  FileTypes'
  <2>1. UNCHANGED <<from, to, removed, temps, dests>>
    BY <1>7 DEF Changes
  <2> DEFINE s == source[f]
  <2>2. s \in Seq(Units) /\ "new" \in Units
    BY DEF FileTypes, Units
  <2>3. Append(s, "new") \in Seq(Units) /\ [k \in DOMAIN s |-> "new"] \in Seq(Units)
    BY <2>2
  <2>4. s # <<>> => SubSeq(s, 1, Len(s) - 1) \in Seq(Units)
    BY <2>2
  <2>5. PICK t \in Seq(Units) : source' = Set(source, f, t)
    BY <1>7, <2>3, <2>4 DEF Changes
  <2>6. source' \in [Files -> Seq(Units)]
    BY <2>5 DEF FileTypes, Set
  <2> QED  BY <2>1, <2>6 DEF FileTypes, temps, dests
<1>8. ASSUME NEW w \in Workers,
             RangeCopied(w) \/ EndOfFile(w) \/ Verified(w) \/ NotVerified(w) \/ Rollback(w)
      PROVE  FileTypes'
  BY <1>8, <1>1 DEF RangeCopied, EndOfFile, Verified, NotVerified, Rollback
<1>9. CASE UNCHANGED vars
  BY <1>9, <1>1 DEF vars
<1> QED  BY <1>2, <1>3, <1>5, <1>6, <1>7, <1>8, <1>9 DEF Next, Worker

LEMMA StepState ==
    ASSUME FileTypes, StateTypes, \A w \in Workers : TempInv(w), [Next]_vars
    PROVE  StateTypes'
<1>1. ASSUME NEW w \in Workers, Open(w) \/ RangeCopied(w) \/ ZeroCopyUnavailable(w)
      PROVE  StateTypes'
  <2>1. /\ UNCHANGED <<copied_bytes, progress, attempt, result, change>>
        /\ pending_bytes' \in {pending_bytes, Set(pending_bytes, w, 0)}
        /\ zero_copy' \in {zero_copy, Set(zero_copy, w, FALSE)}
        /\ next' \in {next, Set(next, w, "open")}
        /\ pc' \in {Set(pc, w, "copy"), Set(pc, w, "finalize"), Set(pc, w, "rollback")}
    BY <1>1 DEF Open, RangeCopied, ZeroCopyUnavailable, counts, control
  <2>2. zero_copy' \in [Workers -> BOOLEAN]
    BY <2>1, Zenon DEF StateTypes, Set
  <2>3. /\ pending_bytes' \in [Workers -> Nat] /\ next' \in [Workers -> {"open", "retry"}]
        /\ pc' \in [Workers -> {"open", "copy", "finalize", "verify", "rollback", "remove", "end"}]
    BY <2>1 DEF StateTypes, Set
  <2> QED  BY <2>1, <2>2, <2>3 DEF StateTypes
<1>2. ASSUME NEW w \in Workers, CopyRange(w) \/ ReadUnit(w) \/ EndOfFile(w)
      PROVE  StateTypes'
  <2>1. /\ copied_bytes' \in Nat
        /\ progress' \in [Workers -> Nat] /\ pending_bytes' \in [Workers -> Nat]
    <3>0. copied_bytes \in Nat /\ pending_bytes[w] \in Nat /\ progress[w] \in Nat
      BY DEF StateTypes
    <3>1. PICK n \in Nat, m \in Nat : /\ copied_bytes' \in {copied_bytes, copied_bytes + n}
                                      /\ progress' \in {progress, Set(progress, w, progress[w] + n)}
                                      /\ pending_bytes' \in {pending_bytes, Set(pending_bytes, w, m)}
      <4>1. CASE CopyRange(w)
        BY <4>1 DEF CopyRange, Count
      <4>2. CASE EndOfFile(w)
        BY <4>2, <3>0 DEF EndOfFile, Count
      <4>3. CASE ReadUnit(w)
        <5>1. \/ pending_bytes' = Set(pending_bytes, w, pending_bytes[w] + 1) /\ UNCHANGED <<copied_bytes, progress>>
              \/ Count(w, pending_bytes[w] + 1) /\ pending_bytes' = Set(pending_bytes, w, 0)
          BY <4>3 DEF ReadUnit
        <5>2. pending_bytes[w] + 1 \in Nat
          BY <3>0
        <5> QED  BY <5>1, <5>2 DEF Count
      <4> QED  BY <1>2, <4>1, <4>2, <4>3
    <3> QED  BY <3>0, <3>1 DEF StateTypes, Set
  <2>2. /\ UNCHANGED <<zero_copy, attempt, next, result, change>>
        /\ pc' \in {pc, Set(pc, w, "finalize")}
    BY <1>2 DEF CopyRange, ReadUnit, EndOfFile, control
  <2> QED  BY <2>1, <2>2 DEF StateTypes, Set
<1>3. ASSUME NEW w \in Workers, Finalize(w)
      PROVE  StateTypes'
  <2>1. SizeOf(w) \in Nat
    BY SourceTyped
  <2>2. copied_bytes' \in Nat /\ progress' \in [Workers -> Nat]
    BY <1>3, <2>1 DEF Finalize, StateTypes, Set
  <2>3. /\ pc' \in {Set(pc, w, "verify"), Set(pc, w, "remove"), Set(pc, w, "end")}
        /\ result' \in {result, Set(result, w, "ok")}
        /\ UNCHANGED <<pending_bytes, zero_copy, attempt, next, change>>
    BY <1>3 DEF Finalize
  <2> QED  BY <2>2, <2>3 DEF StateTypes, Set
<1>4. ASSUME NEW w \in Workers, AttemptFails(w) \/ NotVerified(w)
      PROVE  StateTypes'
  <2>1. /\ UNCHANGED <<copied_bytes, progress, pending_bytes, zero_copy, attempt, result, change>>
        /\ pc' = Set(pc, w, "rollback") /\ next' = Set(next, w, "retry")
    BY <1>4 DEF AttemptFails, NotVerified, counts
  <2> QED  BY <2>1 DEF StateTypes, Set
<1>5. ASSUME NEW w \in Workers, Verified(w)
      PROVE  StateTypes'
  <2>1. /\ UNCHANGED <<copied_bytes, progress, pending_bytes, zero_copy, attempt, next, change>>
        /\ pc' \in {Set(pc, w, "remove"), Set(pc, w, "end")} /\ result' = Set(result, w, "ok")
    BY <1>5 DEF Verified, counts
  <2> QED  BY <2>1 DEF StateTypes, Set
<1>6. ASSUME NEW w \in Workers, Rollback(w)
      PROVE  StateTypes'
  <2>1. progress[w] \in Nat /\ copied_bytes \in Nat
    BY DEF StateTypes
  <2>2. copied_bytes' \in Nat /\ progress' \in [Workers -> Nat]
    BY <1>6, <2>1 DEF Rollback, StateTypes, Set
  <2>3. /\ pc' \in {Set(pc, w, "open"), Set(pc, w, "end")}
        /\ result' \in {result, Set(result, w, "error")}
        /\ UNCHANGED <<pending_bytes, zero_copy, next, change>>
    BY <1>6 DEF Rollback
  <2>4. attempt' \in [Workers -> 0..MaxRetries]
    <3>1. attempt[w] \in 0..MaxRetries /\ MaxRetries \in Nat
      BY CopyAssumption DEF StateTypes
    <3>2. attempt' = attempt \/ \E n \in 0..MaxRetries : attempt' = Set(attempt, w, n)
      <4>1. CASE next[w] = "open"
        BY <1>6, <3>1, <4>1 DEF Rollback
      <4>2. CASE next[w] # "open" /\ attempt[w] < MaxRetries
        <5>1. attempt[w] + 1 \in 0..MaxRetries /\ attempt' = Set(attempt, w, attempt[w] + 1)
          BY <1>6, <3>1, <4>2 DEF Rollback
        <5> QED  BY <5>1
      <4>3. CASE next[w] # "open" /\ ~(attempt[w] < MaxRetries)
        BY <1>6, <4>3 DEF Rollback
      <4> QED  BY <4>1, <4>2, <4>3
    <3> QED  BY <3>2 DEF StateTypes, Set
  <2> QED  BY <2>2, <2>3, <2>4 DEF StateTypes, Set
<1>7. ASSUME NEW w \in Workers, RemoveSource(w)
      PROVE  StateTypes'
  BY <1>7 DEF RemoveSource, StateTypes, Set, counts, control
<1>8. ASSUME NEW f \in Files, NEW how \in {"grown", "shrunk", "rewritten"}, Changes(f, how)
      PROVE  StateTypes'
  <2>1. /\ UNCHANGED <<counts, control, pc>> /\ change' = Set(change, f, how)
    BY <1>8 DEF Changes
  <2> QED  BY <2>1 DEF StateTypes, Set, counts, control
<1>9. CASE UNCHANGED vars
  BY <1>9 DEF vars, counts, control, StateTypes
<1> QED  BY <1>1, <1>2, <1>3, <1>4, <1>5, <1>6, <1>7, <1>8, <1>9 DEF Next, Worker

LEMMA StepTyped == TypeOK /\ (\A w \in Workers : TempInv(w)) /\ [Next]_vars => TypeOK'
<1> SUFFICES ASSUME TypeOK, \A w \in Workers : TempInv(w), [Next]_vars
             PROVE  TypeOK'
  OBVIOUS
<1>1. FileTypes /\ StateTypes /\ [from |-> from, to |-> to] \in Assignments
  BY Types
<1>2. FileTypes' /\ StateTypes'
  BY <1>1, StepFiles, StepState
<1>3. from' = from /\ to' = to
  BY DEF Next, Worker, Open, CopyRange, RangeCopied, ZeroCopyUnavailable, ReadUnit, EndOfFile,
     Finalize, AttemptFails, Verified, NotVerified, Rollback, RemoveSource, Changes, vars, files,
     sources
<1> QED  BY <1>1, <1>2, <1>3 DEF TypeOK, FileTypes, StateTypes

-----------------------------------------------------------------------------
(* The workers.                                                            *)

Local(v) == <<temp[v], parts[v], refused[v], progress[v], pending_bytes[v], zero_copy[v], pc[v], result[v]>>

LEMMA SetOther ==
    ASSUME FileTypes, StateTypes, NEW w, NEW v \in Workers \ {w}, NEW x
    PROVE  /\ Set(temp, w, x)[v] = temp[v]
           /\ Set(parts, w, x)[v] = parts[v] /\ Set(refused, w, x)[v] = refused[v]
           /\ Set(progress, w, x)[v] = progress[v]
           /\ Set(pending_bytes, w, x)[v] = pending_bytes[v]
           /\ Set(zero_copy, w, x)[v] = zero_copy[v]
           /\ Set(pc, w, x)[v] = pc[v] /\ Set(result, w, x)[v] = result[v]
<1>1. /\ DOMAIN temp = Workers /\ DOMAIN parts = Workers /\ DOMAIN refused = Workers
      /\ DOMAIN progress = Workers
      /\ DOMAIN pending_bytes = Workers /\ DOMAIN zero_copy = Workers /\ DOMAIN pc = Workers
      /\ DOMAIN result = Workers
  BY DEF FileTypes, StateTypes
<1> QED  BY <1>1 DEF Set

LEMMA LocalKept ==
    ASSUME FileTypes, StateTypes, NEW w \in Workers, Worker(w), TempInv(w)
    PROVE  /\ UNCHANGED <<from, to, source, change>>
           /\ \A v \in Workers \ {w} : Local(v)' = Local(v)
<1>1. UNCHANGED <<from, to, source, change>>
  BY DEF Worker, Open, CopyRange, RangeCopied, ZeroCopyUnavailable, ReadUnit, EndOfFile, Finalize,
     AttemptFails, Verified, NotVerified, Rollback, RemoveSource, files, sources
<1>2. ASSUME NEW v \in Workers \ {w}
      PROVE  Local(v)' = Local(v)
  <2>0. \A x : /\ Set(temp, w, x)[v] = temp[v]
               /\ Set(parts, w, x)[v] = parts[v] /\ Set(refused, w, x)[v] = refused[v]
               /\ Set(progress, w, x)[v] = progress[v]
               /\ Set(pending_bytes, w, x)[v] = pending_bytes[v]
               /\ Set(zero_copy, w, x)[v] = zero_copy[v]
               /\ Set(pc, w, x)[v] = pc[v] /\ Set(result, w, x)[v] = result[v]
    BY SetOther
  <2>1. temp'[v] = temp[v]
    <3>1. CASE WriteUnit(w)
      <4>1. PICK x : temp' = Set(temp, w, x)
        BY <3>1 DEF WriteUnit
      <4> QED  BY <2>0, <4>1
    <3>2. CASE temp' = temp \/ \E x : temp' = Set(temp, w, x)
      BY <2>0, <3>2
    <3> QED  BY <3>1, <3>2 DEF Worker, Open, CopyRange, RangeCopied, ZeroCopyUnavailable, ReadUnit,
       EndOfFile, Finalize, AttemptFails, RemoveTemp, Verified, NotVerified, Rollback, RemoveSource,
       files, temps
  <2>2. parts'[v] = parts[v] /\ refused'[v] = refused[v]
    <3>1. /\ parts' = parts \/ \E x : parts' = Set(parts, w, x)
          /\ refused' = refused \/ \E x : refused' = Set(refused, w, x)
      BY DEF Worker, Open, CopyRange, RangeCopied, ZeroCopyUnavailable, ReadUnit, EndOfFile,
         Finalize, AttemptFails, RemoveTemp, Verified, NotVerified, Rollback, RemoveSource, files,
         temps
    <3> QED  BY <2>0, <3>1
  <2>3. progress'[v] = progress[v] /\ pending_bytes'[v] = pending_bytes[v]
    <3>1. /\ progress' = progress \/ \E x : progress' = Set(progress, w, x)
          /\ pending_bytes' = pending_bytes \/ \E x : pending_bytes' = Set(pending_bytes, w, x)
      BY DEF Worker, Open, CopyRange, RangeCopied, ZeroCopyUnavailable, ReadUnit, EndOfFile,
         Finalize, AttemptFails, Verified, NotVerified, Rollback, RemoveSource, counts, Count
    <3> QED  BY <2>0, <3>1
  <2>4. zero_copy'[v] = zero_copy[v] /\ result'[v] = result[v]
    <3>1. /\ zero_copy' = zero_copy \/ \E x : zero_copy' = Set(zero_copy, w, x)
          /\ result' = result \/ \E x : result' = Set(result, w, x)
      BY DEF Worker, Open, CopyRange, RangeCopied, ZeroCopyUnavailable, ReadUnit, EndOfFile,
         Finalize, AttemptFails, Verified, NotVerified, Rollback, RemoveSource, control
    <3> QED  BY <2>0, <3>1
  <2>5. pc'[v] = pc[v]
    <3>1. pc' = pc \/ \E x : pc' = Set(pc, w, x)
      BY DEF Worker, Open, CopyRange, RangeCopied, ZeroCopyUnavailable, ReadUnit, EndOfFile,
         Finalize, AttemptFails, Verified, NotVerified, Rollback, RemoveSource
    <3> QED  BY <2>0, <3>1
  <2> QED  BY <2>1, <2>2, <2>3, <2>4, <2>5 DEF Local
<1> QED  BY <1>1, <1>2

(* The invariant of a worker is about what is its own.                     *)
LEMMA WorkerKept ==
    ASSUME NEW v \in Workers, WorkerInv(v), from' = from, Local(v)' = Local(v),
           Steady(v)' => Steady(v), Grown(v) => Grown(v)'
    PROVE  WorkerInv(v)'
<1>1. /\ temp'[v] = temp[v] /\ parts'[v] = parts[v] /\ refused'[v] = refused[v]
      /\ progress'[v] = progress[v]
      /\ pending_bytes'[v] = pending_bytes[v] /\ zero_copy'[v] = zero_copy[v]
      /\ pc'[v] = pc[v] /\ result'[v] = result[v]
  BY DEF Local
<1>2. TempInv(v)' /\ ResultInv(v)'
  BY <1>1 DEF WorkerInv, TempInv, ResultInv
<1>3. SizeOf(v)' = SizeOf(v) /\ CanVerify(v)' = CanVerify(v)
  BY DEF SizeOf, CanVerify
<1>4. Steady(v)' /\ pc'[v] = "finalize" => Len(temp'[v]) = SizeOf(v)'
  BY <1>1, <1>3 DEF WorkerInv
<1>5. ~Grown(v)' => BarInv(v)'
  BY <1>1, <1>3 DEF WorkerInv, BarInv
<1> QED  BY <1>2, <1>4, <1>5 DEF WorkerInv

LEMMA ChangesKept ==
    ASSUME StateTypes, \A w \in Workers : WorkerInv(w), from \in [Workers -> Files],
           NEW f \in Files, NEW how \in {"grown", "shrunk", "rewritten"}, Changes(f, how)
    PROVE  \A w \in Workers : WorkerInv(w)'
<1> SUFFICES ASSUME NEW w \in Workers
             PROVE  WorkerInv(w)'
  OBVIOUS
<1>1. UNCHANGED <<from, temps, counts, control, pc>>
  BY DEF Changes
<1>2. Local(w)' = Local(w)
  BY <1>1 DEF Local, temps, counts, control
<1>3. \A g \in Files : change[g] = "none" /\ change'[g] \in {"none", how}
  BY DEF Changes, Set, StateTypes
<1>4. change'[f] = how
  BY DEF Changes, Set, StateTypes
<1>5. (Steady(w)' => Steady(w)) /\ (Grown(w) => Grown(w)')
  BY <1>1, <1>3 DEF Steady, Grown
<1> QED  BY <1>1, <1>2, <1>5, WorkerKept

LEMMA OwnTyped ==
    ASSUME FileTypes, StateTypes, NEW w \in Workers
    PROVE  /\ progress[w] \in Nat /\ pending_bytes[w] \in Nat /\ zero_copy[w] \in BOOLEAN
           /\ pc[w] \in {"open", "copy", "finalize", "verify", "rollback", "remove", "end"}
           /\ result[w] \in {"none", "ok", "error"} /\ SizeOf(w) \in Nat
           /\ \A x : /\ Set(temp, w, x)[w] = x /\ Set(parts, w, x)[w] = x
                     /\ Set(refused, w, x)[w] = x
                     /\ Set(progress, w, x)[w] = x /\ Set(pending_bytes, w, x)[w] = x
                     /\ Set(zero_copy, w, x)[w] = x /\ Set(pc, w, x)[w] = x
                     /\ Set(result, w, x)[w] = x
<1>1. SizeOf(w) \in Nat
  BY SourceTyped
<1>2. \A x : /\ Set(temp, w, x)[w] = x /\ Set(parts, w, x)[w] = x
            /\ Set(refused, w, x)[w] = x
            /\ Set(progress, w, x)[w] = x /\ Set(pending_bytes, w, x)[w] = x
            /\ Set(zero_copy, w, x)[w] = x /\ Set(pc, w, x)[w] = x
            /\ Set(result, w, x)[w] = x
  <2>1. /\ DOMAIN temp = Workers /\ DOMAIN parts = Workers /\ DOMAIN refused = Workers
        /\ DOMAIN progress = Workers
        /\ DOMAIN pending_bytes = Workers /\ DOMAIN zero_copy = Workers /\ DOMAIN pc = Workers
        /\ DOMAIN result = Workers
    BY DEF FileTypes, StateTypes
  <2> QED  BY <2>1 DEF Set
<1>3. zero_copy[w] \in BOOLEAN
  BY Zenon DEF StateTypes
<1>4. /\ progress[w] \in Nat /\ pending_bytes[w] \in Nat
      /\ pc[w] \in {"open", "copy", "finalize", "verify", "rollback", "remove", "end"}
      /\ result[w] \in {"none", "ok", "error"}
  BY DEF StateTypes
<1> QED  BY <1>1, <1>2, <1>3, <1>4

(* What stays the same in a worker's own step. *)
LEMMA SameSource ==
    ASSUME UNCHANGED <<from, source, change>>, NEW w \in Workers
    PROVE  /\ SizeOf(w)' = SizeOf(w) /\ CanVerify(w)' = CanVerify(w)
           /\ Steady(w)' = Steady(w) /\ Grown(w)' = Grown(w)
           /\ Original(from[w])' = Original(from[w])
BY DEF SizeOf, CanVerify, Steady, Grown, Original

(* Of a source that did not grow no more is read than was queued, and all  *)
(* of one that was left alone. *)
LEMMA SourceLength ==
    ASSUME FileTypes, SourceInv, NEW w \in Workers
    PROVE  /\ ~Grown(w) => Len(Content(w)) <= SizeOf(w)
           /\ Steady(w) => /\ Content(w) = Original(from[w]) /\ Len(Content(w)) = SizeOf(w)
                           /\ ~Grown(w)
<1>1. from[w] \in Files
  BY SourceTyped
<1>2. ~Grown(w) => Len(Content(w)) <= SizeOf(w)
  BY <1>1 DEF SourceInv, Grown, Content, SizeOf
<1>3. Steady(w) => Content(w) = Original(from[w]) /\ ~Grown(w)
  BY <1>1 DEF SourceInv, Steady, Content, Grown
<1>4. Len(Original(from[w])) = SizeOf(w)
  BY <1>1, OriginalTyped DEF SizeOf
<1> QED  BY <1>2, <1>3, <1>4

(* An attempt writes a unit. *)
LEMMA UnitKept ==
    ASSUME FileTypes, StateTypes, SourceInv, NEW w \in Workers, Worker(w), WorkerInv(w),
           CopyRange(w) \/ ReadUnit(w)
    PROVE  WorkerInv(w)'
<1>1. /\ UNCHANGED <<from, source, change>>
      /\ pc[w] = "copy" /\ WriteUnit(w) /\ Len(temp[w]) < Len(Content(w)) /\ temp[w] \in Seq(Units)
      /\ pc' = pc /\ UNCHANGED <<parts, refused>> /\ result' = result /\ zero_copy' = zero_copy
  BY DEF CopyRange, ReadUnit, sources, control, WorkerInv, TempInv
<1>2. temp'[w] \in Seq(Units) /\ Len(temp'[w]) = Len(temp[w]) + 1 /\ Len(temp[w]) \in Nat
  BY <1>1, WriteUnitTyped
<1>3. TempInv(w)' /\ ResultInv(w)'
  BY <1>1, <1>2 DEF WorkerInv, TempInv, ResultInv
<1>4. pc'[w] # "finalize"
  BY <1>1
<1>5. ~Grown(w)' => BarInv(w)'
  <2> SUFFICES ASSUME ~Grown(w)
               PROVE  BarInv(w)'
    BY <1>1, SameSource
  <2>1. /\ Len(Content(w)) <= SizeOf(w) /\ progress[w] + pending_bytes[w] = Len(temp[w])
        /\ zero_copy[w] => pending_bytes[w] = 0
    BY <1>1, SourceLength DEF WorkerInv, BarInv
  <2>2. progress[w] \in Nat /\ pending_bytes[w] \in Nat /\ SizeOf(w) \in Nat
    BY OwnTyped
  <2>3. Len(temp'[w]) <= SizeOf(w)'
    <3>1. Len(Content(w)) \in Nat
      BY SourceTyped
    <3> QED  BY <1>1, <1>2, <2>1, <2>2, <3>1, SameSource
  <2>4. progress'[w] + pending_bytes'[w] = Len(temp'[w]) /\ (zero_copy'[w] => pending_bytes'[w] = 0)
    <3>1. CASE CopyRange(w)
      <4>1. progress'[w] = progress[w] + 1 /\ pending_bytes'[w] = pending_bytes[w] /\ zero_copy[w]
        BY <3>1, OwnTyped DEF CopyRange, Count
      <4> QED  BY <1>1, <1>2, <2>1, <2>2, <4>1
    <3>2. CASE ReadUnit(w)
      <4>1. /\ ~zero_copy[w]
            /\ \/ progress'[w] = progress[w] /\ pending_bytes'[w] = pending_bytes[w] + 1
               \/ progress'[w] = progress[w] + (pending_bytes[w] + 1) /\ pending_bytes'[w] = 0
        BY <3>2, OwnTyped DEF ReadUnit, Count
      <4>2. progress'[w] + pending_bytes'[w] = progress[w] + pending_bytes[w] + 1
        BY <2>2, <4>1
      <4>3. progress'[w] + pending_bytes'[w] = Len(temp'[w])
        BY <1>2, <2>1, <4>2
      <4>4. ~zero_copy'[w]
        BY <1>1, <4>1, Zenon
      <4> QED  BY <4>3, <4>4, Zenon
    <3> QED  BY <3>1, <3>2
  <2> QED  BY <1>1, <2>3, <2>4 DEF BarInv
<1> QED  BY <1>3, <1>4, <1>5 DEF WorkerInv

(* The copy reaches the end of the file. *)
LEMMA EndKept ==
    ASSUME FileTypes, StateTypes, SourceInv, NEW w \in Workers, Worker(w), WorkerInv(w),
           RangeCopied(w) \/ EndOfFile(w)
    PROVE  WorkerInv(w)'
<1>1. /\ UNCHANGED <<from, source, change>>
      /\ pc[w] = "copy" /\ temp[w] \in Seq(Units)
      /\ pc' = Set(pc, w, "finalize") /\ UNCHANGED temps /\ result' = result
  BY DEF RangeCopied, EndOfFile, files, sources, control, WorkerInv, TempInv
<1>2. pc'[w] = "finalize"
  BY <1>1, OwnTyped
<1>3. TempInv(w)' /\ ResultInv(w)'
  BY <1>1, <1>2 DEF WorkerInv, TempInv, ResultInv, temps
<1>4. Len(temp[w]) \in Nat /\ Len(Content(w)) \in Nat /\ SizeOf(w) \in Nat
  BY <1>1, SourceTyped
<1>5. Steady(w)' => Len(temp'[w]) = SizeOf(w)'
  <2> SUFFICES ASSUME Steady(w)
               PROVE  Len(temp'[w]) = SizeOf(w)'
    BY <1>1, SameSource
  <2>1. Len(temp[w]) = SizeOf(w)
    <3>1. Len(temp[w]) <= SizeOf(w) /\ Len(Content(w)) = SizeOf(w)
      BY <1>1, SourceLength DEF WorkerInv, BarInv
    <3>2. Len(temp[w]) = SizeOf(w) \/ Len(temp[w]) >= Len(Content(w))
      BY DEF RangeCopied, EndOfFile
    <3> QED  BY <1>4, <3>1, <3>2
  <2> QED  BY <1>1, <2>1, SameSource DEF temps
<1>6. ~Grown(w)' => BarInv(w)'
  <2> SUFFICES ASSUME ~Grown(w)
               PROVE  BarInv(w)'
    BY <1>1, SameSource
  <2>1. /\ progress[w] + pending_bytes[w] = Len(temp[w]) /\ Len(temp[w]) <= SizeOf(w)
        /\ zero_copy[w] => pending_bytes[w] = 0
        /\ progress[w] \in Nat /\ pending_bytes[w] \in Nat
    BY <1>1, OwnTyped DEF WorkerInv, BarInv
  <2>2. progress'[w] = Len(temp[w])
    <3>1. CASE RangeCopied(w)
      BY <2>1, <3>1 DEF RangeCopied, counts
    <3>2. CASE EndOfFile(w)
      BY <2>1, <3>2, OwnTyped DEF EndOfFile, Count
    <3> QED  BY <3>1, <3>2
  <2> QED  BY <1>1, <1>2, <2>1, <2>2, SameSource DEF BarInv, temps
<1> QED  BY <1>3, <1>5, <1>6 DEF WorkerInv

LEMMA FinalizeKept ==
    ASSUME FileTypes, StateTypes, NEW w \in Workers, Finalize(w), WorkerInv(w)
    PROVE  WorkerInv(w)'
<1>1. /\ UNCHANGED <<from, source, change>> /\ pc[w] = "finalize"
      /\ temp'[w] = NoFile /\ parts'[w] = parts[w] - 1 /\ refused' = refused
      /\ progress'[w] = SizeOf(w)
  BY OwnTyped DEF Finalize, sources
<1>2. \/ CanVerify(w) /\ pc'[w] = "verify" /\ result'[w] = result[w]
      \/ ~CanVerify(w) /\ pc'[w] \in {"remove", "end"} /\ result'[w] = "ok"
  BY OwnTyped DEF Finalize
<1>3. result[w] = "none"
  BY <1>1, OwnTyped DEF WorkerInv, ResultInv
<1>4. ResultInv(w)'
  BY <1>1, <1>2, <1>3 DEF ResultInv
<1>5. TempInv(w)'
  <2>1. parts[w] = refused[w] + 1 /\ refused[w] \in Nat
    BY <1>1 DEF WorkerInv, TempInv, FileTypes
  <2>2. parts'[w] = refused'[w]
    BY <1>1, <2>1
  <2> QED  BY <1>1, <1>2, <2>2 DEF TempInv
<1>6. ~Grown(w)' => BarInv(w)'
  BY <1>1, <1>2, SameSource DEF BarInv
<1> QED  BY <1>2, <1>4, <1>5, <1>6 DEF WorkerInv

(* An attempt begins, fails, or is rolled back. *)
LEMMA RetryKept ==
    ASSUME FileTypes, StateTypes, NEW w \in Workers, WorkerInv(w),
           \/ Open(w) \/ ZeroCopyUnavailable(w) \/ AttemptFails(w) \/ NotVerified(w)
           \/ Rollback(w)
    PROVE  WorkerInv(w)'
<1>1. UNCHANGED <<from, source, change>>
  BY DEF Open, ZeroCopyUnavailable, AttemptFails, NotVerified, Rollback, files, sources
<1>2. result[w] = "none"
  BY OwnTyped
     DEF Open, ZeroCopyUnavailable, AttemptFails, NotVerified, Rollback, WorkerInv, ResultInv
<1>3. \/ result'[w] = "none" /\ pc'[w] \in {"open", "copy", "rollback"}
      \/ result'[w] = "error" /\ pc'[w] = "end"
  <2>1. \/ /\ result' = result
           /\ pc' \in {Set(pc, w, "open"), Set(pc, w, "copy"), Set(pc, w, "rollback")}
        \/ result' = Set(result, w, "error") /\ pc' = Set(pc, w, "end")
    BY DEF Open, ZeroCopyUnavailable, AttemptFails, NotVerified, Rollback, control
  <2> QED  BY <1>2, <2>1, OwnTyped
<1>4. /\ temp'[w] = IF pc'[w] = "copy" THEN <<>> ELSE NoFile
      /\ parts'[w] = IF pc'[w] = "copy" THEN refused'[w] + 1 ELSE refused'[w]
  <2>1. CASE Open(w)
    <3>1. /\ temp' = Set(temp, w, <<>>) /\ pc' = Set(pc, w, "copy")
          /\ parts' = Set(parts, w, parts[w] + 1) /\ refused' = refused
      BY <2>1 DEF Open
    <3>2. parts[w] = refused[w]
      BY <2>1 DEF Open, WorkerInv, TempInv
    <3> QED  BY <3>1, <3>2, OwnTyped
  <2>2. CASE ZeroCopyUnavailable(w) \/ AttemptFails(w)
    <3>1. /\ RemoveTemp(w) /\ pc[w] \in {"open", "copy", "finalize"} /\ TempInv(w)
          /\ pc' = Set(pc, w, "rollback")
      BY <2>2 DEF ZeroCopyUnavailable, AttemptFails, WorkerInv
    <3>2. temp' = Set(temp, w, NoFile) /\ parts'[w] = refused'[w]
      BY <3>1, RemoveTempTyped
    <3> QED  BY <3>1, <3>2, OwnTyped
  <2>3. CASE NotVerified(w) \/ Rollback(w)
    <3>1. pc[w] \in {"verify", "rollback"} /\ UNCHANGED temps /\ pc'[w] # "copy"
      BY <2>3, OwnTyped DEF NotVerified, Rollback, files
    <3> QED  BY <3>1 DEF WorkerInv, TempInv, temps
  <2> QED  BY <2>1, <2>2, <2>3
<1>5. TempInv(w)' /\ ResultInv(w)'
  <2>1. <<>> \in Seq(Units)
    OBVIOUS
  <2> QED  BY <1>3, <1>4, <2>1 DEF TempInv, ResultInv
<1>6. ~Grown(w)' => BarInv(w)'
  <2> SUFFICES ASSUME ~Grown(w)
               PROVE  BarInv(w)'
    BY <1>1, SameSource
  <2>1. pc'[w] \in {"open", "copy", "end"} => progress'[w] = 0
    <3>1. CASE Open(w)
      BY <3>1 DEF Open, WorkerInv, BarInv
    <3>2. CASE Rollback(w)
      BY <3>2, OwnTyped DEF Rollback
    <3>3. CASE ZeroCopyUnavailable(w) \/ AttemptFails(w) \/ NotVerified(w)
      <4>1. pc' = Set(pc, w, "rollback")
        BY <3>3 DEF ZeroCopyUnavailable, AttemptFails, NotVerified
      <4> QED  BY <4>1, OwnTyped
    <3> QED  BY <3>1, <3>2, <3>3
  <2>2. pc'[w] = "copy" => pending_bytes'[w] = 0
    <3>1. CASE Open(w)
      BY <3>1, OwnTyped DEF Open
    <3>2. CASE ~Open(w)
      <4>1. pc' \in {Set(pc, w, "rollback"), Set(pc, w, "open"), Set(pc, w, "end")}
        BY <3>2 DEF ZeroCopyUnavailable, AttemptFails, NotVerified, Rollback
      <4> QED  BY <4>1, OwnTyped
    <3> QED  BY <3>1, <3>2
  <2>3. SizeOf(w)' \in Nat /\ Len(<<>>) = 0
    BY <1>1, OwnTyped, SameSource
  <2> QED  BY <1>3, <1>4, <2>1, <2>2, <2>3 DEF BarInv
<1> QED  BY <1>3, <1>5, <1>6 DEF WorkerInv

(* The copy succeeded. *)
LEMMA DoneKept ==
    ASSUME FileTypes, StateTypes, NEW w \in Workers, WorkerInv(w),
           Verified(w) \/ RemoveSource(w)
    PROVE  WorkerInv(w)'
<1>1. UNCHANGED <<from, source, change, temps, progress>>
  BY DEF Verified, RemoveSource, files, sources, counts
<1>2. pc'[w] \in {"remove", "end"} /\ result'[w] = "ok" /\ pc[w] \in {"verify", "remove"}
  <2>1. CASE Verified(w)
    BY <2>1, OwnTyped DEF Verified
  <2>2. CASE RemoveSource(w)
    <3>1. pc[w] = "remove" /\ pc'[w] = "end" /\ result' = result
      BY <2>2, OwnTyped DEF RemoveSource, control
    <3>2. result[w] = "ok"
      BY <3>1, OwnTyped DEF WorkerInv, ResultInv
    <3> QED  BY <3>1, <3>2
  <2> QED  BY <2>1, <2>2
<1>3. TempInv(w)' /\ ResultInv(w)'
  BY <1>1, <1>2 DEF WorkerInv, TempInv, ResultInv, temps
<1>4. ~Grown(w)' => BarInv(w)'
  BY <1>1, <1>2, SameSource DEF WorkerInv, BarInv
<1> QED  BY <1>2, <1>3, <1>4 DEF WorkerInv

LEMMA WorkersKept ==
    ASSUME FileTypes, StateTypes, SourceInv, \A w \in Workers : WorkerInv(w), [Next]_vars
    PROVE  \A w \in Workers : WorkerInv(w)'
<1>1. ASSUME NEW w \in Workers, Worker(w), NEW v \in Workers
      PROVE  WorkerInv(v)'
  <2>1. CASE v = w
    BY <1>1, <2>1, UnitKept, EndKept, FinalizeKept, RetryKept, DoneKept DEF Worker
  <2>2. CASE v # w
    <3>1. UNCHANGED <<from, source, change>> /\ Local(v)' = Local(v)
      BY <1>1, <2>2, LocalKept DEF WorkerInv
    <3>2. (Steady(v)' => Steady(v)) /\ (Grown(v) => Grown(v)')
      BY <3>1, SameSource
    <3> QED  BY <3>1, <3>2, WorkerKept
  <2> QED  BY <2>1, <2>2
<1>2. ASSUME NEW f \in Files, NEW how \in {"grown", "shrunk", "rewritten"}, Changes(f, how)
      PROVE  \A w \in Workers : WorkerInv(w)'
  BY <1>2, ChangesKept DEF FileTypes
<1>3. CASE UNCHANGED vars
  <2>1. UNCHANGED <<from, source, change>> /\ \A v \in Workers : Local(v)' = Local(v)
    BY <1>3 DEF vars, files, sources, temps, counts, control, Local
  <2> QED  BY <2>1, SameSource, WorkerKept
<1> QED  BY <1>1, <1>2, <1>3 DEF Next

-----------------------------------------------------------------------------
(* The sources, and the byte counter.                                      *)

LEMMA SourcesKept ==
    ASSUME FileTypes, StateTypes, SourceInv, [Next]_vars
    PROVE  SourceInv'
<1>1. ASSUME UNCHANGED <<source, change>>
      PROVE  SourceInv'
  BY <1>1 DEF SourceInv, Original
<1>2. ASSUME NEW w \in Workers, Worker(w)
      PROVE  SourceInv'
  BY <1>1, <1>2 DEF Worker, Open, CopyRange, RangeCopied, ZeroCopyUnavailable, ReadUnit, EndOfFile,
     Finalize, AttemptFails, Verified, NotVerified, Rollback, RemoveSource, files, sources
<1>3. CASE UNCHANGED vars
  BY <1>1, <1>3 DEF vars, files, sources
<1>4. ASSUME NEW f \in Files, NEW how \in {"grown", "shrunk", "rewritten"}, Changes(f, how)
      PROVE  SourceInv'
  <2> SUFFICES ASSUME NEW g \in Files
               PROVE  /\ change'[g] = "none" => source'[g] = Original(g)
                      /\ change'[g] # "grown" => Len(source'[g]) <= Size[g]
    BY DEF SourceInv, Original
  <2>1. change[g] = "none" /\ source[g] = Original(g) /\ Len(source[g]) <= Size[g]
    BY <1>4 DEF Changes, SourceInv
  <2>2. CASE g # f
    <3>1. change'[g] = change[g] /\ source'[g] = source[g]
      BY <1>4, <2>2 DEF Changes, Set, FileTypes, StateTypes
    <3> QED  BY <2>1, <3>1
  <2>3. CASE g = f
    <3>1. change'[g] = how
      BY <1>4, <2>3 DEF Changes, Set, StateTypes
    <3> DEFINE s == source[f]
    <3>2. s \in Seq(Units) /\ Len(s) <= Size[f] /\ Size[f] \in Nat
      BY <2>1, <2>3, OriginalTyped DEF FileTypes
    <3>3. \A x : Set(source, f, x)[f] = x
      BY DEF Set, FileTypes
    <3>4. CASE how = "grown"
      BY <2>3, <3>1, <3>4
    <3>5. CASE how = "shrunk"
      <4>1. s # <<>> /\ source'[f] = SubSeq(s, 1, Len(s) - 1)
        BY <1>4, <3>3, <3>5 DEF Changes
      <4>2. Len(SubSeq(s, 1, Len(s) - 1)) <= Size[f]
        BY <3>2, <4>1
      <4> QED  BY <2>3, <3>1, <3>5, <4>1, <4>2
    <3>6. CASE how = "rewritten"
      <4>1. source'[f] = [k \in DOMAIN s |-> "new"]
        BY <1>4, <3>3, <3>6 DEF Changes
      <4>2. Len([k \in DOMAIN s |-> "new"]) = Len(s)
        BY <3>2
      <4> QED  BY <2>3, <3>1, <3>2, <3>6, <4>1, <4>2
    <3> QED  BY <3>4, <3>5, <3>6
  <2> QED  BY <2>2, <2>3
<1> QED  BY <1>2, <1>3, <1>4 DEF Next

(* A worker changes a destination before its own result is reported.       *)
LEMMA DestChanged ==
    ASSUME FileTypes, StateTypes, NEW w \in Workers, Worker(w), WorkerInv(w), ~UNCHANGED dests
    PROVE  /\ result[w] = "none"
           /\ \A d \in Dests \ {to[w]} : dest'[d] = dest[d] /\ last'[d] = last[d]
           /\ last'[to[w]] = w
           /\ \/ dest'[to[w]] = NoFile /\ result' = result
              \/ Finalize(w) /\ dest'[to[w]] = temp[w]
<1>1. to[w] \in Dests /\ DOMAIN dest = Dests /\ DOMAIN last = Dests
  BY DEF FileTypes
<1>2. \/ AttemptFails(w) /\ dest' = Set(dest, to[w], NoFile)
      \/ Finalize(w) /\ dest' = Set(dest, to[w], temp[w])
  BY DestStep
<1>3. last' = Set(last, to[w], w)
  BY DestStep
<1>4. pc[w] \in {"open", "copy", "finalize"}
  BY <1>2 DEF AttemptFails, Finalize
<1>5. result[w] = "none"
  BY <1>4, OwnTyped DEF WorkerInv, ResultInv
<1>6. AttemptFails(w) => result' = result
  BY DEF AttemptFails
<1> QED  BY <1>1, <1>2, <1>3, <1>5, <1>6 DEF Set

LEMMA ResultStays ==
    ASSUME FileTypes, StateTypes, \A w \in Workers : WorkerInv(w), NEW w \in Workers, Worker(w),
           NEW v \in Workers, result[v] # "none"
    PROVE  /\ result'[v] = result[v]
           /\ dest'[to[v]] # dest[to[v]] => v # w /\ to[w] = to[v] /\ result[w] = "none"
<1>1. result'[v] = result[v]
  <2>1. CASE v # w
    BY <2>1, LocalKept DEF WorkerInv, Local
  <2>2. CASE v = w
    <3>1. pc[w] \in {"remove", "end"}
      BY <2>2 DEF WorkerInv, ResultInv, StateTypes
    <3>2. RemoveSource(w)
      BY <3>1 DEF Worker, Open, CopyRange, RangeCopied, ZeroCopyUnavailable, ReadUnit, EndOfFile,
         Finalize, AttemptFails, Verified, NotVerified, Rollback
    <3> QED  BY <3>2 DEF RemoveSource, control
  <2> QED  BY <2>1, <2>2
<1>2. dest'[to[v]] # dest[to[v]] => v # w /\ to[w] = to[v] /\ result[w] = "none"
  <2>1. to[v] \in Dests
    BY DEF FileTypes
  <2> QED  BY <2>1, DestChanged DEF dests
<1> QED  BY <1>1, <1>2

(* Only Finalize, Verified and RemoveSource leave a worker with a good     *)
(* result. *)
LEMMA Succeeds ==
    ASSUME FileTypes, StateTypes, NEW w \in Workers, Worker(w), WorkerInv(w), result'[w] = "ok"
    PROVE  \/ Finalize(w) /\ ~CanVerify(w)
           \/ Verified(w) /\ UNCHANGED dests
           \/ result[w] = "ok" /\ UNCHANGED dests
<1>1. CASE Finalize(w)
  <2>1. result[w] = "none"
    BY <1>1, OwnTyped DEF Finalize, WorkerInv, ResultInv
  <2>2. CASE CanVerify(w)
    BY <1>1, <2>1, <2>2 DEF Finalize
  <2> QED  BY <1>1, <2>2
<1>2. CASE Verified(w)
  BY <1>2 DEF Verified, files
<1>3. CASE RemoveSource(w)
  BY <1>3, OwnTyped DEF RemoveSource, WorkerInv, ResultInv
<1>4. CASE \/ Open(w) \/ CopyRange(w) \/ RangeCopied(w) \/ ZeroCopyUnavailable(w)
           \/ ReadUnit(w) \/ EndOfFile(w) \/ AttemptFails(w) \/ NotVerified(w)
  <2>1. result' = result /\ pc[w] \notin {"remove", "end"}
    BY <1>4, OwnTyped DEF Open, CopyRange, RangeCopied, ZeroCopyUnavailable, ReadUnit, EndOfFile,
       AttemptFails, NotVerified, control
  <2> QED  BY <2>1 DEF WorkerInv, ResultInv
<1>5. CASE Rollback(w)
  <2>1. pc[w] = "rollback" /\ (result' = result \/ result' = Set(result, w, "error"))
    BY <1>5 DEF Rollback
  <2> QED  BY <2>1, OwnTyped DEF WorkerInv, ResultInv
<1> QED  BY <1>1, <1>2, <1>3, <1>4, <1>5 DEF Worker

LEMMA DestKept ==
    ASSUME FileTypes, StateTypes, SourceInv, \A w \in Workers : WorkerInv(w) /\ KeptInv(w),
           DestInv, NEW w \in Workers, Worker(w)
    PROVE  DestInv' /\ \A v \in Workers : KeptInv(v)'
<1>1. UNCHANGED <<from, to, source, change>>
  BY LocalKept DEF WorkerInv
<1>2. \A v \in Workers : /\ SizeOf(v)' = SizeOf(v) /\ CanVerify(v)' = CanVerify(v)
                         /\ Steady(v)' = Steady(v) /\ Original(from[v])' = Original(from[v])
                         /\ to[v] \in Dests
  BY <1>1, SameSource DEF FileTypes
<1>3. ASSUME NEW d \in Dests, IsFile(dest'[d])
      PROVE  \E v \in Workers : /\ last'[d] = v /\ to[v] = d
                                /\ Steady(v) => Len(dest'[d]) = SizeOf(v)
  <2>1. CASE dest'[d] = dest[d] /\ last'[d] = last[d]
    BY <1>3, <2>1 DEF DestInv
  <2>2. CASE ~(dest'[d] = dest[d] /\ last'[d] = last[d])
    <3>1. ~UNCHANGED dests
      BY <2>2 DEF dests
    <3>2. d = to[w] /\ last'[d] = w /\ Finalize(w) /\ dest'[d] = temp[w]
      BY <1>3, <2>2, <3>1, DestChanged DEF IsFile
    <3>3. Steady(w) => Len(dest'[d]) = SizeOf(w)
      BY <3>2 DEF Finalize, WorkerInv
    <3> QED  BY <3>2, <3>3
  <2> QED  BY <2>1, <2>2
<1>4. ASSUME NEW v \in Workers, result'[v] = "ok", Steady(v), last'[to[v]] = v
      PROVE  Len(dest'[to[v]]) = SizeOf(v) /\ (CanVerify(v) => dest'[to[v]] = Original(from[v]))
  <2>1. CASE v # w
    <3>1. result[v] = "ok"
      BY <1>4, <2>1, LocalKept DEF WorkerInv, Local
    <3>2. dest'[to[v]] = dest[to[v]] /\ last'[to[v]] = last[to[v]]
      <4>1. CASE UNCHANGED dests
        BY <4>1 DEF dests
      <4>2. CASE ~UNCHANGED dests
        BY <1>2, <1>4, <2>1, <4>2, DestChanged
      <4> QED  BY <4>1, <4>2
    <3> QED  BY <1>4, <3>1, <3>2 DEF KeptInv
  <2>2. CASE v = w
    <3>1. CASE Finalize(w) /\ ~CanVerify(w)
      <4>1. pc[w] = "finalize" /\ dest' = Set(dest, to[w], temp[w])
        BY <3>1 DEF Finalize
      <4>2. dest'[to[w]] = temp[w]
        BY <1>2, <4>1 DEF FileTypes, Set
      <4> QED  BY <1>4, <2>2, <3>1, <4>1, <4>2 DEF WorkerInv
    <3>2. CASE Verified(w) /\ UNCHANGED dests
      BY <1>4, <2>2, <3>2, SourceLength DEF Verified, dests
    <3>3. CASE result[w] = "ok" /\ UNCHANGED dests
      BY <1>4, <2>2, <3>3 DEF KeptInv, dests
    <3> QED  BY <1>4, <2>2, <3>1, <3>2, <3>3, Succeeds
  <2> QED  BY <2>1, <2>2
<1>5. DestInv'
  BY <1>1, <1>2, <1>3 DEF DestInv, IsFile
<1>6. ASSUME NEW v \in Workers
      PROVE  KeptInv(v)'
  BY <1>1, <1>2, <1>4 DEF KeptInv
<1> QED  BY <1>5, <1>6

LEMMA DestsKept ==
    ASSUME FileTypes, StateTypes, SourceInv, \A w \in Workers : WorkerInv(w) /\ KeptInv(w),
           DestInv, [Next]_vars
    PROVE  DestInv' /\ \A v \in Workers : KeptInv(v)'
<1>1. ASSUME NEW f \in Files, NEW how \in {"grown", "shrunk", "rewritten"}, Changes(f, how)
      PROVE  UNCHANGED <<from, to, dests, result>> /\ \A v \in Workers : Steady(v)' => Steady(v)
  <2>1. UNCHANGED <<from, to, dests, result>> /\ \A g \in Files : change[g] = "none"
    BY <1>1 DEF Changes, control
  <2> QED  BY <2>1 DEF Steady, FileTypes
<1>2. CASE UNCHANGED vars
  BY <1>2 DEF vars, files, sources, dests, control, Steady, DestInv, KeptInv, IsFile, SizeOf,
     CanVerify, Original
<1>3. ASSUME UNCHANGED <<from, to, dests, result>>, \A v \in Workers : Steady(v)' => Steady(v)
      PROVE  DestInv' /\ \A v \in Workers : KeptInv(v)'
  <2>1. DestInv'
    BY <1>3 DEF DestInv, IsFile, SizeOf, dests
  <2>2. ASSUME NEW v \in Workers
        PROVE  KeptInv(v)'
    <3>1. /\ result'[v] = result[v] /\ last'[to'[v]] = last[to[v]] /\ dest'[to'[v]] = dest[to[v]]
          /\ SizeOf(v)' = SizeOf(v) /\ CanVerify(v)' = CanVerify(v)
          /\ Original(from[v])' = Original(from[v])
      BY <1>3 DEF dests, SizeOf, CanVerify, Original
    <3> QED  BY <1>3, <3>1 DEF KeptInv
  <2> QED  BY <2>1, <2>2
<1> QED  BY <1>1, <1>2, <1>3, DestKept DEF Next

(* A file is removed by the worker that copied it. *)
LEMMA RemovedBy ==
    ASSUME FileTypes, StateTypes, \A w \in Workers : WorkerInv(w), NEW w \in Workers, Worker(w),
           NEW f \in removed' \ removed
    PROVE  from[w] = f /\ result[w] = "ok"
<1>1. RemoveSource(w) /\ from[w] = f
  BY DEF Worker, Open, CopyRange, RangeCopied, ZeroCopyUnavailable, ReadUnit, EndOfFile, Finalize,
     AttemptFails, Verified, NotVerified, Rollback, RemoveSource, files, sources
<1> QED  BY <1>1, OwnTyped DEF RemoveSource, WorkerInv, ResultInv

LEMMA RemovedKept ==
    ASSUME FileTypes, StateTypes, \A w \in Workers : WorkerInv(w), RemovedInv, [Next]_vars
    PROVE  RemovedInv'
<1>1. ASSUME NEW w \in Workers, Worker(w)
      PROVE  RemovedInv'
  <2> SUFFICES ASSUME NEW f \in removed'
               PROVE  \E v \in Workers : from'[v] = f /\ result'[v] = "ok"
    BY DEF RemovedInv
  <2>1. from' = from
    BY <1>1, LocalKept DEF WorkerInv
  <2>2. ASSUME NEW v \in Workers, from[v] = f, result[v] = "ok"
        PROVE  from'[v] = f /\ result'[v] = "ok"
    BY <1>1, <2>1, <2>2, ResultStays
  <2>3. \E v \in Workers : from[v] = f /\ result[v] = "ok"
    BY <1>1, RemovedBy DEF RemovedInv
  <2> QED  BY <2>2, <2>3
<1>2. ASSUME NEW f \in Files, NEW how \in {"grown", "shrunk", "rewritten"}, Changes(f, how)
      PROVE  RemovedInv'
  BY <1>2 DEF Changes, control, RemovedInv
<1>3. CASE UNCHANGED vars
  BY <1>3 DEF vars, files, sources, control, RemovedInv
<1> QED  BY <1>1, <1>2, <1>3 DEF Next

(* What a worker counts, it counts in its bar as well.                     *)
LEMMA BarCounted ==
    ASSUME FileTypes, StateTypes, NEW w \in Workers, WorkerInv(w), ~Grown(w), Worker(w),
           progress[w] <= copied_bytes
    PROVE  copied_bytes' = copied_bytes - progress[w] + progress'[w] /\ progress'[w] \in Nat
<1>0. /\ progress[w] \in Nat /\ pending_bytes[w] \in Nat /\ SizeOf(w) \in Nat /\ copied_bytes \in Nat
      /\ \A x : Set(progress, w, x)[w] = x
  BY OwnTyped DEF StateTypes
<1>1. CASE UNCHANGED <<copied_bytes, progress>>
  BY <1>0, <1>1
<1>2. ASSUME NEW n \in Nat, Count(w, n)
      PROVE  copied_bytes' = copied_bytes - progress[w] + progress'[w] /\ progress'[w] \in Nat
  BY <1>0, <1>2 DEF Count
<1>3. CASE CopyRange(w) \/ ReadUnit(w) \/ EndOfFile(w)
  <2>1. UNCHANGED <<copied_bytes, progress>> \/ \E n \in {1, pending_bytes[w] + 1, pending_bytes[w]} : Count(w, n)
    BY <1>3 DEF CopyRange, ReadUnit, EndOfFile
  <2>2. {1, pending_bytes[w] + 1, pending_bytes[w]} \subseteq Nat
    BY <1>0
  <2> QED  BY <1>1, <1>2, <2>1, <2>2
<1>4. CASE Finalize(w)
  <2>1. progress[w] <= SizeOf(w)
    BY <1>4 DEF Finalize, WorkerInv, BarInv
  <2>2. copied_bytes' = copied_bytes + (SizeOf(w) - progress[w]) /\ progress'[w] = SizeOf(w)
    BY <1>0, <1>4, <2>1 DEF Finalize
  <2> QED  BY <1>0, <2>2
<1>5. CASE Rollback(w)
  <2>1. copied_bytes' = copied_bytes - progress[w] /\ progress'[w] = 0
    BY <1>0, <1>5 DEF Rollback
  <2> QED  BY <1>0, <2>1
<1>6. CASE \/ Open(w) \/ RangeCopied(w) \/ ZeroCopyUnavailable(w) \/ AttemptFails(w)
           \/ Verified(w) \/ NotVerified(w) \/ RemoveSource(w)
  BY <1>1, <1>6 DEF Open, RangeCopied, ZeroCopyUnavailable, AttemptFails, Verified, NotVerified,
     RemoveSource, counts
<1> QED  BY <1>3, <1>4, <1>5, <1>6 DEF Worker

LEMMA CountKept ==
    ASSUME FileTypes, StateTypes, \A w \in Workers : WorkerInv(w), CountInv, [Next]_vars
    PROVE  CountInv'
<1>0. IsFiniteSet(Workers) /\ \A v \in Workers : progress[v] \in Nat
  BY CopyAssumption DEF StateTypes
<1>1. ASSUME NEW w \in Workers, Worker(w)
      PROVE  CountInv'
  <2> SUFFICES ASSUME \A f \in Files : change'[f] # "grown"
               PROVE  copied_bytes' = SumFunctionOnSet(progress', Workers)
    BY DEF CountInv
  <2>1. UNCHANGED <<from, change>> /\ \A v \in Workers \ {w} : progress'[v] = progress[v]
    BY <1>1, LocalKept DEF WorkerInv, Local
  <2>2. copied_bytes = SumFunctionOnSet(progress, Workers)
    BY <2>1 DEF CountInv
  <2>3. progress[w] <= copied_bytes
    BY <1>0, <2>2, SumNat
  <2>4. ~Grown(w)
    BY <2>1, SourceTyped DEF Grown
  <2>5. copied_bytes' = copied_bytes - progress[w] + progress'[w] /\ progress'[w] \in Int
    BY <1>1, <2>3, <2>4, BarCounted
  <2>6. \A v \in Workers : progress[v] \in Int
    BY <1>0
  <2>7. SumFunctionOnSet(progress', Workers) = SumFunctionOnSet(progress, Workers) - progress[w] + progress'[w]
    BY <1>0, <2>1, <2>5, <2>6, SumChange
  <2> QED  BY <2>2, <2>5, <2>7, Zenon
<1>2. ASSUME NEW f \in Files, NEW how \in {"grown", "shrunk", "rewritten"}, Changes(f, how)
      PROVE  CountInv'
  <2>1. UNCHANGED <<copied_bytes, progress>> /\ \A g \in Files : change[g] # "grown"
    BY <1>2 DEF Changes, counts
  <2> QED  BY <2>1 DEF CountInv
<1>3. CASE UNCHANGED vars
  BY <1>3 DEF vars, counts, CountInv
<1> QED  BY <1>1, <1>2, <1>3 DEF Next

-----------------------------------------------------------------------------
(* The theorems.                                                           *)

LEMMA InitInv == Init => CopyInv
<1> SUFFICES ASSUME Init
             PROVE  CopyInv
  OBVIOUS
<1>0. FileTypes /\ StateTypes
  BY InitTyped, Types
<1>1. SourceInv
  <2> SUFFICES ASSUME NEW f \in Files
               PROVE  source[f] = Original(f) /\ Len(source[f]) <= Size[f]
    BY DEF SourceInv
  <2>1. source[f] = Original(f)
    BY DEF Init
  <2> QED  BY <2>1, OriginalTyped
<1>2. ASSUME NEW w \in Workers
      PROVE  WorkerInv(w) /\ KeptInv(w)
  <2>1. /\ temp[w] = NoFile /\ parts[w] = 0 /\ refused[w] = 0 /\ progress[w] = 0
        /\ pc[w] = "open" /\ result[w] = "none"
    BY DEF Init
  <2> QED  BY <2>1 DEF WorkerInv, KeptInv, TempInv, ResultInv, BarInv
<1>3. RemovedInv /\ DestInv
  BY DEF Init, RemovedInv, DestInv, IsFile
<1>4. CountInv
  <2>1. \A w \in Workers : progress[w] = 0
    BY DEF Init
  <2>2. SumFunctionOnSet(progress, Workers) = 0
    BY <2>1, SumZero, CopyAssumption
  <2> QED  BY <2>2 DEF Init, CountInv
<1> QED  BY <1>1, <1>2, <1>3, <1>4 DEF CopyInv

LEMMA Invariance == Spec => [](TypeOK /\ CopyInv)
<1>1. Init => TypeOK /\ CopyInv
  BY InitTyped, InitInv
<1>2. TypeOK /\ CopyInv /\ [Next]_vars => (TypeOK /\ CopyInv)'
  <2> SUFFICES ASSUME TypeOK, CopyInv, [Next]_vars
               PROVE  TypeOK' /\ CopyInv'
    OBVIOUS
  <2>1. FileTypes /\ StateTypes
    BY Types
  <2>2. TypeOK'
    BY StepTyped DEF CopyInv, WorkerInv
  <2>3. \A w \in Workers : WorkerInv(w)'
    BY <2>1, WorkersKept DEF CopyInv
  <2>4. SourceInv' /\ RemovedInv' /\ CountInv'
    BY <2>1, SourcesKept, RemovedKept, CountKept DEF CopyInv
  <2>5. DestInv' /\ \A w \in Workers : KeptInv(w)'
    BY <2>1, DestsKept DEF CopyInv
  <2> QED  BY <2>2, <2>3, <2>4, <2>5 DEF CopyInv
<1> QED  BY <1>1, <1>2, PTL DEF Spec

(* Every reachable state is well typed: the files are absent or sequences  *)
(* of units, and neither the byte counter nor a bar goes below zero when a *)
(* failed attempt is rolled back. *)
THEOREM CopyTypes == Spec => []TypeOK
BY Invariance, PTL

(* Whatever fails, and however many items of one name are renamed to it, a *)
(* destination is absent, the old file, or as long as the source of the    *)
(* worker that changed it last, unless that source was changed: it is only *)
(* ever replaced by the rename of a complete temporary file.               *)
THEOREM CopyDestinationWhole == Spec => []DestinationWhole
<1>1. TypeOK /\ CopyInv => DestinationWhole
  BY DEF CopyInv, DestInv, DestinationWhole
<1> QED  BY <1>1, Invariance, PTL

(* A verified transfer left a destination equal to its source, and of      *)
(* every source that delete mode removed a whole copy was reported, also   *)
(* when several devices copy the same source and one removes it while the  *)
(* others retry: both until another item of the same name changes the      *)
(* destination, and for sources that their owner left alone.               *)
THEOREM CopyDeletedIsKept == Spec => []DeletedIsKept
<1>1. TypeOK /\ CopyInv => DeletedIsKept
  <2> SUFFICES ASSUME TypeOK, CopyInv
               PROVE  DeletedIsKept
    OBVIOUS
  <2>1. \A w \in Workers : KeptInv(w)
    BY DEF CopyInv
  <2>2. ASSUME NEW f \in removed, change[f] = "none"
        PROVE  \E w \in Workers : /\ from[w] = f /\ result[w] = "ok"
                                  /\ last[to[w]] = w => Len(dest[to[w]]) = Size[f]
    <3>1. PICK w \in Workers : from[w] = f /\ result[w] = "ok"
      BY DEF CopyInv, RemovedInv
    <3>2. last[to[w]] = w => Len(dest[to[w]]) = Size[f]
      BY <2>1, <2>2, <3>1 DEF KeptInv, Steady, SizeOf
    <3> QED  BY <3>1, <3>2
  <2>3. \A f \in {g \in removed : change[g] = "none"} :
            \E w \in Workers : /\ from[w] = f /\ result[w] = "ok"
                               /\ last[to[w]] = w => Len(dest[to[w]]) = Size[f]
    BY <2>2
  <2> QED  BY <2>1, <2>3 DEF KeptInv, DeletedIsKept
<1> QED  BY <1>1, Invariance, PTL

(* A copy that ended, well or after its last attempt failed, has left no   *)
(* temporary file but those that the disk refused to remove: every file an *)
(* attempt created was renamed, removed or refused.                        *)
THEOREM CopyNothingLeftBehind == Spec => []NothingLeftBehind
<1>1. TypeOK /\ CopyInv => NothingLeftBehind
  BY DEF CopyInv, WorkerInv, TempInv, NothingLeftBehind
<1> QED  BY <1>1, Invariance, PTL

(* While no source grows, the byte counter the workers share is the sum of *)
(* their bars, for any interleaving of chunks, failures and rollbacks; and *)
(* a copy that ended counts for its size or, if it failed, not at all. *)
THEOREM CopyCopiedExact == Spec => []CopiedExact
<1>1. TypeOK /\ CopyInv => CopiedExact
  <2> SUFFICES ASSUME TypeOK, CopyInv, \A f \in Files : change[f] # "grown"
               PROVE  /\ copied_bytes = SumFunction(progress)
                      /\ \A w \in Workers : pc[w] = "end" =>
                             progress[w] = IF result[w] = "ok" THEN SizeOf(w) ELSE 0
    BY DEF CopiedExact
  <2>1. FileTypes /\ DOMAIN progress = Workers
    BY Types DEF StateTypes
  <2>2. copied_bytes = SumFunction(progress)
    <3>1. copied_bytes = SumFunctionOnSet(progress, Workers)
      BY DEF CopyInv, CountInv
    <3>2. SumFunction(progress) = SumFunctionOnSet(progress, DOMAIN progress)
      BY Zenon DEF SumFunction
    <3> QED  BY <2>1, <3>1, <3>2, Zenon
  <2>3. \A w \in Workers : ~Grown(w)
    BY <2>1, SourceTyped DEF Grown
  <2> QED  BY <2>2, <2>3 DEF CopyInv, WorkerInv, BarInv
<1> QED  BY <1>1, Invariance, PTL

-----------------------------------------------------------------------------
(* Steps.                                                                  *)

(* A result that was reported never changes; the destination it was        *)
(* reported of is changed after only by another worker whose item has the  *)
(* same destination and no result yet; and a source is only removed by a   *)
(* worker that reported its copy as good (ResultIsFinal): with any number  *)
(* of workers, destinations and retries, however the owners change the     *)
(* sources.                                                                *)
THEOREM CopyResultIsFinal == Spec => ResultIsFinal
<1>1. TypeOK /\ CopyInv /\ [Next]_vars =>
          [/\ \A w \in Workers : result[w] # "none" =>
                  /\ UNCHANGED result[w]
                  /\ dest'[to[w]] # dest[to[w]] =>
                       \E v \in Workers \ {w} : to[v] = to[w] /\ result[v] = "none"
           /\ \A f \in removed' \ removed : \E w \in Workers : from[w] = f /\ result[w] = "ok"]_vars
  <2> SUFFICES ASSUME TypeOK, CopyInv, [Next]_vars
               PROVE  /\ \A w \in Workers : result[w] # "none" =>
                             /\ result'[w] = result[w]
                             /\ dest'[to[w]] # dest[to[w]] =>
                                  \E v \in Workers \ {w} : to[v] = to[w] /\ result[v] = "none"
                      /\ \A f \in removed' \ removed :
                             \E w \in Workers : from[w] = f /\ result[w] = "ok"
    OBVIOUS
  <2>0. FileTypes /\ StateTypes /\ \A w \in Workers : WorkerInv(w)
    BY Types DEF CopyInv
  <2>1. ASSUME NEW w \in Workers, Worker(w)
        PROVE  /\ \A v \in Workers : result[v] # "none" =>
                      /\ result'[v] = result[v]
                      /\ dest'[to[v]] # dest[to[v]] => v # w /\ to[w] = to[v] /\ result[w] = "none"
               /\ \A f \in removed' \ removed : from[w] = f /\ result[w] = "ok"
    BY <2>0, <2>1, ResultStays, RemovedBy
  <2>2. CASE (\E f \in Files, how \in {"grown", "shrunk", "rewritten"} : Changes(f, how))
             \/ UNCHANGED vars
    BY <2>2 DEF Changes, vars, files, sources, dests, control
  <2> QED  BY <2>1, <2>2 DEF Next
<1> QED  BY <1>1, Invariance, PTL DEF Spec, ResultIsFinal
=============================================================================
