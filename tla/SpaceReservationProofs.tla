----------------------- MODULE SpaceReservationProofs -----------------------
(***************************************************************************)
(* Theorems about the space checks, for any number of workers, any sizes   *)
(* of the files and of the filesystem, and queues of any length.           *)
(*                                                                         *)
(* Each property compares a counter with a sum over the workers.  The      *)
(* invariant keeps these sums over all the workers, with a 0 for those     *)
(* that do not count, so that the step of a worker changes one term.       *)
(***************************************************************************)
EXTENDS SpaceReservation, DataTheorems

(* The bytes a worker has reserved; those its reservation has left, less   *)
(* than none when it takes more; those it is to write yet, reserved or     *)
(* not; and those it gives back if its copy fails.                         *)
Held == [w \in Workers |-> IF Holds(w) THEN bytes[w] ELSE 0]
Due  == [w \in Workers |-> IF pc[w] = "copy" THEN bytes[w] - written[w] - kept[w] ELSE 0]
Owed == [w \in Workers |-> IF pc[w] \in {"probe", "reserve", "copy"}
                           THEN bytes[w] - written[w] ELSE 0]
Given == [w \in Workers |-> written[w] + kept[w]]

HeldSum  == SumFunctionOnSet(Held, Workers)
DueSum   == SumFunctionOnSet(Due, Workers)
OwedSum  == SumFunctionOnSet(Owed, Workers)
GivenSum == SumFunctionOnSet(Given, Workers)

SpaceInv ==
    /\ reserved = HeldSum
    /\ ~stale /\ (\E w \in Workers : Holds(w)) => available + outgrown >= Margin + DueSum
    /\ phase = "transfer" /\ late = 0 /\ excess = 0 => available >= Total(channel) + OwedSum
    /\ FullOnlyLate

(* Only a copy has bytes it may give back, nothing is copied before the    *)
(* preflight check, and a transfer that never took more than it reserved   *)
(* has left nothing beyond its reservation.                                *)
StepInv ==
    /\ \A w \in Workers : pc[w] # "copy" => written[w] = 0 /\ kept[w] = 0
    /\ available + GivenSum <= Capacity
    /\ phase # "transfer" => late = 0 /\ \A w \in Workers : pc[w] = "idle"
    /\ excess = 0 => outgrown = 0 /\ \A w \in Workers : kept[w] = 0 /\ written[w] <= bytes[w]

-----------------------------------------------------------------------------
(* The sums.                                                               *)

LEMMA SizesNat == \A n \in Sizes : n \in Nat
BY SpaceAssumption

LEMMA BytesNat ==
    TypeOK => \A w \in Workers : bytes[w] \in Nat /\ written[w] \in Nat /\ kept[w] \in Nat
<1> SUFFICES ASSUME TypeOK, NEW w \in Workers
             PROVE  bytes[w] \in Nat /\ written[w] \in Nat /\ kept[w] \in Nat
  OBVIOUS
<1>1. bytes[w] \in Sizes \cup {0} /\ written[w] \in Nat /\ kept[w] \in Nat
  BY DEF TypeOK
<1> QED  BY <1>1, SizesNat

LEMMA CountsNat ==
    TypeOK => available \in Nat /\ reserved \in Nat /\ outgrown \in Nat /\ excess \in Nat
BY SpaceAssumption DEF TypeOK

LEMMA TermsTyped ==
    TypeOK => \A w \in Workers : /\ Held[w] \in Nat /\ Due[w] \in Int /\ Owed[w] \in Int
                                 /\ Given[w] \in Nat /\ Due[w] <= Held[w]
<1> SUFFICES ASSUME TypeOK, NEW w \in Workers
             PROVE  /\ Held[w] \in Nat /\ Due[w] \in Int /\ Owed[w] \in Int
                    /\ Given[w] \in Nat /\ Due[w] <= Held[w]
  OBVIOUS
<1>1. bytes[w] \in Nat /\ written[w] \in Nat /\ kept[w] \in Nat
  BY BytesNat
<1> QED  BY <1>1 DEF Held, Due, Owed, Given, Holds

LEMMA SumsTyped ==
    TypeOK => /\ HeldSum \in Nat /\ DueSum \in Int /\ OwedSum \in Int /\ GivenSum \in Nat
              /\ DueSum <= HeldSum
              /\ \A w \in Workers : Held[w] <= HeldSum /\ Given[w] <= GivenSum
<1> SUFFICES ASSUME TypeOK
             PROVE  /\ HeldSum \in Nat /\ DueSum \in Int /\ OwedSum \in Int /\ GivenSum \in Nat
                    /\ DueSum <= HeldSum
                    /\ \A w \in Workers : Held[w] <= HeldSum /\ Given[w] <= GivenSum
  OBVIOUS
<1>1. \A w \in Workers : /\ Held[w] \in Nat /\ Held[w] \in Int /\ Due[w] \in Int
                         /\ Owed[w] \in Int /\ Given[w] \in Nat /\ Due[w] <= Held[w]
  BY TermsTyped
<1>2. IsFiniteSet(Workers)
  BY SpaceAssumption
<1>3. HeldSum \in Nat /\ \A w \in Workers : Held[w] <= HeldSum
  BY <1>1, <1>2, SumNat DEF HeldSum
<1>4. DueSum \in Int
  BY <1>1, <1>2, SumInt DEF DueSum
<1>5. OwedSum \in Int
  BY <1>1, <1>2, SumInt DEF OwedSum
<1>6. GivenSum \in Nat /\ \A w \in Workers : Given[w] <= GivenSum
  BY <1>1, <1>2, SumNat DEF GivenSum
<1>7. DueSum <= HeldSum
  BY <1>1, <1>2, SumLeq DEF DueSum, HeldSum
<1> QED  BY <1>3, <1>4, <1>5, <1>6, <1>7

(* While no transfer takes more than it reserved, every worker's part is   *)
(* at most the whole.                                                      *)
LEMMA CalmSums ==
    ASSUME TypeOK, StepInv, excess = 0, NEW w \in Workers
    PROVE  Due[w] <= DueSum /\ Owed[w] <= OwedSum
<1>1. \A v \in Workers : Due[v] \in Nat /\ Owed[v] \in Nat
  BY BytesNat DEF StepInv, Due, Owed
<1>2. IsFiniteSet(Workers)
  BY SpaceAssumption
<1>3. Due[w] <= DueSum
  BY <1>1, <1>2, SumNat DEF DueSum
<1>4. Owed[w] <= OwedSum
  BY <1>1, <1>2, SumNat DEF OwedSum
<1> QED  BY <1>3, <1>4

(* The step of a worker changes its own term.                              *)
LEMMA WorkerSum ==
    ASSUME NEW f, NEW g, NEW w \in Workers, \A v \in Workers : f[v] \in Int, g[w] \in Int,
           \A v \in Workers \ {w} : g[v] = f[v]
    PROVE  SumFunctionOnSet(g, Workers) = SumFunctionOnSet(f, Workers) - f[w] + g[w]
BY SpaceAssumption, SumChange

(* No other worker's file or bytes change. *)
Alone(w) == \A v \in Workers \ {w} : /\ pc'[v] = pc[v] /\ bytes'[v] = bytes[v]
                                     /\ written'[v] = written[v] /\ kept'[v] = kept[v]

LEMMA TermsTypedNext ==
    ASSUME TypeOK', NEW w \in Workers
    PROVE  /\ Held'[w] \in Int /\ Due'[w] \in Int /\ Owed'[w] \in Int /\ Given'[w] \in Int
           /\ bytes'[w] \in Nat /\ written'[w] \in Nat /\ kept'[w] \in Nat
<1>1. bytes'[w] \in Sizes \cup {0} /\ written'[w] \in Nat /\ kept'[w] \in Nat
  BY DEF TypeOK
<1>2. bytes'[w] \in Nat
  BY <1>1, SizesNat
<1> QED  BY <1>1, <1>2 DEF Held, Due, Owed, Given, Holds

LEMMA OneWorker ==
    ASSUME TypeOK, TypeOK', NEW w \in Workers, Alone(w)
    PROVE  /\ HeldSum' = HeldSum - Held[w] + Held'[w]
           /\ DueSum' = DueSum - Due[w] + Due'[w]
           /\ OwedSum' = OwedSum - Owed[w] + Owed'[w]
           /\ GivenSum' = GivenSum - Given[w] + Given'[w]
<1>1. \A v \in Workers : /\ Held[v] \in Int /\ Due[v] \in Int /\ Owed[v] \in Int
                         /\ Given[v] \in Int
  BY TermsTyped
<1>2. /\ Held'[w] \in Int /\ Due'[w] \in Int /\ Owed'[w] \in Int /\ Given'[w] \in Int
  BY TermsTypedNext
<1>3. \A v \in Workers \ {w} : Held'[v] = Held[v] /\ Due'[v] = Due[v] /\ Owed'[v] = Owed[v]
                              /\ Given'[v] = Given[v]
  BY DEF Alone, Held, Due, Owed, Given, Holds
<1>4. SumFunctionOnSet(Held', Workers) = SumFunctionOnSet(Held, Workers) - Held[w] + Held'[w]
  <2>1. (\A v \in Workers : Held[v] \in Int) /\ Held'[w] \in Int
    BY <1>1, <1>2
  <2>2. \A v \in Workers \ {w} : Held'[v] = Held[v]
    BY <1>3
  <2> QED  BY <2>1, <2>2, WorkerSum
<1>5. SumFunctionOnSet(Due', Workers) = SumFunctionOnSet(Due, Workers) - Due[w] + Due'[w]
  <2>1. (\A v \in Workers : Due[v] \in Int) /\ Due'[w] \in Int
    BY <1>1, <1>2
  <2>2. \A v \in Workers \ {w} : Due'[v] = Due[v]
    BY <1>3
  <2> QED  BY <2>1, <2>2, WorkerSum
<1>6. SumFunctionOnSet(Owed', Workers) = SumFunctionOnSet(Owed, Workers) - Owed[w] + Owed'[w]
  <2>1. (\A v \in Workers : Owed[v] \in Int) /\ Owed'[w] \in Int
    BY <1>1, <1>2
  <2>2. \A v \in Workers \ {w} : Owed'[v] = Owed[v]
    BY <1>3
  <2> QED  BY <2>1, <2>2, WorkerSum
<1>7. SumFunctionOnSet(Given', Workers) = SumFunctionOnSet(Given, Workers) - Given[w] + Given'[w]
  <2>1. (\A v \in Workers : Given[v] \in Int) /\ Given'[w] \in Int
    BY <1>1, <1>2
  <2>2. \A v \in Workers \ {w} : Given'[v] = Given[v]
    BY <1>3
  <2> QED  BY <2>1, <2>2, WorkerSum
<1> QED  BY <1>4, <1>5, <1>6, <1>7, Zenon DEF HeldSum, DueSum, OwedSum, GivenSum

(* A step that leaves the workers alone changes none.                      *)
LEMMA NoWorker ==
    ASSUME UNCHANGED <<pc, bytes, written, kept>>
    PROVE  /\ HeldSum' = HeldSum /\ DueSum' = DueSum /\ OwedSum' = OwedSum
           /\ GivenSum' = GivenSum
<1>1. Held' = Held /\ Due' = Due /\ Owed' = Owed /\ Given' = Given
  BY DEF Held, Due, Owed, Given, Holds
<1> QED  BY <1>1, Zenon DEF HeldSum, DueSum, OwedSum, GivenSum

LEMMA NoneHeld ==
    ASSUME \A w \in Workers : ~Holds(w)
    PROVE  HeldSum = 0
<1>1. \A w \in Workers : Held[w] = 0
  BY DEF Held
<1> QED  BY <1>1, SpaceAssumption, SumZero DEF HeldSum

LEMMA IdleSums ==
    ASSUME \A w \in Workers : pc[w] = "idle"
    PROVE  HeldSum = 0 /\ DueSum = 0 /\ OwedSum = 0
<1>1. \A w \in Workers : Held[w] = 0 /\ Due[w] = 0 /\ Owed[w] = 0
  BY DEF Held, Due, Owed, Holds
<1>2. IsFiniteSet(Workers)
  BY SpaceAssumption
<1> QED  BY <1>1, <1>2, SumZero DEF HeldSum, DueSum, OwedSum

LEMMA NothingWritten ==
    ASSUME \A w \in Workers : written[w] = 0 /\ kept[w] = 0
    PROVE  GivenSum = 0
<1>1. \A w \in Workers : Given[w] = 0
  BY DEF Given
<1> QED  BY <1>1, SpaceAssumption, SumZero DEF GivenSum

(* The queue.                                                              *)
LEMMA Totals ==
    ASSUME NEW q \in Seq(Sizes)
    PROVE  /\ Total(q) \in Nat
           /\ \A n \in Sizes : Total(Append(q, n)) = Total(q) + n
           /\ q # <<>> => Total(Tail(q)) = Total(q) - Head(q)
<1>1. \A p : Total(p) = SumFunction(p)
  BY Zenon DEF Total, SumFunction, SumFunctionOnSet, FoldFunction
<1>2. q \in Seq(Int) /\ Sizes \subseteq Int
  <2>1. \A i \in 1..Len(q) : q[i] \in Sizes
    OBVIOUS
  <2>2. \A i \in 1..Len(q) : q[i] \in Int
    BY <2>1, SizesNat
  <2> QED  BY <2>2, SizesNat
<1>3. \A n \in Sizes : Total(Append(q, n)) = Total(q) + n
  BY <1>1, <1>2, SumAppend
<1>4. q # <<>> => Total(Tail(q)) = Total(q) - Head(q)
  BY <1>1, <1>2, SumTail
<1>5. Total(q) \in Nat
  <2>1. IsFiniteSet(DOMAIN q)
    BY FS_Interval
  <2>2. \A i \in DOMAIN q : q[i] \in Nat
    <3>1. \A i \in DOMAIN q : q[i] \in Sizes
      OBVIOUS
    <3> QED  BY <3>1, SizesNat
  <2>3. SumFunctionOnSet(q, DOMAIN q) \in Nat
    BY <2>1, <2>2, SumNat
  <2> QED  BY <1>1, <2>3, Zenon DEF SumFunction
<1> QED  BY <1>3, <1>4, <1>5

-----------------------------------------------------------------------------
(* The attempts at a file.                                                 *)

(* What each step of a copy does: it never makes the filesystem larger,    *)
(* spends no more than its reservation has left but for what is counted    *)
(* in outgrown, and is counted in excess before it takes more.             *)
Spends(w) ==
    /\ pc[w] = "copy" /\ pc'[w] \in {"copy", "release"} /\ pc' = [pc EXCEPT ![w] = pc'[w]]
    /\ UNCHANGED <<reserved, probe, until, bytes, phase, channel, late, stale>>
    /\ written' = [written EXCEPT ![w] = written'[w]] /\ written'[w] \in Nat
    /\ kept' = [kept EXCEPT ![w] = kept'[w]] /\ kept'[w] \in Nat
    /\ pc'[w] # "copy" => written'[w] = 0 /\ kept'[w] = 0
    /\ available' \in Nat /\ outgrown' \in Nat /\ excess' \in 0..MaxExcess
    /\ available' + written'[w] + kept'[w] <= available + written[w] + kept[w]
    /\ available' + outgrown' - (IF pc'[w] = "copy" THEN bytes[w] - written'[w] - kept'[w] ELSE 0)
          >= available + outgrown - (bytes[w] - written[w] - kept[w])
    /\ excess' = 0 => excess = 0
    /\ excess' = 0 /\ outgrown = 0 /\ kept[w] = 0 /\ written[w] <= bytes[w] =>
         /\ outgrown' = 0 /\ kept'[w] = 0 /\ written'[w] <= bytes[w]
         /\ available' - (IF pc'[w] = "copy" THEN bytes[w] - written'[w] ELSE 0)
              >= available - (bytes[w] - written[w])
    /\ full' \in BOOLEAN
    /\ full' => full \/ (available = 0 /\ written[w] < bytes[w])

LEMMA Attempt ==
    ASSUME TypeOK, NEW w \in Workers,
           Write(w) \/ Copied(w) \/ VerifyFails(w) \/ AttemptFails(w) \/ CopyFails(w)
    PROVE  Spends(w)
<1>1. /\ bytes[w] \in Nat /\ written[w] \in Nat /\ kept[w] \in Nat
      /\ available \in Nat /\ outgrown \in Nat /\ excess \in Nat /\ MaxExcess \in Nat
      /\ excess <= MaxExcess /\ full \in BOOLEAN
  BY BytesNat, SpaceAssumption DEF TypeOK
<1>2. /\ pc \in [Workers -> {"idle", "probe", "reserve", "copy", "release", "stopped"}]
      /\ written \in [Workers -> Nat] /\ kept \in [Workers -> Nat]
  BY DEF TypeOK
<1>3. CASE Write(w)
  <2>1. /\ pc[w] = "copy" /\ available > 0 /\ available' = available - 1
        /\ UNCHANGED <<reserved, probe, until, pc, bytes, kept, outgrown, phase, channel, late, stale, full>>
        /\ written' = [written EXCEPT ![w] = written[w] + 1]
    BY <1>3 DEF Write, Set, cache, batch
  <2>2. written'[w] = written[w] + 1 /\ pc' = [pc EXCEPT ![w] = pc'[w]]
        /\ written' = [written EXCEPT ![w] = written'[w]]
        /\ kept' = [kept EXCEPT ![w] = kept'[w]]
    BY <1>2, <2>1
  <2>3. \/ excess' = excess /\ written[w] < bytes[w]
        \/ excess < MaxExcess /\ excess' = excess + 1
    BY <1>3 DEF Write, Exceeds
  <2> QED  BY <1>1, <2>1, <2>2, <2>3 DEF Spends
<1>4. CASE Copied(w)
  <2>1. /\ pc[w] = "copy" /\ available' = available + kept[w]
        /\ UNCHANGED <<reserved, probe, until, bytes, excess, phase, channel, late, stale, full>>
        /\ outgrown' = outgrown + Minus(written[w], bytes[w])
        /\ pc' = [pc EXCEPT ![w] = "release"]
        /\ written' = [written EXCEPT ![w] = 0] /\ kept' = [kept EXCEPT ![w] = 0]
    BY <1>4 DEF Copied, Set, cache, batch
  <2>2. written'[w] = 0 /\ kept'[w] = 0 /\ pc'[w] = "release"
        /\ pc' = [pc EXCEPT ![w] = pc'[w]] /\ written' = [written EXCEPT ![w] = written'[w]]
        /\ kept' = [kept EXCEPT ![w] = kept'[w]]
    BY <1>2, <2>1
  <2>3. /\ Minus(written[w], bytes[w]) \in Nat
        /\ Minus(written[w], bytes[w]) >= written[w] - bytes[w]
        /\ written[w] <= bytes[w] => Minus(written[w], bytes[w]) = 0
    BY <1>1 DEF Minus
  <2>4. /\ available' \in Nat /\ outgrown' \in Nat
        /\ available' <= available + written[w] + kept[w]
        /\ available' + outgrown' >= available + outgrown - (bytes[w] - written[w] - kept[w])
        /\ outgrown = 0 /\ kept[w] = 0 /\ written[w] <= bytes[w] =>
             outgrown' = 0 /\ available' >= available - (bytes[w] - written[w])
    BY <1>1, <2>1, <2>3
  <2> QED  BY <1>1, <2>1, <2>2, <2>4 DEF Spends
<1>5. CASE VerifyFails(w)
  <2>1. /\ pc[w] = "copy" /\ available' = available + kept[w] /\ excess < MaxExcess /\ excess' = excess + 1
        /\ UNCHANGED <<reserved, probe, until, pc, bytes, outgrown, phase, channel, late, stale, full>>
        /\ written' = [written EXCEPT ![w] = 0] /\ kept' = [kept EXCEPT ![w] = written[w]]
    BY <1>5 DEF VerifyFails, Exceeds, Set, cache, batch
  <2>2. written'[w] = 0 /\ kept'[w] = written[w] /\ pc' = [pc EXCEPT ![w] = pc'[w]]
        /\ written' = [written EXCEPT ![w] = written'[w]] /\ kept' = [kept EXCEPT ![w] = kept'[w]]
    BY <1>2, <2>1
  <2> QED  BY <1>1, <2>1, <2>2 DEF Spends
<1>6. ASSUME NEW stays \in {0, written[w]}, NEW keeps \in {0, kept[w]}, Fails(w, stays, keeps)
      PROVE  /\ pc[w] = "copy" /\ UNCHANGED <<reserved, probe, until, phase, channel, late, stale>>
             /\ available' = available + (written[w] - stays) + (kept[w] - keeps)
             /\ written' = [written EXCEPT ![w] = 0] /\ written'[w] = 0
             /\ \/ excess' = excess /\ stays = 0
                \/ excess < MaxExcess /\ excess' = excess + 1
             /\ stays \in Nat /\ keeps \in Nat /\ stays <= written[w] /\ keeps <= kept[w]
             /\ full' \in BOOLEAN /\ (full' => full \/ (available = 0 /\ written[w] < bytes[w]))
  <2>1. written' = [written EXCEPT ![w] = 0] /\ pc[w] = "copy"
        /\ UNCHANGED <<reserved, probe, until, phase, channel, late, stale>>
        /\ available' = available + (written[w] - stays) + (kept[w] - keeps)
    BY <1>6 DEF Fails, Set, cache, batch
  <2>2. \/ excess' = excess /\ stays = 0
        \/ excess < MaxExcess /\ excess' = excess + 1
    BY <1>6 DEF Fails, Exceeds
  <2>3. full' \in BOOLEAN /\ (full' => full \/ (available = 0 /\ written[w] < bytes[w]))
    BY <1>1, <1>6, Zenon DEF Fails
  <2>4. stays \in Nat /\ keeps \in Nat /\ stays <= written[w] /\ keeps <= kept[w]
    BY <1>1
  <2> QED  BY <1>2, <2>1, <2>2, <2>3, <2>4
<1>7. ASSUME NEW stays \in {0, written[w]}, NEW keeps \in {0, kept[w]}, Fails(w, stays, keeps),
             kept' = Set(kept, w, keeps), outgrown' = outgrown + stays, UNCHANGED <<pc, bytes>>
      PROVE  Spends(w)
  <2>1. kept' = [kept EXCEPT ![w] = keeps] /\ kept'[w] = keeps
        /\ pc' = [pc EXCEPT ![w] = pc'[w]] /\ pc'[w] = pc[w]
    BY <1>2, <1>7 DEF Set
  <2>2. UNCHANGED bytes /\ outgrown' = outgrown + stays
    BY <1>7
  <2>3. written' = [written EXCEPT ![w] = written'[w]] /\ kept' = [kept EXCEPT ![w] = kept'[w]]
    BY <1>6, <1>7, <2>1
  <2>4. \/ excess' = excess /\ stays = 0
        \/ excess' = excess + 1 /\ excess + 1 <= MaxExcess /\ excess' # 0
    BY <1>1, <1>6, <1>7
  <2>5. kept[w] = 0 => keeps = 0
    OBVIOUS
  <2>6. pc[w] = "copy" /\ available' = available + (written[w] - stays) + (kept[w] - keeps)
        /\ written'[w] = 0 /\ stays \in Nat /\ keeps \in Nat /\ stays <= written[w] /\ keeps <= kept[w]
    BY <1>6, <1>7
  <2>7. UNCHANGED <<reserved, probe, until, phase, channel, late, stale>> /\ full' \in BOOLEAN
        /\ (full' => full \/ (available = 0 /\ written[w] < bytes[w]))
    BY <1>6, <1>7
  <2>8. /\ available' \in Nat /\ outgrown' \in Nat
        /\ available' + keeps <= available + written[w] + kept[w]
        /\ available' + outgrown' - (bytes[w] - keeps)
              >= available + outgrown - (bytes[w] - written[w] - kept[w])
        /\ stays = 0 /\ outgrown = 0 /\ kept[w] = 0 =>
             outgrown' = 0 /\ available' - bytes[w] >= available - (bytes[w] - written[w])
    <3> DEFINE a == available + (written[w] - stays) + (kept[w] - keeps)
               o == outgrown + stays
    <3>1. a \in Nat /\ o \in Nat
      BY <1>1, <2>6
    <3>2. a + keeps <= available + written[w] + kept[w]
      BY <1>1, <2>6
    <3>3. a + o - (bytes[w] - keeps)
            >= available + outgrown - (bytes[w] - written[w] - kept[w])
      BY <1>1, <2>6
    <3>4. stays = 0 /\ outgrown = 0 /\ kept[w] = 0 =>
            o = 0 /\ a - bytes[w] >= available - (bytes[w] - written[w])
      BY <1>1, <2>6
    <3>5. available' = a /\ outgrown' = o
      BY <2>2, <2>6
    <3> HIDE DEF a, o
    <3> QED  BY <3>1, <3>2, <3>3, <3>4, <3>5
  <2>9. excess' \in 0..MaxExcess /\ (excess' = 0 => excess = 0 /\ stays = 0)
    BY <1>1, <2>4
  <2>10. pc'[w] = "copy" /\ written'[w] = 0 /\ kept'[w] = keeps /\ bytes' = bytes /\ pc[w] = "copy"
         /\ keeps \in Nat
    BY <2>1, <2>2, <2>6
  <2>11. bytes[w] - 0 - keeps = bytes[w] - keeps /\ bytes[w] - 0 = bytes[w] /\ 0 <= bytes[w]
         /\ available' + 0 + keeps = available' + keeps
    BY <1>1, <2>8, <2>10
  <2> QED  BY <2>1, <2>3, <2>5, <2>7, <2>8, <2>9, <2>10, <2>11 DEF Spends
<1>8. ASSUME NEW stays \in {0, written[w]}, NEW keeps \in {0, kept[w]}, Fails(w, stays, keeps),
             kept' = Set(kept, w, 0), outgrown' = outgrown + Minus(stays + keeps, bytes[w]),
             pc' = Set(pc, w, "release"), UNCHANGED bytes
      PROVE  Spends(w)
  <2>1. kept' = [kept EXCEPT ![w] = 0] /\ kept'[w] = 0
        /\ pc' = [pc EXCEPT ![w] = "release"] /\ pc'[w] = "release"
    BY <1>2, <1>8 DEF Set
  <2>2. UNCHANGED bytes /\ outgrown' = outgrown + Minus(stays + keeps, bytes[w])
        /\ stays + keeps \in Nat
    BY <1>6, <1>8
  <2>3. /\ Minus(stays + keeps, bytes[w]) \in Nat
        /\ Minus(stays + keeps, bytes[w]) >= stays + keeps - bytes[w]
        /\ stays + keeps <= bytes[w] => Minus(stays + keeps, bytes[w]) = 0
    BY <1>1, <2>2 DEF Minus
  <2>4. written' = [written EXCEPT ![w] = written'[w]] /\ kept' = [kept EXCEPT ![w] = kept'[w]]
        /\ pc' = [pc EXCEPT ![w] = pc'[w]]
    BY <1>6, <1>8, <2>1
  <2>5. \/ excess' = excess /\ stays = 0
        \/ excess' = excess + 1 /\ excess + 1 <= MaxExcess /\ excess' # 0
    BY <1>1, <1>6, <1>8
  <2>6. kept[w] = 0 => keeps = 0
    OBVIOUS
  <2>7. pc[w] = "copy" /\ available' = available + (written[w] - stays) + (kept[w] - keeps)
        /\ written'[w] = 0 /\ stays \in Nat /\ keeps \in Nat /\ stays <= written[w] /\ keeps <= kept[w]
    BY <1>6, <1>8
  <2>8. UNCHANGED <<reserved, probe, until, phase, channel, late, stale>> /\ full' \in BOOLEAN
        /\ (full' => full \/ (available = 0 /\ written[w] < bytes[w]))
    BY <1>6, <1>8
  <2> QED  BY <1>1, <2>1, <2>2, <2>3, <2>4, <2>5, <2>6, <2>7, <2>8 DEF Spends
<1>9. CASE AttemptFails(w)
  BY <1>7, <1>9 DEF AttemptFails
<1>10. CASE CopyFails(w)
  BY <1>8, <1>10 DEF CopyFails
<1> QED  BY <1>3, <1>4, <1>5, <1>9, <1>10

-----------------------------------------------------------------------------
(* Types.                                                                  *)

LEMMA InitTyped == Init => TypeOK
<1> SUFFICES ASSUME Init
             PROVE  TypeOK
  OBVIOUS
<1>1. Capacity \in 0..Capacity /\ 0 \in 0..Recheck /\ 0 \in 0..MaxLate /\ 0 \in 0..MaxExcess
  BY SpaceAssumption
<1>2. written \in [Workers -> Nat] /\ kept \in [Workers -> Nat]
  BY DEF Init
<1>3. probe \in [Workers -> Nat \cup {-1}] /\ until \in [Workers -> 0..Recheck]
  BY <1>1 DEF Init
<1>4. /\ pc \in [Workers -> {"idle", "probe", "reserve", "copy", "release", "stopped"}]
      /\ bytes \in [Workers -> Sizes \cup {0}]
  BY DEF Init
<1>5. channel \in Seq(Sizes)
  BY DEF Init
<1>6. /\ available \in 0..Capacity /\ reserved \in Nat /\ late \in 0..MaxLate
      /\ outgrown \in Nat /\ excess \in 0..MaxExcess
      /\ phase \in {"queue", "transfer", "refused"} /\ stale \in BOOLEAN /\ full \in BOOLEAN
  BY <1>1 DEF Init
<1> QED  BY <1>2, <1>3, <1>4, <1>5, <1>6 DEF TypeOK

LEMMA StepTyped == TypeOK /\ StepInv /\ [Next]_vars => TypeOK'
<1> SUFFICES ASSUME TypeOK, StepInv, [Next]_vars
             PROVE  TypeOK'
  OBVIOUS
<1>1. ASSUME NEW n \in Sizes, Queue(n) \/ WatcherQueues(n)
      PROVE  TypeOK'
  <2>1. channel' \in Seq(Sizes)
    <3>1. channel' = Append(channel, n) /\ channel \in Seq(Sizes)
      BY <1>1 DEF Queue, WatcherQueues, TypeOK
    <3> QED  BY <3>1
  <2>2. late' \in 0..MaxLate
    <3>1. MaxLate \in Nat /\ late \in 0..MaxLate
      BY SpaceAssumption DEF TypeOK
    <3>2. late' = late \/ (late < MaxLate /\ late' = late + 1)
      BY <1>1 DEF Queue, WatcherQueues
    <3> QED  BY <3>1, <3>2
  <2> QED  BY <1>1, <2>1, <2>2 DEF TypeOK, Queue, WatcherQueues, cache, disk
<1>2. CASE Preflight
  BY <1>2 DEF TypeOK, Preflight, cache, disk
<1>3. ASSUME NEW w \in Workers, TakeFile(w)
      PROVE  TypeOK'
  <2>1. Head(channel) \in Sizes /\ channel' \in Seq(Sizes)
    BY <1>3 DEF TypeOK, TakeFile
  <2>2. /\ pc' \in [Workers -> {"idle", "probe", "reserve", "copy", "release", "stopped"}]
        /\ bytes' \in [Workers -> Sizes \cup {0}]
    BY <1>3, <2>1 DEF TypeOK, TakeFile, Set
  <2> QED  BY <1>3, <2>1, <2>2 DEF TypeOK, TakeFile, cache, disk
<1>4. ASSUME NEW w \in Workers, Probe(w) \/ KeepProbe(w) \/ InspectFails(w) \/ Refuse(w)
      PROVE  TypeOK'
  <2>1. pc' \in [Workers -> {"idle", "probe", "reserve", "copy", "release", "stopped"}]
    BY <1>4 DEF TypeOK, Probe, KeepProbe, InspectFails, Refuse, Set
  <2>2. probe' \in [Workers -> Nat \cup {-1}] /\ until' \in [Workers -> 0..Recheck]
    <3>1. /\ available \in Nat /\ Recheck \in 0..Recheck
          /\ probe \in [Workers -> Nat \cup {-1}] /\ until \in [Workers -> 0..Recheck]
      BY SpaceAssumption DEF TypeOK
    <3>2. CASE Probe(w)
      BY <3>1, <3>2 DEF Probe, Set
    <3>3. CASE KeepProbe(w) \/ InspectFails(w) \/ Refuse(w)
      BY <3>1, <3>3 DEF KeepProbe, InspectFails, Refuse, cache
    <3> QED  BY <1>4, <3>2, <3>3
  <2>3. UNCHANGED <<available, reserved, bytes, disk, phase, channel, late, stale, full>>
    BY <1>4 DEF Probe, KeepProbe, InspectFails, Refuse, batch
  <2> QED  BY <2>1, <2>2, <2>3 DEF TypeOK, disk
<1>5. ASSUME NEW w \in Workers, Reserve(w)
      PROVE  TypeOK'
  <2>1. bytes[w] \in Nat
    BY BytesNat
  <2>2. reserved' \in Nat
    BY <1>5, <2>1 DEF TypeOK, Reserve
  <2>3. until' \in [Workers -> 0..Recheck]
    <3>1. until[w] \in Nat /\ until[w] <= Recheck /\ Recheck \in Nat
      BY SpaceAssumption DEF TypeOK
    <3>2. Minus(until[w], bytes[w]) \in 0..Recheck
      BY <2>1, <3>1 DEF Minus
    <3> QED  BY <1>5, <3>2 DEF TypeOK, Reserve, Set
  <2>4. pc' \in [Workers -> {"idle", "probe", "reserve", "copy", "release", "stopped"}]
    BY <1>5 DEF TypeOK, Reserve, Set
  <2>5. stale' \in BOOLEAN
    BY <1>5 DEF TypeOK, Reserve
  <2> QED  BY <1>5, <2>2, <2>3, <2>4, <2>5 DEF TypeOK, Reserve, batch, disk
<1>6. ASSUME NEW w \in Workers,
             Write(w) \/ Copied(w) \/ VerifyFails(w) \/ AttemptFails(w) \/ CopyFails(w)
      PROVE  TypeOK'
  <2>1. Spends(w)
    BY <1>6, Attempt
  <2>2. /\ pc' \in [Workers -> {"idle", "probe", "reserve", "copy", "release", "stopped"}]
        /\ written' \in [Workers -> Nat] /\ kept' \in [Workers -> Nat]
    BY <2>1 DEF Spends, TypeOK
  <2>3. available' \in 0..Capacity
    <3>1. /\ Given[w] <= GivenSum /\ GivenSum \in Nat /\ Given[w] = written[w] + kept[w]
          /\ written[w] \in Nat /\ kept[w] \in Nat
      BY SumsTyped, BytesNat DEF Given
    <3>2. available \in Nat /\ Capacity \in Nat /\ available + GivenSum <= Capacity
      BY SpaceAssumption DEF TypeOK, StepInv
    <3>3. /\ available' \in Nat /\ written'[w] \in Nat /\ kept'[w] \in Nat
          /\ available' + written'[w] + kept'[w] <= available + written[w] + kept[w]
      BY <2>1 DEF Spends
    <3> QED  BY <3>1, <3>2, <3>3
  <2> QED  BY <2>1, <2>2, <2>3 DEF Spends, TypeOK
<1>7. ASSUME NEW w \in Workers, Release(w)
      PROVE  TypeOK'
  <2>1. /\ pc' \in [Workers -> {"idle", "probe", "reserve", "copy", "release", "stopped"}]
        /\ bytes' \in [Workers -> Sizes \cup {0}]
    BY <1>7 DEF TypeOK, Release, Set
  <2>2. reserved' \in Nat
    <3>1. bytes[w] \in Nat /\ reserved \in Nat /\ reserved' = Minus(reserved, bytes[w])
      BY <1>7, BytesNat DEF TypeOK, Release
    <3> QED  BY <3>1 DEF Minus
  <2> QED  BY <1>7, <2>1, <2>2 DEF TypeOK, Release, cache, batch, disk
<1>8. CASE UNCHANGED vars
  BY <1>8 DEF TypeOK, vars, cache, batch, disk
<1> QED  BY <1>1, <1>2, <1>3, <1>4, <1>5, <1>6, <1>7, <1>8 DEF Next

-----------------------------------------------------------------------------
(* The invariants.                                                         *)

LEMMA InitInv == Init => StepInv /\ SpaceInv
<1> SUFFICES ASSUME Init
             PROVE  StepInv /\ SpaceInv
  OBVIOUS
<1>1. TypeOK /\ \A w \in Workers : pc[w] = "idle"
  BY InitTyped DEF Init
<1>2. HeldSum = 0 /\ DueSum = 0 /\ OwedSum = 0 /\ GivenSum = 0
  BY <1>1, IdleSums, NothingWritten DEF Init
<1>3. Capacity \in Nat
  BY SpaceAssumption
<1>4. StepInv
  BY <1>1, <1>2, <1>3 DEF Init, StepInv
<1>5. ~ \E w \in Workers : Holds(w)
  BY <1>1 DEF Holds
<1> QED  BY <1>2, <1>4, <1>5 DEF Init, SpaceInv, FullOnlyLate

(* A worker changes nothing of the others'. *)
LEMMA StepAlone ==
    ASSUME TypeOK, NEW w \in Workers,
           \/ TakeFile(w) \/ Probe(w) \/ KeepProbe(w) \/ InspectFails(w) \/ Refuse(w)
           \/ Reserve(w) \/ Release(w) \/ Spends(w)
    PROVE  Alone(w)
<1>1. CASE TakeFile(w)
  BY <1>1 DEF TakeFile, Alone, Set, TypeOK, disk
<1>2. CASE Probe(w) \/ KeepProbe(w) \/ InspectFails(w) \/ Refuse(w)
  BY <1>2 DEF Probe, KeepProbe, InspectFails, Refuse, Alone, Set, TypeOK, disk
<1>3. CASE Reserve(w)
  BY <1>3 DEF Reserve, Alone, Set, TypeOK, disk
<1>4. CASE Release(w)
  BY <1>4 DEF Release, Alone, Set, TypeOK, disk
<1>5. CASE Spends(w)
  BY <1>5 DEF Spends, Alone, TypeOK
<1> QED  BY <1>1, <1>2, <1>3, <1>4, <1>5

LEMMA StepKept == TypeOK /\ StepInv /\ [Next]_vars => StepInv'
<1> SUFFICES ASSUME TypeOK, StepInv, [Next]_vars
             PROVE  StepInv'
  OBVIOUS
<1>0. TypeOK'
  BY StepTyped
<1> DEFINE Quiet == \A w \in Workers : pc[w] # "copy" => written[w] = 0 /\ kept[w] = 0
           Room  == available + GivenSum <= Capacity
           Early == phase # "transfer" => late = 0 /\ \A w \in Workers : pc[w] = "idle"
           Calm  == excess = 0 => outgrown = 0 /\ \A w \in Workers : kept[w] = 0 /\ written[w] <= bytes[w]
<1>1. CASE UNCHANGED <<pc, bytes, written, kept, available, outgrown, excess>> /\ Early'
  BY <1>1, NoWorker DEF StepInv
<1>2. ASSUME NEW w \in Workers, UNCHANGED <<phase, late>>, pc[w] # "idle" \/ phase = "transfer",
             Alone(w),
             pc'[w] = "copy" \/ (written'[w] = 0 /\ kept'[w] = 0),
             available' + written'[w] + kept'[w] <= available + written[w] + kept[w],
             excess' = 0 => excess = 0 /\ outgrown' = 0 /\ kept'[w] = 0 /\ written'[w] <= bytes'[w]
      PROVE  StepInv'
  <2>1. Quiet'
    BY <1>2 DEF StepInv, Alone
  <2>2. GivenSum' = GivenSum - (written[w] + kept[w]) + (written'[w] + kept'[w])
    <3>1. GivenSum' = GivenSum - Given[w] + Given'[w]
      BY <1>0, <1>2, OneWorker
    <3> QED  BY <3>1 DEF Given
  <2>3. Room'
    <3>1. /\ available \in Int /\ available' \in Int /\ GivenSum \in Int /\ Capacity \in Int
          /\ written[w] \in Int /\ written'[w] \in Int /\ kept[w] \in Int /\ kept'[w] \in Int
      BY <1>0, SumsTyped, SpaceAssumption DEF TypeOK
    <3> QED  BY <1>2, <2>2, <3>1 DEF StepInv
  <2>4. Early'
    BY <1>2 DEF StepInv, Alone
  <2>5. Calm'
    BY <1>2 DEF StepInv, Alone
  <2> HIDE DEF Quiet, Room, Early, Calm
  <2> QED  BY <2>1, <2>3, <2>4, <2>5 DEF StepInv, Quiet, Room, Early, Calm
<1>3. CASE Preflight \/ UNCHANGED vars
  BY <1>3, <1>1 DEF Preflight, StepInv, vars, cache, batch, disk
<1>4. ASSUME NEW n \in Sizes, Queue(n) \/ WatcherQueues(n)
      PROVE  StepInv'
  BY <1>4, <1>1 DEF Queue, WatcherQueues, StepInv, disk
<1> HIDE DEF Quiet, Room, Early, Calm
<1>5. ASSUME NEW w \in Workers,
             \/ TakeFile(w) \/ Probe(w) \/ KeepProbe(w) \/ InspectFails(w) \/ Refuse(w)
             \/ Reserve(w) \/ Release(w)
      PROVE  StepInv'
  <2>1. /\ UNCHANGED <<phase, late, disk, available>>
        /\ pc[w] # "idle" \/ phase = "transfer"
    BY <1>5 DEF TakeFile, Probe, KeepProbe, InspectFails, Refuse, Reserve, Release, batch
  <2>2. Alone(w)
    BY <1>5, StepAlone
  <2>3. written[w] = 0 /\ kept[w] = 0
    BY <1>5 DEF TakeFile, Probe, KeepProbe, InspectFails, Refuse, Reserve, Release, StepInv
  <2>4. available' + written'[w] + kept'[w] <= available + written[w] + kept[w]
    BY <2>1, <2>3 DEF TypeOK, disk
  <2>5. bytes'[w] \in Nat
    BY <1>0, TermsTypedNext
  <2>6. excess' = 0 => excess = 0 /\ outgrown' = 0 /\ kept'[w] = 0 /\ written'[w] <= bytes'[w]
    BY <2>1, <2>3, <2>5 DEF StepInv, disk
  <2>7. written'[w] = 0 /\ kept'[w] = 0
    BY <2>1, <2>3 DEF disk
  <2> QED  BY <1>2, <2>1, <2>2, <2>4, <2>6, <2>7
<1>6. ASSUME NEW w \in Workers,
             Write(w) \/ Copied(w) \/ VerifyFails(w) \/ AttemptFails(w) \/ CopyFails(w)
      PROVE  StepInv'
  <2>1. Spends(w)
    BY <1>6, Attempt
  <2>2. UNCHANGED <<phase, late, bytes>> /\ pc[w] # "idle"
    BY <2>1 DEF Spends
  <2>3. Alone(w)
    BY <2>1, StepAlone
  <2>4. excess' = 0 => excess = 0 /\ outgrown' = 0 /\ kept'[w] = 0 /\ written'[w] <= bytes'[w]
    BY <2>1, <2>2 DEF Spends, StepInv
  <2> QED  BY <1>2, <2>1, <2>2, <2>3, <2>4 DEF Spends
<1> QED  BY <1>3, <1>4, <1>5, <1>6 DEF Next

(* A worker keeps the invariant if it does not begin to hold space, takes  *)
(* no more from the filesystem than its reservation covers, or than is     *)
(* counted in outgrown, and keeps the account. *)
LEMMA SpentKept ==
    ASSUME TypeOK, TypeOK', SpaceInv, NEW w \in Workers, Alone(w),
           UNCHANGED <<phase, late, stale>>,
           Holds(w)' => Holds(w),
           reserved' = reserved - Held[w] + Held'[w],
           available' + outgrown' - Due'[w] >= available + outgrown - Due[w],
           late = 0 /\ excess' = 0 =>
             excess = 0 /\ available' - Total(channel)' - Owed'[w] >= available - Total(channel) - Owed[w],
           FullOnlyLate'
    PROVE  SpaceInv'
<1>1. /\ HeldSum' = HeldSum - Held[w] + Held'[w]
      /\ DueSum' = DueSum - Due[w] + Due'[w]
      /\ OwedSum' = OwedSum - Owed[w] + Owed'[w]
  BY OneWorker
<1>2. /\ Held[w] \in Int /\ Due[w] \in Int /\ Owed[w] \in Int
      /\ HeldSum \in Int /\ DueSum \in Int /\ OwedSum \in Int
  BY TermsTyped, SumsTyped
<1>3. Held'[w] \in Int /\ Due'[w] \in Int /\ Owed'[w] \in Int
  BY TermsTypedNext
<1>4. /\ available \in Int /\ available' \in Int /\ reserved \in Int /\ Margin \in Int
      /\ outgrown \in Int /\ outgrown' \in Int
  BY SpaceAssumption DEF TypeOK
<1>5. Total(channel) \in Int /\ Total(channel)' \in Int
  <2>1. channel \in Seq(Sizes) /\ channel' \in Seq(Sizes)
    BY DEF TypeOK
  <2> QED  BY <2>1, Totals
<1>6. reserved' = HeldSum'
  BY <1>1, <1>2, <1>3, <1>4 DEF SpaceInv
<1>7. (~stale /\ (\E v \in Workers : Holds(v)) => available + outgrown >= Margin + DueSum)'
  <2>1. (\E v \in Workers : Holds(v))' => \E v \in Workers : Holds(v)
    BY DEF Holds, Alone
  <2>2. available + outgrown >= Margin + DueSum => available' + outgrown' >= Margin + DueSum'
    BY <1>1, <1>2, <1>3, <1>4
  <2> QED  BY <2>1, <2>2 DEF SpaceInv
<1>8. (phase = "transfer" /\ late = 0 /\ excess = 0 => available >= Total(channel) + OwedSum)'
  <2> SUFFICES ASSUME phase = "transfer", late = 0, excess' = 0
               PROVE  available' >= Total(channel)' + OwedSum'
    OBVIOUS
  <2>1. available >= Total(channel) + OwedSum
    BY DEF SpaceInv
  <2> QED  BY <1>1, <1>2, <1>3, <1>4, <1>5, <2>1
<1> QED  BY <1>6, <1>7, <1>8 DEF SpaceInv

LEMMA PreflightKept == TypeOK /\ StepInv /\ SpaceInv /\ Preflight => SpaceInv'
<1> SUFFICES ASSUME TypeOK, StepInv, SpaceInv, Preflight
             PROVE  SpaceInv'
  OBVIOUS
<1>1. OwedSum = 0
  BY IdleSums DEF Preflight, StepInv
<1>2. HeldSum' = HeldSum /\ DueSum' = DueSum /\ OwedSum' = OwedSum
  BY NoWorker DEF Preflight, disk
<1>3. Total(channel) \in Nat
  BY Totals DEF TypeOK
<1>4. phase' = "transfer" => available >= Total(channel) + 0
  BY <1>3 DEF Preflight, PreflightFits, TypeOK
<1> QED  BY <1>1, <1>2, <1>4 DEF Preflight, SpaceInv, FullOnlyLate, Holds, disk

LEMMA QueueKept ==
    ASSUME TypeOK, SpaceInv, NEW n \in Sizes, Queue(n) \/ WatcherQueues(n)
    PROVE  SpaceInv'
<1>1. HeldSum' = HeldSum /\ DueSum' = DueSum
  BY NoWorker DEF Queue, WatcherQueues, disk
<1>2. ~(phase' = "transfer" /\ late' = 0) /\ (late > 0 => late' > 0)
  BY SpaceAssumption DEF Queue, WatcherQueues, TypeOK
<1>3. UNCHANGED <<available, reserved, pc, disk, stale, full>>
  BY DEF Queue, WatcherQueues
<1> QED  BY <1>1, <1>2, <1>3 DEF SpaceInv, FullOnlyLate, Holds, disk

LEMMA TakeFileKept ==
    ASSUME TypeOK, TypeOK', StepInv, SpaceInv, NEW w \in Workers, TakeFile(w)
    PROVE  SpaceInv'
<1>1. Alone(w)
  BY StepAlone
<1>2. pc[w] = "idle" /\ pc'[w] = "probe" /\ bytes'[w] = Head(channel) /\ written'[w] = 0
  BY DEF TakeFile, Set, TypeOK, StepInv, disk
<1>3. Head(channel) \in Nat /\ available \in Nat /\ outgrown \in Nat
  <2>1. Head(channel) \in Sizes
    BY DEF TypeOK, TakeFile
  <2> QED  BY <2>1, SizesNat DEF TypeOK
<1>4. /\ Held[w] = 0 /\ Held'[w] = 0 /\ Due[w] = 0 /\ Due'[w] = 0
      /\ Owed[w] = 0 /\ Owed'[w] = Head(channel)
  BY <1>2, <1>3 DEF Held, Due, Owed, Holds
<1>5. Total(channel)' = Total(channel) - Head(channel) /\ Total(channel) \in Nat
  BY Totals DEF TypeOK, TakeFile
<1>6. ~Holds(w)' /\ UNCHANGED <<phase, late, stale, full, reserved, available, outgrown, excess>>
  BY <1>2 DEF TakeFile, Holds, disk
<1>7. FullOnlyLate'
  BY <1>6 DEF FullOnlyLate, SpaceInv
<1>8. /\ reserved' = reserved - Held[w] + Held'[w]
      /\ available' + outgrown' - Due'[w] >= available + outgrown - Due[w]
      /\ available' - Total(channel)' - Owed'[w] >= available - Total(channel) - Owed[w]
  <2>1. reserved' = reserved - Held[w] + Held'[w]
    <3>1. reserved \in Nat /\ reserved' = reserved
      BY <1>6 DEF TypeOK
    <3> QED  BY <1>4, <3>1
  <2>2. available' + outgrown' - Due'[w] >= available + outgrown - Due[w]
    BY <1>3, <1>4, <1>6
  <2>3. available' - Total(channel)' - Owed'[w] >= available - Total(channel) - Owed[w]
    BY <1>3, <1>4, <1>5, <1>6
  <2> QED  BY <2>1, <2>2, <2>3
<1> QED  BY <1>1, <1>6, <1>7, <1>8, SpentKept

LEMMA CheckKept ==
    ASSUME TypeOK, TypeOK', StepInv, SpaceInv, NEW w \in Workers,
           Probe(w) \/ KeepProbe(w) \/ InspectFails(w) \/ Refuse(w)
    PROVE  SpaceInv'
<1>1. Alone(w)
  BY StepAlone
<1>2. /\ pc[w] \in {"probe", "reserve"} /\ pc'[w] \in {"reserve", "stopped"}
      /\ UNCHANGED <<bytes, disk>>
  BY DEF Probe, KeepProbe, InspectFails, Refuse, Set, TypeOK
<1>3. UNCHANGED <<phase, channel, late, stale, full, reserved, available>>
  BY DEF Probe, KeepProbe, InspectFails, Refuse, batch
<1>4. bytes[w] \in Nat /\ written[w] = 0 /\ available \in Nat /\ reserved \in Nat /\ outgrown \in Nat
  BY <1>2, BytesNat, CountsNat DEF StepInv
<1>5. /\ Held[w] = 0 /\ Held'[w] = 0 /\ Due[w] = 0 /\ Due'[w] = 0
      /\ Owed[w] = bytes[w] /\ Owed'[w] \in {0, bytes[w]}
  BY <1>2, <1>4 DEF Held, Due, Owed, Holds, disk
<1>6. Total(channel) \in Nat
  BY Totals DEF TypeOK
<1>7. ~Holds(w)' /\ FullOnlyLate'
  BY <1>2, <1>3 DEF Holds, FullOnlyLate, SpaceInv, disk
<1>8. /\ reserved' = reserved - Held[w] + Held'[w]
      /\ available' + outgrown' - Due'[w] >= available + outgrown - Due[w]
      /\ excess' = excess
      /\ available' - Total(channel)' - Owed'[w] >= available - Total(channel) - Owed[w]
  BY <1>2, <1>3, <1>4, <1>5, <1>6 DEF disk
<1> QED  BY <1>1, <1>3, <1>7, <1>8, SpentKept

(* The probe is compared with the bytes reserved: if it is still true, the *)
(* margin is left after all the workers have written what they reserved.   *)
LEMMA ReserveKept ==
    ASSUME TypeOK, TypeOK', StepInv, SpaceInv, NEW w \in Workers, Reserve(w)
    PROVE  SpaceInv'
<1>1. Alone(w)
  BY StepAlone
<1>2. /\ pc[w] = "reserve" /\ pc'[w] = "copy" /\ UNCHANGED <<bytes, disk>>
      /\ written[w] = 0 /\ kept[w] = 0 /\ bytes[w] \in Nat
  BY BytesNat DEF Reserve, Set, TypeOK, StepInv
<1>3. UNCHANGED <<phase, channel, late, full, available>> /\ reserved' = reserved + bytes[w]
  BY DEF Reserve, batch
<1>4. /\ Held[w] = 0 /\ Held'[w] = bytes[w] /\ Due[w] = 0 /\ Due'[w] = bytes[w]
      /\ Owed[w] = bytes[w] /\ Owed'[w] = bytes[w]
  BY <1>2 DEF Held, Due, Owed, Holds, disk
<1>5. /\ HeldSum' = HeldSum - Held[w] + Held'[w]
      /\ DueSum' = DueSum - Due[w] + Due'[w]
      /\ OwedSum' = OwedSum - Owed[w] + Owed'[w]
  BY <1>1, OneWorker
<1>6. HeldSum \in Nat /\ DueSum \in Int /\ OwedSum \in Int /\ DueSum <= HeldSum
  BY SumsTyped
<1>7. HeldSum' = HeldSum + bytes[w] /\ DueSum' = DueSum + bytes[w] /\ OwedSum' = OwedSum
  BY <1>2, <1>4, <1>5, <1>6
<1>8. /\ available \in Nat /\ reserved \in Nat /\ Margin \in Nat /\ outgrown \in Nat
  BY SpaceAssumption DEF TypeOK
<1>9. ~stale' => available + outgrown >= Margin + DueSum + bytes[w]
  <2> SUFFICES ASSUME ~stale'
               PROVE  available + outgrown >= Margin + DueSum + bytes[w]
    OBVIOUS
  <2>1. probe[w] = available /\ ~stale
    BY DEF Reserve
  <2>2. Minus(available, reserved) >= bytes[w] + Margin
    BY <2>1 DEF Reserve, Fits
  <2>3. CASE reserved <= available
    <3>1. available - reserved >= bytes[w] + Margin
      BY <1>8, <2>2, <2>3 DEF Minus
    <3> QED  BY <1>2, <1>6, <1>8, <3>1 DEF SpaceInv
  <2>4. CASE available < reserved
    <3>1. bytes[w] = 0 /\ Margin = 0
      BY <1>2, <1>8, <2>2, <2>4 DEF Minus
    <3>2. \E v \in Workers : Holds(v)
      <4> SUFFICES ASSUME \A v \in Workers : ~Holds(v)
                   PROVE  FALSE
        OBVIOUS
      <4>1. HeldSum = 0
        BY NoneHeld
      <4> QED  BY <1>8, <2>4, <4>1 DEF SpaceInv
    <3> QED  BY <1>6, <1>8, <2>1, <3>1, <3>2 DEF SpaceInv
  <2> QED  BY <1>8, <2>3, <2>4
<1>10. phase' = "transfer" /\ late' = 0 /\ excess' = 0 => available' >= Total(channel)' + OwedSum'
  BY <1>2, <1>3, <1>7 DEF SpaceInv, disk
<1>11. FullOnlyLate'
  <2>1. stale => stale'
    BY Zenon DEF Reserve
  <2>2. excess' = excess
    BY <1>2 DEF disk
  <2> QED  BY <1>3, <2>1, <2>2, Zenon DEF SpaceInv, FullOnlyLate
<1>12. reserved' = HeldSum'
  BY <1>3, <1>7 DEF SpaceInv
<1>13. ~stale' => available' + outgrown' >= Margin + DueSum'
  <2>1. outgrown' = outgrown
    BY <1>2 DEF disk
  <2> QED  BY <1>2, <1>3, <1>6, <1>7, <1>8, <1>9, <2>1
<1> QED  BY <1>10, <1>11, <1>12, <1>13 DEF SpaceInv

(* A copy that finds the filesystem full before its size is written: if no *)
(* transfer took more than it reserved, its own part of what is to be      *)
(* written refutes both of the sums.                                       *)
LEMMA FullKept ==
    ASSUME TypeOK, StepInv, SpaceInv, NEW w \in Workers, pc[w] = "copy",
           available = 0, written[w] < bytes[w], excess = 0
    PROVE  late > 0 /\ stale
<1>1. kept[w] = 0 /\ outgrown = 0 /\ bytes[w] \in Nat /\ written[w] \in Nat
  BY BytesNat DEF StepInv
<1>2. Due[w] > 0 /\ Owed[w] > 0 /\ Due[w] \in Int /\ Owed[w] \in Int
  BY <1>1 DEF Due, Owed
<1>3. Due[w] <= DueSum /\ Owed[w] <= OwedSum /\ DueSum \in Int /\ OwedSum \in Int
  BY CalmSums, SumsTyped
<1>4. Total(channel) \in Nat /\ Margin \in Nat
  BY Totals, SpaceAssumption DEF TypeOK
<1>5. stale
  <2>1. Holds(w)
    BY DEF Holds
  <2> QED  BY <1>1, <1>2, <1>3, <1>4, <2>1 DEF SpaceInv
<1>6. late # 0
  <2>1. phase = "transfer"
    BY DEF StepInv
  <2> QED  BY <1>2, <1>3, <1>4, <2>1 DEF SpaceInv
<1>7. late \in Nat
  BY SpaceAssumption DEF TypeOK
<1> QED  BY <1>5, <1>6, <1>7

LEMMA CopyKept ==
    ASSUME TypeOK, TypeOK', StepInv, SpaceInv, NEW w \in Workers,
           Write(w) \/ Copied(w) \/ VerifyFails(w) \/ AttemptFails(w) \/ CopyFails(w)
    PROVE  SpaceInv'
<1>1. Spends(w)
  BY Attempt
<1>2. Alone(w)
  BY <1>1, StepAlone
<1>3. /\ pc[w] = "copy" /\ pc'[w] \in {"copy", "release"}
      /\ UNCHANGED <<phase, channel, late, stale, reserved, bytes>>
  BY <1>1 DEF Spends
<1>4. bytes[w] \in Nat /\ available \in Nat /\ reserved \in Nat /\ excess \in Nat
  BY BytesNat, CountsNat
<1>5. /\ Held[w] = bytes[w] /\ Due[w] = bytes[w] - written[w] - kept[w]
      /\ Owed[w] = bytes[w] - written[w]
      /\ Held'[w] = bytes[w]
      /\ Due'[w] = IF pc'[w] = "copy" THEN bytes[w] - written'[w] - kept'[w] ELSE 0
      /\ Owed'[w] = IF pc'[w] = "copy" THEN bytes[w] - written'[w] ELSE 0
  BY <1>3 DEF Held, Due, Owed, Holds
<1>6. FullOnlyLate'
  <2>1. CASE excess' # 0
    <3>1. excess' \in Nat
      BY DEF TypeOK
    <3> QED  BY <2>1, <3>1 DEF FullOnlyLate
  <2>2. CASE excess' = 0
    <3>1. excess = 0 /\ (full' => full \/ (available = 0 /\ written[w] < bytes[w]))
      BY <1>1, <2>2 DEF Spends
    <3>2. full => late > 0 /\ stale
      BY <3>1 DEF SpaceInv, FullOnlyLate
    <3>3. available = 0 /\ written[w] < bytes[w] => late > 0 /\ stale
      BY <1>3, <3>1, FullKept
    <3> QED  BY <1>3, <3>1, <3>2, <3>3 DEF FullOnlyLate
  <2> QED  BY <2>1, <2>2
<1>7. /\ available' + outgrown' - Due'[w] >= available + outgrown - Due[w]
  BY <1>1, <1>5 DEF Spends
<1>8. excess' = 0 => excess = 0 /\ available' - Owed'[w] >= available - Owed[w]
  <2> SUFFICES ASSUME excess' = 0
               PROVE  excess = 0 /\ available' - Owed'[w] >= available - Owed[w]
    OBVIOUS
  <2>1. excess = 0
    BY <1>1 DEF Spends
  <2>2. outgrown = 0 /\ kept[w] = 0 /\ written[w] <= bytes[w]
    BY <2>1 DEF StepInv
  <2> QED  BY <1>1, <1>5, <2>1, <2>2 DEF Spends
<1>9. Total(channel) \in Nat /\ available' \in Int /\ Owed[w] \in Int /\ Owed'[w] \in Int
  <2>1. Total(channel) \in Nat
    BY Totals DEF TypeOK
  <2>2. Owed[w] \in Int /\ Owed'[w] \in Int
    BY TermsTyped, TermsTypedNext
  <2>3. available' \in Int
    BY DEF TypeOK
  <2> QED  BY <2>1, <2>2, <2>3
<1>10. excess' = 0 =>
        excess = 0 /\ available' - Total(channel)' - Owed'[w] >= available - Total(channel) - Owed[w]
  BY <1>3, <1>4, <1>8, <1>9
<1>11. Holds(w) /\ reserved' = reserved - Held[w] + Held'[w]
  BY <1>3, <1>4, <1>5 DEF Holds
<1> QED  BY <1>2, <1>3, <1>6, <1>7, <1>10, <1>11, SpentKept

LEMMA ReleaseKept ==
    ASSUME TypeOK, TypeOK', StepInv, SpaceInv, NEW w \in Workers, Release(w)
    PROVE  SpaceInv'
<1>1. Alone(w)
  BY StepAlone
<1>2. /\ pc[w] = "release" /\ pc'[w] = "idle" /\ reserved' = Minus(reserved, bytes[w])
      /\ UNCHANGED <<phase, channel, late, stale, full, available, disk>>
  BY DEF Release, Set, TypeOK, batch
<1>3. bytes[w] \in Nat /\ available \in Nat /\ reserved \in Nat /\ outgrown \in Nat
  BY BytesNat, CountsNat
<1>4. /\ Held[w] = bytes[w] /\ Held'[w] = 0 /\ Due[w] = 0 /\ Due'[w] = 0
      /\ Owed[w] = 0 /\ Owed'[w] = 0
  BY <1>2 DEF Held, Due, Owed, Holds
<1>5. Held[w] <= reserved
  BY SumsTyped DEF SpaceInv
<1>6. reserved' = reserved - Held[w] + Held'[w]
  BY <1>2, <1>3, <1>4, <1>5 DEF Minus
<1>7. Total(channel) \in Nat
  BY Totals DEF TypeOK
<1>8. /\ available' + outgrown' - Due'[w] >= available + outgrown - Due[w]
      /\ excess' = excess
      /\ available' - Total(channel)' - Owed'[w] >= available - Total(channel) - Owed[w]
  BY <1>2, <1>3, <1>4, <1>7 DEF disk
<1>9. ~Holds(w)' /\ FullOnlyLate'
  BY <1>2 DEF Holds, FullOnlyLate, SpaceInv, disk
<1> QED  BY <1>1, <1>2, <1>6, <1>8, <1>9, SpentKept

LEMMA StepSpace == TypeOK /\ StepInv /\ SpaceInv /\ [Next]_vars => SpaceInv'
<1> SUFFICES ASSUME TypeOK, StepInv, SpaceInv, [Next]_vars
             PROVE  SpaceInv'
  OBVIOUS
<1>0. TypeOK'
  BY StepTyped
<1>1. CASE UNCHANGED vars
  <2>1. HeldSum' = HeldSum /\ DueSum' = DueSum /\ OwedSum' = OwedSum
    BY <1>1, NoWorker DEF vars, disk
  <2> QED  BY <1>1, <2>1 DEF vars, batch, disk, SpaceInv, FullOnlyLate, Holds
<1>2. CASE Next
  BY <1>0, <1>2, PreflightKept, QueueKept, TakeFileKept, CheckKept, ReserveKept, CopyKept,
     ReleaseKept DEF Next
<1> QED  BY <1>1, <1>2

-----------------------------------------------------------------------------
(* The theorems.                                                           *)

LEMMA Invariance == Spec => [](TypeOK /\ StepInv /\ SpaceInv)
<1>1. Init => TypeOK /\ StepInv /\ SpaceInv
  BY InitTyped, InitInv
<1>2. TypeOK /\ StepInv /\ SpaceInv /\ [Next]_vars => (TypeOK /\ StepInv /\ SpaceInv)'
  BY StepTyped, StepKept, StepSpace
<1> QED  BY <1>1, <1>2, PTL DEF Spec

(* Every variable keeps its type: in particular the attempts at a file     *)
(* give back what they wrote and no more, so that the filesystem never has *)
(* more available than to begin with.                                      *)
THEOREM SpaceTypes == Spec => []TypeOK
BY Invariance, PTL

(* The bytes in the map are those of the transfers under way: each worker  *)
(* adds its file's bytes once and takes them back once, however many       *)
(* attempts it made, however the last of them ended and whatever the       *)
(* others did in between.                                                  *)
THEOREM SpaceReservedExact == Spec => []ReservedExact
<1>1. TypeOK /\ SpaceInv => ReservedExact
  <2> SUFFICES ASSUME TypeOK, SpaceInv
               PROVE  ReservedExact
    OBVIOUS
  <2> DEFINE T == {v \in Workers : Holds(v)}
             f == [w \in T |-> bytes[w]]
  <2>1. T \subseteq Workers /\ DOMAIN f = T
    OBVIOUS
  <2>2. \A w \in T : f[w] = Held[w] /\ Held[w] \in Int
    BY TermsTyped DEF Held
  <2>3. \A w \in Workers \ T : Held[w] = 0
    BY DEF Held
  <2>4. IsFiniteSet(Workers)
    BY SpaceAssumption
  <2> HIDE DEF T, f
  <2>5. SumFunctionOnSet(f, T) = SumFunctionOnSet(Held, Workers)
    BY <2>1, <2>2, <2>3, <2>4, SumWhere
  <2>6. SumFunction(f) = HeldSum
    BY <2>1, <2>5, Zenon DEF SumFunction, HeldSum
  <2> QED  BY <2>6, Zenon DEF f, T, ReservedExact, SpaceInv
<1> QED  BY <1>1, Invariance, PTL

(* The margin is left after every worker has written what it reserved, as  *)
(* long as all probes were true when they were compared, but for what      *)
(* transfers took beyond their reservations: by a source that grew, a      *)
(* destination that failed its verification beside the next attempt's      *)
(* temporary file, or a temporary file that could not be removed.          *)
THEOREM SpaceMarginKept == Spec => []MarginKept
<1>1. TypeOK /\ SpaceInv => MarginKept
  <2> SUFFICES ASSUME TypeOK, SpaceInv
               PROVE  MarginKept
    OBVIOUS
  <2> DEFINE T == {v \in Workers : pc[v] = "copy"}
             f == [w \in T |-> bytes[w] - written[w] - kept[w]]
  <2>1. T \subseteq Workers /\ DOMAIN f = T
    OBVIOUS
  <2>2. \A w \in T : f[w] = Due[w] /\ Due[w] \in Int
    BY TermsTyped DEF Due
  <2>3. \A w \in Workers \ T : Due[w] = 0
    BY DEF Due
  <2>4. IsFiniteSet(Workers)
    BY SpaceAssumption
  <2> HIDE DEF T, f
  <2>5. SumFunctionOnSet(f, T) = SumFunctionOnSet(Due, Workers)
    BY <2>1, <2>2, <2>3, <2>4, SumWhere
  <2>6. SumFunction(f) = DueSum
    BY <2>1, <2>5, Zenon DEF SumFunction, DueSum
  <2> QED  BY <2>6, Zenon DEF f, T, MarginKept, SpaceInv
<1> QED  BY <1>1, Invariance, PTL

(* Where no transfer took more than it reserved, a full filesystem needs   *)
(* both an addition by the watcher and a probe that was out of date: the   *)
(* preflight check covers all the files it saw, and the reservations all   *)
(* the files whose probe was true.                                         *)
THEOREM SpaceFullOnlyLate == Spec => []FullOnlyLate
<1>1. SpaceInv => FullOnlyLate
  BY DEF SpaceInv
<1> QED  BY <1>1, Invariance, PTL
=============================================================================
