------------------------ MODULE TransferQueueProofs ------------------------
(***************************************************************************)
(* Theorems about src/queue.rs: TransferQueue, for any sets of items,      *)
(* batches, producers and consumers, and at the end the update policy      *)
(* (UpdateMode), for any files, tolerance and resolution of the clock.     *)
(***************************************************************************)
EXTENDS TransferQueue, DataTheorems

-----------------------------------------------------------------------------
(* Type correctness.  It needs to know what a thread in the middle of a    *)
(* call works on.                                                          *)

AtWork ==
    /\ \A p \in Producers : ppc[p] # "idle" => batch[p] \in submitted
    /\ \A c \in Consumers : cpc[c] # "idle" => item[c] \in taken

TypeInv == TypeOK /\ AtWork

LEMMA TypeInit == Init => TypeInv
BY EmptySeq DEF Init, TypeInv, TypeOK, AtWork, ProducerSteps, ConsumerSteps

LEMMA TypeStep == TypeInv /\ [Next]_vars => TypeInv'
<1> SUFFICES ASSUME TypeInv, [Next]_vars PROVE TypeInv'
  OBVIOUS
<1> USE BatchesAssumption, SizeAssumption
        DEF TypeInv, TypeOK, AtWork, ProducerSteps, ConsumerSteps
<1>1. ASSUME NEW b \in Batches, RestoreItems(b) PROVE TypeInv'
  <2>1. b \in Seq(Items) /\ Len(b) \in Int /\ BytesOf(b) \in Int
    BY LenProperties
  <2> QED BY <1>1, <2>1 DEF RestoreItems, cvars
<1>2. ASSUME NEW p \in Producers, NEW b \in Batches, ExtendSnapshot(p, b) PROVE TypeInv'
  <2>1. b \in Seq(Items) /\ snapshot \o b \in Seq(Items)
    BY ConcatProperties
  <2> QED BY <1>2, <2>1 DEF ExtendSnapshot, counters, cvars
<1>3. ASSUME NEW p \in Producers, Send(p) PROVE TypeInv'
  <2>1. /\ Head(unsent[p]) \in Items /\ Tail(unsent[p]) \in Seq(Items)
        /\ Append(channel, Head(unsent[p])) \in Seq(Items)
    BY <1>3, HeadTailProperties, AppendProperties DEF Send
  <2> QED BY <1>3, <2>1 DEF Send, counters, cvars
<1>4. ASSUME NEW p \in Producers, AddBatchSize(p) PROVE TypeInv'
  <2>1. BytesOf(batch[p]) \in Int
    BY <1>4 DEF AddBatchSize
  <2> QED BY <1>4, <2>1 DEF AddBatchSize, cvars
<1>5. ASSUME NEW p \in Producers, AddBatchLen(p) PROVE TypeInv'
  <2>0. batch[p] \in Seq(Items)
    BY <1>5 DEF AddBatchLen
  <2>1. Len(batch[p]) \in Int
    BY <2>0, LenProperties
  <2> QED BY <1>5, <2>1 DEF AddBatchLen, cvars
<1>6. ASSUME NEW p \in Producers, BatchQueued(p) PROVE TypeInv'
  BY <1>6 DEF BatchQueued, cvars
<1>7. ASSUME NEW c \in Consumers, Take(c) PROVE TypeInv'
  <2>1. Head(channel) \in Items /\ Tail(channel) \in Seq(Items)
    BY <1>7, HeadTailProperties DEF Take
  <2> QED BY <1>7, <2>1 DEF Take, counters, pvars
<1>8. ASSUME NEW c \in Consumers, SubItemSize(c) PROVE TypeInv'
  <2>1. Size[item[c]] \in Int
    BY <1>8 DEF SubItemSize
  <2> QED BY <1>8, <2>1 DEF SubItemSize, pvars
<1>9. ASSUME NEW c \in Consumers, SubOne(c) PROVE TypeInv'
  BY <1>9 DEF SubOne, pvars
<1>10. ASSUME NEW c \in Consumers, ItemReceived(c) PROVE TypeInv'
  BY <1>10 DEF ItemReceived, pvars
<1>11. ASSUME NEW c \in Consumers, PopSnapshot(c) PROVE TypeInv'
  <2>1. snapshot' \in Seq(Items)
    BY <1>11, HeadTailProperties DEF PopSnapshot
  <2> QED BY <1>11, <2>1 DEF PopSnapshot, counters, pvars
<1>12. CASE UNCHANGED vars
  BY <1>12 DEF vars, counters, pvars, cvars
<1> QED
  BY <1>1, <1>2, <1>3, <1>4, <1>5, <1>6, <1>7, <1>8, <1>9, <1>10, <1>11, <1>12
  DEF Next, Enqueue, Receive

(* Every variable keeps its type: in particular the counters stay integers *)
(* and the revision never goes back below zero.                            *)
THEOREM TypeCorrect == Spec => []TypeOK
<1>1. TypeInv => TypeOK
  BY DEF TypeInv
<1> QED BY <1>1, TypeInit, TypeStep, PTL DEF Spec

-----------------------------------------------------------------------------
(* Each submitted item is in one place: not sent yet, in the channel, or   *)
(* taken; and no two threads work on the same batch or item.               *)

Distinct ==
    /\ IsInjective(channel)
    /\ Range(channel) \cap taken = {}
    /\ Range(channel) \cup taken \subseteq Submitted
    /\ \A p \in Producers :
         /\ IsInjective(unsent[p])
         /\ Range(unsent[p]) \subseteq Range(batch[p])
         /\ Range(unsent[p]) \cap (Range(channel) \cup taken) = {}
         /\ ppc[p] # "send" => unsent[p] = <<>>
    /\ \A p, q \in Producers :
         ppc[p] # "idle" /\ ppc[q] # "idle" /\ batch[p] = batch[q] => p = q
    /\ \A c, d \in Consumers :
         cpc[c] # "idle" /\ cpc[d] # "idle" /\ item[c] = item[d] => c = d
    /\ IsFiniteSet(Submitted) /\ IsFiniteSet(taken)

LEMMA RangeOfEmpty == Range(<<>>) = {} /\ IsInjective(<<>>)
BY DEF Range, IsInjective

LEMMA DistinctInit == Init => Distinct
BY RangeOfEmpty, FS_EmptySet DEF Init, Distinct, Submitted

LEMMA DistinctStep == TypeInv /\ Distinct /\ [Next]_vars => Distinct'
<1> SUFFICES ASSUME TypeInv, Distinct, [Next]_vars PROVE Distinct'
  OBVIOUS
<1> USE DEF TypeInv, TypeOK, AtWork, Distinct, ProducerSteps, ConsumerSteps
<1>1. ASSUME NEW b \in Batches, RestoreItems(b) PROVE Distinct'
  <2>1. IsInjective(b) /\ b \in Seq(Items) /\ IsFiniteSet(Range(b))
    BY BatchesAssumption, RangeCardinality
  <2>2. Submitted = {} /\ Submitted' = Range(b)
    BY <1>1 DEF RestoreItems, Submitted
  <2>3. taken = {} /\ taken' = {} /\ channel' = b
    BY <1>1, <2>2 DEF RestoreItems, cvars
  <2>4. \A p \in Producers : ppc[p] = "idle" /\ unsent[p] = <<>>
    BY <1>1 DEF RestoreItems
  <2>5. \A c \in Consumers : cpc[c] = "idle"
    BY <1>1, <2>3 DEF RestoreItems
  <2> QED
    BY <1>1, <2>1, <2>2, <2>3, <2>4, <2>5, RangeOfEmpty, FS_EmptySet
    DEF RestoreItems, cvars
<1>2. ASSUME NEW p \in Producers, NEW b \in Batches, ExtendSnapshot(p, b) PROVE Distinct'
  <2>1. IsInjective(b) /\ b \in Seq(Items) /\ IsFiniteSet(Range(b))
    BY BatchesAssumption, RangeCardinality
  <2>2. Submitted' = Submitted \cup Range(b)
    BY <1>2 DEF ExtendSnapshot, Submitted
  <2>3. Range(b) \cap Submitted = {}
    <3>1. \A d \in submitted : Range(d) \cap Range(b) = {}
      BY <1>2, BatchesAssumption DEF ExtendSnapshot
    <3> QED BY <3>1 DEF Submitted
  <2>4. IsFiniteSet(Submitted')
    BY <2>1, <2>2, FS_Union
  <2>5. \A q \in Producers : ppc[q] # "idle" => batch[q] # b
    BY <1>2 DEF ExtendSnapshot
  <2> QED BY <1>2, <2>1, <2>2, <2>3, <2>4, <2>5 DEF ExtendSnapshot, counters, cvars
<1>3. ASSUME NEW p \in Producers, Send(p) PROVE Distinct'
  <2> DEFINE h == Head(unsent[p])
  <2>1. /\ h \in Items /\ h \in Range(unsent[p])
        /\ Tail(unsent[p]) \in Seq(Items) /\ IsInjective(Tail(unsent[p]))
        /\ Range(Tail(unsent[p])) = Range(unsent[p]) \ {h}
    BY <1>3, TailRange DEF Send
  <2>2. Range(channel') = Range(channel) \cup {h} /\ IsInjective(channel')
    BY <1>3, <2>1, AppendRange DEF Send
  <2>3. h \in Submitted /\ Submitted' = Submitted
    BY <1>3, <2>1 DEF Send, Submitted
  <2>4. \A q \in Producers \ {p} : h \notin Range(unsent[q])
    <3> SUFFICES ASSUME NEW q \in Producers \ {p}, h \in Range(unsent[q]) PROVE FALSE
      OBVIOUS
    <3>1. ppc[q] = "send"
      BY RangeOfEmpty
    <3>2. batch[p] \in Batches /\ batch[q] \in Batches /\ batch[p] # batch[q]
      BY <3>1, <1>3 DEF Send
    <3> QED BY <3>2, <2>1, BatchesAssumption
  <2>5. taken' = taken /\ batch' = batch /\ cpc' = cpc /\ item' = item
    BY <1>3 DEF Send, cvars
  <2>6. /\ unsent' = [unsent EXCEPT ![p] = Tail(unsent[p])]
        /\ ppc' = [ppc EXCEPT ![p] = IF Tail(unsent[p]) = <<>> THEN "total_size" ELSE "send"]
        /\ ppc[p] = "send"
    BY <1>3 DEF Send
  <2>7. \A q \in Producers :
          /\ IsInjective(unsent'[q])
          /\ Range(unsent'[q]) \subseteq Range(batch[q])
          /\ Range(unsent'[q]) \cap (Range(channel') \cup taken) = {}
          /\ ppc'[q] # "send" => unsent'[q] = <<>>
    <3> SUFFICES ASSUME NEW q \in Producers
                 PROVE  /\ IsInjective(unsent'[q])
                        /\ Range(unsent'[q]) \subseteq Range(batch[q])
                        /\ Range(unsent'[q]) \cap (Range(channel') \cup taken) = {}
                        /\ ppc'[q] # "send" => unsent'[q] = <<>>
      OBVIOUS
    <3>1. CASE q = p
      BY <3>1, <2>1, <2>2, <2>6
    <3>2. CASE q # p
      BY <3>2, <2>2, <2>4, <2>6
    <3> QED BY <3>1, <3>2
  <2> QED BY <2>1, <2>2, <2>3, <2>5, <2>6, <2>7
<1>4. ASSUME NEW p \in Producers, AddBatchSize(p) \/ AddBatchLen(p) \/ BatchQueued(p)
      PROVE  Distinct'
  <2>1. UNCHANGED <<channel, batch, unsent, submitted, cvars>>
    BY <1>4 DEF AddBatchSize, AddBatchLen, BatchQueued
  <2>2. /\ ppc[p] \notin {"idle", "send"}
        /\ \A q \in Producers : /\ ppc'[q] # "idle" => ppc[q] # "idle"
                                /\ ppc'[q] # "send" => ppc[q] # "send"
    BY <1>4 DEF AddBatchSize, AddBatchLen, BatchQueued
  <2> QED BY <2>1, <2>2 DEF cvars, Submitted
<1>5. ASSUME NEW c \in Consumers, Take(c) PROVE Distinct'
  <2> DEFINE h == Head(channel)
  <2>1. /\ h \in Items /\ h \in Range(channel)
        /\ Range(channel') = Range(channel) \ {h} /\ IsInjective(channel')
    BY <1>5, TailRange DEF Take
  <2>2. Submitted' = Submitted
    BY <1>5 DEF Take, pvars, Submitted
  <2>3. taken' = taken \cup {h} /\ IsFiniteSet(taken')
    BY <1>5, FS_AddElement DEF Take
  <2>4. ppc' = ppc /\ batch' = batch /\ unsent' = unsent
    BY <1>5 DEF Take, pvars
  <2>5. \A x, y \in Consumers :
          cpc'[x] # "idle" /\ cpc'[y] # "idle" /\ item'[x] = item'[y] => x = y
    <3>1. \A x \in Consumers : cpc[x] # "idle" => item[x] # h
      BY <2>1
    <3> QED BY <3>1, <1>5 DEF Take
  <2> QED BY <2>1, <2>2, <2>3, <2>4, <2>5
<1>6. ASSUME NEW c \in Consumers, SubItemSize(c) \/ SubOne(c) \/ ItemReceived(c) \/ PopSnapshot(c)
      PROVE  Distinct'
  <2>1. UNCHANGED <<channel, pvars, item, taken>>
    BY <1>6 DEF SubItemSize, SubOne, ItemReceived, PopSnapshot
  <2>2. \A d \in Consumers : cpc'[d] # "idle" => cpc[d] # "idle"
    BY <1>6 DEF SubItemSize, SubOne, ItemReceived, PopSnapshot
  <2> QED BY <2>1, <2>2 DEF pvars, Submitted
<1>7. CASE UNCHANGED vars
  BY <1>7 DEF vars, pvars, cvars, Submitted
<1> QED BY <1>1, <1>2, <1>3, <1>4, <1>5, <1>6, <1>7 DEF Next, Enqueue, Receive

-----------------------------------------------------------------------------
(* The counter.                                                            *)

LEMMA CounterInit == Init => CounterExact
<1> SUFFICES ASSUME Init PROVE CounterExact
  OBVIOUS
<1>1. Submitted \ NotYetCounted = {} /\ taken \ StillCounted = {}
  BY DEF Init, Submitted
<1>2. pending = 0
  BY DEF Init
<1> QED BY <1>1, <1>2, FS_EmptySet DEF CounterExact

LEMMA CounterStep ==
    TypeInv /\ Distinct /\ Distinct' /\ CounterExact /\ [Next]_vars => CounterExact'
<1> SUFFICES ASSUME TypeInv, Distinct, Distinct', CounterExact, [Next]_vars
             PROVE  CounterExact'
  OBVIOUS
<1> DEFINE counted   == Submitted \ NotYetCounted
           subtracted == taken \ StillCounted
<1>0. /\ IsFiniteSet(counted) /\ IsFiniteSet(subtracted)
      /\ Cardinality(counted) \in Int /\ Cardinality(subtracted) \in Int
  <2>1. IsFiniteSet(counted) /\ IsFiniteSet(subtracted)
    BY FS_Difference DEF Distinct
  <2> QED BY <2>1, FS_CardinalityType
<1>1. ASSUME NEW b \in Batches, RestoreItems(b) PROVE CounterExact'
  <2>1. NotYetCounted = {} /\ NotYetCounted' = {}
    BY <1>1 DEF RestoreItems, TypeInv, AtWork, NotYetCounted
  <2>2. taken = {} /\ taken' = {} /\ Submitted' = Range(b)
    BY <1>1 DEF RestoreItems, cvars, Distinct, Submitted
  <2>3. Cardinality(Range(b)) = Len(b)
    BY BatchesAssumption, RangeCardinality
  <2>4. Cardinality(subtracted') = 0 /\ Len(b) \in Int
    BY <2>2, FS_EmptySet, BatchesAssumption, LenProperties
  <2> QED BY <1>1, <2>1, <2>2, <2>3, <2>4 DEF RestoreItems, CounterExact
<1>2. ASSUME NEW p \in Producers, NEW b \in Batches, ExtendSnapshot(p, b) PROVE CounterExact'
  <2>1. Submitted' = Submitted \cup Range(b) /\ Submitted \cap Range(b) = {}
    <3>1. \A d \in submitted : Range(d) \cap Range(b) = {}
      BY <1>2, BatchesAssumption DEF ExtendSnapshot, TypeInv, TypeOK
    <3> QED BY <3>1, <1>2 DEF ExtendSnapshot, Submitted
  <2>2. NotYetCounted' = NotYetCounted \cup Range(b)
    BY <1>2 DEF ExtendSnapshot, NotYetCounted, TypeInv, TypeOK, ProducerSteps
  <2>3. counted' = counted
    BY <2>1, <2>2
  <2>4. subtracted' = subtracted /\ pending' = pending
    BY <1>2 DEF ExtendSnapshot, cvars, counters, StillCounted
  <2> QED BY <2>3, <2>4 DEF CounterExact
<1>3. ASSUME NEW p \in Producers, Send(p) PROVE CounterExact'
  <2>1. NotYetCounted' = NotYetCounted
    BY <1>3 DEF Send, NotYetCounted, TypeInv, TypeOK, ProducerSteps
  <2>2. UNCHANGED <<Submitted, subtracted, pending>>
    BY <1>3 DEF Send, cvars, counters, StillCounted, Submitted
  <2> QED BY <2>1, <2>2 DEF CounterExact
<1>4. ASSUME NEW p \in Producers, AddBatchSize(p) PROVE CounterExact'
  <2>1. NotYetCounted' = NotYetCounted
    BY <1>4 DEF AddBatchSize, NotYetCounted, TypeInv, TypeOK, ProducerSteps
  <2>2. UNCHANGED <<Submitted, subtracted, pending>>
    BY <1>4 DEF AddBatchSize, cvars, StillCounted, Submitted
  <2> QED BY <2>1, <2>2 DEF CounterExact
<1>5. ASSUME NEW p \in Producers, AddBatchLen(p) PROVE CounterExact'
  <2> DEFINE R == Range(batch[p])
  <2>1. batch[p] \in submitted /\ batch[p] \in Batches
    BY <1>5 DEF AddBatchLen, TypeInv, TypeOK, AtWork
  <2>2. IsFiniteSet(R) /\ Cardinality(R) = Len(batch[p]) /\ Len(batch[p]) \in Int
    BY <2>1, BatchesAssumption, RangeCardinality, LenProperties
  <2>3. R \subseteq Submitted /\ Submitted' = Submitted
    BY <1>5, <2>1 DEF AddBatchLen, Submitted
  <2>4. R \subseteq NotYetCounted
    BY <1>5 DEF AddBatchLen, NotYetCounted
  <2>5. NotYetCounted' = NotYetCounted \ R
    <3>1. \A q \in Producers \ {p} : ppc[q] # "idle" => Range(batch[q]) \cap R = {}
      BY <1>5, <2>1, BatchesAssumption DEF AddBatchLen, TypeInv, TypeOK, AtWork, Distinct
    <3>2. \A x : x \in NotYetCounted' =>
            \E q \in Producers \ {p} : x \in Range(batch[q]) /\ ppc[q] \in {"send", "total_size", "pending"}
      BY <1>5 DEF AddBatchLen, NotYetCounted, TypeInv, TypeOK, ProducerSteps
    <3>3. \A x \in NotYetCounted : x \notin R => x \in NotYetCounted'
      BY <1>5 DEF AddBatchLen, NotYetCounted, TypeInv, TypeOK, ProducerSteps
    <3>4. NotYetCounted' \subseteq NotYetCounted \ R
      BY <3>1, <3>2 DEF NotYetCounted
    <3> QED BY <3>3, <3>4
  <2>6. counted' = counted \cup R /\ counted \cap R = {}
    BY <2>3, <2>4, <2>5
  <2>7. Cardinality(counted') = Cardinality(counted) + Len(batch[p])
    BY <1>0, <2>2, <2>6, DisjointUnion
  <2>8. subtracted' = subtracted
    BY <1>5 DEF AddBatchLen, cvars, StillCounted
  <2>9. pending' = pending + Len(batch[p])
    BY <1>5 DEF AddBatchLen
  <2>10. pending = Cardinality(counted) - Cardinality(subtracted)
    BY DEF CounterExact
  <2>11. pending' = Cardinality(counted') - Cardinality(subtracted')
    <3> HIDE DEF counted, subtracted
    <3> QED BY <1>0, <2>2, <2>7, <2>8, <2>9, <2>10
  <2> QED BY <2>11 DEF CounterExact
<1>6. ASSUME NEW p \in Producers, BatchQueued(p) PROVE CounterExact'
  <2>1. NotYetCounted' = NotYetCounted
    BY <1>6 DEF BatchQueued, NotYetCounted, TypeInv, TypeOK, ProducerSteps
  <2>2. UNCHANGED <<Submitted, subtracted, pending>>
    BY <1>6 DEF BatchQueued, cvars, StillCounted, Submitted
  <2> QED BY <2>1, <2>2 DEF CounterExact
<1>7. ASSUME NEW c \in Consumers, Take(c) PROVE CounterExact'
  <2>1. Head(channel) \in Range(channel)
    BY <1>7, TailRange DEF Take, TypeInv, TypeOK, Distinct
  <2>2. Head(channel) \notin taken
    BY <2>1 DEF Distinct
  <2>3. StillCounted' = StillCounted \cup {Head(channel)}
    BY <1>7 DEF Take, StillCounted, TypeInv, TypeOK, ConsumerSteps
  <2>4. subtracted' = subtracted
    BY <1>7, <2>2, <2>3 DEF Take
  <2>5. UNCHANGED <<Submitted, NotYetCounted, pending>>
    BY <1>7 DEF Take, pvars, counters, Submitted, NotYetCounted
  <2> QED BY <2>4, <2>5 DEF CounterExact
<1>8. ASSUME NEW c \in Consumers, SubItemSize(c) PROVE CounterExact'
  <2>1. StillCounted' = StillCounted
    BY <1>8 DEF SubItemSize, StillCounted, TypeInv, TypeOK, ConsumerSteps
  <2>2. UNCHANGED <<Submitted, NotYetCounted, taken, pending>>
    BY <1>8 DEF SubItemSize, pvars, Submitted, NotYetCounted
  <2> QED BY <2>1, <2>2 DEF CounterExact
<1>9. ASSUME NEW c \in Consumers, SubOne(c) PROVE CounterExact'
  <2>1. item[c] \in taken /\ item[c] \in StillCounted
    BY <1>9 DEF SubOne, StillCounted, TypeInv, AtWork
  <2>2. StillCounted' = StillCounted \ {item[c]}
    <3>1. \A d \in Consumers \ {c} : cpc[d] # "idle" => item[d] # item[c]
      BY <1>9 DEF SubOne, Distinct
    <3>2. \A d \in Consumers : cpc'[d] \in {"total_size", "pending"}
                                 <=> d # c /\ cpc[d] \in {"total_size", "pending"}
      BY <1>9 DEF SubOne, TypeInv, TypeOK, ConsumerSteps
    <3>3. item' = item
      BY <1>9 DEF SubOne
    <3> QED BY <3>1, <3>2, <3>3 DEF StillCounted
  <2>3. subtracted' = subtracted \cup {item[c]} /\ item[c] \notin subtracted
    BY <1>9, <2>1, <2>2 DEF SubOne
  <2>4. Cardinality(subtracted') = Cardinality(subtracted) + 1
    BY <1>0, <2>3, FS_AddElement
  <2>5. UNCHANGED <<Submitted, NotYetCounted>> /\ pending' = pending - 1
    BY <1>9 DEF SubOne, pvars, Submitted, NotYetCounted
  <2> QED BY <1>0, <2>4, <2>5 DEF CounterExact, TypeInv, TypeOK
<1>10. ASSUME NEW c \in Consumers, ItemReceived(c) \/ PopSnapshot(c) PROVE CounterExact'
  <2>1. StillCounted' = StillCounted
    BY <1>10 DEF ItemReceived, PopSnapshot, StillCounted, TypeInv, TypeOK, ConsumerSteps
  <2>2. UNCHANGED <<Submitted, NotYetCounted, taken, pending>>
    BY <1>10 DEF ItemReceived, PopSnapshot, pvars, counters, Submitted, NotYetCounted
  <2> QED BY <2>1, <2>2 DEF CounterExact
<1>11. CASE UNCHANGED vars
  <2>1. UNCHANGED <<Submitted, NotYetCounted, StillCounted, taken, pending>>
    BY <1>11 DEF vars, pvars, cvars, counters, Submitted, NotYetCounted, StillCounted
  <2> QED BY <2>1 DEF CounterExact
<1> QED
  BY <1>1, <1>2, <1>3, <1>4, <1>5, <1>6, <1>7, <1>8, <1>9, <1>10, <1>11
  DEF Next, Enqueue, Receive

(* The number of pending items never drifts: however the producers and the *)
(* workers interleave, pending_items is what has been counted in less what *)
(* has been counted out.                                                   *)
THEOREM CounterIsExact == Spec => []CounterExact
<1> DEFINE IInv == TypeInv /\ Distinct /\ CounterExact
<1>1. Init => IInv
  BY TypeInit, DistinctInit, CounterInit
<1>2. IInv /\ [Next]_vars => IInv'
  BY TypeStep, DistinctStep, CounterStep
<1>3. IInv => CounterExact
  OBVIOUS
<1> QED BY <1>1, <1>2, <1>3, PTL DEF Spec

(* With fewer items than a machine word counts, is_empty() tells the truth *)
(* whenever no call is under way: nothing that was submitted is left.      *)
THEOREM EmptyQueueIsDone ==
    ASSUME IsFiniteSet(Items), Cardinality(Items) < WordSize
    PROVE  Spec => []EmptyMeansDone
<1> DEFINE IInv == TypeInv /\ Distinct /\ CounterExact
<1>1. Init => IInv
  BY TypeInit, DistinctInit, CounterInit
<1>2. IInv /\ [Next]_vars => IInv'
  BY TypeStep, DistinctStep, CounterStep
<1>3. IInv => EmptyMeansDone
  <2> SUFFICES ASSUME IInv, Quiescent, IsEmpty PROVE Submitted \subseteq taken
    BY DEF EmptyMeansDone
  <2>1. NotYetCounted = {} /\ StillCounted = {}
    BY DEF Quiescent, NotYetCounted, StillCounted
  <2>2. pending = Cardinality(Submitted) - Cardinality(taken)
    BY <2>1 DEF CounterExact
  <2>3. Submitted \subseteq Items
    BY BatchesAssumption, RangeOfSeq DEF Submitted, TypeInv, TypeOK
  <2>4. taken \subseteq Submitted /\ IsFiniteSet(Submitted)
    BY DEF Distinct
  <2>5. /\ Cardinality(Submitted) <= Cardinality(Items)
        /\ Cardinality(taken) <= Cardinality(Submitted)
        /\ Cardinality(Submitted) = Cardinality(taken) => Submitted = taken
    BY <2>3, <2>4, FS_Subset
  <2>6. Cardinality(Items) \in Nat /\ Cardinality(Submitted) \in Nat /\ Cardinality(taken) \in Nat
    BY <2>4, FS_CardinalityType DEF Distinct
  <2>7. pending \in 0 .. WordSize - 1
    BY <2>2, <2>5, <2>6, WordSizeAssumption
  <2>8. pending % WordSize = pending
    BY <2>7, WordSizeAssumption, Z3
  <2>9. pending = 0
    BY <2>8 DEF IsEmpty, Length
  <2> QED BY <2>2, <2>5, <2>6, <2>9
<1> QED BY <1>1, <1>2, <1>3, PTL DEF Spec

-----------------------------------------------------------------------------
(* Lined(s, k, c, u): s is k elements, then c, then u.  How each step of   *)
(* the queue keeps the mirror in line with the channel and the unsent.     *)

Lined(s, k, c, u) == \E t \in Seq(Items) : Len(t) = k /\ s = t \o (c \o u)

LEMMA HeadConcatTail ==
    ASSUME NEW S, NEW s \in Seq(S), s # <<>>
    PROVE  /\ Head(s) \in S /\ Tail(s) \in Seq(S)
           /\ s = <<Head(s)>> \o Tail(s)
<1>1. /\ Head(s) \in S /\ Tail(s) \in Seq(S) /\ Len(Tail(s)) = Len(s) - 1
      /\ \A i \in 1 .. Len(Tail(s)) : Tail(s)[i] = s[i + 1]
      /\ Head(s) = s[1] /\ Len(s) \in Nat \ {0}
  BY HeadTailProperties, EmptySeq
<1> DEFINE r == <<Head(s)>> \o Tail(s)
<1>2. <<Head(s)>> \in Seq(S) /\ Len(<<Head(s)>>) = 1 /\ <<Head(s)>>[1] = Head(s)
  BY <1>1
<1>3. /\ r \in Seq(S) /\ Len(r) = Len(s)
      /\ \A i \in 1 .. Len(s) : r[i] = IF i <= 1 THEN <<Head(s)>>[i] ELSE Tail(s)[i - 1]
  BY <1>1, <1>2, ConcatProperties
<1>4. ASSUME NEW i \in 1 .. Len(s) PROVE s[i] = r[i]
  <2>1. CASE i = 1
    BY <2>1, <1>1, <1>2, <1>3
  <2>2. CASE i # 1
    <3>1. i - 1 \in 1 .. Len(Tail(s)) /\ (i - 1) + 1 = i /\ ~(i <= 1)
      BY <2>2, <1>1
    <3> QED BY <3>1, <1>1, <1>3
  <2> QED BY <2>1, <2>2
<1> HIDE DEF r
<1>5. s = r
  BY <1>3, <1>4, SeqEqual
<1> QED BY <1>1, <1>5 DEF r

LEMMA ItemsAssociative ==
    ASSUME NEW x \in Seq(Items), NEW y \in Seq(Items), NEW z \in Seq(Items)
    PROVE  x \o (y \o z) = (x \o y) \o z
BY ConcatAssociative

LEMMA LinedExtend ==
    ASSUME NEW s, NEW k, NEW c \in Seq(Items), NEW b \in Seq(Items), Lined(s, k, c, <<>>)
    PROVE  Lined(s \o b, k, c, b)
<1>1. PICK t \in Seq(Items) : Len(t) = k /\ s = t \o (c \o <<>>)
  BY DEF Lined
<1>2. s \o b = t \o (c \o b)
  BY <1>1, ConcatEmptySeq, ConcatAssociative
<1> QED BY <1>1, <1>2 DEF Lined

LEMMA LinedSend ==
    ASSUME NEW s, NEW k, NEW c \in Seq(Items), NEW u \in Seq(Items), u # <<>>, Lined(s, k, c, u)
    PROVE  Lined(s, k, Append(c, Head(u)), Tail(u))
<1>1. /\ Head(u) \in Items /\ <<Head(u)>> \in Seq(Items) /\ Tail(u) \in Seq(Items)
      /\ u = <<Head(u)>> \o Tail(u)
  BY HeadConcatTail
<1>2. Append(c, Head(u)) = c \o <<Head(u)>>
  BY <1>1, AppendIsConcat
<1>3. c \o u = (c \o <<Head(u)>>) \o Tail(u)
  BY <1>1, ConcatAssociative
<1> QED BY <1>2, <1>3 DEF Lined

LEMMA LinedTake ==
    ASSUME NEW s, NEW k \in Nat, NEW c \in Seq(Items), NEW u \in Seq(Items), c # <<>>,
           Lined(s, k, c, u)
    PROVE  Lined(s, k + 1, Tail(c), u)
<1> DEFINE h == Head(c)
           d == Tail(c)
<1>1. h \in Items /\ <<h>> \in Seq(Items) /\ d \in Seq(Items) /\ c = <<h>> \o d
  BY HeadConcatTail
<1>2. PICK t \in Seq(Items) : Len(t) = k /\ s = t \o (c \o u)
  BY DEF Lined
<1>3. t \o <<h>> \in Seq(Items) /\ Len(t \o <<h>>) = k + 1
  BY <1>1, <1>2, ConcatProperties
<1> HIDE DEF h, d
<1>4. c \o u = <<h>> \o (d \o u) /\ d \o u \in Seq(Items)
  BY <1>1, ConcatAssociative, ConcatProperties
<1>5. t \o (<<h>> \o (d \o u)) = (t \o <<h>>) \o (d \o u)
  <2> DEFINE e == <<h>>
             v == d \o u
  <2>2. e \in Seq(Items) /\ v \in Seq(Items)
    BY <1>1, <1>4
  <2> HIDE DEF e, v
  <2>3. t \o (e \o v) = (t \o e) \o v
    BY <2>2, ItemsAssociative
  <2> QED BY <2>3 DEF e, v
<1>6. s = (t \o <<h>>) \o (d \o u)
  BY <1>2, <1>4, <1>5
<1>7. Lined(s, k + 1, d, u)
  BY <1>3, <1>6 DEF Lined
<1> QED BY <1>7 DEF d

LEMMA LinedPop ==
    ASSUME NEW s, NEW k \in Nat \ {0}, NEW c \in Seq(Items), NEW u \in Seq(Items),
           Lined(s, k, c, u)
    PROVE  s # <<>> /\ Lined(Tail(s), k - 1, c, u)
<1>1. PICK t \in Seq(Items) : Len(t) = k /\ s = t \o (c \o u)
  BY DEF Lined
<1>2. t # <<>> /\ c \o u \in Seq(Items)
  BY <1>1, EmptySeq, ConcatProperties
<1> DEFINE h == Head(t)
           r == Tail(t)
           v == c \o u
<1>3. /\ h \in Items /\ <<h>> \in Seq(Items) /\ r \in Seq(Items) /\ t = <<h>> \o r
      /\ Len(r) = k - 1
  BY <1>1, <1>2, HeadConcatTail, HeadTailProperties
<1> HIDE DEF h, r, v
<1>4. s = <<h>> \o (r \o v) /\ r \o v \in Seq(Items)
  BY <1>1, <1>2, <1>3, ConcatAssociative, ConcatProperties DEF v
<1>5. \A w \in Seq(Items) : <<h>> \o w # <<>> /\ Tail(<<h>> \o w) = w
  <2> SUFFICES ASSUME NEW w \in Seq(Items) PROVE <<h>> \o w # <<>> /\ Tail(<<h>> \o w) = w
    OBVIOUS
  <2> DEFINE y == <<h>> \o w
  <2>1. /\ y \in Seq(Items) /\ Len(y) = 1 + Len(w) /\ Len(w) \in Nat
        /\ \A i \in 1 .. 1 + Len(w) : y[i] = IF i <= 1 THEN <<h>>[i] ELSE w[i - 1]
    BY <1>3, ConcatProperties, LenProperties
  <2> HIDE DEF y
  <2>2. y # <<>>
    BY <2>1
  <2>3. /\ Tail(y) \in Seq(Items) /\ Len(Tail(y)) = Len(w)
        /\ \A i \in 1 .. Len(w) : Tail(y)[i] = y[i + 1]
    BY <2>1, <2>2, HeadTailProperties
  <2>4. ASSUME NEW i \in 1 .. Len(w) PROVE Tail(y)[i] = w[i]
    <3>1. i + 1 \in 1 .. 1 + Len(w) /\ ~(i + 1 <= 1) /\ (i + 1) - 1 = i
      BY <2>1
    <3> QED BY <2>1, <2>3, <3>1
  <2>5. Tail(y) = w
    BY <2>3, <2>4, SeqEqual
  <2> QED BY <2>2, <2>5 DEF y
<1>6. s # <<>> /\ Tail(s) = r \o v
  BY <1>4, <1>5
<1> QED BY <1>3, <1>6 DEF Lined, v

-----------------------------------------------------------------------------
(* The mirror, when one thread enqueues.                                   *)

(* The mirror holds the items some worker has taken but not popped yet,    *)
(* then the channel, then what the producer m has still to send.           *)
Mirrored(m) == Lined(snapshot, Cardinality(Popping), channel, unsent[m])

Located(m) == Submitted \subseteq taken \cup Range(channel) \cup Range(unsent[m])

OrderInv(m) == TypeInv /\ Distinct /\ Mirrored(m) /\ Located(m)

LEMMA PoppingCardinality ==
    /\ Cardinality(Popping) \in Nat
    /\ Cardinality(Popping') \in Nat
    /\ Popping' = Popping => Cardinality(Popping') = Cardinality(Popping)
    /\ \A c \in Consumers :
         /\ cpc[c] = "idle" /\ Popping' = Popping \cup {c}
              => Cardinality(Popping') = Cardinality(Popping) + 1
         /\ cpc[c] # "idle" /\ Popping' = Popping \ {c}
              => Cardinality(Popping') = Cardinality(Popping) - 1
<1>1. Popping \subseteq Consumers /\ Popping' \subseteq Consumers
  BY DEF Popping
<1>2. IsFiniteSet(Popping) /\ IsFiniteSet(Popping')
  BY <1>1, ConsumersAssumption, FS_Subset
<1>3. \A c \in Consumers : c \in Popping <=> cpc[c] # "idle"
  BY DEF Popping
<1> QED BY <1>2, <1>3, FS_CardinalityType, FS_AddElement, FS_RemoveElement

LEMMA OrderInit ==
    ASSUME NEW m, Producers = {m}, Init
    PROVE  OrderInv(m)
<1>1. Popping = {} /\ Submitted = {} /\ channel = <<>> /\ unsent[m] = <<>> /\ snapshot = <<>>
  BY DEF Init, Popping, Submitted
<1>2. <<>> \in Seq(Items) /\ Len(<<>>) = 0 /\ <<>> = <<>> \o (<<>> \o <<>>)
  BY EmptySeq, ConcatEmptySeq
<1>3. Mirrored(m)
  BY <1>1, <1>2, FS_EmptySet DEF Mirrored, Lined
<1> QED BY <1>1, <1>3, TypeInit, DistinctInit DEF OrderInv, Located

LEMMA OrderStep ==
    ASSUME NEW m, Producers = {m}, OrderInv(m), [Next]_vars
    PROVE  OrderInv(m)'
<1>0. TypeInv /\ Distinct /\ TypeInv' /\ Distinct'
  BY TypeStep, DistinctStep DEF OrderInv
<1> SUFFICES Mirrored(m)' /\ Located(m)'
  BY <1>0 DEF OrderInv
<1> DEFINE k == Cardinality(Popping)
<1>k. k \in Nat
  BY PoppingCardinality
<1>t. channel \in Seq(Items) /\ snapshot \in Seq(Items) /\ unsent[m] \in Seq(Items)
  BY <1>0 DEF TypeInv, TypeOK
<1>m. Lined(snapshot, k, channel, unsent[m])
  BY DEF OrderInv, Mirrored
<1>l. Submitted \subseteq taken \cup Range(channel) \cup Range(unsent[m])
  BY DEF OrderInv, Located
<1>1. ASSUME NEW b \in Batches, RestoreItems(b) PROVE Mirrored(m)' /\ Located(m)'
  <2>1. taken = {} /\ Submitted' = Range(b)
    BY <1>1, <1>0 DEF RestoreItems, Distinct, Submitted
  <2>2. Popping = {} /\ Popping' = {} /\ unsent[m] = <<>>
    BY <1>0, <1>1, <2>1 DEF RestoreItems, cvars, TypeInv, AtWork, Popping, Distinct
  <2>3. b \in Seq(Items) /\ <<>> \in Seq(Items) /\ Len(<<>>) = 0 /\ b = <<>> \o (b \o <<>>)
    BY BatchesAssumption, EmptySeq, ConcatEmptySeq
  <2>4. channel' = b /\ snapshot' = b /\ unsent' = unsent
    BY <1>1 DEF RestoreItems
  <2>5. Mirrored(m)'
    BY <2>2, <2>3, <2>4, FS_EmptySet DEF Mirrored, Lined
  <2> QED BY <2>1, <2>4, <2>5 DEF Located
<1>2. ASSUME NEW b \in Batches, ExtendSnapshot(m, b) PROVE Mirrored(m)' /\ Located(m)'
  <2>1. unsent[m] = <<>> /\ unsent'[m] = b /\ channel' = channel /\ snapshot' = snapshot \o b
    BY <1>0, <1>2 DEF ExtendSnapshot, Distinct, TypeInv, TypeOK
  <2>2. Popping' = Popping /\ taken' = taken
    BY <1>2 DEF ExtendSnapshot, cvars, Popping
  <2>3. b \in Seq(Items)
    BY BatchesAssumption
  <2>4. Lined(snapshot \o b, k, channel, b)
    BY <1>t, <1>m, <2>1, <2>3, LinedExtend
  <2>5. Mirrored(m)'
    BY <2>1, <2>2, <2>4 DEF Mirrored
  <2>6. Submitted' = Submitted \cup Range(b)
    BY <1>2 DEF ExtendSnapshot, Submitted
  <2> QED BY <1>l, <2>1, <2>2, <2>5, <2>6, RangeOfEmpty DEF Located
<1>3. ASSUME Send(m) PROVE Mirrored(m)' /\ Located(m)'
  <2>1. unsent[m] # <<>> /\ unsent'[m] = Tail(unsent[m]) /\ snapshot' = snapshot
        /\ channel' = Append(channel, Head(unsent[m]))
    BY <1>0, <1>3 DEF Send, TypeInv, TypeOK
  <2>2. Popping' = Popping /\ taken' = taken /\ Submitted' = Submitted
    BY <1>3 DEF Send, cvars, Popping, Submitted
  <2>3. Head(unsent[m]) \in Items
    BY <1>t, <2>1, HeadConcatTail
  <2>4. Lined(snapshot, k, Append(channel, Head(unsent[m])), Tail(unsent[m]))
    BY <1>t, <1>m, <2>1, LinedSend
  <2>5. Mirrored(m)'
    BY <2>1, <2>2, <2>4 DEF Mirrored
  <2>6. /\ Range(unsent[m]) = Range(unsent'[m]) \cup {Head(unsent[m])}
        /\ Range(channel') = Range(channel) \cup {Head(unsent[m])}
    BY <1>0, <1>t, <2>1, <2>3, TailRange, AppendRange DEF Distinct
  <2> QED BY <1>l, <2>2, <2>5, <2>6 DEF Located
<1>4. ASSUME AddBatchSize(m) \/ AddBatchLen(m) \/ BatchQueued(m)
      PROVE  Mirrored(m)' /\ Located(m)'
  <2>1. UNCHANGED <<snapshot, channel, unsent, cvars, submitted>>
    BY <1>4 DEF AddBatchSize, AddBatchLen, BatchQueued
  <2> QED BY <2>1, <1>l, <1>m DEF Mirrored, Located, Popping, cvars, Submitted
<1>5. ASSUME NEW c \in Consumers, Take(c) PROVE Mirrored(m)' /\ Located(m)'
  <2>1. /\ channel # <<>> /\ channel' = Tail(channel) /\ snapshot' = snapshot
        /\ unsent' = unsent /\ taken' = taken \cup {Head(channel)} /\ Submitted' = Submitted
    BY <1>5 DEF Take, pvars, Submitted
  <2>2. Cardinality(Popping') = k + 1
    <3>1. Popping' = Popping \cup {c}
      BY <1>0, <1>5 DEF Take, Popping, TypeInv, TypeOK
    <3> QED BY <1>5, <3>1, PoppingCardinality DEF Take
  <2>3. Lined(snapshot, k + 1, Tail(channel), unsent[m])
    BY <1>k, <1>t, <1>m, <2>1, LinedTake
  <2>4. Mirrored(m)'
    BY <2>1, <2>2, <2>3 DEF Mirrored
  <2>5. Range(channel) = Range(channel') \cup {Head(channel)}
    BY <1>0, <1>t, <2>1, TailRange DEF Distinct
  <2> QED BY <1>l, <2>1, <2>4, <2>5 DEF Located
<1>6. ASSUME NEW c \in Consumers, SubItemSize(c) \/ SubOne(c) \/ ItemReceived(c)
      PROVE  Mirrored(m)' /\ Located(m)'
  <2>1. UNCHANGED <<snapshot, channel, pvars, taken>>
    BY <1>6 DEF SubItemSize, SubOne, ItemReceived
  <2>2. Popping' = Popping
    BY <1>0, <1>6 DEF SubItemSize, SubOne, ItemReceived, Popping, TypeInv, TypeOK
  <2> QED BY <2>1, <2>2, <1>l, <1>m DEF Mirrored, Located, pvars, Submitted
<1>7. ASSUME NEW c \in Consumers, PopSnapshot(c) PROVE Mirrored(m)' /\ Located(m)'
  <2>1. UNCHANGED <<channel, pvars, taken>>
    BY <1>7 DEF PopSnapshot
  <2>2. Cardinality(Popping') = k - 1
    <3>1. Popping' = Popping \ {c}
      BY <1>0, <1>7 DEF PopSnapshot, Popping, TypeInv, TypeOK
    <3> QED BY <1>7, <3>1, PoppingCardinality DEF PopSnapshot
  <2>3. k \in Nat \ {0}
    BY <1>k, <2>2, PoppingCardinality
  <2>4. snapshot # <<>> /\ Lined(Tail(snapshot), k - 1, channel, unsent[m])
    BY <1>t, <1>m, <2>3, LinedPop
  <2>5. Mirrored(m)'
    BY <1>7, <2>1, <2>2, <2>4 DEF PopSnapshot, Mirrored, pvars
  <2> QED BY <1>l, <2>1, <2>5 DEF Located, pvars, Submitted
<1>8. CASE UNCHANGED vars
  BY <1>8, <1>l, <1>m DEF vars, pvars, cvars, Mirrored, Located, Popping, Submitted
<1> QED BY <1>1, <1>2, <1>3, <1>4, <1>5, <1>6, <1>7, <1>8 DEF Next, Enqueue, Receive

(* With one producing thread, the checkpoint lists exactly the pending     *)
(* items, in the order they will be transferred, whenever no call is under *)
(* way.                                                                    *)
THEOREM SnapshotIsQueueOrder ==
    ASSUME NEW m, Producers = {m}
    PROVE  Spec => []SnapshotInQueueOrder
<1>1. Init => OrderInv(m)
  BY OrderInit
<1>2. OrderInv(m) /\ [Next]_vars => OrderInv(m)'
  BY OrderStep
<1>3. OrderInv(m) => SnapshotInQueueOrder
  <2> SUFFICES ASSUME OrderInv(m), Quiescent PROVE snapshot = channel
    BY DEF SnapshotInQueueOrder
  <2>1. unsent[m] = <<>> /\ Popping = {} /\ channel \in Seq(Items)
    BY DEF OrderInv, Distinct, Quiescent, Popping, TypeInv, TypeOK
  <2>2. PICK t \in Seq(Items) : Len(t) = 0 /\ snapshot = t \o (channel \o <<>>)
    BY <2>1, FS_EmptySet DEF OrderInv, Mirrored, Lined
  <2>3. t = <<>>
    BY <2>2, EmptySeq
  <2> QED BY <2>1, <2>2, <2>3, ConcatEmptySeq
<1> QED BY <1>1, <1>2, <1>3, PTL DEF Spec

(* With one producing thread, no submitted item is ever missing from the   *)
(* mirror before a worker has it: at any moment the checkpoint would       *)
(* restore all that is left to do.                                         *)
THEOREM SnapshotCovers ==
    ASSUME NEW m, Producers = {m}
    PROVE  Spec => []SnapshotCoversPending
<1>1. Init => OrderInv(m)
  BY OrderInit
<1>2. OrderInv(m) /\ [Next]_vars => OrderInv(m)'
  BY OrderStep
<1>3. OrderInv(m) => SnapshotCoversPending
  <2> SUFFICES ASSUME OrderInv(m) PROVE Submitted \ taken \subseteq Range(snapshot)
    BY DEF SnapshotCoversPending
  <2>1. channel \in Seq(Items) /\ unsent[m] \in Seq(Items)
    BY DEF OrderInv, TypeInv, TypeOK
  <2>2. PICK t \in Seq(Items) : snapshot = t \o (channel \o unsent[m])
    BY DEF OrderInv, Mirrored, Lined
  <2>3. channel \o unsent[m] \in Seq(Items)
        /\ Range(channel \o unsent[m]) = Range(channel) \cup Range(unsent[m])
    BY <2>1, ConcatProperties, RangeConcatenation
  <2>4. Range(snapshot) = Range(t) \cup Range(channel) \cup Range(unsent[m])
    <3> DEFINE v == channel \o unsent[m]
    <3> HIDE DEF v
    <3>1. v \in Seq(Items) /\ Range(v) = Range(channel) \cup Range(unsent[m]) /\ snapshot = t \o v
      BY <2>2, <2>3 DEF v
    <3>2. Range(t \o v) = Range(t) \cup Range(v)
      BY <3>1, RangeConcatenation
    <3> QED BY <3>1, <3>2
  <2> QED BY <2>4 DEF OrderInv, Located
<1> QED BY <1>1, <1>2, <1>3, PTL DEF Spec

-----------------------------------------------------------------------------
(* The three views at rest, for any number of producers: total_size counts *)
(* bytes as pending counts items, the mirror has as many items as were     *)
(* submitted and not popped, and every submitted item is somewhere.        *)

Bytes(S) == SumFunctionOnSet(Size, S)

(* What total_size does not include yet, and what it still includes.       *)
NotYetSized ==
    UNION {Range(batch[p]) : p \in {q \in Producers : ppc[q] \in {"send", "total_size"}}}
StillSized == {item[c] : c \in {d \in Consumers : cpc[d] = "total_size"}}

SizeExact   == total_size = Bytes(Submitted \ NotYetSized) - Bytes(taken \ StillSized)
MirrorCount == Len(snapshot) = Cardinality(Submitted) - Cardinality(taken) + Cardinality(Popping)
Placed      == \A i \in Submitted :
                   i \in Range(channel) \/ i \in taken \/ \E p \in Producers : i \in Range(unsent[p])

LEMMA BytesOfSet ==
    /\ \A S \in SUBSET Items : IsFiniteSet(S) => Bytes(S) \in Nat
    /\ \A S, T \in SUBSET Items :
           IsFiniteSet(S) /\ IsFiniteSet(T) /\ S \cap T = {} => Bytes(S \cup T) = Bytes(S) + Bytes(T)
    /\ \A S, T \in SUBSET Items : IsFiniteSet(T) /\ S \subseteq T => Bytes(S) <= Bytes(T)
    /\ \A i \in Items : Bytes({i}) = Size[i]
    /\ Bytes({}) = 0
    /\ \A s \in Seq(Items) : IsInjective(s) => BytesOf(s) = Bytes(Range(s))
<1>0. \A i \in Items : Size[i] \in Nat
  BY SizeAssumption
<1>1. ASSUME NEW S \in SUBSET Items, IsFiniteSet(S)
      PROVE  Bytes(S) \in Nat
  BY <1>0, <1>1, SumNat DEF Bytes
<1>2. ASSUME NEW S \in SUBSET Items, NEW T \in SUBSET Items, IsFiniteSet(S), IsFiniteSet(T),
             S \cap T = {}
      PROVE  Bytes(S \cup T) = Bytes(S) + Bytes(T)
  <2>1. \A x \in S \cup T : Size[x] \in Int
    BY <1>0
  <2> QED  BY <1>2, <2>1, SumUnion DEF Bytes
<1>3. ASSUME NEW S \in SUBSET Items, NEW T \in SUBSET Items, IsFiniteSet(T), S \subseteq T
      PROVE  Bytes(S) <= Bytes(T)
  <2> DEFINE R == T \ S
  <2>1. R \in SUBSET Items /\ S \cap R = {} /\ T = S \cup R
    BY <1>3
  <2>2. IsFiniteSet(S) /\ IsFiniteSet(R)
    BY <1>3, FS_Subset
  <2> HIDE DEF R
  <2>3. Bytes(S \cup R) = Bytes(S) + Bytes(R)
    BY <1>2, <2>1, <2>2
  <2>4. Bytes(T) = Bytes(S) + Bytes(R)
    BY <2>1, <2>3, Zenon
  <2>5. Bytes(S) \in Nat /\ Bytes(R) \in Nat
    BY <1>1, <2>1, <2>2
  <2> QED  BY <2>4, <2>5
<1>4. Bytes({}) = 0
  BY SumEmpty DEF Bytes
<1>5. ASSUME NEW i \in Items
      PROVE  Bytes({i}) = Size[i]
  <2>1. IsFiniteSet({i}) /\ \A x \in {i} : Size[x] \in Int
    <3>1. \A x \in {i} : Size[x] \in Int
      BY <1>0
    <3> QED  BY <3>1, FS_Singleton, Zenon
  <2>2. SumFunctionOnSet(Size, {i}) = Size[i] + SumFunctionOnSet(Size, {i} \ {i})
    BY <2>1, SumRemove
  <2>3. {i} \ {i} = {}
    OBVIOUS
  <2>4. SumFunctionOnSet(Size, {i} \ {i}) = 0
    BY <2>3, SumEmpty, Zenon
  <2> QED  BY <1>0, <2>2, <2>4 DEF Bytes
<1>6. ASSUME NEW s \in Seq(Items), IsInjective(s)
      PROVE  BytesOf(s) = Bytes(Range(s))
  <2>1. \A x \in Items : Size[x] \in Int
    BY <1>0
  <2> QED  BY <1>6, <2>1, SumOfRange DEF BytesOf, Bytes
<1> QED  BY <1>1, <1>2, <1>3, <1>4, <1>5, <1>6

(* A batch that is enqueued or restored is new.                            *)
LEMMA NewBatch ==
    ASSUME TypeInv, NEW b \in Batches,
           RestoreItems(b) \/ \E p \in Producers : ExtendSnapshot(p, b)
    PROVE  /\ Submitted' = Submitted \cup Range(b) /\ Submitted \cap Range(b) = {}
           /\ b \in Seq(Items) /\ IsInjective(b) /\ Len(b) \in Nat
           /\ IsFiniteSet(Range(b)) /\ Cardinality(Range(b)) = Len(b) /\ Range(b) \subseteq Items
           /\ taken' = taken /\ Popping' = Popping
<1>1. submitted \subseteq Batches /\ b \notin submitted /\ submitted' = submitted \cup {b}
  BY DEF TypeInv, TypeOK, RestoreItems, ExtendSnapshot
<1>2. \A d \in submitted : Range(d) \cap Range(b) = {}
  BY <1>1, BatchesAssumption
<1>3. Submitted' = Submitted \cup Range(b) /\ Submitted \cap Range(b) = {}
  BY <1>1, <1>2 DEF Submitted
<1>4. b \in Seq(Items) /\ IsInjective(b)
  BY BatchesAssumption
<1>5. taken' = taken /\ Popping' = Popping
  BY DEF RestoreItems, ExtendSnapshot, cvars, Popping
<1> QED  BY <1>3, <1>4, <1>5, RangeCardinality, RangeTyped, LenProperties

LEMMA Finite ==
    ASSUME TypeInv, Distinct
    PROVE  /\ Submitted \subseteq Items /\ taken \subseteq Submitted
           /\ IsFiniteSet(Submitted) /\ IsFiniteSet(taken)
           /\ Cardinality(Submitted) \in Nat /\ Cardinality(taken) \in Nat
           /\ Cardinality(taken) <= Cardinality(Submitted)
<1>1. Submitted \subseteq Items
  BY BatchesAssumption, RangeTyped DEF Submitted, TypeInv, TypeOK
<1>2. taken \subseteq Submitted /\ IsFiniteSet(Submitted) /\ IsFiniteSet(taken)
  BY DEF Distinct
<1> QED  BY <1>1, <1>2, FS_CardinalityType, FS_Subset

LEMMA SizeStep == TypeInv /\ Distinct /\ SizeExact /\ [Next]_vars => SizeExact'
<1> SUFFICES ASSUME TypeInv, Distinct, SizeExact, [Next]_vars
             PROVE  SizeExact'
  OBVIOUS
<1> DEFINE added      == Submitted \ NotYetSized
           subtracted == taken \ StillSized
<1>0. /\ added \in SUBSET Items /\ subtracted \in SUBSET Items
      /\ IsFiniteSet(added) /\ IsFiniteSet(subtracted)
      /\ Bytes(added) \in Nat /\ Bytes(subtracted) \in Nat
  <2>1. added \in SUBSET Items /\ subtracted \in SUBSET Items
    BY Finite
  <2>2. IsFiniteSet(added) /\ IsFiniteSet(subtracted)
    BY Finite, FS_Difference
  <2> QED  BY <2>1, <2>2, BytesOfSet
<1>s. total_size = Bytes(added) - Bytes(subtracted)
  BY DEF SizeExact
<1>e. ASSUME total_size' = Bytes(added') - Bytes(subtracted')
      PROVE  SizeExact'
  BY <1>e DEF SizeExact, Bytes
<1>u. ASSUME added' = added, subtracted' = subtracted, total_size' = total_size
      PROVE  SizeExact'
  BY <1>u, <1>s, <1>e
<1>1. ASSUME NEW b \in Batches, RestoreItems(b) PROVE SizeExact'
  <2>1. submitted = {} /\ UNCHANGED <<ppc, batch>> /\ total_size' = BytesOf(b)
    BY <1>1 DEF RestoreItems
  <2>2. Submitted = {} /\ taken = {}
    BY <2>1, Finite DEF Submitted
  <2>3. NotYetSized' = {}
    BY <2>1 DEF NotYetSized, TypeInv, AtWork
  <2>4. added' = Range(b) /\ subtracted' = {}
    BY <1>1, <2>2, <2>3, NewBatch
  <2>5. BytesOf(b) = Bytes(Range(b)) /\ Bytes(Range(b)) \in Nat
    BY <1>1, NewBatch, BytesOfSet
  <2>6. Bytes(added') = Bytes(Range(b)) /\ Bytes(subtracted') = 0
    BY <2>4, BytesOfSet
  <2> HIDE DEF added, subtracted
  <2>7. total_size' = Bytes(added') - Bytes(subtracted')
    BY <2>1, <2>5, <2>6
  <2> QED  BY <1>e, <2>7
<1>2. ASSUME NEW p \in Producers, NEW b \in Batches, ExtendSnapshot(p, b) PROVE SizeExact'
  <2>1. NotYetSized' = NotYetSized \cup Range(b)
    BY <1>2 DEF ExtendSnapshot, NotYetSized, TypeInv, TypeOK, ProducerSteps
  <2>2. added' = added
    BY <1>2, <2>1, NewBatch
  <2>3. subtracted' = subtracted /\ total_size' = total_size
    BY <1>2 DEF ExtendSnapshot, cvars, counters, StillSized
  <2> QED  BY <1>u, <2>2, <2>3
<1>3. ASSUME NEW p \in Producers, Send(p) \/ AddBatchLen(p) \/ BatchQueued(p) PROVE SizeExact'
  <2>1. NotYetSized' = NotYetSized
    <3>1. \A q \in Producers : ppc'[q] \in {"send", "total_size"} <=> ppc[q] \in {"send", "total_size"}
      BY <1>3 DEF Send, AddBatchLen, BatchQueued, TypeInv, TypeOK, ProducerSteps
    <3>2. batch' = batch
      BY <1>3 DEF Send, AddBatchLen, BatchQueued
    <3> QED  BY <3>1, <3>2 DEF NotYetSized
  <2>2. UNCHANGED <<Submitted, subtracted, total_size>>
    BY <1>3 DEF Send, AddBatchLen, BatchQueued, cvars, counters, StillSized, Submitted
  <2> QED  BY <1>u, <2>1, <2>2
<1>4. ASSUME NEW p \in Producers, AddBatchSize(p) PROVE SizeExact'
  <2> DEFINE R == Range(batch[p])
  <2>1. batch[p] \in submitted /\ batch[p] \in Batches
    BY <1>4 DEF AddBatchSize, TypeInv, TypeOK, AtWork
  <2>2. IsFiniteSet(R) /\ R \in SUBSET Items /\ BytesOf(batch[p]) = Bytes(R) /\ Bytes(R) \in Nat
    BY <2>1, BatchesAssumption, RangeCardinality, RangeTyped, BytesOfSet
  <2>3. R \subseteq Submitted /\ Submitted' = Submitted
    BY <1>4, <2>1 DEF AddBatchSize, Submitted
  <2>4. R \subseteq NotYetSized
    BY <1>4 DEF AddBatchSize, NotYetSized
  <2>5. NotYetSized' = NotYetSized \ R
    <3>1. \A q \in Producers \ {p} : ppc[q] # "idle" => Range(batch[q]) \cap R = {}
      BY <1>4, <2>1, BatchesAssumption DEF AddBatchSize, TypeInv, TypeOK, AtWork, Distinct
    <3>2. \A q \in Producers : ppc'[q] \in {"send", "total_size"}
                                 <=> q # p /\ ppc[q] \in {"send", "total_size"}
      BY <1>4 DEF AddBatchSize, TypeInv, TypeOK, ProducerSteps
    <3>3. batch' = batch
      BY <1>4 DEF AddBatchSize
    <3> QED  BY <3>1, <3>2, <3>3 DEF NotYetSized
  <2>6. added' = added \cup R /\ added \cap R = {}
    BY <2>3, <2>4, <2>5
  <2>7. Bytes(added') = Bytes(added) + Bytes(R)
    <3> HIDE DEF added, R
    <3>1. Bytes(added \cup R) = Bytes(added) + Bytes(R)
      BY <1>0, <2>2, <2>6, BytesOfSet
    <3> QED  BY <2>6, <3>1, Zenon
  <2>8. subtracted' = subtracted
    BY <1>4 DEF AddBatchSize, cvars, StillSized
  <2>9. total_size' = total_size + Bytes(R)
    BY <1>4, <2>2 DEF AddBatchSize
  <2>10. total_size' = Bytes(added') - Bytes(subtracted')
    <3> HIDE DEF added, subtracted, R
    <3> QED  BY <1>0, <1>s, <2>2, <2>7, <2>8, <2>9
  <2> QED  BY <1>e, <2>10
<1>5. ASSUME NEW c \in Consumers, Take(c) PROVE SizeExact'
  <2>1. Head(channel) \notin taken
    BY <1>5, TailRange DEF Take, TypeInv, TypeOK, Distinct
  <2>2. StillSized' = StillSized \cup {Head(channel)}
    BY <1>5 DEF Take, StillSized, TypeInv, TypeOK, ConsumerSteps
  <2>3. subtracted' = subtracted
    BY <1>5, <2>1, <2>2 DEF Take
  <2>4. UNCHANGED <<Submitted, NotYetSized, total_size>>
    BY <1>5 DEF Take, pvars, counters, Submitted, NotYetSized
  <2> QED  BY <1>u, <2>3, <2>4
<1>6. ASSUME NEW c \in Consumers, SubItemSize(c) PROVE SizeExact'
  <2> DEFINE i == item[c]
  <2>1. i \in taken /\ i \in StillSized /\ i \in Items
    BY <1>6, Finite DEF SubItemSize, StillSized, TypeInv, AtWork
  <2>2. StillSized' = StillSized \ {i}
    <3>1. \A d \in Consumers \ {c} : cpc[d] # "idle" => item[d] # i
      BY <1>6 DEF SubItemSize, Distinct
    <3>2. \A d \in Consumers : cpc'[d] = "total_size" <=> d # c /\ cpc[d] = "total_size"
      BY <1>6 DEF SubItemSize, TypeInv, TypeOK, ConsumerSteps
    <3>3. item' = item
      BY <1>6 DEF SubItemSize
    <3> QED  BY <3>1, <3>2, <3>3 DEF StillSized
  <2>3. subtracted' = subtracted \cup {i} /\ i \notin subtracted
    BY <1>6, <2>1, <2>2 DEF SubItemSize
  <2>4. Bytes(subtracted') = Bytes(subtracted) + Size[i] /\ Size[i] \in Nat
    <3>1. IsFiniteSet({i}) /\ {i} \in SUBSET Items /\ subtracted \cap {i} = {}
      BY <2>1, <2>3, FS_Singleton
    <3> HIDE DEF subtracted, i
    <3>2. Bytes(subtracted \cup {i}) = Bytes(subtracted) + Bytes({i})
      BY <1>0, <3>1, BytesOfSet
    <3>3. Bytes({i}) = Size[i] /\ Size[i] \in Nat
      BY <2>1, BytesOfSet, SizeAssumption
    <3>4. Bytes(subtracted') = Bytes(subtracted) + Bytes({i})
      BY <2>3, <3>2, Zenon
    <3> QED  BY <3>3, <3>4
  <2>5. UNCHANGED <<Submitted, NotYetSized>> /\ total_size' = total_size - Size[i]
    BY <1>6 DEF SubItemSize, pvars, Submitted, NotYetSized
  <2>6. total_size' = Bytes(added') - Bytes(subtracted')
    <3>1. added' = added
      BY <2>5
    <3> HIDE DEF added, subtracted, i
    <3> QED  BY <1>0, <1>s, <2>4, <2>5, <3>1
  <2> QED  BY <1>e, <2>6
<1>7. ASSUME NEW c \in Consumers, SubOne(c) \/ ItemReceived(c) \/ PopSnapshot(c) PROVE SizeExact'
  <2>1. StillSized' = StillSized
    BY <1>7 DEF SubOne, ItemReceived, PopSnapshot, StillSized, TypeInv, TypeOK, ConsumerSteps
  <2>2. UNCHANGED <<Submitted, NotYetSized, taken, total_size>>
    BY <1>7 DEF SubOne, ItemReceived, PopSnapshot, pvars, counters, Submitted, NotYetSized
  <2> QED  BY <1>u, <2>1, <2>2
<1>8. CASE UNCHANGED vars
  <2>1. UNCHANGED <<Submitted, NotYetSized, StillSized, taken, total_size>>
    BY <1>8 DEF vars, pvars, cvars, counters, Submitted, NotYetSized, StillSized
  <2> QED  BY <1>u, <2>1
<1> HIDE DEF added, subtracted
<1> QED
  BY <1>1, <1>2, <1>3, <1>4, <1>5, <1>6, <1>7, <1>8 DEF Next, Enqueue, Receive

LEMMA MirrorStep == TypeInv /\ Distinct /\ MirrorCount /\ [Next]_vars => MirrorCount'
<1> SUFFICES ASSUME TypeInv, Distinct, MirrorCount, [Next]_vars
             PROVE  MirrorCount'
  OBVIOUS
<1>0. /\ snapshot \in Seq(Items) /\ Len(snapshot) \in Nat
      /\ Cardinality(Submitted) \in Nat /\ Cardinality(taken) \in Nat
      /\ Cardinality(taken) <= Cardinality(Submitted) /\ IsFiniteSet(Submitted) /\ IsFiniteSet(taken)
      /\ Cardinality(Popping) \in Nat
  BY Finite, PoppingCardinality, LenProperties DEF TypeInv, TypeOK
<1>1. ASSUME NEW b \in Batches, RestoreItems(b) \/ \E p \in Producers : ExtendSnapshot(p, b)
      PROVE  MirrorCount'
  <2>1. Len(snapshot') = Len(snapshot) + Len(b)
    <3>1. CASE RestoreItems(b)
      <4>1. Submitted = {} /\ snapshot' = b /\ Len(b) \in Nat
        BY <3>1, NewBatch DEF RestoreItems, Submitted
      <4>2. taken = {} /\ \A c \in Consumers : cpc[c] = "idle"
        BY <4>1, Finite DEF TypeInv, AtWork
      <4>3. Popping = {}
        BY <4>2 DEF Popping
      <4>4. Cardinality(Submitted) = 0 /\ Cardinality(taken) = 0 /\ Cardinality(Popping) = 0
        BY <4>1, <4>2, <4>3, FS_EmptySet
      <4> QED  BY <4>1, <4>4 DEF MirrorCount
    <3>2. CASE \E p \in Producers : ExtendSnapshot(p, b)
      BY <1>0, <3>2, NewBatch, ConcatProperties DEF ExtendSnapshot
    <3> QED  BY <1>1, <3>1, <3>2
  <2>2. Cardinality(Submitted') = Cardinality(Submitted) + Len(b)
    <3>1. Cardinality(Submitted \cup Range(b)) = Cardinality(Submitted) + Cardinality(Range(b))
      BY <1>0, <1>1, NewBatch, DisjointUnion
    <3> QED  BY <1>1, <3>1, NewBatch
  <2>3. taken' = taken /\ Popping' = Popping /\ Len(b) \in Nat
    BY <1>1, NewBatch
  <2>4. Cardinality(taken') = Cardinality(taken) /\ Cardinality(Popping') = Cardinality(Popping)
    BY <2>3
  <2> QED  BY <1>0, <2>1, <2>2, <2>3, <2>4 DEF MirrorCount
<1>2. ASSUME NEW p \in Producers,
             Send(p) \/ AddBatchSize(p) \/ AddBatchLen(p) \/ BatchQueued(p)
      PROVE  MirrorCount'
  <2>1. UNCHANGED <<snapshot, Submitted, taken, Popping>>
    BY <1>2 DEF Send, AddBatchSize, AddBatchLen, BatchQueued, cvars, Submitted, Popping
  <2> QED  BY <2>1 DEF MirrorCount
<1>3. ASSUME NEW c \in Consumers, Take(c) PROVE MirrorCount'
  <2>1. Head(channel) \notin taken
    BY <1>3, TailRange DEF Take, TypeInv, TypeOK, Distinct
  <2>2. Cardinality(taken') = Cardinality(taken) + 1
    BY <1>0, <1>3, <2>1, FS_AddElement DEF Take
  <2>3. Popping' = Popping \cup {c} /\ cpc[c] = "idle"
    BY <1>3 DEF Take, Popping, TypeInv, TypeOK
  <2>4. Cardinality(Popping') = Cardinality(Popping) + 1
    BY <2>3, PoppingCardinality
  <2>5. snapshot' = snapshot /\ Submitted' = Submitted
    BY <1>3 DEF Take, pvars, Submitted
  <2>6. Len(snapshot') = Len(snapshot) /\ Cardinality(Submitted') = Cardinality(Submitted)
    BY <2>5
  <2> QED  BY <1>0, <2>2, <2>4, <2>6 DEF MirrorCount
<1>4. ASSUME NEW c \in Consumers, SubItemSize(c) \/ SubOne(c) \/ ItemReceived(c)
      PROVE  MirrorCount'
  <2>1. Popping' = Popping
    BY <1>4 DEF SubItemSize, SubOne, ItemReceived, Popping, TypeInv, TypeOK
  <2>2. UNCHANGED <<snapshot, Submitted, taken>>
    BY <1>4 DEF SubItemSize, SubOne, ItemReceived, pvars, Submitted
  <2> QED  BY <2>1, <2>2 DEF MirrorCount
<1>5. ASSUME NEW c \in Consumers, PopSnapshot(c) PROVE MirrorCount'
  <2>1. Popping' = Popping \ {c} /\ cpc[c] # "idle" /\ UNCHANGED <<Submitted, taken>>
    BY <1>5 DEF PopSnapshot, Popping, TypeInv, TypeOK, pvars, Submitted
  <2>2. Cardinality(Popping') = Cardinality(Popping) - 1 /\ Cardinality(Popping') \in Nat
    BY <2>1, PoppingCardinality
  <2>3. Len(snapshot) > 0
    BY <1>0, <2>2 DEF MirrorCount
  <2>4. snapshot # <<>>
    BY <2>3, EmptyRange
  <2>5. Len(snapshot') = Len(snapshot) - 1
    BY <1>0, <1>5, <2>4, TailRange DEF PopSnapshot
  <2>6. Cardinality(Submitted') = Cardinality(Submitted) /\ Cardinality(taken') = Cardinality(taken)
    BY <2>1
  <2> QED  BY <1>0, <2>2, <2>5, <2>6 DEF MirrorCount
<1>6. CASE UNCHANGED vars
  <2>1. UNCHANGED <<snapshot, Submitted, taken, Popping>>
    BY <1>6 DEF vars, pvars, cvars, Submitted, Popping
  <2> QED  BY <2>1 DEF MirrorCount
<1> QED  BY <1>1, <1>2, <1>3, <1>4, <1>5, <1>6 DEF Next, Enqueue, Receive

LEMMA PlacedStep == TypeInv /\ Distinct /\ Placed /\ [Next]_vars => Placed'
<1> SUFFICES ASSUME TypeInv, Distinct, Placed, [Next]_vars
             PROVE  Placed'
  OBVIOUS
<1>0. /\ channel \in Seq(Items) /\ unsent \in [Producers -> Seq(Items)]
      /\ \A p \in Producers : ppc[p] # "send" => unsent[p] = <<>>
  BY DEF TypeInv, TypeOK, Distinct
<1>1. ASSUME NEW b \in Batches, RestoreItems(b) PROVE Placed'
  <2>1. Submitted' = Range(b) /\ channel' = b
    BY <1>1, NewBatch DEF RestoreItems, Submitted
  <2> QED  BY <2>1 DEF Placed
<1>2. ASSUME NEW p \in Producers, NEW b \in Batches, ExtendSnapshot(p, b) PROVE Placed'
  <2>1. /\ unsent' = [unsent EXCEPT ![p] = b] /\ UNCHANGED <<channel, taken>>
        /\ Submitted' = Submitted \cup Range(b) /\ unsent[p] = <<>>
    BY <1>0, <1>2, NewBatch DEF ExtendSnapshot
  <2>2. unsent'[p] = b /\ \A q \in Producers \ {p} : unsent'[q] = unsent[q]
    BY <1>0, <2>1
  <2>3. Range(unsent[p]) = {}
    BY <2>1, EmptyRange
  <2> QED  BY <2>1, <2>2, <2>3 DEF Placed
<1>3. ASSUME NEW p \in Producers, Send(p) PROVE Placed'
  <2> DEFINE h == Head(unsent[p])
  <2>1. /\ unsent[p] # <<>> /\ channel' = Append(channel, h) /\ UNCHANGED <<taken, submitted>>
        /\ unsent' = [unsent EXCEPT ![p] = Tail(unsent[p])]
    BY <1>3 DEF Send, cvars
  <2>2. h \in Items /\ Range(unsent[p]) = Range(Tail(unsent[p])) \cup {h}
    BY <1>0, <2>1, TailRange
  <2>3. Range(channel') = Range(channel) \cup {h}
    BY <1>0, <2>1, <2>2, AppendRange
  <2>4. unsent'[p] = Tail(unsent[p]) /\ \A q \in Producers \ {p} : unsent'[q] = unsent[q]
    BY <1>0, <2>1
  <2>5. Submitted' = Submitted
    BY <2>1 DEF Submitted
  <2> QED  BY <2>1, <2>2, <2>3, <2>4, <2>5 DEF Placed
<1>4. ASSUME NEW c \in Consumers, Take(c) PROVE Placed'
  <2>1. /\ channel # <<>> /\ channel' = Tail(channel) /\ taken' = taken \cup {Head(channel)}
        /\ UNCHANGED <<unsent, submitted>>
    BY <1>4 DEF Take, pvars
  <2>2. Range(channel) = Range(channel') \cup {Head(channel)}
    BY <1>0, <2>1, TailRange
  <2>3. Submitted' = Submitted
    BY <2>1 DEF Submitted
  <2> QED  BY <2>1, <2>2, <2>3 DEF Placed
<1>5. CASE UNCHANGED <<channel, taken, unsent, submitted>>
  <2>1. Submitted' = Submitted
    BY <1>5 DEF Submitted
  <2> QED  BY <1>5, <2>1 DEF Placed
<1>6. ASSUME NEW p \in Producers, AddBatchSize(p) \/ AddBatchLen(p) \/ BatchQueued(p) PROVE Placed'
  BY <1>5, <1>6 DEF AddBatchSize, AddBatchLen, BatchQueued, cvars
<1>7. ASSUME NEW c \in Consumers, SubItemSize(c) \/ SubOne(c) \/ ItemReceived(c) \/ PopSnapshot(c)
      PROVE  Placed'
  BY <1>5, <1>7 DEF SubItemSize, SubOne, ItemReceived, PopSnapshot, pvars
<1>8. CASE UNCHANGED vars
  BY <1>5, <1>8 DEF vars, pvars, cvars
<1> QED
  BY <1>1, <1>2, <1>3, <1>4, <1>6, <1>7, <1>8 DEF Next, Enqueue, Receive

(* When no call is under way len(), total_size() and the mirror's length   *)
(* agree with the channel, for any number of producers and workers, if all *)
(* items and all their bytes can be counted in a machine word.             *)
THEOREM QuiescentViewsAgree ==
    ASSUME IsFiniteSet(Items), Cardinality(Items) < WordSize, Bytes(Items) < WordSize
    PROVE  Spec => []QuiescentAgreement
<1> DEFINE IInv == TypeInv /\ Distinct /\ CounterExact /\ SizeExact /\ MirrorCount /\ Placed
<1>1. Init => IInv
  <2> SUFFICES ASSUME Init
               PROVE  SizeExact /\ MirrorCount /\ Placed
    BY TypeInit, DistinctInit, CounterInit
  <2>1. Submitted = {} /\ taken = {} /\ Popping = {} /\ snapshot = <<>> /\ total_size = 0
    BY DEF Init, Submitted, Popping
  <2>2. Submitted \ NotYetSized = {} /\ taken \ StillSized = {}
    BY <2>1
  <2>3. SizeExact
    BY <2>1, <2>2, BytesOfSet DEF SizeExact
  <2>4. MirrorCount
    BY <2>1, FS_EmptySet, EmptyRange DEF MirrorCount
  <2> QED  BY <2>1, <2>3, <2>4 DEF Placed
<1>2. IInv /\ [Next]_vars => IInv'
  BY TypeStep, DistinctStep, CounterStep, SizeStep, MirrorStep, PlacedStep
<1>3. IInv => QuiescentAgreement
  <2> SUFFICES ASSUME IInv, Quiescent
               PROVE  /\ Length = Len(channel) /\ TotalBytes = BytesOf(channel)
                      /\ Len(snapshot) = Len(channel)
    BY DEF QuiescentAgreement
  <2> DEFINE C == Range(channel)
  <2>1. /\ NotYetCounted = {} /\ StillCounted = {} /\ NotYetSized = {} /\ StillSized = {}
        /\ Popping = {} /\ \A p \in Producers : unsent[p] = <<>>
    BY DEF Quiescent, NotYetCounted, StillCounted, NotYetSized, StillSized, Popping, Distinct
  <2>2. Submitted = C \cup taken /\ C \cap taken = {} /\ IsInjective(channel)
    BY <2>1, EmptyRange DEF Placed, Distinct
  <2>3. /\ channel \in Seq(Items) /\ C \in SUBSET Items /\ taken \in SUBSET Items
        /\ IsFiniteSet(C) /\ IsFiniteSet(taken) /\ Cardinality(C) = Len(channel)
        /\ Cardinality(taken) \in Nat /\ Cardinality(C) \in Nat
        /\ Cardinality(C) <= Cardinality(Items) /\ Cardinality(Items) \in Nat
    <3>1. channel \in Seq(Items) /\ taken \in SUBSET Items
      BY DEF TypeInv, TypeOK
    <3>2. C \in SUBSET Items /\ IsFiniteSet(C) /\ Cardinality(C) = Len(channel) /\ IsFiniteSet(taken)
      BY <2>2, <3>1, RangeTyped, RangeCardinality DEF Distinct
    <3> QED  BY <3>1, <3>2, FS_CardinalityType, FS_Subset
  <2> HIDE DEF C
  <2>4. Cardinality(Submitted) = Cardinality(C) + Cardinality(taken)
    BY <2>2, <2>3, DisjointUnion
  <2>5. Bytes(Submitted) = Bytes(C) + Bytes(taken)
    <3>1. Bytes(C \cup taken) = Bytes(C) + Bytes(taken)
      BY <2>2, <2>3, BytesOfSet
    <3> QED  BY <2>2, <3>1, Zenon
  <2>6. Bytes(C) \in Nat /\ Bytes(taken) \in Nat /\ Bytes(C) <= Bytes(Items) /\ Bytes(Items) \in Nat
    BY <2>3, BytesOfSet
  <2>7. pending = Len(channel)
    <3>1. pending = Cardinality(Submitted) - Cardinality(taken)
      BY <2>1 DEF CounterExact
    <3> QED  BY <2>3, <2>4, <3>1
  <2>8. total_size = Bytes(C)
    <3>1. total_size = Bytes(Submitted) - Bytes(taken)
      BY <2>1 DEF SizeExact
    <3> QED  BY <2>5, <2>6, <3>1
  <2>9. \A n \in 0 .. WordSize - 1 : n % WordSize = n
    BY WordSizeAssumption, Z3
  <2>10. Length = Len(channel)
    BY <2>3, <2>7, <2>9, WordSizeAssumption DEF Length
  <2>11. TotalBytes = BytesOf(channel)
    <3>1. BytesOf(channel) = Bytes(C)
      BY <2>2, <2>3, BytesOfSet DEF C
    <3>2. total_size % WordSize = total_size
      BY <2>6, <2>8, <2>9, WordSizeAssumption
    <3> QED  BY <2>8, <3>1, <3>2 DEF TotalBytes
  <2>12. Len(snapshot) = Len(channel)
    <3>1. Cardinality(Popping) = 0
      BY <2>1, FS_EmptySet
    <3> QED  BY <2>3, <2>4, <3>1 DEF MirrorCount
  <2> QED  BY <2>10, <2>11, <2>12
<1> QED  BY <1>1, <1>2, <1>3, PTL DEF Spec

-----------------------------------------------------------------------------
(* Refinement: every step of the queue is a step of the log or leaves it   *)
(* alone.                                                                  *)

LEMMA LinedNext ==
    ASSUME NEW s, NEW k \in Nat, NEW c \in Seq(Items), NEW u \in Seq(Items), c # <<>>,
           Lined(s, k, c, u)
    PROVE  k < Len(s) /\ s[k + 1] = Head(c)
<1>1. PICK t \in Seq(Items) : Len(t) = k /\ s = t \o (c \o u)
  BY DEF Lined
<1> DEFINE v == c \o u
<1>2. /\ v \in Seq(Items) /\ Len(v) = Len(c) + Len(u) /\ Len(c) \in Nat \ {0} /\ Len(u) \in Nat
      /\ v[1] = c[1]
  BY ConcatProperties, LenProperties, EmptySeq
<1> HIDE DEF v
<1>3. /\ Len(t \o v) = k + Len(v)
      /\ \A i \in 1 .. k + Len(v) : (t \o v)[i] = IF i <= k THEN t[i] ELSE v[i - k]
  BY <1>1, <1>2, ConcatProperties
<1>4. k + 1 \in 1 .. k + Len(v) /\ ~(k + 1 <= k) /\ (k + 1) - k = 1
  BY <1>2
<1>5. k < k + Len(v) /\ (t \o v)[k + 1] = v[1]
  BY <1>2, <1>3, <1>4
<1>6. Head(c) = c[1]
  OBVIOUS
<1>7. s = t \o v
  BY <1>1 DEF v
<1> QED BY <1>2, <1>3, <1>5, <1>6, <1>7

(* With one producing thread the queue implements the log: nothing leaves  *)
(* the mirror before a worker received it, and the workers receive the     *)
(* items in the order of the mirror.                                       *)
THEOREM QueueImplementsLog ==
    ASSUME NEW m, Producers = {m}
    PROVE  Spec => ImplementsLog
<1>1. Init => OrderInv(m) /\ Log!Init
  <2>1. Init => Popping = {}
    BY DEF Init, Popping
  <2> QED BY <2>1, OrderInit, FS_EmptySet DEF Init, Log!Init
<1>2. OrderInv(m) /\ [Next]_vars => OrderInv(m)'
  BY OrderStep
<1>3. OrderInv(m) /\ OrderInv(m)' /\ [Next]_vars => [Log!Next]_Log!vars
  <2> SUFFICES ASSUME OrderInv(m), [Next]_vars PROVE [Log!Next]_Log!vars
    OBVIOUS
  <2> DEFINE k == Cardinality(Popping)
  <2>0. /\ TypeInv /\ Distinct /\ k \in Nat
        /\ channel \in Seq(Items) /\ snapshot \in Seq(Items) /\ unsent[m] \in Seq(Items)
        /\ Lined(snapshot, k, channel, unsent[m])
    BY PoppingCardinality DEF OrderInv, Mirrored, TypeInv, TypeOK
  <2> USE DEF Log!vars
  <2>1. ASSUME NEW b \in Batches, RestoreItems(b) PROVE Log!Submit(b)
    <3>1. taken = {} /\ UNCHANGED <<taken, cpc>> /\ submitted = {} /\ submitted' = {b}
          /\ snapshot' = b
      BY <2>0, <2>1 DEF RestoreItems, Distinct, Submitted, cvars
    <3>2. Popping = {} /\ Popping' = Popping
      BY <2>0, <2>1, <3>1 DEF RestoreItems, TypeInv, AtWork, Popping
    <3>3. unsent[m] = <<>>
      BY <2>0, <3>1 DEF TypeInv, TypeOK, AtWork, Distinct
    <3>4. channel = <<>>
      <4>1. Range(channel) = {}
        BY <2>0, <3>1 DEF Distinct, Submitted
      <4> QED BY <2>0, <4>1, TailRange DEF Distinct
    <3>5. PICK t \in Seq(Items) : Len(t) = 0 /\ snapshot = t \o (<<>> \o <<>>)
      BY <2>0, <3>2, <3>3, <3>4, FS_EmptySet DEF Lined
    <3>6. snapshot = <<>>
      BY <3>5, EmptySeq, ConcatEmptySeq
    <3>7. b \in Seq(Items) /\ b = <<>> \o b
      BY BatchesAssumption, ConcatEmptySeq
    <3> QED BY <3>1, <3>2, <3>6, <3>7 DEF Log!Submit
  <2>2. ASSUME NEW b \in Batches, ExtendSnapshot(m, b) PROVE Log!Submit(b)
    BY <2>2 DEF ExtendSnapshot, Log!Submit, cvars, Popping
  <2>3. ASSUME Send(m) \/ AddBatchSize(m) \/ AddBatchLen(m) \/ BatchQueued(m)
        PROVE  UNCHANGED Log!vars
    BY <2>3 DEF Send, AddBatchSize, AddBatchLen, BatchQueued, cvars, Popping
  <2>4. ASSUME NEW c \in Consumers, Take(c) PROVE Log!Deliver
    <3>1. Popping' = Popping \cup {c}
      BY <2>0, <2>4 DEF Take, Popping, TypeInv, TypeOK
    <3>2. Cardinality(Popping') = k + 1
      BY <2>4, <3>1, PoppingCardinality DEF Take
    <3>3. k < Len(snapshot) /\ snapshot[k + 1] = Head(channel)
      BY <2>0, <2>4, LinedNext DEF Take
    <3> QED BY <2>4, <3>2, <3>3 DEF Take, Log!Deliver, pvars
  <2>5. ASSUME NEW c \in Consumers, SubItemSize(c) \/ SubOne(c) \/ ItemReceived(c)
        PROVE  UNCHANGED Log!vars
    <3>1. Popping' = Popping
      BY <2>0, <2>5 DEF SubItemSize, SubOne, ItemReceived, Popping, TypeInv, TypeOK
    <3> QED BY <2>5, <3>1 DEF SubItemSize, SubOne, ItemReceived, pvars
  <2>6. ASSUME NEW c \in Consumers, PopSnapshot(c) PROVE Log!Retire
    <3>1. Popping' = Popping \ {c}
      BY <2>0, <2>6 DEF PopSnapshot, Popping, TypeInv, TypeOK
    <3>0. Cardinality(Popping') = Cardinality(Popping) - 1 /\ Cardinality(Popping') \in Nat
      BY <2>6, <3>1, PoppingCardinality DEF PopSnapshot
    <3>2. Cardinality(Popping') = k - 1 /\ k \in Nat \ {0}
      BY <2>0, <3>0
    <3>3. snapshot # <<>>
      BY <2>0, <3>2, LinedPop
    <3> QED BY <2>6, <3>2, <3>3 DEF PopSnapshot, Log!Retire, pvars
  <2>7. CASE UNCHANGED vars
    BY <2>7 DEF vars, pvars, cvars, Popping
  <2> QED
    BY <2>1, <2>2, <2>3, <2>4, <2>5, <2>6, <2>7 DEF Next, Enqueue, Receive, Log!Next
<1> QED BY <1>1, <1>2, <1>3, PTL DEF Spec, ImplementsLog, Log!Spec

-----------------------------------------------------------------------------
(* The queue as the worker pool sees it.                                   *)

(* The batches of two producers at work share no item. *)
LEMMA Apart ==
    ASSUME TypeInv, Distinct, NEW p \in Producers, NEW q \in Producers, p # q,
           ppc[p] # "idle", ppc[q] # "idle"
    PROVE  Range(batch[p]) \cap Range(batch[q]) = {}
<1>1. batch[p] \in Batches /\ batch[q] \in Batches /\ batch[p] # batch[q]
  BY DEF TypeInv, TypeOK, AtWork, Distinct
<1> QED  BY <1>1, BatchesAssumption

LEMMA CountedRange == \A s : Counted!Range(s) = Range(s)
BY DEF Counted!Range, Range

(* An item is ahead of the count once it is in the channel and its         *)
(* producer has yet to add the batch, and behind it while its consumer has *)
(* yet to subtract it. *)
LEMMA CountedStep ==
    ASSUME TypeInv, Distinct, CounterExact, [Next]_vars
    PROVE  [Counted!Next]_Counted!vars
<1> DEFINE U == UNION {Range(unsent[p]) : p \in Producers}
           ahead == NotYetCounted \ U
<1> USE CountedRange DEF Counted!vars
<1>0. /\ channel \in Seq(Items) /\ unsent \in [Producers -> Seq(Items)]
      /\ ppc \in [Producers -> ProducerSteps] /\ cpc \in [Consumers -> ConsumerSteps]
      /\ \A p \in Producers : ppc[p] # "send" => unsent[p] = <<>>
      /\ \A p \in Producers : Range(unsent[p]) \subseteq Range(batch[p])
      /\ U \cap (Range(channel) \cup taken) = {}
      /\ StillCounted \subseteq taken
  BY DEF TypeInv, TypeOK, AtWork, Distinct, StillCounted
<1>1. ASSUME NEW b \in Batches, RestoreItems(b) PROVE Counted!Restore
  <2>1. /\ \A p \in Producers : ppc[p] = "idle"
        /\ \A c \in Consumers : cpc[c] = "idle"
        /\ taken = {} /\ taken' = {} /\ Submitted = {} /\ UNCHANGED <<ppc, cpc, item, batch, unsent>>
    BY <1>1 DEF RestoreItems, TypeInv, AtWork, Distinct, Submitted, cvars
  <2>2. /\ NotYetCounted = {} /\ NotYetCounted' = {}
        /\ StillCounted = {} /\ StillCounted' = {}
    BY <2>1 DEF NotYetCounted, StillCounted
  <2>3. channel = <<>>
    <3>1. Range(channel) = {}
      BY <2>1 DEF Distinct
    <3> QED  BY <1>0, <3>1, TailRange DEF Distinct
  <2>4. pending = 0
    <3>1. Submitted \ NotYetCounted = {} /\ taken \ StillCounted = {}
      BY <2>1, <2>2
    <3> QED  BY <3>1, FS_EmptySet DEF CounterExact
  <2>5. pending' = Len(channel')
    BY <1>1 DEF RestoreItems
  <2> QED  BY <2>2, <2>3, <2>4, <2>5 DEF Counted!Restore
<1>2. ASSUME NEW p \in Producers, NEW b \in Batches, ExtendSnapshot(p, b) PROVE UNCHANGED Counted!vars
  <2>1. NotYetCounted' = NotYetCounted \cup Range(b)
    BY <1>2 DEF ExtendSnapshot, NotYetCounted, TypeInv, TypeOK, ProducerSteps
  <2>2. unsent' = [unsent EXCEPT ![p] = b] /\ ppc[p] = "idle" /\ unsent[p] = <<>>
    BY <1>0, <1>2 DEF ExtendSnapshot
  <2>3. U' = U \cup Range(b)
    <3>1. Range(unsent[p]) = {} /\ unsent'[p] = b /\ \A q \in Producers \ {p} : unsent'[q] = unsent[q]
      BY <1>0, <2>2, EmptyRange
    <3>2. \A x : x \in U' <=> \E q \in Producers : x \in Range(unsent'[q])
      OBVIOUS
    <3>3. \A x : x \in U <=> \E q \in Producers : x \in Range(unsent[q])
      OBVIOUS
    <3> HIDE DEF U
    <3> QED  BY <3>1, <3>2, <3>3
  <2>4. NotYetCounted \cap Range(b) = {}
    <3>1. NotYetCounted \subseteq Submitted
      BY DEF NotYetCounted, Submitted, TypeInv, AtWork
    <3>2. Submitted \cap Range(b) = {}
      BY <1>2, NewBatch DEF ExtendSnapshot
    <3> QED  BY <3>1, <3>2
  <2>5. ahead' = ahead
    BY <2>1, <2>3, <2>4
  <2> QED  BY <1>2, <2>5 DEF ExtendSnapshot, counters, cvars, StillCounted
<1>3. ASSUME NEW p \in Producers, Send(p) PROVE \E i \in Items : Counted!Send(<<i>>)
  <2> DEFINE h == Head(unsent[p])
  <2>1. /\ unsent[p] # <<>> /\ ppc[p] = "send" /\ channel' = Append(channel, h)
        /\ unsent' = [unsent EXCEPT ![p] = Tail(unsent[p])]
        /\ UNCHANGED <<pending, StillCounted>>
    BY <1>3 DEF Send, cvars, counters, StillCounted
  <2>2. /\ h \in Items /\ Range(unsent[p]) = Range(Tail(unsent[p])) \cup {h}
        /\ h \notin Range(Tail(unsent[p]))
    BY <1>0, <2>1, TailRange DEF Distinct
  <2>3. \A q \in Producers \ {p} : unsent'[q] = unsent[q] /\ h \notin Range(unsent[q])
    <3>1. \A q \in Producers \ {p} : ppc[q] = "send" => Range(batch[p]) \cap Range(batch[q]) = {}
      BY <2>1, Apart
    <3>2. \A q \in Producers \ {p} : ppc[q] # "send" => Range(unsent[q]) = {}
      BY <1>0, EmptyRange
    <3>3. h \in Range(batch[p])
      BY <1>0, <2>2
    <3>4. \A q \in Producers \ {p} : h \notin Range(unsent[q])
      BY <1>0, <3>1, <3>2, <3>3
    <3> QED  BY <1>0, <2>1, <3>4
  <2>4. unsent'[p] = Tail(unsent[p])
    BY <1>0, <2>1
  <2>5. U' = U \ {h} /\ h \in U
    <3>1. \A x \in U' : x \in U /\ x # h
      BY <2>2, <2>3, <2>4
    <3>2. \A x \in U : x # h => x \in U'
      BY <2>2, <2>3, <2>4
    <3> QED  BY <2>2, <3>1, <3>2
  <2>6. NotYetCounted' = NotYetCounted /\ h \in NotYetCounted
    <3>1. NotYetCounted' = NotYetCounted
      BY <1>3 DEF Send, NotYetCounted, TypeInv, TypeOK, ProducerSteps
    <3>2. h \in Range(batch[p])
      BY <1>0, <2>2
    <3> QED  BY <2>1, <3>1, <3>2 DEF NotYetCounted
  <2>7. ahead' = ahead \cup {h} /\ h \notin ahead
    BY <2>5, <2>6
  <2>8. Range(<<h>>) = {h} /\ channel' = channel \o <<h>>
    <3>1. DOMAIN <<h>> = {1} /\ <<h>>[1] = h
      OBVIOUS
    <3>2. Range(<<h>>) = {h}
      BY <3>1 DEF Range
    <3>3. channel' = channel \o <<h>>
      BY <1>0, <2>1, <2>2
    <3> QED  BY <3>2, <3>3
  <2>9. h \notin Range(channel) \cup ahead \cup StillCounted
    BY <1>0, <2>5, <2>7
  <2>10. Counted!Send(<<h>>)
    BY <2>1, <2>7, <2>8, <2>9 DEF Counted!Send
  <2> QED  BY <2>2, <2>10
<1>4. ASSUME NEW p \in Producers, AddBatchSize(p) \/ BatchQueued(p) PROVE UNCHANGED Counted!vars
  <2>1. \A q \in Producers : ppc'[q] \in {"send", "total_size", "pending"}
                               <=> ppc[q] \in {"send", "total_size", "pending"}
    BY <1>0, <1>4 DEF AddBatchSize, BatchQueued
  <2>2. batch' = batch
    BY <1>4 DEF AddBatchSize, BatchQueued
  <2>3. NotYetCounted' = NotYetCounted
    BY <2>1, <2>2 DEF NotYetCounted
  <2> QED  BY <1>4, <2>3 DEF AddBatchSize, BatchQueued, cvars, StillCounted
<1>5. ASSUME NEW p \in Producers, AddBatchLen(p)
      PROVE  \E b \in Batches : Counted!CountSent(b)
  <2> DEFINE R == Range(batch[p])
  <2>1. /\ ppc[p] = "pending" /\ pending' = pending + Len(batch[p])
        /\ ppc' = [ppc EXCEPT ![p] = "revision"]
        /\ UNCHANGED <<channel, batch, unsent, StillCounted>>
    BY <1>5 DEF AddBatchLen, cvars, StillCounted
  <2>2. batch[p] \in Batches
    BY <2>1 DEF TypeInv, AtWork, TypeOK
  <2>3. \A q \in Producers \ {p} : ppc[q] # "idle" => R \cap Range(batch[q]) = {}
    BY <2>1, Apart
  <2>4. R \cap U = {}
    <3>1. \A q \in Producers : Range(unsent[q]) # {} => ppc[q] = "send" /\ q # p
      BY <1>0, <2>1, EmptyRange
    <3>2. \A q \in Producers : R \cap Range(unsent[q]) = {}
      BY <1>0, <2>3, <3>1
    <3> QED  BY <3>2
  <2>5. NotYetCounted' = NotYetCounted \ R
    <3>1. \A q \in Producers : ppc'[q] \in {"send", "total_size", "pending"}
                                 <=> q # p /\ ppc[q] \in {"send", "total_size", "pending"}
      BY <1>0, <2>1
    <3> QED  BY <2>1, <2>3, <3>1 DEF NotYetCounted
  <2>6. R \subseteq NotYetCounted
    BY <2>1 DEF NotYetCounted
  <2>7. R \subseteq ahead /\ ahead' = ahead \ R
    BY <2>1, <2>4, <2>5, <2>6
  <2>8. Counted!CountSent(batch[p])
    BY <2>1, <2>7 DEF Counted!CountSent
  <2> QED  BY <2>2, <2>8
<1>6. ASSUME NEW c \in Consumers, Take(c) PROVE Counted!Take
  <2>1. StillCounted' = StillCounted \cup {Head(channel)}
    BY <1>6 DEF Take, StillCounted, TypeInv, TypeOK, ConsumerSteps
  <2>2. Head(channel) \notin StillCounted
    <3>1. Head(channel) \in Range(channel)
      BY <1>0, <1>6, TailRange DEF Take, Distinct
    <3> QED  BY <1>0, <3>1 DEF Distinct
  <2>3. UNCHANGED <<pending, NotYetCounted, unsent>>
    BY <1>6 DEF Take, counters, pvars, NotYetCounted
  <2> QED  BY <1>6, <2>1, <2>2, <2>3 DEF Take, Counted!Take
<1>7. ASSUME NEW c \in Consumers, SubItemSize(c) \/ ItemReceived(c) \/ PopSnapshot(c)
      PROVE  UNCHANGED Counted!vars
  <2>1. StillCounted' = StillCounted
    BY <1>7 DEF SubItemSize, ItemReceived, PopSnapshot, StillCounted, TypeInv, TypeOK, ConsumerSteps
  <2> QED  BY <1>7, <2>1 DEF SubItemSize, ItemReceived, PopSnapshot, pvars, counters, NotYetCounted
<1>8. ASSUME NEW c \in Consumers, SubOne(c) PROVE \E i \in StillCounted : Counted!CountTaken(i)
  <2>1. /\ cpc[c] = "pending" /\ cpc' = [cpc EXCEPT ![c] = "revision"] /\ pending' = pending - 1
        /\ UNCHANGED <<channel, item, unsent, NotYetCounted>>
    BY <1>8 DEF SubOne, pvars, NotYetCounted
  <2>2. \A d \in Consumers \ {c} : cpc[d] # "idle" => item[d] # item[c]
    BY <2>1 DEF Distinct
  <2>3. \A d \in Consumers : cpc'[d] \in {"total_size", "pending"}
                               <=> d # c /\ cpc[d] \in {"total_size", "pending"}
    BY <1>0, <2>1
  <2>4. StillCounted' = StillCounted \ {item[c]} /\ item[c] \in StillCounted
    BY <2>1, <2>2, <2>3 DEF StillCounted
  <2> QED  BY <2>1, <2>4 DEF Counted!CountTaken
<1>9. CASE UNCHANGED vars
  BY <1>9 DEF vars, counters, pvars, cvars, NotYetCounted, StillCounted
<1> QED
  BY <1>1, <1>2, <1>3, <1>4, <1>5, <1>6, <1>7, <1>8, <1>9 DEF Next, Enqueue, Receive, Counted!Next

(* With any number of producers and consumers, the channel and the count   *)
(* are a CountedQueue, what the worker pool relies on (ImplementsCounted): *)
(* an item is sent once, taken once, and added to and taken from the count *)
(* once, however late.                                                     *)
THEOREM QueueImplementsCounted == Spec => ImplementsCounted
<1> DEFINE IInv == TypeInv /\ Distinct /\ CounterExact
<1>1. Init => IInv /\ Counted!Init
  <2>1. Init => NotYetCounted = {} /\ StillCounted = {} /\ channel = <<>> /\ pending = 0
    BY DEF Init, NotYetCounted, StillCounted
  <2>2. Init => IInv
    BY TypeInit, DistinctInit, CounterInit
  <2> QED  BY <2>1, <2>2, EmptyRange DEF Counted!Init
<1>2. IInv /\ [Next]_vars => IInv'
  BY TypeStep, DistinctStep, CounterStep
<1>3. IInv /\ [Next]_vars => [Counted!Next]_Counted!vars
  BY CountedStep
<1> QED  BY <1>1, <1>2, <1>3, PTL DEF Spec, ImplementsCounted, Counted!Spec

-----------------------------------------------------------------------------
(* The update policy: every file collected, skipped or copied by runs that *)
(* follow each other, while the files' owner edits them.                   *)

CONSTANTS Files, Sizes, Threshold, Tolerance, Granularity, None, MaxTime, MaxEdits, MaxRuns
VARIABLES now, src, dst, pc, runs, update_mode, todo, queued, item_size, reading, edits, written,
          current

Policy == INSTANCE UpdateMode

(* What a copy under way has read is the source, or a first part of it;    *)
(* while the source has not changed since it became current, that is the   *)
(* source as it is now. *)
CutShort(m, f) == m.data = Policy!Cut /\ Threshold <= m.size /\ m.size < src[f].size

ReadingInv ==
    /\ pc # "copy" => \A f \in Files : reading[f] = None
    /\ \A f \in current : reading[f] # None => reading[f] = src[f] \/ CutShort(reading[f], f)

(* A destination bears the moment at which its copy was completed. *)
TimeInv == \A f \in Files : dst[f] # None => dst[f].mtime = Policy!Stored(written[f])

PolicyInv == Policy!TypeOK /\ ReadingInv /\ TimeInv /\ Policy!UpToDate

(* A stored time is the time itself, but for the resolution. *)
LEMMA StoredTime ==
    ASSUME Policy!UpdateAssumption, NEW t \in 0..MaxTime
    PROVE  Policy!Stored(t) \in 0..MaxTime /\ Policy!Stored(t) <= t
           /\ t - Policy!Stored(t) < Granularity
<1>1. Granularity \in Nat \ {0} /\ MaxTime \in Nat
  BY DEF Policy!UpdateAssumption
<1>2. t % Granularity \in 0..t /\ t % Granularity \in 0..Granularity - 1
  BY <1>1, SMTT(30)
<1> QED  BY <1>1, <1>2 DEF Policy!Stored

(* What the policy takes for the same time is as near to the moment the    *)
(* copy was completed as UpToDate says. *)
LEMMA CloseEnough ==
    ASSUME Policy!UpdateAssumption, NEW s \in 0..MaxTime, NEW t \in 0..MaxTime,
           Policy!mtime_close_enough(s, Policy!Stored(t))
    PROVE  Policy!Distance(s, t) < 2 * (Tolerance + 1) + Granularity - 1
<1>1. Tolerance \in Nat /\ Granularity \in Nat \ {0} /\ MaxTime \in Nat
  BY DEF Policy!UpdateAssumption
<1> DEFINE u == Policy!Stored(t)
           n == Policy!Distance(s, u)
<1>2. u \in 0..MaxTime /\ u <= t /\ t - u < Granularity
  BY StoredTime
<1>3. n \in Nat
  BY <1>1, <1>2 DEF Policy!Distance
<1>4. n \div 2 <= Tolerance
  BY DEF Policy!mtime_close_enough, Policy!Seconds
<1>5. n <= 2 * Tolerance + 1
  <2> HIDE DEF n
  <2> QED  BY <1>1, <1>3, <1>4
<1>6. Policy!Distance(s, t) <= n + (t - u)
  <2> HIDE DEF u
  <2> QED  BY <1>1, <1>2 DEF Policy!Distance
<1>7. Policy!Distance(s, t) \in Nat
  BY <1>1 DEF Policy!Distance
<1> HIDE DEF u, n
<1> QED  BY <1>1, <1>2, <1>3, <1>5, <1>6, <1>7

LEMMA PolicyInit == ASSUME Policy!UpdateAssumption, Policy!Init PROVE PolicyInv
<1> USE DEF Policy!UpdateAssumption
<1>1. src \in [Files -> Policy!Meta]
  <2>1. [data : {0}, size : Sizes, mtime : {0}] \subseteq Policy!Meta
    BY DEF Policy!Meta
  <2> QED  BY <2>1 DEF Policy!Init
<1>2. Policy!TypeOK
  <2>1. 0 \in 0..MaxTime /\ 0 \in 0..MaxEdits /\ 0 \in 0..MaxRuns
    OBVIOUS
  <2>2. written \in [Files -> 0..MaxTime]
    BY <2>1 DEF Policy!Init
  <2>3. reading \in [Files -> Policy!Meta \cup {None}] /\ dst \in [Files -> Policy!Meta \cup {None}]
    BY DEF Policy!Init
  <2>4. (\A f \in Files : reading[f] # None => f \in queued) /\ item_size \in [queued -> Sizes]
    BY DEF Policy!Init
  <2> QED  BY <1>1, <2>1, <2>2, <2>3, <2>4 DEF Policy!Init, Policy!TypeOK
<1> QED  BY <1>2 DEF Policy!Init, PolicyInv, ReadingInv, TimeInv, Policy!UpToDate

LEMMA PolicyStep ==
    ASSUME Policy!UpdateAssumption, PolicyInv, [Policy!Next]_(Policy!vars)
    PROVE  PolicyInv'
<1>0. /\ None \notin Policy!Meta
      /\ now \in 0..MaxTime /\ MaxTime \in Nat /\ MaxEdits \in Nat /\ MaxRuns \in Nat
      /\ src \in [Files -> Policy!Meta] /\ dst \in [Files -> Policy!Meta \cup {None}]
      /\ reading \in [Files -> Policy!Meta \cup {None}] /\ written \in [Files -> 0..MaxTime]
      /\ current \subseteq Files
  BY DEF Policy!UpdateAssumption, PolicyInv, Policy!TypeOK
<1>t. Policy!TypeOK /\ ReadingInv /\ TimeInv /\ Policy!UpToDate
  BY DEF PolicyInv
(* The steps that leave the files alone. *)
<1>a. ASSUME UNCHANGED <<src, dst, reading, written>>, current' \subseteq current, ReadingInv',
             Policy!TypeOK'
      PROVE  PolicyInv'
  BY <1>a, <1>t DEF PolicyInv, TimeInv, Policy!UpToDate, Policy!Stored, Policy!Distance, Policy!Cut
<1>1. CASE Policy!StartRun
  <2>1. Policy!TypeOK'
    BY <1>1, <1>t DEF Policy!StartRun, Policy!TypeOK, Policy!env
  <2>2. ReadingInv'
    BY <1>1, <1>t DEF Policy!StartRun, ReadingInv, CutShort
  <2> QED  BY <1>1, <1>a, <2>1, <2>2 DEF Policy!StartRun
<1>2. CASE Policy!BatchQueued
  <2>1. Policy!TypeOK'
    BY <1>2, <1>t DEF Policy!BatchQueued, Policy!TypeOK, Policy!env
  <2>2. ReadingInv'
    BY <1>2, <1>t DEF Policy!BatchQueued, ReadingInv, CutShort
  <2> QED  BY <1>2, <1>a, <2>1, <2>2 DEF Policy!BatchQueued
<1>3. CASE Policy!WalkFails
  <2>1. Policy!TypeOK'
    BY <1>3, <1>t DEF Policy!WalkFails, Policy!TypeOK, Policy!env, ReadingInv
  <2>2. ReadingInv'
    BY <1>3, <1>t DEF Policy!WalkFails, ReadingInv, CutShort
  <2> QED  BY <1>3, <1>a, <2>1, <2>2 DEF Policy!WalkFails
<1>4. ASSUME NEW f \in Files, Policy!Skip(f) PROVE PolicyInv'
  <2>1. Policy!TypeOK'
    BY <1>4, <1>t DEF Policy!Skip, Policy!TypeOK, Policy!env
  <2>2. ReadingInv'
    BY <1>4, <1>t DEF Policy!Skip, ReadingInv, CutShort
  <2>3. dst[f] # None /\ dst[f].size = src[f].size
        /\ Policy!Distance(src[f].mtime, written[f]) < 2 * (Tolerance + 1) + Granularity - 1
    <3>1. dst[f] # None /\ src[f].size = dst[f].size
          /\ Policy!mtime_close_enough(src[f].mtime, dst[f].mtime)
      BY <1>4 DEF Policy!Skip, Policy!destination_is_unchanged
    <3>2. dst[f].mtime = Policy!Stored(written[f])
      BY <1>t, <3>1 DEF TimeInv
    <3>3. src[f].mtime \in 0..MaxTime /\ written[f] \in 0..MaxTime
      BY <1>0 DEF Policy!Meta
    <3> QED  BY <3>1, <3>2, <3>3, CloseEnough
  <2> QED  BY <1>4, <1>t, <2>1, <2>2, <2>3
      DEF Policy!Skip, PolicyInv, TimeInv, Policy!UpToDate, Policy!Stored, Policy!Distance
<1>5. ASSUME NEW f \in Files, Policy!Collect(f) PROVE PolicyInv'
  <2>1. Policy!TypeOK'
    <3>1. src[f].size \in Sizes /\ item_size \in [queued -> Sizes]
      BY <1>0, <1>t DEF Policy!Meta, Policy!TypeOK
    <3>2. item_size' \in [queued' -> Sizes]
      BY <1>5, <3>1 DEF Policy!Collect
    <3>3. queued' \subseteq Files /\ pc = "walk" /\ todo' \subseteq Files
      BY <1>5, <1>t DEF Policy!Collect, Policy!TypeOK
    <3>4. \A g \in Files : reading'[g] # None => g \in queued'
      BY <1>5, <1>t DEF Policy!Collect, Policy!TypeOK
    <3> QED  BY <1>5, <1>t, <3>2, <3>3, <3>4 DEF Policy!Collect, Policy!TypeOK, Policy!env
  <2>2. ReadingInv'
    BY <1>5, <1>t DEF Policy!Collect, ReadingInv, CutShort
  <2> QED  BY <1>5, <1>a, <2>1, <2>2 DEF Policy!Collect
<1>6. ASSUME NEW f \in Files, Policy!StartCopy(f) PROVE PolicyInv'
  <2>1. /\ UNCHANGED <<now, edits, src, dst, pc, runs, update_mode, todo, queued, item_size, written>>
        /\ f \in queued /\ current' = current \cup {f} /\ pc = "copy"
    BY <1>6 DEF Policy!StartCopy, Policy!env, Policy!run
  <2>2. ASSUME NEW m \in Policy!Meta, reading' = [reading EXCEPT ![f] = m],
               m = src[f] \/ CutShort(m, f)
        PROVE  PolicyInv'
    <3>1. /\ reading' \in [Files -> Policy!Meta \cup {None}] /\ reading'[f] = m /\ m # None
          /\ \A g \in Files \ {f} : reading'[g] = reading[g]
      BY <1>0, <2>2
    <3>2. Policy!TypeOK'
      <4>1. \A g \in Files : reading'[g] # None => g \in queued'
        BY <1>t, <2>1, <3>1 DEF Policy!TypeOK
      <4>2. current' \subseteq Files
        BY <1>0, <2>1
      <4> QED  BY <1>t, <2>1, <3>1, <4>1, <4>2 DEF Policy!TypeOK
    <3>3. ReadingInv'
      BY <1>0, <1>t, <2>1, <2>2, <3>1 DEF ReadingInv, CutShort
    <3>4. TimeInv'
      BY <1>t, <2>1 DEF TimeInv, Policy!Stored
    <3>5. Policy!UpToDate'
      BY <1>0, <1>t, <2>1, <3>1 DEF Policy!UpToDate, Policy!Distance, Policy!Cut
    <3> QED  BY <3>2, <3>3, <3>4, <3>5 DEF PolicyInv
  <2>3. CASE reading' = [reading EXCEPT ![f] = src[f]]
    BY <1>0, <2>2, <2>3
  <2>4. CASE /\ item_size[f] >= Threshold /\ item_size[f] < src[f].size
             /\ reading' = [reading EXCEPT ![f] = Policy!Prefix(f)]
    <3>1. src[f] \in Policy!Meta /\ item_size[f] \in Sizes /\ Sizes \subseteq Nat /\ Threshold \in Nat
      BY <1>0, <1>t, <2>1 DEF Policy!TypeOK, Policy!UpdateAssumption
    <3>2. Policy!Cut \in Nat
      BY <1>0 DEF Policy!Cut
    <3>3. /\ Policy!Prefix(f) \in Policy!Meta
          /\ Policy!Prefix(f).data = Policy!Cut /\ Policy!Prefix(f).size = item_size[f]
      BY <3>1, <3>2 DEF Policy!Prefix, Policy!Meta
    <3>4. CutShort(Policy!Prefix(f), f)
      BY <2>4, <3>1, <3>3 DEF CutShort
    <3> QED  BY <2>2, <2>4, <3>3, <3>4
  <2> QED  BY <1>6, <2>3, <2>4 DEF Policy!StartCopy
<1>7. ASSUME NEW f \in Files, Policy!CopyEnds(f) \/ Policy!CopyFails(f)
      PROVE  PolicyInv'
  <2> USE <1>7, <1>t DEF Policy!LeavesQueue
  <2>1. reading' = [reading EXCEPT ![f] = None] /\ queued' = queued \ {f} /\ src' = src
        /\ reading[f] # None /\ current' \subseteq current
    BY DEF Policy!CopyEnds, Policy!CopyFails
  <2>2. Policy!CopyEnds(f) => dst' = [dst EXCEPT ![f] = [reading[f] EXCEPT !.mtime = Policy!Stored(now)]]
                              /\ written' = [written EXCEPT ![f] = now]
    BY DEF Policy!CopyEnds
  <2>3. Policy!CopyFails(f) => UNCHANGED <<dst, written>> /\ f \notin current'
    BY DEF Policy!CopyFails
  <2>4. reading[f] \in Policy!Meta /\ Policy!Stored(now) \in 0..MaxTime
    BY <1>0, <2>1, StoredTime
  <2> DEFINE d == [reading[f] EXCEPT !.mtime = Policy!Stored(now)]
  <2>5. /\ d \in Policy!Meta /\ d.mtime = Policy!Stored(now) /\ d.data = reading[f].data
        /\ d.size = reading[f].size /\ d # None
    BY <1>0, <2>4 DEF Policy!Meta
  <2> HIDE DEF d
  <2>6. dst' \in [Files -> Policy!Meta \cup {None}] /\ written' \in [Files -> 0..MaxTime]
    BY <1>0, <2>2, <2>3, <2>5 DEF d
  <2>7. Policy!TypeOK'
    <3>1. UNCHANGED <<now, edits, src, runs, update_mode, todo>> /\ pc \in {"copy"}
          /\ pc' = IF queued = {f} THEN "idle" ELSE "copy"
      BY DEF Policy!CopyEnds, Policy!CopyFails, Policy!env
    <3>2. (pc' = "idle" => queued' = {}) /\ pc' \in {"idle", "walk", "copy"}
      BY <2>1, <3>1
    <3>3. \A g \in Files : reading'[g] # None => g \in queued'
      BY <1>0, <2>1 DEF Policy!TypeOK
    <3>4. reading' \in [Files -> Policy!Meta \cup {None}]
      BY <1>0, <2>1
    <3>5. item_size' \in [queued' -> Sizes]
      BY <2>1 DEF Policy!CopyEnds, Policy!CopyFails, Policy!TypeOK
    <3> QED  BY <2>1, <2>6, <3>1, <3>2, <3>3, <3>4, <3>5 DEF Policy!TypeOK
  <2>8. ReadingInv'
    <3>1. pc' # "copy" => \A g \in Files : reading'[g] = None
      BY <1>0, <2>1 DEF Policy!CopyEnds, Policy!CopyFails, Policy!TypeOK
    <3> QED  BY <1>0, <2>1, <3>1 DEF ReadingInv, CutShort
  <2>9. TimeInv'
    BY <1>0, <2>2, <2>3, <2>5 DEF TimeInv, Policy!Stored, d
  <2>10. Policy!UpToDate'
    <3>1. \A g \in Files \ {f} : dst'[g] = dst[g] /\ written'[g] = written[g] /\ reading'[g] = reading[g]
      BY <1>0, <2>1, <2>2, <2>3
    <3>2. f \in current' => /\ dst'[f] # None
                            /\ dst'[f].data = src'[f].data \/ CutShort(dst'[f], f)
      BY <1>0, <2>1, <2>2, <2>3, <2>5 DEF ReadingInv, CutShort, d
    <3> QED  BY <1>0, <2>1, <3>1, <3>2 DEF Policy!UpToDate, Policy!Distance, Policy!Cut, CutShort
  <2> QED  BY <2>7, <2>8, <2>9, <2>10 DEF PolicyInv
<1>8. CASE Policy!Tick
  <2>1. Policy!TypeOK'
    BY <1>8, <1>t, <1>0 DEF Policy!Tick, Policy!TypeOK, Policy!run
  <2>2. ReadingInv'
    BY <1>8, <1>t DEF Policy!Tick, ReadingInv, CutShort, Policy!run
  <2> QED  BY <1>8, <1>a, <2>1, <2>2 DEF Policy!Tick
<1>9. ASSUME NEW f \in Files, NEW n \in Sizes, NEW t \in {0, now}, Policy!Change(f, n, t)
      PROVE  PolicyInv'
  <2>1. Policy!TypeOK'
    <3>1. edits + 1 \in Nat /\ edits + 1 \in 0..MaxEdits /\ t \in 0..MaxTime
      BY <1>0, <1>9, <1>t DEF Policy!Change, Policy!TypeOK
    <3>2. [data |-> edits + 1, size |-> n, mtime |-> t] \in Policy!Meta
      BY <3>1 DEF Policy!Meta
    <3> QED  BY <1>0, <1>9, <1>t, <3>1, <3>2 DEF Policy!Change, Policy!TypeOK, Policy!run
  <2>2. \A g \in current' : g \in current /\ src'[g] = src[g]
    BY <1>0, <1>9 DEF Policy!Change
  <2>3. ReadingInv'
    BY <1>9, <1>t, <2>2 DEF Policy!Change, ReadingInv, CutShort, Policy!run
  <2> QED  BY <1>9, <1>t, <2>1, <2>2, <2>3
      DEF Policy!Change, PolicyInv, TimeInv, Policy!UpToDate, Policy!Stored, Policy!Distance
<1>10. CASE UNCHANGED Policy!vars
  <2>1. Policy!TypeOK' /\ ReadingInv'
    BY <1>10, <1>t DEF Policy!vars, Policy!env, Policy!run, Policy!TypeOK, ReadingInv, CutShort
  <2> QED  BY <1>10, <1>a, <2>1 DEF Policy!vars
<1> QED  BY <1>1, <1>2, <1>3, <1>4, <1>5, <1>6, <1>7, <1>8, <1>9, <1>10 DEF Policy!Next

(* The policy's variables keep their types, and a file that is being       *)
(* copied is still in the queue. *)
THEOREM PolicyTyped ==
    ASSUME Policy!UpdateAssumption PROVE Policy!Spec => []Policy!TypeOK
<1>1. Policy!Init => PolicyInv
  BY PolicyInit
<1>2. PolicyInv /\ [Policy!Next]_(Policy!vars) => PolicyInv'
  BY PolicyStep
<1>3. PolicyInv => Policy!TypeOK
  BY DEF PolicyInv
<1> QED  BY <1>1, <1>2, <1>3, PTL DEF Policy!Spec

(* A file that the last run covered and that was not edited since has its  *)
(* data at the destination, unless a run found the size unchanged and the  *)
(* time near that of the copy, or the file is large and grew between the   *)
(* walk and its copy, and was cut to its old size (UpToDate): for any      *)
(* number of files and edits, any sizes and threshold, any tolerance and   *)
(* any resolution of the destination's clock.                              *)
THEOREM PolicyUpToDate ==
    ASSUME Policy!UpdateAssumption PROVE Policy!Spec => []Policy!UpToDate
<1>1. Policy!Init => PolicyInv
  BY PolicyInit
<1>2. PolicyInv /\ [Policy!Next]_(Policy!vars) => PolicyInv'
  BY PolicyStep
<1>3. PolicyInv => Policy!UpToDate
  BY DEF PolicyInv
<1> QED  BY <1>1, <1>2, <1>3, PTL DEF Policy!Spec
=============================================================================
