---------------------------- MODULE DataTheorems ----------------------------
(***************************************************************************)
(* Lemmas about the data the models are built from: the elements of a      *)
(* sequence, and the sum of a function over a finite set.                  *)
(***************************************************************************)
EXTENDS Functions, Integers, Sequences, FiniteSets, FiniteSetTheorems, SequenceTheorems, TLAPS

-----------------------------------------------------------------------------
(* Sequences.  A sequence without repetitions loses its head with Tail,    *)
(* gains an element with Append, and has as many elements as its length.   *)

LEMMA EmptyRange == Range(<<>>) = {} /\ IsInjective(<<>>) /\ Len(<<>>) = 0
BY DEF Range, IsInjective

LEMMA EmptyOnly ==
    ASSUME NEW S, NEW s \in Seq(S), Range(s) = {} \/ Len(s) = 0
    PROVE  s = <<>>
<1>1. Len(s) \in Nat /\ DOMAIN s = 1..Len(s)
  BY LenProperties
<1>2. Len(s) # 0 => s[1] \in Range(s)
  BY <1>1 DEF Range
<1> QED  BY <1>1, <1>2, EmptySeq

LEMMA RangeTyped ==
    ASSUME NEW S, NEW s \in Seq(S)
    PROVE  Range(s) \subseteq S
BY LenProperties DEF Range

LEMMA TailRange ==
    ASSUME NEW S, NEW s \in Seq(S), s # <<>>
    PROVE  /\ Tail(s) \in Seq(S) /\ Len(Tail(s)) = Len(s) - 1 /\ Len(s) \in Nat \ {0}
           /\ Head(s) \in S /\ Head(s) \in Range(s)
           /\ Range(s) = Range(Tail(s)) \cup {Head(s)}
           /\ \A k \in 1..Len(Tail(s)) : Tail(s)[k] = s[k + 1]
           /\ IsInjective(s) => /\ IsInjective(Tail(s)) /\ Head(s) \notin Range(Tail(s))
                                 /\ Range(Tail(s)) = Range(s) \ {Head(s)}
<1> DEFINE t == Tail(s)
<1>1. /\ Len(s) \in Nat \ {0} /\ DOMAIN s = 1..Len(s)
      /\ t \in Seq(S) /\ Len(t) = Len(s) - 1 /\ DOMAIN t = 1..Len(t)
      /\ \A k \in 1..Len(t) : t[k] = s[k + 1]
      /\ Head(s) = s[1] /\ Head(s) \in S
  BY HeadTailProperties, LenProperties, EmptySeq
<1>2. Head(s) \in Range(s) /\ Range(t) \subseteq Range(s)
  BY <1>1 DEF Range
<1>3. ASSUME NEW x \in Range(s), x # Head(s)
      PROVE  x \in Range(t)
  <2>1. PICK k \in 1..Len(s) : x = s[k]
    BY <1>1 DEF Range
  <2>2. k - 1 \in 1..Len(t) /\ t[k - 1] = x
    BY <1>1, <1>3, <2>1
  <2> QED  BY <1>1, <2>2 DEF Range
<1>4. IsInjective(s) => IsInjective(t) /\ Head(s) \notin Range(t)
  BY <1>1 DEF IsInjective, Range
<1> QED  BY <1>1, <1>2, <1>3, <1>4

LEMMA AppendRange ==
    ASSUME NEW S, NEW s \in Seq(S), NEW e \in S
    PROVE  /\ Append(s, e) \in Seq(S)
           /\ Range(Append(s, e)) = Range(s) \cup {e}
           /\ IsInjective(s) /\ e \notin Range(s) => IsInjective(Append(s, e))
<1> DEFINE t == Append(s, e)
<1>1. /\ Len(s) \in Nat /\ DOMAIN s = 1 .. Len(s)
      /\ t \in Seq(S) /\ Len(t) = Len(s) + 1 /\ DOMAIN t = 1 .. Len(t)
      /\ \A i \in 1 .. Len(s) : t[i] = s[i]
      /\ t[Len(s) + 1] = e
  BY AppendProperties, LenProperties
<1>2. Range(t) = Range(s) \cup {e}
  <2>1. Range(t) \subseteq Range(s) \cup {e}
    BY <1>1 DEF Range
  <2>2. Range(s) \subseteq Range(t) /\ e \in Range(t)
    BY <1>1 DEF Range
  <2> QED BY <2>1, <2>2
<1>3. ASSUME IsInjective(s), e \notin Range(s) PROVE IsInjective(t)
  <2> SUFFICES ASSUME NEW i \in 1 .. Len(t), NEW j \in 1 .. Len(t), t[i] = t[j]
               PROVE  i = j
    BY <1>1 DEF IsInjective
  <2>1. CASE i \in 1 .. Len(s) /\ j \in 1 .. Len(s)
    BY <2>1, <1>1, <1>3 DEF IsInjective
  <2>2. CASE i = Len(s) + 1 \/ j = Len(s) + 1
    BY <2>2, <1>1, <1>3 DEF Range
  <2> QED BY <2>1, <2>2, <1>1
<1> QED BY <1>1, <1>2, <1>3

LEMMA ConcatRange ==
    ASSUME NEW S, NEW s \in Seq(S), NEW t \in Seq(S)
    PROVE  /\ s \o t \in Seq(S) /\ Len(s \o t) = Len(s) + Len(t)
           /\ Len(s) \in Nat /\ Len(t) \in Nat
           /\ \A k \in 1..Len(s) : (s \o t)[k] = s[k]
           /\ \A k \in 1..Len(t) : (s \o t)[Len(s) + k] = t[k]
           /\ Range(s \o t) = Range(s) \cup Range(t)
           /\ IsInjective(s) /\ IsInjective(t) /\ Range(s) \cap Range(t) = {} => IsInjective(s \o t)
<1> DEFINE u == s \o t
<1>1. /\ Len(s) \in Nat /\ Len(t) \in Nat /\ Len(u) = Len(s) + Len(t) /\ u \in Seq(S)
      /\ DOMAIN s = 1..Len(s) /\ DOMAIN t = 1..Len(t) /\ DOMAIN u = 1..Len(u)
      /\ \A k \in 1..Len(u) : u[k] = IF k <= Len(s) THEN s[k] ELSE t[k - Len(s)]
  BY ConcatProperties, LenProperties
<1>2. /\ \A k \in 1..Len(s) : u[k] = s[k]
      /\ \A k \in 1..Len(t) : u[Len(s) + k] = t[k]
  BY <1>1
<1>3. Range(u) \subseteq Range(s) \cup Range(t)
  BY <1>1 DEF Range
<1>4. Range(s) \subseteq Range(u)
  BY <1>1, <1>2 DEF Range
<1>5. Range(t) \subseteq Range(u)
  <2> SUFFICES ASSUME NEW k \in 1..Len(t)
               PROVE  t[k] \in Range(u)
    BY <1>1 DEF Range
  <2>1. Len(s) + k \in 1..Len(u) /\ u[Len(s) + k] = t[k]
    BY <1>1, <1>2
  <2> QED  BY <1>1, <2>1 DEF Range
<1>6. ASSUME IsInjective(s), IsInjective(t), Range(s) \cap Range(t) = {},
             NEW i \in 1..Len(u), NEW j \in 1..Len(u), u[i] = u[j]
      PROVE  i = j
  <2> DEFINE m == i - Len(s)
             n == j - Len(s)
  <2>1. i \notin 1..Len(s) => m \in 1..Len(t) /\ u[i] = t[m] /\ i = Len(s) + m
    BY <1>1
  <2>2. j \notin 1..Len(s) => n \in 1..Len(t) /\ u[j] = t[n] /\ j = Len(s) + n
    BY <1>1
  <2>3. \A k \in 1..Len(s), l \in 1..Len(t) : s[k] # t[l]
    BY <1>1, <1>6 DEF Range
  <2>4. (i \in 1..Len(s)) <=> (j \in 1..Len(s))
    BY <1>2, <1>6, <2>1, <2>2, <2>3
  <2>5. CASE i \in 1..Len(s)
    BY <1>1, <1>2, <1>6, <2>4, <2>5 DEF IsInjective
  <2>6. CASE i \notin 1..Len(s)
    BY <1>1, <1>6, <2>1, <2>2, <2>4, <2>6 DEF IsInjective
  <2> QED  BY <2>5, <2>6
<1>7. IsInjective(s) /\ IsInjective(t) /\ Range(s) \cap Range(t) = {} => IsInjective(u)
  BY <1>1, <1>6 DEF IsInjective
<1> QED  BY <1>1, <1>2, <1>3, <1>4, <1>5, <1>7

LEMMA TailConcat ==
    ASSUME NEW S, NEW s \in Seq(S), NEW t \in Seq(S), s # <<>>
    PROVE  /\ s \o t # <<>> /\ Tail(s \o t) = Tail(s) \o t /\ Head(s \o t) = Head(s)
<1>1. /\ Len(s) \in Nat \ {0} /\ Len(t) \in Nat /\ Len(s \o t) = Len(s) + Len(t) /\ s \o t \in Seq(S)
      /\ \A k \in 1..Len(s) + Len(t) : (s \o t)[k] = IF k <= Len(s) THEN s[k] ELSE t[k - Len(s)]
  BY ConcatProperties, LenProperties, EmptySeq
<1>2. s \o t # <<>> /\ Head(s \o t) = Head(s)
  <2>1. s \o t # <<>>
    BY <1>1, EmptyRange
  <2> QED  BY <1>1, <2>1, HeadTailProperties
<1>3. /\ Tail(s \o t) \in Seq(S) /\ Len(Tail(s \o t)) = Len(s) + Len(t) - 1
      /\ \A k \in 1..Len(s) + Len(t) - 1 : Tail(s \o t)[k] = (s \o t)[k + 1]
  BY <1>1, <1>2, TailRange
<1>4. /\ Tail(s) \in Seq(S) /\ Len(Tail(s)) = Len(s) - 1
      /\ \A k \in 1..Len(s) - 1 : Tail(s)[k] = s[k + 1]
  BY TailRange
<1> DEFINE u == Tail(s)
<1>5. /\ u \o t \in Seq(S) /\ Len(u \o t) = Len(s) + Len(t) - 1
      /\ \A k \in 1..Len(u) + Len(t) : (u \o t)[k] = IF k <= Len(u) THEN u[k] ELSE t[k - Len(u)]
  BY <1>1, <1>4, ConcatProperties
<1>6. \A k \in 1..Len(s) + Len(t) - 1 : Tail(s \o t)[k] = (u \o t)[k]
  <2> SUFFICES ASSUME NEW k \in 1..Len(s) + Len(t) - 1
               PROVE  Tail(s \o t)[k] = (u \o t)[k]
    OBVIOUS
  <2>1. Tail(s \o t)[k] = IF k + 1 <= Len(s) THEN s[k + 1] ELSE t[k + 1 - Len(s)]
    BY <1>1, <1>3
  <2>2. (u \o t)[k] = IF k <= Len(s) - 1 THEN s[k + 1] ELSE t[k - (Len(s) - 1)]
    BY <1>1, <1>4, <1>5
  <2>3. k + 1 - Len(s) = k - (Len(s) - 1) /\ (k + 1 <= Len(s) <=> k <= Len(s) - 1)
    BY <1>1
  <2> QED  BY <2>1, <2>2, <2>3
<1> HIDE DEF u
<1>7. Tail(s \o t) = u \o t
  BY <1>1, <1>3, <1>5, <1>6, SeqEqual
<1> QED  BY <1>2, <1>7 DEF u

LEMMA RangeCardinality ==
    ASSUME NEW S, NEW s \in Seq(S), IsInjective(s)
    PROVE  IsFiniteSet(Range(s)) /\ Cardinality(Range(s)) = Len(s)
<1>1. Len(s) \in Nat /\ s \in [1 .. Len(s) -> S] /\ DOMAIN s = 1 .. Len(s)
  BY LenProperties
<1>2. s \in Bijection(1 .. Len(s), Range(s))
  BY <1>1 DEF Bijection, Injection, Surjection, IsInjective, Range
<1>3. ExistsBijection(1 .. Len(s), Range(s))
  BY <1>2 DEF ExistsBijection
<1>4. IsFiniteSet(1 .. Len(s)) /\ Cardinality(1 .. Len(s)) = Len(s)
  BY <1>1, FS_Interval
<1> QED BY <1>3, <1>4, FS_Bijection

LEMMA DisjointUnion ==
    ASSUME NEW S, NEW T, IsFiniteSet(S), IsFiniteSet(T), S \cap T = {}
    PROVE  Cardinality(S \cup T) = Cardinality(S) + Cardinality(T)
<1>1. /\ Cardinality(S \cup T) = Cardinality(S) + Cardinality(T) - Cardinality(S \cap T)
      /\ Cardinality(S) \in Int /\ Cardinality(T) \in Int
  BY FS_Union, FS_CardinalityType
<1>2. Cardinality(S \cap T) = 0
  BY FS_EmptySet
<1> QED BY <1>1, <1>2

-----------------------------------------------------------------------------
(* What SumFunctionOnSet of the module Functions computes: the sum of a    *)
(* function over a finite set.  It is defined by a fold, a function that   *)
(* is recursive over the subsets of the set and takes their elements in an *)
(* order of its own.  The induction is over the strict subsets of a finite *)
(* set: a set of subsets of it, the ones for which a fact fails, would     *)
(* have a minimal element.                                                 *)

LEMMA SmallestSubset ==
    ASSUME NEW S, IsFiniteSet(S), NEW B, B \subseteq SUBSET S, B # {}
    PROVE  \E T \in B : \A U \in SUBSET T : U # T => U \notin B
<1>1. IsWellFoundedOn(StrictSubsetOrdering(S), FiniteSubsetsOf(S))
  BY FS_StrictSubsetOrderingWellFounded
<1>2. FiniteSubsetsOf(S) = SUBSET S
  BY FS_FiniteSubsetsOfFinite
<1>3. PICK T \in B : \A U \in B : <<U, T>> \notin StrictSubsetOrdering(S)
  BY <1>1, <1>2, WFMin
<1>4. ASSUME NEW U \in SUBSET T, U # T, U \in B
      PROVE  FALSE
  <2>1. <<U, T>> \in StrictSubsetOrdering(S)
    BY <1>4 DEF StrictSubsetOrdering
  <2> QED  BY <1>3, <1>4, <2>1
<1> QED  BY <1>3, <1>4

-----------------------------------------------------------------------------
(* The recursive function behind the fold: it exists and is unique.        *)

Some(s) == CHOOSE x \in s : TRUE
Rest(s) == s \ {Some(s)}

IsSum(g, f, S) == g = [s \in SUBSET S |-> IF s = {} THEN 0 ELSE f[Some(s)] + g[Rest(s)]]

Sums(f, S) == CHOOSE g : IsSum(g, f, S)

LEMMA SumIsSums ==
    ASSUME NEW f, NEW S
    PROVE  SumFunctionOnSet(f, S) = Sums(f, S)[S]
BY Zenon DEF SumFunctionOnSet, FoldFunctionOnSet, MapThenFoldSet, Sums, IsSum, Some, Rest

LEMMA RestIn ==
    ASSUME NEW s, s # {}
    PROVE  Some(s) \in s /\ Rest(s) \subseteq s /\ Rest(s) # s
BY DEF Some, Rest

LEMMA SumsAgree ==
    ASSUME NEW f, NEW S, IsFiniteSet(S), NEW g, NEW h, IsSum(g, f, S),
           NEW R, IsSum(h, f, R), S \subseteq R
    PROVE  \A T \in SUBSET S : g[T] = h[T]
<1> DEFINE B == {T \in SUBSET S : g[T] # h[T]}
<1>1. SUFFICES ASSUME B # {}
               PROVE  FALSE
  OBVIOUS
<1>a. B \subseteq SUBSET S
  OBVIOUS
<1>2. PICK T \in B : \A U \in SUBSET T : U # T => U \notin B
  <2> HIDE DEF B
  <2> QED  BY <1>1, <1>a, SmallestSubset
<1>3. T \in SUBSET S /\ T \in SUBSET R /\ g[T] # h[T]
  BY <1>2
<1>4. /\ g[T] = IF T = {} THEN 0 ELSE f[Some(T)] + g[Rest(T)]
      /\ h[T] = IF T = {} THEN 0 ELSE f[Some(T)] + h[Rest(T)]
  BY <1>3 DEF IsSum
<1>5. T # {} /\ g[Rest(T)] # h[Rest(T)]
  BY <1>3, <1>4
<1>6. Rest(T) \in B
  BY <1>3, <1>5, RestIn
<1> QED  BY <1>2, <1>5, <1>6, RestIn

LEMMA SumsRestrict ==
    ASSUME NEW f, NEW S, NEW g, IsSum(g, f, S), NEW T \in SUBSET S
    PROVE  IsSum([s \in SUBSET T |-> g[s]], f, T)
<1> DEFINE h == [s \in SUBSET T |-> g[s]]
<1>1. ASSUME NEW s \in SUBSET T
      PROVE  h[s] = IF s = {} THEN 0 ELSE f[Some(s)] + h[Rest(s)]
  <2>1. s \in SUBSET S /\ h[s] = g[s]
    OBVIOUS
  <2>2. g[s] = IF s = {} THEN 0 ELSE f[Some(s)] + g[Rest(s)]
    BY <2>1 DEF IsSum
  <2>3. s # {} => h[Rest(s)] = g[Rest(s)]
    BY RestIn
  <2> QED  BY <2>1, <2>2, <2>3
<1>2. h = [s \in SUBSET T |-> IF s = {} THEN 0 ELSE f[Some(s)] + h[Rest(s)]]
  BY <1>1
<1> QED  BY <1>2 DEF IsSum

LEMMA SumsExist ==
    ASSUME NEW f, NEW S, IsFiniteSet(S)
    PROVE  IsSum(Sums(f, S), f, S)
<1> DEFINE B == {T \in SUBSET S : ~IsSum(Sums(f, T), f, T)}
<1>1. SUFFICES ASSUME B # {}
               PROVE  FALSE
  <2> SUFFICES B = {}
    OBVIOUS
  <2> QED  OBVIOUS
<1>a. B \subseteq SUBSET S
  OBVIOUS
<1>2. PICK T \in B : \A U \in SUBSET T : U # T => U \notin B
  <2> HIDE DEF B
  <2> QED  BY <1>1, <1>a, SmallestSubset
<1>3. \A U \in SUBSET T : U # T => IsSum(Sums(f, U), f, U)
  BY <1>2
<1> DEFINE Val(u) == Sums(f, u)[u]
           h      == [s \in SUBSET T |-> IF s = {} THEN 0 ELSE f[Some(s)] + Val(Rest(s))]
<1>4. ASSUME NEW u \in SUBSET T, u # T
      PROVE  h[u] = Val(u)
  <2>1. IsSum(Sums(f, u), f, u)
    BY <1>3, <1>4
  <2>2. Val(u) = IF u = {} THEN 0 ELSE f[Some(u)] + Sums(f, u)[Rest(u)]
    BY <2>1 DEF IsSum
  <2>3. CASE u # {}
    <3>1. Rest(u) \in SUBSET T /\ Rest(u) # T /\ Rest(u) \subseteq u
      BY <2>3, <1>4, RestIn
    <3>2. IsSum(Sums(f, Rest(u)), f, Rest(u))
      BY <1>3, <3>1
    <3>3. IsFiniteSet(Rest(u))
      BY <1>2, <3>1, FS_Subset
    <3>4. Sums(f, Rest(u))[Rest(u)] = Sums(f, u)[Rest(u)]
      BY <2>1, <3>1, <3>2, <3>3, SumsAgree
    <3> QED  BY <2>2, <2>3, <3>4
  <2> QED  BY <2>2, <2>3
<1>5. h = [s \in SUBSET T |-> IF s = {} THEN 0 ELSE f[Some(s)] + h[Rest(s)]]
  <2>1. ASSUME NEW s \in SUBSET T, s # {}
        PROVE  h[Rest(s)] = Val(Rest(s))
    <3>1. Rest(s) \in SUBSET T /\ Rest(s) # T
      BY <2>1, RestIn
    <3> HIDE DEF h, Val
    <3> QED  BY <1>4, <3>1
  <2> QED  BY <2>1
<1>6. IsSum(h, f, T)
  BY <1>5 DEF IsSum
<1>7. IsSum(Sums(f, T), f, T)
  BY <1>6 DEF Sums
<1> QED  BY <1>2, <1>7

-----------------------------------------------------------------------------
(* The sum of f over a finite set of integers.                             *)

LEMMA SumStep ==
    ASSUME NEW f, NEW S, IsFiniteSet(S)
    PROVE  SumFunctionOnSet(f, S) =
             IF S = {} THEN 0 ELSE f[Some(S)] + SumFunctionOnSet(f, Rest(S))
<1>1. Sums(f, S)[S] = IF S = {} THEN 0 ELSE f[Some(S)] + Sums(f, S)[Rest(S)]
  <2>1. IsSum(Sums(f, S), f, S)
    BY SumsExist
  <2> DEFINE g == Sums(f, S)
  <2>2. g = [s \in SUBSET S |-> IF s = {} THEN 0 ELSE f[Some(s)] + g[Rest(s)]]
    BY <2>1 DEF IsSum
  <2> HIDE DEF g
  <2>3. g[S] = IF S = {} THEN 0 ELSE f[Some(S)] + g[Rest(S)]
    BY <2>2
  <2> QED  BY <2>3 DEF g
<1>2. CASE S # {}
  <2>1. Rest(S) \subseteq S /\ IsFiniteSet(Rest(S))
    BY <1>2, RestIn, FS_Subset
  <2>2. Sums(f, Rest(S))[Rest(S)] = Sums(f, S)[Rest(S)]
    BY <2>1, SumsExist, SumsAgree
  <2> QED  BY <1>1, <1>2, <2>2, SumIsSums
<1> QED  BY <1>1, <1>2, SumIsSums

LEMMA SumEmpty ==
    ASSUME NEW f
    PROVE  SumFunctionOnSet(f, {}) = 0
BY SumStep, FS_EmptySet

(* A set of integers has an integer as its sum ...                         *)
LEMMA SumInt ==
    ASSUME NEW S, IsFiniteSet(S), NEW f, \A x \in S : f[x] \in Int
    PROVE  SumFunctionOnSet(f, S) \in Int
<1> DEFINE B == {T \in SUBSET S : SumFunctionOnSet(f, T) \notin Int}
<1>1. B \subseteq SUBSET S
  OBVIOUS
<1>2. ASSUME B # {}
      PROVE  FALSE
  <2>1. PICK T \in B : \A U \in SUBSET T : U # T => U \notin B
    <3> HIDE DEF B
    <3> QED  BY <1>1, <1>2, SmallestSubset
  <2>2. T \subseteq S /\ SumFunctionOnSet(f, T) \notin Int /\ IsFiniteSet(T)
    BY <2>1, FS_Subset
  <2>3. T # {}
    BY <2>2, SumEmpty
  <2>4. SumFunctionOnSet(f, Rest(T)) \in Int
    BY <2>1, <2>2, <2>3, RestIn
  <2>5. f[Some(T)] \in Int
    BY <2>2, <2>3, RestIn
  <2> QED  BY <2>2, <2>3, <2>4, <2>5, SumStep
<1> QED  BY <1>2

(* ... and its elements may be added in any order.                         *)
LEMMA SumRemove ==
    ASSUME NEW S, IsFiniteSet(S), NEW f, \A x \in S : f[x] \in Int
    PROVE  \A x \in S : SumFunctionOnSet(f, S) = f[x] + SumFunctionOnSet(f, S \ {x})
<1> DEFINE Sum(T) == SumFunctionOnSet(f, T)
           B == {T \in SUBSET S : \E x \in T : Sum(T) # f[x] + Sum(T \ {x})}
<1>1. B \subseteq SUBSET S
  OBVIOUS
<1>2. ASSUME B # {}
      PROVE  FALSE
  <2>1. PICK T \in B : \A U \in SUBSET T : U # T => U \notin B
    <3> HIDE DEF B
    <3> QED  BY <1>1, <1>2, SmallestSubset
  <2>2. PICK x \in T : Sum(T) # f[x] + Sum(T \ {x})
    BY <2>1
  <2>3. T \subseteq S /\ IsFiniteSet(T)
    BY <2>1, FS_Subset
  <2> DEFINE y == Some(T)
             R == T \ {x, y}
  <2>4. Sum(T) = f[y] + Sum(T \ {y}) /\ y \in T
    BY <2>2, <2>3, SumStep, RestIn DEF Rest
  <2>5. x # y
    BY <2>2, <2>4
  <2>6. Sum(T \ {y}) = f[x] + Sum(R)
    <3>1. T \ {y} \in SUBSET S /\ T \ {y} \notin B /\ x \in T \ {y}
      BY <2>1, <2>2, <2>3, <2>4, <2>5
    <3>2. (T \ {y}) \ {x} = R
      OBVIOUS
    <3> QED  BY <3>1, <3>2
  <2>7. Sum(T \ {x}) = f[y] + Sum(R)
    <3>1. T \ {x} \in SUBSET S /\ T \ {x} \notin B /\ y \in T \ {x}
      BY <2>1, <2>2, <2>3, <2>4, <2>5
    <3>2. (T \ {x}) \ {y} = R
      OBVIOUS
    <3> QED  BY <3>1, <3>2
  <2>8. f[x] \in Int /\ f[y] \in Int /\ Sum(R) \in Int
    <3>1. R \subseteq S /\ IsFiniteSet(R)
      BY <2>3, FS_Subset
    <3>2. Sum(R) \in Int
      <4> HIDE DEF R
      <4> QED  BY <3>1, SumInt
    <3> QED  BY <2>2, <2>3, <2>4, <3>2
  <2> HIDE DEF y, R, Sum
  <2> QED  BY <2>2, <2>4, <2>6, <2>7, <2>8
<1> QED  BY <1>2

(* It depends on the values in the set only.                               *)
LEMMA SumSame ==
    ASSUME NEW S, IsFiniteSet(S), NEW f, NEW g, \A x \in S : f[x] = g[x]
    PROVE  SumFunctionOnSet(f, S) = SumFunctionOnSet(g, S)
<1> DEFINE B == {T \in SUBSET S : SumFunctionOnSet(f, T) # SumFunctionOnSet(g, T)}
<1>1. B \subseteq SUBSET S
  OBVIOUS
<1>2. ASSUME B # {}
      PROVE  FALSE
  <2>1. PICK T \in B : \A U \in SUBSET T : U # T => U \notin B
    <3> HIDE DEF B
    <3> QED  BY <1>1, <1>2, SmallestSubset
  <2>2. T \subseteq S /\ SumFunctionOnSet(f, T) # SumFunctionOnSet(g, T) /\ IsFiniteSet(T)
    BY <2>1, FS_Subset
  <2>3. T # {}
    BY <2>2, SumEmpty
  <2>4. SumFunctionOnSet(f, Rest(T)) = SumFunctionOnSet(g, Rest(T))
    BY <2>1, <2>2, <2>3, RestIn
  <2>5. f[Some(T)] = g[Some(T)]
    BY <2>2, <2>3, RestIn
  <2> QED  BY <2>2, <2>3, <2>4, <2>5, SumStep
<1> QED  BY <1>2

(* Zeros do not count.                                                     *)
LEMMA SumWhere ==
    ASSUME NEW S, IsFiniteSet(S), NEW T, T \subseteq S, NEW f, NEW g,
           \A x \in T : f[x] = g[x] /\ g[x] \in Int,
           \A x \in S \ T : g[x] = 0
    PROVE  SumFunctionOnSet(f, T) = SumFunctionOnSet(g, S)
<1> DEFINE Sum(U) == SumFunctionOnSet(g, U)
           B == {U \in SUBSET S : Sum(U) # Sum(U \cap T)}
<1>1. B \subseteq SUBSET S
  OBVIOUS
<1>2. ASSUME B # {}
      PROVE  FALSE
  <2>1. PICK U \in B : \A V \in SUBSET U : V # U => V \notin B
    <3> HIDE DEF B
    <3> QED  BY <1>1, <1>2, SmallestSubset
  <2>2. U \subseteq S /\ Sum(U) # Sum(U \cap T) /\ IsFiniteSet(U) /\ IsFiniteSet(U \cap T)
    BY <2>1, FS_Subset
  <2>3. PICK x \in U : x \notin T
    BY <2>2
  <2>4. Sum(U) = g[x] + Sum(U \ {x})
    BY <2>2, SumRemove
  <2>5. Sum(U \ {x}) = Sum((U \ {x}) \cap T)
    BY <2>1, <2>2
  <2>6. (U \ {x}) \cap T = U \cap T
    BY <2>3
  <2>7. Sum(U \cap T) \in Int /\ g[x] = 0
    BY <2>2, <2>3, SumInt
  <2>8. Sum(U) = 0 + Sum(U \cap T)
    BY <2>4, <2>5, <2>6, <2>7
  <2> QED  BY <2>2, <2>7, <2>8
<1>3. Sum(S) = Sum(S \cap T) /\ S \cap T = T
  BY <1>2
<1>4. SumFunctionOnSet(f, T) = Sum(T)
  BY SumSame, FS_Subset
<1> QED  BY <1>3, <1>4

LEMMA SumZero ==
    ASSUME NEW S, IsFiniteSet(S), NEW f, \A x \in S : f[x] = 0
    PROVE  SumFunctionOnSet(f, S) = 0
<1>1. SumFunctionOnSet(f, {}) = SumFunctionOnSet(f, S)
  BY SumWhere
<1> QED  BY <1>1, SumEmpty

(* One value changes.                                                      *)
LEMMA SumChange ==
    ASSUME NEW S, IsFiniteSet(S), NEW f, NEW g, NEW x \in S,
           \A y \in S : f[y] \in Int, g[x] \in Int,
           \A y \in S \ {x} : g[y] = f[y]
    PROVE  SumFunctionOnSet(g, S) = SumFunctionOnSet(f, S) - f[x] + g[x]
<1>1. \A y \in S : g[y] \in Int
  OBVIOUS
<1> DEFINE R == S \ {x}
<1>2. IsFiniteSet(R) /\ R \subseteq S
  BY FS_Subset
<1>3. /\ SumFunctionOnSet(f, S) = f[x] + SumFunctionOnSet(f, R)
      /\ SumFunctionOnSet(g, S) = g[x] + SumFunctionOnSet(g, R)
  BY <1>1, SumRemove
<1>4. SumFunctionOnSet(f, R) = SumFunctionOnSet(g, R)
  BY <1>2, SumSame
<1>5. SumFunctionOnSet(f, R) \in Int
  BY <1>2, SumInt
<1> HIDE DEF R
<1> QED  BY <1>3, <1>4, <1>5

(* The sum is monotone.                                                    *)
LEMMA SumLeq ==
    ASSUME NEW S, IsFiniteSet(S), NEW f, NEW g,
           \A x \in S : f[x] \in Int /\ g[x] \in Int /\ f[x] <= g[x]
    PROVE  SumFunctionOnSet(f, S) <= SumFunctionOnSet(g, S)
<1> DEFINE B == {T \in SUBSET S : ~(SumFunctionOnSet(f, T) <= SumFunctionOnSet(g, T))}
<1>1. B \subseteq SUBSET S
  OBVIOUS
<1>2. ASSUME B # {}
      PROVE  FALSE
  <2>1. PICK T \in B : \A U \in SUBSET T : U # T => U \notin B
    <3> HIDE DEF B
    <3> QED  BY <1>1, <1>2, SmallestSubset
  <2>2. T \subseteq S /\ ~(SumFunctionOnSet(f, T) <= SumFunctionOnSet(g, T)) /\ IsFiniteSet(T)
    BY <2>1, FS_Subset
  <2>3. T # {}
    BY <2>2, SumEmpty
  <2>4. SumFunctionOnSet(f, Rest(T)) <= SumFunctionOnSet(g, Rest(T))
    BY <2>1, <2>2, <2>3, RestIn
  <2>5. Some(T) \in S /\ IsFiniteSet(Rest(T)) /\ Rest(T) \subseteq S
    BY <2>2, <2>3, RestIn, FS_Subset
  <2>6. SumFunctionOnSet(f, Rest(T)) \in Int /\ SumFunctionOnSet(g, Rest(T)) \in Int
    BY <2>5, SumInt
  <2> QED  BY <2>2, <2>3, <2>4, <2>5, <2>6, SumStep
<1> QED  BY <1>2

LEMMA SumNat ==
    ASSUME NEW S, IsFiniteSet(S), NEW f, \A x \in S : f[x] \in Nat
    PROVE  /\ SumFunctionOnSet(f, S) \in Nat
           /\ \A x \in S : f[x] <= SumFunctionOnSet(f, S)
<1> DEFINE zero == [x \in S |-> 0]
<1>2. ASSUME NEW T, T \subseteq S
      PROVE  SumFunctionOnSet(f, T) \in Nat
  <2>1. IsFiniteSet(T)
    BY <1>2, FS_Subset
  <2>2. SumFunctionOnSet(zero, T) = 0
    BY <1>2, <2>1, SumZero
  <2>3. SumFunctionOnSet(zero, T) <= SumFunctionOnSet(f, T)
    BY <1>2, <2>1, SumLeq
  <2>4. SumFunctionOnSet(f, T) \in Int
    BY <1>2, <2>1, SumInt
  <2> QED  BY <2>2, <2>3, <2>4
<1>3. ASSUME NEW x \in S
      PROVE  f[x] <= SumFunctionOnSet(f, S)
  <2>1. SumFunctionOnSet(f, S) = f[x] + SumFunctionOnSet(f, S \ {x})
    BY SumRemove
  <2>2. SumFunctionOnSet(f, S \ {x}) \in Nat
    BY <1>2
  <2> QED  BY <2>1, <2>2
<1> QED  BY <1>2, <1>3

-----------------------------------------------------------------------------
(* The sum of a queue.                                                     *)

(* The elements of a sum may be renamed.                                   *)
LEMMA SumRename ==
    ASSUME NEW S, IsFiniteSet(S), NEW T, IsFiniteSet(T), NEW f, NEW g, NEW r,
           \A x \in S : r[x] \in T /\ f[x] = g[r[x]],
           \A x, y \in S : r[x] = r[y] => x = y,
           \A y \in T : g[y] \in Int
    PROVE  SumFunctionOnSet(f, S) = SumFunctionOnSet(g, {r[x] : x \in S})
<1> DEFINE Image(U) == {r[x] : x \in U}
           B == {U \in SUBSET S : SumFunctionOnSet(f, U) # SumFunctionOnSet(g, Image(U))}
<1>1. B \subseteq SUBSET S
  OBVIOUS
<1>2. ASSUME B # {}
      PROVE  FALSE
  <2>1. PICK U \in B : \A V \in SUBSET U : V # U => V \notin B
    <3> HIDE DEF B
    <3> QED  BY <1>1, <1>2, SmallestSubset
  <2>2. U \subseteq S /\ IsFiniteSet(U) /\ SumFunctionOnSet(f, U) # SumFunctionOnSet(g, Image(U))
    BY <2>1, FS_Subset
  <2>3. U # {}
    BY <2>2, SumEmpty
  <2> DEFINE x == Some(U)
             V == Rest(U)
  <2>4. x \in U /\ V \subseteq U /\ V # U /\ V = U \ {x}
    BY <2>3, RestIn DEF Rest
  <2>5. SumFunctionOnSet(f, U) = f[x] + SumFunctionOnSet(f, V)
    BY <2>2, <2>3, SumStep
  <2>6. SumFunctionOnSet(f, V) = SumFunctionOnSet(g, Image(V))
    BY <2>1, <2>2, <2>4
  <2> HIDE DEF x, V
  <2>7. /\ Image(U) \subseteq T /\ IsFiniteSet(Image(U)) /\ r[x] \in Image(U)
        /\ Image(V) = Image(U) \ {r[x]}
    <3>1. Image(U) \subseteq T /\ r[x] \in Image(U)
      BY <2>2, <2>4
    <3>2. Image(V) = Image(U) \ {r[x]}
      BY <2>2, <2>4
    <3> QED  BY <3>1, <3>2, FS_Subset
  <2>8. SumFunctionOnSet(g, Image(U)) = g[r[x]] + SumFunctionOnSet(g, Image(V))
    <3> HIDE DEF Image
    <3>1. \A y \in Image(U) : g[y] \in Int
      BY <2>7
    <3> QED  BY <2>7, <3>1, SumRemove
  <2> QED  BY <2>2, <2>4, <2>5, <2>6, <2>8
<1> QED  BY <1>2

(* Two sets without a common element.                                      *)
LEMMA SumUnion ==
    ASSUME NEW S, IsFiniteSet(S), NEW T, IsFiniteSet(T), S \cap T = {},
           NEW f, \A x \in S \cup T : f[x] \in Int
    PROVE  SumFunctionOnSet(f, S \cup T) = SumFunctionOnSet(f, S) + SumFunctionOnSet(f, T)
<1> DEFINE Sum(U) == SumFunctionOnSet(f, U)
           B == {U \in SUBSET T : Sum(S \cup U) # Sum(S) + Sum(U)}
<1>1. B \subseteq SUBSET T
  OBVIOUS
<1>2. ASSUME B # {}
      PROVE  FALSE
  <2>1. PICK U \in B : \A V \in SUBSET U : V # U => V \notin B
    <3> HIDE DEF B
    <3> QED  BY <1>1, <1>2, SmallestSubset
  <2>2. /\ U \subseteq T /\ Sum(S \cup U) # Sum(S) + Sum(U)
        /\ IsFiniteSet(U) /\ IsFiniteSet(S \cup U)
    BY <2>1, FS_Subset, FS_Union
  <2>3. Sum(S) \in Int
    BY SumInt
  <2>4. U # {}
    BY <2>2, <2>3, SumEmpty
  <2>5. PICK x \in U : TRUE
    BY <2>4
  <2> DEFINE V == U \ {x}
  <2>6. V \in SUBSET U /\ V # U /\ V \subseteq T /\ IsFiniteSet(V)
    BY <2>2, <2>5, FS_Subset
  <2>7. Sum(S \cup V) = Sum(S) + Sum(V)
    BY <2>1, <2>6
  <2>8. Sum(U) = f[x] + Sum(V) /\ f[x] \in Int /\ Sum(V) \in Int
    <3>1. \A y \in U : f[y] \in Int
      BY <2>2
    <3> QED  BY <2>2, <2>5, <2>6, <3>1, SumRemove, SumInt
  <2>9. Sum(S \cup U) = f[x] + Sum(S \cup V)
    <3>1. (S \cup U) \ {x} = S \cup V /\ x \in S \cup U
      BY <2>2, <2>5
    <3>2. \A y \in S \cup U : f[y] \in Int
      BY <2>2
    <3>3. Sum(S \cup U) = f[x] + Sum((S \cup U) \ {x})
      BY <2>2, <3>1, <3>2, SumRemove
    <3> QED  BY <3>1, <3>3, Zenon
  <2> HIDE DEF Sum, V
  <2> QED  BY <2>2, <2>3, <2>7, <2>8, <2>9
<1> QED  BY <1>2

(* A sum along a sequence without repetitions is one over its elements.    *)
LEMMA SumOfRange ==
    ASSUME NEW S, NEW s \in Seq(S), IsInjective(s), NEW f, \A x \in S : f[x] \in Int
    PROVE  SumFunction([i \in DOMAIN s |-> f[s[i]]]) = SumFunctionOnSet(f, Range(s))
<1> DEFINE D == DOMAIN s
           g == [i \in D |-> f[s[i]]]
           T == Range(s)
<1>1. D = 1..Len(s) /\ Len(s) \in Nat
  BY LenProperties
<1>2. IsFiniteSet(D) /\ IsFiniteSet(T) /\ T \subseteq S
  BY <1>1, FS_Interval, RangeCardinality, RangeTyped
<1>3. \A i \in D : s[i] \in T /\ g[i] = f[s[i]]
  BY DEF Range
<1>4. \A i, j \in D : s[i] = s[j] => i = j
  BY DEF IsInjective
<1>5. T = {s[i] : i \in D}
  BY Zenon DEF Range
<1>6. DOMAIN g = D
  OBVIOUS
<1> HIDE DEF D, g, T
<1>7. SumFunctionOnSet(g, D) = SumFunctionOnSet(f, {s[i] : i \in D})
  BY <1>2, <1>3, <1>4, SumRename
<1>8. SumFunctionOnSet(g, D) = SumFunctionOnSet(f, T)
  BY <1>5, <1>7, Zenon
<1>9. SumFunction(g) = SumFunctionOnSet(f, T)
  BY <1>6, <1>8, Zenon DEF SumFunction
<1> QED  BY <1>9 DEF g, D, T

LEMMA SumAppend ==
    ASSUME NEW q \in Seq(Int), NEW n \in Int
    PROVE  SumFunction(Append(q, n)) = SumFunction(q) + n
<1> DEFINE p == Append(q, n)
           e == Len(q) + 1
<1>1. DOMAIN p = 1..e /\ DOMAIN q = 1..Len(q) /\ p[e] = n /\ \A i \in 1..Len(q) : p[i] = q[i]
  OBVIOUS
<1>2. IsFiniteSet(1..e) /\ IsFiniteSet(1..Len(q)) /\ e \in 1..e
  BY FS_Interval
<1>3. \A i \in 1..e : p[i] \in Int
  OBVIOUS
<1>4. \A i \in 1..Len(q) : q[i] \in Int
  OBVIOUS
<1> HIDE DEF p
<1>5. SumFunctionOnSet(p, 1..e) = p[e] + SumFunctionOnSet(p, (1..e) \ {e})
  BY <1>2, <1>3, SumRemove
<1>6. (1..e) \ {e} = 1..Len(q)
  OBVIOUS
<1>7. SumFunctionOnSet(p, 1..Len(q)) = SumFunctionOnSet(q, 1..Len(q))
  BY <1>1, <1>2, SumSame
<1>8. SumFunctionOnSet(q, 1..Len(q)) \in Int
  BY <1>2, <1>4, SumInt
<1>9. SumFunction(p) = SumFunctionOnSet(p, 1..e) /\ SumFunction(q) = SumFunctionOnSet(q, 1..Len(q))
  BY <1>1, Zenon DEF SumFunction
<1>10. SumFunctionOnSet(p, 1..e) = SumFunctionOnSet(q, 1..Len(q)) + n
  <2>1. SumFunctionOnSet(p, (1..e) \ {e}) = SumFunctionOnSet(q, 1..Len(q))
    BY <1>6, <1>7, Zenon
  <2> QED  BY <1>1, <1>5, <1>8, <2>1
<1> QED  BY <1>9, <1>10, Zenon DEF p

LEMMA SumTail ==
    ASSUME NEW q \in Seq(Int), q # <<>>
    PROVE  SumFunction(Tail(q)) = SumFunction(q) - Head(q)
<1> DEFINE p == Tail(q)
           D == 1..Len(p)
           E == 1..Len(q)
           r == [i \in D |-> i + 1]
<1>1. DOMAIN p = D /\ DOMAIN q = E /\ Len(p) = Len(q) - 1 /\ Len(q) \in Nat \ {0}
  OBVIOUS
<1>2. IsFiniteSet(D) /\ IsFiniteSet(E) /\ 1 \in E
  BY <1>1, FS_Interval
<1>3. /\ \A i \in D : r[i] \in E /\ p[i] = q[r[i]]
      /\ \A i, j \in D : r[i] = r[j] => i = j
      /\ \A i \in E : q[i] \in Int
      /\ q[1] = Head(q)
  OBVIOUS
<1>4. {r[i] : i \in D} = E \ {1}
  <2>1. ASSUME NEW j \in E \ {1}
        PROVE  \E i \in D : j = r[i]
    <3>1. j - 1 \in D /\ j = r[j - 1]
      BY <1>1, <2>1
    <3> QED  BY <3>1
  <2>2. \A i \in D : r[i] \in E \ {1}
    BY <1>1
  <2> HIDE DEF p, D, E, r
  <2>3. {r[i] : i \in D} \subseteq E \ {1}
    BY <2>2
  <2>4. E \ {1} \subseteq {r[i] : i \in D}
    BY <2>1
  <2> QED  BY <2>3, <2>4
<1> HIDE DEF p, D, E, r
<1>5. SumFunctionOnSet(p, D) = SumFunctionOnSet(q, {r[i] : i \in D})
  BY <1>2, <1>3, SumRename
<1>6. SumFunctionOnSet(q, E) = q[1] + SumFunctionOnSet(q, E \ {1})
  BY <1>2, <1>3, SumRemove
<1>7. SumFunctionOnSet(q, E \ {1}) \in Int /\ q[1] \in Int
  <2>1. IsFiniteSet(E \ {1}) /\ \A i \in E \ {1} : q[i] \in Int
    BY <1>2, <1>3, FS_Subset
  <2> QED  BY <1>2, <1>3, <2>1, SumInt
<1>8. SumFunction(p) = SumFunctionOnSet(p, D) /\ SumFunction(q) = SumFunctionOnSet(q, E)
  BY <1>1, Zenon DEF SumFunction
<1>9. SumFunctionOnSet(p, D) = SumFunctionOnSet(q, E) - Head(q)
  <2>1. SumFunctionOnSet(p, D) = SumFunctionOnSet(q, E \ {1})
    BY <1>4, <1>5, Zenon
  <2> QED  BY <1>3, <1>6, <1>7, <2>1
<1> QED  BY <1>8, <1>9, Zenon DEF p
=============================================================================
