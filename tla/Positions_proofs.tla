--------------------------- MODULE Positions_proofs ---------------------------
(***************************************************************************)
(* Lemmas on finite sets, on positions in their order, and on division, that *)
(* the proofs about documents and about test cases need.                     *)
(***************************************************************************)
EXTENDS Positions, FiniteSetTheorems, FunctionTheorems, SequenceTheorems,
        NaturalsInduction, TLAPS

-----------------------------------------------------------------------------
(* Every set of natural numbers has a least element.                          *)
LEMMA Least ==
  ASSUME NEW S \in SUBSET Nat, S # {}
  PROVE  \E x \in S : \A y \in S : x <= y
<1>1. PICK x \in S : \A y \in S : <<y, x>> \notin OpToRel(<, Nat)
  BY WFMin, NatLessThanWellFounded, Zenon
<1>2. \A y \in S : ~(y < x)
  BY <1>1, Zenon DEF OpToRel
<1> QED
  BY <1>2

(* A part of a finite set that lacks one of its elements is smaller.          *)
LEMMA Fewer ==
  ASSUME NEW B, IsFiniteSet(B), NEW A \in SUBSET B, NEW x \in B, x \notin A
  PROVE  Cardinality(A) \in Nat /\ Cardinality(B) \in Nat /\ Cardinality(A) < Cardinality(B)
<1>1. IsFiniteSet(A) /\ Cardinality(A) <= Cardinality(B) /\ (Cardinality(B) = Cardinality(A) => B = A)
  BY FS_Subset
<1>2. Cardinality(A) \in Nat /\ Cardinality(B) \in Nat
  BY <1>1, FS_CardinalityType
<1>3. Cardinality(A) # Cardinality(B)
  BY <1>1
<1> QED
  BY <1>1, <1>2, <1>3

(* What is mapped one to one into a finite set has no more elements than it.  *)
LEMMA NoMore ==
  ASSUME NEW S, NEW T, IsFiniteSet(T), NEW f \in [S -> T],
         \A a, b \in S : f[a] = f[b] => a = b
  PROVE  IsFiniteSet(S) /\ Cardinality(S) \in Nat /\ Cardinality(S) <= Cardinality(T)
<1>1. f \in Injection(S, T)
  BY Fun_IsInj
<1> QED
  BY <1>1, FS_Injection, FS_CardinalityType

(* What a function makes of a finite set is finite.                           *)
LEMMA Image ==
  ASSUME NEW S, IsFiniteSet(S), NEW f, DOMAIN f = S
  PROVE  IsFiniteSet({f[x] : x \in S})
<1> DEFINE T == {f[x] : x \in S}
           h == [x \in S |-> f[x]]
<1>1. h \in [S -> T] /\ \A y \in T : \E x \in S : h[x] = y
  OBVIOUS
<1> HIDE DEF h, T
<1>2. h \in Surjection(S, T)
  BY <1>1 DEF Surjection
<1>3. IsFiniteSet(T)
  BY <1>2, FS_Surjection
<1> QED
  BY <1>3 DEF T

-----------------------------------------------------------------------------
(* The positions of a set in their order.                                     *)
Below(S, i) == {j \in S : j < i}

(* Of two positions the later one has more others below it.                   *)
LEMMA BelowGrows ==
  ASSUME NEW S \in SUBSET Nat, IsFiniteSet(S), NEW i \in S
  PROVE  /\ Cardinality(Below(S, i)) \in 0..(Cardinality(S) - 1)
         /\ \A k \in S : i < k => Cardinality(Below(S, i)) < Cardinality(Below(S, k))
         /\ \A k \in S : Cardinality(Below(S, i)) = Cardinality(Below(S, k)) => i = k
<1>1. Below(S, i) \in SUBSET S /\ i \notin Below(S, i)
  BY DEF Below
<1>2. Cardinality(Below(S, i)) \in 0..(Cardinality(S) - 1)
  BY <1>1, Fewer
<1>3. ASSUME NEW a \in S, NEW b \in S, a < b
      PROVE  Cardinality(Below(S, a)) < Cardinality(Below(S, b))
  <2>1. a \in Nat /\ b \in Nat /\ \A j \in S : j \in Nat
    OBVIOUS
  <2>2. Below(S, a) \in SUBSET Below(S, b)
    <3>1. \A j \in S : j < a => j < b
      BY <1>3, <2>1
    <3> QED
      BY <3>1 DEF Below
  <2>4. a \in Below(S, b) /\ a \notin Below(S, a)
    BY <1>3, <2>1 DEF Below
  <2>3. IsFiniteSet(Below(S, b))
    BY FS_Subset DEF Below
  <2> QED
    BY <2>2, <2>3, <2>4, Fewer
<1>4. ASSUME NEW k \in S, Cardinality(Below(S, i)) = Cardinality(Below(S, k)) PROVE i = k
  <2>1. IsFiniteSet(Below(S, i)) /\ IsFiniteSet(Below(S, k))
    BY FS_Subset DEF Below
  <2>2. Cardinality(Below(S, i)) \in Nat /\ Cardinality(Below(S, k)) \in Nat
    BY <2>1, FS_CardinalityType
  <2>3. i \in Nat /\ k \in Nat
    OBVIOUS
  <2>4. ~(i < k) /\ ~(k < i)
    BY <1>3, <1>4, <2>2
  <2> QED
    BY <2>3, <2>4
<1> QED
  BY <1>2, <1>3, <1>4

(* So a position is told by how many are below it.                            *)
LEMMA SameRank ==
  ASSUME NEW S \in SUBSET Nat, IsFiniteSet(S), NEW i \in S, NEW k \in S,
         Cardinality(Below(S, i)) = Cardinality(Below(S, k))
  PROVE  i = k
  BY BelowGrows

(* InOrder lists the positions of a set, each once and in their order.        *)
LEMMA InOrderSorts ==
  ASSUME NEW S \in SUBSET Nat, IsFiniteSet(S)
  PROVE  /\ Cardinality(S) \in Nat
         /\ InOrder(S) \in [1..Cardinality(S) -> S]
         /\ \A k \in 1..Cardinality(S) : Cardinality(Below(S, InOrder(S)[k])) = k - 1
<1> DEFINE n == Cardinality(S)
           rank == [i \in S |-> Cardinality(Below(S, i)) + 1]
<1>1. n \in Nat
  BY FS_CardinalityType
<1>2. rank \in [S -> 1..n]
  BY <1>1, BelowGrows
<1>3. \A a, b \in S : rank[a] = rank[b] => a = b
  <2> SUFFICES ASSUME NEW a \in S, NEW b \in S, rank[a] = rank[b] PROVE a = b
    OBVIOUS
  <2>1. Cardinality(Below(S, a)) \in Int /\ Cardinality(Below(S, b)) \in Int
    BY <1>1, BelowGrows
  <2>2. Cardinality(Below(S, a)) = Cardinality(Below(S, b))
    BY <2>1
  <2> QED
    BY <2>2, BelowGrows
<1>4. IsFiniteSet(1..n) /\ Cardinality(1..n) = n
  BY <1>1, FS_Interval
<1>5. \A k \in 1..n : \E i \in S : rank[i] = k
  <2>1. Cardinality(S) = Cardinality(1..n)
    BY <1>4
  <2>2. rank \in Injection(S, 1..n)
    <3> HIDE DEF n, rank
    <3> QED
      BY <1>2, <1>3, Fun_IsInj
  <2>3. rank \in Surjection(S, 1..n)
    <3> HIDE DEF n, rank
    <3> QED
      BY <1>4, <2>1, <2>2, FS_Injection
  <2> HIDE DEF n, rank
  <2> QED
    BY <2>3 DEF Surjection
<1>6. \A k \in 1..n : \E i \in S : Cardinality({j \in S : j < i}) = k - 1
  <2> SUFFICES ASSUME NEW k \in 1..n PROVE \E i \in S : Cardinality(Below(S, i)) = k - 1
    BY DEF Below
  <2>1. PICK i \in S : rank[i] = k
    BY <1>5
  <2>2. Cardinality(Below(S, i)) \in Int
    BY <1>1, BelowGrows
  <2> QED
    BY <2>1, <2>2
<1>7. \A k \in 1..n : InOrder(S)[k] = CHOOSE i \in S : Cardinality({j \in S : j < i}) = k - 1
  BY DEF InOrder
<1>8. \A k \in 1..n : InOrder(S)[k] \in S /\ Cardinality({j \in S : j < InOrder(S)[k]}) = k - 1
  <2> HIDE DEF n
  <2> QED
    BY <1>6, <1>7
<1> QED
  BY <1>1, <1>8 DEF InOrder, Below

(* A sequence that lists the positions of a set in their order is InOrder of  *)
(* it.                                                                        *)
LEMMA InOrderUnique ==
  ASSUME NEW S \in SUBSET Nat, NEW n \in Nat, NEW t \in [1..n -> S],
         \A j, k \in 1..n : j < k => t[j] < t[k],
         \A i \in S : \E k \in 1..n : t[k] = i
  PROVE  IsFiniteSet(S) /\ Cardinality(S) = n /\ InOrder(S) = t
<1>1. \A j, k \in 1..n : t[j] < t[k] => j < k
  <2> SUFFICES ASSUME NEW j \in 1..n, NEW k \in 1..n, t[j] < t[k] PROVE j < k
    OBVIOUS
  <2>1. t[j] \in Nat /\ t[k] \in Nat
    OBVIOUS
  <2>2. ~(t[k] < t[j]) /\ t[j] # t[k]
    BY <2>1
  <2>3. ~(k < j) /\ j # k
    BY <2>2
  <2> QED
    BY <2>3
<1>2. \A j, k \in 1..n : t[j] = t[k] => j = k
  <2> SUFFICES ASSUME NEW j \in 1..n, NEW k \in 1..n, t[j] = t[k] PROVE j = k
    OBVIOUS
  <2>1. t[j] \in Nat /\ t[k] \in Nat
    OBVIOUS
  <2>2. ~(t[k] < t[j]) /\ ~(t[j] < t[k])
    BY <2>1
  <2>3. ~(k < j) /\ ~(j < k)
    BY <2>2
  <2> QED
    BY <2>3
<1>3. IsFiniteSet(1..n) /\ Cardinality(1..n) = n
  BY FS_Interval
<1>4. IsFiniteSet(S) /\ Cardinality(S) = n
  <2>1. t \in Bijection(1..n, S)
    BY <1>2, Fun_IsBij
  <2>2. ExistsBijection(1..n, S)
    BY <2>1, Fun_ExistsBij
  <2> QED
    BY <1>3, <2>2, FS_Bijection
<1>5. ASSUME NEW k \in 1..n PROVE Cardinality(Below(S, t[k])) = k - 1
  <2> DEFINE f == [j \in 1..(k - 1) |-> t[j]]
  <2>1. f \in [1..(k - 1) -> Below(S, t[k])]
    BY DEF Below
  <2>2. \A j, m \in 1..(k - 1) : f[j] = f[m] => j = m
    BY <1>2
  <2>3. \A i \in Below(S, t[k]) : \E j \in 1..(k - 1) : f[j] = i
    <3> SUFFICES ASSUME NEW i \in S, i < t[k] PROVE \E j \in 1..(k - 1) : f[j] = i
      BY DEF Below
    <3>1. PICK j \in 1..n : t[j] = i
      OBVIOUS
    <3>2. j < k
      BY <1>1, <3>1
    <3> QED
      BY <3>1, <3>2
  <2>4. ExistsBijection(1..(k - 1), Below(S, t[k]))
    <3> HIDE DEF f
    <3>1. f \in Bijection(1..(k - 1), Below(S, t[k]))
      BY <2>1, <2>2, <2>3, Fun_IsBij
    <3> QED
      BY <3>1, Fun_ExistsBij
  <2>5. IsFiniteSet(1..(k - 1)) /\ Cardinality(1..(k - 1)) = k - 1
    BY FS_Interval
  <2> QED
    BY <2>4, <2>5, FS_Bijection
<1>6. \A k \in 1..n : InOrder(S)[k] = t[k]
  <2> SUFFICES ASSUME NEW k \in 1..n PROVE InOrder(S)[k] = t[k]
    OBVIOUS
  <2>1. InOrder(S)[k] \in S /\ Cardinality(Below(S, InOrder(S)[k])) = k - 1
    BY <1>4, InOrderSorts
  <2>2. t[k] \in S /\ Cardinality(Below(S, t[k])) = k - 1
    BY <1>5
  <2>3. PICK a \in S, b \in S : a = InOrder(S)[k] /\ b = t[k]
    BY <2>1, <2>2
  <2>4. Cardinality(Below(S, a)) = Cardinality(Below(S, b))
    BY <2>1, <2>2, <2>3
  <2>5. a = b
    BY <1>4, <2>4, SameRank
  <2> QED
    BY <2>3, <2>5
<1>7. InOrder(S) \in [1..n -> S]
  BY <1>4, InOrderSorts
<1> QED
  BY <1>4, <1>6, <1>7

(* InOrder is increasing, and leaves nothing out.                             *)
LEMMA InOrderIncreases ==
  ASSUME NEW S \in SUBSET Nat, IsFiniteSet(S)
  PROVE  /\ \A j, k \in 1..Cardinality(S) : j < k => InOrder(S)[j] < InOrder(S)[k]
         /\ \A i \in S : \E k \in 1..Cardinality(S) : InOrder(S)[k] = i
<1> DEFINE n == Cardinality(S)
           t == InOrder(S)
<1>1. n \in Nat /\ t \in [1..n -> S] /\ \A k \in 1..n : Cardinality(Below(S, t[k])) = k - 1
  BY InOrderSorts
<1>2. ASSUME NEW j \in 1..n, NEW k \in 1..n, j < k PROVE t[j] < t[k]
  <2>1. t[j] \in S /\ t[k] \in S /\ t[j] \in Nat /\ t[k] \in Nat
    BY <1>1
  <2>2. ~(t[k] < t[j]) /\ t[j] # t[k]
    <3> HIDE DEF t, n
    <3>1. Cardinality(Below(S, t[j])) = j - 1 /\ Cardinality(Below(S, t[k])) = k - 1
      BY <1>1
    <3>2. ~(k - 1 < j - 1) /\ k - 1 # j - 1
      BY <1>1, <1>2
    <3> QED
      BY <2>1, <3>1, <3>2, BelowGrows
  <2> QED
    BY <2>1, <2>2
<1>3. ASSUME NEW i \in S PROVE \E k \in 1..n : t[k] = i
  <2>1. Cardinality(Below(S, i)) \in 0..(n - 1)
    BY BelowGrows
  <2>2. Cardinality(Below(S, i)) + 1 \in 1..n
    BY <1>1, <2>1
  <2>3. Cardinality(Below(S, t[Cardinality(Below(S, i)) + 1])) = Cardinality(Below(S, i))
    BY <1>1, <2>1, <2>2
  <2>4. t[Cardinality(Below(S, i)) + 1] \in S
    BY <1>1, <2>2
  <2>5. t[Cardinality(Below(S, i)) + 1] = i
    <3> HIDE DEF t
    <3> QED
      <4>1. PICK a \in S : a = t[Cardinality(Below(S, i)) + 1]
        BY <2>4
      <4>2. Cardinality(Below(S, a)) = Cardinality(Below(S, i))
        BY <2>3, <4>1
      <4>3. a = i
        BY <4>2, SameRank
      <4> QED
        BY <4>1, <4>3
  <2> QED
    BY <2>2, <2>5
<1> QED
  BY <1>2, <1>3

(* A selection of a sequence is a sequence of some of its elements.           *)
LEMMA OnlySome ==
  ASSUME NEW T, NEW s \in Seq(T), NEW S \in SUBSET (DOMAIN s)
  PROVE  /\ Only(s, S) \in Seq({s[i] : i \in S})
         /\ Only(s, S) \in Seq(T)
<1>1. DOMAIN s = 1..Len(s) /\ Len(s) \in Nat /\ \A i \in 1..Len(s) : s[i] \in T
  BY LenProperties
<1>2. S \in SUBSET Nat /\ IsFiniteSet(S)
  <2>1. S \in SUBSET (1..Len(s)) /\ IsFiniteSet(1..Len(s))
    BY <1>1, FS_Interval
  <2> QED
    BY <2>1, FS_Subset
<1>3. Cardinality(S) \in Nat /\ \A k \in 1..Cardinality(S) : InOrder(S)[k] \in S
  BY <1>2, InOrderSorts
<1>4. Only(s, S) \in [1..Cardinality(S) -> {s[i] : i \in S}]
  BY <1>3 DEF Only
<1>5. Only(s, S) \in Seq({s[i] : i \in S})
  BY <1>3, <1>4, SeqDef
<1>6. {s[i] : i \in S} \subseteq T
  BY <1>1
<1> QED
  BY <1>5, <1>6, SeqMonotonic

(* Nothing else is kept, each of them is, and none twice that was there once. *)
LEMMA OnlyThose ==
  ASSUME NEW T, NEW s \in Seq(T), NEW S \in SUBSET (DOMAIN s)
  PROVE  /\ Cardinality(S) \in Nat /\ DOMAIN Only(s, S) = 1..Cardinality(S)
         /\ Range(Only(s, S)) = {s[i] : i \in S}
         /\ Cardinality(S) = 0 <=> S = {}
         /\ (\A i, j \in DOMAIN s : s[i] = s[j] => i = j) =>
               \A k, m \in DOMAIN Only(s, S) : Only(s, S)[k] = Only(s, S)[m] => k = m
<1> DEFINE n == Cardinality(S)
           t == InOrder(S)
<1>1. DOMAIN s = 1..Len(s) /\ Len(s) \in Nat
  BY LenProperties
<1>2. S \in SUBSET Nat /\ IsFiniteSet(S)
  <2>1. S \in SUBSET (1..Len(s)) /\ IsFiniteSet(1..Len(s))
    BY <1>1, FS_Interval
  <2> QED
    BY <2>1, FS_Subset
<1>3. n \in Nat /\ \A k \in 1..n : t[k] \in S
  BY <1>2, InOrderSorts
<1>4. /\ \A j, k \in 1..n : j < k => t[j] < t[k]
      /\ \A i \in S : \E k \in 1..n : t[k] = i
  BY <1>2, InOrderIncreases
<1>5. Only(s, S) = [k \in 1..n |-> s[t[k]]]
  BY Zenon DEF Only
<1>6. n = 0 <=> S = {}
  BY <1>2, FS_EmptySet
<1> DEFINE o == Only(s, S)
<1>7. DOMAIN o = 1..n /\ \A k \in 1..n : o[k] = s[t[k]]
  <2> HIDE DEF n, t
  <2> QED
    BY <1>5
<1> HIDE DEF n, t, o
<1>8. Range(o) = {s[i] : i \in S}
  <2>1. \A k \in DOMAIN o : o[k] \in {s[i] : i \in S}
    BY <1>3, <1>7
  <2>2. \A i \in S : \E k \in DOMAIN o : o[k] = s[i]
    BY <1>4, <1>7
  <2> QED
    BY <2>1, <2>2 DEF Range
<1>9. ASSUME \A i, j \in DOMAIN s : s[i] = s[j] => i = j,
             NEW k \in 1..n, NEW m \in 1..n, o[k] = o[m]
      PROVE  k = m
  <2>1. t[k] \in S /\ t[m] \in S /\ s[t[k]] = s[t[m]]
    BY <1>3, <1>7, <1>9
  <2>2. t[k] = t[m] /\ t[k] \in Nat /\ t[m] \in Nat
    BY <1>2, <1>9, <2>1
  <2>3. ~(t[k] < t[m]) /\ ~(t[m] < t[k])
    BY <2>2
  <2>4. ~(k < m) /\ ~(m < k)
    BY <1>4, <2>3
  <2> QED
    BY <1>3, <2>4
<1> QED
  BY <1>3, <1>6, <1>7, <1>8, <1>9 DEF n, o

-----------------------------------------------------------------------------
(* What is kept of a sequence is what stands at the chosen places.            *)
LEMMA TellsThose ==
  \A T : \A s \in Seq(T) : \A S \in SUBSET (DOMAIN s) : Range(Only(s, S)) = {s[i] : i \in S}
  BY OnlyThose

(* Multiplication is monotonic.                                               *)
LEMMA Times ==
  ASSUME NEW d \in Nat, NEW a \in Int, NEW b \in Int, a <= b
  PROVE  a * d \in Int /\ b * d \in Int /\ a * d <= b * d
<1>1. PICK k \in Nat : b = a + k
  <2>1. b - a \in Nat /\ b = a + (b - a)
    OBVIOUS
  <2> QED
    BY <2>1
<1>2. b * d = a * d + k * d
  BY <1>1
<1>3. k * d \in Nat
  OBVIOUS
<1> QED
  BY <1>2, <1>3

(* What division and remainder are.                                           *)
LEMMA DivMod ==
  ASSUME NEW d \in Nat, d > 0, NEW n \in Nat
  PROVE  /\ n \div d \in Nat /\ n % d \in 0..d - 1 /\ (n \div d) * d \in Nat
         /\ n = (n \div d) * d + (n % d)
<1> DEFINE x == n \div d
           r == n - x * d
<1>1. x \in Int /\ x >= 0
  OBVIOUS
<1>2. d * x <= n /\ n < d * (x + 1)
  OBVIOUS
<1>3. d * x = x * d /\ d * (x + 1) = x * d + d /\ x * d \in Int
  <2> HIDE DEF x
  <2> QED
    BY <1>1
<1>5. x * d >= 0
  <2> HIDE DEF x
  <2> QED
    BY <1>1
<1>4. r \in 0..d - 1 /\ n = x * d + r
  <2> HIDE DEF x
  <2> QED
    BY <1>2, <1>3
<1>6. r = n % d
  <2> HIDE DEF x, r
  <2> QED
    BY <1>1, <1>4
<1>7. x \in Nat /\ n % d \in 0..d - 1 /\ x * d \in Nat /\ n = x * d + (n % d)
  <2> HIDE DEF x, r
  <2> QED
    BY <1>1, <1>3, <1>4, <1>5, <1>6
<1> QED
  BY <1>7, Zenon
===============================================================================
