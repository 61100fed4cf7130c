---------------------------- MODULE CaseFlow_proofs ----------------------------
(***************************************************************************)
(* Theorems about CaseFlow, for every value of its constants. That the       *)
(* parser loses no complete object is left to TLC: it takes an induction     *)
(* over the tokens of an answer.                                             *)
(***************************************************************************)
EXTENDS CaseFlow, Positions_proofs

-----------------------------------------------------------------------------
(* The order of severity. Cases have different ids.                           *)
Ranked(S) ==
    /\ IsFiniteSet(S)
    /\ \A c \in S : c.id \in Int /\ c.priority \in Int
    /\ \A c, d \in S : c.id = d.id => c = d

Ahead(S, c) == {d \in S : MoreSevere(d, c)}

(* It is a linear order of cases with different ids.                          *)
LEMMA Severity ==
  ASSUME NEW S, Ranked(S)
  PROVE  /\ \A c \in S : ~MoreSevere(c, c)
         /\ \A c, d, e \in S : MoreSevere(c, d) /\ MoreSevere(d, e) => MoreSevere(c, e)
         /\ \A c, d \in S : c = d \/ MoreSevere(c, d) \/ MoreSevere(d, c)
<1> DEFINE Before(p, i, q, j) == p < q \/ (p = q /\ i < j)
<1>1. /\ \A p, i \in Int : ~Before(p, i, p, i)
      /\ \A p, i, q, j, r, k \in Int : Before(p, i, q, j) /\ Before(q, j, r, k) => Before(p, i, r, k)
      /\ \A p, i, q, j \in Int : i = j \/ Before(p, i, q, j) \/ Before(q, j, p, i)
  OBVIOUS
<1>2. \A c, d : MoreSevere(c, d) <=> Before(c.priority, c.id, d.priority, d.id)
  BY Zenon DEF MoreSevere
<1>3. \A c \in S : c.id \in Int /\ c.priority \in Int
  BY DEF Ranked
<1>4. \A c, d \in S : c.id = d.id => c = d
  BY DEF Ranked
<1> HIDE DEF Before
<1>5. \A c \in S : ~MoreSevere(c, c)
  BY <1>1, <1>2, <1>3, Zenon
<1>6. \A c, d, e \in S : MoreSevere(c, d) /\ MoreSevere(d, e) => MoreSevere(c, e)
  BY <1>1, <1>2, <1>3, Zenon
<1>7. \A c, d \in S : c = d \/ MoreSevere(c, d) \/ MoreSevere(d, c)
  BY <1>1, <1>2, <1>3, <1>4, Zenon
<1> QED
  BY <1>5, <1>6, <1>7

(* Of two cases the less severe one has more others ahead of it.              *)
LEMMA AheadGrows ==
  ASSUME NEW S, Ranked(S), NEW c \in S
  PROVE  /\ Cardinality(Ahead(S, c)) \in 0..(Cardinality(S) - 1)
         /\ \A d \in S : MoreSevere(c, d) => Cardinality(Ahead(S, c)) < Cardinality(Ahead(S, d))
         /\ \A d \in S : Cardinality(Ahead(S, c)) = Cardinality(Ahead(S, d)) => c = d
<1>0. IsFiniteSet(S)
  BY DEF Ranked
<1>1. Ahead(S, c) \in SUBSET S /\ c \notin Ahead(S, c)
  BY Severity DEF Ahead
<1>2. Cardinality(Ahead(S, c)) \in 0..(Cardinality(S) - 1)
  BY <1>0, <1>1, Fewer
<1>3. ASSUME NEW a \in S, NEW b \in S, MoreSevere(a, b)
      PROVE  Cardinality(Ahead(S, a)) \in Int /\ Cardinality(Ahead(S, b)) \in Int
             /\ Cardinality(Ahead(S, a)) < Cardinality(Ahead(S, b))
  <2>1. Ahead(S, a) \in SUBSET Ahead(S, b)
    BY <1>3, Severity DEF Ahead
  <2>2. a \in Ahead(S, b) /\ a \notin Ahead(S, a)
    BY <1>3, Severity DEF Ahead
  <2>3. IsFiniteSet(Ahead(S, b))
    BY <1>0, FS_Subset DEF Ahead
  <2> QED
    BY <2>1, <2>2, <2>3, Fewer
<1>4. ASSUME NEW d \in S, Cardinality(Ahead(S, c)) = Cardinality(Ahead(S, d)) PROVE c = d
  <2>1. ~MoreSevere(c, d) /\ ~MoreSevere(d, c)
    BY <1>3, <1>4
  <2> QED
    BY <2>1, Severity
<1> QED
  BY <1>2, <1>3, <1>4

(* BySeverity lists the cases of a set, each once and in their order.         *)
LEMMA BySeveritySorts ==
  ASSUME NEW S, Ranked(S), NEW t, t = BySeverity(S), NEW n, n = Cardinality(S)
  PROVE  /\ n \in Nat /\ t \in [1..n -> S] /\ (n = 0 <=> S = {})
         /\ \A c \in S : \E k \in 1..n : t[k] = c
         /\ \A j, k \in 1..n : t[j] = t[k] => j = k
         /\ \A j, k \in 1..n : j < k => MoreSevere(t[j], t[k])
<1> DEFINE rank == [c \in S |-> Cardinality(Ahead(S, c)) + 1]
<1>0. IsFiniteSet(S)
  BY DEF Ranked
<1>1. n \in Nat /\ (n = 0 <=> S = {})
  BY <1>0, FS_CardinalityType, FS_EmptySet
<1>2. rank \in [S -> 1..n]
  <2>1. \A c \in S : Cardinality(Ahead(S, c)) \in 0..(n - 1)
    BY AheadGrows
  <2> QED
    BY <1>1, <2>1
<1>3. \A a, b \in S : rank[a] = rank[b] => a = b
  <2> SUFFICES ASSUME NEW a \in S, NEW b \in S, rank[a] = rank[b] PROVE a = b
    OBVIOUS
  <2>1. Cardinality(Ahead(S, a)) \in 0..(n - 1) /\ Cardinality(Ahead(S, b)) \in 0..(n - 1)
    BY AheadGrows
  <2>2. Cardinality(Ahead(S, a)) = Cardinality(Ahead(S, b))
    BY <1>1, <2>1
  <2> QED
    BY <2>2, AheadGrows
<1>4. \A k \in 1..n : \E c \in S : rank[c] = k
  <2>1. PICK T : T = 1..n /\ IsFiniteSet(T) /\ Cardinality(T) = n
    BY <1>1, FS_Interval
  <2>2. Cardinality(S) = Cardinality(T)
    BY <2>1
  <2> HIDE DEF rank
  <2>3. rank \in [S -> T]
    BY <1>2, <2>1
  <2>4. \A k \in T : \E c \in S : rank[c] = k
    <3>1. rank \in Injection(S, T)
      BY <1>3, <2>3, Fun_IsInj
    <3>2. rank \in Surjection(S, T)
      BY <1>0, <2>1, <2>2, <3>1, FS_Injection
    <3> QED
      BY <3>2 DEF Surjection
  <2> QED
    BY <2>1, <2>4
<1>5. \A k \in 1..n : \E c \in S : Cardinality({d \in S : MoreSevere(d, c)}) = k - 1
  <2> SUFFICES ASSUME NEW k \in 1..n PROVE \E c \in S : Cardinality(Ahead(S, c)) = k - 1
    BY DEF Ahead
  <2>1. PICK c \in S : rank[c] = k
    BY <1>4
  <2>2. Cardinality(Ahead(S, c)) \in 0..(n - 1)
    BY AheadGrows
  <2> QED
    BY <2>1, <2>2, <1>1
<1>6. \A k \in 1..n : t[k] = CHOOSE c \in S : Cardinality({d \in S : MoreSevere(d, c)}) = k - 1
  BY DEF BySeverity
<1>7. \A k \in 1..n : t[k] \in S /\ Cardinality(Ahead(S, t[k])) = k - 1
  <2>1. \A k \in 1..n : t[k] \in S /\ Cardinality({d \in S : MoreSevere(d, t[k])}) = k - 1
    BY <1>5, <1>6, Zenon
  <2> QED
    BY <2>1, Zenon DEF Ahead
<1>8. t \in [1..n -> S]
  BY <1>7 DEF BySeverity
<1> HIDE DEF rank
<1>9. ASSUME NEW c \in S PROVE \E k \in 1..n : t[k] = c
  <2>1. PICK r \in 0..(n - 1) : r = Cardinality(Ahead(S, c))
    BY AheadGrows
  <2>2. r + 1 \in 1..n /\ (r + 1) - 1 = r
    BY <1>1
  <2>3. t[r + 1] \in S /\ Cardinality(Ahead(S, t[r + 1])) = r
    BY <1>7, <2>2
  <2>4. PICK a \in S : a = t[r + 1]
    BY <2>3
  <2>5. a = c
    BY <2>1, <2>3, <2>4, AheadGrows
  <2> QED
    BY <2>2, <2>4, <2>5
<1>10. ASSUME NEW j \in 1..n, NEW k \in 1..n, t[j] = t[k] PROVE j = k
  BY <1>1, <1>7, <1>10
<1>11. ASSUME NEW j \in 1..n, NEW k \in 1..n, j < k PROVE MoreSevere(t[j], t[k])
  <2>1. PICK a \in S, b \in S : a = t[j] /\ b = t[k]
    BY <1>7
  <2>2. Cardinality(Ahead(S, a)) = j - 1 /\ Cardinality(Ahead(S, b)) = k - 1
    BY <1>7, <2>1
  <2>3. a # b /\ ~MoreSevere(b, a)
    BY <1>1, <1>11, <2>2, AheadGrows
  <2> QED
    BY <2>1, <2>3, Severity
<1> QED
  BY <1>1, <1>8, <1>9, <1>10, <1>11
-----------------------------------------------------------------------------
(* A selection: only chosen cases, none twice, and what the limit leaves out   *)
(* is nowhere more severe than what it keeps.                                 *)
LEMMA Filtered ==
  ASSUME NEW cs, Ranked(Range(cs)), NEW in, in.limit \in Nat,
         NEW f, f = FilterCases(cs, in)
  PROVE  /\ f \in Seq(Range(cs)) /\ Range(f) \subseteq Range(cs)
         /\ \A j, k \in DOMAIN f : f[j] = f[k] => j = k
         /\ \A c \in Range(f) : Chosen(c, in)
         /\ \A c \in Range(cs) : Chosen(c, in) /\ c \notin Range(f) =>
               /\ in.limit = Len(f) /\ in.limit > 0
               /\ \A d \in Range(f) : d.priority <= c.priority
<1> DEFINE C == {c \in Range(cs) : Chosen(c, in)}
           t == BySeverity(C)
           n == Cardinality(C)
           m == IF in.limit > 0 /\ in.limit < n THEN in.limit ELSE n
<1>1. Ranked(C)
  <2>1. IsFiniteSet(Range(cs))
    BY DEF Ranked
  <2>2. IsFiniteSet(C)
    BY <2>1, FS_Subset
  <2> QED
    BY <2>2 DEF Ranked
<1>2. C \subseteq Range(cs) /\ \A c \in C : Chosen(c, in)
  OBVIOUS
<1>3. \A c \in Range(cs) : Chosen(c, in) => c \in C
  OBVIOUS
<1>4. f = UpTo(in.limit, t)
  BY DEF FilterCases
<1> HIDE DEF C
<1>5. /\ n \in Nat /\ t \in [1..n -> C]
      /\ \A c \in C : \E k \in 1..n : t[k] = c
      /\ \A j, k \in 1..n : t[j] = t[k] => j = k
      /\ \A j, k \in 1..n : j < k => MoreSevere(t[j], t[k])
  <2>1. PICK u, l : u = t /\ l = n
    OBVIOUS
  <2> HIDE DEF t, n
  <2>2. u = BySeverity(C) /\ l = Cardinality(C)
    BY <2>1 DEF t, n
  <2> QED
    BY <1>1, <2>1, <2>2, BySeveritySorts
<1> HIDE DEF t, n
<1>6. Len(t) = n /\ t \in Seq(C)
  BY <1>5
<1>7. m \in 0..n
  BY <1>5
<1>8. f \in [1..m -> C] /\ \A k \in 1..m : f[k] = t[k]
  <2>1. CASE in.limit > 0 /\ in.limit < n
    <3>1. f = SubSeq(t, 1, in.limit)
      BY <1>4, <1>6, <2>1 DEF UpTo
    <3>2. m = in.limit
      BY <2>1
    <3> HIDE DEF m
    <3>3. f = SubSeq(t, 1, m) /\ m \in Nat /\ m <= Len(t)
      BY <1>5, <1>6, <1>7, <3>1, <3>2
    <3>4. Len(f) = m /\ f \in Seq(C) /\ \A k \in 1..m : f[k] = t[k]
      BY <1>6, <3>3, SubSeqProperties
    <3> QED
      BY <3>4
  <2>2. CASE ~(in.limit > 0 /\ in.limit < n)
    <3>1. f = t
      BY <1>4, <1>6, <2>2 DEF UpTo
    <3> QED
      BY <1>5, <2>2, <3>1
  <2> QED
    BY <2>1, <2>2
<1>9. m < n => m = in.limit /\ in.limit > 0
  BY <1>5
<1> HIDE DEF m
<1>10. f \in Seq(C) /\ DOMAIN f = 1..m /\ Len(f) = m
  BY <1>7, <1>8
<1>11. f \in Seq(Range(cs)) /\ Range(f) \subseteq C
  <2>1. f \in Seq(Range(cs))
    BY <1>2, <1>10
  <2>2. Range(f) \subseteq C
    BY <1>8, <1>10 DEF Range
  <2> QED
    BY <2>1, <2>2
<1>12. \A j, k \in DOMAIN f : f[j] = f[k] => j = k
  BY <1>5, <1>7, <1>8, <1>10
<1>13. ASSUME NEW c \in C, c \notin Range(f)
       PROVE  in.limit = Len(f) /\ in.limit > 0 /\ \A d \in Range(f) : d.priority <= c.priority
  <2>1. PICK k \in 1..n : t[k] = c
    BY <1>5
  <2>2. ~(k \in 1..m)
    BY <1>8, <1>10, <1>13, <2>1 DEF Range
  <2>3. m < k /\ m < n
    BY <1>5, <1>7, <2>2
  <2>4. ASSUME NEW d \in Range(f) PROVE d.priority <= c.priority
    <3>1. PICK j \in 1..m : d = t[j]
      BY <1>8, <1>10 DEF Range
    <3>2. MoreSevere(d, c)
      <4>1. j \in 1..n /\ j < k
        BY <1>5, <1>7, <2>3
      <4> QED
        BY <1>5, <2>1, <3>1, <4>1
    <3>3. d \in C
      BY <1>11
    <3>4. c.priority \in Int /\ d.priority \in Int
      BY <1>1, <3>3 DEF Ranked
    <3>5. \A p, q \in Int : p < q \/ p = q => p <= q
      OBVIOUS
    <3>6. d.priority < c.priority \/ d.priority = c.priority
      BY <3>2 DEF MoreSevere
    <3> QED
      BY <3>4, <3>5, <3>6, Zenon
  <2> QED
    BY <1>9, <1>10, <2>3, <2>4
<1> QED
  BY <1>2, <1>3, <1>11, <1>12, <1>13
-----------------------------------------------------------------------------
(* The parts of a group: each position of it is in exactly one.               *)
Cut(k) == (k - 1) * MaxPerFile + 1 .. k * MaxPerFile

LEMMA OnePart ==
  ASSUME NEW n \in Nat, NEW x \in 1..n
  PROVE  \E k \in Parts(n) : \A m \in Parts(n) : x \in Cut(m) <=> m = k
<1> DEFINE d == MaxPerFile
           q == (x - 1) \div d
           r == (x - 1) % d
<1>0. d \in Nat /\ d > 0 /\ x - 1 \in Nat
  BY CaseFlowConstants
<1>1. q \in Nat /\ r \in 0..d - 1 /\ q * d \in Nat /\ x - 1 = q * d + r
  <2>1. PICK y \in Nat : y = x - 1
    BY <1>0
  <2> QED
    BY <1>0, <2>1, DivMod
<1> HIDE DEF q, r, d
<1>2. (q + 1) * d = q * d + d
  BY <1>0, <1>1
<1>3. q + 1 \in Parts(n)
  <2>1. q <= q * d
    <3>1. 1 * q <= d * q
      BY <1>0, <1>1, Times
    <3> QED
      BY <1>0, <1>1, <3>1
  <2>2. q + 1 \in 1..n /\ ((q + 1) - 1) * d < n
    BY <1>0, <1>1, <2>1
  <2> QED
    BY <2>2 DEF Parts, d
<1>4. x \in Cut(q + 1)
  <2>1. x \in q * d + 1 .. (q + 1) * d
    BY <1>0, <1>1, <1>2
  <2>2. (q + 1) - 1 = q
    BY <1>1
  <2> QED
    BY <2>1, <2>2 DEF Cut, d
<1>5. ASSUME NEW m \in Parts(n), x \in Cut(m) PROVE m = q + 1
  <2>1. m \in Nat /\ m - 1 \in Int /\ m \in Int
    BY DEF Parts
  <2>2. x \in Int /\ (m - 1) * d + 1 <= x /\ x <= m * d
    BY <1>0, <1>5, <2>1 DEF Cut, d
  <2>3. ~(m <= q)
    <3>1. m <= q => m * d <= q * d /\ m * d \in Int
      BY <1>0, <1>1, <2>1, Times
    <3> QED
      BY <1>1, <2>2, <3>1
  <2>4. ~(q + 1 <= m - 1)
    <3>1. q + 1 <= m - 1 => (q + 1) * d <= (m - 1) * d /\ (m - 1) * d \in Int
      BY <1>0, <1>1, <2>1, Times
    <3> QED
      BY <1>0, <1>1, <1>2, <2>2, <3>1
  <2> QED
    BY <1>1, <2>1, <2>3, <2>4
<1> QED
  BY <1>3, <1>4, <1>5

(* A part has some of the group's cases, and no more than a file may have.     *)
LEMMA PartOfGroup ==
  ASSUME NEW T, NEW g \in Seq(T), NEW k \in Parts(Len(g)), NEW p, p = Part(g, k)
  PROVE  /\ p \in Seq(T) /\ Len(p) \in 1..MaxPerFile
         /\ \A c : c \in Range(p) <=> \E x \in DOMAIN g : x \in Cut(k) /\ c = g[x]
<1> DEFINE n == Len(g)
           a == (k - 1) * MaxPerFile
           b == k * MaxPerFile
           e == IF b <= n THEN b ELSE n
<1>1. n \in Nat /\ DOMAIN g = 1..n /\ \A i \in 1..n : g[i] \in T
  BY LenProperties
<1>2. MaxPerFile \in Nat /\ MaxPerFile > 0 /\ k \in Nat /\ k > 0
  BY CaseFlowConstants DEF Parts
<1>3. a \in Nat /\ b = a + MaxPerFile
  <2>1. PICK h \in Nat : h = k - 1
    BY <1>2
  <2>2. k = h + 1
    BY <1>2, <2>1
  <2> QED
    BY <1>2, <2>1, <2>2
<1>4. a < n
  BY DEF Parts
<1>5. Min({b, n}) = e
  <2> HIDE DEF a, b, n
  <2>1. b \in Int /\ n \in Int
    BY <1>1, <1>2, <1>3
  <2>2. e \in {b, n} /\ \A y \in {b, n} : e <= y
    BY <2>1
  <2>3. \A z \in {b, n} : (\A y \in {b, n} : z <= y) => z = e
    BY <2>1
  <2> HIDE DEF e
  <2> QED
    BY <2>2, <2>3 DEF Min
<1>6. p = SubSeq(g, a + 1, e)
  BY <1>5 DEF Part
<1> HIDE DEF a, b, n, e
<1>7. e \in Int /\ a < e /\ e <= n /\ e <= b /\ (e = b \/ e = n)
  BY <1>1, <1>2, <1>3, <1>4 DEF e
<1>8. p \in Seq(T) /\ Len(p) = e - a /\ \A i \in 1..(e - a) : p[i] = g[a + i]
  <2>1. \A i \in a + 1 .. e : g[i] \in T
    BY <1>1, <1>3, <1>7
  <2>2. a + 1 \in Int /\ a + 1 <= e /\ e - (a + 1) + 1 = e - a
    BY <1>3, <1>7
  <2>3. \A i \in 1..(e - a) : (a + 1) + i - 1 = a + i
    BY <1>3, <1>7
  <2>4. PICK f \in Int : f = a + 1
    BY <2>2
  <2>5. /\ SubSeq(g, f, e) \in Seq(T)
        /\ Len(SubSeq(g, f, e)) = IF f <= e THEN e - f + 1 ELSE 0
        /\ \A i \in 1 .. e - f + 1 : SubSeq(g, f, e)[i] = g[f + i - 1]
    BY <1>7, <2>1, <2>4, SubSeqProperties
  <2> QED
    BY <1>6, <2>2, <2>3, <2>4, <2>5
<1>9. Len(p) \in 1..MaxPerFile
  BY <1>2, <1>3, <1>7, <1>8
<1>10. DOMAIN p = 1..(e - a)
  BY <1>8, LenProperties
<1>11. ASSUME NEW c, c \in Range(p) PROVE \E x \in DOMAIN g : x \in Cut(k) /\ c = g[x]
  <2>1. PICK i \in 1..(e - a) : c = g[a + i]
    BY <1>8, <1>10, <1>11 DEF Range
  <2>2. a + i \in 1..n /\ a + i \in a + 1 .. b
    BY <1>1, <1>2, <1>3, <1>7
  <2> QED
    BY <1>1, <2>1, <2>2 DEF Cut, a, b
<1>12. ASSUME NEW c, NEW x \in DOMAIN g, x \in Cut(k), c = g[x] PROVE c \in Range(p)
  <2>1. x \in 1..n /\ x \in a + 1 .. b
    BY <1>1, <1>12 DEF Cut, a, b
  <2>2. x - a \in 1..(e - a) /\ a + (x - a) = x
    BY <1>1, <1>2, <1>3, <1>7, <2>1
  <2>3. p[x - a] = c
    BY <1>8, <1>12, <2>2
  <2> QED
    BY <1>10, <2>2, <2>3 DEF Range
<1> QED
  BY <1>8, <1>9, <1>11, <1>12
-----------------------------------------------------------------------------
(* The group of a path: the cases of that path, each once.                    *)
LEMMA Grouped ==
  ASSUME NEW T, NEW cs \in Seq(T),
         \A i, j \in DOMAIN cs : cs[i] = cs[j] => i = j,
         NEW path
  PROVE  /\ Group(cs, path) \in Seq(T)
         /\ \A x, y \in DOMAIN Group(cs, path) : Group(cs, path)[x] = Group(cs, path)[y] => x = y
         /\ \A c : c \in Range(Group(cs, path)) <=> c \in Range(cs) /\ PathOf(c) = path
<1>1. PICK S \in SUBSET (DOMAIN cs) :
         Group(cs, path) = Only(cs, S) /\ \A i : i \in S <=> i \in DOMAIN cs /\ PathOf(cs[i]) = path
  <2> DEFINE S == {i \in DOMAIN cs : PathOf(cs[i]) = path}
  <2>1. Group(cs, path) = Only(cs, S) /\ S \in SUBSET (DOMAIN cs)
    BY DEF Group
  <2> QED
    BY <2>1
<1>2. Only(cs, S) \in Seq(T)
  BY OnlySome
<1>3. /\ Range(Only(cs, S)) = {cs[i] : i \in S}
      /\ \A x, y \in DOMAIN Only(cs, S) : Only(cs, S)[x] = Only(cs, S)[y] => x = y
  BY OnlyThose
<1>4. \A c : c \in Range(cs) <=> \E i \in DOMAIN cs : c = cs[i]
  BY DEF Range
<1>5. \A c : c \in Range(Only(cs, S)) <=> c \in Range(cs) /\ PathOf(c) = path
  BY <1>1, <1>3, <1>4
<1> QED
  BY <1>1, <1>2, <1>3, <1>5

(* The plans: finitely many, none with more cases than a file may have, and    *)
(* each of the cases, if it was there once, in exactly one of them.            *)
LEMMA Planned ==
  ASSUME NEW T, NEW cs \in Seq(T),
         \A i, j \in DOMAIN cs : cs[i] = cs[j] => i = j
  PROVE  /\ IsFiniteSet(PlanFiles(cs))
         /\ \A p \in PlanFiles(cs) : p = [path |-> p.path, cases |-> p.cases]
         /\ \A p \in PlanFiles(cs) : Len(p.cases) \in 1..MaxPerFile
         /\ \A c \in Range(cs) : Cardinality({p \in PlanFiles(cs) : c \in Range(p.cases)}) = 1
<1> DEFINE PlanOf(path, k) == [path |-> PartPath(path, k), cases |-> Part(Group(cs, path), k)]
           Paths == {PathOf(c) : c \in Range(cs)}
           PlansOf(path) == {PlanOf(path, k) : k \in Parts(Len(Group(cs, path)))}
<1>1. PlanFiles(cs) = UNION {PlansOf(path) : path \in Paths}
  BY Zenon DEF PlanFiles
<1>2. ASSUME NEW path
      PROVE  /\ Group(cs, path) \in Seq(T)
             /\ \A x, y \in DOMAIN Group(cs, path) : Group(cs, path)[x] = Group(cs, path)[y] => x = y
             /\ \A c : c \in Range(Group(cs, path)) <=> c \in Range(cs) /\ PathOf(c) = path
  BY Grouped, Zenon
<1>3. ASSUME NEW c \in Range(cs)
      PROVE  \E k \in Parts(Len(Group(cs, PathOf(c)))) :
                \A path \in Paths : \A m \in Parts(Len(Group(cs, path))) :
                    c \in Range(Part(Group(cs, path), m)) <=> path = PathOf(c) /\ m = k
  <2> DEFINE g == Group(cs, PathOf(c))
  <2>1. g \in Seq(T) /\ c \in Range(g) /\ \A x, y \in DOMAIN g : g[x] = g[y] => x = y
    BY <1>2
  <2> HIDE DEF g
  <2>2. PICK x \in DOMAIN g : g[x] = c
    BY <2>1 DEF Range
  <2>3. Len(g) \in Nat /\ x \in 1..Len(g)
    BY <2>1, <2>2, LenProperties
  <2>4. PICK k \in Parts(Len(g)) : \A m \in Parts(Len(g)) : x \in Cut(m) <=> m = k
    BY <2>3, OnePart
  <2>5. \A m \in Parts(Len(g)) : c \in Range(Part(g, m)) <=> m = k
    <3> SUFFICES ASSUME NEW m \in Parts(Len(g)) PROVE c \in Range(Part(g, m)) <=> m = k
      OBVIOUS
    <3>1. PICK p : p = Part(g, m)
      OBVIOUS
    <3>2. c \in Range(p) <=> \E y \in DOMAIN g : y \in Cut(m) /\ c = g[y]
      BY <2>1, <3>1, PartOfGroup
    <3>3. \A y \in DOMAIN g : c = g[y] => y = x
      BY <2>1, <2>2
    <3> QED
      BY <2>2, <2>4, <3>1, <3>2, <3>3
  <2>6. ASSUME NEW path \in Paths, NEW m \in Parts(Len(Group(cs, path))),
               c \in Range(Part(Group(cs, path), m))
        PROVE  path = PathOf(c)
    <3>1. PICK h, p : h = Group(cs, path) /\ p = Part(h, m)
      OBVIOUS
    <3>2. h \in Seq(T) /\ m \in Parts(Len(h)) /\ c \in Range(p)
      BY <1>2, <2>6, <3>1
    <3>3. \E y \in DOMAIN h : c = h[y]
      BY <3>1, <3>2, PartOfGroup
    <3>4. c \in Range(h)
      BY <3>3 DEF Range
    <3> QED
      BY <1>2, <3>1, <3>4
  <2> QED
    BY <2>4, <2>5, <2>6, Zenon DEF g
<1>4. IsFiniteSet(PlanFiles(cs))
  <2> DEFINE D == DOMAIN cs
             f == [i \in D |-> PlansOf(PathOf(cs[i]))]
  <2>1. IsFiniteSet(D)
    <3>1. D = 1..Len(cs) /\ Len(cs) \in Nat
      BY LenProperties
    <3> QED
      BY <3>1, FS_Interval
  <2>2. ASSUME NEW path PROVE IsFiniteSet(PlansOf(path))
    <3> DEFINE E == Parts(Len(Group(cs, path)))
               h == [k \in E |-> PlanOf(path, k)]
    <3>1. Len(Group(cs, path)) \in Nat
      BY <1>2, LenProperties
    <3>2. IsFiniteSet(1..Len(Group(cs, path)))
      BY <3>1, FS_Interval
    <3>3. IsFiniteSet(E)
      BY <3>2, FS_Subset DEF Parts
    <3>4. PlansOf(path) = {h[k] : k \in E} /\ DOMAIN h = E
      OBVIOUS
    <3> HIDE DEF h, E, PlansOf
    <3> QED
      BY <3>3, <3>4, Image
  <2>3. \A i \in D : IsFiniteSet(f[i])
    BY <2>2
  <2>4. PlanFiles(cs) = UNION {f[i] : i \in D} /\ DOMAIN f = D
    <3>1. \A path \in Paths : \E i \in D : path = PathOf(cs[i])
      BY DEF Range
    <3>2. \A i \in D : PathOf(cs[i]) \in Paths
      BY DEF Range
    <3> HIDE DEF PlansOf, Paths
    <3> QED
      BY <1>1, <3>1, <3>2
  <2> HIDE DEF f, D
  <2>5. IsFiniteSet({f[i] : i \in D})
    BY <2>1, <2>4, Image
  <2>6. \A S \in {f[i] : i \in D} : IsFiniteSet(S)
    BY <2>3
  <2> QED
    BY <2>4, <2>5, <2>6, FS_UNION
<1>5. ASSUME NEW p \in PlanFiles(cs)
      PROVE  \E path \in Paths : \E k \in Parts(Len(Group(cs, path))) : p = PlanOf(path, k)
  BY <1>1, Zenon
<1>6. ASSUME NEW p \in PlanFiles(cs)
      PROVE  p = [path |-> p.path, cases |-> p.cases] /\ Len(p.cases) \in 1..MaxPerFile
  <2>1. PICK path \in Paths : \E k \in Parts(Len(Group(cs, path))) : p = PlanOf(path, k)
    BY <1>5
  <2>2. PICK g : g = Group(cs, path)
    OBVIOUS
  <2>3. PICK k \in Parts(Len(g)) : p = PlanOf(path, k)
    BY <2>1, <2>2
  <2>4. p = [path |-> PartPath(path, k), cases |-> Part(g, k)]
    BY <2>2, <2>3
  <2>5. g \in Seq(T)
    BY <1>2, <2>2
  <2>6. PICK q : q = Part(g, k)
    OBVIOUS
  <2>7. Len(q) \in 1..MaxPerFile
    BY <2>3, <2>5, <2>6, PartOfGroup
  <2> QED
    BY <2>4, <2>6, <2>7
<1>7. ASSUME NEW c \in Range(cs)
      PROVE  Cardinality({p \in PlanFiles(cs) : c \in Range(p.cases)}) = 1
  <2>1. PICK k \in Parts(Len(Group(cs, PathOf(c)))) :
                \A path \in Paths : \A m \in Parts(Len(Group(cs, path))) :
                    c \in Range(Part(Group(cs, path), m)) <=> path = PathOf(c) /\ m = k
    BY <1>3
  <2>2. PathOf(c) \in Paths
    OBVIOUS
  <2>3. \A path, m : PlanOf(path, m).cases = Part(Group(cs, path), m)
    OBVIOUS
  <2>4. PlanOf(PathOf(c), k) \in PlanFiles(cs)
    BY <1>1, <2>2
  <2> HIDE DEF Paths, PlanOf
  <2>5. c \in Range(PlanOf(PathOf(c), k).cases)
    BY <2>1, <2>2, <2>3, Zenon
  <2>6. ASSUME NEW p \in PlanFiles(cs), c \in Range(p.cases) PROVE p = PlanOf(PathOf(c), k)
    <3>1. PICK path \in Paths : \E m \in Parts(Len(Group(cs, path))) : p = PlanOf(path, m)
      BY <1>5
    <3>2. PICK m \in Parts(Len(Group(cs, path))) : p = PlanOf(path, m)
      BY <3>1
    <3>3. path = PathOf(c) /\ m = k
      BY <2>1, <2>3, <2>6, <3>2, Zenon
    <3> QED
      BY <3>2, <3>3
  <2>7. {p \in PlanFiles(cs) : c \in Range(p.cases)} = {PlanOf(PathOf(c), k)}
    BY <2>4, <2>5, <2>6
  <2> QED
    BY <2>7, FS_Singleton, Zenon
<1> QED
  BY <1>4, <1>6, <1>7
-----------------------------------------------------------------------------
(* The inductive invariant: what each phase has, as a function of what the     *)
(* phase before it had.                                                       *)
Sound(cs) == Only(cs, {i \in DOMAIN cs : Valid(cs[i])})

Phases == {"asked", "parsed", "normalized", "stored", "loaded", "selected", "planned",
           "generated", "failed"}

CasesInv ==
    /\ cases \in Seq(Range(cases))
    /\ \A n \in DOMAIN cases :
          cases[n].id = n /\ cases[n].priority \in 0..3 /\ cases[n].covers \subseteq Items
    /\ phase \in {"asked", "parsed"} => cases = <<>>

\* The raw objects of the cases, until the selection.
RawsInv ==
    phase \in {"normalized", "stored", "loaded", "failed"} /\ cases # <<>> =>
        \/ raws = <<>>
        \/ /\ DOMAIN raws = DOMAIN cases
           /\ \A n \in DOMAIN raws : IsRaw(raws[n]) /\ cases[n] = NormalizeTestCase(raws[n], n)

ReportInv ==
    /\ report \in [covered : SUBSET Items, p0 : BOOLEAN]
    /\ phase \in {"stored", "loaded", "selected", "planned", "generated"} => report = Report(cases)

SourceInv ==
    /\ phase \in {"asked", "parsed", "normalized", "stored"} => source = <<>>
    /\ phase \in {"loaded", "selected", "planned", "generated"} => source = Sound(cases)
    /\ phase = "failed" => (source = <<>> /\ cases = <<>>) \/ source = Sound(cases)

SelectedInv ==
    IF phase \in {"selected", "planned", "generated"}
    THEN include.limit \in Nat /\ selected = FilterCases(source, include)
    ELSE selected = <<>>

PlansInv ==
    /\ plans = IF phase \in {"planned", "generated"} THEN PlanFiles(selected) ELSE {}
    /\ phase # "generated" => files = <<>>
    /\ \A path \in DOMAIN files : [path |-> path, cases |-> files[path]] \in plans

Inv == phase \in Phases /\ CasesInv /\ RawsInv /\ ReportInv /\ SourceInv /\ SelectedInv /\ PlansInv

-----------------------------------------------------------------------------
(* The ids of a job's cases tell them apart.                                  *)
LEMMA Numbered ==
  ASSUME NEW cs, cs \in Seq(Range(cs)),
         \A n \in DOMAIN cs : cs[n].id = n /\ cs[n].priority \in 0..3,
         NEW S \in SUBSET Range(cs)
  PROVE  /\ Ranked(S)
         /\ \A i, j \in DOMAIN cs : cs[i] = cs[j] => i = j
<1>1. DOMAIN cs = 1..Len(cs) /\ Len(cs) \in Nat
  BY LenProperties
<1>2. \A c \in S : \E n \in 1..Len(cs) : c = cs[n] /\ c.id = n /\ c.priority \in 0..3
  BY <1>1 DEF Range
<1>3. IsFiniteSet(S)
  <2> DEFINE f == [c \in S |-> c.id]
  <2>1. f \in [S -> 1..Len(cs)] /\ \A a, b \in S : f[a] = f[b] => a = b
    BY <1>2
  <2>2. PICK T : T = 1..Len(cs) /\ IsFiniteSet(T)
    BY <1>1, FS_Interval
  <2> HIDE DEF f
  <2> QED
    BY <2>1, <2>2, NoMore
<1>4. \A c \in S : c.id \in Int /\ c.priority \in Int
  BY <1>1, <1>2
<1>5. \A c, d \in S : c.id = d.id => c = d
  BY <1>2
<1>6. \A i, j \in DOMAIN cs : cs[i] = cs[j] => i = j
  OBVIOUS
<1> QED
  BY <1>3, <1>4, <1>5, <1>6 DEF Ranked

(* The sound cases are the valid ones of a job.                               *)
LEMMA SoundOnes ==
  ASSUME NEW cs, cs \in Seq(Range(cs)),
         \A n \in DOMAIN cs : cs[n].id = n /\ cs[n].priority \in 0..3
  PROVE  /\ Sound(cs) \in Seq(Range(cs))
         /\ \A c : c \in Range(Sound(cs)) <=> c \in Range(cs) /\ Valid(c)
         /\ Ranked(Range(Sound(cs)))
<1> DEFINE S == {i \in DOMAIN cs : Valid(cs[i])}
<1>1. Sound(cs) = Only(cs, S) /\ S \in SUBSET (DOMAIN cs)
  BY DEF Sound
<1>2. \A i : i \in S <=> i \in DOMAIN cs /\ Valid(cs[i])
  OBVIOUS
<1> HIDE DEF S
<1>3. Only(cs, S) \in Seq(Range(cs)) /\ Range(Only(cs, S)) = {cs[i] : i \in S}
  <2>1. PICK T : T = Range(cs) /\ cs \in Seq(T)
    OBVIOUS
  <2>2. Only(cs, S) \in Seq(T)
    BY <1>1, <2>1, OnlySome
  <2>3. Range(Only(cs, S)) = {cs[i] : i \in S}
    BY <1>1, <2>1, OnlyThose
  <2> QED
    BY <2>1, <2>2, <2>3
<1>4. \A c : c \in Range(cs) <=> \E i \in DOMAIN cs : c = cs[i]
  BY DEF Range
<1>5. \A c : c \in Range(Sound(cs)) <=> c \in Range(cs) /\ Valid(c)
  BY <1>1, <1>2, <1>3, <1>4
<1>6. PICK R \in SUBSET Range(cs) : R = Range(Sound(cs))
  BY <1>5
<1>7. Ranked(R)
  BY Numbered
<1> QED
  BY <1>1, <1>3, <1>5, <1>6, <1>7

(* What the invariant says of a job's cases, those loaded and those selected.  *)
LEMMA Selection ==
  ASSUME Inv
  PROVE  /\ source \in Seq(Range(cases)) /\ Range(source) \subseteq Range(cases)
         /\ Ranked(Range(source))
         /\ selected \in Seq(Range(source)) /\ Range(selected) \subseteq Range(source)
         /\ \A j, k \in DOMAIN selected : selected[j] = selected[k] => j = k
<1>1. /\ cases \in Seq(Range(cases))
      /\ \A n \in DOMAIN cases : cases[n].id = n /\ cases[n].priority \in 0..3
  BY DEF Inv, CasesInv
<1>2. source = <<>> \/ source = Sound(cases)
  BY DEF Inv, SourceInv, Phases
<1>3. source \in Seq(Range(cases)) /\ Range(source) \subseteq Range(cases) /\ Ranked(Range(source))
  <2>1. CASE source = <<>>
    <3>1. Range(source) = {} /\ source \in Seq(Range(cases))
      BY <2>1 DEF Range
    <3> QED
      BY <3>1, FS_EmptySet DEF Ranked
  <2>2. CASE source = Sound(cases)
    BY <1>1, <2>2, SoundOnes
  <2> QED
    BY <1>2, <2>1, <2>2
<1>4. selected = <<>> \/ (include.limit \in Nat /\ selected = FilterCases(source, include))
  BY DEF Inv, SelectedInv
<1>5. CASE selected = <<>>
  <2>1. DOMAIN selected = {} /\ Range(selected) = {} /\ selected \in Seq(Range(source))
    BY <1>5 DEF Range
  <2> QED
    BY <1>3, <2>1
<1>6. CASE include.limit \in Nat /\ selected = FilterCases(source, include)
  BY <1>3, <1>6, Filtered
<1> QED
  BY <1>4, <1>5, <1>6

-----------------------------------------------------------------------------
(* What the normalisation makes of an object: a case with its number, a        *)
(* priority, and items of the unit only.                                      *)
LEMMA Normal ==
  ASSUME NEW raw, IsRaw(raw), NEW n, NEW c, c = NormalizeTestCase(raw, n)
  PROVE  c.id = n /\ c.priority \in 0..3 /\ c.covers \subseteq Items
<1>1. c.id = n /\ c.priority = Priority(raw.priority) /\ c.covers = Covers(raw)
  BY DEF NormalizeTestCase
<1>2. PICK digits : digits = raw.priority
  OBVIOUS
<1>3. digits \in Seq(Range(digits)) /\ Range(digits) \subseteq 0..9
  BY <1>2 DEF IsRaw
<1>4. Priority(digits) \in 0..3
  <2> DEFINE small == {i \in DOMAIN digits : digits[i] <= 3}
  <2>1. small \in SUBSET Nat
    <3>1. DOMAIN digits = 1..Len(digits) /\ Len(digits) \in Nat
      BY <1>3, LenProperties
    <3> QED
      BY <3>1
  <2>2. \A i \in small : digits[i] \in 0..3
    <3>1. \A i \in DOMAIN digits : digits[i] \in 0..9
      BY <1>3, Zenon DEF Range
    <3> QED
      BY <3>1
  <2>3. Priority(digits) = IF small = {} THEN 2 ELSE digits[Min(small)]
    BY DEF Priority
  <2> HIDE DEF small
  <2>4. small # {} => Min(small) \in small
    <3>1. small # {} => \E x \in small : \A y \in small : x <= y
      BY <2>1, Least
    <3> QED
      BY <3>1, Zenon DEF Min
  <2> QED
    BY <2>2, <2>3, <2>4
<1>5. Covers(raw) \subseteq Items
  BY DEF Covers
<1> QED
  BY <1>1, <1>2, <1>4, <1>5

(* The report is a report, whatever the cases are.                            *)
LEMMA ReportType == ASSUME NEW cs PROVE Report(cs) \in [covered : SUBSET Items, p0 : BOOLEAN]
<1> DEFINE covered == {i \in Items : \E c \in Range(cs) : i \in c.covers}
           p0 == \A i \in Items : PriorityOf[i] = 0 => i \in covered
<1>1. Report(cs) = [covered |-> covered, p0 |-> p0]
  BY Zenon DEF Report
<1>2. covered \in SUBSET Items
  OBVIOUS
<1>3. p0 \in BOOLEAN
  BY Zenon
<1> HIDE DEF covered, p0
<1> QED
  BY <1>1, <1>2, <1>3

-----------------------------------------------------------------------------
(* The invariant holds at first.                                              *)
LEMMA Start == Init => Inv
<1> SUFFICES ASSUME Init PROVE Inv
  OBVIOUS
<1> USE DEF Init
<1>1. phase \in Phases
  BY DEF Phases
<1>2. CasesInv
  BY DEF CasesInv
<1>3. RawsInv /\ SourceInv /\ SelectedInv
  BY DEF RawsInv, SourceInv, SelectedInv
<1>4. ReportInv
  BY DEF ReportInv, NoReport
<1>5. PlansInv
  BY DEF PlansInv
<1> QED
  BY <1>1, <1>2, <1>3, <1>4, <1>5 DEF Inv

(* Nothing else than the phase changes when an answer is parsed.              *)
LEMMA ParseStep == Inv /\ Parse => Inv'
<1> SUFFICES ASSUME Inv, Parse PROVE Inv'
  OBVIOUS
<1>1. /\ phase = "asked" /\ phase' \in {"parsed", "failed"}
      /\ UNCHANGED <<raws, cases, report, source, include, selected, plans, files>>
  BY Zenon DEF Parse, Goes
<1> USE <1>1 DEF Inv
<1>2. phase' \in Phases
  BY DEF Phases
<1>3. CasesInv'
  BY DEF CasesInv
<1>4. RawsInv' /\ SourceInv' /\ SelectedInv'
  BY DEF RawsInv, SourceInv, SelectedInv, CasesInv
<1>5. ReportInv'
  BY DEF ReportInv
<1>6. PlansInv'
  BY DEF PlansInv
<1> QED
  BY <1>2, <1>3, <1>4, <1>5, <1>6

(* The cases of a batch are numbered, and are what its objects were made into. *)
LEMMA NormalizeStep == Inv /\ Normalize => Inv'
<1> SUFFICES ASSUME Inv, Normalize PROVE Inv'
  OBVIOUS
<1>1. /\ phase = "parsed" /\ phase' \in {"normalized", "failed"} /\ raws' \in Raws
      /\ cases' # <<>> => cases' = [n \in DOMAIN raws' |-> NormalizeTestCase(raws'[n], n)]
      /\ phase' = "failed" => cases' = <<>>
      /\ UNCHANGED <<report, source, include, selected, plans, files>>
  BY Zenon DEF Normalize, Goes
<1>2. /\ DOMAIN raws' = 1..Len(raws') /\ Len(raws') \in Nat
      /\ \A n \in DOMAIN raws' : IsRaw(raws'[n])
  <2>1. raws' \in Seq(Range(raws')) /\ \A raw \in Range(raws') : IsRaw(raw)
    BY <1>1, CaseFlowConstants
  <2>2. PICK T : raws' \in Seq(T)
    BY <2>1
  <2> QED
    BY <2>1, <2>2, LenProperties DEF Range
<1>3. /\ cases' \in Seq(Range(cases'))
      /\ cases' # <<>> => DOMAIN raws' = DOMAIN cases'
                          /\ \A n \in DOMAIN cases' : cases'[n] = NormalizeTestCase(raws'[n], n)
  <2> DEFINE made == [n \in DOMAIN raws' |-> NormalizeTestCase(raws'[n], n)]
  <2>1. DOMAIN made = DOMAIN raws' /\ \A n \in DOMAIN raws' : made[n] = NormalizeTestCase(raws'[n], n)
    OBVIOUS
  <2>2. made = [n \in DOMAIN raws' |-> made[n]]
    OBVIOUS
  <2>3. cases' = <<>> \/ cases' = made
    BY <1>1
  <2> HIDE DEF made
  <2>4. made \in Seq(Range(made))
    <3>1. made \in [1..Len(raws') -> Range(made)]
      BY <1>2, <2>1, <2>2 DEF Range
    <3> QED
      BY <1>2, <3>1
  <2>5. CASE cases' = <<>>
    BY <2>5
  <2>6. CASE cases' = made
    <3>1. \A n \in DOMAIN raws' : cases'[n] = NormalizeTestCase(raws'[n], n)
      BY <2>1, <2>6, Zenon
    <3>2. DOMAIN cases' = DOMAIN raws' /\ cases' \in Seq(Range(cases'))
      BY <2>1, <2>4, <2>6, Zenon
    <3> QED
      BY <3>1, <3>2, Zenon
  <2> QED
    BY <2>3, <2>5, <2>6
<1>4. \A n \in DOMAIN cases' :
         cases'[n].id = n /\ cases'[n].priority \in 0..3 /\ cases'[n].covers \subseteq Items
  <2> SUFFICES ASSUME NEW n \in DOMAIN cases'
               PROVE  cases'[n].id = n /\ cases'[n].priority \in 0..3 /\ cases'[n].covers \subseteq Items
    OBVIOUS
  <2>1. cases' # <<>>
    OBVIOUS
  <2>2. PICK raw, c : raw = raws'[n] /\ c = cases'[n]
    OBVIOUS
  <2>3. IsRaw(raw) /\ c = NormalizeTestCase(raw, n)
    BY <1>2, <1>3, <2>1, <2>2
  <2> QED
    BY <2>2, <2>3, Normal
<1>5. phase' \in Phases
  BY <1>1 DEF Phases
<1>6. CasesInv'
  BY <1>1, <1>3, <1>4 DEF CasesInv
<1>7. RawsInv'
  BY <1>1, <1>2, <1>3 DEF RawsInv
<1>8. SourceInv' /\ SelectedInv'
  BY <1>1 DEF Inv, SourceInv, SelectedInv
<1>9. ReportInv'
  BY <1>1 DEF Inv, ReportInv
<1>10. PlansInv'
  BY <1>1 DEF Inv, PlansInv
<1> QED
  BY <1>5, <1>6, <1>7, <1>8, <1>9, <1>10 DEF Inv

(* Finish writes the report of the cases that it stores.                      *)
LEMMA FinishStep == Inv /\ Finish => Inv'
<1> SUFFICES ASSUME Inv, Finish PROVE Inv'
  OBVIOUS
<1>1. /\ phase = "normalized" /\ phase' = "stored" /\ report' = Report(cases)
      /\ UNCHANGED <<raws, cases, source, include, selected, plans, files>>
  BY DEF Finish
<1>2. ReportInv'
  <2>1. Report(cases) \in [covered : SUBSET Items, p0 : BOOLEAN] /\ cases' = cases
    BY <1>1, ReportType
  <2> QED
    BY <1>1, <2>1, Zenon DEF ReportInv
<1>3. phase' \in Phases
  BY <1>1 DEF Phases
<1>4. CasesInv' /\ RawsInv' /\ SourceInv' /\ SelectedInv' /\ PlansInv'
  BY <1>1 DEF Inv, CasesInv, RawsInv, SourceInv, SelectedInv, PlansInv
<1> QED
  BY <1>2, <1>3, <1>4 DEF Inv

(* Load takes the sound cases, or the job fails without any.                  *)
LEMMA LoadStep == Inv /\ Load => Inv'
<1> SUFFICES ASSUME Inv, Load PROVE Inv'
  OBVIOUS
<1>1. /\ phase = "stored" /\ phase' \in {"loaded", "failed"} /\ source' = Sound(cases)
      /\ UNCHANGED <<raws, cases, report, include, selected, plans, files>>
  BY Zenon DEF Load, Goes, Sound
<1>2. SourceInv'
  <2>1. Sound(cases)' = Sound(cases)
    BY <1>1, Zenon
  <2> QED
    BY <1>1, <2>1 DEF SourceInv
<1>3. ReportInv'
  <2>1. Report(cases)' = Report(cases)
    BY <1>1, Zenon
  <2> QED
    BY <1>1, <2>1 DEF Inv, ReportInv
<1>4. phase' \in Phases
  BY <1>1 DEF Phases
<1>5. CasesInv' /\ RawsInv' /\ SelectedInv' /\ PlansInv'
  BY <1>1 DEF Inv, CasesInv, RawsInv, SelectedInv, PlansInv
<1> QED
  BY <1>2, <1>3, <1>4, <1>5 DEF Inv

(* Select keeps what filterCases returns, or the job fails without any.        *)
LEMMA SelectStep == Inv /\ Select => Inv'
<1> SUFFICES ASSUME Inv, Select PROVE Inv'
  OBVIOUS
<1>1. /\ phase = "loaded" /\ phase' \in {"selected", "failed"} /\ raws' = <<>>
      /\ selected' = FilterCases(source, include')
      /\ phase' = "failed" => selected' = <<>>
      /\ UNCHANGED <<cases, report, source, plans, files>>
  BY Zenon DEF Select, Goes
<1>2. include'.limit \in Nat
  <2>1. \E suites, priorities : \E limit \in Limits :
            include' = [suites |-> suites, priorities |-> priorities, limit |-> limit]
    BY Zenon DEF Select
  <2> QED
    BY <2>1, CaseFlowConstants
<1>3. SelectedInv'
  <2>1. FilterCases(source, include)' = FilterCases(source, include')
    BY <1>1, Zenon
  <2> QED
    BY <1>1, <1>2, <2>1 DEF SelectedInv
<1>4. ReportInv'
  <2>1. Report(cases)' = Report(cases)
    BY <1>1, Zenon
  <2> QED
    BY <1>1, <2>1 DEF Inv, ReportInv
<1>5. SourceInv'
  <2>1. Sound(cases)' = Sound(cases)
    BY <1>1, Zenon
  <2> QED
    BY <1>1, <2>1 DEF Inv, SourceInv
<1>6. phase' \in Phases
  BY <1>1 DEF Phases
<1>7. CasesInv' /\ RawsInv' /\ PlansInv'
  BY <1>1 DEF Inv, CasesInv, RawsInv, PlansInv
<1> QED
  BY <1>3, <1>4, <1>5, <1>6, <1>7 DEF Inv

(* Plan plans the files of what is selected.                                  *)
LEMMA PlanStep == Inv /\ Plan => Inv'
<1> SUFFICES ASSUME Inv, Plan PROVE Inv'
  OBVIOUS
<1>1. /\ phase = "selected" /\ phase' = "planned" /\ plans' = PlanFiles(selected)
      /\ UNCHANGED <<raws, cases, report, source, include, selected, files>>
  BY DEF Plan
<1>2. /\ FilterCases(source, include)' = FilterCases(source, include)
      /\ Report(cases)' = Report(cases) /\ Sound(cases)' = Sound(cases)
      /\ PlanFiles(selected)' = PlanFiles(selected)
  BY <1>1, Zenon
<1>3. SelectedInv' /\ ReportInv' /\ SourceInv'
  BY <1>1, <1>2 DEF Inv, SelectedInv, ReportInv, SourceInv
<1>4. PlansInv'
  BY <1>1, <1>2 DEF Inv, PlansInv
<1>5. phase' \in Phases /\ CasesInv' /\ RawsInv'
  BY <1>1 DEF Inv, Phases, CasesInv, RawsInv
<1> QED
  BY <1>3, <1>4, <1>5 DEF Inv

(* Each generated file holds the cases of a plan of its path.                 *)
LEMMA GenerateStep == Inv /\ Generate => Inv'
<1> SUFFICES ASSUME Inv, Generate PROVE Inv'
  OBVIOUS
<1>1. /\ phase = "planned" /\ phase' = "generated"
      /\ UNCHANGED <<raws, cases, report, source, include, selected, plans>>
  BY DEF Generate
<1>2. \A path \in DOMAIN files' : [path |-> path, cases |-> files'[path]] \in plans'
  <2>1. PICK done \in (SUBSET plans) \ {{}} :
            files' \in {f \in [{p.path : p \in done} -> {p.cases : p \in done}] :
                            \A path \in DOMAIN f : [path |-> path, cases |-> f[path]] \in done}
    BY Zenon DEF Generate
  <2>2. \A path \in DOMAIN files' : [path |-> path, cases |-> files'[path]] \in done
    BY <2>1, Zenon
  <2> QED
    BY <1>1, <2>1, <2>2
<1>3. /\ FilterCases(source, include)' = FilterCases(source, include)
      /\ Report(cases)' = Report(cases) /\ Sound(cases)' = Sound(cases)
      /\ PlanFiles(selected)' = PlanFiles(selected)
  BY <1>1, Zenon
<1>4. SelectedInv' /\ ReportInv' /\ SourceInv'
  BY <1>1, <1>3 DEF Inv, SelectedInv, ReportInv, SourceInv
<1>5. PlansInv'
  BY <1>1, <1>2, <1>3 DEF Inv, PlansInv
<1>6. phase' \in Phases /\ CasesInv' /\ RawsInv'
  BY <1>1 DEF Inv, Phases, CasesInv, RawsInv
<1> QED
  BY <1>4, <1>5, <1>6 DEF Inv

(* The invariant, of every state.                                             *)
THEOREM Invariance == Spec => []Inv
<1>1. Inv /\ [Next]_vars => Inv'
  <2> SUFFICES ASSUME Inv, [Next]_vars PROVE Inv'
    OBVIOUS
  <2>1. CASE UNCHANGED vars
    BY <2>1 DEF vars, Inv, Phases, CasesInv, RawsInv, ReportInv, SourceInv, SelectedInv, PlansInv
  <2>2. CASE Rest
    BY <2>1, <2>2 DEF Rest
  <2> QED
    BY <2>1, <2>2, ParseStep, NormalizeStep, FinishStep, LoadStep, SelectStep, PlanStep,
       GenerateStep DEF Next
<1> QED
  BY Start, <1>1, PTL DEF Spec

-----------------------------------------------------------------------------
(* The types follow from the invariant.                                       *)
LEMMA Types == Inv => TypeOK
<1> SUFFICES ASSUME Inv PROVE TypeOK
  OBVIOUS
<1>1. phase \in Phases
  BY DEF Inv
<1>2. \A c \in Range(cases) : c.covers \subseteq Items /\ c.priority \in 0..3
  BY DEF Inv, CasesInv, Range
<1>3. report \in [covered : SUBSET Items, p0 : BOOLEAN]
  BY DEF Inv, ReportInv
<1>4. /\ Range(source) \subseteq Range(cases) /\ Range(selected) \subseteq Range(source)
      /\ selected \in Seq(Range(source))
      /\ \A j, k \in DOMAIN selected : selected[j] = selected[k] => j = k
  BY Selection
<1>5. \A p \in plans : Len(p.cases) \in 1..MaxPerFile
  <2>1. plans = {} \/ plans = PlanFiles(selected)
    BY DEF Inv, PlansInv
  <2>2. \A p \in PlanFiles(selected) : Len(p.cases) \in 1..MaxPerFile
    BY <1>4, Planned
  <2> QED
    BY <2>1, <2>2
<1>6. DOMAIN files \subseteq {p.path : p \in plans}
  <2>1. \A path \in DOMAIN files : [path |-> path, cases |-> files[path]] \in plans
    BY DEF Inv, PlansInv
  <2>2. \A path : [path |-> path, cases |-> files[path]].path = path
    OBVIOUS
  <2> QED
    BY <2>1, <2>2
<1> QED
  BY <1>1, <1>2, <1>3, <1>4, <1>5, <1>6 DEF TypeOK, Phases

(* Every state is of its type; in particular a case claims only items of its   *)
(* unit (normalize.ts: the ids of other units are dropped), nothing is loaded,  *)
(* selected or generated that was not stored, loaded or planned, and no file    *)
(* has more cases than options.maxCasesPerFile (planner.ts).                   *)
THEOREM Typing == Spec => []TypeOK
  BY Invariance, Types, PTL

(* So does what the plans have of the selected cases.                         *)
LEMMA Suite == Inv => SuiteHasTheSelected
<1> SUFFICES ASSUME Inv, phase = "planned"
    PROVE  /\ \A c \in Range(selected) : Cardinality({p \in plans : c \in Range(p.cases)}) = 1
           /\ \A c \in Range(source) : Chosen(c, include) /\ c \notin Range(selected) =>
                 /\ include.limit = Len(selected)
                 /\ \A d \in Range(selected) : d.priority <= c.priority
  BY DEF SuiteHasTheSelected
<1>1. /\ Ranked(Range(source)) /\ selected \in Seq(Range(source))
      /\ \A j, k \in DOMAIN selected : selected[j] = selected[k] => j = k
  BY Selection
<1>2. include.limit \in Nat /\ selected = FilterCases(source, include)
  BY DEF Inv, SelectedInv
<1>3. plans = PlanFiles(selected)
  BY DEF Inv, PlansInv
<1>4. \A c \in Range(selected) : Cardinality({p \in plans : c \in Range(p.cases)}) = 1
  <2>1. \A c \in Range(selected) :
           Cardinality({p \in PlanFiles(selected) : c \in Range(p.cases)}) = 1
    BY <1>1, Planned
  <2> QED
    BY <1>3, <2>1
<1>5. \A c \in Range(source) : Chosen(c, include) /\ c \notin Range(selected) =>
         /\ include.limit = Len(selected)
         /\ \A d \in Range(selected) : d.priority <= c.priority
  BY <1>1, <1>2, Filtered
<1> QED
  BY <1>4, <1>5

(* The suite has what was selected (planner.ts:30-87): each selected case is in *)
(* exactly one plan, and the limit leaves out no case that is more severe than  *)
(* one it keeps.                                                               *)
THEOREM SelectedAreInTheSuite == Spec => []SuiteHasTheSelected
  BY Invariance, Suite, PTL

(* As many paths as plans mean that each plan has a path of its own, and so a  *)
(* file with all its cases.                                                   *)
LEMMA Coverage == Inv => CoverageReachesTheSuite
<1> SUFFICES ASSUME Inv, phase = "generated", include = Anything, source = cases,
                    Cardinality(DOMAIN files) = Cardinality(plans), NEW i \in report.covered
    PROVE  \E path \in DOMAIN files : \E c \in Range(files[path]) : i \in c.covers
  BY Zenon DEF CoverageReachesTheSuite
<1>1. /\ Ranked(Range(source)) /\ selected \in Seq(Range(source))
      /\ \A j, k \in DOMAIN selected : selected[j] = selected[k] => j = k
  BY Selection
<1>2. PICK c \in Range(cases) : i \in c.covers
  <2>1. report = Report(cases)
    BY DEF Inv, ReportInv
  <2>2. report.covered = {item \in Items : \E c \in Range(cases) : item \in c.covers}
    BY <2>1 DEF Report
  <2> QED
    BY <2>2
<1>3. c \in Range(selected)
  <2>1. include.limit \in Nat /\ selected = FilterCases(source, include)
    BY DEF Inv, SelectedInv
  <2>2. Chosen(c, include) /\ include.limit = 0
    BY DEF Anything, Chosen
  <2>3. c \in Range(source)
    BY <1>2
  <2>4. ~(include.limit > 0)
    BY <2>2
  <2> QED
    BY <1>1, <2>1, <2>2, <2>3, <2>4, Filtered
<1>4. /\ plans = PlanFiles(selected) /\ IsFiniteSet(plans)
      /\ \A path \in DOMAIN files : [path |-> path, cases |-> files[path]] \in plans
  <2>1. plans = PlanFiles(selected)
    BY DEF Inv, PlansInv
  <2>2. IsFiniteSet(PlanFiles(selected))
    BY <1>1, Planned
  <2> QED
    BY <2>1, <2>2 DEF Inv, PlansInv
<1>5. PICK p \in plans : c \in Range(p.cases)
  <2>1. Cardinality({p \in PlanFiles(selected) : c \in Range(p.cases)}) = 1
    BY <1>1, <1>3, Planned
  <2>2. {p \in PlanFiles(selected) : c \in Range(p.cases)} # {}
    <3>1. PICK Q : Q = {p \in PlanFiles(selected) : c \in Range(p.cases)}
      OBVIOUS
    <3>2. Cardinality(Q) = 1 /\ Cardinality({}) = 0
      BY <2>1, <3>1, FS_EmptySet, Zenon
    <3>3. Q # {}
      BY <3>2
    <3> QED
      BY <3>1, <3>3
  <2> QED
    BY <1>4, <2>2
<1>6. PICK path \in DOMAIN files : [path |-> path, cases |-> files[path]] = p
  <2> DEFINE f == [path \in DOMAIN files |-> [path |-> path, cases |-> files[path]]]
  <2>1. f \in [DOMAIN files -> plans]
    BY <1>4
  <2>2. \A a, b \in DOMAIN files : f[a] = f[b] => a = b
    <3> SUFFICES ASSUME NEW a \in DOMAIN files, NEW b \in DOMAIN files, f[a] = f[b] PROVE a = b
      OBVIOUS
    <3>1. f[a].path = a /\ f[b].path = b
      OBVIOUS
    <3> QED
      BY <3>1
  <2>3. PICK D : D = DOMAIN files
    OBVIOUS
  <2> HIDE DEF f
  <2>4. f \in Injection(D, plans)
    BY <2>1, <2>2, <2>3, Fun_IsInj
  <2>5. IsFiniteSet(D)
    BY <1>4, <2>4, FS_Injection
  <2>6. f \in Surjection(D, plans)
    BY <1>4, <2>3, <2>4, <2>5, FS_Injection
  <2>7. PICK path \in D : f[path] = p
    BY <2>6 DEF Surjection
  <2> QED
    BY <2>3, <2>7 DEF f
<1>7. files[path] = p.cases
  <2>1. p.cases = [path |-> path, cases |-> files[path]].cases
    BY <1>6, Zenon
  <2> QED
    BY <2>1
<1> QED
  BY <1>2, <1>5, <1>6, <1>7

(* What the coverage report calls covered (report.ts:18) is in the end tested,  *)
(* when everything was selected, valid and generated and no file overwrote      *)
(* another.                                                                    *)
THEOREM CoveredItemsAreTested == Spec => []CoverageReachesTheSuite
  BY Invariance, Coverage, PTL

-----------------------------------------------------------------------------
(* What is readable is neither empty nor blank, and trim() leaves it alone.    *)
LEMMA Readable ==
  /\ \A t \in Words : t # "empty" /\ Trim(t) = t /\ Slug(t) = t
  /\ \A t \in Words \cup {"empty"}, other \in Words : Or(t, other) \in Words
  /\ \A t : Trim(t) # "empty" => t # "empty" /\ t # "blank"
<1>1. {"empty", "blank", "mark"} \cap Words = {}
  BY CaseFlowConstants
<1>2. \A t \in Words : t # "empty" /\ t # "blank"
  BY <1>1
<1> QED
  BY <1>2 DEF Trim, Slug, Or

(* The texts of an obedient case, and the fields that its schema wants filled. *)
LEMMA ObedientTexts ==
  ASSUME NEW raw, Obedient(raw), NEW n, NEW c, c = NormalizeTestCase(raw, n)
  PROVE  /\ "empty" \notin {c.title, c.description, c.suite, c.describe, c.testTitle} \cup c.tags
         /\ c.file # <<"empty">>
<1>0. /\ c.suite = Or(Trim(raw.suite), UnitSuite) /\ c.describe = raw.describe
      /\ c.title = Trim(raw.title) /\ c.description = Trim(Or(raw.description, raw.title))
      /\ c.testTitle = raw.testTitle /\ c.tags = Tags(raw)
      /\ c.file = IF raw.file = <<"absent">> THEN <<"tests", "e2e", UnitSuite>> ELSE raw.file
  BY DEF NormalizeTestCase
<1>1. /\ raw.title \in Words /\ raw.edge \in Words
      /\ raw.describe \in Words /\ raw.testTitle \in Words
      /\ raw.description \in Words \cup {"empty"} /\ raw.suite \in Words \cup {"empty"}
      /\ raw.file # <<"empty">>
  BY DEF Obedient
<1>2. UnitSuite \in Words
  BY CaseFlowConstants
<1>3. /\ c.title # "empty" /\ c.description # "empty" /\ c.suite # "empty"
      /\ c.describe # "empty" /\ c.testTitle # "empty"
  <2>1. Or(raw.description, raw.title) \in Words
    BY <1>1, Readable, Zenon
  <2>2. Trim(raw.suite) \in Words \cup {"empty"}
    BY <1>1, Readable DEF Trim
  <2>3. Or(Trim(raw.suite), UnitSuite) \in Words
    BY <1>2, <2>2, Readable, Zenon
  <2> QED
    BY <1>0, <1>1, <2>1, <2>3, Readable
<1>4. "empty" \notin Tags(raw)
  <2> DEFINE clean == raw.tags \cap Words
             derived == {Or(raw.suite, UnitSuite), raw.edge} \ {"empty"}
  <2>1. Tags(raw) = IF clean # {} THEN clean ELSE {Slug(t) : t \in derived}
    BY DEF Tags
  <2>2. "empty" \notin clean
    BY Readable
  <2>3. derived \subseteq Words
    <3>1. Or(raw.suite, UnitSuite) \in Words
      BY <1>1, <1>2, Readable, Zenon
    <3> QED
      BY <1>1, <3>1
  <2>4. \A t \in derived : Slug(t) # "empty"
    BY <2>3, Readable
  <2> HIDE DEF clean, derived
  <2> QED
    BY <2>1, <2>2, <2>4
<1>5. c.file # <<"empty">>
  <2>1. <<"tests", "e2e", UnitSuite>> # <<"empty">>
    OBVIOUS
  <2> QED
    BY <1>0, <1>1, <2>1
<1> QED
  BY <1>0, <1>3, <1>4, <1>5

(* Its steps: at least one, no more than the schema allows, each says something. *)
LEMMA ObedientSteps ==
  ASSUME NEW raw, IsRaw(raw), Obedient(raw), NEW s, s = Steps(raw)
  PROVE  Len(s) \in 1..MaxSteps /\ \A step \in Range(s) : step.index > 0 /\ step.action # "empty"
<1> DEFINE said == raw.steps
           S == {i \in DOMAIN said : "empty" \notin {Trim(said[i].action), Trim(said[i].result)}}
           u == Usable(said)
<1>1. said \in Seq(Range(said)) /\ Len(said) <= MaxAsked /\ raw.title \in Words
  BY DEF IsRaw, Obedient
<1>2. /\ MaxSteps \in Nat /\ MaxSteps > 0 /\ MaxAsked \in Nat /\ MaxAsked <= MaxSteps
  BY CaseFlowConstants
<1>3. u = Only(said, S) /\ S \in SUBSET (DOMAIN said)
  BY DEF Usable
<1>4. \A i \in S : Trim(said[i].action) # "empty"
  OBVIOUS
<1>5. s = IF u = <<>> THEN <<[index |-> 1, action |-> Trim(raw.title)]>>
          ELSE [i \in DOMAIN u |-> [index |-> i, action |-> Trim(u[i].action)]]
  BY DEF Steps
<1> HIDE DEF said, S, u
<1>6. PICK T : said \in Seq(T)
  BY <1>1
<1>7. /\ Cardinality(S) \in Nat /\ DOMAIN u = 1..Cardinality(S)
      /\ Range(u) = {said[i] : i \in S} /\ u \in Seq(T)
  <2>1. Only(said, S) \in Seq(T)
    BY <1>3, <1>6, OnlySome
  <2>2. /\ Cardinality(S) \in Nat /\ DOMAIN Only(said, S) = 1..Cardinality(S)
        /\ Range(Only(said, S)) = {said[i] : i \in S}
    BY <1>3, <1>6, OnlyThose
  <2> QED
    BY <1>3, <2>1, <2>2
<1>8. Cardinality(S) <= MaxSteps
  <2>1. DOMAIN said = 1..Len(said) /\ Len(said) \in Nat
    BY <1>6, LenProperties
  <2>2. PICK l \in Nat : l = Len(said)
    BY <2>1
  <2>3. PICK D : D = 1..l
    OBVIOUS
  <2>4. IsFiniteSet(D) /\ Cardinality(D) = l
    BY <2>3, FS_Interval
  <2>5. Cardinality(S) <= Cardinality(D)
    BY <1>3, <2>1, <2>2, <2>3, <2>4, FS_Subset
  <2> QED
    BY <1>1, <1>2, <1>7, <2>2, <2>4, <2>5
<1>9. CASE u = <<>>
  <2>1. s = <<[index |-> 1, action |-> Trim(raw.title)]>>
    BY <1>5, <1>9
  <2>2. Len(s) = 1 /\ \A step \in Range(s) : step = [index |-> 1, action |-> Trim(raw.title)]
    BY <2>1 DEF Range
  <2>3. Trim(raw.title) # "empty"
    BY <1>1, Readable
  <2> QED
    BY <1>2, <2>2, <2>3
<1>10. CASE u # <<>>
  <2>1. s = [i \in DOMAIN u |-> [index |-> i, action |-> Trim(u[i].action)]]
    BY <1>5, <1>10
  <2>2. Cardinality(S) > 0
    <3>1. Cardinality(S) # 0
      <4>1. Len(u) = Cardinality(S)
        BY <1>7
      <4> QED
        BY <1>7, <1>10, <4>1, EmptySeq
    <3> QED
      BY <1>7, <3>1
  <2>3. Len(s) = Cardinality(S) /\ DOMAIN s = 1..Cardinality(S)
    BY <1>7, <2>1
  <2>4. ASSUME NEW step \in Range(s) PROVE step.index > 0 /\ step.action # "empty"
    <3>1. PICK i \in 1..Cardinality(S) : step = [index |-> i, action |-> Trim(u[i].action)]
      BY <1>7, <2>1, <2>3 DEF Range
    <3>2. u[i] \in Range(u)
      BY <1>7 DEF Range
    <3>3. Trim(u[i].action) # "empty"
      BY <1>4, <1>7, <3>2
    <3> QED
      BY <3>1, <3>3
  <2> QED
    BY <1>7, <1>8, <2>2, <2>3, <2>4
<1> QED
  BY <1>9, <1>10

(* A list without its parts that have no value is a list of the others.        *)
LEMMA Kept ==
  ASSUME NEW T, NEW s \in Seq(T), NEW field, NEW w, w = With(s, field)
  PROVE  /\ Range(w) \subseteq Range(s) /\ \A part \in Range(w) : part[field] # "empty"
         /\ (\E part \in Range(s) : part[field] # "empty") => Len(w) >= 1
<1> DEFINE S == {i \in DOMAIN s : s[i][field] # "empty"}
<1>1. w = Only(s, S) /\ S \in SUBSET (DOMAIN s)
  BY DEF With
<1>2. (\E part \in Range(s) : part[field] # "empty") => S # {}
  BY DEF Range
<1> HIDE DEF S
<1>3. /\ Cardinality(S) \in Nat /\ DOMAIN w = 1..Cardinality(S) /\ (Cardinality(S) = 0 <=> S = {})
      /\ Range(w) = {s[i] : i \in S} /\ w \in Seq(T)
  <2>1. Only(s, S) \in Seq(T)
    BY <1>1, OnlySome
  <2>2. /\ Cardinality(S) \in Nat /\ DOMAIN Only(s, S) = 1..Cardinality(S)
        /\ Range(Only(s, S)) = {s[i] : i \in S} /\ (Cardinality(S) = 0 <=> S = {})
    BY <1>1, OnlyThose
  <2> QED
    BY <1>1, <2>1, <2>2
<1>4. Len(w) = Cardinality(S)
  BY <1>3
<1>5. Range(w) \subseteq Range(s) /\ \A part \in Range(w) : part[field] # "empty"
  <2>1. \A i \in S : s[i][field] # "empty" /\ i \in DOMAIN s
    BY DEF S
  <2> QED
    BY <1>3, <2>1 DEF Range
<1> QED
  BY <1>2, <1>3, <1>4, <1>5

(* What an obedient object is normalised to fits the schema.                   *)
LEMMA ObedientIsValid ==
  ASSUME NEW raw, IsRaw(raw), Obedient(raw), NEW n, NEW c, c = NormalizeTestCase(raw, n)
  PROVE  Valid(c)
<1>1. /\ c.steps = Steps(raw) /\ c.mocks = raw.mocks /\ c.gaps = raw.gaps
      /\ c.selectors = With(raw.selectors, "value")
      /\ c.assertions = With(raw.assertions, "target")
  BY DEF NormalizeTestCase
<1>2. /\ "empty" \notin {c.title, c.description, c.suite, c.describe, c.testTitle} \cup c.tags
      /\ c.file # <<"empty">>
  BY ObedientTexts
<1>3. Len(c.steps) \in 1..MaxSteps /\ \A s \in Range(c.steps) : s.index > 0 /\ s.action # "empty"
  BY <1>1, ObedientSteps
<1>4. raw.selectors \in Seq(Range(raw.selectors)) /\ raw.assertions \in Seq(Range(raw.assertions))
  BY DEF IsRaw
<1>5. PICK S, A : raw.selectors \in Seq(S) /\ raw.assertions \in Seq(A)
  BY <1>4
<1>6. Len(c.assertions) >= 1
  <2>1. \E a \in Range(raw.assertions) : a["target"] # "empty"
    BY DEF Obedient
  <2> QED
    BY <1>1, <1>5, <2>1, Kept
<1>7. ASSUME NEW f \in {"selectors", "mocks", "assertions", "gaps"}, NEW part \in Range(c[f])
      PROVE  "empty" \notin Range(part)
  <2>1. CASE f = "selectors"
    <3>1. part \in Range(raw.selectors) /\ part["value"] # "empty"
      BY <1>1, <1>5, <1>7, <2>1, Kept
    <3>2. part["purpose"] # "empty" /\ DOMAIN part = {"purpose", "value"}
      BY <3>1 DEF Obedient, IsRaw
    <3> QED
      BY <3>1, <3>2 DEF Range
  <2>2. CASE f = "assertions"
    <3>1. part \in Range(raw.assertions) /\ part["target"] # "empty"
      BY <1>1, <1>5, <1>7, <2>2, Kept
    <3>2. DOMAIN part = {"target"}
      BY <3>1 DEF IsRaw
    <3> QED
      BY <3>1, <3>2 DEF Range
  <2>3. CASE f \in {"mocks", "gaps"}
    <3>1. part \in Range(raw.mocks) \cup Range(raw.gaps)
      BY <1>1, <1>7, <2>3
    <3> QED
      BY <3>1 DEF Obedient
  <2> QED
    BY <2>1, <2>2, <2>3
<1> QED
  BY <1>2, <1>3, <1>6, <1>7 DEF Valid

(* What was made of an obedient object is among the cases loaded.             *)
LEMMA Survival == Inv => ObedientCasesSurvive
<1> SUFFICES ASSUME Inv, phase \in {"loaded", "failed"}, cases # <<>>,
                    NEW n \in DOMAIN raws, Obedient(raws[n])
    PROVE  cases[n] \in Range(source)
  BY Zenon DEF ObedientCasesSurvive
<1>1. DOMAIN raws = DOMAIN cases /\ IsRaw(raws[n]) /\ cases[n] = NormalizeTestCase(raws[n], n)
  <2>1. raws # <<>>
    OBVIOUS
  <2> QED
    BY <2>1 DEF Inv, RawsInv
<1>2. Valid(cases[n])
  <2>1. PICK raw, c : raw = raws[n] /\ c = cases[n]
    OBVIOUS
  <2>2. IsRaw(raw) /\ Obedient(raw) /\ c = NormalizeTestCase(raw, n)
    BY <1>1, <2>1
  <2> QED
    BY <2>1, <2>2, ObedientIsValid
<1>3. /\ cases \in Seq(Range(cases))
      /\ \A m \in DOMAIN cases : cases[m].id = m /\ cases[m].priority \in 0..3
  BY DEF Inv, CasesInv
<1>4. source = Sound(cases)
  BY DEF Inv, SourceInv
<1>5. cases[n] \in Range(cases)
  BY <1>1 DEF Range
<1>6. cases[n] \in Range(Sound(cases))
  BY <1>2, <1>3, <1>5, SoundOnes
<1> QED
  BY <1>4, <1>6

(* An answer that keeps to the schema it was asked to keep to (llm/schema.ts)   *)
(* keeps its cases all the way to code generation, where an invalid case is     *)
(* dropped without a word (service.ts:123-126).                                *)
THEOREM ObedientCasesAreKept == Spec => []ObedientCasesSurvive
  BY Invariance, Survival, PTL
===============================================================================
