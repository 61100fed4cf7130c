---------------------------- MODULE Ingestion_proofs ----------------------------
(***************************************************************************)
(* Theorems about Ingestion, for every value of its constants.              *)
(***************************************************************************)
EXTENDS Ingestion, Positions_proofs

-----------------------------------------------------------------------------
(* FlattenSeq's function exists for every sequence, and what it makes of      *)
(* sequences of some elements is a sequence of such elements.                 *)
Pile(seqs, n, g) == g = [i \in 1..n |-> IF i = 1 THEN seqs[i] ELSE g[i - 1] \o seqs[i]]

(* FlattenSeq has such a function to be chosen, for any sequence.             *)
LEMMA PileExists ==
  ASSUME NEW seqs, NEW n \in Nat
  PROVE  \E g : Pile(seqs, n, g)
<1> DEFINE bad == {m \in Nat : ~ \E g : Pile(seqs, m, g)}
<1>1. SUFFICES ASSUME bad # {} PROVE FALSE
  OBVIOUS
<1>2. PICK m \in bad : \A k \in bad : m <= k
  BY <1>1, Least
<1>3. m # 0
  <2>1. Pile(seqs, 0, [i \in 1..0 |-> seqs[i]])
    BY DEF Pile
  <2> QED
    BY <1>2, <2>1
<1>4. m \in Nat /\ m - 1 \in Nat /\ m - 1 \notin bad
  BY <1>2, <1>3
<1>5. PICK g : Pile(seqs, m - 1, g)
  BY <1>4
<1> DEFINE h == [i \in 1..m |-> IF i = 1 THEN seqs[i] ELSE g[i - 1] \o seqs[i]]
<1>6. \A i \in 1..(m - 1) : g[i] = IF i = 1 THEN seqs[i] ELSE g[i - 1] \o seqs[i]
  BY <1>5, Zenon DEF Pile
<1>7. \A i \in 1..(m - 1) : h[i] = g[i]
  BY <1>4, <1>6
<1>8. \A i \in 1..m : (IF i = 1 THEN seqs[i] ELSE g[i - 1] \o seqs[i])
                        = (IF i = 1 THEN seqs[i] ELSE h[i - 1] \o seqs[i])
  <2> SUFFICES ASSUME NEW i \in 1..m, i # 1 PROVE g[i - 1] = h[i - 1]
    OBVIOUS
  <2>1. i - 1 \in 1..(m - 1)
    BY <1>4
  <2> HIDE DEF h
  <2> QED
    BY <1>7, <2>1
<1>9. h = [i \in 1..m |-> IF i = 1 THEN seqs[i] ELSE h[i - 1] \o seqs[i]]
  BY <1>8, Zenon
<1>10. Pile(seqs, m, h)
  <2> HIDE DEF h
  <2> QED
    BY <1>9, Zenon DEF Pile
<1> QED
  BY <1>2, <1>10

(* What is flattened of sequences of some elements is a sequence of them.     *)
LEMMA Flattened ==
  ASSUME NEW T, NEW seqs \in Seq(Seq(T))
  PROVE  FlattenSeq(seqs) \in Seq(T)
<1> DEFINE n == Len(seqs)
           g == CHOOSE g : Pile(seqs, n, g)
<1>1. n \in Nat /\ \A i \in 1..n : seqs[i] \in Seq(T)
  BY LenProperties
<1>2. Pile(seqs, n, g)
  BY <1>1, PileExists, Zenon
<1>3. \A i \in 1..n : g[i] = IF i = 1 THEN seqs[i] ELSE g[i - 1] \o seqs[i]
  <2> HIDE DEF g
  <2> QED
    BY <1>2, Zenon DEF Pile
<1>4. \A i \in 1..n : g[i] \in Seq(T)
  <2> HIDE DEF g
  <2> DEFINE bad == {i \in 1..n : g[i] \notin Seq(T)}
  <2>1. SUFFICES ASSUME bad # {} PROVE FALSE
    OBVIOUS
  <2>2. PICK m \in bad : \A k \in bad : m <= k
    <3>1. bad \in SUBSET Nat
      BY <1>1
    <3> HIDE DEF bad
    <3> QED
      BY <2>1, <3>1, Least
  <2>3. m # 1
    BY <1>1, <1>3, <2>2
  <2>4. m - 1 \in 1..n /\ m - 1 \notin bad /\ m \in 1..n
    BY <1>1, <2>2, <2>3
  <2>5. g[m - 1] \in Seq(T) /\ seqs[m] \in Seq(T)
    BY <1>1, <2>4
  <2>6. g[m] = g[m - 1] \o seqs[m]
    BY <1>3, <2>3, <2>4
  <2>7. g[m - 1] \o seqs[m] \in Seq(T)
    <3>1. \A s, t \in Seq(T) : s \o t \in Seq(T)
      BY ConcatProperties
    <3> QED
      BY <2>5, <3>1, Zenon
  <2>8. g[m] \in Seq(T)
    BY <2>6, <2>7, Zenon
  <2> QED
    BY <2>2, <2>8
<1>5. CASE n = 0
  BY <1>5, EmptySeq DEF FlattenSeq
<1>6. CASE n # 0
  <2>1. FlattenSeq(seqs) = g[n]
    BY <1>6, Zenon DEF FlattenSeq, Pile
  <2>2. n \in 1..n
    BY <1>1, <1>6
  <2> HIDE DEF g, n
  <2> QED
    BY <1>4, <2>1, <2>2
<1> QED
  BY <1>5, <1>6

\* The function that has a first value, and makes each other one of the one before it.
Steps(S, n, F) == F \in [1..n -> [S -> S]]
IsRec(S, base, n, F, g) ==
    /\ g \in [0..n -> S]
    /\ g[0] = base
    /\ \A i \in 1..n : g[i] = F[i][g[i - 1]]
Rec(S, base, n, F) == CHOOSE g : IsRec(S, base, n, F, g)

(* A function that is defined from its value at the position before exists.   *)
LEMMA Recursion ==
  ASSUME NEW S, NEW base, base \in S, NEW n, n \in Nat, NEW F, Steps(S, n, F)
  PROVE  IsRec(S, base, n, F, Rec(S, base, n, F))
<1> SUFFICES \E g \in [0..n -> S] : g[0] = base /\ \A i \in 1..n : g[i] = F[i][g[i - 1]]
  BY Zenon DEF Rec, IsRec
<1> USE DEF Steps
<1> DEFINE Up(m) == \E g \in [0..m -> S] : g[0] = base /\ \A i \in 1..m : g[i] = F[i][g[i - 1]]
           bad == {m \in 0..n : ~Up(m)}
<1>1. SUFFICES ASSUME bad # {} PROVE FALSE
  <2>1. n \in 0..n
    OBVIOUS
  <2> QED
    BY <2>1
<1>2. PICK m \in bad : \A k \in bad : m <= k
  <2>1. bad \in SUBSET Nat
    OBVIOUS
  <2> HIDE DEF bad
  <2> QED
    BY <1>1, <2>1, Least
<1>3. m # 0
  <2>1. [i \in 0..0 |-> base] \in [0..0 -> S] /\ [i \in 0..0 |-> base][0] = base /\ 1..0 = {}
    OBVIOUS
  <2>2. Up(0)
    BY <2>1
  <2>3. \A k \in bad : ~Up(k)
    OBVIOUS
  <2> HIDE DEF Up, bad
  <2> QED
    BY <1>2, <2>2, <2>3
<1>4. m \in 1..n /\ m - 1 \in 0..n /\ m - 1 \notin bad
  BY <1>2, <1>3
<1>5. PICK g \in [0..(m - 1) -> S] : g[0] = base /\ \A i \in 1..(m - 1) : g[i] = F[i][g[i - 1]]
  BY <1>4
<1> DEFINE h == [i \in 0..m |-> IF i = m THEN F[m][g[m - 1]] ELSE g[i]]
<1>6. h \in [0..m -> S]
  <2>1. F[m] \in [S -> S] /\ g[m - 1] \in S
    BY <1>4, <1>5
  <2>2. F[m][g[m - 1]] \in S
    BY <2>1
  <2>3. \A i \in 0..m : i = m \/ i \in 0..(m - 1)
    BY <1>4
  <2> QED
    BY <1>5, <2>2, <2>3
<1>7. h[0] = base /\ \A i \in 0..(m - 1) : h[i] = g[i]
  <2>1. \A i \in 0..(m - 1) : i \in 0..m /\ i # m
    BY <1>4
  <2>2. 0 \in 0..(m - 1)
    BY <1>4
  <2> QED
    BY <1>5, <2>1, <2>2
<1>8. h[m] = F[m][g[m - 1]]
  BY <1>4
<1> HIDE DEF h
<1>9. ASSUME NEW i \in 1..m PROVE h[i] = F[i][h[i - 1]]
  <2>1. i - 1 \in 0..(m - 1) /\ (i = m \/ i \in 1..(m - 1)) /\ \A j \in 1..(m - 1) : j \in 0..(m - 1)
    BY <1>4
  <2>2. h[i - 1] = g[i - 1]
    BY <1>7, <2>1
  <2>3. CASE i = m
    BY <1>8, <2>2, <2>3
  <2>4. CASE i \in 1..(m - 1)
    BY <1>5, <1>7, <2>1, <2>2, <2>4
  <2> QED
    BY <2>1, <2>3, <2>4
<1>10. Up(m)
  BY <1>6, <1>7, <1>9
<1> QED
  BY <1>2, <1>10

-----------------------------------------------------------------------------
(* What a fact is made of: the key, of a kind and a form, has a text and tags. *)
Marks == Texts \cup {None}
Forms == {"text", "cells", "id", "record"}
Excerpts == UNION {[S -> Texts] : S \in SUBSET Nat}
Tags == Seq(Marks \cup Nat \cup {"id", "detail"})
Keys == Kinds \X Forms \X Excerpts \X Tags

\* The detail of a fact holds the text of its key, whatever was cut off it.
Facts == {f \in [key : Keys, kind : Kinds, priority : 0..3, section : Seq(Titles),
                  title : SUBSET Texts, detail : SUBSET Texts, native : SUBSET Texts] :
          \A t \in Range(f.key[3]) : Holds(f.detail, t)}

(* The first pattern found is one of the patterns, or the default.            *)
LEMMA FirstOfTyped ==
  ASSUME NEW K, NEW order \in Seq(K), NEW found, NEW default \in K
  PROVE  FirstOf(order, found, default) \in K
<1>1. DOMAIN order \in SUBSET Nat /\ \A i \in DOMAIN order : order[i] \in K
      /\ \A j \in 1..(i - 1) : j \in DOMAIN order /\ j < i
  <2>1. Len(order) \in Nat /\ DOMAIN order = 1..Len(order) /\ \A i \in 1..Len(order) : order[i] \in K
    BY LenProperties
  <2> QED
    BY <2>1
<1>2. CASE \E i \in DOMAIN order : order[i] \in found
  <2> DEFINE S == {i \in DOMAIN order : order[i] \in found}
  <2>1. S \in SUBSET Nat /\ S # {}
    BY <1>1, <1>2
  <2>2. PICK i \in S : \A j \in S : i <= j
    <3> HIDE DEF S
    <3> QED
      BY <2>1, Least
  <2>3. \A j \in 1..(i - 1) : order[j] \notin found
    <3> SUFFICES ASSUME NEW j \in 1..(i - 1), order[j] \in found PROVE FALSE
      OBVIOUS
    <3>1. j \in S /\ j < i /\ i \in Nat /\ j \in Nat
      BY <1>1, <2>1
    <3> QED
      BY <2>2, <3>1
  <2>4. \E k \in DOMAIN order : order[k] \in found /\ \A j \in 1..(k - 1) : order[j] \notin found
    BY <2>3
  <2>5. FirstOf(order, found, default)
          = order[CHOOSE k \in DOMAIN order :
                    order[k] \in found /\ \A j \in 1..(k - 1) : order[j] \notin found]
    BY <1>2, Zenon DEF FirstOf
  <2> QED
    BY <1>1, <2>4, <2>5
<1>3. CASE ~ \E i \in DOMAIN order : order[i] \in found
  BY <1>3 DEF FirstOf
<1> QED
  BY <1>2, <1>3

(* Every text has a kind, and every text under headings a priority.           *)
LEMMA KindTyped ==
  ASSUME NEW path, NEW text
  PROVE  InferKind(path, text) \in Kinds
<1> DEFINE all == UNION {Hints[w] : w \in Words(path, text)}
<1>1. \A i \in 1..9 : Precedence[i] \in Kinds
  <2>1. Len(Precedence) = 9 /\ DOMAIN Precedence = 1..9
    BY DEF Precedence
  <2>2. Range(Precedence) = {Precedence[i] : i \in 1..9}
    BY <2>1, Zenon DEF Range
  <2> QED
    BY <2>2 DEF Kinds
<1>2. Precedence \in Seq(Kinds)
  <2>1. Precedence \in [1..9 -> Kinds]
    <3>1. Precedence = [i \in 1..9 |-> Precedence[i]]
      BY DEF Precedence
    <3> QED
      BY <1>1, <3>1
  <2> QED
    BY <2>1, SeqDef
<1>3. {"planned_case", "endpoint", "route"} \subseteq Kinds
  BY DEF Kinds
<1>4. FirstOf(Precedence, all, "planned_case") \in Kinds
  <2> HIDE DEF all
  <2> QED
    BY <1>2, <1>3, FirstOfTyped
<1>5. InferKind(path, text) \in {"endpoint", "route", FirstOf(Precedence, all, "planned_case")}
  BY Zenon DEF InferKind
<1> QED
  BY <1>3, <1>4, <1>5

(* The words of a fact always decide on a priority of 0 to 2.                 *)
LEMMA PriorityTyped ==
  ASSUME NEW path \in Seq(Titles), NEW text \in SUBSET Texts
  PROVE  DetectPriority(path, text) \in 0..2 /\ DetectPriority(path, text) \in 0..3
<1>1. Words(path, text) \subseteq Texts \cup Titles
  <2>1. Range(path) \in SUBSET Titles
    BY RangeOfSeq
  <2> QED
    BY <2>1 DEF Words
<1>2. \A w \in Words(path, text) : Weight[w] \in 0..2
  BY <1>1, MarkdownConstants DEF MarkdownConstants
<1> DEFINE S == {p \in 0..2 : p = 2 \/ \E w \in Words(path, text) : Weight[w] = p}
<1>3. PICK p \in S : \A q \in S : p <= q
  <2>1. S \in SUBSET Nat /\ 2 \in S
    OBVIOUS
  <2> HIDE DEF S
  <2> QED
    BY <2>1, Least
<1>4. \A w \in Words(path, text) : p <= Weight[w]
  BY <1>2, <1>3
<1>5. \E q \in 0..2 : /\ q = 2 \/ \E w \in Words(path, text) : Weight[w] = q
                      /\ \A w \in Words(path, text) : q <= Weight[w]
  BY <1>3, <1>4
<1>6. DetectPriority(path, text) \in 0..2
  BY <1>5 DEF DetectPriority
<1>7. 0..2 \subseteq 0..3
  OBVIOUS
<1> QED
  BY <1>6, <1>7

(* The facts of a section are facts: those of its tables, its bullets, and its *)
(* paragraphs.                                                                *)
LEMMA FactTyped ==
  ASSUME NEW of \in Kinds, NEW form \in Forms, NEW text \in Excerpts, NEW tag \in Tags,
         NEW kind \in Kinds, NEW priority \in 0..3, NEW path \in Seq(Titles),
         NEW title \in SUBSET Texts, NEW detail \in SUBSET Texts, NEW native \in SUBSET Texts,
         \A t \in Range(text) : Holds(detail, t)
  PROVE  Fact(<<of, form, text, tag>>, kind, priority, path, title, detail, native) \in Facts
<1> DEFINE key == <<of, form, text, tag>>
<1>1. key \in Keys /\ key[3] = text
  BY DEF Keys
<1> HIDE DEF key
<1>2. \A t \in Range(key[3]) : Holds(detail, t)
  BY <1>1
<1> QED
  BY <1>1, <1>2 DEF Fact, Facts, key

(* A single text is an excerpt, and a detail that has it holds it.            *)
LEMMA OneText ==
  ASSUME NEW x \in Texts
  PROVE  /\ <<x>> \in Excerpts /\ <<x>> \in Seq(Texts) /\ Range(<<x>>) = {x} /\ {x} \in SUBSET Texts
         /\ \A detail : x \in detail => \A t \in Range(<<x>>) : Holds(detail, t)
<1>1. <<x>> \in [1..1 -> Texts] /\ 1..1 \in SUBSET Nat /\ <<x>> \in Seq(Texts)
  OBVIOUS
<1>2. <<x>> \in Excerpts
  BY <1>1 DEF Excerpts
<1>3. Range(<<x>>) = {x}
  BY DEF Range
<1> QED
  BY <1>1, <1>2, <1>3 DEF Holds

(* What the fields of a line may be.                                          *)
LEMMA LineTyped ==
  ASSUME NEW l \in Line
  PROVE  /\ l.level \in 0..6 /\ l.says \in Marks /\ l.id \in Marks /\ l.column \in 0..NoPriority
         /\ l.level > 0 => l.title \in Titles
         /\ l.mark = "bullet" => l.says \in Texts
         /\ l.level = 0 /\ l.mark # "blank" /\ ~l.pipe => l.says \in Texts
<1>1. l.level \in 0..6 /\ l.says \in Marks /\ l.id \in Marks /\ l.column \in 0..NoPriority
  BY DEF Line, Marks
<1>2. /\ l.level > 0 => l.title \in Titles /\ l.mark = "none"
      /\ l.level > 0 \/ l.mark = "blank" \/ (l.pipe /\ l.mark # "bullet") \/ l.says \in Texts
  BY DEF Line
<1> QED
  BY <1>1, <1>2

-----------------------------------------------------------------------------
(* How far the lines of a text reach.                                         *)
LEMMA ReachIs ==
  ASSUME NEW text \in Seq(Texts)
  PROVE  /\ Reach(text)[0] = -1
         /\ \A k \in 0..Len(text) : Reach(text)[k] \in Int
         /\ \A k \in 1..Len(text) : /\ Reach(text)[k] = Reach(text)[k - 1] + 1 + Length[text[k]]
                                    /\ Reach(text)[k - 1] < Reach(text)[k]
<1> DEFINE n == Len(text)
           F == [i \in 1..n |-> [before \in Int |-> before + 1 + Length[text[i]]]]
           Is(g) == g = [i \in 0..n |-> IF i = 0 THEN -1 ELSE g[i - 1] + 1 + Length[text[i]]]
<1>1. n \in Nat /\ DOMAIN text = 1..n /\ \A i \in 1..n : Length[text[i]] \in Nat /\ Length[text[i]] > 0
  <2>1. n \in Nat /\ DOMAIN text = 1..n /\ \A i \in 1..n : text[i] \in Texts
    BY LenProperties
  <2>2. \A t \in Texts : Length[t] \in Nat \ {0}
    BY MarkdownConstants DEF MarkdownConstants
  <2> QED
    BY <2>1, <2>2
<1>2. F \in [1..n -> [Int -> Int]]
  BY <1>1
<1>3. PICK g \in [0..n -> Int] : g[0] = -1 /\ \A i \in 1..n : g[i] = F[i][g[i - 1]]
  <2>1. PICK T : T = Int
    OBVIOUS
  <2>2. PICK base \in T : base = -1
    BY <2>1
  <2> HIDE DEF F, n
  <2>3. n \in Nat /\ F \in [1..n -> [T -> T]]
    BY <1>1, <1>2, <2>1
  <2> DEFINE r == Rec(T, base, n, F)
  <2>4. r \in [0..n -> T] /\ r[0] = base /\ \A i \in 1..n : r[i] = F[i][r[i - 1]]
    <3>1. Steps(T, n, F)
      BY <2>3, Zenon DEF Steps
    <3>2. IsRec(T, base, n, F, r)
      BY <2>3, <3>1, Recursion, Zenon
    <3> QED
      BY <3>2, Zenon DEF IsRec
  <2> QED
    BY <2>1, <2>2, <2>4
<1>4. \A i \in 1..n : i - 1 \in 0..n /\ g[i - 1] \in Int /\ g[i] = g[i - 1] + 1 + Length[text[i]]
  <2> SUFFICES ASSUME NEW i \in 1..n
               PROVE  i - 1 \in 0..n /\ g[i - 1] \in Int /\ g[i] = g[i - 1] + 1 + Length[text[i]]
    OBVIOUS
  <2>1. i - 1 \in 0..n
    BY <1>1
  <2>2. g[i - 1] \in Int
    BY <1>3, <2>1
  <2>3. F[i][g[i - 1]] = g[i - 1] + 1 + Length[text[i]]
    <3> HIDE DEF n
    <3> QED
      BY <2>2
  <2> QED
    BY <1>3, <2>1, <2>2, <2>3
<1>5. Is(g)
  <2>1. \A i \in 0..n : i = 0 \/ i \in 1..n
    BY <1>1
  <2>2. \A i \in 0..n : g[i] = IF i = 0 THEN -1 ELSE g[i - 1] + 1 + Length[text[i]]
    <3> HIDE DEF n
    <3> QED
      BY <1>3, <1>4, <2>1
  <2>3. g = [i \in 0..n |-> g[i]]
    BY <1>3
  <2> HIDE DEF n
  <2> QED
    BY <2>2, <2>3, Zenon
<1> DEFINE sum == CHOOSE r : Is(r)
<1>6. Reach(text) = sum
  BY Zenon DEF Reach
<1>7. Is(sum)
  <2> HIDE DEF Is
  <2> QED
    BY <1>5, Zenon
<1> HIDE DEF n, sum
<1>8. \A i \in 0..n : sum[i] = IF i = 0 THEN -1 ELSE sum[i - 1] + 1 + Length[text[i]]
  BY <1>7, Zenon
<1>9. 0 \in 0..n /\ sum[0] = -1 /\ \A i \in 1..n : sum[i] = sum[i - 1] + 1 + Length[text[i]]
  <2>1. 0 \in 0..n /\ \A i \in 1..n : i \in 0..n /\ i # 0
    BY <1>1
  <2> QED
    BY <1>8, <2>1
<1> DEFINE bad == {i \in 0..n : sum[i] \notin Int}
<1>10. bad = {}
  <2>1. SUFFICES ASSUME bad # {} PROVE FALSE
    OBVIOUS
  <2>2. PICK m \in bad : \A i \in bad : m <= i
    <3>1. bad \in SUBSET Nat
      BY <1>1
    <3> HIDE DEF bad
    <3> QED
      BY <2>1, <3>1, Least
  <2>3. m # 0
    BY <1>9, <2>2
  <2>4. m \in 1..n /\ m - 1 \in 0..n /\ m - 1 \notin bad
    BY <1>1, <2>2, <2>3
  <2>5. sum[m - 1] \in Int
    BY <2>4
  <2>6. sum[m] = sum[m - 1] + 1 + Length[text[m]] /\ Length[text[m]] \in Nat
    BY <1>1, <1>9, <2>4
  <2>7. sum[m] \in Int
    BY <2>5, <2>6
  <2> QED
    BY <2>2, <2>7
<1>11. \A i \in 0..n : sum[i] \in Int
  BY <1>10
<1>12. ASSUME NEW k \in 1..n PROVE sum[k - 1] < sum[k]
  <2>1. k - 1 \in 0..n
    BY <1>1
  <2>2. sum[k] = sum[k - 1] + 1 + Length[text[k]] /\ Length[text[k]] \in Nat /\ sum[k - 1] \in Int
    BY <1>1, <1>9, <1>11, <2>1
  <2> QED
    BY <2>2
<1> QED
  BY <1>6, <1>9, <1>11, <1>12 DEF n

(* Texts that are cut are texts, and a longer excerpt holds what a shorter one *)
(* has. A line that ends within the excerpt is in it.                          *)
LEMMA ExcerptTyped ==
  ASSUME NEW text \in Seq(Texts), NEW n
  PROVE  Excerpt(text, n) \in Excerpts /\ Range(Excerpt(text, n)) \in SUBSET Texts
<1> DEFINE S == {k \in DOMAIN text : Reach(text)[k - 1] < n}
           cut == [k \in S |-> IF Reach(text)[k] <= n THEN text[k] ELSE Opening[text[k]]]
<1>1. \A k \in DOMAIN text : text[k] \in Texts /\ k \in Nat
  BY LenProperties
<1>2. \A t \in Texts : Opening[t] \in Texts
  BY MarkdownConstants DEF MarkdownConstants
<1>3. S \in SUBSET Nat /\ \A k \in S : text[k] \in Texts
  BY <1>1
<1>4. cut \in [S -> Texts]
  <2> HIDE DEF S
  <2> QED
    BY <1>2, <1>3
<1>5. Excerpt(text, n) = cut
  BY Zenon DEF Excerpt
<1> HIDE DEF cut, S
<1> QED
  BY <1>3, <1>4, <1>5 DEF Excerpts, Range

(* A longer excerpt holds what a shorter one has.                              *)
LEMMA ExcerptHolds ==
  ASSUME NEW text \in Seq(Texts), NEW m \in Nat, NEW n \in Nat, m <= n,
         NEW t \in Range(Excerpt(text, m))
  PROVE  Holds(Range(Excerpt(text, n)), t)
<1> DEFINE R == Reach(text)
           S(b) == {k \in DOMAIN text : R[k - 1] < b}
           cut(b) == [k \in S(b) |-> IF R[k] <= b THEN text[k] ELSE Opening[text[k]]]
<1>1. \A b : Excerpt(text, b) = cut(b)
  BY Zenon DEF Excerpt
<1>2. PICK k \in S(m) : t = IF R[k] <= m THEN text[k] ELSE Opening[text[k]]
  <2>1. t \in Range(cut(m))
    BY <1>1
  <2> QED
    BY <2>1 DEF Range
<1>3. k \in DOMAIN text /\ R[k - 1] \in Int /\ R[k] \in Int
  <2>1. k \in 1..Len(text) /\ Len(text) \in Nat
    BY <1>2, LenProperties
  <2>2. k - 1 \in 0..Len(text) /\ k \in 0..Len(text)
    BY <2>1
  <2> QED
    BY <1>2, <2>2, ReachIs
<1> HIDE DEF R
<1>4. k \in S(n) /\ (R[k] <= m => R[k] <= n)
  BY <1>2, <1>3
<1>5. (IF R[k] <= n THEN text[k] ELSE Opening[text[k]]) \in Range(cut(n))
  BY <1>4 DEF Range
<1>6. \E x \in Range(cut(n)) : t \in {x, Opening[x]}
  BY <1>2, <1>4, <1>5
<1> QED
  <2> HIDE DEF cut
  <2> QED
    BY <1>1, <1>6 DEF Holds

(* A line that ends within an excerpt is in it.                                *)
LEMMA LineWithin ==
  ASSUME NEW text \in Seq(Texts), NEW n \in Nat, NEW k \in 1..Len(text), Reach(text)[k] <= n
  PROVE  text[k] \in Range(Excerpt(text, n))
<1> DEFINE R == Reach(text)
           S == {i \in DOMAIN text : R[i - 1] < n}
           cut == [i \in S |-> IF R[i] <= n THEN text[i] ELSE Opening[text[i]]]
<1>1. Excerpt(text, n) = cut
  BY Zenon DEF Excerpt
<1>2. k \in DOMAIN text /\ R[k - 1] \in Int /\ R[k] \in Int /\ R[k - 1] < R[k]
  <2>1. DOMAIN text = 1..Len(text) /\ Len(text) \in Nat
    BY LenProperties
  <2>2. k - 1 \in 0..Len(text) /\ k \in 0..Len(text)
    BY <2>1
  <2> QED
    BY <2>1, <2>2, ReachIs
<1> HIDE DEF R
<1>3. k \in S /\ R[k] <= n
  BY <1>2 DEF R
<1>4. text[k] \in Range(cut)
  BY <1>3 DEF Range
<1> QED
  BY <1>1, <1>4

-----------------------------------------------------------------------------
\* What a line is in its section, given what the line before it is.
Role(tbody, i, before) ==
    IF before = "head" THEN "separator"
    ELSE IF before \in {"separator", "row"} /\ tbody[i].pipe THEN "row"
    ELSE IF tbody[i].pipe /\ i < Len(tbody) /\ tbody[i + 1].sep THEN "head"
    ELSE "text"

(* The roles of the lines of a section are what parseTables makes of them,    *)
(* from the first line on.                                                    *)
LEMMA RolesAre ==
  ASSUME NEW tbody \in Seq(Line)
  PROVE  /\ Roles(tbody)[0] = "text"
         /\ \A i \in 1..Len(tbody) : Roles(tbody)[i] = Role(tbody, i, Roles(tbody)[i - 1])
<1> DEFINE n == Len(tbody)
           S == {"text", "head", "separator", "row"}
           F == [i \in 1..n |-> [before \in S |-> Role(tbody, i, before)]]
           Is(g) == g = [i \in 0..n |-> IF i = 0 THEN "text" ELSE Role(tbody, i, g[i - 1])]
<1>1. n \in Nat
  BY LenProperties
<1>2. F \in [1..n -> [S -> S]]
  BY DEF Role
<1>3. PICK g \in [0..n -> S] : g[0] = "text" /\ \A i \in 1..n : g[i] = F[i][g[i - 1]]
  <2>1. "text" \in S
    OBVIOUS
  <2> HIDE DEF F, n, S
  <2>2. PICK base \in S : base = "text"
    BY <2>1
  <2> DEFINE r == Rec(S, base, n, F)
  <2>3. r \in [0..n -> S] /\ r[0] = base /\ \A i \in 1..n : r[i] = F[i][r[i - 1]]
    <3>1. Steps(S, n, F)
      BY <1>2, Zenon DEF Steps
    <3>2. IsRec(S, base, n, F, r)
      BY <1>1, <3>1, Recursion, Zenon
    <3> QED
      BY <3>2, Zenon DEF IsRec
  <2> QED
    BY <2>2, <2>3
<1>4. \A i \in 1..n : g[i] = Role(tbody, i, g[i - 1])
  <2> SUFFICES ASSUME NEW i \in 1..n PROVE g[i] = Role(tbody, i, g[i - 1])
    OBVIOUS
  <2>1. i - 1 \in 0..n
    BY <1>1
  <2>2. g[i - 1] \in S
    BY <1>3, <2>1
  <2>3. F[i][g[i - 1]] = Role(tbody, i, g[i - 1])
    <3> HIDE DEF S, n
    <3> QED
      BY <2>2
  <2> QED
    BY <1>3, <2>3
<1>5. Is(g)
  <2>1. \A i \in 0..n : i = 0 \/ i \in 1..n
    BY <1>1
  <2>2. \A i \in 0..n : g[i] = IF i = 0 THEN "text" ELSE Role(tbody, i, g[i - 1])
    <3> HIDE DEF n
    <3> QED
      BY <1>3, <1>4, <2>1
  <2>3. g = [i \in 0..n |-> g[i]]
    BY <1>3
  <2> HIDE DEF n
  <2> QED
    BY <2>2, <2>3, Zenon
<1>6. Roles(tbody) = CHOOSE r : Is(r)
  BY Zenon DEF Roles, Role
<1>7. Is(Roles(tbody))
  <2> HIDE DEF Is
  <2> QED
    BY <1>5, <1>6, Zenon
<1>8. \A i \in 0..n : Roles(tbody)[i] = IF i = 0 THEN "text" ELSE Role(tbody, i, Roles(tbody)[i - 1])
  <2> DEFINE r == Roles(tbody)
  <2>1. r = [i \in 0..n |-> IF i = 0 THEN "text" ELSE Role(tbody, i, r[i - 1])]
    BY <1>7, Zenon
  <2> HIDE DEF r, n
  <2>2. \A i \in 0..n : r[i] = IF i = 0 THEN "text" ELSE Role(tbody, i, r[i - 1])
    BY <2>1, Zenon
  <2> QED
    BY <2>2 DEF r
<1>9. 0 \in 0..n /\ \A i \in 1..n : i \in 0..n /\ i # 0
  BY <1>1
<1> HIDE DEF n
<1> QED
  BY <1>8, <1>9, Zenon DEF n

\* The header that is nearest above a line.
HeaderOf(tbody, i) ==
    CHOOSE h \in 1..i : /\ Roles(tbody)[h] = "head"
                        /\ \A k \in (h + 1)..i : Roles(tbody)[k] # "head"

(* A row has a header above it.                                               *)
LEMMA HeaderAbove ==
  ASSUME NEW tbody \in Seq(Line), NEW i \in 1..Len(tbody), Roles(tbody)[i] = "row"
  PROVE  HeaderOf(tbody, i) \in 1..i
<1> DEFINE role == Roles(tbody)
           n == Len(tbody)
           bad == {k \in 1..n : /\ role[k] \in {"separator", "row"}
                                /\ \A h \in 1..k : role[h] # "head"}
<1>1. n \in Nat /\ i \in 1..n
  BY LenProperties
<1>2. role[0] = "text" /\ \A k \in 1..n : role[k] = Role(tbody, k, role[k - 1])
  BY RolesAre
<1> HIDE DEF role, n
<1>3. bad = {}
  <2>1. SUFFICES ASSUME bad # {} PROVE FALSE
    OBVIOUS
  <2>2. PICK m \in bad : \A k \in bad : m <= k
    <3>1. bad \in SUBSET Nat
      BY <1>1
    <3> HIDE DEF bad
    <3> QED
      BY <2>1, <3>1, Least
  <2>3. m \in 1..n /\ role[m] = Role(tbody, m, role[m - 1])
    BY <1>2
  <2>4. role[m - 1] \in {"head", "separator", "row"}
    BY <2>3 DEF Role
  <2>5. m # 1
    BY <1>2, <2>4
  <2>6. m - 1 \in 1..n /\ m - 1 \in 1..m /\ m - 1 < m /\ \A h \in 1..(m - 1) : h \in 1..m
    BY <1>1, <2>3, <2>5
  <2>7. \A h \in 1..(m - 1) : role[h] # "head"
    BY <2>6
  <2>8. m - 1 \in 1..(m - 1)
    BY <2>6
  <2>9. m - 1 \in bad
    BY <2>4, <2>6, <2>7, <2>8
  <2>10. m \in Nat /\ ~(m <= m - 1)
    BY <1>1, <2>3
  <2> HIDE DEF bad
  <2> QED
    BY <2>2, <2>9, <2>10
<1> DEFINE H == {h \in 1..i : role[h] = "head"}
           T == {i - h : h \in H}
<1>4. H # {}
  BY <1>1, <1>3 DEF role
<1>5. T \in SUBSET Nat /\ T # {}
  <2>1. \A h \in H : i - h \in Nat
    BY <1>1
  <2> HIDE DEF H
  <2> QED
    BY <1>4, <2>1
<1>6. PICK t \in T : \A u \in T : t <= u
  <2> HIDE DEF T
  <2> QED
    BY <1>5, Least
<1>7. PICK h \in H : t = i - h
  BY <1>6
<1>8. \A k \in (h + 1)..i : role[k] # "head"
  <2> SUFFICES ASSUME NEW k \in (h + 1)..i, role[k] = "head" PROVE FALSE
    OBVIOUS
  <2>1. k \in H /\ h \in 1..i
    BY <1>1
  <2>2. t <= i - k
    BY <1>6, <2>1
  <2> QED
    BY <1>1, <1>7, <2>1, <2>2
<1>9. \E g \in 1..i : role[g] = "head" /\ \A k \in (g + 1)..i : role[k] # "head"
  BY <1>7, <1>8
<1> QED
  BY <1>9 DEF HeaderOf, role

(* The facts of a table row, of the tables, the bullets and the paragraphs of *)
(* a section, and so of a whole section, are facts: none lacks a kind, a      *)
(* priority or a key.                                                         *)
LEMMA RowFactTyped ==
  ASSUME NEW path \in Seq(Titles), NEW head \in Line, NEW row \in Line, row.says # None
  PROVE  RowFact(path, head, row) \in Facts
<1> DEFINE title == {row.says}
           kind == InferKind(path, title)
           native == IF "id" \in head.cols /\ row.id # None THEN {row.id} ELSE {}
           cells == <<head.says, row.id, row.column>>
           priority == IF "priority" \in head.cols /\ row.column # NoPriority THEN row.column
                       ELSE DetectPriority(path, title)
           asCells == <<kind, "cells", <<row.says>>, cells>>
           asId == <<kind, "id", <<row.says>>, <<row.id>>>>
           of(key) == Fact(key, kind, priority, path, title, title, native)
<1>1. row.says \in Texts /\ row.id \in Marks /\ row.column \in 0..NoPriority /\ head.says \in Marks
  BY LineTyped DEF Marks
<1>2. /\ title \in SUBSET Texts /\ <<row.says>> \in Excerpts
      /\ \A t \in Range(<<row.says>>) : Holds(title, t)
  BY <1>1, OneText
<1>3. kind \in Kinds
  BY KindTyped
<1>4. native \in SUBSET Texts
  BY <1>1 DEF Marks
<1>5. cells \in Tags /\ <<row.id>> \in Tags
  BY <1>1 DEF Tags, NoPriority
<1>6. priority \in 0..3
  <2>1. DetectPriority(path, title) \in 0..3
    <3> HIDE DEF title
    <3> QED
      BY <1>2, PriorityTyped
  <2> HIDE DEF title
  <2> QED
    BY <1>1, <2>1 DEF NoPriority
<1>7. "cells" \in Forms /\ "id" \in Forms
  BY DEF Forms
<1>8. of(asCells) \in Facts /\ of(asId) \in Facts
  <2> HIDE DEF title, kind, native, cells, priority
  <2> QED
    BY <1>2, <1>3, <1>4, <1>5, <1>6, <1>7, FactTyped
<1>9. RowFact(path, head, row) = of(IF native = {} THEN asCells ELSE asId)
  BY Zenon DEF RowFact
<1>10. RowFact(path, head, row) \in {of(asCells), of(asId)}
  <2> HIDE DEF of, asCells, asId, native
  <2> QED
    BY <1>9
<1> HIDE DEF of
<1> QED
  BY <1>8, <1>10

(* The rows of the tables of a section.                                       *)
LEMMA TableFactsTyped ==
  ASSUME NEW path \in Seq(Titles), NEW tbody \in Seq(Line)
  PROVE  TableFacts(path, tbody) \in Seq(Facts)
<1> DEFINE role == Roles(tbody)
           S == {i \in DOMAIN tbody : role[i] = "row" /\ tbody[i].says # None}
           rows == InOrder(S)
           facts == [k \in DOMAIN rows |-> RowFact(path, tbody[HeaderOf(tbody, rows[k])], tbody[rows[k]])]
<1>1. DOMAIN tbody = 1..Len(tbody) /\ Len(tbody) \in Nat /\ \A i \in 1..Len(tbody) : tbody[i] \in Line
  BY LenProperties
<1>2. S \in SUBSET Nat /\ IsFiniteSet(S)
  <2>1. S \in SUBSET (1..Len(tbody)) /\ IsFiniteSet(1..Len(tbody))
    BY <1>1, FS_Interval
  <2> QED
    BY <2>1, FS_Subset
<1>3. Cardinality(S) \in Nat /\ rows \in [1..Cardinality(S) -> S]
  <2> HIDE DEF S
  <2> QED
    BY <1>2, InOrderSorts
<1>4. ASSUME NEW i \in S PROVE tbody[i] \in Line /\ tbody[i].says # None /\ tbody[HeaderOf(tbody, i)] \in Line
  <2>1. i \in 1..Len(tbody) /\ role[i] = "row"
    BY <1>1
  <2>2. HeaderOf(tbody, i) \in 1..i
    BY <2>1, HeaderAbove
  <2> QED
    BY <1>1, <2>1, <2>2
<1>5. facts \in [1..Cardinality(S) -> Facts]
  <2> HIDE DEF S, rows
  <2>1. \A k \in 1..Cardinality(S) :
           RowFact(path, tbody[HeaderOf(tbody, rows[k])], tbody[rows[k]]) \in Facts
    BY <1>3, <1>4, RowFactTyped
  <2> QED
    BY <1>3, <2>1
<1>6. facts \in Seq(Facts)
  <2> HIDE DEF facts, S
  <2> QED
    BY <1>3, <1>5, SeqDef
<1>7. TableFacts(path, tbody) = facts
  BY DEF TableFacts, HeaderOf
<1> QED
  BY <1>6, <1>7

\* The facts of each bullet of a section.
BulletLists(path, tbody) ==
    LET bullets == Only(tbody, {i \in DOMAIN tbody : tbody[i].mark = "bullet"})
    IN  [k \in DOMAIN bullets |-> FactsOfBullet(path, bullets[k])]

(* The bullets of a section, those that list endpoints among them.            *)
LEMMA BulletListsTyped ==
  ASSUME NEW path \in Seq(Titles), NEW tbody \in Seq(Line)
  PROVE  BulletLists(path, tbody) \in Seq(Seq(Facts))
<1>0. {"endpoint", "requirement"} \subseteq Kinds /\ "text" \in Forms /\ <<>> \in Tags
      /\ 1 \in 0..3 /\ {} \in SUBSET Texts
  BY DEF Kinds, Forms, Tags
<1>1. ASSUME NEW e \in Texts PROVE EndpointFact(path, e) \in Facts
  <2>1. <<e>> \in Excerpts /\ {e} \in SUBSET Texts /\ \A t \in Range(<<e>>) : Holds({e}, t)
    BY OneText
  <2>2. Fact(<<"endpoint", "text", <<e>>, <<>>>>, "endpoint", 1, path, {e}, {e}, {}) \in Facts
    BY <1>0, <2>1, FactTyped
  <2> QED
    BY <2>2 DEF EndpointFact, TextKey
<1>2. ASSUME NEW x \in Texts PROVE BulletFact(path, x) \in Facts
  <2> DEFINE kind == InferKind(path, {x})
             as == IF kind = "planned_case" THEN "requirement" ELSE kind
             title == Range(Excerpt(<<x>>, BulletTitle))
             priority == DetectPriority(path, {x})
  <2>1. <<x>> \in Excerpts /\ <<x>> \in Seq(Texts) /\ {x} \in SUBSET Texts
        /\ \A t \in Range(<<x>>) : Holds({x}, t)
    BY OneText
  <2>2. priority \in 0..3
    BY <2>1, PriorityTyped
  <2>3. as \in Kinds
    BY <1>0, KindTyped
  <2>4. title \in SUBSET Texts
    BY <2>1, ExcerptTyped
  <2> HIDE DEF priority, as, title
  <2>5. Fact(<<"requirement", "text", <<x>>, <<>>>>, as, priority, path, title, {x}, {}) \in Facts
    BY <1>0, <2>1, <2>2, <2>3, <2>4, FactTyped
  <2> QED
    BY <2>5 DEF BulletFact, TextKey, as, priority, title
<1>3. ASSUME NEW bullet \in Line, bullet.mark = "bullet" PROVE FactsOfBullet(path, bullet) \in Seq(Facts)
  <2>1. bullet.says \in Texts
    BY <1>3, LineTyped
  <2>2. EndpointsIn[bullet.says] \in Seq(Texts)
    BY <2>1, MarkdownConstants DEF MarkdownConstants
  <2>3. [k \in DOMAIN EndpointsIn[bullet.says] |-> EndpointFact(path, EndpointsIn[bullet.says][k])] \in Seq(Facts)
    <3> DEFINE E == EndpointsIn[bullet.says]
               facts == [k \in DOMAIN E |-> EndpointFact(path, E[k])]
    <3>1. DOMAIN E = 1..Len(E) /\ Len(E) \in Nat /\ \A k \in 1..Len(E) : E[k] \in Texts
      <4> HIDE DEF E
      <4> QED
        BY <2>2, LenProperties DEF E
    <3>2. facts \in [1..Len(E) -> Facts]
      <4> HIDE DEF E
      <4> QED
        BY <1>1, <3>1
    <3> HIDE DEF facts
    <3>3. facts \in Seq(Facts)
      BY <3>1, <3>2, SeqDef
    <3> QED
      BY <3>3 DEF facts
  <2>4. <<BulletFact(path, bullet.says)>> \in Seq(Facts) /\ <<>> \in Seq(Facts)
    BY <1>2, <2>1
  <2> QED
    BY <2>3, <2>4, Zenon DEF FactsOfBullet
<1> DEFINE B == {i \in DOMAIN tbody : tbody[i].mark = "bullet"}
           bullets == Only(tbody, B)
           lists == [k \in DOMAIN bullets |-> FactsOfBullet(path, bullets[k])]
<1>4. bullets \in Seq({tbody[i] : i \in B})
  <2> HIDE DEF B
  <2>1. B \in SUBSET (DOMAIN tbody)
    BY DEF B
  <2> QED
    BY <2>1, OnlySome
<1>5. \A b \in {tbody[i] : i \in B} : b \in Line /\ b.mark = "bullet"
  BY LenProperties
<1>6. lists \in Seq(Seq(Facts))
  <2> HIDE DEF B, bullets
  <2>1. /\ Len(bullets) \in Nat /\ DOMAIN bullets = 1..Len(bullets)
        /\ \A k \in 1..Len(bullets) : bullets[k] \in {tbody[i] : i \in B}
    BY <1>4, LenProperties
  <2>2. lists \in [1..Len(bullets) -> Seq(Facts)]
    BY <1>3, <1>5, <2>1
  <2> HIDE DEF lists
  <2> QED
    BY <2>1, <2>2, SeqDef
<1> QED
  BY <1>6, Zenon DEF BulletLists

(* What all bullets of a section state are facts.                             *)
LEMMA BulletFactsTyped ==
  ASSUME NEW path \in Seq(Titles), NEW tbody \in Seq(Line)
  PROVE  BulletFacts(path, tbody) \in Seq(Facts)
<1>1. BulletFacts(path, tbody) = FlattenSeq(BulletLists(path, tbody))
  BY Zenon DEF BulletFacts, BulletLists
<1> QED
  BY <1>1, BulletListsTyped, Flattened

(* A paragraph.                                                               *)
LEMMA ParagraphFactTyped ==
  ASSUME NEW path \in Seq(Titles), NEW run, Says(run) \in Seq(Texts)
  PROVE  ParagraphFact(path, run) \in Facts
<1> DEFINE text == Says(run)
           key == Excerpt(text, KeyChars)
           title == Range(Excerpt(text, TitleChars))
           detail == Range(Excerpt(text, DetailChars))
           priority == DetectPriority(path, Range(text))
<1>1. text \in Seq(Texts)
  OBVIOUS
<1>2. ParagraphFact(path, run)
        = Fact(<<"requirement", "text", key, <<>>>>, "requirement", priority, path, title, detail, {})
  BY Zenon DEF ParagraphFact, TextKey
<1> HIDE DEF text
<1>3. key \in Excerpts /\ title \in SUBSET Texts /\ detail \in SUBSET Texts
  BY <1>1, ExcerptTyped
<1>4. \A t \in Range(key) : Holds(detail, t)
  BY <1>1, ExcerptHolds, MarkdownConstants DEF MarkdownConstants
<1>5. priority \in 0..3
  <2>1. Range(text) \in SUBSET Texts
    BY <1>1, RangeOfSeq
  <2> QED
    BY <2>1, PriorityTyped
<1>6. "requirement" \in Kinds /\ "text" \in Forms /\ <<>> \in Tags /\ {} \in SUBSET Texts
  BY DEF Kinds, Forms, Tags
<1> HIDE DEF key, title, detail, priority
<1> QED
  BY <1>2, <1>3, <1>4, <1>5, <1>6, FactTyped

\* Where the paragraph that starts at a line ends.
EndOf(tbody, i) ==
    CHOOSE k \in i..Len(tbody) : Break(tbody, k + 1) /\ \A m \in i..k : ~Break(tbody, m)

(* A paragraph that starts also ends, at the last line or before a break.     *)
LEMMA ParagraphEnds ==
  ASSUME NEW tbody \in Seq(Line), NEW i \in DOMAIN tbody, ~Break(tbody, i)
  PROVE  /\ EndOf(tbody, i) \in i..Len(tbody)
         /\ Break(tbody, EndOf(tbody, i) + 1)
         /\ \A m \in i..EndOf(tbody, i) : ~Break(tbody, m)
<1>1. Len(tbody) \in Nat /\ DOMAIN tbody = 1..Len(tbody) /\ i \in 1..Len(tbody)
  BY LenProperties
<1> DEFINE S == {k \in i..Len(tbody) : Break(tbody, k + 1)}
<1>2. Break(tbody, Len(tbody) + 1)
  BY <1>1 DEF Break
<1>3. S \in SUBSET Nat /\ Len(tbody) \in S
  BY <1>1, <1>2
<1>4. PICK k \in S : \A m \in S : k <= m
  <2> HIDE DEF S
  <2> QED
    BY <1>3, Least
<1>5. ASSUME NEW m \in i..k PROVE ~Break(tbody, m)
  <2>1. CASE m = i
    BY <2>1
  <2>2. CASE m # i
    <3>1. m - 1 \in i..Len(tbody) /\ ~(k <= m - 1) /\ (m - 1) + 1 = m
      BY <1>1, <1>3, <1>4, <2>2
    <3>2. m - 1 \notin S
      <4> HIDE DEF S
      <4> QED
        BY <1>4, <3>1
    <3> QED
      BY <3>1, <3>2
  <2> QED
    BY <2>1, <2>2
<1>6. \E j \in i..Len(tbody) : Break(tbody, j + 1) /\ \A m \in i..j : ~Break(tbody, m)
  BY <1>4, <1>5
<1> QED
  BY <1>6 DEF EndOf

\* The lines between breaks.
RunsOf(tbody) ==
    LET starts == InOrder({i \in DOMAIN tbody : ~Break(tbody, i) /\ Break(tbody, i - 1)})
    IN  [k \in DOMAIN starts |-> SubSeq(tbody, starts[k], EndOf(tbody, starts[k]))]

\* Lines that are no headings.
BodyLine == {l \in Line : l.level = 0}

(* What the lines of a section are, are lines.                                *)
LEMMA BodyLines == Seq(BodyLine) \subseteq Seq(Line)
<1>1. BodyLine \subseteq Line
  BY DEF BodyLine
<1> QED
  BY <1>1, SeqMonotonic

(* What lies between breaks are lines that are not blank.                     *)
LEMMA RunsTyped ==
  ASSUME NEW tbody \in Seq(BodyLine)
  PROVE  RunsOf(tbody) \in Seq(Seq({l \in BodyLine : l.mark # "blank"}))
<1> DEFINE S == {i \in DOMAIN tbody : ~Break(tbody, i) /\ Break(tbody, i - 1)}
           starts == InOrder(S)
           runs == [k \in DOMAIN starts |-> SubSeq(tbody, starts[k], EndOf(tbody, starts[k]))]
           Filled == {l \in BodyLine : l.mark # "blank"}
<1>1. DOMAIN tbody = 1..Len(tbody) /\ Len(tbody) \in Nat /\ \A i \in 1..Len(tbody) : tbody[i] \in BodyLine
  BY LenProperties
<1>2. S \in SUBSET Nat /\ IsFiniteSet(S)
  <2>1. S \in SUBSET (1..Len(tbody)) /\ IsFiniteSet(1..Len(tbody))
    BY <1>1, FS_Interval
  <2> QED
    BY <2>1, FS_Subset
<1>3. Cardinality(S) \in Nat /\ starts \in [1..Cardinality(S) -> S]
  <2> HIDE DEF S
  <2> QED
    BY <1>2, InOrderSorts
<1>4. ASSUME NEW i \in S PROVE SubSeq(tbody, i, EndOf(tbody, i)) \in Seq(Filled)
  <2>1. /\ EndOf(tbody, i) \in i..Len(tbody) /\ i \in 1..Len(tbody)
        /\ \A m \in i..EndOf(tbody, i) : ~Break(tbody, m)
    BY <1>1, BodyLines, ParagraphEnds
  <2>2. \A m \in i..EndOf(tbody, i) : tbody[m] \in Filled
    BY <1>1, <2>1 DEF Break
  <2>3. i \in Int /\ EndOf(tbody, i) \in Int
    BY <1>1, <2>1
  <2> HIDE DEF Filled
  <2> QED
    BY <2>2, <2>3, SubSeqProperties
<1>5. runs \in Seq(Seq(Filled))
  <2> HIDE DEF S, starts, Filled
  <2>1. runs \in [1..Cardinality(S) -> Seq(Filled)]
    BY <1>3, <1>4
  <2> HIDE DEF runs
  <2> QED
    BY <1>3, <2>1, SeqDef
<1> QED
  BY <1>5, Zenon DEF RunsOf

(* A paragraph that is kept says a text on each line.                         *)
LEMMA ParagraphSays ==
  ASSUME NEW run \in Seq({l \in BodyLine : l.mark # "blank"}), IsParagraph(run)
  PROVE  Says(run) \in Seq(Texts)
<1>1. /\ DOMAIN run = 1..Len(run) /\ Len(run) \in Nat
      /\ \A k \in 1..Len(run) : run[k] \in {l \in BodyLine : l.mark # "blank"}
  BY LenProperties
<1>2. \A k \in 1..Len(run) : run[k].says \in Texts
  <2>1. \A k \in 1..Len(run) : ~run[k].pipe
    BY <1>1 DEF IsParagraph
  <2> QED
    BY <1>1, <2>1, LineTyped DEF BodyLine
<1>3. Says(run) \in [1..Len(run) -> Texts]
  BY <1>1, <1>2 DEF Says
<1> QED
  BY <1>1, <1>3, SeqDef

(* The paragraphs of a section.                                               *)
LEMMA ParagraphFactsTyped ==
  ASSUME NEW path \in Seq(Titles), NEW tbody \in Seq(BodyLine)
  PROVE  ParagraphFacts(path, tbody) \in Seq(Facts)
<1> DEFINE runs == RunsOf(tbody)
           P == {k \in DOMAIN runs : IsParagraph(runs[k])}
           Kept == {runs[k] : k \in P}
           kept == Only(runs, P)
           facts == [k \in DOMAIN kept |-> ParagraphFact(path, kept[k])]
<1>1. \A r \in Kept : Says(r) \in Seq(Texts)
  <2>1. runs \in Seq(Seq({l \in BodyLine : l.mark # "blank"}))
    BY RunsTyped
  <2> HIDE DEF runs
  <2>2. \A k \in DOMAIN runs : runs[k] \in Seq({l \in BodyLine : l.mark # "blank"})
    BY <2>1, LenProperties
  <2> QED
    BY <2>2, ParagraphSays
<1>2. kept \in Seq(Kept)
  <2>1. runs \in Seq(Seq({l \in BodyLine : l.mark # "blank"}))
    BY RunsTyped
  <2> HIDE DEF runs
  <2>2. P \in SUBSET (DOMAIN runs)
    OBVIOUS
  <2> HIDE DEF P
  <2> QED
    BY <2>1, <2>2, OnlySome
<1>3. facts \in Seq(Facts)
  <2> HIDE DEF kept, Kept
  <2>1. DOMAIN kept = 1..Len(kept) /\ Len(kept) \in Nat /\ \A k \in 1..Len(kept) : kept[k] \in Kept
    BY <1>2, LenProperties
  <2>2. \A k \in 1..Len(kept) : ParagraphFact(path, kept[k]) \in Facts
    BY <1>1, <2>1, ParagraphFactTyped
  <2>3. facts \in [1..Len(kept) -> Facts]
    BY <2>1, <2>2
  <2> HIDE DEF facts
  <2> QED
    BY <2>1, <2>3, SeqDef
<1>4. ParagraphFacts(path, tbody) = facts
  BY DEF ParagraphFacts, RunsOf, EndOf
<1> HIDE DEF facts
<1> QED
  BY <1>3, <1>4

(* All facts of a section.                                                    *)
LEMMA FactsTyped ==
  ASSUME NEW path \in Seq(Titles), NEW tbody \in Seq(BodyLine)
  PROVE  FactsOf(path, tbody) \in Seq(Facts)
<1>1. tbody \in Seq(Line)
  BY BodyLines
<1>2. TableFacts(path, tbody) \o BulletFacts(path, tbody) \in Seq(Facts)
  BY <1>1, TableFactsTyped, BulletFactsTyped, ConcatProperties
<1> QED
  BY <1>2, ParagraphFactsTyped, ConcatProperties DEF FactsOf

(* The fact of a JSON entry, if it states one.                                *)
LEMMA EntryTyped ==
  ASSUME NEW e \in Entry
  PROVE  FactsOfEntry(e) \in Seq(Facts)
<1>1. /\ e.field \in Titles /\ e.says \in Texts /\ e.detail \in Texts /\ e.id \in Marks
      /\ FieldKind[e.field] \in Kinds
  BY IngestionConstants DEF Entry, IngestionConstants, Marks
<1>2. /\ <<e.field>> \in Seq(Titles) /\ <<e.says>> \in Excerpts
      /\ {e.says} \in SUBSET Texts /\ {e.detail} \in SUBSET Texts /\ {e.says, e.detail} \in SUBSET Texts
      /\ \A t \in Range(<<e.says>>) : Holds({e.says}, t) /\ Holds({e.says, e.detail}, t)
  BY <1>1, OneText
<1>3. "text" \in Forms /\ "record" \in Forms /\ "requirement" \in Kinds /\ 2 \in 0..3 /\ {} \in SUBSET Texts
      /\ <<>> \in Tags
  BY DEF Forms, Kinds, Tags
<1>4. RecordFact(e) \in Facts
  <2> DEFINE unique == IF e.id = None THEN <<"detail", e.detail>> ELSE <<"id", e.id>>
             kind == FieldKind[e.field]
             priority == DetectPriority(<<e.field>>, {e.says, e.detail})
  <2>1. <<"detail", e.detail>> \in Tags /\ <<"id", e.id>> \in Tags
    BY <1>1 DEF Marks, Tags
  <2>2. unique \in Tags
    BY <2>1
  <2>3. priority \in 0..3
    BY <1>2, PriorityTyped
  <2>4. {e.id} \ {None} \in SUBSET Texts
    BY <1>1 DEF Marks
  <2>5. RecordFact(e) = Fact(<<kind, "record", <<e.says>>, unique>>, kind, priority, <<e.field>>, {e.says},
                             {e.says, e.detail}, {e.id} \ {None})
    BY Zenon DEF RecordFact
  <2> HIDE DEF unique, priority
  <2>6. Fact(<<kind, "record", <<e.says>>, unique>>, kind, priority, <<e.field>>, {e.says},
             {e.says, e.detail}, {e.id} \ {None}) \in Facts
    BY <1>1, <1>2, <1>3, <2>2, <2>3, <2>4, FactTyped, Zenon
  <2> QED
    BY <2>5, <2>6
<1>5. LeafFact(e) \in Facts
  <2>1. Fact(<<"requirement", "text", <<e.says>>, <<>>>>, "requirement", 2, <<e.field>>, {e.detail},
             {e.says}, {}) \in Facts
    BY <1>2, <1>3, FactTyped, Zenon
  <2> QED
    BY <2>1 DEF LeafFact, TextKey
<1>6. <<>> \in Seq(Facts) /\ <<RecordFact(e)>> \in Seq(Facts) /\ <<LeafFact(e)>> \in Seq(Facts)
  BY <1>4, <1>5
<1> QED
  BY <1>6, Zenon DEF FactsOfEntry

\* A mention is a fact in a document.
Mentions == [fact : Facts, doc : Names]

(* The facts of a document are mentions.                                      *)
LEMMA FromTyped ==
  ASSUME NEW d \in Document, NEW facts \in Seq(Facts)
  PROVE  From(d, facts) \in Seq(Mentions)
<1>1. DOMAIN facts = 1..Len(facts) /\ Len(facts) \in Nat /\ \A k \in 1..Len(facts) : facts[k] \in Facts
  BY LenProperties
<1>2. d.name \in Names
  BY DEF Document
<1>3. From(d, facts) \in [1..Len(facts) -> Mentions]
  BY <1>1, <1>2 DEF From, Mentions
<1> QED
  BY <1>1, <1>3, SeqDef

-----------------------------------------------------------------------------
(* What an item must tell of the mentions of its fact.                        *)
Item == [key : Keys, kind : Kinds, title : SUBSET Texts, detail : SUBSET Texts,
         priority : 0..3, native : SUBSET Texts, sections : Seq(Seq(Titles)), docs : Seq(Names)]

\* No section is found in the text of one before it.
NoneWithin(sections) ==
    \A k, n \in DOMAIN sections : k < n => ~PartOfPath(sections[n], sections[k])

Tells(item, said) ==
    /\ \E m \in said : m.fact.priority = item.priority
    /\ \A m \in said : item.priority <= m.fact.priority
    /\ item.native = UNION {m.fact.native : m \in said}
    /\ \E m \in said : m.fact.detail = item.detail
    /\ Range(item.sections) \subseteq {m.fact.section : m \in said}
    /\ Range(item.docs) \subseteq {m.doc : m \in said}
    /\ NoneWithin(item.sections)
    /\ \A m \in said :
        /\ \E s \in Range(item.sections) : PartOfPath(m.fact.section, s)
        /\ \E d \in Range(item.docs) : SameName(m.doc, d)

(* A sequence with one more element at its end.                               *)
LEMMA Appended ==
  ASSUME NEW T, NEW s \in Seq(T), NEW e \in T
  PROVE  /\ Append(s, e) \in Seq(T) /\ Len(Append(s, e)) = Len(s) + 1
         /\ \A i \in 1..Len(s) : Append(s, e)[i] = s[i]
         /\ Append(s, e)[Len(s) + 1] = e
  BY AppendProperties, SMTT(30)

(* A name that is joined to those recorded is one of them, or a part of one.  *)
LEMMA JoinedRange ==
  ASSUME NEW T, NEW recorded \in Seq(T), NEW new \in T
  PROVE  /\ Append(recorded, new) \in Seq(T)
         /\ Range(Append(recorded, new)) = Range(recorded) \cup {new}
<1> DEFINE t == Append(recorded, new)
           n == Len(recorded)
<1>1. t \in Seq(T) /\ Len(t) = n + 1 /\ (\A i \in 1..n : t[i] = recorded[i]) /\ t[n + 1] = new
  BY Appended
<1>2. DOMAIN t = 1..(n + 1) /\ DOMAIN recorded = 1..n /\ n \in Nat
  BY <1>1, LenProperties
<1>3. DOMAIN t = DOMAIN recorded \cup {n + 1}
  <2> HIDE DEF t, n
  <2> QED
    BY <1>2
<1>4. Range(t) = Range(recorded) \cup {new}
  <2> HIDE DEF t, n
  <2>1. \A i \in DOMAIN recorded : t[i] = recorded[i]
    BY <1>1, <1>2
  <2> QED
    BY <1>1, <1>3, <2>1 DEF Range
<1> QED
  BY <1>1, <1>4

JoinSections(recorded, new) == Joined(recorded, new, PartOfPath)
JoinNames(recorded, new) == Joined(recorded, new, SameName)

(* A path is found in its own text.                                           *)
LEMMA PathInItself ==
  ASSUME NEW p \in Seq(Titles)
  PROVE  PartOfPath(p, p)
<1>1. Len(p) \in Nat /\ DOMAIN p = 1..Len(p) /\ 0 \in 0..(Len(p) - Len(p))
  BY LenProperties
<1>2. \A n \in DOMAIN p : p[n] = p[0 + n]
  BY <1>1
<1> QED
  BY <1>1, <1>2 DEF PartOfPath

(* Of the sections joined so far nothing is lost, nothing but the new one is  *)
(* added, and the new one is a part of one of them.                           *)
LEMMA JoinedSections ==
  ASSUME NEW recorded \in Seq(Seq(Titles)), NEW new \in Seq(Titles),
         NEW joined, joined = JoinSections(recorded, new)
  PROVE  /\ joined \in Seq(Seq(Titles))
         /\ Range(recorded) \subseteq Range(joined)
         /\ Range(joined) \subseteq Range(recorded) \cup {new}
         /\ \E s \in Range(joined) : PartOfPath(new, s)
         /\ NoneWithin(recorded) => NoneWithin(joined)
<1>1. CASE \E k \in DOMAIN recorded : PartOfPath(new, recorded[k])
  <2>1. joined = recorded
    BY <1>1 DEF Joined, JoinSections
  <2>2. \E s \in Range(recorded) : PartOfPath(new, s)
    BY <1>1 DEF Range
  <2> QED
    BY <2>1, <2>2
<1>2. CASE ~ \E k \in DOMAIN recorded : PartOfPath(new, recorded[k])
  <2>1. joined = Append(recorded, new)
    BY <1>2 DEF Joined, JoinSections
  <2>2. PartOfPath(new, new)
    BY PathInItself
  <2>3. Append(recorded, new) \in Seq(Seq(Titles)) /\ Range(Append(recorded, new)) = Range(recorded) \cup {new}
    BY JoinedRange
  <2>4. ASSUME NoneWithin(recorded) PROVE NoneWithin(Append(recorded, new))
    <3> DEFINE longer == Append(recorded, new)
               n == Len(recorded)
    <3>1. n \in Nat /\ DOMAIN recorded = 1..n /\ longer \in Seq(Seq(Titles)) /\ Len(longer) = n + 1
          /\ (\A i \in 1..n : longer[i] = recorded[i]) /\ longer[n + 1] = new
      BY Appended, LenProperties
    <3>2. DOMAIN longer = 1..(n + 1)
      BY <3>1, LenProperties
    <3> HIDE DEF longer, n
    <3>3. ASSUME NEW a \in DOMAIN longer, NEW b \in DOMAIN longer, a < b
          PROVE  ~PartOfPath(longer[b], longer[a])
      <4>1. a \in 1..n /\ a \in DOMAIN recorded /\ longer[a] = recorded[a]
        BY <3>1, <3>2, <3>3
      <4>2. CASE b = n + 1
        BY <1>2, <3>1, <4>1, <4>2
      <4>3. CASE b # n + 1
        <5>1. b \in DOMAIN recorded /\ longer[b] = recorded[b]
          BY <3>1, <3>2, <4>3
        <5>2. ~PartOfPath(recorded[b], recorded[a])
          BY <2>4, <3>3, <4>1, <5>1 DEF NoneWithin
        <5> QED
          BY <4>1, <5>1, <5>2
      <4> QED
        BY <4>2, <4>3
    <3>4. NoneWithin(longer)
      BY <3>3 DEF NoneWithin
    <3> QED
      BY <3>4 DEF longer
  <2> QED
    BY <2>1, <2>2, <2>3, <2>4
<1> QED
  BY <1>1, <1>2

(* And of the names of documents.                                             *)
LEMMA JoinedNames ==
  ASSUME NEW recorded \in Seq(Names), NEW new \in Names,
         NEW joined, joined = JoinNames(recorded, new)
  PROVE  /\ joined \in Seq(Names)
         /\ Range(recorded) \subseteq Range(joined)
         /\ Range(joined) \subseteq Range(recorded) \cup {new}
         /\ \E d \in Range(joined) : SameName(new, d)
<1>1. CASE \E k \in DOMAIN recorded : SameName(new, recorded[k])
  <2>1. joined = recorded
    BY <1>1 DEF Joined, JoinNames
  <2>2. \E s \in Range(recorded) : SameName(new, s)
    BY <1>1 DEF Range
  <2> QED
    BY <2>1, <2>2
<1>2. CASE ~ \E k \in DOMAIN recorded : SameName(new, recorded[k])
  <2>1. joined = Append(recorded, new)
    BY <1>2 DEF Joined, JoinNames
  <2>2. SameName(new, new)
    BY DEF SameName
  <2>3. Append(recorded, new) \in Seq(Names) /\ Range(Append(recorded, new)) = Range(recorded) \cup {new}
    BY JoinedRange
  <2> QED
    BY <2>1, <2>2, <2>3
<1> QED
  BY <1>1, <1>2

(* An item that tells what was said of a fact still does when it is merged    *)
(* with one more mention; and a new item tells the only one.                  *)
LEMMA MergeTells ==
  ASSUME NEW item \in Item, NEW said \in SUBSET Mentions, Tells(item, said), NEW m0 \in Mentions
  PROVE  /\ Merge(item, m0.fact, m0.doc) \in Item
         /\ Merge(item, m0.fact, m0.doc).key = item.key
         /\ Tells(Merge(item, m0.fact, m0.doc), said \cup {m0})
<1> DEFINE f == m0.fact
           d == m0.doc
           sections == JoinSections(item.sections, f.section)
           docs2 == JoinNames(item.docs, d)
           native == item.native \cup f.native
           priority == IF f.priority < item.priority THEN f.priority ELSE item.priority
           new == Merge(item, f, d)
<1>1. /\ f \in Facts /\ d \in Names /\ f.section \in Seq(Titles) /\ f.native \in SUBSET Texts
      /\ f.priority \in 0..3 /\ \A m \in said : m.fact.priority \in 0..3
  BY DEF Mentions, Facts
<1>2. /\ item.sections \in Seq(Seq(Titles)) /\ item.docs \in Seq(Names)
      /\ item.native \in SUBSET Texts /\ item.priority \in 0..3
  BY DEF Item
<1>3. /\ sections \in Seq(Seq(Titles)) /\ Range(item.sections) \subseteq Range(sections)
      /\ Range(sections) \subseteq Range(item.sections) \cup {f.section}
      /\ \E s \in Range(sections) : PartOfPath(f.section, s)
      /\ NoneWithin(item.sections) => NoneWithin(sections)
  <2> HIDE DEF f
  <2> QED
    BY <1>1, <1>2, JoinedSections
<1>4. /\ docs2 \in Seq(Names) /\ Range(item.docs) \subseteq Range(docs2)
      /\ Range(docs2) \subseteq Range(item.docs) \cup {d}
      /\ \E s \in Range(docs2) : SameName(d, s)
  <2> HIDE DEF d
  <2> QED
    BY <1>1, <1>2, JoinedNames
<1>5. /\ new.key = item.key /\ new.kind = item.kind /\ new.detail = item.detail
      /\ new.priority = priority /\ new.native = native
      /\ new.sections = sections /\ new.docs = docs2
  BY DEF Merge, Item, JoinSections, JoinNames
<1>6. new \in Item
  <2>1. priority \in 0..3 /\ native \in SUBSET Texts
    BY <1>1, <1>2
  <2>2. new = [item EXCEPT !.sections = sections, !.docs = docs2, !.native = native, !.priority = priority]
    BY DEF Merge, JoinSections, JoinNames
  <2> HIDE DEF new, sections, docs2, native, priority
  <2> QED
    BY <1>3, <1>4, <2>1, <2>2 DEF Item
<1>7. (\E m \in said : m.fact.priority = item.priority) /\ \A m \in said : item.priority <= m.fact.priority
  BY DEF Tells
<1>8. priority <= f.priority /\ priority <= item.priority /\ priority \in {f.priority, item.priority}
      /\ priority \in Int
  BY <1>1, <1>2
<1>9. \E m \in said \cup {m0} : m.fact.priority = priority
  <2> HIDE DEF priority
  <2> QED
    BY <1>7, <1>8
<1>10. \A m \in said \cup {m0} : priority <= m.fact.priority
  <2> HIDE DEF priority
  <2> SUFFICES ASSUME NEW m \in said PROVE priority <= m.fact.priority
    BY <1>8
  <2>1. priority <= item.priority /\ item.priority <= m.fact.priority
    BY <1>7, <1>8
  <2>2. priority \in Int /\ item.priority \in Int /\ m.fact.priority \in Int
    BY <1>1, <1>2, <1>8
  <2>3. \A x, y, z \in Int : x <= y /\ y <= z => x <= z
    OBVIOUS
  <2> QED
    BY <2>1, <2>2, <2>3, Zenon
<1>11. native = UNION {m.fact.native : m \in said \cup {m0}}
  <2>1. item.native = UNION {m.fact.native : m \in said}
    BY DEF Tells
  <2> QED
    BY <2>1
<1>12. /\ Range(sections) \subseteq {m.fact.section : m \in said \cup {m0}}
       /\ Range(docs2) \subseteq {m.doc : m \in said \cup {m0}}
  <2>1. /\ Range(item.sections) \subseteq {m.fact.section : m \in said}
        /\ Range(item.docs) \subseteq {m.doc : m \in said}
    BY DEF Tells
  <2> HIDE DEF sections, docs2
  <2> QED
    BY <1>3, <1>4, <2>1
<1>13. \A m \in said \cup {m0} :
          /\ \E s \in Range(sections) : PartOfPath(m.fact.section, s)
          /\ \E s \in Range(docs2) : SameName(m.doc, s)
  <2>1. \A m \in said : /\ \E s \in Range(item.sections) : PartOfPath(m.fact.section, s)
                        /\ \E s \in Range(item.docs) : SameName(m.doc, s)
    BY DEF Tells
  <2> HIDE DEF sections, docs2
  <2> QED
    BY <1>3, <1>4, <2>1
<1>14. NoneWithin(sections) /\ \E m \in said \cup {m0} : m.fact.detail = item.detail
  <2>1. NoneWithin(item.sections) /\ \E m \in said : m.fact.detail = item.detail
    BY DEF Tells
  <2> HIDE DEF sections
  <2> QED
    BY <1>3, <2>1
<1>15. Tells(new, said \cup {m0})
  <2> HIDE DEF new, sections, docs2, native, priority
  <2> QED
    BY <1>5, <1>9, <1>10, <1>11, <1>12, <1>13, <1>14, Zenon DEF Tells
<1> QED
  BY <1>5, <1>6, <1>15

(* A new item tells the one mention it is made of.                            *)
LEMMA NewTells ==
  ASSUME NEW m0 \in Mentions
  PROVE  /\ NewItem(m0.fact, m0.doc) \in Item
         /\ NewItem(m0.fact, m0.doc).key = m0.fact.key
         /\ Tells(NewItem(m0.fact, m0.doc), {m0})
<1> DEFINE f == m0.fact
           d == m0.doc
           new == NewItem(f, d)
<1>1. f \in Facts /\ d \in Names /\ f.section \in Seq(Titles) /\ f.priority \in 0..3
  BY DEF Mentions, Facts
<1>2. <<f.section>> \in Seq(Seq(Titles)) /\ <<d>> \in Seq(Names)
  <2> HIDE DEF f, d
  <2> QED
    BY <1>1
<1>3. new \in Item
  <2> HIDE DEF f, d
  <2> QED
    BY <1>1, <1>2 DEF NewItem, Item, Facts
<1>4. Range(<<f.section>>) = {f.section} /\ Range(<<d>>) = {d}
  BY DEF Range
<1>5. SameName(d, d) /\ PartOfPath(f.section, f.section) /\ NoneWithin(<<f.section>>)
  <2>1. \A k, n \in DOMAIN <<f.section>> : ~(k < n)
    OBVIOUS
  <2> HIDE DEF f
  <2> QED
    BY <1>1, <2>1, PathInItself DEF SameName, NoneWithin
<1>6. /\ new.priority = f.priority /\ new.native = f.native /\ new.key = f.key /\ new.detail = f.detail
      /\ new.sections = <<f.section>> /\ new.docs = <<d>>
  BY DEF NewItem
<1>7. Tells(new, {m0})
  <2> HIDE DEF new
  <2> QED
    BY <1>1, <1>4, <1>5, <1>6 DEF Tells
<1> QED
  BY <1>3, <1>6, <1>7

-----------------------------------------------------------------------------
(* The open headings.                                                         *)
Open(lines, n) ==
    {h \in 1..n : /\ lines[h].level > 0
                  /\ \A k \in (h + 1)..n : lines[k].level = 0 \/ lines[k].level > lines[h].level}

\* What closing leaves of the open headings s.
Kept(lines, s, level) ==
    SubSeq(s, 1, Max({0} \cup {k \in DOMAIN s : lines[s[k]].level < level}))

(* A bounded set of natural numbers has a greatest element, and Max is it.    *)
LEMMA Greatest ==
  ASSUME NEW c \in Nat, NEW S \in SUBSET (0..c), S # {}
  PROVE  Max(S) \in S /\ \A x \in S : x <= Max(S)
<1> DEFINE T == {c - x : x \in S}
<1>1. T \in SUBSET Nat /\ T # {}
  <2>1. \A x \in S : c - x \in Nat
    OBVIOUS
  <2> QED
    BY <2>1
<1>2. PICK y \in T : \A z \in T : y <= z
  <2> HIDE DEF T
  <2> QED
    BY <1>1, Least
<1>3. PICK m \in S : y = c - m
  BY <1>2
<1>4. \A x \in S : m >= x
  <2> SUFFICES ASSUME NEW x \in S PROVE m >= x
    OBVIOUS
  <2>1. y <= c - x
    BY <1>2
  <2>2. x \in 0..c /\ m \in 0..c
    OBVIOUS
  <2> QED
    BY <1>3, <2>1, <2>2
<1>5. Max(S) \in S /\ \A x \in S : Max(S) >= x
  BY <1>4 DEF Max
<1> QED
  BY <1>5

(* A heading closes those of its own level and below: it comes last of those  *)
(* that stay open.                                                            *)
LEMMA HeadingCloses ==
  ASSUME NEW lines \in Seq(Line), NEW n \in Nat, n < Len(lines), lines[n + 1].level > 0
  PROVE  Append(Kept(lines, Outline(lines, n), lines[n + 1].level), n + 1) = Outline(lines, n + 1)
<1> DEFINE A == Open(lines, n)
           B == Open(lines, n + 1)
           L == lines[n + 1].level
           c == Cardinality(A)
           t == InOrder(A)
           M == {0} \cup {k \in DOMAIN t : lines[t[k]].level < L}
           m == Max(M)
           u == Append(SubSeq(t, 1, m), n + 1)
<1>1. \A h \in 1..(n + 1) : lines[h].level \in 0..6
  <2>1. Len(lines) \in Nat /\ \A h \in 1..Len(lines) : lines[h] \in Line
    BY LenProperties
  <2> QED
    BY <2>1, LineTyped
<1>2. A \in SUBSET Nat /\ IsFiniteSet(A) /\ A \in SUBSET (1..n)
  <2>1. A \in SUBSET (1..n) /\ IsFiniteSet(1..n)
    BY FS_Interval DEF Open
  <2>2. 1..n \in SUBSET Nat
    OBVIOUS
  <2> HIDE DEF A
  <2> QED
    BY <2>1, <2>2, FS_Subset
<1>3. /\ c \in Nat /\ t \in [1..c -> A]
      /\ \A j, k \in 1..c : j < k => t[j] < t[k]
      /\ \A h \in A : \E k \in 1..c : t[k] = h
  <2> HIDE DEF A
  <2> QED
    BY <1>2, InOrderSorts, InOrderIncreases
<1>4. \A k \in 1..c : t[k] \in 1..n /\ t[k] \in A /\ lines[t[k]].level \in 0..6
  <2> HIDE DEF A, t, c
  <2>1. \A k \in 1..c : t[k] \in 1..n /\ t[k] \in A
    BY <1>2, <1>3
  <2> QED
    BY <1>1, <2>1
<1>5. ASSUME NEW j \in 1..c, NEW k \in 1..c, j < k PROVE lines[t[j]].level < lines[t[k]].level
  <2> HIDE DEF t, c
  <2>1. t[k] \in (t[j] + 1)..n
    <3>1. t[j] < t[k] /\ t[j] \in 1..n /\ t[k] \in 1..n
      BY <1>3, <1>4, <1>5
    <3> QED
      BY <3>1
  <2>2. lines[t[k]].level > 0
    BY <1>4 DEF Open
  <2>3. lines[t[k]].level = 0 \/ lines[t[k]].level > lines[t[j]].level
    BY <1>4, <2>1 DEF Open
  <2> QED
    BY <1>4, <2>2, <2>3
<1>6. m \in M /\ (\A k \in M : k <= m) /\ m \in 0..c
  <2>1. M \in SUBSET (0..c) /\ M # {}
    BY <1>3
  <2>2. m \in M /\ \A k \in M : k <= m
    <3> HIDE DEF M, c
    <3> QED
      BY <1>3, <2>1, Greatest
  <2> HIDE DEF M, c, m
  <2> QED
    BY <2>1, <2>2
<1>7. m \in 0..c
  BY <1>6
<1>8. \A k \in 1..c : k <= m <=> lines[t[k]].level < L
  <2> SUFFICES ASSUME NEW k \in 1..c PROVE k <= m <=> lines[t[k]].level < L
    OBVIOUS
  <2>1. lines[t[k]].level < L => k <= m
    <3>1. lines[t[k]].level < L => k \in M
      BY <1>3
    <3> HIDE DEF M, m
    <3> QED
      BY <1>6, <3>1
  <2>2. ASSUME k <= m PROVE lines[t[k]].level < L
    <3>1. m \in 1..c /\ lines[t[m]].level < L
      <4>1. m # 0
        BY <1>7, <2>2
      <4>2. m \in DOMAIN t /\ lines[t[m]].level < L
        <5> HIDE DEF m
        <5> QED
          BY <1>6, <4>1
      <4> HIDE DEF t, m, c
      <4> QED
        BY <1>3, <4>2
    <3>2. k = m \/ k < m
      <4> HIDE DEF m
      <4> QED
        BY <1>7, <2>2
    <3>3. L \in 0..6 /\ lines[t[k]].level \in 0..6 /\ lines[t[m]].level \in 0..6
      <4> HIDE DEF m, t, c
      <4> QED
        BY <1>1, <1>4, <3>1
    <3>4. k < m => lines[t[k]].level < lines[t[m]].level
      <4> HIDE DEF m, t, c
      <4> QED
        BY <1>5, <3>1
    <3>5. \A x, y, z \in 0..6 : x < y /\ y < z => x < z
      OBVIOUS
    <3> HIDE DEF m, t, L
    <3>6. CASE k = m
      BY <3>1, <3>6
    <3>7. CASE k < m
      BY <3>1, <3>3, <3>4, <3>5, <3>7, Zenon
    <3> QED
      BY <3>2, <3>6, <3>7
  <2> QED
    BY <2>1, <2>2
<1>9. B \in SUBSET Nat /\ n + 1 \in B /\ \A h \in 1..n : h \in B <=> h \in A /\ lines[h].level < L
  <2>1. B \in SUBSET (1..(n + 1))
    BY DEF Open
  <2>2. n + 1 \in B
    BY DEF Open
  <2>3. ASSUME NEW h \in 1..n PROVE h \in B <=> h \in A /\ lines[h].level < L
    <3>1. \A k : k \in (h + 1)..(n + 1) <=> k \in (h + 1)..n \/ k = n + 1
      OBVIOUS
    <3>2. L # 0 /\ L \in 0..6 /\ lines[h].level \in 0..6
      BY <1>1
    <3>3. L > lines[h].level <=> lines[h].level < L
      BY <3>2
    <3>4. h \in 1..(n + 1)
      OBVIOUS
    <3> QED
      BY <3>1, <3>2, <3>3, <3>4 DEF Open
  <2>4. 1..(n + 1) \in SUBSET Nat
    OBVIOUS
  <2> HIDE DEF B
  <2> QED
    BY <2>1, <2>2, <2>3, <2>4
<1>10. /\ u \in Seq(Nat) /\ Len(u) = m + 1
       /\ \A k \in 1..m : u[k] = t[k]
       /\ u[m + 1] = n + 1
  <2> HIDE DEF m, t, c, A
  <2>1. \A k \in 1..m : t[k] \in Nat
    <3>1. \A k \in 1..m : k \in 1..c
      BY <1>3, <1>7
    <3>2. \A k \in 1..c : t[k] \in 1..n
      BY <1>4
    <3>3. 1..n \subseteq Nat
      OBVIOUS
    <3> QED
      BY <3>1, <3>2, <3>3
  <2>2. /\ SubSeq(t, 1, m) \in Seq(Nat) /\ Len(SubSeq(t, 1, m)) = m
        /\ \A k \in 1..m : SubSeq(t, 1, m)[k] = t[k]
    <3>1. m \in Int /\ 1 \in Int /\ m \in Nat
      BY <1>7
    <3>2. Len(SubSeq(t, 1, m)) = IF 1 <= m THEN m - 1 + 1 ELSE 0
      BY <2>1, <3>1, SubSeqProperties
    <3>3. SubSeq(t, 1, m) \in Seq(Nat)
      BY <2>1, <3>1, SubSeqProperties
    <3>4. \A k \in 1..(m - 1 + 1) : SubSeq(t, 1, m)[k] = t[1 + k - 1]
      BY <2>1, <3>1, SubSeqProperties
    <3> QED
      BY <3>1, <3>2, <3>3, <3>4
  <2> QED
    BY <2>2, AppendProperties
<1>11. u \in [1..(m + 1) -> B]
  <2>1. ASSUME NEW k \in 1..(m + 1) PROVE u[k] \in B
    <3>1. k = m + 1 \/ (k \in 1..m /\ k \in 1..c /\ k <= m)
      <4> HIDE DEF m
      <4> QED
        BY <1>3, <1>7
    <3> HIDE DEF m, u, B, t, c, A, L
    <3> QED
      BY <1>4, <1>8, <1>9, <1>10, <3>1
  <2> HIDE DEF m, u, B
  <2> QED
    BY <1>10, <2>1, LenProperties
<1>12. \A j, k \in 1..(m + 1) : j < k => u[j] < u[k]
  <2> SUFFICES ASSUME NEW j \in 1..(m + 1), NEW k \in 1..(m + 1), j < k PROVE u[j] < u[k]
    OBVIOUS
  <2>1. j \in 1..m /\ j \in 1..c /\ (k = m + 1 \/ (k \in 1..m /\ k \in 1..c))
    <3> HIDE DEF m
    <3> QED
      BY <1>3, <1>7
  <2> HIDE DEF m, u, B, t, c, A, L
  <2>2. u[j] = t[j] /\ t[j] \in 1..n
    BY <1>4, <1>10, <2>1
  <2>3. CASE k = m + 1
    BY <1>10, <2>2, <2>3
  <2>4. CASE k \in 1..m /\ k \in 1..c
    BY <1>3, <1>10, <2>1, <2>2, <2>4
  <2> QED
    BY <2>1, <2>3, <2>4
<1>13. \A h \in B : \E k \in 1..(m + 1) : u[k] = h
  <2> SUFFICES ASSUME NEW h \in B PROVE \E k \in 1..(m + 1) : u[k] = h
    OBVIOUS
  <2>1. h = n + 1 \/ h \in 1..n
    BY DEF Open
  <2>2. CASE h = n + 1
    <3>1. m + 1 \in 1..(m + 1)
      <4> HIDE DEF m
      <4> QED
        BY <1>7
    <3> QED
      BY <1>10, <2>2, <3>1
  <2>3. CASE h \in 1..n
    <3> HIDE DEF m, u, B, t, c, A, L
    <3>1. h \in A /\ lines[h].level < L
      BY <1>9, <2>3
    <3>2. PICK k \in 1..c : t[k] = h
      BY <1>3, <3>1
    <3>3. k <= m
      BY <1>8, <3>1, <3>2
    <3>4. k \in 1..m /\ k \in 1..(m + 1)
      BY <1>7, <3>3
    <3> QED
      BY <1>10, <3>2, <3>4
  <2> QED
    BY <2>1, <2>2, <2>3
<1>14. m + 1 \in Nat
  <2> HIDE DEF m
  <2> QED
    BY <1>7
<1>15. InOrder(B) = u
  <2> HIDE DEF m, u, B, t, c, A, L
  <2> QED
    BY <1>9, <1>11, <1>12, <1>13, <1>14, InOrderUnique
<1>16. Outline(lines, n) = t /\ Outline(lines, n + 1) = InOrder(B)
  BY DEF Outline, Open
<1> QED
  BY <1>15, <1>16 DEF Kept

-----------------------------------------------------------------------------
(* q units of d items fit into n items if and only if q is at most the        *)
(* quotient.                                                                  *)
LEMMA Quotient ==
  ASSUME NEW d \in Nat, d > 0, NEW n \in Nat, NEW q \in Nat
  PROVE  q * d <= n <=> q <= n \div d
<1> DEFINE x == n \div d
           r == n % d
<1>1. x \in Nat /\ r \in 0..d - 1 /\ n = x * d + r /\ x * d \in Nat
  BY DivMod
<1> HIDE DEF x, r
<1>2. ASSUME q <= x PROVE q * d <= n
  <2>1. q * d <= x * d /\ q * d \in Int /\ x * d \in Int
    BY <1>1, <1>2, Times
  <2> QED
    BY <1>1, <2>1
<1>3. ASSUME q > x PROVE ~(q * d <= n)
  <2>1. (x + 1) * d <= q * d /\ q * d \in Int /\ (x + 1) * d \in Int
    BY <1>1, <1>3, Times
  <2>2. (x + 1) * d = x * d + d
    BY <1>1
  <2> QED
    BY <1>1, <2>1, <2>2
<1> QED
  BY <1>1, <1>2, <1>3 DEF x

(* Items of one unit differ by less than its size, and more items make no     *)
(* fewer units.                                                               *)
LEMMA Slicing ==
  ASSUME NEW d \in Nat, d > 0, NEW a \in Nat, NEW b \in Nat
  PROVE  /\ a \div d \in Nat /\ (a \div d) * d \in Nat /\ a - (a \div d) * d \in 0..(d - 1)
         /\ a <= b => a \div d <= b \div d
<1> DEFINE x == a \div d
           y == b \div d
           w == x * d
<1>1. x \in Nat /\ w \in Nat /\ a % d \in 0..(d - 1) /\ a = w + (a % d)
  BY DivMod
<1>2. a - w \in 0..(d - 1)
  <2> DEFINE r == a % d
  <2>1. r \in 0..(d - 1) /\ a = w + r
    BY <1>1
  <2> HIDE DEF w, r
  <2> QED
    BY <1>1, <2>1
<1>3. ASSUME a <= b PROVE x <= y
  <2>1. x * d <= a /\ x * d \in Nat
    <3>1. x <= a \div d
      BY <1>1
    <3> HIDE DEF x
    <3> QED
      BY <1>1, <3>1, Quotient DEF w
  <2>2. x * d <= b
    <3> HIDE DEF x
    <3> QED
      BY <1>3, <2>1
  <2> HIDE DEF x
  <2> QED
    BY <1>1, <2>2, Quotient
<1> QED
  BY <1>1, <1>2, <1>3

-----------------------------------------------------------------------------
(* Items are in a strict and total order, by severity, kind and position.     *)
Less(a, b) == \E n \in 1..3 : a[n] < b[n] /\ \A m \in 1..(n - 1) : a[m] = b[m]

(* The order of triples, spelled out.                                         *)
LEMMA LessIs ==
  ASSUME NEW a, NEW b
  PROVE  Less(a, b) <=> \/ a[1] < b[1]
                        \/ a[1] = b[1] /\ a[2] < b[2]
                        \/ a[1] = b[1] /\ a[2] = b[2] /\ a[3] < b[3]
<1>1. 1..3 = {1, 2, 3} /\ 1..(1 - 1) = {} /\ 1..(2 - 1) = {1} /\ 1..(3 - 1) = {1, 2}
  OBVIOUS
<1> QED
  BY <1>1, Zenon DEF Less

(* An item sorts by two numbers and its position, whatever its kind.          *)
LEMMA KeyTyped ==
  ASSUME items \in Seq(Item), NEW i \in DOMAIN items
  PROVE  Key(i)[1] \in Int /\ Key(i)[2] \in Int /\ Key(i)[3] = i /\ i \in Int
<1>1. items[i] \in Item /\ i \in Int
  BY LenProperties
<1>2. items[i].priority \in Int /\ items[i].kind \in Kinds
  BY <1>1 DEF Item
<1>3. DOMAIN KindsInOrder = 1..14
  BY DEF KindsInOrder
<1>4. \A kind \in Kinds : \E k \in 1..14 : KindsInOrder[k] = kind
  <2>1. Range(Precedence) = {"persona", "mock", "fixture", "environment", "risk", "gate",
                             "workload", "env_var", "selector"}
    <3>1. DOMAIN Precedence = 1..9
      BY DEF Precedence
    <3>2. 1..9 = {1, 2, 3, 4, 5, 6, 7, 8, 9}
      OBVIOUS
    <3> QED
      BY <3>1, <3>2 DEF Precedence, Range
  <2>2. \A k \in 1..14 : KindsInOrder[k] \in {KindsInOrder[n] : n \in 1..14}
    OBVIOUS
  <2>3. /\ KindsInOrder[1] = "component" /\ KindsInOrder[2] = "endpoint" /\ KindsInOrder[3] = "environment"
        /\ KindsInOrder[4] = "env_var" /\ KindsInOrder[5] = "fixture" /\ KindsInOrder[6] = "gate"
        /\ KindsInOrder[7] = "mock" /\ KindsInOrder[8] = "persona" /\ KindsInOrder[9] = "planned_case"
        /\ KindsInOrder[10] = "requirement" /\ KindsInOrder[11] = "risk" /\ KindsInOrder[12] = "route"
        /\ KindsInOrder[13] = "selector" /\ KindsInOrder[14] = "workload"
    BY DEF KindsInOrder
  <2>4. \A n \in {1, 2, 3, 4, 5, 6, 7, 8, 9, 10, 11, 12, 13, 14} : n \in 1..14
    OBVIOUS
  <2> QED
    BY <2>1, <2>3, <2>4 DEF Kinds
<1> DEFINE c == CHOOSE k \in DOMAIN KindsInOrder : KindsInOrder[k] = items[i].kind
<1>5. c \in 1..14
  BY <1>2, <1>3, <1>4
<1>6. Key(i) = <<items[i].priority, c, i>>
  BY Zenon DEF Key
<1> HIDE DEF c
<1> QED
  BY <1>1, <1>2, <1>5, <1>6

(* So of two items one comes before the other, and not both.                  *)
LEMMA BeforeOrder ==
  ASSUME items \in Seq(Item), NEW i \in DOMAIN items, NEW j \in DOMAIN items, NEW k \in DOMAIN items
  PROVE  /\ ~Before(i, i)
         /\ Before(i, j) /\ Before(j, k) => Before(i, k)
         /\ i # j => Before(i, j) \/ Before(j, i)
<1>1. /\ Key(i)[1] \in Int /\ Key(i)[2] \in Int /\ Key(i)[3] = i /\ i \in Int
      /\ Key(j)[1] \in Int /\ Key(j)[2] \in Int /\ Key(j)[3] = j /\ j \in Int
      /\ Key(k)[1] \in Int /\ Key(k)[2] \in Int /\ Key(k)[3] = k /\ k \in Int
  BY KeyTyped
<1>2. /\ Before(i, i) <=> Less(Key(i), Key(i))
      /\ Before(i, j) <=> Less(Key(i), Key(j))
      /\ Before(j, i) <=> Less(Key(j), Key(i))
      /\ Before(j, k) <=> Less(Key(j), Key(k))
      /\ Before(i, k) <=> Less(Key(i), Key(k))
  BY DEF Before, Less
<1>3. \A a1, a2, a3, b1, b2, b3, c1, c2, c3 \in Int :
        LET less(x1, x2, x3, y1, y2, y3) ==
              x1 < y1 \/ (x1 = y1 /\ x2 < y2) \/ (x1 = y1 /\ x2 = y2 /\ x3 < y3)
        IN  /\ ~less(a1, a2, a3, a1, a2, a3)
            /\ less(a1, a2, a3, b1, b2, b3) /\ less(b1, b2, b3, c1, c2, c3) => less(a1, a2, a3, c1, c2, c3)
            /\ a3 # b3 => less(a1, a2, a3, b1, b2, b3) \/ less(b1, b2, b3, a1, a2, a3)
  OBVIOUS
<1> DEFINE a1 == Key(i)[1]
           a2 == Key(i)[2]
           b1 == Key(j)[1]
           b2 == Key(j)[2]
           c1 == Key(k)[1]
           c2 == Key(k)[2]
<1>4. /\ Less(Key(i), Key(i)) <=> a1 < a1 \/ (a1 = a1 /\ a2 < a2) \/ (a1 = a1 /\ a2 = a2 /\ i < i)
      /\ Less(Key(i), Key(j)) <=> a1 < b1 \/ (a1 = b1 /\ a2 < b2) \/ (a1 = b1 /\ a2 = b2 /\ i < j)
      /\ Less(Key(j), Key(i)) <=> b1 < a1 \/ (b1 = a1 /\ b2 < a2) \/ (b1 = a1 /\ b2 = a2 /\ j < i)
      /\ Less(Key(j), Key(k)) <=> b1 < c1 \/ (b1 = c1 /\ b2 < c2) \/ (b1 = c1 /\ b2 = c2 /\ j < k)
      /\ Less(Key(i), Key(k)) <=> a1 < c1 \/ (a1 = c1 /\ a2 < c2) \/ (a1 = c1 /\ a2 = c2 /\ i < k)
  BY <1>1, LessIs, Zenon
<1>5. a1 \in Int /\ a2 \in Int /\ b1 \in Int /\ b2 \in Int /\ c1 \in Int /\ c2 \in Int
      /\ i \in Int /\ j \in Int /\ k \in Int
  BY <1>1
<1> HIDE DEF a1, a2, b1, b2, c1, c2
<1> QED
  BY <1>2, <1>4, <1>5

-----------------------------------------------------------------------------
(* The mates of an item are one set for all of them.                          *)
LEMMA MatesShared ==
  ASSUME items \in Seq(Item), NEW i \in DOMAIN items
  PROVE  /\ i \in Mates(i) /\ Mates(i) \in SUBSET DOMAIN items /\ IsFiniteSet(Mates(i))
         /\ Cardinality(Mates(i)) \in Nat
         /\ \A j \in Mates(i) : GroupOf(j) = GroupOf(i) /\ Mates(j) = Mates(i)
<1>1. DOMAIN items = 1..Len(items) /\ Len(items) \in Nat /\ IsFiniteSet(1..Len(items))
  BY LenProperties, FS_Interval
<1>2. Mates(i) \in SUBSET DOMAIN items /\ i \in Mates(i)
  BY Zenon DEF Mates
<1>3. IsFiniteSet(Mates(i))
  BY <1>1, <1>2, FS_Subset
<1>4. \A j \in Mates(i) : GroupOf(j) = GroupOf(i) /\ Mates(j) = Mates(i)
  <2> SUFFICES ASSUME NEW j \in Mates(i) PROVE GroupOf(j) = GroupOf(i) /\ Mates(j) = Mates(i)
    BY Zenon
  <2>1. GroupOf(j) = GroupOf(i)
    BY Zenon DEF Mates
  <2> QED
    BY <2>1, Zenon DEF Mates
<1> QED
  BY <1>2, <1>3, <1>4, FS_CardinalityType

(* How many of its mates come before an item tells it from them.              *)
Rank(i) == Cardinality({j \in Mates(i) : Before(j, i)})

(* Ranks are below the size of the group, grow in the order, and differ.      *)
LEMMA Ranked ==
  ASSUME items \in Seq(Item), NEW i \in DOMAIN items
  PROVE  /\ Rank(i) \in 0..(Cardinality(Mates(i)) - 1)
         /\ \A k \in Mates(i) : /\ Rank(k) \in 0..(Cardinality(Mates(i)) - 1)
                                /\ Before(i, k) => Rank(i) < Rank(k)
                                /\ Rank(i) = Rank(k) => i = k
<1>1. ASSUME NEW k \in Mates(i)
      PROVE  /\ k \in DOMAIN items /\ IsFiniteSet({j \in Mates(i) : Before(j, k)})
             /\ Rank(k) = Cardinality({j \in Mates(i) : Before(j, k)})
             /\ Rank(k) \in 0..(Cardinality(Mates(i)) - 1)
  <2>1. /\ k \in DOMAIN items /\ Mates(k) = Mates(i) /\ IsFiniteSet(Mates(i))
        /\ Mates(i) \in SUBSET DOMAIN items
    BY MatesShared
  <2>2. ~Before(k, k)
    BY <2>1, BeforeOrder
  <2>3. {j \in Mates(i) : Before(j, k)} \in SUBSET Mates(i) /\ k \notin {j \in Mates(i) : Before(j, k)}
    BY <2>2
  <2>4. Rank(k) = Cardinality({j \in Mates(i) : Before(j, k)})
    BY <2>1 DEF Rank
  <2>5. \A A \in SUBSET Mates(i) : k \notin A =>
           Cardinality(A) \in 0..(Cardinality(Mates(i)) - 1) /\ IsFiniteSet(A)
    BY <2>1, Fewer, FS_Subset
  <2> QED
    BY <2>1, <2>3, <2>4, <2>5, Zenon
<1>2. ASSUME NEW a \in Mates(i), NEW b \in Mates(i), Before(a, b)
      PROVE  Rank(a) < Rank(b)
  <2> DEFINE A == {j \in Mates(i) : Before(j, a)}
             B == {j \in Mates(i) : Before(j, b)}
  <2>1. \A j \in Mates(i) : j \in DOMAIN items
    BY MatesShared
  <2>2. A \in SUBSET B
    <3>1. \A j \in Mates(i) : Before(j, a) => Before(j, b)
      BY <1>2, <2>1, BeforeOrder
    <3> QED
      BY <3>1
  <2>3. a \in B /\ a \notin A
    BY <1>2, <2>1, BeforeOrder
  <2>4. IsFiniteSet(B) /\ Rank(a) = Cardinality(A) /\ Rank(b) = Cardinality(B)
    BY <1>1
  <2> HIDE DEF A, B
  <2> QED
    BY <2>2, <2>3, <2>4, Fewer
<1>3. i \in Mates(i) /\ \A k \in Mates(i) : k \in DOMAIN items
  BY MatesShared
<1>4. ASSUME NEW k \in Mates(i), Rank(i) = Rank(k) PROVE i = k
  <2>1. Rank(i) \in Int /\ Rank(k) \in Int
    <3>1. Rank(i) \in 0..(Cardinality(Mates(i)) - 1) /\ Rank(k) \in 0..(Cardinality(Mates(i)) - 1)
      BY <1>1, <1>3
    <3> QED
      BY <3>1
  <2>2. ~(Rank(i) < Rank(k)) /\ ~(Rank(k) < Rank(i))
    BY <1>4, <2>1
  <2>3. ~Before(i, k) /\ ~Before(k, i)
    BY <1>2, <1>3, <2>2
  <2> QED
    BY <1>3, <2>3, BeforeOrder
<1> QED
  BY <1>1, <1>2, <1>3, <1>4

(* A unit is the same seen from each of its items, is no larger than the      *)
(* limit, and lies in one stretch of the group.                               *)
UnitOf(i) == {j \in Mates(i) : Slice(j) = Slice(i)}

(* What a unit is like.                                                       *)
LEMMA UnitShape ==
  ASSUME items \in Seq(Item), NEW i \in DOMAIN items
  PROVE  /\ i \in UnitOf(i) /\ UnitOf(i) \in SUBSET Mates(i)
         /\ \A j \in UnitOf(i) : UnitOf(j) = UnitOf(i)
         /\ Cardinality(UnitOf(i)) <= MaxItemsPerUnit
         /\ \A a, b \in UnitOf(i) : \A j \in Mates(a) : Before(a, j) /\ Before(j, b) => j \in UnitOf(i)
<1> DEFINE M == MaxItemsPerUnit
           q == Slice(i)
<1>1. M \in Nat /\ M > 0
  BY IngestionConstants
<1>2. i \in UnitOf(i) /\ UnitOf(i) \in SUBSET Mates(i)
  BY MatesShared DEF UnitOf
<1>3. ASSUME NEW j \in UnitOf(i)
      PROVE  j \in DOMAIN items /\ Mates(j) = Mates(i) /\ Slice(j) = q /\ UnitOf(j) = UnitOf(i)
  <2>1. j \in Mates(i) /\ Slice(j) = q
    BY DEF UnitOf
  <2>2. j \in DOMAIN items /\ Mates(j) = Mates(i)
    BY <2>1, MatesShared
  <2> QED
    BY <2>1, <2>2 DEF UnitOf
<1>4. \A j \in Mates(i) : /\ Rank(j) \in Nat /\ Slice(j) = Rank(j) \div M
                          /\ Slice(j) \in Nat /\ Slice(j) * M \in Nat
                          /\ Rank(j) - Slice(j) * M \in 0..(M - 1)
  <2> SUFFICES ASSUME NEW j \in Mates(i)
               PROVE  /\ Rank(j) \in Nat /\ Slice(j) = Rank(j) \div M
                      /\ Slice(j) \in Nat /\ Slice(j) * M \in Nat
                      /\ Rank(j) - Slice(j) * M \in 0..(M - 1)
    OBVIOUS
  <2>1. Rank(j) \in Nat
    <3>1. Rank(j) \in 0..(Cardinality(Mates(i)) - 1)
      BY Ranked
    <3> QED
      BY <3>1
  <2>2. Slice(j) = Rank(j) \div M
    BY DEF Slice, Rank
  <2> HIDE DEF M
  <2> QED
    BY <1>1, <2>1, <2>2, Slicing
<1>5. Cardinality(UnitOf(i)) <= M
  <2> DEFINE f == [j \in UnitOf(i) |-> Rank(j) - q * M]
  <2>1. f \in [UnitOf(i) -> 0..(M - 1)]
    <3>1. \A j \in UnitOf(i) : Rank(j) - q * M \in 0..(M - 1)
      <4> SUFFICES ASSUME NEW j \in UnitOf(i) PROVE Rank(j) - q * M \in 0..(M - 1)
        OBVIOUS
      <4>1. Rank(j) - Slice(j) * M \in 0..(M - 1) /\ Slice(j) = q
        BY <1>2, <1>3, <1>4
      <4> QED
        BY <4>1, Zenon
    <3> HIDE DEF M, q
    <3> QED
      BY <3>1
  <2>2. \A a, b \in UnitOf(i) : f[a] = f[b] => a = b
    <3> SUFFICES ASSUME NEW a \in UnitOf(i), NEW b \in UnitOf(i), f[a] = f[b] PROVE a = b
      OBVIOUS
    <3>1. Rank(a) \in Nat /\ Rank(b) \in Nat /\ q * M \in Nat
      <4>1. Slice(i) * M \in Nat
        BY <1>2, <1>4
      <4> QED
        BY <1>2, <1>4, <4>1
    <3>2. Rank(a) - q * M = Rank(b) - q * M
      BY Zenon
    <3>3. Rank(a) = Rank(b)
      <4>1. \A x, y, z \in Int : x - z = y - z => x = y
        OBVIOUS
      <4>2. Rank(a) \in Int /\ Rank(b) \in Int /\ q * M \in Int
        BY <3>1
      <4> QED
        BY <3>2, <4>1, <4>2, Zenon
    <3>4. a \in DOMAIN items /\ b \in Mates(a)
      BY <1>2, <1>3
    <3> QED
      BY <3>3, <3>4, Ranked
  <2>3. IsFiniteSet(0..(M - 1)) /\ Cardinality(0..(M - 1)) = M
    BY <1>1, FS_Interval
  <2> HIDE DEF f, M
  <2> QED
    BY <2>1, <2>2, <2>3, NoMore
<1>6. ASSUME NEW a \in UnitOf(i), NEW b \in UnitOf(i), NEW j \in Mates(a), Before(a, j), Before(j, b)
      PROVE  j \in UnitOf(i)
  <2>1. /\ a \in DOMAIN items /\ Mates(a) = Mates(i) /\ Slice(a) = q
        /\ b \in DOMAIN items /\ Mates(b) = Mates(i) /\ Slice(b) = q
        /\ a \in Mates(i) /\ b \in Mates(i)
    BY <1>2, <1>3
  <2>2. j \in Mates(i) /\ j \in DOMAIN items /\ Mates(j) = Mates(i)
    BY <2>1, MatesShared
  <2>3. Rank(a) < Rank(j) /\ Rank(j) < Rank(b)
    BY <1>6, <2>1, <2>2, Ranked
  <2>4. Rank(a) \in Nat /\ Rank(j) \in Nat /\ Rank(b) \in Nat
    BY <1>4, <2>1, <2>2
  <2>5. Slice(a) <= Slice(j) /\ Slice(j) <= Slice(b) /\ Slice(j) \in Nat
    <3>1. Slice(a) = Rank(a) \div M /\ Slice(j) = Rank(j) \div M /\ Slice(b) = Rank(b) \div M
          /\ Slice(j) \in Nat
      BY <1>4, <2>1, <2>2
    <3>2. Rank(a) <= Rank(j) /\ Rank(j) <= Rank(b)
      BY <2>3, <2>4
    <3> HIDE DEF M
    <3>3. Rank(a) \div M <= Rank(j) \div M /\ Rank(j) \div M <= Rank(b) \div M
      BY <1>1, <2>4, <3>2, Slicing
    <3> QED
      BY <3>1, <3>3
  <2>6. Slice(j) = q
    <3>1. q \in Nat
      BY <1>4, <2>1
    <3> HIDE DEF q
    <3> QED
      BY <2>1, <2>5, <3>1
  <2> QED
    BY <2>2, <2>6 DEF UnitOf
<1> QED
  BY <1>2, <1>3, <1>5, <1>6

(* A group is cut into as few units as the limit allows.                      *)
LEMMA FewUnits ==
  ASSUME items \in Seq(Item), NEW i \in DOMAIN items,
         NEW cut \in SUBSET {UnitOf(j) : j \in Mates(i)}
  PROVE  MaxItemsPerUnit * (Cardinality(cut) - 1) < Cardinality(Mates(i))
<1> DEFINE M == MaxItemsPerUnit
           n == Cardinality(Mates(i))
           most == (n - 1) \div M
           f == [U \in cut |-> Slice(CHOOSE j \in Mates(i) : U = UnitOf(j))]
<1>1. M \in Nat /\ M > 0
  BY IngestionConstants
<1>2. /\ i \in Mates(i) /\ n \in Nat
      /\ \A j \in Mates(i) : Mates(j) = Mates(i) /\ Rank(j) \in 0..(n - 1)
  BY MatesShared, Ranked
<1>3. n - 1 \in Nat
  <2>1. Rank(i) \in 0..(n - 1)
    BY <1>2
  <2> HIDE DEF n
  <2> QED
    BY <1>2, <2>1
<1>4. \A j \in Mates(i) : Slice(j) \in 0..most
  <2> SUFFICES ASSUME NEW j \in Mates(i) PROVE Slice(j) \in 0..most
    OBVIOUS
  <2>1. Slice(j) = Rank(j) \div M
    BY DEF Slice, Rank
  <2>2. Rank(j) \in 0..(n - 1)
    BY <1>2
  <2> HIDE DEF M, n
  <2>3. Rank(j) \in Nat /\ Rank(j) <= n - 1
    BY <1>3, <2>2
  <2>4. Rank(j) \div M \in Nat /\ (n - 1) \div M \in Nat /\ Rank(j) \div M <= (n - 1) \div M
    BY <1>1, <1>3, <2>3, Slicing
  <2> QED
    BY <2>1, <2>4
<1>5. \A U \in cut : \E j \in Mates(i) : U = UnitOf(j)
  OBVIOUS
<1>6. f \in [cut -> 0..most]
  <2> HIDE DEF most
  <2> QED
    BY <1>4, <1>5
<1>7. \A U, V \in cut : f[U] = f[V] => U = V
  <2> SUFFICES ASSUME NEW U \in cut, NEW V \in cut, f[U] = f[V] PROVE U = V
    OBVIOUS
  <2> DEFINE a == CHOOSE j \in Mates(i) : U = UnitOf(j)
             b == CHOOSE j \in Mates(i) : V = UnitOf(j)
  <2>1. a \in Mates(i) /\ U = UnitOf(a) /\ b \in Mates(i) /\ V = UnitOf(b)
    BY <1>5
  <2>2. Slice(a) = Slice(b)
    BY Zenon
  <2> HIDE DEF a, b
  <2>3. Mates(a) = Mates(b)
    BY <1>2, <2>1
  <2>4. UnitOf(a) = UnitOf(b)
    BY <2>2, <2>3, Zenon DEF UnitOf
  <2> QED
    BY <2>1, <2>4
<1>8. most \in Nat /\ most * M \in Nat /\ most * M <= n - 1
  <2>1. most \in Nat /\ most * M \in Nat
    <3> HIDE DEF M, n
    <3> QED
      BY <1>1, <1>3, Slicing
  <2>2. most <= (n - 1) \div M
    BY <2>1
  <2> HIDE DEF M, n, most
  <2>3. most * M <= n - 1
    BY <1>1, <1>3, <2>1, <2>2, Quotient
  <2> QED
    BY <2>1, <2>3
<1>9. IsFiniteSet(0..most) /\ Cardinality(0..most) = most + 1
  <2> HIDE DEF most
  <2> QED
    BY <1>8, FS_Interval
<1>10. Cardinality(cut) \in Nat /\ Cardinality(cut) <= most + 1
  <2> HIDE DEF f, most
  <2> QED
    BY <1>6, <1>7, <1>9, NoMore
<1> DEFINE c == Cardinality(cut) - 1
<1>11. c \in Int /\ c <= most
  <2> HIDE DEF most
  <2> QED
    BY <1>8, <1>10
<1>12. c * M \in Int /\ c * M <= most * M
  <2> HIDE DEF c, most, M
  <2> QED
    BY <1>1, <1>8, <1>11, Times
<1>13. M * c = c * M
  <2> HIDE DEF c, M
  <2> QED
    BY <1>1, <1>11
<1>14. M * c < n
  <2> HIDE DEF c, M, most, n
  <2> QED
    BY <1>2, <1>8, <1>12, <1>13
<1> QED
  BY <1>14

(* What UnitsAreACut asks of a set of units, and what the planned units are.  *)
IsCut(Us) ==
    /\ UNION Us = DOMAIN items
    /\ \A U, V \in Us : U = V \/ U \cap V = {}
    /\ \A U \in Us :
        /\ Cardinality(U) <= MaxItemsPerUnit
        /\ \A i, k \in U :
            /\ GroupOf(i) = GroupOf(k)
            /\ \A j \in Mates(i) : Before(i, j) /\ Before(j, k) => j \in U
    /\ \A i \in DOMAIN items :
        LET cut == {U \in Us : U \subseteq Mates(i)}
        IN  MaxItemsPerUnit * (Cardinality(cut) - 1) < Cardinality(Mates(i))

(* The planned units are a cut.                                               *)
LEMMA UnitsCut ==
  ASSUME items \in Seq(Item)
  PROVE  /\ IsCut({UnitOf(i) : i \in DOMAIN items})
         /\ {UnitOf(i) : i \in DOMAIN items} \subseteq SUBSET DOMAIN items
<1> DEFINE Us == {UnitOf(i) : i \in DOMAIN items}
<1>1. \A i \in DOMAIN items :
        /\ i \in UnitOf(i) /\ UnitOf(i) \in SUBSET Mates(i) /\ UnitOf(i) \in SUBSET DOMAIN items
        /\ \A j \in UnitOf(i) : UnitOf(j) = UnitOf(i)
        /\ Cardinality(UnitOf(i)) <= MaxItemsPerUnit
        /\ \A a, b \in UnitOf(i) : \A j \in Mates(a) : Before(a, j) /\ Before(j, b) => j \in UnitOf(i)
  BY UnitShape, MatesShared
<1>2. UNION Us = DOMAIN items /\ Us \subseteq SUBSET DOMAIN items
  <2>1. \A i \in DOMAIN items : i \in UnitOf(i) /\ UnitOf(i) \subseteq DOMAIN items
    BY <1>1, Zenon
  <2>2. Us \subseteq SUBSET DOMAIN items
    BY <2>1
  <2>3. DOMAIN items \subseteq UNION Us
    BY <2>1
  <2>4. UNION Us \subseteq DOMAIN items
    BY <2>2, Zenon
  <2> QED
    BY <2>2, <2>3, <2>4, Zenon
<1>3. \A U, V \in Us : U = V \/ U \cap V = {}
  BY <1>1
<1>4. ASSUME NEW U \in Us
      PROVE  /\ Cardinality(U) <= MaxItemsPerUnit
             /\ \A i, k \in U :
                 /\ GroupOf(i) = GroupOf(k)
                 /\ \A j \in Mates(i) : Before(i, j) /\ Before(j, k) => j \in U
  <2>1. PICK u \in DOMAIN items : U = UnitOf(u)
    OBVIOUS
  <2>2. \A i \in U : GroupOf(i) = GroupOf(u)
    BY <1>1, <2>1, MatesShared
  <2> QED
    BY <1>1, <2>1, <2>2
<1>5. ASSUME NEW i \in DOMAIN items
      PROVE  MaxItemsPerUnit * (Cardinality({U \in Us : U \subseteq Mates(i)}) - 1) < Cardinality(Mates(i))
  <2> DEFINE cut == {U \in Us : U \subseteq Mates(i)}
  <2>1. cut \in SUBSET {UnitOf(j) : j \in Mates(i)}
    BY <1>1
  <2> HIDE DEF cut
  <2>2. MaxItemsPerUnit * (Cardinality(cut) - 1) < Cardinality(Mates(i))
    BY <2>1, FewUnits
  <2> QED
    BY <2>2, Zenon DEF cut
<1> HIDE DEF Us
<1>6. IsCut(Us)
  BY <1>2, <1>3, <1>4, <1>5, Zenon DEF IsCut
<1> QED
  BY <1>2, <1>6 DEF Us

(* As long as the items stay, units that are a cut stay one.                  *)
LEMMA CutStays ==
  ASSUME items' = items, units' # {} => IsCut(units')
  PROVE  UnitsAreACut'
<1>1. \A i : GroupOf(i)' = GroupOf(i) /\ Key(i)' = Key(i)
  BY Zenon DEF GroupOf, Key
<1>2. \A i : Mates(i)' = Mates(i)
  <2> SUFFICES ASSUME NEW i PROVE Mates(i)' = Mates(i)
    OBVIOUS
  <2>1. \A j : GroupOf(j)' = GroupOf(j)
    BY <1>1
  <2> QED
    BY <2>1 DEF Mates
<1>3. \A i, j : Before(i, j)' <=> Before(i, j)
  <2> SUFFICES ASSUME NEW i, NEW j PROVE Before(i, j)' <=> Before(i, j)
    OBVIOUS
  <2>1. Key(i)' = Key(i) /\ Key(j)' = Key(j)
    BY <1>1
  <2> QED
    BY <2>1, Zenon DEF Before
<1> SUFFICES ASSUME units' # {} PROVE IsCut(units)'
  BY Zenon DEF UnitsAreACut, IsCut
<1>4. IsCut(units')
  OBVIOUS
<1>5. UNION units' = DOMAIN items' /\ \A U, V \in units' : U = V \/ U \cap V = {}
  BY <1>4, Zenon DEF IsCut
<1>6. \A U \in units' :
        /\ Cardinality(U) <= MaxItemsPerUnit
        /\ \A i, k \in U :
            /\ GroupOf(i)' = GroupOf(k)'
            /\ \A j \in Mates(i)' : Before(i, j)' /\ Before(j, k)' => j \in U
  <2>1. \A U \in units' :
        /\ Cardinality(U) <= MaxItemsPerUnit
        /\ \A i, k \in U :
            /\ GroupOf(i) = GroupOf(k)
            /\ \A j \in Mates(i) : Before(i, j) /\ Before(j, k) => j \in U
    BY <1>4, Zenon DEF IsCut
  <2> QED
    BY <1>1, <1>2, <1>3, <2>1
<1>7. ASSUME NEW i \in DOMAIN items'
      PROVE  MaxItemsPerUnit * (Cardinality({U \in units' : U \subseteq Mates(i)'}) - 1)
               < Cardinality(Mates(i)')
  <2>1. MaxItemsPerUnit * (Cardinality({U \in units' : U \subseteq Mates(i)}) - 1)
               < Cardinality(Mates(i))
    BY <1>4, Zenon DEF IsCut
  <2>2. Mates(i)' = Mates(i)
    BY <1>2
  <2> QED
    BY <2>1, <2>2
<1> QED
  BY <1>5, <1>6, <1>7, Zenon DEF IsCut

-----------------------------------------------------------------------------
(* The open headings before the first line, below a line that is no heading,  *)
(* and what they are.                                                         *)
LEMMA OutlineStarts ==
  ASSUME NEW lines
  PROVE  Outline(lines, 0) = <<>>
<1>1. Open(lines, 0) = {}
  BY DEF Open
<1>2. Outline(lines, 0) = InOrder({})
  BY <1>1, Zenon DEF Outline, Open
<1>3. InOrder({}) = <<>>
  BY FS_EmptySet, EmptySeq DEF InOrder
<1> QED
  BY <1>2, <1>3

(* A line that is no heading closes nothing.                                  *)
LEMMA OutlineStays ==
  ASSUME NEW lines \in Seq(Line), NEW n \in Nat, n < Len(lines), lines[n + 1].level = 0
  PROVE  Outline(lines, n + 1) = Outline(lines, n)
<1>1. Open(lines, n + 1) = Open(lines, n)
  <2>1. \A h \in 1..(n + 1) : h \in 1..n \/ h = n + 1
    OBVIOUS
  <2>2. \A h \in 1..n : h \in 1..(n + 1)
    OBVIOUS
  <2>3. \A h \in 1..n : \A k : k \in (h + 1)..(n + 1) <=> k \in (h + 1)..n \/ k = n + 1
    OBVIOUS
  <2>4. ~(0 > 0)
    OBVIOUS
  <2> QED
    BY <2>1, <2>2, <2>3, <2>4 DEF Open
<1> QED
  BY <1>1, Zenon DEF Outline, Open

(* The outline consists of headings, which have titles.                       *)
LEMMA OutlineTyped ==
  ASSUME NEW lines \in Seq(Line), NEW n \in Nat, n <= Len(lines)
  PROVE  /\ Outline(lines, n) \in Seq(1..Len(lines))
         /\ \A k \in DOMAIN Outline(lines, n) :
              Outline(lines, n)[k] \in 1..Len(lines) /\ lines[Outline(lines, n)[k]].title \in Titles
<1> DEFINE A == Open(lines, n)
<1>1. Len(lines) \in Nat /\ \A h \in 1..Len(lines) : lines[h] \in Line
  BY LenProperties
<1>2. A \in SUBSET (1..n) /\ A \in SUBSET (1..Len(lines)) /\ A \in SUBSET Nat /\ IsFiniteSet(A)
  <2>1. A \in SUBSET (1..n) /\ IsFiniteSet(1..n)
    BY FS_Interval DEF Open
  <2>2. 1..n \in SUBSET Nat /\ 1..n \in SUBSET (1..Len(lines))
    BY <1>1
  <2> HIDE DEF A
  <2> QED
    BY <2>1, <2>2, FS_Subset
<1>3. Cardinality(A) \in Nat /\ InOrder(A) \in [1..Cardinality(A) -> A]
  <2> HIDE DEF A
  <2> QED
    BY <1>2, InOrderSorts
<1>4. Outline(lines, n) = InOrder(A)
  BY Zenon DEF Outline, Open
<1>5. \A h \in A : h \in 1..Len(lines) /\ lines[h].title \in Titles
  <2> SUFFICES ASSUME NEW h \in A PROVE h \in 1..Len(lines) /\ lines[h].title \in Titles
    OBVIOUS
  <2>1. h \in 1..Len(lines) /\ lines[h].level > 0
    BY <1>2 DEF Open
  <2> HIDE DEF A
  <2> QED
    BY <1>1, <2>1, LineTyped
<1>6. InOrder(A) \in Seq(1..Len(lines))
  <2> HIDE DEF A
  <2>1. InOrder(A) \in Seq(A)
    BY <1>3, SeqDef
  <2> QED
    BY <1>2, <2>1, SeqMonotonic
<1> HIDE DEF A
<1> QED
  BY <1>3, <1>4, <1>5, <1>6

-----------------------------------------------------------------------------
(* The inductive invariant: the types of the state, the three invariants, and *)
(* what links them to the steps. The path of a section is read off the open   *)
(* headings, so what a fact says of its section is typed because they are the *)
(* outline; and the units are planned only when nothing is left to be         *)
(* collected.                                                                 *)
InText == doc <= Len(docs) /\ ~docs[doc].parses

Types ==
    /\ docs \in Seq(Document) /\ doc \in 1..(Len(docs) + 1) /\ line \in Nat \ {0}
    /\ body \in Seq(BodyLine) /\ queue \in Seq(Mentions) /\ items \in Seq(Item)
    /\ told \in SUBSET Mentions /\ units \in SUBSET SUBSET DOMAIN items
    /\ InText => line <= Len(Lines) + 1

Inv ==
    /\ Types
    /\ StackIsOutline
    /\ ~InText => stack = <<>>
    /\ ItemsTellTheFacts
    /\ units # {} => doc > Len(docs) /\ queue = <<>>
    /\ UnitsAreACut

(* The inductive invariant has the types.                                     *)
LEMMA InvTypeOK == Inv => TypeOK
<1> SUFFICES ASSUME Inv PROVE TypeOK
  OBVIOUS
<1>1. ASSUME ReadingText PROVE stack \in Seq(1..Len(Lines)) /\ body \in Seq(Line)
  <2>1. doc \in 1..Len(docs) /\ InText
    BY <1>1 DEF Inv, Types, ReadingText, Reading, InText
  <2>2. docs[doc] \in Document
    BY <2>1 DEF Inv, Types
  <2>3. Lines \in Seq(Line)
    BY <2>2 DEF Document, Lines
  <2>4. line - 1 \in Nat /\ line - 1 <= Len(Lines)
    BY <2>1, <2>3 DEF Inv, Types
  <2>5. stack = Outline(Lines, line - 1)
    BY <2>1 DEF Inv, StackIsOutline, InText
  <2> QED
    BY <2>3, <2>4, <2>5, OutlineTyped, BodyLines DEF Inv, Types
<1>2. \A i \in DOMAIN items : items[i].kind \in Kinds /\ items[i].priority \in 0..3
  <2>1. \A i \in DOMAIN items : items[i] \in Item
    BY LenProperties DEF Inv, Types
  <2> QED
    BY <2>1 DEF Item
<1> QED
  BY <1>1, <1>2 DEF Inv, Types, TypeOK

(* ItemsTellTheFacts, of any items and mentions.                              *)
ItemsTell(its, mentions) ==
    /\ \A m \in mentions : \E i \in DOMAIN its : its[i].key = m.fact.key
    /\ \A i, j \in DOMAIN its : its[i].key = its[j].key => i = j
    /\ \A i \in DOMAIN its : Tells(its[i], {m \in mentions : m.fact.key = its[i].key})

(* ItemsTellTheFacts says that each item tells what was said of its fact.     *)
LEMMA ItemsTellIs == ItemsTellTheFacts <=> ItemsTell(items, told)
<1>1. \A i \in DOMAIN items :
        Tells(items[i], {m \in told : m.fact.key = items[i].key})
          <=> LET said == {m \in told : m.fact.key = items[i].key}
              IN  /\ \E m \in said : m.fact.priority = items[i].priority
                  /\ \A m \in said : items[i].priority <= m.fact.priority
                  /\ items[i].native = UNION {m.fact.native : m \in said}
                  /\ \E m \in said : m.fact.detail = items[i].detail
                  /\ Range(items[i].sections) \subseteq {m.fact.section : m \in said}
                  /\ Range(items[i].docs) \subseteq {m.doc : m \in said}
                  /\ \A k, n \in DOMAIN items[i].sections :
                       k < n => ~PartOfPath(items[i].sections[n], items[i].sections[k])
                  /\ \A m \in said :
                      /\ \E s \in Range(items[i].sections) : PartOfPath(m.fact.section, s)
                      /\ \E d \in Range(items[i].docs) : SameName(m.doc, d)
  BY Zenon DEF Tells, NoneWithin
<1> QED
  BY <1>1, Zenon DEF ItemsTellTheFacts, ItemsTell

(* What is left alone stays true.                                             *)
LEMMA ItemsStay ==
  ASSUME ItemsTellTheFacts, items' = items, told' = told
  PROVE  ItemsTellTheFacts'
<1>1. ItemsTell(items', told')
  BY ItemsTellIs, Zenon
<1>2. (ItemsTellTheFacts <=> ItemsTell(items, told))'
  BY ItemsTellIs, PTL
<1> QED
  BY <1>1, <1>2, Zenon

(* Units stay a cut when neither they nor the items change.                   *)
LEMMA UnitsStay ==
  ASSUME UnitsAreACut, items' = items, units' = units
  PROVE  UnitsAreACut'
<1>1. units # {} => IsCut(units)
  BY Zenon DEF UnitsAreACut, IsCut
<1> QED
  BY <1>1, CutStays, Zenon

(* The section that is being read states facts.                               *)
LEMMA SectionTyped ==
  ASSUME Inv, ReadingText
  PROVE  /\ doc \in 1..Len(docs) /\ InText /\ docs[doc] \in Document /\ Lines \in Seq(Line)
         /\ line - 1 \in Nat /\ line - 1 <= Len(Lines) /\ stack = Outline(Lines, line - 1)
         /\ PathOf(stack) \in Seq(Titles) /\ Section \in Seq(Mentions)
<1>1. doc \in 1..Len(docs) /\ InText
  BY DEF Inv, Types, ReadingText, Reading, InText
<1>2. docs[doc] \in Document
  BY <1>1 DEF Inv, Types
<1>3. Lines \in Seq(Line)
  BY <1>2 DEF Document, Lines
<1>4. line - 1 \in Nat /\ line - 1 <= Len(Lines)
  BY <1>1, <1>3 DEF Inv, Types
<1>5. stack = Outline(Lines, line - 1)
  BY <1>1 DEF Inv, StackIsOutline, InText
<1>6. PathOf(stack) \in Seq(Titles)
  <2> DEFINE titles == [k \in DOMAIN stack |-> Lines[stack[k]].title]
  <2>1. stack \in Seq(1..Len(Lines)) /\ \A k \in DOMAIN stack : Lines[stack[k]].title \in Titles
    BY <1>3, <1>4, <1>5, OutlineTyped
  <2>2. DOMAIN stack = 1..Len(stack) /\ Len(stack) \in Nat
    BY <2>1, LenProperties
  <2>3. titles \in [1..Len(stack) -> Titles]
    BY <2>1, <2>2
  <2>4. titles \in Seq(Titles)
    <3> HIDE DEF titles
    <3> QED
      BY <2>2, <2>3, SeqDef
  <2>5. <<Preamble>> \in Seq(Titles)
    BY MarkdownConstants DEF MarkdownConstants
  <2>6. PathOf(stack) \in {titles, <<Preamble>>}
    BY Zenon DEF PathOf
  <2> HIDE DEF titles
  <2> QED
    BY <2>4, <2>5, <2>6
<1>7. body \in Seq(BodyLine)
  BY DEF Inv, Types
<1>8. FactsOf(PathOf(stack), body) \in Seq(Facts)
  BY <1>6, <1>7, FactsTyped
<1>9. From(docs[doc], FactsOf(PathOf(stack), body)) \in Seq(Mentions)
  BY <1>2, <1>8, FromTyped
<1> QED
  BY <1>1, <1>2, <1>3, <1>4, <1>5, <1>6, <1>9 DEF Section

(* Nothing is read at first; the documents kept are documents of the upload.  *)
LEMMA InvInit == Init => Inv
<1> SUFFICES ASSUME Init PROVE Inv
  OBVIOUS
<1>1. docs \in Seq(Document)
  <2>1. uploads \in Seq(Document)
    BY IngestionConstants DEF Init, IngestionConstants
  <2> DEFINE S == {i \in DOMAIN uploads : \A j \in 1..(i - 1) : Content(uploads[j]) # Content(uploads[i])}
  <2>2. S \in SUBSET (DOMAIN uploads) /\ docs = Only(uploads, S)
    BY Zenon DEF Init, Dedupe
  <2> HIDE DEF S
  <2> QED
    BY <2>1, <2>2, OnlySome
<1>2. /\ doc = 1 /\ line = 1 /\ stack = <<>> /\ body = <<>> /\ queue = <<>> /\ items = <<>>
      /\ units = {} /\ told = {}
  BY DEF Init
<1>3. /\ doc \in 1..(Len(docs) + 1) /\ line \in Nat \ {0} /\ body \in Seq(BodyLine) /\ queue \in Seq(Mentions)
      /\ items \in Seq(Item) /\ DOMAIN items = {} /\ told \in SUBSET Mentions
      /\ units \in SUBSET SUBSET DOMAIN items
  <2>1. Len(docs) \in Nat
    BY <1>1, LenProperties
  <2>2. <<>> \in Seq(BodyLine) /\ <<>> \in Seq(Mentions) /\ <<>> \in Seq(Item)
    BY EmptySeq
  <2>3. DOMAIN items = 1..0
    BY <1>2, EmptySeq
  <2> QED
    BY <1>2, <2>1, <2>2, <2>3
<1>4. InText => line <= Len(Lines) + 1
  <2> SUFFICES ASSUME InText PROVE line <= Len(Lines) + 1
    OBVIOUS
  <2>1. docs[doc] \in Document
    BY <1>1, <1>3, LenProperties DEF InText
  <2>2. Len(Lines) \in Nat
    BY <2>1, LenProperties DEF Document, Lines
  <2> QED
    BY <1>2, <2>2
<1>5. StackIsOutline
  <2>1. line - 1 = 0
    BY <1>2
  <2> QED
    BY <1>2, <2>1, OutlineStarts DEF StackIsOutline
<1>6. ItemsTell(items, told)
  BY <1>2, <1>3 DEF ItemsTell
<1>7. UnitsAreACut
  BY <1>2 DEF UnitsAreACut
<1> QED
  BY <1>1, <1>2, <1>3, <1>4, <1>5, <1>6, <1>7, ItemsTellIs DEF Inv, Types

(* A heading: the section before it states its facts, and it takes its place  *)
(* among the open headings.                                                   *)
LEMMA InvReadHeading == Inv /\ ReadHeading => Inv'
<1> SUFFICES ASSUME Inv, ReadHeading PROVE Inv'
  OBVIOUS
<1>1. /\ doc \in 1..Len(docs) /\ InText /\ Lines \in Seq(Line)
      /\ line - 1 \in Nat /\ line - 1 <= Len(Lines) /\ stack = Outline(Lines, line - 1)
      /\ Section \in Seq(Mentions)
  BY SectionTyped DEF ReadHeading, ReadingText
<1>2. /\ line <= Len(Lines) /\ Lines[line].level > 0 /\ queue' = Section /\ body' = <<>>
      /\ stack' = Append(Close(Lines[line].level), line) /\ line' = line + 1
      /\ uploads' = uploads /\ docs' = docs /\ doc' = doc /\ items' = items /\ units' = units /\ told' = told
  BY DEF ReadHeading
<1>3. /\ docs \in Seq(Document) /\ doc \in 1..(Len(docs) + 1) /\ line \in Nat \ {0} /\ items \in Seq(Item)
      /\ told \in SUBSET Mentions /\ units \in SUBSET SUBSET DOMAIN items
  BY DEF Inv, Types
<1>4. Lines' = Lines /\ InText'
  BY <1>1, <1>2 DEF Lines, InText
<1>11. Len(Lines) \in Nat
  BY <1>1, LenProperties
<1>5. line' - 1 = line /\ line' \in Nat \ {0} /\ line' <= Len(Lines) + 1
  BY <1>2, <1>3, <1>11
<1>6. stack' = Outline(Lines, line)
  <2>1. PICK n \in Nat : n = line - 1
    BY <1>1
  <2>2. n + 1 = line /\ n < Len(Lines)
    BY <1>2, <1>3, <1>11, <2>1
  <2>3. Close(Lines[line].level) = Kept(Lines, Outline(Lines, n), Lines[line].level)
    BY <1>1, <2>1, Zenon DEF Close, Kept
  <2>4. Append(Kept(Lines, Outline(Lines, n), Lines[n + 1].level), n + 1) = Outline(Lines, n + 1)
    BY <1>1, <1>2, <2>2, HeadingCloses
  <2> QED
    BY <1>2, <2>2, <2>3, <2>4
<1>7. StackIsOutline'
  BY <1>4, <1>5, <1>6 DEF StackIsOutline
<1>8. ItemsTellTheFacts' /\ UnitsAreACut'
  BY <1>2, ItemsStay, UnitsStay DEF Inv
<1>9. units' = {}
  BY <1>1, <1>2, <1>3, LenProperties DEF Inv
<1>10. <<>> \in Seq(BodyLine)
  BY EmptySeq
<1> QED
  BY <1>1, <1>2, <1>3, <1>4, <1>5, <1>7, <1>8, <1>9, <1>10 DEF Inv, Types

(* Any other line joins the section and leaves the headings open.             *)
LEMMA InvReadLine == Inv /\ ReadLine => Inv'
<1> SUFFICES ASSUME Inv, ReadLine PROVE Inv'
  OBVIOUS
<1>1. /\ doc \in 1..Len(docs) /\ InText /\ Lines \in Seq(Line)
      /\ line - 1 \in Nat /\ line - 1 <= Len(Lines) /\ stack = Outline(Lines, line - 1)
  BY SectionTyped DEF ReadLine, ReadingText
<1>2. /\ line <= Len(Lines) /\ Lines[line].level = 0 /\ body' = Append(body, Lines[line])
      /\ line' = line + 1 /\ stack' = stack /\ queue' = queue
      /\ docs' = docs /\ doc' = doc /\ items' = items /\ units' = units /\ told' = told
  BY DEF ReadLine
<1>3. /\ docs \in Seq(Document) /\ doc \in 1..(Len(docs) + 1) /\ line \in Nat \ {0} /\ items \in Seq(Item)
      /\ told \in SUBSET Mentions /\ units \in SUBSET SUBSET DOMAIN items /\ queue \in Seq(Mentions)
      /\ body \in Seq(BodyLine)
  BY DEF Inv, Types
<1>4. Lines' = Lines /\ InText'
  BY <1>1, <1>2 DEF Lines, InText
<1>11. Len(Lines) \in Nat
  BY <1>1, LenProperties
<1>5. line' - 1 = line /\ line' \in Nat \ {0} /\ line' <= Len(Lines) + 1
  BY <1>2, <1>3, <1>11
<1>6. stack' = Outline(Lines, line)
  <2>1. PICK n \in Nat : n = line - 1
    BY <1>1
  <2>2. n + 1 = line /\ n < Len(Lines)
    BY <1>2, <1>3, <1>11, <2>1
  <2>3. Outline(Lines, n + 1) = Outline(Lines, n)
    BY <1>1, <1>2, <2>2, OutlineStays
  <2> QED
    BY <1>1, <1>2, <2>1, <2>2, <2>3
<1>7. StackIsOutline'
  BY <1>4, <1>5, <1>6 DEF StackIsOutline
<1>8. ItemsTellTheFacts' /\ UnitsAreACut'
  BY <1>2, ItemsStay, UnitsStay DEF Inv
<1>9. units' = {}
  BY <1>1, <1>2, <1>3, LenProperties DEF Inv
<1>10. body' \in Seq(BodyLine)
  <2>1. Lines[line] \in BodyLine
    BY <1>1, <1>2, <1>3, LenProperties DEF BodyLine
  <2>2. Append(body, Lines[line]) \in Seq(BodyLine)
    BY <1>3, <2>1, Appended, Zenon
  <2> QED
    BY <1>2, <2>2
<1> QED
  BY <1>1, <1>2, <1>3, <1>4, <1>5, <1>7, <1>8, <1>9, <1>10 DEF Inv, Types

(* The next document starts with no open heading.                             *)
LEMMA NextDocument ==
  ASSUME Inv, doc \in 1..Len(docs), docs' = docs, doc' = doc + 1, line' = 1, stack' = <<>>
  PROVE  /\ doc' \in 1..(Len(docs') + 1) /\ line' \in Nat \ {0}
         /\ InText' => line' <= Len(Lines') + 1
         /\ StackIsOutline' /\ units = {}
<1>1. docs \in Seq(Document) /\ Len(docs) \in Nat
  BY LenProperties DEF Inv, Types
<1>2. doc' \in 1..(Len(docs') + 1) /\ line' \in Nat \ {0} /\ line' - 1 = 0
  BY <1>1
<1>3. InText' => line' <= Len(Lines') + 1
  <2> SUFFICES ASSUME InText' PROVE line' <= Len(Lines') + 1
    OBVIOUS
  <2>1. doc' \in 1..Len(docs)
    BY <1>1, <1>2 DEF InText
  <2>2. docs[doc'] \in Document
    BY <1>1, <2>1
  <2>3. docs[doc'].lines \in Seq(Line)
    BY <2>2 DEF Document
  <2>4. Len(docs[doc'].lines) \in Nat /\ Lines' = docs[doc'].lines
    BY <2>3, LenProperties DEF Lines
  <2> QED
    BY <2>4
<1>4. StackIsOutline'
  BY <1>2, OutlineStarts DEF StackIsOutline
<1>5. units = {}
  BY <1>1 DEF Inv
<1> QED
  BY <1>2, <1>3, <1>4, <1>5

(* The end of a text closes its last section, and all headings.               *)
LEMMA InvEndOfText == Inv /\ EndOfText => Inv'
<1> SUFFICES ASSUME Inv, EndOfText PROVE Inv'
  OBVIOUS
<1>1. doc \in 1..Len(docs) /\ Section \in Seq(Mentions)
  BY SectionTyped DEF EndOfText, ReadingText
<1>2. /\ queue' = Section /\ body' = <<>> /\ stack' = <<>> /\ doc' = doc + 1 /\ line' = 1
      /\ docs' = docs /\ items' = items /\ units' = units /\ told' = told
  BY DEF EndOfText
<1>3. /\ docs \in Seq(Document) /\ items \in Seq(Item) /\ told \in SUBSET Mentions
      /\ units \in SUBSET SUBSET DOMAIN items
  BY DEF Inv, Types
<1>4. /\ doc' \in 1..(Len(docs') + 1) /\ line' \in Nat \ {0}
      /\ InText' => line' <= Len(Lines') + 1
      /\ StackIsOutline' /\ units = {}
  BY <1>1, <1>2, NextDocument
<1>5. ItemsTellTheFacts' /\ UnitsAreACut'
  BY <1>2, ItemsStay, UnitsStay DEF Inv
<1>6. <<>> \in Seq(BodyLine)
  BY EmptySeq
<1> QED
  BY <1>1, <1>2, <1>3, <1>4, <1>5, <1>6 DEF Inv, Types

(* The end of a JSON document, which has no headings.                         *)
LEMMA InvEndOfJson == Inv /\ EndOfJson => Inv'
<1> SUFFICES ASSUME Inv, EndOfJson PROVE Inv'
  OBVIOUS
<1>1. doc \in 1..Len(docs) /\ ~InText /\ stack = <<>>
  BY LenProperties DEF EndOfJson, ReadingJson, Reading, InText, Inv, Types
<1>2. /\ queue' = queue /\ body' = body /\ stack' = stack /\ doc' = doc + 1 /\ line' = 1
      /\ docs' = docs /\ items' = items /\ units' = units /\ told' = told
  BY DEF EndOfJson
<1>3. /\ docs \in Seq(Document) /\ items \in Seq(Item) /\ told \in SUBSET Mentions
      /\ units \in SUBSET SUBSET DOMAIN items /\ body \in Seq(BodyLine) /\ queue \in Seq(Mentions)
  BY DEF Inv, Types
<1>4. /\ doc' \in 1..(Len(docs') + 1) /\ line' \in Nat \ {0}
      /\ InText' => line' <= Len(Lines') + 1
      /\ StackIsOutline' /\ units = {}
  BY <1>1, <1>2, NextDocument
<1>5. ItemsTellTheFacts' /\ UnitsAreACut'
  BY <1>2, ItemsStay, UnitsStay DEF Inv
<1> QED
  BY <1>1, <1>2, <1>3, <1>4, <1>5 DEF Inv, Types

(* An entry of a JSON document.                                               *)
LEMMA InvReadEntry == Inv /\ ReadEntry => Inv'
<1> SUFFICES ASSUME Inv, ReadEntry PROVE Inv'
  OBVIOUS
<1>1. /\ docs \in Seq(Document) /\ items \in Seq(Item) /\ told \in SUBSET Mentions
      /\ units \in SUBSET SUBSET DOMAIN items /\ body \in Seq(BodyLine) /\ line \in Nat \ {0}
      /\ doc \in 1..(Len(docs) + 1)
  BY DEF Inv, Types
<1>2. doc \in 1..Len(docs) /\ ~InText /\ stack = <<>> /\ units = {}
  BY <1>1, LenProperties DEF ReadEntry, ReadingJson, Reading, InText, Inv
<1>3. /\ queue' = From(docs[doc], FactsOfEntry(Entries[line])) /\ line' = line + 1 /\ line <= Len(Entries)
      /\ body' = body /\ stack' = stack /\ doc' = doc
      /\ docs' = docs /\ items' = items /\ units' = units /\ told' = told
  BY DEF ReadEntry
<1>4. queue' \in Seq(Mentions)
  <2>1. docs[doc] \in Document
    BY <1>1, <1>2
  <2>2. Entries \in Seq(Entry)
    BY <2>1 DEF Document, Entries
  <2>3. Entries[line] \in Entry
    BY <1>1, <1>3, <2>2, LenProperties
  <2>4. FactsOfEntry(Entries[line]) \in Seq(Facts)
    BY <2>3, EntryTyped
  <2> QED
    BY <1>3, <2>1, <2>4, FromTyped
<1>5. ItemsTellTheFacts' /\ UnitsAreACut'
  BY <1>3, ItemsStay, UnitsStay DEF Inv
<1>6. ~InText' /\ StackIsOutline'
  BY <1>2, <1>3 DEF InText, StackIsOutline
<1>7. line' \in Nat \ {0}
  BY <1>1, <1>3
<1> QED
  BY <1>1, <1>2, <1>3, <1>4, <1>5, <1>6, <1>7 DEF Inv, Types

(* The items after one more mention, as Collect has them.                     *)
Collected(its, f, d) ==
    IF \E i \in DOMAIN its : its[i].key = f.key
    THEN [i \in DOMAIN its |-> IF its[i].key = f.key THEN Merge(its[i], f, d) ELSE its[i]]
    ELSE Append(its, NewItem(f, d))

(* A mention of a fact that no item has makes one more; any other is merged   *)
(* into the one item that has it, and the others are left alone.              *)
LEMMA CollectTells ==
  ASSUME NEW its \in Seq(Item), NEW mentions \in SUBSET Mentions, ItemsTell(its, mentions),
         NEW m0 \in Mentions, NEW new, new = Collected(its, m0.fact, m0.doc)
  PROVE  new \in Seq(Item) /\ ItemsTell(new, mentions \cup {m0})
<1> DEFINE key == m0.fact.key
           Said(i) == {m \in mentions : m.fact.key = its[i].key}
<1>1. /\ DOMAIN its = 1..Len(its) /\ Len(its) \in Nat /\ \A i \in DOMAIN its : its[i] \in Item
  BY LenProperties
<1>2. /\ \A m \in mentions : \E i \in DOMAIN its : its[i].key = m.fact.key
      /\ \A i \in DOMAIN its : Tells(its[i], Said(i))
  BY Zenon DEF ItemsTell
<1>5. \A i, j \in DOMAIN its : its[i].key = its[j].key => i = j
  BY Zenon DEF ItemsTell
<1>3. CASE \E i \in DOMAIN its : its[i].key = key
  <2>1. new = [i \in DOMAIN its |-> IF its[i].key = key THEN Merge(its[i], m0.fact, m0.doc) ELSE its[i]]
    BY <1>3, Zenon DEF Collected
  <2>2. ASSUME NEW i \in DOMAIN its
        PROVE  /\ new[i] \in Item /\ new[i].key = its[i].key
               /\ Tells(new[i], {m \in mentions \cup {m0} : m.fact.key = new[i].key})
    <3>1. its[i] \in Item /\ Tells(its[i], Said(i)) /\ Said(i) \in SUBSET Mentions
      BY <1>1, <1>2
    <3>2. CASE its[i].key = key
      <4>1. new[i] = Merge(its[i], m0.fact, m0.doc)
        BY <2>1, <3>2
      <4> DEFINE said == Said(i)
      <4>2. {m \in mentions \cup {m0} : m.fact.key = its[i].key} = said \cup {m0}
        BY <3>2
      <4>3. said \in SUBSET Mentions /\ Tells(its[i], said)
        BY <3>1
      <4> HIDE DEF said
      <4>4. PICK item \in Item : item = its[i]
        BY <3>1
      <4>5. /\ Merge(item, m0.fact, m0.doc) \in Item /\ Merge(item, m0.fact, m0.doc).key = item.key
            /\ Tells(Merge(item, m0.fact, m0.doc), said \cup {m0})
        BY <4>3, <4>4, MergeTells
      <4> QED
        BY <4>1, <4>2, <4>4, <4>5
    <3>3. CASE its[i].key # key
      <4>1. new[i] = its[i]
        BY <2>1, <3>3
      <4>2. {m \in mentions \cup {m0} : m.fact.key = its[i].key} = Said(i)
        BY <3>3
      <4> QED
        BY <3>1, <4>1, <4>2
    <3> QED
      BY <3>2, <3>3
  <2>3. DOMAIN new = DOMAIN its
    BY <2>1
  <2>4. new \in Seq(Item)
    <3>1. new \in [1..Len(its) -> Item]
      BY <1>1, <2>1, <2>2
    <3> QED
      BY <1>1, <3>1, SeqDef
  <2>5. \A m \in mentions \cup {m0} : \E i \in DOMAIN new : new[i].key = m.fact.key
    BY <1>2, <1>3, <2>2, <2>3
  <2>6. \A i, j \in DOMAIN new : new[i].key = new[j].key => i = j
    <3>1. \A i \in DOMAIN its : new[i].key = its[i].key
      BY <2>2
    <3> QED
      BY <1>5, <2>3, <3>1
  <2>7. \A i \in DOMAIN new : Tells(new[i], {m \in mentions \cup {m0} : m.fact.key = new[i].key})
    BY <2>2, <2>3
  <2> QED
    BY <2>4, <2>5, <2>6, <2>7, Zenon DEF ItemsTell
<1>4. CASE ~ \E i \in DOMAIN its : its[i].key = key
  <2> DEFINE item == NewItem(m0.fact, m0.doc)
             n == Len(its)
  <2>1. item \in Item /\ item.key = key /\ Tells(item, {m0})
    BY NewTells
  <2> HIDE DEF item
  <2>2. new = Append(its, item)
    BY <1>4, Zenon DEF item, Collected
  <2>3. /\ new \in Seq(Item) /\ Len(new) = n + 1 /\ \A i \in 1..n : new[i] = its[i]
        /\ new[n + 1] = item
    <3>1. /\ Append(its, item) \in Seq(Item) /\ Len(Append(its, item)) = Len(its) + 1
          /\ \A i \in 1..Len(its) : Append(its, item)[i] = its[i]
          /\ Append(its, item)[Len(its) + 1] = item
      <4>1. item \in Item
        BY <2>1
      <4> QED
        BY <4>1, Appended, Zenon
    <3> QED
      BY <2>2, <3>1, Zenon
  <2>4. DOMAIN new = DOMAIN its \cup {n + 1} /\ n + 1 \notin DOMAIN its
        /\ \A i \in DOMAIN its : new[i] = its[i]
    <3>1. DOMAIN new = 1..(n + 1)
      BY <2>3, LenProperties
    <3> HIDE DEF n
    <3>2. n \in Nat /\ DOMAIN its = 1..n
      BY <1>1 DEF n
    <3> QED
      BY <2>3, <3>1, <3>2
  <2> HIDE DEF n
  <2>5. \A m \in mentions : m.fact.key # key
    BY <1>2, <1>4
  <2>6. \A m \in mentions \cup {m0} : \E i \in DOMAIN new : new[i].key = m.fact.key
    <3>1. \A m \in mentions : \E i \in DOMAIN new : new[i].key = m.fact.key
      BY <1>2, <2>4
    <3>2. n + 1 \in DOMAIN new /\ new[n + 1].key = m0.fact.key
      BY <2>1, <2>3, <2>4
    <3> QED
      BY <3>1, <3>2
  <2>7. \A i, j \in DOMAIN new : new[i].key = new[j].key => i = j
    <3>1. \A i \in DOMAIN its : new[i].key = its[i].key /\ new[i].key # key
      BY <1>4, <2>4
    <3>2. new[n + 1].key = key
      BY <2>1, <2>3
    <3>3. \A i \in DOMAIN new : i \in DOMAIN its \/ i = n + 1
      BY <2>4
    <3> HIDE DEF key
    <3> QED
      BY <1>5, <3>1, <3>2, <3>3
  <2>8. ASSUME NEW i \in DOMAIN new
        PROVE  Tells(new[i], {m \in mentions \cup {m0} : m.fact.key = new[i].key})
    <3>1. CASE i \in DOMAIN its
      <4>1. new[i] = its[i] /\ its[i].key # key
        BY <1>4, <2>4, <3>1
      <4>2. {m \in mentions \cup {m0} : m.fact.key = its[i].key} = Said(i)
        BY <4>1
      <4> QED
        BY <1>2, <3>1, <4>1, <4>2
    <3>2. CASE i = n + 1
      <4>1. new[i] = item
        BY <2>3, <3>2
      <4>2. {m \in mentions \cup {m0} : m.fact.key = key} = {m0}
        BY <2>5
      <4> QED
        BY <2>1, <4>1, <4>2
    <3> QED
      BY <2>4, <3>1, <3>2
  <2> QED
    BY <2>3, <2>6, <2>7, <2>8, Zenon DEF ItemsTell
<1> QED
  BY <1>3, <1>4

(* Collecting a fact, before there are units.                                 *)
LEMMA InvCollect == Inv /\ Collect => Inv'
<1> SUFFICES ASSUME Inv, Collect PROVE Inv'
  OBVIOUS
<1>1. /\ docs \in Seq(Document) /\ items \in Seq(Item) /\ told \in SUBSET Mentions
      /\ body \in Seq(BodyLine) /\ line \in Nat \ {0} /\ queue \in Seq(Mentions)
      /\ doc \in 1..(Len(docs) + 1) /\ (InText => line <= Len(Lines) + 1)
  BY DEF Inv, Types
<1>2. /\ queue # <<>> /\ items' = Collected(items, queue[1].fact, queue[1].doc)
      /\ told' = told \cup {queue[1]} /\ queue' = Tail(queue)
      /\ docs' = docs /\ doc' = doc /\ line' = line /\ stack' = stack /\ body' = body /\ units' = units
  BY DEF Collect, Collected
<1>3. queue[1] \in Mentions /\ queue' \in Seq(Mentions)
  <2>1. Len(queue) \in Nat /\ Len(queue) # 0
    BY <1>1, <1>2, LenProperties, EmptySeq
  <2>2. 1 \in 1..Len(queue)
    BY <2>1
  <2> QED
    BY <1>1, <1>2, <2>2, LenProperties, HeadTailProperties
<1>4. units = {} /\ units' = {}
  BY <1>2 DEF Inv
<1>5. items' \in Seq(Item) /\ ItemsTell(items', told')
  <2>1. ItemsTell(items, told)
    BY ItemsTellIs DEF Inv
  <2>2. PICK m0 \in Mentions : m0 = queue[1]
    BY <1>3
  <2>3. items' = Collected(items, m0.fact, m0.doc) /\ told' = told \cup {m0}
    BY <1>2, <2>2
  <2>4. PICK new : new = Collected(items, m0.fact, m0.doc)
    OBVIOUS
  <2>5. new \in Seq(Item) /\ ItemsTell(new, told \cup {m0})
    BY <1>1, <2>1, <2>4, CollectTells
  <2> QED
    BY <2>3, <2>4, <2>5, Zenon
<1>6. ItemsTellTheFacts'
  <2>1. (ItemsTellTheFacts <=> ItemsTell(items, told))'
    BY ItemsTellIs, PTL
  <2> QED
    BY <1>5, <2>1, Zenon
<1>7. StackIsOutline' /\ (~InText' => stack' = <<>>) /\ (InText' => line' <= Len(Lines') + 1)
  BY <1>1, <1>2 DEF Inv, StackIsOutline, InText, Lines
<1>8. UnitsAreACut'
  BY <1>4 DEF UnitsAreACut
<1>9. told' \in SUBSET Mentions
  BY <1>1, <1>2, <1>3
<1> QED
  BY <1>1, <1>2, <1>3, <1>4, <1>5, <1>6, <1>7, <1>8, <1>9 DEF Inv, Types

(* Planning the units, once nothing is left to be collected.                  *)
LEMMA InvPlanUnits == Inv /\ PlanUnits => Inv'
<1> SUFFICES ASSUME Inv, PlanUnits PROVE Inv'
  OBVIOUS
<1>1. /\ docs \in Seq(Document) /\ items \in Seq(Item) /\ told \in SUBSET Mentions
      /\ body \in Seq(BodyLine) /\ line \in Nat \ {0} /\ queue \in Seq(Mentions)
      /\ doc \in 1..(Len(docs) + 1) /\ (InText => line <= Len(Lines) + 1)
  BY DEF Inv, Types
<1>2. /\ doc > Len(docs) /\ queue = <<>>
      /\ docs' = docs /\ doc' = doc /\ line' = line /\ stack' = stack /\ body' = body
      /\ queue' = queue /\ items' = items /\ told' = told
  BY DEF PlanUnits
<1>3. units' = {UnitOf(i) : i \in DOMAIN items}
  BY Zenon DEF PlanUnits, UnitOf
<1>4. IsCut(units') /\ units' \in SUBSET SUBSET DOMAIN items
  BY <1>1, <1>3, UnitsCut
<1>5. UnitsAreACut'
  BY <1>2, <1>4, CutStays
<1>6. ItemsTellTheFacts'
  BY <1>2, ItemsStay DEF Inv
<1>7. StackIsOutline' /\ (~InText' => stack' = <<>>) /\ (InText' => line' <= Len(Lines') + 1)
  BY <1>1, <1>2 DEF Inv, StackIsOutline, InText, Lines
<1> QED
  BY <1>1, <1>2, <1>4, <1>5, <1>6, <1>7 DEF Inv, Types

(* A step that changes nothing.                                               *)
LEMMA InvStutter == Inv /\ UNCHANGED vars => Inv'
<1> SUFFICES ASSUME Inv, UNCHANGED vars PROVE Inv'
  OBVIOUS
<1>1. /\ docs' = docs /\ doc' = doc /\ line' = line /\ stack' = stack /\ body' = body
      /\ queue' = queue /\ items' = items /\ told' = told /\ units' = units
  BY DEF vars
<1>2. ItemsTellTheFacts' /\ UnitsAreACut'
  BY <1>1, ItemsStay, UnitsStay DEF Inv
<1>3. StackIsOutline' /\ (~InText' => stack' = <<>>) /\ Types'
  BY <1>1 DEF Inv, StackIsOutline, InText, Lines, Types
<1> QED
  BY <1>1, <1>2, <1>3 DEF Inv

-----------------------------------------------------------------------------
(* The invariant holds of every reachable state.                              *)
THEOREM Invariance == Spec => []Inv
<1>1. Init => Inv
  BY InvInit
<1>2. Inv /\ [Next]_vars => Inv'
  <2> SUFFICES ASSUME Inv, [Next]_vars PROVE Inv'
    OBVIOUS
  <2>1. CASE ReadHeading
    BY <2>1, InvReadHeading
  <2>2. CASE ReadLine
    BY <2>2, InvReadLine
  <2>3. CASE EndOfText
    BY <2>3, InvEndOfText
  <2>4. CASE ReadEntry
    BY <2>4, InvReadEntry
  <2>5. CASE EndOfJson
    BY <2>5, InvEndOfJson
  <2>6. CASE Collect
    BY <2>6, InvCollect
  <2>7. CASE PlanUnits
    BY <2>7, InvPlanUnits
  <2>8. CASE Rest \/ UNCHANGED vars
    BY <2>8, InvStutter DEF Rest
  <2> QED
    BY <2>1, <2>2, <2>3, <2>4, <2>5, <2>6, <2>7, <2>8 DEF Next
<1> QED
  BY <1>1, <1>2, PTL DEF Spec

(* The state has its types whatever is uploaded: no kind and no severity is   *)
(* made up, and no unit names an item that is not there.                      *)
THEOREM TypeCorrect == Spec => []TypeOK
<1>1. Inv => TypeOK
  BY InvTypeOK
<1> QED
  BY <1>1, Invariance, PTL

(* At every line of every document the open headings are those that enclose it *)
(* (parsers.ts:38, the headings that a heading closes).                       *)
THEOREM PathsAreOutlines == Spec => []StackIsOutline
<1>1. Inv => StackIsOutline
  BY DEF Inv
<1> QED
  BY <1>1, Invariance, PTL

(* However often a fact is restated it has one item, which carries the highest *)
(* severity, all the native ids and the detail of one statement. It names no   *)
(* section or document that does not state it, and each that does is named or  *)
(* found in the text of one that is, which is all that includes() asks         *)
(* (analyzer.ts:81-95).                                                       *)
THEOREM FactsAreKept == Spec => []ItemsTellTheFacts
<1>1. Inv => ItemsTellTheFacts
  BY DEF Inv
<1> QED
  BY <1>1, Invariance, PTL

(* The planned units are a cut of the items, whatever the items and the limit *)
(* (planner.ts:61-92).                                                        *)
THEOREM UnitsPartition == Spec => []UnitsAreACut
<1>1. Inv => UnitsAreACut
  BY DEF Inv
<1> QED
  BY <1>1, Invariance, PTL

-----------------------------------------------------------------------------
(* What the facts of a section tell. FlattenSeq keeps what is in each of the  *)
(* sequences.                                                                 *)
LEMMA FlattenedKeeps ==
  ASSUME NEW T, NEW seqs \in Seq(Seq(T)), NEW i \in DOMAIN seqs, NEW x \in Range(seqs[i])
  PROVE  x \in Range(FlattenSeq(seqs))
<1> DEFINE n == Len(seqs)
           g == CHOOSE g : Pile(seqs, n, g)
<1>1. n \in Nat /\ DOMAIN seqs = 1..n /\ \A j \in 1..n : seqs[j] \in Seq(T)
  BY LenProperties
<1>2. Pile(seqs, n, g)
  BY <1>1, PileExists, Zenon
<1>3. \A j \in 1..n : g[j] = IF j = 1 THEN seqs[j] ELSE g[j - 1] \o seqs[j]
  <2> HIDE DEF g
  <2> QED
    BY <1>2, Zenon DEF Pile
<1>4. n # 0 /\ n \in 1..n /\ i \in 1..n
  BY <1>1
<1>5. FlattenSeq(seqs) = g[n]
  BY <1>4, Zenon DEF FlattenSeq, Pile
<1> HIDE DEF g, n
<1>6. ASSUME NEW s \in Seq(T), NEW t \in Seq(T)
      PROVE  s \o t \in Seq(T) /\ Range(s) \subseteq Range(s \o t) /\ Range(t) \subseteq Range(s \o t)
  <2>1. /\ s \o t \in Seq(T) /\ Len(s \o t) = Len(s) + Len(t) /\ Len(s) \in Nat /\ Len(t) \in Nat
        /\ \A j \in 1..(Len(s) + Len(t)) : (s \o t)[j] = IF j <= Len(s) THEN s[j] ELSE t[j - Len(s)]
        /\ DOMAIN s = 1..Len(s) /\ DOMAIN t = 1..Len(t)
    BY ConcatProperties, LenProperties
  <2>2. DOMAIN (s \o t) = 1..(Len(s) + Len(t))
    BY <2>1, LenProperties
  <2>3. ASSUME NEW j \in DOMAIN s PROVE s[j] \in Range(s \o t)
    <3>1. j \in 1..(Len(s) + Len(t)) /\ (s \o t)[j] = s[j]
      BY <2>1
    <3> QED
      BY <2>2, <3>1, Zenon DEF Range
  <2>4. ASSUME NEW j \in DOMAIN t PROVE t[j] \in Range(s \o t)
    <3>1. /\ Len(s) + j \in 1..(Len(s) + Len(t)) /\ ~(Len(s) + j <= Len(s)) /\ (Len(s) + j) - Len(s) = j
      BY <2>1
    <3>2. (s \o t)[Len(s) + j] = t[j]
      BY <2>1, <3>1
    <3> QED
      BY <2>2, <3>1, <3>2, Zenon DEF Range
  <2> QED
    BY <2>1, <2>3, <2>4 DEF Range
<1> DEFINE bad == {j \in i..n : ~(g[j] \in Seq(T) /\ x \in Range(g[j]))}
<1>7. \A j \in 1..n : g[j] \in Seq(T)
  <2> DEFINE worse == {j \in 1..n : g[j] \notin Seq(T)}
  <2>1. SUFFICES ASSUME worse # {} PROVE FALSE
    OBVIOUS
  <2>2. PICK m \in worse : \A k \in worse : m <= k
    <3>1. worse \in SUBSET Nat
      BY <1>1
    <3> HIDE DEF worse
    <3> QED
      BY <2>1, <3>1, Least
  <2>3. m # 1
    BY <1>1, <1>3, <2>2
  <2>4. m - 1 \in 1..n /\ m - 1 \notin worse /\ m \in 1..n
    BY <1>1, <2>2, <2>3
  <2>5. g[m - 1] \in Seq(T) /\ seqs[m] \in Seq(T) /\ g[m] = g[m - 1] \o seqs[m]
    BY <1>1, <1>3, <2>3, <2>4
  <2>6. g[m] \in Seq(T)
    BY <1>6, <2>5, Zenon
  <2> QED
    BY <2>2, <2>6
<1>8. bad = {}
  <2>1. SUFFICES ASSUME bad # {} PROVE FALSE
    OBVIOUS
  <2>2. PICK m \in bad : \A k \in bad : m <= k
    <3>1. bad \in SUBSET Nat
      BY <1>1
    <3> HIDE DEF bad
    <3> QED
      BY <2>1, <3>1, Least
  <2>3. m \in 1..n /\ m \in i..n /\ seqs[m] \in Seq(T) /\ g[m] \in Seq(T)
    BY <1>1, <1>4, <1>7
  <2>4. CASE m = 1
    <3>1. i = 1 /\ g[1] = seqs[1]
      BY <1>1, <1>3, <1>4, <2>3, <2>4
    <3> QED
      BY <2>2, <2>3, <2>4, <3>1
  <2>5. CASE m # 1
    <3>0. m - 1 \in 1..n
      BY <1>1, <2>3, <2>5
    <3>1. g[m] = g[m - 1] \o seqs[m] /\ g[m - 1] \in Seq(T)
      BY <1>3, <1>7, <2>3, <2>5, <3>0
    <3>2. Range(g[m - 1]) \subseteq Range(g[m]) /\ Range(seqs[m]) \subseteq Range(g[m])
      BY <1>6, <2>3, <3>1, Zenon
    <3>3. CASE i = m
      BY <2>2, <2>3, <3>2, <3>3
    <3>4. CASE i # m
      <4>1. m - 1 \in i..n /\ m - 1 \notin bad
        BY <1>1, <1>4, <2>2, <2>3, <3>4
      <4>2. x \in Range(g[m - 1])
        BY <4>1
      <4> QED
        BY <2>2, <2>3, <3>2, <4>2
    <3> QED
      BY <3>3, <3>4
  <2> QED
    BY <2>4, <2>5
<1>9. n \in i..n
  BY <1>1, <1>4
<1> QED
  BY <1>5, <1>8, <1>9

\* A text is told in the key of a fact, which tells facts apart, or in its detail.
TextOf(f, how) == IF how = "key" THEN Range(f.key[3]) ELSE f.detail
Limit(how) == IF how = "key" THEN KeyChars ELSE DetailChars

\* Some fact of the section path tells the text.
Tell(facts, path, text, how) ==
    \E j \in DOMAIN facts : facts[j].section = path /\ text \in TextOf(facts[j], how)

(* What a part of a section's facts tells, the section tells.                 *)
LEMMA PartsTell ==
  ASSUME NEW path \in Seq(Titles), NEW tbody \in Seq(BodyLine), NEW text, NEW how,
         \/ Tell(TableFacts(path, tbody), path, text, how)
         \/ Tell(BulletFacts(path, tbody), path, text, how)
         \/ Tell(ParagraphFacts(path, tbody), path, text, how)
  PROVE  Tell(FactsOf(path, tbody), path, text, how)
<1>1. ASSUME NEW s \in Seq(Facts), NEW t \in Seq(Facts), Tell(s, path, text, how) \/ Tell(t, path, text, how)
      PROVE  Tell(s \o t, path, text, how)
  <2>1. /\ s \o t \in Seq(Facts) /\ Len(s \o t) = Len(s) + Len(t) /\ Len(s) \in Nat /\ Len(t) \in Nat
        /\ \A j \in 1..(Len(s) + Len(t)) : (s \o t)[j] = IF j <= Len(s) THEN s[j] ELSE t[j - Len(s)]
        /\ DOMAIN s = 1..Len(s) /\ DOMAIN t = 1..Len(t)
    BY ConcatProperties, LenProperties
  <2>2. DOMAIN (s \o t) = 1..(Len(s) + Len(t))
    BY <2>1, LenProperties
  <2>3. ASSUME NEW j \in DOMAIN s PROVE j \in DOMAIN (s \o t) /\ (s \o t)[j] = s[j]
    BY <2>1, <2>2
  <2>4. ASSUME NEW j \in DOMAIN t
        PROVE  Len(s) + j \in DOMAIN (s \o t) /\ (s \o t)[Len(s) + j] = t[j]
    <3>1. Len(s) + j \in 1..(Len(s) + Len(t)) /\ ~(Len(s) + j <= Len(s)) /\ (Len(s) + j) - Len(s) = j
      BY <2>1
    <3> QED
      BY <2>1, <2>2, <3>1
  <2>5. CASE Tell(s, path, text, how)
    BY <2>3, <2>5, Zenon DEF Tell
  <2>6. CASE Tell(t, path, text, how)
    BY <2>4, <2>6, Zenon DEF Tell
  <2> QED
    BY <1>1, <2>5, <2>6
<1>2. PICK a \in Seq(Facts) : a = TableFacts(path, tbody)
  BY TableFactsTyped, BodyLines
<1>3. PICK b \in Seq(Facts) : b = BulletFacts(path, tbody)
  BY BulletFactsTyped, BodyLines
<1>4. PICK c \in Seq(Facts) : c = ParagraphFacts(path, tbody)
  BY ParagraphFactsTyped
<1>5. FactsOf(path, tbody) = (a \o b) \o c
  BY <1>2, <1>3, <1>4, Zenon DEF FactsOf
<1>6. a \o b \in Seq(Facts)
  BY ConcatProperties
<1>7. CASE Tell(a, path, text, how) \/ Tell(b, path, text, how)
  <2>1. Tell(a \o b, path, text, how)
    BY <1>1, <1>7
  <2>2. Tell((a \o b) \o c, path, text, how)
    BY <1>1, <1>6, <2>1
  <2> QED
    BY <1>5, <2>2
<1>8. CASE Tell(c, path, text, how)
  <2>1. Tell((a \o b) \o c, path, text, how)
    BY <1>1, <1>6, <1>8
  <2> QED
    BY <1>5, <2>1
<1> QED
  BY <1>2, <1>3, <1>4, <1>7, <1>8

(* The rows of a table that starts below a line that belongs to no other are  *)
(* told, however many there are (parsers.ts:60-77).                           *)
LEMMA RowsTold ==
  ASSUME NEW path \in Seq(Titles), NEW tbody \in Seq(Line), NEW h \in DOMAIN tbody, NEW i \in DOMAIN tbody,
         h + 1 < i, tbody[h].pipe, tbody[h + 1].sep, \A k \in (h + 2)..i : tbody[k].pipe,
         h = 1 \/ ~(tbody[h - 1].pipe \/ tbody[h - 1].sep),
         tbody[i].says # None
  PROVE  Tell(TableFacts(path, tbody), path, tbody[i].says, "key")
<1> DEFINE role == Roles(tbody)
           n == Len(tbody)
<1>1. n \in Nat /\ DOMAIN tbody = 1..n /\ h \in 1..n /\ i \in 1..n /\ h + 1 \in 1..n /\ h < n
  BY LenProperties
<1>2. role[0] = "text" /\ \A k \in 1..n : role[k] = Role(tbody, k, role[k - 1])
  BY RolesAre
<1> HIDE DEF role, n
<1>3. role[h - 1] \notin {"head", "separator", "row"}
  <2>1. CASE h = 1
    <3>1. h - 1 = 0
      BY <1>1, <2>1
    <3> QED
      BY <1>2, <3>1
  <2>2. CASE h # 1
    <3>1. h - 1 \in 1..n /\ ~tbody[h - 1].pipe /\ ~tbody[h - 1].sep
      BY <1>1, <2>2
    <3>2. role[h - 1] = Role(tbody, h - 1, role[(h - 1) - 1])
      BY <1>2, <3>1
    <3>3. role[(h - 1) - 1] # "head"
      <4>1. CASE h - 1 = 1
        BY <1>2, <4>1
      <4>2. CASE h - 1 # 1
        <5>1. (h - 1) - 1 \in 1..n /\ ((h - 1) - 1) + 1 = h - 1
          BY <1>1, <3>1, <4>2
        <5>2. role[(h - 1) - 1] = Role(tbody, (h - 1) - 1, role[((h - 1) - 1) - 1])
          BY <1>2, <5>1
        <5> QED
          BY <3>1, <5>1, <5>2 DEF Role
      <4> QED
        BY <4>1, <4>2
    <3> QED
      BY <3>1, <3>2, <3>3 DEF Role
  <2> QED
    BY <2>1, <2>2
<1>4. role[h] = "head"
  <2>1. role[h] = Role(tbody, h, role[h - 1])
    BY <1>1, <1>2
  <2> QED
    BY <1>1, <1>3, <2>1 DEF Role, n
<1>5. role[h + 1] = "separator"
  <2>1. role[h + 1] = Role(tbody, h + 1, role[(h + 1) - 1]) /\ (h + 1) - 1 = h
    BY <1>1, <1>2
  <2> QED
    BY <1>4, <2>1 DEF Role
<1> DEFINE bad == {k \in (h + 2)..i : role[k] # "row"}
<1>6. bad = {}
  <2>1. SUFFICES ASSUME bad # {} PROVE FALSE
    OBVIOUS
  <2>2. PICK m \in bad : \A k \in bad : m <= k
    <3>1. bad \in SUBSET Nat
      BY <1>1
    <3> HIDE DEF bad
    <3> QED
      BY <2>1, <3>1, Least
  <2>3. m \in 1..n /\ m \in (h + 2)..i
    BY <1>1
  <2>4. role[m - 1] \in {"separator", "row"}
    <3>1. CASE m = h + 2
      <4>1. m - 1 = h + 1
        BY <1>1, <3>1
      <4> QED
        BY <1>5, <4>1
    <3>2. CASE m # h + 2
      <4>1. m - 1 \in (h + 2)..i /\ m - 1 \notin bad
        BY <1>1, <2>2, <2>3, <3>2
      <4> QED
        BY <4>1
    <3> QED
      BY <3>1, <3>2
  <2>5. role[m] = Role(tbody, m, role[m - 1]) /\ tbody[m].pipe
    BY <1>2, <2>3
  <2>6. role[m] = "row"
    BY <2>4, <2>5 DEF Role
  <2> QED
    BY <2>2, <2>6
<1>7. role[i] = "row"
  <2>1. i \in (h + 2)..i
    BY <1>1
  <2> QED
    BY <1>6, <2>1
<1> DEFINE S == {k \in DOMAIN tbody : role[k] = "row" /\ tbody[k].says # None}
           rows == InOrder(S)
           facts == [k \in DOMAIN rows |-> RowFact(path, tbody[HeaderOf(tbody, rows[k])], tbody[rows[k]])]
<1>8. S \in SUBSET Nat /\ IsFiniteSet(S) /\ i \in S
  <2>1. S \in SUBSET (1..n)
    BY <1>1
  <2>2. IsFiniteSet(1..n) /\ 1..n \in SUBSET Nat
    BY <1>1, FS_Interval
  <2>3. i \in S
    BY <1>7
  <2> HIDE DEF S
  <2> QED
    BY <2>1, <2>2, <2>3, FS_Subset
<1>9. /\ rows \in [1..Cardinality(S) -> S]
      /\ \E k \in 1..Cardinality(S) : rows[k] = i
  <2> HIDE DEF S
  <2> QED
    BY <1>8, InOrderSorts, InOrderIncreases
<1>10. PICK k \in DOMAIN rows : rows[k] = i
  <2> HIDE DEF rows, S
  <2> QED
    BY <1>9
<1>11. k \in DOMAIN facts /\ facts[k] = RowFact(path, tbody[HeaderOf(tbody, i)], tbody[i])
  <2> HIDE DEF rows
  <2> QED
    BY <1>10
<1>12. \A head, l : RowFact(path, head, l).section = path /\ RowFact(path, head, l).key[3] = <<l.says>>
  BY DEF RowFact, Fact
<1>13. facts[k].section = path /\ facts[k].key[3] = <<tbody[i].says>>
  <2> HIDE DEF facts
  <2> QED
    BY <1>11, <1>12
<1>14. \A x : x \in Range(<<x>>)
  BY DEF Range
<1>15. TableFacts(path, tbody) = facts
  BY DEF TableFacts, HeaderOf, role
<1>16. tbody[i].says \in TextOf(facts[k], "key")
  <2> HIDE DEF facts
  <2> QED
    BY <1>13, <1>14 DEF TextOf
<1> HIDE DEF facts
<1> QED
  BY <1>11, <1>13, <1>15, <1>16 DEF Tell

(* A bullet is told, or each endpoint that it lists (analyzer.ts:303-331).    *)
LEMMA BulletsTold ==
  ASSUME NEW path \in Seq(Titles), NEW tbody \in Seq(Line), NEW i \in DOMAIN tbody,
         tbody[i].mark = "bullet", NEW text \in Bulleted(tbody[i])
  PROVE  Tell(BulletFacts(path, tbody), path, text, "key")
<1> DEFINE B == {k \in DOMAIN tbody : tbody[k].mark = "bullet"}
           bullets == Only(tbody, B)
           lists == [k \in DOMAIN bullets |-> FactsOfBullet(path, bullets[k])]
<1>1. B \in SUBSET (DOMAIN tbody) /\ i \in B
  OBVIOUS
<1>2. PICK k \in DOMAIN bullets : bullets[k] = tbody[i]
  <2> HIDE DEF B
  <2>1. Range(Only(tbody, B)) = {tbody[x] : x \in B}
    BY <1>1, TellsThose, Zenon
  <2>2. tbody[i] \in Range(bullets)
    BY <1>1, <2>1
  <2> HIDE DEF bullets
  <2> QED
    BY <2>2 DEF Range
<1>3. k \in DOMAIN lists /\ lists[k] = FactsOfBullet(path, tbody[i])
  <2> HIDE DEF bullets
  <2> QED
    BY <1>2
<1>4. PICK l \in Line : l = tbody[i]
  BY LenProperties
<1>5. \E f \in Range(FactsOfBullet(path, l)) : f.section = path /\ text \in Range(f.key[3])
  <2>1. CASE Len(EndpointsIn[l.says]) > 1
    <3> DEFINE E == EndpointsIn[l.says]
    <3>1. FactsOfBullet(path, l) = [x \in DOMAIN E |-> EndpointFact(path, E[x])]
      BY <2>1 DEF FactsOfBullet
    <3>2. PICK x \in DOMAIN E : text = E[x]
      BY <1>4, <2>1 DEF Bulleted, Range
    <3> HIDE DEF E
    <3>3. EndpointFact(path, E[x]) \in Range(FactsOfBullet(path, l))
      BY <3>1 DEF Range
    <3>4. EndpointFact(path, E[x]).section = path /\ EndpointFact(path, E[x]).key[3] = <<E[x]>>
      BY DEF EndpointFact, Fact, TextKey
    <3>5. text \in Range(EndpointFact(path, E[x]).key[3])
      BY <3>2, <3>4 DEF Range
    <3> QED
      BY <3>3, <3>4, <3>5
  <2>2. CASE ~(Len(EndpointsIn[l.says]) > 1)
    <3>1. Length[l.says] >= MinBullet /\ text = l.says
      BY <1>4, <2>2 DEF Bulleted
    <3>2. ~(Length[l.says] < MinBullet)
      <4>1. l.says \in Texts
        BY <1>4, LineTyped
      <4>2. Length[l.says] \in Nat /\ MinBullet \in Nat
        BY <4>1, MarkdownConstants DEF MarkdownConstants
      <4> QED
        BY <3>1, <4>2
    <3>3. FactsOfBullet(path, l) = <<BulletFact(path, l.says)>>
      BY <2>2, <3>2, Zenon DEF FactsOfBullet
    <3>4. BulletFact(path, l.says) \in Range(FactsOfBullet(path, l))
      BY <3>3 DEF Range
    <3>5. BulletFact(path, l.says).section = path /\ BulletFact(path, l.says).key[3] = <<l.says>>
      BY DEF BulletFact, Fact, TextKey
    <3>6. text \in Range(BulletFact(path, l.says).key[3])
      <4>1. 1 \in DOMAIN <<l.says>> /\ <<l.says>>[1] = l.says
        OBVIOUS
      <4> QED
        BY <3>1, <3>5, <4>1, Zenon DEF Range
    <3> QED
      BY <3>4, <3>5, <3>6
  <2> QED
    BY <2>1, <2>2
<1>6. lists \in Seq(Seq(Facts))
  BY BulletListsTyped, Zenon DEF BulletLists
<1>7. BulletFacts(path, tbody) = FlattenSeq(lists)
  BY Zenon DEF BulletFacts
<1> HIDE DEF lists
<1>8. PICK f \in Range(lists[k]) : f.section = path /\ text \in Range(f.key[3])
  BY <1>3, <1>4, <1>5
<1>9. f \in Range(FlattenSeq(lists))
  BY <1>3, <1>6, FlattenedKeeps
<1>10. text \in TextOf(f, "key")
  BY <1>8, Zenon DEF TextOf
<1> QED
  BY <1>7, <1>8, <1>9, <1>10, Zenon DEF Tell, Range

(* The lines of an interval, and how far they reach.                          *)
LEMMA IntervalOnly ==
  ASSUME NEW lines, NEW s \in Nat \ {0}, NEW e \in Nat, s <= e
  PROVE  /\ Cardinality(s..e) = e - s + 1
         /\ Only(lines, s..e) = [k \in 1..(e - s + 1) |-> lines[s + k - 1]]
         /\ \A m \in s..e : Cardinality({k \in s..e : k <= m}) = m - s + 1
         /\ \A m \in Nat : e <= m => Cardinality({k \in s..e : k <= m}) = e - s + 1
<1> DEFINE n == e - s + 1
           t == [k \in 1..n |-> s + k - 1]
<1>1. n \in Nat /\ s..e \in SUBSET Nat
  OBVIOUS
<1>2. t \in [1..n -> s..e] /\ \A j, k \in 1..n : j < k => t[j] < t[k]
  OBVIOUS
<1>3. \A i \in s..e : \E k \in 1..n : t[k] = i
  <2> SUFFICES ASSUME NEW i \in s..e PROVE \E k \in 1..n : t[k] = i
    OBVIOUS
  <2>1. i - s + 1 \in 1..n /\ s + (i - s + 1) - 1 = i
    OBVIOUS
  <2> QED
    BY <2>1
<1>4. Cardinality(s..e) = n /\ InOrder(s..e) = t
  <2> HIDE DEF n, t
  <2> QED
    BY <1>1, <1>2, <1>3, InOrderUnique
<1>5. Only(lines, s..e) = [k \in 1..n |-> lines[s + k - 1]]
  <2>1. \A k \in 1..n : t[k] = s + k - 1
    OBVIOUS
  <2> HIDE DEF n, t
  <2> QED
    BY <1>4, <2>1 DEF Only
<1>6. ASSUME NEW m \in s..e PROVE Cardinality({k \in s..e : k <= m}) = m - s + 1
  <2>1. {k \in s..e : k <= m} = s..m /\ ~(s > m)
    OBVIOUS
  <2>2. s \in Int /\ m \in Int
    OBVIOUS
  <2>3. Cardinality(s..m) = IF s > m THEN 0 ELSE m - s + 1
    BY <2>2, FS_Interval
  <2> QED
    BY <2>1, <2>3
<1>7. ASSUME NEW m \in Nat, e <= m PROVE Cardinality({k \in s..e : k <= m}) = e - s + 1
  <2>1. {k \in s..e : k <= m} = s..e
    BY <1>7
  <2> QED
    BY <1>4, <2>1
<1> QED
  BY <1>4, <1>5, <1>6, <1>7

(* A run of lines is the lines of its interval.                               *)
LEMMA RunOnly ==
  ASSUME NEW lines, NEW s \in Nat \ {0}, NEW e \in Nat, s <= e,
         NEW run, run = [k \in 1..(e - s + 1) |-> lines[s + k - 1]]
  PROVE  Only(lines, s..e) = run
  BY IntervalOnly, Zenon

(* A paragraph of plain lines is told with what each of its lines says        *)
(* (parsers.ts:91-102) that ends within the first characters of it that the   *)
(* key or the detail has room for (analyzer.ts:269-272).                      *)
LEMMA ParagraphsTold ==
  ASSUME NEW path \in Seq(Titles), NEW tbody \in Seq(BodyLine), NEW i \in DOMAIN tbody, NEW how,
         ~Break(tbody, i),
         \A k \in DOMAIN tbody :
            k \in Paragraph(tbody, i) <=> \A m \in (k..i) \cup (i..k) : ~Break(tbody, m),
         \A k \in Paragraph(tbody, i) : Plain(tbody[k]),
         CharsUpTo(tbody, i, Len(tbody)) > MinParagraph,
         CharsUpTo(tbody, i, i) <= Limit(how)
  PROVE  Tell(ParagraphFacts(path, tbody), path, tbody[i].says, how)
<1> DEFINE n == Len(tbody)
           S == {k \in DOMAIN tbody : ~Break(tbody, k) /\ Break(tbody, k - 1)}
           A == {k \in 1..i : \A m \in k..i : ~Break(tbody, m)}
<1>1. n \in Nat /\ DOMAIN tbody = 1..n /\ i \in 1..n /\ \A k \in 1..n : tbody[k] \in BodyLine
  BY LenProperties
<1>2. PICK s \in A : \A k \in A : s <= k
  <2>1. A \in SUBSET Nat /\ i \in A
    BY <1>1
  <2> HIDE DEF A
  <2> QED
    BY <2>1, Least
<1>3. s \in 1..i /\ s \in 1..n /\ (\A m \in s..i : ~Break(tbody, m))
  BY <1>1, <1>2
<1>4. s \in S
  <2>1. ~Break(tbody, s)
    <3>1. s \in s..i
      BY <1>3
    <3> QED
      BY <1>3, <3>1
  <2>2. Break(tbody, s - 1)
    <3>1. CASE s = 1
      <4>1. s - 1 \notin DOMAIN tbody
        BY <1>1, <3>1
      <4> QED
        BY <4>1 DEF Break
    <3>2. ASSUME s # 1, ~Break(tbody, s - 1) PROVE FALSE
      <4>1. s - 1 \in 1..i /\ \A m \in (s - 1)..i : m = s - 1 \/ m \in s..i
        BY <1>3, <3>2
      <4>2. s - 1 \in A
        BY <1>3, <3>2, <4>1
      <4>3. s <= s - 1
        <5> HIDE DEF A
        <5> QED
          BY <1>2, <4>2
      <4> QED
        BY <1>3, <4>3
    <3> QED
      BY <3>1, <3>2
  <2> QED
    BY <1>1, <1>3, <2>1, <2>2
<1> DEFINE e == EndOf(tbody, s)
           run == SubSeq(tbody, s, e)
<1>5. e \in s..n /\ Break(tbody, e + 1) /\ \A m \in s..e : ~Break(tbody, m)
  BY <1>1, <1>4, BodyLines, ParagraphEnds
<1>6. i <= e
  <2>1. ASSUME e < i PROVE FALSE
    <3>1. e + 1 \in s..i
      BY <1>1, <1>3, <1>5, <2>1
    <3> QED
      BY <1>3, <1>5, <3>1
  <2> HIDE DEF e
  <2> QED
    BY <1>1, <1>5, <2>1
<1> HIDE DEF e, n
<1>7. /\ run \in Seq(BodyLine) /\ Len(run) = e - s + 1 /\ DOMAIN run = 1..(e - s + 1)
      /\ \A k \in 1..(e - s + 1) : run[k] = tbody[s + k - 1]
  <2>1. s \in Int /\ e \in Int /\ \A m \in s..e : tbody[m] \in BodyLine
    BY <1>1, <1>3, <1>5
  <2>2. e - s + 1 \in Nat /\ s <= e + 1
    BY <1>3, <1>5
  <2>3. /\ run \in Seq(BodyLine)
        /\ Len(run) = IF s <= e THEN e - s + 1 ELSE 0
        /\ \A k \in 1..(e - s + 1) : run[k] = tbody[s + k - 1]
    BY <2>1, SubSeqProperties
  <2>4. s <= e
    BY <1>3, <1>5
  <2> HIDE DEF run
  <2> QED
    BY <2>3, <2>4, LenProperties
<1> HIDE DEF run
<1>8. Paragraph(tbody, i) = s..e
  <2>1. ASSUME NEW k \in s..e PROVE k \in Paragraph(tbody, i)
    <3>1. k \in 1..n /\ \A m \in (k..i) \cup (i..k) : m \in s..e
      BY <1>1, <1>3, <1>5, <1>6
    <3> QED
      BY <1>1, <1>5, <3>1
  <2>2. ASSUME NEW k \in Paragraph(tbody, i) PROVE k \in s..e
    <3>1. k \in 1..n /\ \A m \in (k..i) \cup (i..k) : ~Break(tbody, m)
      BY <1>1 DEF Paragraph
    <3>2. ASSUME k < s PROVE FALSE
      <4>1. s - 1 \in k..i
        BY <1>1, <1>3, <3>1, <3>2
      <4>2. Break(tbody, s - 1)
        BY <1>4
      <4> QED
        BY <3>1, <4>1, <4>2
    <3>3. ASSUME k > e PROVE FALSE
      <4>1. e + 1 \in i..k
        BY <1>1, <1>3, <1>5, <1>6, <3>1, <3>3
      <4> QED
        BY <1>5, <3>1, <4>1
    <3> QED
      BY <1>1, <1>3, <1>5, <3>1, <3>2, <3>3
  <2> QED
    BY <2>1, <2>2
<1>9. ASSUME NEW k \in 1..(e - s + 1) PROVE Plain(run[k]) /\ run[k] \in BodyLine
  <2>1. s + k - 1 \in 1..n /\ s + k - 1 \in s..e /\ run[k] = tbody[s + k - 1]
    BY <1>1, <1>3, <1>5, <1>7
  <2> QED
    BY <1>1, <1>8, <2>1
<1>10. Says(run) \in Seq(Texts) /\ Len(Says(run)) = e - s + 1 /\ e - s + 1 \in Nat
       /\ \A k \in 1..(e - s + 1) : Says(run)[k] = run[k].says
  <2>1. \A k \in 1..(e - s + 1) : run[k].says \in Texts
    BY <1>9, LineTyped DEF Plain, BodyLine
  <2>2. Says(run) \in [1..(e - s + 1) -> Texts] /\ e - s + 1 \in Nat
    BY <1>3, <1>5, <1>7, <2>1 DEF Says
  <2>3. Says(run) \in Seq(Texts)
    BY <2>2, SeqDef
  <2>4. DOMAIN Says(run) = 1..(e - s + 1) /\ DOMAIN Says(run) = 1..Len(Says(run)) /\ Len(Says(run)) \in Nat
    BY <2>2, <2>3, LenProperties
  <2>5. Len(Says(run)) = e - s + 1
    BY <2>2, <2>4
  <2>6. \A k \in 1..(e - s + 1) : Says(run)[k] = run[k].says
    BY <1>7 DEF Says
  <2> QED
    BY <2>2, <2>3, <2>5, <2>6
<1>18. /\ CharsUpTo(tbody, i, n) = Reach(Says(run))[e - s + 1]
       /\ CharsUpTo(tbody, i, i) = Reach(Says(run))[i - s + 1]
       /\ i - s + 1 \in 1..(e - s + 1) /\ run[i - s + 1] = tbody[i]
  <2>1. s \in Nat \ {0} /\ e \in Nat /\ s <= e /\ i \in s..e /\ n \in Nat /\ e <= n
    BY <1>1, <1>3, <1>5, <1>6
  <2>3. run = [k \in 1..(e - s + 1) |-> tbody[s + k - 1]]
    <3>1. run = [k \in 1..(e - s + 1) |-> run[k]]
      BY <1>7
    <3> QED
      BY <1>7, <3>1
  <2>2. Only(tbody, s..e) = run
    BY <2>1, <2>3, RunOnly
  <2>4. Cardinality({k \in s..e : k <= i}) = i - s + 1 /\ Cardinality({k \in s..e : k <= n}) = e - s + 1
    BY <2>1, IntervalOnly
  <2>5. \A m : CharsUpTo(tbody, i, m) = Reach(Says(Only(tbody, s..e)))[Cardinality({k \in s..e : k <= m})]
    BY <1>8, Zenon DEF CharsUpTo
  <2>6. i - s + 1 \in 1..(e - s + 1) /\ s + (i - s + 1) - 1 = i
    BY <2>1
  <2>7. run[i - s + 1] = tbody[i]
    BY <1>7, <2>6
  <2> QED
    BY <2>2, <2>4, <2>5, <2>6, <2>7
<1>19. IsParagraph(run)
  <2>1. Reach(Says(run))[Len(run)] > MinParagraph
    BY <1>7, <1>18 DEF n
  <2>2. 1 \in 1..(e - s + 1)
    BY <1>3, <1>5
  <2>3. ~run[1].sep /\ run[1].mark # "bullet" /\ \A k \in DOMAIN run : ~run[k].pipe
    BY <1>7, <1>9, <2>2 DEF Plain
  <2> QED
    BY <2>1, <2>3, Zenon DEF IsParagraph
<1> DEFINE starts == InOrder(S)
           runs == [k \in DOMAIN starts |-> SubSeq(tbody, starts[k], EndOf(tbody, starts[k]))]
           P == {k \in DOMAIN runs : IsParagraph(runs[k])}
           kept == Only(runs, P)
           facts == [k \in DOMAIN kept |-> ParagraphFact(path, kept[k])]
<1>11. ParagraphFacts(path, tbody) = facts
  BY DEF ParagraphFacts, EndOf
<1>12. runs \in Seq(Seq({l \in BodyLine : l.mark # "blank"}))
  BY RunsTyped, Zenon DEF RunsOf
<1>13. PICK j \in DOMAIN runs : runs[j] = run
  <2>1. S \in SUBSET Nat /\ IsFiniteSet(S)
    <3>1. IsFiniteSet(1..n) /\ 1..n \in SUBSET Nat
      BY <1>1, FS_Interval
    <3>2. S \in SUBSET (1..n)
      BY <1>1, Zenon
    <3> HIDE DEF S
    <3> QED
      BY <3>1, <3>2, FS_Subset
  <2>2. /\ starts \in [1..Cardinality(S) -> S]
        /\ \E k \in 1..Cardinality(S) : starts[k] = s
    <3> HIDE DEF S
    <3> QED
      BY <1>4, <2>1, InOrderSorts, InOrderIncreases
  <2>3. PICK j \in DOMAIN starts : starts[j] = s
    <3> HIDE DEF starts, S
    <3> QED
      BY <2>2
  <2>4. j \in DOMAIN runs /\ runs[j] = SubSeq(tbody, s, EndOf(tbody, s))
    <3> HIDE DEF starts
    <3> QED
      BY <2>3
  <2> QED
    BY <2>4 DEF run, e
<1>14. run \in Range(kept)
  <2> HIDE DEF runs
  <2>1. j \in P /\ P \in SUBSET (DOMAIN runs)
    BY <1>13, <1>19
  <2> HIDE DEF P
  <2>2. Range(Only(runs, P)) = {runs[k] : k \in P}
    <3>1. PICK r \in Seq(Seq({l \in BodyLine : l.mark # "blank"})) : r = runs
      BY <1>12, Zenon
    <3>2. PICK Q \in SUBSET (DOMAIN r) : Q = P
      BY <2>1, <3>1, Zenon
    <3>3. Range(Only(r, Q)) = {r[k] : k \in Q}
      <4> HIDE DEF S, A, starts, kept, facts
      <4> QED
        BY TellsThose, Zenon
    <3> QED
      BY <3>1, <3>2, <3>3, Zenon
  <2> QED
    BY <1>13, <2>1, <2>2
<1>15. PICK q \in DOMAIN facts : facts[q] = ParagraphFact(path, run)
  <2> HIDE DEF kept
  <2>1. PICK q \in DOMAIN kept : kept[q] = run
    BY <1>14 DEF Range
  <2> QED
    BY <2>1
<1>16. /\ ParagraphFact(path, run).section = path
       /\ ParagraphFact(path, run).key[3] = Excerpt(Says(run), KeyChars)
       /\ ParagraphFact(path, run).detail = Range(Excerpt(Says(run), DetailChars))
  BY DEF ParagraphFact, Fact, TextKey
<1>17. tbody[i].says \in TextOf(ParagraphFact(path, run), how)
  <2>1. Limit(how) \in Nat
    BY MarkdownConstants DEF MarkdownConstants, Limit
  <2>2. PICK text \in Seq(Texts) : text = Says(run)
    BY <1>10
  <2>3. PICK k \in 1..Len(text) : k = i - s + 1
    BY <1>10, <1>18, <2>2
  <2>4. Reach(text)[k] <= Limit(how) /\ text[k] = tbody[i].says
    BY <1>10, <1>18, <2>2, <2>3
  <2>5. text[k] \in Range(Excerpt(text, Limit(how)))
    BY <2>1, <2>4, LineWithin
  <2>6. TextOf(ParagraphFact(path, run), how) = Range(Excerpt(text, Limit(how)))
    BY <1>16, <2>2, Zenon DEF TextOf, Limit
  <2> QED
    BY <2>4, <2>5, <2>6
<1> HIDE DEF facts
<1> QED
  BY <1>11, <1>15, <1>16, <1>17 DEF Tell

(* What must be told of a line is told from its section alone: first, of a    *)
(* section taken for a text of its own. Its prose:                            *)
LEMMA ProseTold ==
  ASSUME NEW path \in Seq(Titles), NEW tbody \in Seq(BodyLine), NEW i \in DOMAIN tbody, NEW how,
         Plain(tbody[i]), ProseOfSection(tbody, i), CharsUpTo(tbody, i, i) <= Limit(how)
  PROVE  Tell(FactsOf(path, tbody), path, tbody[i].says, how)
<1> DEFINE n == Len(tbody)
<1>A. /\ n \in Nat /\ DOMAIN tbody = 1..n /\ i \in 1..n
      /\ \A k \in 1..n : tbody[k].level = 0
  <2>1. n \in Nat /\ DOMAIN tbody = 1..n /\ \A k \in 1..n : tbody[k] \in BodyLine
    BY LenProperties
  <2> QED
    BY <2>1 DEF BodyLine
<1>Q. Plain(tbody[i]) /\ ProseOfSection(tbody, i)
  OBVIOUS
<1> HIDE DEF n
<1>1. SameSection(tbody, i) = 1..n
  <2>1. \A k \in 1..n : \A m \in (k..i) \cup (i..k) : m \in 1..n
    BY <1>A
  <2> QED
    BY <1>A, <2>1 DEF SameSection
<1> DEFINE all == Fences(tbody, 1..n)
           Upto(k) == Fences(tbody, 1..k)
<1>2. FencesUpTo(tbody, i, n) = all /\ FencesUpTo(tbody, i, i) = Upto(i)
  <2>1. \A k \in 1..n : k <= n /\ (k <= i <=> k \in 1..i)
    BY <1>A
  <2>2. \A k \in 1..i : k \in 1..n
    BY <1>A
  <2> QED
    BY <1>1, <2>1, <2>2 DEF FencesUpTo, Fences
<1>3. Cardinality(all) % 2 = 0 /\ Cardinality(Upto(i)) % 2 = 0
  <2>1. \A m \in {i, Len(tbody)} : Cardinality(FencesUpTo(tbody, i, m)) % 2 = 0
    BY <1>Q, Zenon DEF ProseOfSection
  <2> QED
    BY <1>2, <2>1 DEF n
<1>4. ASSUME NEW k \in 1..n
      PROVE  Cardinality(Upto(k)) \in Nat /\ Cardinality(all) \in Nat /\ Cardinality(Upto(k)) <= Cardinality(all)
  <2>1. Upto(k) \in SUBSET all /\ IsFiniteSet(all)
    <3>1. all \in SUBSET (1..n) /\ IsFiniteSet(1..n)
      BY <1>A, FS_Interval DEF Fences
    <3>2. Upto(k) \in SUBSET all
      BY <1>A DEF Fences
    <3> HIDE DEF all, Upto
    <3> QED
      BY <3>1, <3>2, FS_Subset
  <2> HIDE DEF all, Upto
  <2> QED
    BY <2>1, FS_Subset, FS_CardinalityType
<1> HIDE DEF all, Upto
<1>5. /\ \A k \in 1..n : tbody[k].mark = "fence" => Fenced(tbody, k)
      /\ ~Fenced(tbody, i)
  <2>1. \A k \in 1..n : Fenced(tbody, k) <=>
          IF tbody[k].mark = "fence" THEN Cardinality(Upto(k)) % 2 = 0 \/ Cardinality(Upto(k)) < Cardinality(all)
          ELSE Cardinality(Upto(k)) % 2 = 1 /\ Cardinality(Upto(k)) < Cardinality(all)
    BY <1>A, Zenon DEF Fenced, Upto, all
  <2>2. \A x, y \in Nat : x <= y /\ y % 2 = 0 => x % 2 = 0 \/ x < y
    OBVIOUS
  <2>3. tbody[i].mark # "fence" /\ ~(Cardinality(Upto(i)) % 2 = 1)
    BY <1>Q, <1>3 DEF Plain
  <2>4. \A k \in 1..n : Cardinality(Upto(k)) % 2 = 0 \/ Cardinality(Upto(k)) < Cardinality(all)
    BY <1>3, <1>4, <2>2
  <2> QED
    BY <1>A, <2>1, <2>3, <2>4, Zenon
<1>6. ~Break(tbody, i)
  BY <1>A, <1>Q, <1>5 DEF Break, Plain
<1>7. ASSUME NEW k \in 1..n, NEW m \in 1..n, m \in (k..i) \cup (i..k), k \in Paragraph(tbody, i)
      PROVE  ~Break(tbody, m)
  <2>1. \A x \in (k..i) \cup (i..k) : tbody[x].mark \notin {"blank", "fence"}
    BY <1>7 DEF Paragraph
  <2>2. Upto(m) = Upto(i)
    <3>1. ASSUME NEW x \in 1..n, tbody[x].mark = "fence" PROVE x <= m <=> x <= i
      <4>1. x \notin (k..i) \cup (i..k)
        BY <2>1, <3>1
      <4> QED
        BY <1>A, <1>7, <4>1
    <3>2. \A x \in 1..m : x \in 1..n /\ x <= m
      BY <1>A
    <3>3. \A x \in 1..i : x \in 1..n /\ x <= i
      BY <1>A
    <3>4. \A x \in 1..n : (x <= m => x \in 1..m) /\ (x <= i => x \in 1..i)
      BY <1>A
    <3> QED
      BY <3>1, <3>2, <3>3, <3>4 DEF Upto, Fences
  <2>3. ~(Cardinality(Upto(m)) % 2 = 1)
    BY <1>3, <2>2
  <2>4. ~Fenced(tbody, m)
    BY <1>A, <1>7, <2>1, <2>3, Zenon DEF Fenced, Upto
  <2> QED
    BY <1>A, <1>7, <2>1, <2>4 DEF Break
<1>8. ASSUME NEW k \in DOMAIN tbody
      PROVE  k \in Paragraph(tbody, i) <=> \A m \in (k..i) \cup (i..k) : ~Break(tbody, m)
  <2>1. k \in 1..n /\ \A m \in (k..i) \cup (i..k) : m \in 1..n
    BY <1>A
  <2>2. ASSUME k \in Paragraph(tbody, i) PROVE \A m \in (k..i) \cup (i..k) : ~Break(tbody, m)
    BY <1>7, <2>1, <2>2
  <2>3. ASSUME \A m \in (k..i) \cup (i..k) : ~Break(tbody, m) PROVE k \in Paragraph(tbody, i)
    <3>1. ASSUME NEW m \in (k..i) \cup (i..k)
          PROVE  tbody[m].level = 0 /\ tbody[m].mark \notin {"blank", "fence"}
      <4>1. m \in 1..n /\ ~Break(tbody, m)
        BY <2>1, <2>3
      <4> QED
        BY <1>A, <1>5, <4>1 DEF Break
    <3> QED
      BY <3>1 DEF Paragraph
  <2> QED
    BY <2>2, <2>3
<1>9. /\ \A k \in Paragraph(tbody, i) : Plain(tbody[k])
      /\ CharsUpTo(tbody, i, Len(tbody)) > MinParagraph
  BY <1>Q, Zenon DEF ProseOfSection
<1>10. Tell(ParagraphFacts(path, tbody), path, tbody[i].says, how)
  BY <1>6, <1>8, <1>9, ParagraphsTold
<1> QED
  BY <1>10, PartsTell

\* What is told of a line in a key, or in a detail.
Telling(lines, i, how) ==
    IF how = "key" THEN MustTell(lines, i)
    ELSE {t \in {lines[i].says} : ProseWithin(lines, i, DetailChars)}

(* And all of it.                                                             *)
LEMMA SectionTells ==
  ASSUME NEW path \in Seq(Titles), NEW tbody \in Seq(BodyLine), NEW i \in DOMAIN tbody,
         NEW how \in {"key", "detail"}, NEW text \in Telling(tbody, i, how)
  PROVE  Tell(FactsOf(path, tbody), path, text, how)
<1>0. tbody \in Seq(Line)
  BY BodyLines
<1>1. CASE how = "detail"
  <2>1. text = tbody[i].says /\ ProseWithin(tbody, i, DetailChars)
    BY <1>1 DEF Telling
  <2>2. Limit(how) = DetailChars
    BY <1>1 DEF Limit
  <2> QED
    BY <2>1, <2>2, ProseTold DEF ProseWithin
<1>2. CASE how = "key"
  <2>1. text \in MustTell(tbody, i)
    BY <1>2, Zenon DEF Telling
  <2>2. /\ text # None
        /\ \/ tbody[i].mark = "bullet" /\ text \in Bulleted(tbody[i])
           \/ text = tbody[i].says /\ RowOfTable(tbody, i)
           \/ text = tbody[i].says /\ ProseWithin(tbody, i, KeyChars)
    BY <2>1, Zenon DEF MustTell
  <2>3. CASE tbody[i].mark = "bullet" /\ text \in Bulleted(tbody[i])
    BY <1>0, <1>2, <2>3, BulletsTold, PartsTell
  <2>4. CASE text = tbody[i].says /\ RowOfTable(tbody, i)
    <3>1. PICK h \in SameSection(tbody, i) :
              /\ h + 1 < i /\ tbody[h].pipe /\ tbody[h + 1].sep
              /\ \A k \in (h + 2)..i : tbody[k].pipe
              /\ h = 1 \/ ~(tbody[h - 1].pipe \/ tbody[h - 1].sep)
      BY <2>4, Zenon DEF RowOfTable
    <3>2. h \in DOMAIN tbody
      BY DEF SameSection
    <3> QED
      BY <1>0, <1>2, <2>2, <2>4, <3>1, <3>2, RowsTold, PartsTell
  <2>5. CASE text = tbody[i].says /\ ProseWithin(tbody, i, KeyChars)
    <3>1. Limit(how) = KeyChars
      BY <1>2 DEF Limit
    <3> QED
      BY <2>5, <3>1, ProseTold DEF ProseWithin
  <2> QED
    BY <2>2, <2>3, <2>4, <2>5
<1> QED
  BY <1>1, <1>2

(* A set has as many positions wherever it is moved to.                       *)
LEMMA Shifted ==
  ASSUME NEW n \in Nat, NEW S \in SUBSET (1..n), NEW a \in Nat
  PROVE  Cardinality({a + x : x \in S}) = Cardinality(S)
<1> DEFINE T == {a + x : x \in S}
           f == [x \in S |-> a + x]
           g == [y \in T |-> y - a]
<1>1. IsFiniteSet(S) /\ \A x \in S : x \in Int
  <2>1. IsFiniteSet(1..n)
    BY FS_Interval
  <2>2. IsFiniteSet(S)
    BY <2>1, FS_Subset
  <2>3. \A x \in S : x \in Int
    OBVIOUS
  <2> QED
    BY <2>2, <2>3
<1>2. IsFiniteSet(T)
  <2>1. DOMAIN f = S /\ T = {f[x] : x \in S}
    OBVIOUS
  <2> HIDE DEF f, T
  <2> QED
    BY <1>1, <2>1, Image
<1>3. f \in [S -> T] /\ \A x, y \in S : f[x] = f[y] => x = y
  <2>1. f \in [S -> T]
    OBVIOUS
  <2> QED
    BY <1>1, <2>1
<1>4. g \in [T -> S] /\ \A x, y \in T : g[x] = g[y] => x = y
  <2>1. \A y \in T : y - a \in S /\ y \in Int
    BY <1>1
  <2>2. g \in [T -> S]
    BY <2>1
  <2> QED
    BY <2>1, <2>2
<1>5. Cardinality(S) \in Nat /\ Cardinality(S) <= Cardinality(T)
  <2> HIDE DEF f, T, g
  <2> QED
    BY <1>2, <1>3, NoMore
<1>6. Cardinality(T) \in Nat /\ Cardinality(T) <= Cardinality(S)
  <2> HIDE DEF f, T, g
  <2> QED
    BY <1>1, <1>4, NoMore
<1> HIDE DEF T
<1> QED
  BY <1>5, <1>6 DEF T

\* T is S, moved a lines down from the lines tbody to the lines below a.
Moved(tbody, n, S, lines, a, T) ==
    /\ n \in Nat /\ S \in SUBSET (1..n) /\ a \in Nat /\ T \in SUBSET Nat
    /\ \A y \in T : y - a \in S
    /\ \A x \in S : a + x \in T
    /\ \A m \in 1..n : tbody[m] = lines[a + m]

(* And its lines are the same lines.                                          *)
LEMMA OnlyShifted ==
  ASSUME NEW tbody, NEW n, NEW S, NEW lines, NEW a, NEW T, Moved(tbody, n, S, lines, a, T)
  PROVE  Only(lines, T) = Only(tbody, S) /\ Cardinality(T) = Cardinality(S)
<1> USE DEF Moved
<1> DEFINE c == Cardinality(S)
           r == InOrder(S)
           t == [k \in 1..c |-> a + r[k]]
<1>0. T = {a + x : x \in S}
  <2>1. \A y \in T : y = a + (y - a)
    OBVIOUS
  <2> QED
    BY <2>1
<1>1. S \in SUBSET Nat /\ IsFiniteSet(S) /\ T \in SUBSET Nat
  <2>1. IsFiniteSet(1..n)
    BY FS_Interval
  <2>2. IsFiniteSet(S)
    BY <2>1, FS_Subset
  <2> QED
    BY <2>2
<1>2. /\ c \in Nat /\ r \in [1..c -> S]
      /\ \A j, k \in 1..c : j < k => r[j] < r[k]
      /\ \A i \in S : \E k \in 1..c : r[k] = i
  BY <1>1, InOrderSorts, InOrderIncreases
<1>3. Cardinality(T) = c
  BY <1>0, Shifted
<1> HIDE DEF c, r
<1>4. \A k \in 1..c : r[k] \in S /\ r[k] \in 1..n /\ t[k] = a + r[k]
  BY <1>2
<1>5. t \in [1..c -> T]
  BY <1>4
<1>6. ASSUME NEW j \in 1..c, NEW k \in 1..c, j < k PROVE t[j] < t[k]
  <2>1. r[j] < r[k] /\ r[j] \in 1..n /\ r[k] \in 1..n
    BY <1>2, <1>4, <1>6
  <2>2. t[j] = a + r[j] /\ t[k] = a + r[k]
    BY <1>4
  <2> HIDE DEF t
  <2> QED
    BY <2>1, <2>2
<1>7. ASSUME NEW y \in T PROVE \E k \in 1..c : t[k] = y
  <2>1. PICK x \in S : y = a + x
    BY <1>0
  <2>2. PICK k \in 1..c : r[k] = x
    BY <1>2
  <2> QED
    BY <1>4, <2>1, <2>2
<1> HIDE DEF t
<1>8. InOrder(T) = t
  BY <1>1, <1>2, <1>5, <1>6, <1>7, InOrderUnique
<1>9. \A k \in 1..c : lines[InOrder(T)[k]] = tbody[InOrder(S)[k]]
  BY <1>4, <1>8 DEF r
<1>10. Only(lines, T) = [k \in 1..c |-> lines[InOrder(T)[k]]]
  BY <1>3, Zenon DEF Only
<1>11. Only(tbody, S) = [k \in 1..c |-> tbody[InOrder(S)[k]]]
  BY DEF Only, c
<1> QED
  BY <1>3, <1>9, <1>10, <1>11 DEF c

\* The lines below a, up to the next heading or the end, are the section tbody.
IsBody(lines, tbody, a) ==
    /\ a \in Nat /\ a + Len(tbody) <= Len(lines)
    /\ \A k \in DOMAIN tbody : tbody[k] = lines[a + k] /\ tbody[k].level = 0
    /\ a = 0 \/ lines[a].level > 0

IsSection(lines, tbody, a) ==
    /\ IsBody(lines, tbody, a)
    /\ a + Len(tbody) = Len(lines) \/ lines[a + Len(tbody) + 1].level > 0

(* Then, that neither the lines above a section nor those below it matter.    *)
LEMMA SectionAlone ==
  ASSUME NEW lines \in Seq(Line), NEW tbody \in Seq(Line), NEW a, IsSection(lines, tbody, a),
         NEW k \in DOMAIN tbody, NEW how \in {"key", "detail"}
  PROVE  Telling(lines, a + k, how) \subseteq Telling(tbody, k, how)
<1> DEFINE n == Len(tbody)
           i == a + k
<1>1. /\ n \in Nat /\ DOMAIN tbody = 1..n /\ k \in 1..n /\ a \in Nat /\ i \in Nat
      /\ Len(lines) \in Nat /\ DOMAIN lines = 1..Len(lines) /\ a + n <= Len(lines)
  BY LenProperties DEF IsSection, IsBody
<1>2. \A m \in 1..n : tbody[m] = lines[a + m] /\ tbody[m].level = 0
  BY <1>1 DEF IsSection, IsBody
<1>3. \A h \in 1..Len(lines) : lines[h].level \in 0..6
  BY LenProperties, LineTyped
<1> HIDE DEF n
<1>4. \A m \in (a + 1)..(a + n) : lines[m].level = 0 /\ m - a \in 1..n /\ lines[m] = tbody[m - a]
  <2> SUFFICES ASSUME NEW m \in (a + 1)..(a + n)
               PROVE  lines[m].level = 0 /\ m - a \in 1..n /\ lines[m] = tbody[m - a]
    OBVIOUS
  <2>1. m - a \in 1..n /\ a + (m - a) = m
    BY <1>1
  <2> QED
    BY <1>2, <2>1
<1>5. SameSection(lines, i) = (a + 1)..(a + n)
  <2>1. ASSUME NEW h \in (a + 1)..(a + n) PROVE h \in SameSection(lines, i)
    <3>1. h \in DOMAIN lines /\ \A m \in (h..i) \cup (i..h) : m \in (a + 1)..(a + n)
      BY <1>1
    <3> QED
      BY <1>4, <3>1 DEF SameSection
  <2>2. ASSUME NEW h \in SameSection(lines, i) PROVE h \in (a + 1)..(a + n)
    <3>1. h \in 1..Len(lines) /\ \A m \in (h..i) \cup (i..h) : lines[m].level = 0
      BY <1>1 DEF SameSection
    <3>2. ASSUME h <= a PROVE FALSE
      <4>1. a \in h..i /\ a \in 1..Len(lines)
        BY <1>1, <3>1, <3>2
      <4>2. lines[a].level > 0
        BY <3>1, <3>2 DEF IsSection, IsBody
      <4> QED
        BY <3>1, <4>1, <4>2
    <3>3. ASSUME ~(h <= a + n) PROVE FALSE
      <4>0. i \in Nat /\ i <= a + n /\ h \in Nat /\ h <= Len(lines)
        BY <1>1, <3>1
      <4>4. a \in Nat /\ n \in Nat /\ Len(lines) \in Nat /\ ~(h <= a + n)
        BY <1>1, <3>3
      <4>5. PICK b \in Nat : b = a + n
        BY <4>4
      <4>6. b + 1 \in i..h /\ b # Len(lines)
        <5> HIDE DEF i
        <5> QED
          BY <4>0, <4>4, <4>5
      <4>1. a + n + 1 \in i..h /\ a + n # Len(lines)
        <5> HIDE DEF i
        <5> QED
          BY <4>5, <4>6
      <4>2. lines[a + n + 1].level > 0
        BY <4>1 DEF IsSection, n
      <4> QED
        BY <3>1, <4>1, <4>2
    <3> QED
      BY <1>1, <3>1, <3>2, <3>3
  <2> QED
    BY <2>1, <2>2
<1>6. SameSection(tbody, k) = 1..n
  <2>1. \A h \in 1..n : \A m \in (h..k) \cup (k..h) : m \in 1..n
    BY <1>1
  <2> QED
    BY <1>1, <1>2, <2>1 DEF SameSection
<1>7. lines[i] = tbody[k]
  BY <1>1, <1>2
<1>8. ASSUME RowOfTable(lines, i) PROVE RowOfTable(tbody, k)
  <2>1. PICK h \in SameSection(lines, i) :
            /\ h + 1 < i /\ lines[h].pipe /\ lines[h + 1].sep
            /\ \A m \in (h + 2)..i : lines[m].pipe
            /\ h = 1 \/ ~(lines[h - 1].pipe \/ lines[h - 1].sep)
    BY <1>8, Zenon DEF RowOfTable
  <2>2. h \in (a + 1)..(a + n) /\ \E g \in 1..n : g = h - a
    BY <1>4, <1>5
  <2> PICK g \in 1..n : g = h - a
    BY <2>2
  <2>3. h = a + g /\ h + 1 = a + (g + 1) /\ g + 1 < k /\ g + 1 \in 1..n
    BY <1>1, <2>1, <2>2
  <2>4. tbody[g].pipe /\ tbody[g + 1].sep
    BY <1>2, <2>1, <2>3
  <2>5. ASSUME NEW m \in (g + 2)..k PROVE tbody[m].pipe
    <3>1. a + m \in (h + 2)..i /\ m \in 1..n
      BY <1>1, <2>2, <2>3
    <3> QED
      BY <1>2, <2>1, <3>1
  <2>6. g = 1 \/ ~(tbody[g - 1].pipe \/ tbody[g - 1].sep)
    <3>1. ASSUME g # 1 PROVE ~(tbody[g - 1].pipe \/ tbody[g - 1].sep)
      <4>1. g - 1 \in 1..n /\ a + (g - 1) = h - 1 /\ h # 1
        BY <1>1, <2>2, <2>3, <3>1
      <4>2. tbody[g - 1] = lines[h - 1]
        BY <1>2, <4>1
      <4> QED
        BY <2>1, <4>1, <4>2
    <3> QED
      BY <3>1
  <2> QED
    BY <1>6, <2>3, <2>4, <2>5, <2>6 DEF RowOfTable
<1>9. Paragraph(lines, i) = {a + x : x \in Paragraph(tbody, k)} /\ Paragraph(tbody, k) \in SUBSET (1..n)
  <2>1. ASSUME NEW m \in Paragraph(tbody, k) PROVE a + m \in Paragraph(lines, i)
    <3>1. m \in 1..n /\ \A x \in (m..k) \cup (k..m) : tbody[x].level = 0 /\ tbody[x].mark \notin {"blank", "fence"}
      BY <1>1 DEF Paragraph
    <3>2. ASSUME NEW y \in ((a + m)..i) \cup (i..(a + m))
          PROVE  lines[y].level = 0 /\ lines[y].mark \notin {"blank", "fence"}
      <4>1. y \in (a + 1)..(a + n) /\ y - a \in (m..k) \cup (k..m)
        BY <1>1, <3>1
      <4> QED
        BY <1>4, <3>1, <4>1
    <3>3. a + m \in DOMAIN lines
      BY <1>1, <3>1
    <3> QED
      BY <3>2, <3>3 DEF Paragraph
  <2>2. ASSUME NEW y \in Paragraph(lines, i) PROVE y - a \in Paragraph(tbody, k) /\ y = a + (y - a)
    <3>1. y \in DOMAIN lines /\ \A x \in (y..i) \cup (i..y) : lines[x].level = 0 /\ lines[x].mark \notin {"blank", "fence"}
      BY DEF Paragraph
    <3>2. y \in SameSection(lines, i)
      BY <3>1 DEF SameSection
    <3>3. y - a \in 1..n /\ y \in Int /\ y = a + (y - a)
      BY <1>1, <1>5, <3>2
    <3>4. ASSUME NEW x \in ((y - a)..k) \cup (k..(y - a))
          PROVE  tbody[x].level = 0 /\ tbody[x].mark \notin {"blank", "fence"}
      <4>1. x \in 1..n /\ a + x \in (y..i) \cup (i..y)
        BY <1>1, <3>3
      <4> QED
        BY <1>2, <3>1, <4>1
    <3> QED
      BY <1>1, <3>3, <3>4 DEF Paragraph
  <2>3. Paragraph(tbody, k) \in SUBSET (1..n)
    BY <1>1 DEF Paragraph
  <2> QED
    BY <2>1, <2>2, <2>3
<1>11. ASSUME NEW p, NEW q, \A m \in 1..n : m <= p <=> a + m <= q
       PROVE  CharsUpTo(tbody, k, p) = CharsUpTo(lines, i, q)
  <2> DEFINE P == Paragraph(tbody, k)
             S == {x \in P : x <= p}
             T == {y \in Paragraph(lines, i) : y <= q}
  <2>1. P \in SUBSET (1..n) /\ Paragraph(lines, i) = {a + x : x \in P}
    BY <1>9
  <2> HIDE DEF i, P
  <2>2. Only(lines, Paragraph(lines, i)) = Only(tbody, P)
    <3> HIDE DEF S, T
    <3>1. PICK U : U = Paragraph(lines, i)
      OBVIOUS
    <3>2. U \in SUBSET Nat /\ (\A y \in U : y - a \in P) /\ \A x \in P : a + x \in U
      BY <1>1, <2>1, <3>1
    <3>4. n \in Nat /\ a \in Nat /\ P \in SUBSET (1..n) /\ \A m \in 1..n : tbody[m] = lines[a + m]
      BY <1>1, <1>2, <2>1
    <3>5. Moved(tbody, n, P, lines, a, U)
      BY <3>2, <3>4, Zenon DEF Moved
    <3>3. Only(lines, U) = Only(tbody, P)
      BY <3>5, OnlyShifted
    <3> QED
      BY <3>1, <3>3
  <2>3. S \in SUBSET (1..n) /\ T = {a + x : x \in S}
    BY <1>11, <2>1
  <2>4. Cardinality(T) = Cardinality(S)
    <3> HIDE DEF S, T
    <3> QED
      BY <1>1, <2>3, Shifted
  <2> HIDE DEF S, T
  <2>5. CharsUpTo(lines, i, q) = Reach(Says(Only(lines, Paragraph(lines, i))))[Cardinality(T)]
    BY Zenon DEF CharsUpTo, T
  <2>6. CharsUpTo(tbody, k, p) = Reach(Says(Only(tbody, P)))[Cardinality(S)]
    BY Zenon DEF CharsUpTo, S, P
  <2> QED
    BY <2>2, <2>4, <2>5, <2>6, Zenon
<1>12. CharsUpTo(tbody, k, k) = CharsUpTo(lines, i, i)
  <2>1. \A m \in 1..n : m <= k <=> a + m <= i
    BY <1>1
  <2> HIDE DEF i
  <2> QED
    BY <1>11, <2>1
<1>13. CharsUpTo(tbody, k, n) = CharsUpTo(lines, i, Len(lines))
  <2>1. \A m \in 1..n : m <= n <=> a + m <= Len(lines)
    BY <1>1
  <2> HIDE DEF i
  <2> QED
    BY <1>11, <2>1
<1>14. ASSUME ProseOfSection(lines, i) PROVE ProseOfSection(tbody, k)
  <2>1. ASSUME NEW m \in Paragraph(tbody, k) PROVE Plain(tbody[m])
    <3>1. a + m \in Paragraph(lines, i) /\ m \in 1..n
      BY <1>9
    <3>2. Plain(lines[a + m])
      BY <1>14, <3>1 DEF ProseOfSection
    <3> QED
      BY <1>2, <3>1, <3>2
  <2>2. ASSUME NEW p \in 1..n, NEW q \in Nat, \A m \in 1..n : m <= p <=> a + m <= q
        PROVE  Cardinality(FencesUpTo(tbody, k, p)) = Cardinality(FencesUpTo(lines, i, q))
    <3> DEFINE S == FencesUpTo(tbody, k, p)
    <3>1. S \in SUBSET (1..n)
      BY <1>6 DEF FencesUpTo
    <3>2. FencesUpTo(lines, i, q) = {a + x : x \in S}
      <4>1. ASSUME NEW y \in FencesUpTo(lines, i, q) PROVE y - a \in S /\ y = a + (y - a)
        <5>1. y \in (a + 1)..(a + n) /\ y <= q /\ lines[y].mark = "fence"
          BY <1>5 DEF FencesUpTo
        <5>2. y - a \in 1..n /\ lines[y] = tbody[y - a] /\ y = a + (y - a)
          BY <1>1, <1>4, <5>1
        <5>3. y - a <= p
          BY <2>2, <5>1, <5>2
        <5> QED
          BY <1>6, <5>1, <5>2, <5>3 DEF FencesUpTo
      <4>2. ASSUME NEW x \in S PROVE a + x \in FencesUpTo(lines, i, q)
        <5>1. x \in 1..n /\ x <= p /\ tbody[x].mark = "fence"
          BY <1>6 DEF FencesUpTo
        <5>2. a + x <= q
          BY <2>2, <5>1
        <5>3. lines[a + x].mark = "fence"
          BY <1>2, <5>1
        <5>4. a + x \in (a + 1)..(a + n)
          BY <1>1, <5>1
        <5> QED
          BY <1>5, <5>2, <5>3, <5>4 DEF FencesUpTo
      <4> HIDE DEF S
      <4> QED
        BY <4>1, <4>2
    <3> HIDE DEF S
    <3> QED
      BY <1>1, <3>1, <3>2, Shifted DEF S
  <2>3. Cardinality(FencesUpTo(lines, i, i)) % 2 = 0 /\ Cardinality(FencesUpTo(lines, i, Len(lines))) % 2 = 0
    BY <1>14 DEF ProseOfSection
  <2>4. Cardinality(FencesUpTo(tbody, k, k)) = Cardinality(FencesUpTo(lines, i, i))
    <3>1. \A m \in 1..n : m <= k <=> a + m <= i
      BY <1>1
    <3> HIDE DEF i
    <3> QED
      BY <1>1, <2>2, <3>1
  <2>5. Cardinality(FencesUpTo(tbody, k, n)) = Cardinality(FencesUpTo(lines, i, Len(lines)))
    <3>1. n \in 1..n /\ \A m \in 1..n : m <= n <=> a + m <= Len(lines)
      BY <1>1
    <3> HIDE DEF i
    <3> QED
      BY <1>1, <2>2, <3>1
  <2>6. \A m \in {k, Len(tbody)} : Cardinality(FencesUpTo(tbody, k, m)) % 2 = 0
    BY <2>3, <2>4, <2>5 DEF n
  <2>7. CharsUpTo(tbody, k, Len(tbody)) > MinParagraph
    BY <1>13, <1>14 DEF ProseOfSection, n
  <2> QED
    BY <2>1, <2>6, <2>7, Zenon DEF ProseOfSection
<1>15. ASSUME NEW m, ProseWithin(lines, i, m) PROVE ProseWithin(tbody, k, m)
  BY <1>7, <1>12, <1>14, <1>15, Zenon DEF ProseWithin
<1> HIDE DEF i
<1>10. MustTell(lines, i) \subseteq MustTell(tbody, k)
  BY <1>7, <1>8, <1>15, Zenon DEF MustTell
<1>16. Telling(lines, i, how) \subseteq Telling(tbody, k, how)
  <2>1. CASE how = "key"
    BY <1>10, <2>1, Zenon DEF Telling
  <2>2. CASE how = "detail"
    BY <1>7, <1>15, <2>2 DEF Telling
  <2> QED
    BY <2>1, <2>2
<1> QED
  BY <1>16 DEF i

-----------------------------------------------------------------------------
(* What has been told of the lines and entries read so far. The facts that    *)
(* wait in the queue count: nothing but Collect takes them out of it.         *)
Stated(mentions, name, path, text, how) ==
    \E m \in mentions : m.doc = name /\ m.fact.section = path /\ text \in TextOf(m.fact, how)

LineTold(d, i, mentions) ==
    \A how \in {"key", "detail"} : \A text \in Telling(d.lines, i, how) :
        Stated(mentions, d.name, TitlesAbove(d.lines, i), text, how)

EntryTold(d, k, mentions) ==
    LET e == d.entries[k]
    IN  IF e.array THEN e.convention \/ Stated(mentions, d.name, <<e.field>>, e.says, "key")
        ELSE e.empty \/ e.depth > MaxDepth \/ e.leaf > MaxLeaves
             \/ Stated(mentions, d.name, <<e.field>>, e.says, "key")

DocTold(d, mentions) ==
    IF d.parses THEN \A k \in DOMAIN d.entries : EntryTold(d, k, mentions)
    ELSE \A i \in DOMAIN d.lines : LineTold(d, i, mentions)

\* Of a text, all lines above the section that is being read.
PartTold(d, ln, tbody, mentions) ==
    IF d.parses THEN tbody = <<>> /\ \A k \in 1..(ln - 1) : EntryTold(d, k, mentions)
    ELSE /\ IsBody(d.lines, tbody, ln - 1 - Len(tbody))
         /\ \A i \in 1..(ln - 1 - Len(tbody)) : LineTold(d, i, mentions)

ReadTold(ds, dc, ln, tbody, mentions) ==
    /\ \A c \in 1..(dc - 1) : DocTold(ds[c], mentions)
    /\ dc <= Len(ds) => PartTold(ds[dc], ln, tbody, mentions)

Heard == told \cup Range(queue)

Complete ==
    /\ uploads \in Seq(Document) /\ docs = Dedupe(uploads)
    /\ ReadTold(docs, doc, line, body, Heard)

(* What was told is not taken back by more.                                   *)
LEMMA ToldGrows ==
  ASSUME NEW mentions, NEW more, mentions \subseteq more
  PROVE  /\ \A d, i : LineTold(d, i, mentions) => LineTold(d, i, more)
         /\ \A d, k : EntryTold(d, k, mentions) => EntryTold(d, k, more)
         /\ \A d : DocTold(d, mentions) => DocTold(d, more)
         /\ \A ds, dc, ln, tbody : ReadTold(ds, dc, ln, tbody, mentions) => ReadTold(ds, dc, ln, tbody, more)
<1>1. \A name, path, text, how : Stated(mentions, name, path, text, how) => Stated(more, name, path, text, how)
  BY DEF Stated
<1>2. \A d, i : LineTold(d, i, mentions) => LineTold(d, i, more)
  BY <1>1, Zenon DEF LineTold
<1>3. \A d, k : EntryTold(d, k, mentions) => EntryTold(d, k, more)
  <2> SUFFICES ASSUME NEW d, NEW k, EntryTold(d, k, mentions) PROVE EntryTold(d, k, more)
    OBVIOUS
  <2>1. CASE d.entries[k].array
    BY <1>1, <2>1, Zenon DEF EntryTold
  <2>2. CASE ~d.entries[k].array
    BY <1>1, <2>2, Zenon DEF EntryTold
  <2> QED
    BY <2>1, <2>2
<1>4. \A d : DocTold(d, mentions) => DocTold(d, more)
  BY <1>2, <1>3, Zenon DEF DocTold
<1>5. \A d, ln, tbody : PartTold(d, ln, tbody, mentions) => PartTold(d, ln, tbody, more)
  BY <1>2, <1>3, Zenon DEF PartTold
<1>6. \A ds, dc, ln, tbody : ReadTold(ds, dc, ln, tbody, mentions) => ReadTold(ds, dc, ln, tbody, more)
  BY <1>4, <1>5, Zenon DEF ReadTold
<1> QED
  BY <1>2, <1>3, <1>4, <1>6

(* A document that is told leaves the next one to be read from its start.     *)
LEMMA NextIsTold ==
  ASSUME NEW ds \in Seq(Document), NEW dc \in 1..Len(ds), NEW mentions,
         \A c \in 1..(dc - 1) : DocTold(ds[c], mentions), DocTold(ds[dc], mentions)
  PROVE  ReadTold(ds, dc + 1, 1, <<>>, mentions)
<1>1. Len(ds) \in Nat /\ \A c \in 1..Len(ds) : ds[c] \in Document
  BY LenProperties
<1>2. \A c \in 1..((dc + 1) - 1) : DocTold(ds[c], mentions)
  <2>1. \A c \in 1..((dc + 1) - 1) : c = dc \/ c \in 1..(dc - 1)
    BY <1>1
  <2> QED
    BY <2>1
<1>3. ASSUME dc + 1 <= Len(ds) PROVE PartTold(ds[dc + 1], 1, <<>>, mentions)
  <2>1. PICK d \in Document : d = ds[dc + 1]
    BY <1>1, <1>3
  <2>2. d.lines \in Seq(Line) /\ Len(d.lines) \in Nat
    BY LenProperties DEF Document
  <2>3. Len(<<>>) = 0 /\ DOMAIN <<>> = {}
    OBVIOUS
  <2>4. 1 - 1 - Len(<<>>) = 0
    <3>1. 1 - 1 - 0 = 0
      OBVIOUS
    <3> QED
      BY <2>3, <3>1, Zenon
  <2>5. IsBody(d.lines, <<>>, 0)
    BY <2>2, <2>3 DEF IsBody
  <2>6. 1..0 = {} /\ 1..(1 - 1) = {}
    OBVIOUS
  <2> QED
    BY <2>1, <2>4, <2>5, <2>6 DEF PartTold
<1> QED
  BY <1>2, <1>3 DEF ReadTold

(* Lines that are no headings do not change the outline.                      *)
LEMMA OutlineSame ==
  ASSUME NEW lines, NEW i \in Nat, NEW n \in Nat, i <= n, \A m \in (i + 1)..n : lines[m].level = 0
  PROVE  Outline(lines, i) = Outline(lines, n)
<1>1. Open(lines, i) = Open(lines, n)
  <2>1. \A h \in 1..i : h \in 1..n
    OBVIOUS
  <2>2. \A h \in 1..n : h \in 1..i \/ h \in (i + 1)..n
    OBVIOUS
  <2>3. \A h \in 1..i : \A k \in (h + 1)..n : k \in (h + 1)..i \/ k \in (i + 1)..n
    OBVIOUS
  <2>4. \A h \in 1..i : \A k \in (h + 1)..i : k \in (h + 1)..n
    OBVIOUS
  <2>5. ~(0 > 0)
    OBVIOUS
  <2>6. ASSUME NEW h \in Open(lines, i) PROVE h \in Open(lines, n)
    BY <2>1, <2>3 DEF Open
  <2>7. ASSUME NEW h \in Open(lines, n) PROVE h \in Open(lines, i)
    <3>1. h \in 1..i
      <4>1. lines[h].level > 0 /\ h \in 1..n
        BY DEF Open
      <4> QED
        BY <2>2, <2>5, <4>1
    <3> QED
      BY <2>4, <3>1 DEF Open
  <2> QED
    BY <2>6, <2>7
<1> QED
  BY <1>1, Zenon DEF Outline, Open

(* When a section ends, its facts tell each of its lines.                     *)
LEMMA SectionIsTold ==
  ASSUME Inv, ReadingText, IsSection(Lines, body, line - 1 - Len(body)),
         NEW i \in (line - Len(body))..(line - 1)
  PROVE  LineTold(docs[doc], i, Range(Section))
<1> DEFINE d == docs[doc]
           path == PathOf(stack)
           facts == FactsOf(path, body)
<1>1. /\ d \in Document /\ Lines \in Seq(Line) /\ line - 1 \in Nat /\ line - 1 <= Len(Lines)
      /\ stack = Outline(Lines, line - 1) /\ body \in Seq(BodyLine) /\ line \in Nat
  BY SectionTyped DEF Inv, Types
<1>2. path \in Seq(Titles)
  BY SectionTyped
<1>3. PICK tbody \in Seq(BodyLine) : tbody = body
  BY <1>1
<1>4. PICK n \in Nat : n = Len(tbody) /\ DOMAIN tbody = 1..n
  BY LenProperties
<1>5. PICK a \in Nat : a = line - 1 - n
  BY <1>3, <1>4 DEF IsSection, IsBody
<1>6. IsSection(Lines, tbody, a)
  BY <1>3, <1>4, <1>5
<1>7. PICK k \in 1..n : i = a + k
  <2>1. i \in (line - n)..(line - 1)
    BY <1>3, <1>4
  <2>2. i - a \in 1..n /\ i = a + (i - a)
    BY <1>1, <1>5, <2>1
  <2> QED
    BY <2>2
<1>8. \A m \in 1..n : tbody[m].level = 0 /\ Lines[a + m] = tbody[m]
  BY <1>4, <1>6 DEF IsSection, IsBody
<1>9. TitlesAbove(Lines, i) = path
  <2>1. \A m \in (i + 1)..(line - 1) : Lines[m].level = 0
    <3> SUFFICES ASSUME NEW m \in (i + 1)..(line - 1) PROVE Lines[m].level = 0
      OBVIOUS
    <3>1. m - a \in 1..n /\ a + (m - a) = m
      BY <1>1, <1>5, <1>7
    <3> QED
      BY <1>8, <3>1
  <2>2. i \in Nat /\ i <= line - 1
    BY <1>1, <1>7
  <2>3. Outline(Lines, i) = stack
    BY <1>1, <2>1, <2>2, OutlineSame
  <2> QED
    BY <2>3, Zenon DEF TitlesAbove, PathOf
<1>10. ASSUME NEW how \in {"key", "detail"}, NEW text \in Telling(Lines, i, how)
       PROVE  Stated(Range(Section), d.name, path, text, how)
  <2>0. tbody \in Seq(Line)
    BY BodyLines
  <2>1. text \in Telling(tbody, k, how)
    BY <1>1, <1>4, <1>6, <1>7, <2>0, SectionAlone
  <2>2. Tell(FactsOf(path, tbody), path, text, how)
    <3> HIDE DEF path
    <3> QED
      BY <1>2, <1>4, <2>1, SectionTells
  <2> HIDE DEF path, d
  <2>3. PICK j \in DOMAIN facts : facts[j].section = path /\ text \in TextOf(facts[j], how)
    BY <1>3, <2>2 DEF Tell
  <2>4. Section = [x \in DOMAIN facts |-> [fact |-> facts[x], doc |-> d.name]]
    BY Zenon DEF Section, From, path, d
  <2> HIDE DEF facts
  <2>5. PICK m : m = [fact |-> facts[j], doc |-> d.name]
    OBVIOUS
  <2>6. m \in Range(Section)
    BY <2>4, <2>5 DEF Range
  <2>7. m.fact = facts[j] /\ m.doc = d.name
    BY <2>5
  <2> QED
    BY <2>3, <2>6, <2>7, Zenon DEF Stated
<1> QED
  BY <1>9, <1>10, Zenon DEF LineTold, Lines

(* A line that is a heading tells nothing itself.                             *)
LEMMA HeadingTellsNothing ==
  ASSUME NEW lines \in Seq(Line), NEW i \in DOMAIN lines, lines[i].level > 0
  PROVE  \A how \in {"key", "detail"} : Telling(lines, i, how) = {}
<1>1. lines[i] \in Line
  BY LenProperties
<1>2. lines[i].mark # "bullet" /\ lines[i].level # 0
  <2>1. \A l \in Line : l.level > 0 => l.mark # "bullet" /\ l.level # 0
    BY DEF Line
  <2> QED
    BY <1>1, <2>1
<1>3. i \notin SameSection(lines, i)
  <2>1. i \in i..i
    BY LenProperties
  <2> QED
    BY <1>2, <2>1 DEF SameSection
<1>4. ~RowOfTable(lines, i)
  <2> SUFFICES ASSUME NEW h \in SameSection(lines, i), h + 1 < i PROVE FALSE
    BY Zenon DEF RowOfTable
  <2>1. h \in 1..Len(lines) /\ i \in 1..Len(lines) /\ Len(lines) \in Nat
    BY LenProperties DEF SameSection
  <2>2. i \in h..i
    BY <2>1
  <2> QED
    BY <1>2, <2>2 DEF SameSection
<1>5. \A n : ~ProseWithin(lines, i, n)
  BY <1>2 DEF ProseWithin, Plain
<1> QED
  BY <1>2, <1>4, <1>5 DEF Telling, MustTell

(* That everything read is told, and stays so, action by action.              *)
(* At first nothing is read.                                                  *)
LEMMA CompleteInit == Init => Complete
<1> SUFFICES ASSUME Init PROVE Complete
  OBVIOUS
<1>1. uploads \in Seq(Document) /\ docs = Dedupe(uploads) /\ doc = 1 /\ line = 1 /\ body = <<>>
  BY IngestionConstants DEF Init, IngestionConstants
<1>2. docs \in Seq(Document)
  BY InvInit DEF Inv, Types
<1>3. 1..(1 - 1) = {}
  OBVIOUS
<1>4. ASSUME 1 <= Len(docs) PROVE PartTold(docs[1], 1, <<>>, Heard)
  <2>1. PICK d \in Document : d = docs[1]
    BY <1>2, <1>4, LenProperties
  <2>2. Len(d.lines) \in Nat
    BY LenProperties DEF Document
  <2>3. Len(<<>>) = 0 /\ DOMAIN <<>> = {}
    OBVIOUS
  <2>4. 1 - 1 - Len(<<>>) = 0
    <3>1. 1 - 1 - 0 = 0
      OBVIOUS
    <3> QED
      BY <2>3, <3>1, Zenon
  <2>5. IsBody(d.lines, <<>>, 0)
    BY <2>2, <2>3 DEF IsBody
  <2>6. 1..0 = {}
    OBVIOUS
  <2> QED
    BY <1>3, <2>1, <2>4, <2>5, <2>6 DEF PartTold
<1>5. ReadTold(docs, 1, 1, <<>>, Heard)
  BY <1>3, <1>4 DEF ReadTold
<1> QED
  BY <1>1, <1>5 DEF Complete

(* The part of the text that is read.                                         *)
LEMMA TextPart ==
  ASSUME Inv, Complete, ReadingText
  PROVE  /\ \A c \in 1..(doc - 1) : DocTold(docs[c], told)
         /\ IsBody(Lines, body, line - 1 - Len(body))
         /\ \A i \in 1..(line - 1 - Len(body)) : LineTold(docs[doc], i, told)
<1>1. queue = <<>> /\ doc <= Len(docs) /\ ~docs[doc].parses
  BY DEF ReadingText, Reading
<1>2. Heard = told
  <2>1. Range(<<>>) = {}
    BY DEF Range
  <2> QED
    BY <1>1, <2>1 DEF Heard
<1> QED
  BY <1>1, <1>2, Zenon DEF Complete, ReadTold, PartTold, Lines

(* A line is read into the body of its section.                               *)
LEMMA CompleteReadLine == Inv /\ Complete /\ ReadLine => Complete'
<1> SUFFICES ASSUME Inv, Complete, ReadLine PROVE Complete'
  OBVIOUS
<1>1. /\ ReadingText /\ line <= Len(Lines) /\ Lines[line].level = 0
      /\ body' = Append(body, Lines[line]) /\ line' = line + 1
      /\ uploads' = uploads /\ docs' = docs /\ doc' = doc /\ queue' = queue /\ told' = told
  BY DEF ReadLine
<1>2. /\ Lines \in Seq(Line) /\ body \in Seq(BodyLine) /\ body \in Seq(Line) /\ line \in Nat \ {0}
      /\ doc <= Len(docs) /\ ~docs[doc].parses
  BY <1>1, BodyLines, SectionTyped DEF Inv, Types, ReadingText, Reading
<1>3. PICK n \in Nat : n = Len(body) /\ DOMAIN body = 1..n
  BY <1>2, LenProperties
<1>4. PICK l \in Line : l = Lines[line]
  BY <1>1, <1>2, LenProperties
<1>5. /\ body' \in Seq(Line) /\ Len(body') = n + 1 /\ \A i \in 1..n : body'[i] = body[i]
      /\ body'[n + 1] = l
  BY <1>1, <1>2, <1>3, <1>4, Appended
<1>6. DOMAIN body' = 1..(n + 1)
  BY <1>5, LenProperties
<1>7. PICK a \in Nat : a = line - 1 - n /\ IsBody(Lines, body, a)
  BY <1>1, <1>3, TextPart DEF IsBody
<1>8. line' - 1 - Len(body') = a /\ line - 1 - Len(body) = a /\ a + (n + 1) = line
  <2>1. line' = line + 1 /\ line \in Nat /\ Len(body') = n + 1 /\ Len(body) = n /\ a = line - 1 - n
    BY <1>1, <1>2, <1>3, <1>5, <1>7
  <2> QED
    BY <2>1
<1>9. IsBody(Lines, body', a)
  <2>1. a + Len(body') <= Len(Lines) /\ (a = 0 \/ Lines[a].level > 0)
    BY <1>1, <1>5, <1>7, <1>8 DEF IsBody
  <2>2. ASSUME NEW k \in 1..(n + 1) PROVE body'[k] = Lines[a + k] /\ body'[k].level = 0
    <3>1. CASE k \in 1..n
      BY <1>3, <1>5, <1>7, <3>1 DEF IsBody
    <3>2. CASE k = n + 1
      BY <1>1, <1>4, <1>5, <1>8, <3>2
    <3> QED
      BY <3>1, <3>2
  <2> QED
    BY <1>6, <2>1, <2>2 DEF IsBody
<1>10. ReadTold(docs, doc, line, body, Heard)
  BY DEF Complete
<1>11. /\ \A c \in 1..(doc - 1) : DocTold(docs[c], Heard)
       /\ \A i \in 1..a : LineTold(docs[doc], i, Heard)
  BY <1>2, <1>8, <1>10, Zenon DEF ReadTold, PartTold
<1>12. PartTold(docs[doc], line', body', Heard)
  <2>1. docs[doc].lines = Lines
    BY DEF Lines
  <2> QED
    BY <1>2, <1>8, <1>9, <1>11, <2>1, Zenon DEF PartTold
<1>13. ReadTold(docs, doc, line', body', Heard)
  BY <1>11, <1>12, Zenon DEF ReadTold
<1>14. Heard' = Heard
  BY <1>1 DEF Heard
<1> QED
  BY <1>1, <1>13, <1>14, Zenon DEF Complete

(* A heading ends the section before it.                                      *)
LEMMA CompleteReadHeading == Inv /\ Complete /\ ReadHeading => Complete'
<1> SUFFICES ASSUME Inv, Complete, ReadHeading PROVE Complete'
  OBVIOUS
<1>1. /\ ReadingText /\ line <= Len(Lines) /\ Lines[line].level > 0
      /\ body' = <<>> /\ line' = line + 1 /\ queue' = Section
      /\ uploads' = uploads /\ docs' = docs /\ doc' = doc /\ told' = told
  BY DEF ReadHeading
<1>2. /\ Lines \in Seq(Line) /\ body \in Seq(BodyLine) /\ body \in Seq(Line) /\ line \in Nat \ {0}
      /\ doc <= Len(docs) /\ ~docs[doc].parses
  BY <1>1, BodyLines, SectionTyped DEF Inv, Types, ReadingText, Reading
<1>3. PICK n \in Nat : n = Len(body)
  BY <1>2, LenProperties
<1>4. PICK a \in Nat : a = line - 1 - n
  BY <1>1, <1>3, TextPart DEF IsBody
<1>5. IsSection(Lines, body, line - 1 - Len(body))
  <2>1. (line - 1 - Len(body)) + Len(body) + 1 = line
    BY <1>2, <1>3
  <2> QED
    BY <1>1, <2>1, TextPart DEF IsSection
<1>6. ASSUME NEW i \in 1..line PROVE LineTold(docs[doc], i, told \cup Range(Section))
  <2>1. CASE i = line
    <3>1. \A how \in {"key", "detail"} : Telling(Lines, i, how) = {}
      BY <1>1, <1>2, <2>1, HeadingTellsNothing, LenProperties
    <3> QED
      BY <3>1 DEF LineTold, Lines
  <2>2. CASE i # line /\ i <= a
    <3>1. LineTold(docs[doc], i, told)
      <4>1. i \in 1..(line - 1 - Len(body))
        BY <1>3, <1>4, <2>2
      <4> QED
        BY <1>1, <4>1, TextPart
    <3> QED
      BY <3>1, ToldGrows
  <2>3. CASE i # line /\ ~(i <= a)
    <3>1. i \in (line - Len(body))..(line - 1)
      BY <1>2, <1>3, <1>4, <2>3
    <3>2. LineTold(docs[doc], i, Range(Section))
      BY <1>1, <1>5, <3>1, SectionIsTold
    <3> QED
      BY <3>2, ToldGrows
  <2> QED
    BY <2>1, <2>2, <2>3
<1>7. Heard' = told \cup Range(Section)
  BY <1>1 DEF Heard
<1>8. \A c \in 1..(doc - 1) : DocTold(docs[c], Heard')
  BY <1>1, <1>7, TextPart, ToldGrows
<1>9. Len(<<>>) = 0 /\ DOMAIN <<>> = {} /\ line' - 1 - Len(<<>>) = line
  <2>1. line' - 1 - 0 = line
    BY <1>1, <1>2
  <2>2. Len(<<>>) = 0 /\ DOMAIN <<>> = {}
    OBVIOUS
  <2> QED
    BY <2>1, <2>2, Zenon
<1>10. IsBody(Lines, <<>>, line)
  <2>1. line + 0 <= Len(Lines)
    BY <1>1, <1>2
  <2> QED
    BY <1>1, <1>2, <1>9, <2>1 DEF IsBody
<1>11. PartTold(docs[doc], line', <<>>, Heard')
  <2>1. docs[doc].lines = Lines
    BY DEF Lines
  <2> QED
    BY <1>2, <1>6, <1>7, <1>9, <1>10, <2>1, Zenon DEF PartTold
<1>12. ReadTold(docs, doc, line', <<>>, Heard')
  BY <1>8, <1>11, Zenon DEF ReadTold
<1> QED
  BY <1>1, <1>12, Zenon DEF Complete

(* The end of a text ends its last section.                                   *)
LEMMA CompleteEndOfText == Inv /\ Complete /\ EndOfText => Complete'
<1> SUFFICES ASSUME Inv, Complete, EndOfText PROVE Complete'
  OBVIOUS
<1>1. /\ ReadingText /\ line > Len(Lines)
      /\ body' = <<>> /\ line' = 1 /\ queue' = Section /\ doc' = doc + 1
      /\ uploads' = uploads /\ docs' = docs /\ told' = told
  BY DEF EndOfText
<1>2. /\ Lines \in Seq(Line) /\ body \in Seq(BodyLine) /\ body \in Seq(Line) /\ line \in Nat \ {0}
      /\ doc \in 1..Len(docs) /\ docs \in Seq(Document) /\ ~docs[doc].parses /\ line - 1 <= Len(Lines)
  BY <1>1, BodyLines, SectionTyped DEF Inv, Types, ReadingText, Reading
<1>3. PICK n \in Nat : n = Len(body)
  BY <1>2, LenProperties
<1>4. PICK a \in Nat : a = line - 1 - n
  BY <1>1, <1>3, TextPart DEF IsBody
<1>5. line - 1 = Len(Lines)
  <2>1. Len(Lines) \in Nat
    BY <1>2, LenProperties
  <2> QED
    BY <1>1, <1>2, <2>1
<1>6. IsSection(Lines, body, line - 1 - Len(body))
  <2>1. (line - 1 - Len(body)) + Len(body) = Len(Lines)
    BY <1>2, <1>3, <1>5
  <2> QED
    BY <1>1, <2>1, TextPart DEF IsSection
<1>7. ASSUME NEW i \in 1..Len(Lines) PROVE LineTold(docs[doc], i, told \cup Range(Section))
  <2>1. CASE i <= a
    <3>1. LineTold(docs[doc], i, told)
      <4>1. i \in 1..(line - 1 - Len(body))
        BY <1>3, <1>4, <2>1
      <4> QED
        BY <1>1, <4>1, TextPart
    <3> QED
      BY <3>1, ToldGrows
  <2>2. CASE ~(i <= a)
    <3>1. i \in (line - Len(body))..(line - 1)
      BY <1>2, <1>3, <1>4, <1>5, <2>2
    <3>2. LineTold(docs[doc], i, Range(Section))
      BY <1>1, <1>6, <3>1, SectionIsTold
    <3> QED
      BY <3>2, ToldGrows
  <2> QED
    BY <2>1, <2>2
<1>8. Heard' = told \cup Range(Section)
  BY <1>1 DEF Heard
<1>9. \A c \in 1..(doc - 1) : DocTold(docs[c], Heard')
  BY <1>1, <1>8, TextPart, ToldGrows
<1>10. DocTold(docs[doc], Heard')
  <2>1. DOMAIN docs[doc].lines = 1..Len(Lines)
    BY <1>2, LenProperties DEF Lines
  <2> QED
    BY <1>2, <1>7, <1>8, <2>1 DEF DocTold
<1>11. ReadTold(docs, doc + 1, 1, <<>>, Heard')
  BY <1>2, <1>9, <1>10, NextIsTold
<1> QED
  BY <1>1, <1>11, Zenon DEF Complete

(* The part of the JSON document that is read.                                *)
LEMMA JsonPart ==
  ASSUME Inv, Complete, ReadingJson
  PROVE  /\ doc \in 1..Len(docs) /\ docs[doc] \in Document /\ Entries \in Seq(Entry) /\ line \in Nat \ {0}
         /\ body = <<>> /\ Heard = told
         /\ \A c \in 1..(doc - 1) : DocTold(docs[c], told)
         /\ \A k \in 1..(line - 1) : EntryTold(docs[doc], k, told)
<1>1. queue = <<>> /\ doc <= Len(docs) /\ docs[doc].parses
  BY DEF ReadingJson, Reading
<1>2. docs \in Seq(Document) /\ doc \in 1..(Len(docs) + 1) /\ line \in Nat \ {0}
  BY DEF Inv, Types
<1>3. doc \in 1..Len(docs) /\ docs[doc] \in Document
  BY <1>1, <1>2, LenProperties
<1>4. Entries \in Seq(Entry)
  BY <1>3 DEF Document, Entries
<1>5. Heard = told
  <2>1. Range(<<>>) = {}
    BY DEF Range
  <2> QED
    BY <1>1, <2>1 DEF Heard
<1>6. /\ body = <<>> /\ \A c \in 1..(doc - 1) : DocTold(docs[c], told)
      /\ \A k \in 1..(line - 1) : EntryTold(docs[doc], k, told)
  BY <1>1, <1>5, Zenon DEF Complete, ReadTold, PartTold
<1> QED
  BY <1>2, <1>3, <1>4, <1>5, <1>6

(* An entry is told, unless it is a convention, empty, or beyond the limits.  *)
LEMMA EntryIsTold ==
  ASSUME NEW d \in Document, NEW k \in DOMAIN d.entries
  PROVE  EntryTold(d, k, Range(From(d, FactsOfEntry(d.entries[k]))))
<1>1. PICK e \in Entry : e = d.entries[k]
  <2>1. d.entries \in Seq(Entry)
    BY DEF Document
  <2> QED
    BY <2>1, LenProperties
<1> DEFINE facts == FactsOfEntry(e)
           mentions == Range(From(d, facts))
<1>2. ASSUME NEW f, facts = <<f>>, f.section = <<e.field>>, f.key[3] = <<e.says>>
      PROVE  Stated(mentions, d.name, <<e.field>>, e.says, "key")
  <2> HIDE DEF facts
  <2>1. 1 \in DOMAIN facts /\ facts[1] = f
    BY <1>2
  <2>2. PICK m : m = [fact |-> facts[1], doc |-> d.name]
    OBVIOUS
  <2>3. m \in Range(From(d, facts))
    BY <2>1, <2>2 DEF From, Range
  <2>4. m.fact = f /\ m.doc = d.name
    BY <2>1, <2>2
  <2>5. e.says \in Range(f.key[3])
    BY <1>2 DEF Range
  <2>6. e.says \in TextOf(f, "key")
    BY <2>5, Zenon DEF TextOf
  <2> QED
    BY <1>2, <2>3, <2>4, <2>6, Zenon DEF Stated
<1>3. e.depth \in Int /\ e.leaf \in Int /\ MaxDepth \in Int /\ MaxLeaves \in Int
  BY IngestionConstants DEF Entry, IngestionConstants
<1>4. CASE e.array /\ ~e.convention
  <2>1. facts = <<RecordFact(e)>>
    BY <1>4, Zenon DEF FactsOfEntry
  <2>2. RecordFact(e).section = <<e.field>> /\ RecordFact(e).key[3] = <<e.says>>
    BY DEF RecordFact, Fact
  <2>3. Stated(mentions, d.name, <<e.field>>, e.says, "key")
    BY <1>2, <2>1, <2>2
  <2> QED
    BY <1>1, <1>4, <2>3, Zenon DEF EntryTold
<1>5. CASE ~e.array /\ ~e.empty /\ Walked(e)
  <2>1. facts = <<LeafFact(e)>>
    BY <1>5, Zenon DEF FactsOfEntry
  <2>2. LeafFact(e).section = <<e.field>> /\ LeafFact(e).key[3] = <<e.says>>
    BY DEF LeafFact, Fact, TextKey
  <2>3. Stated(mentions, d.name, <<e.field>>, e.says, "key")
    BY <1>2, <2>1, <2>2
  <2> QED
    BY <1>1, <1>5, <2>3, Zenon DEF EntryTold
<1>6. CASE e.array /\ e.convention
  BY <1>1, <1>6, Zenon DEF EntryTold
<1>7. CASE ~e.array /\ (e.empty \/ ~Walked(e))
  <2>1. ~Walked(e) => e.depth > MaxDepth \/ e.leaf > MaxLeaves
    BY <1>3 DEF Walked
  <2> QED
    BY <1>1, <1>7, <2>1, Zenon DEF EntryTold
<1> QED
  BY <1>4, <1>5, <1>6, <1>7

(* An entry of a JSON document is read.                                       *)
LEMMA CompleteReadEntry == Inv /\ Complete /\ ReadEntry => Complete'
<1> SUFFICES ASSUME Inv, Complete, ReadEntry PROVE Complete'
  OBVIOUS
<1>1. /\ ReadingJson /\ line <= Len(Entries)
      /\ queue' = From(docs[doc], FactsOfEntry(Entries[line])) /\ line' = line + 1
      /\ uploads' = uploads /\ docs' = docs /\ doc' = doc /\ body' = body /\ told' = told
  BY DEF ReadEntry
<1>2. /\ doc \in 1..Len(docs) /\ docs[doc] \in Document /\ Entries \in Seq(Entry) /\ line \in Nat \ {0}
      /\ body = <<>> /\ docs[doc].parses
      /\ \A c \in 1..(doc - 1) : DocTold(docs[c], told)
      /\ \A k \in 1..(line - 1) : EntryTold(docs[doc], k, told)
  BY <1>1, JsonPart DEF ReadingJson
<1>3. Heard' = told \cup Range(queue')
  BY <1>1 DEF Heard
<1>4. EntryTold(docs[doc], line, Heard')
  <2>1. line \in DOMAIN docs[doc].entries
    BY <1>1, <1>2, LenProperties DEF Entries
  <2>2. EntryTold(docs[doc], line, Range(queue'))
    BY <1>1, <1>2, <2>1, EntryIsTold DEF Entries
  <2> QED
    BY <1>3, <2>2, ToldGrows
<1>5. \A k \in 1..(line' - 1) : EntryTold(docs[doc], k, Heard')
  <2>1. \A k \in 1..(line' - 1) : k = line \/ k \in 1..(line - 1)
    BY <1>1, <1>2
  <2> QED
    BY <1>2, <1>3, <1>4, <2>1, ToldGrows
<1>6. \A c \in 1..(doc - 1) : DocTold(docs[c], Heard')
  BY <1>2, <1>3, ToldGrows
<1>7. ReadTold(docs, doc, line', body, Heard')
  BY <1>2, <1>5, <1>6, Zenon DEF ReadTold, PartTold
<1> QED
  BY <1>1, <1>7, Zenon DEF Complete

(* A JSON document is read to its end.                                        *)
LEMMA CompleteEndOfJson == Inv /\ Complete /\ EndOfJson => Complete'
<1> SUFFICES ASSUME Inv, Complete, EndOfJson PROVE Complete'
  OBVIOUS
<1>1. /\ ReadingJson /\ line > Len(Entries) /\ line' = 1 /\ doc' = doc + 1
      /\ uploads' = uploads /\ docs' = docs /\ body' = body /\ queue' = queue /\ told' = told
  BY DEF EndOfJson
<1>2. /\ doc \in 1..Len(docs) /\ docs[doc] \in Document /\ Entries \in Seq(Entry) /\ line \in Nat \ {0}
      /\ body = <<>> /\ Heard = told /\ docs[doc].parses
      /\ \A c \in 1..(doc - 1) : DocTold(docs[c], told)
      /\ \A k \in 1..(line - 1) : EntryTold(docs[doc], k, told)
  BY <1>1, JsonPart DEF ReadingJson
<1>3. DocTold(docs[doc], told)
  <2>1. \A k \in DOMAIN docs[doc].entries : k \in 1..(line - 1)
    <3>1. DOMAIN docs[doc].entries = 1..Len(Entries) /\ Len(Entries) \in Nat
      BY <1>2, LenProperties DEF Entries
    <3> QED
      BY <1>1, <1>2, <3>1
  <2> QED
    BY <1>2, <2>1 DEF DocTold
<1>4. docs \in Seq(Document)
  BY DEF Inv, Types
<1>5. ReadTold(docs, doc + 1, 1, <<>>, told)
  BY <1>2, <1>3, <1>4, NextIsTold
<1>6. Heard' = told
  BY <1>1, <1>2 DEF Heard
<1> QED
  BY <1>1, <1>2, <1>5, <1>6, Zenon DEF Complete

(* A fact that is collected is told instead of waiting.                       *)
LEMMA CompleteCollect == Inv /\ Complete /\ Collect => Complete'
<1> SUFFICES ASSUME Inv, Complete, Collect PROVE Complete'
  OBVIOUS
<1>1. /\ queue # <<>> /\ told' = told \cup {queue[1]} /\ queue' = Tail(queue)
      /\ uploads' = uploads /\ docs' = docs /\ doc' = doc /\ line' = line /\ body' = body
  BY DEF Collect
<1>2. queue \in Seq(Mentions)
  BY DEF Inv, Types
<1>3. Heard \subseteq Heard'
  <2>1. /\ DOMAIN queue = 1..Len(queue) /\ Len(queue) \in Nat /\ Len(queue) # 0
        /\ Tail(queue) \in Seq(Mentions) /\ Len(Tail(queue)) = Len(queue) - 1
        /\ \A i \in 1..Len(Tail(queue)) : Tail(queue)[i] = queue[i + 1]
    BY <1>1, <1>2, LenProperties, EmptySeq, HeadTailProperties
  <2>2. DOMAIN Tail(queue) = 1..(Len(queue) - 1)
    BY <2>1, LenProperties
  <2>3. ASSUME NEW m \in Range(queue) PROVE m = queue[1] \/ m \in Range(Tail(queue))
    <3>1. PICK i \in 1..Len(queue) : m = queue[i]
      BY <2>1 DEF Range
    <3>2. CASE i = 1
      BY <3>1, <3>2
    <3>3. CASE i # 1
      <4>1. i - 1 \in 1..(Len(queue) - 1) /\ (i - 1) + 1 = i
        BY <2>1, <3>3
      <4>2. Tail(queue)[i - 1] = m
        BY <2>1, <3>1, <4>1
      <4> QED
        BY <2>2, <4>1, <4>2, Zenon DEF Range
    <3> QED
      BY <3>2, <3>3
  <2> QED
    BY <1>1, <2>3 DEF Heard
<1>4. ReadTold(docs, doc, line, body, Heard)
  BY DEF Complete
<1>5. ReadTold(docs, doc, line, body, Heard')
  BY <1>3, <1>4, ToldGrows
<1> QED
  BY <1>1, <1>5, Zenon DEF Complete

(* Nothing else reads or tells.                                               *)
LEMMA CompleteRest == Complete /\ (PlanUnits \/ Rest \/ UNCHANGED vars) => Complete'
<1> SUFFICES ASSUME Complete, PlanUnits \/ Rest \/ UNCHANGED vars PROVE Complete'
  OBVIOUS
<1>1. /\ uploads' = uploads /\ docs' = docs /\ doc' = doc /\ line' = line /\ body' = body
      /\ queue' = queue /\ told' = told
  BY DEF PlanUnits, Rest, vars
<1> QED
  BY <1>1 DEF Complete, Heard

(* What was told in the key of a fact is in the detail of its item. What was  *)
(* told only in its detail is too, unless the item has another detail.        *)
LEMMA ToldInAnItem ==
  ASSUME Inv, NEW d, NEW name, name \in CopiesOf(d), NEW path, NEW text
  PROVE  /\ Stated(told, name, path, text, "key") => InAnItem(d, path, text)
         /\ Stated(told, name, path, text, "detail") => InAnItem(d, path, text) \/ LostToAnother(d, path, text)
<1>1. told \in SUBSET Mentions /\ ItemsTell(items, told)
  BY ItemsTellIs DEF Inv, Types
<1>2. ASSUME NEW m \in told, m.doc = name, m.fact.section = path
      PROVE  \E n \in told : /\ n.fact.key = m.fact.key
                             /\ Holds(n.fact.detail, text) => InAnItem(d, path, text)
  <2>1. PICK i \in DOMAIN items : items[i].key = m.fact.key
    BY <1>1, Zenon DEF ItemsTell
  <2> DEFINE said == {o \in told : o.fact.key = items[i].key}
  <2>2. m \in said /\ Tells(items[i], said)
    BY <1>1, <2>1, Zenon DEF ItemsTell
  <2>3. PICK n \in said : n.fact.detail = items[i].detail
    BY <2>2, Zenon DEF Tells
  <2>4. /\ \E s \in Range(items[i].sections) : PartOfPath(path, s)
        /\ \E b \in Range(items[i].docs) : SameName(name, b)
    BY <1>2, <2>2, Zenon DEF Tells
  <2>5. Holds(n.fact.detail, text) => InAnItem(d, path, text)
    BY <2>3, <2>4, Zenon DEF InAnItem
  <2>6. n \in told /\ n.fact.key = m.fact.key
    BY <2>1
  <2> QED
    BY <2>5, <2>6
<1>3. ASSUME Stated(told, name, path, text, "key") PROVE InAnItem(d, path, text)
  <2>1. PICK m \in told : m.doc = name /\ m.fact.section = path /\ text \in TextOf(m.fact, "key")
    BY <1>3, Zenon DEF Stated
  <2>2. PICK n \in told : n.fact.key = m.fact.key /\ (Holds(n.fact.detail, text) => InAnItem(d, path, text))
    BY <1>2, <2>1
  <2>3. text \in Range(n.fact.key[3])
    BY <2>1, <2>2 DEF TextOf
  <2>4. \A f \in Facts : \A t \in Range(f.key[3]) : Holds(f.detail, t)
    BY DEF Facts
  <2>5. n.fact \in Facts
    BY <1>1 DEF Mentions
  <2> QED
    BY <2>2, <2>3, <2>4, <2>5
<1>4. ASSUME Stated(told, name, path, text, "detail")
      PROVE  InAnItem(d, path, text) \/ LostToAnother(d, path, text)
  <2>1. PICK m \in told : m.doc = name /\ m.fact.section = path /\ text \in TextOf(m.fact, "detail")
    BY <1>4, Zenon DEF Stated
  <2>2. PICK n \in told : n.fact.key = m.fact.key /\ (Holds(n.fact.detail, text) => InAnItem(d, path, text))
    BY <1>2, <2>1
  <2>3. text \in m.fact.detail
    BY <2>1 DEF TextOf
  <2>4. CASE n.fact.detail = m.fact.detail
    BY <2>2, <2>3, <2>4 DEF Holds
  <2>5. CASE n.fact.detail # m.fact.detail
    <3>1. LostToAnother(d, path, text)
      BY <2>1, <2>2, <2>3, <2>5, Zenon DEF LostToAnother
    <3> QED
      BY <3>1
  <2> QED
    BY <2>4, <2>5
<1> QED
  BY <1>3, <1>4

(* When all is read, all is told, of the copy of each document that was kept. *)
LEMMA CompleteTells == Inv /\ Complete => EveryDetailIsTold
<1> SUFFICES ASSUME Inv, Complete, Done, NEW u \in DOMAIN uploads
             PROVE  LET d == uploads[u]
                    IN  IF d.parses
                        THEN \A k \in DOMAIN d.entries :
                                LET e == d.entries[k]
                                IN  IF e.array THEN e.convention \/ InAnItem(d, <<e.field>>, e.says)
                                    ELSE e.empty \/ e.depth > MaxDepth \/ e.leaf > MaxLeaves
                                         \/ InAnItem(d, <<e.field>>, e.says)
                        ELSE \A i \in DOMAIN d.lines :
                                LET path == TitlesAbove(d.lines, i)
                                IN  /\ \A text \in MustTell(d.lines, i) : InAnItem(d, path, text)
                                    /\ ProseWithin(d.lines, i, DetailChars) =>
                                         InAnItem(d, path, d.lines[i].says)
                                         \/ LostToAnother(d, path, d.lines[i].says)
  BY Zenon DEF EveryDetailIsTold
<1> DEFINE d == uploads[u]
           K == {i \in DOMAIN uploads : \A j \in 1..(i - 1) : Content(uploads[j]) # Content(uploads[i])}
           Same == {i \in DOMAIN uploads : Content(uploads[i]) = Content(d)}
<1>1. uploads \in Seq(Document) /\ DOMAIN uploads = 1..Len(uploads) /\ Len(uploads) \in Nat
  BY LenProperties DEF Complete
<1>2. PICK c \in Same : \A i \in Same : c <= i
  <2>1. Same \in SUBSET Nat /\ u \in Same
    BY <1>1
  <2> HIDE DEF Same
  <2> QED
    BY <2>1, Least
<1>3. c \in K /\ K \in SUBSET (DOMAIN uploads)
  <2>1. ASSUME NEW j \in 1..(c - 1), Content(uploads[j]) = Content(uploads[c]) PROVE FALSE
    <3>1. j \in Same /\ j < c /\ j \in Int /\ c \in Int
      BY <1>1, <2>1
    <3> QED
      BY <1>2, <3>1
  <2> QED
    BY <2>1
<1>4. docs = Only(uploads, K)
  BY Zenon DEF Complete, Dedupe
<1>5. PICK k \in DOMAIN docs : docs[k] = uploads[c]
  <2> HIDE DEF K
  <2>1. Range(Only(uploads, K)) = {uploads[i] : i \in K}
    BY <1>1, <1>3, TellsThose, Zenon
  <2>2. uploads[c] \in Range(docs)
    BY <1>3, <1>4, <2>1
  <2> QED
    BY <2>2 DEF Range
<1>6. k \in 1..(doc - 1) /\ Heard = told
  <2>1. docs \in Seq(Document) /\ doc \in 1..(Len(docs) + 1) /\ doc > Len(docs) /\ queue = <<>>
    BY DEF Inv, Types, Done
  <2>2. DOMAIN docs = 1..Len(docs) /\ Len(docs) \in Nat /\ Range(<<>>) = {}
    BY <2>1, LenProperties DEF Range
  <2> QED
    BY <2>1, <2>2 DEF Heard
<1>7. DocTold(uploads[c], told)
  BY <1>5, <1>6 DEF Complete, ReadTold
<1>8. PICK o : o = uploads[c]
  OBVIOUS
<1>9. o.parses = d.parses /\ o.lines = d.lines /\ o.entries = d.entries /\ o.name \in CopiesOf(d)
  <2>1. Content(o) = Content(d)
    BY <1>8
  <2>2. o.name \in CopiesOf(d)
    BY <1>8, <2>1 DEF CopiesOf
  <2> HIDE DEF d
  <2>3. \A x, y : Content(x) = Content(y) => x.parses = y.parses /\ x.lines = y.lines /\ x.entries = y.entries
    BY DEF Content
  <2> QED
    BY <2>1, <2>2, <2>3
<1>10. \A path, text :
          /\ Stated(told, o.name, path, text, "key") => InAnItem(d, path, text)
          /\ Stated(told, o.name, path, text, "detail") => InAnItem(d, path, text) \/ LostToAnother(d, path, text)
  BY <1>9, ToldInAnItem
<1> HIDE DEF d
<1>11. CASE d.parses
  <2>1. ASSUME NEW x \in DOMAIN d.entries
        PROVE  LET e == d.entries[x]
               IN  IF e.array THEN e.convention \/ InAnItem(d, <<e.field>>, e.says)
                   ELSE e.empty \/ e.depth > MaxDepth \/ e.leaf > MaxLeaves
                        \/ InAnItem(d, <<e.field>>, e.says)
    <3>1. PICK e : e = d.entries[x]
      OBVIOUS
    <3>2. EntryTold(o, x, told)
      BY <1>7, <1>8, <1>9, <1>11 DEF DocTold
    <3>3. IF e.array THEN e.convention \/ Stated(told, o.name, <<e.field>>, e.says, "key")
          ELSE e.empty \/ e.depth > MaxDepth \/ e.leaf > MaxLeaves
               \/ Stated(told, o.name, <<e.field>>, e.says, "key")
      BY <1>9, <3>1, <3>2, Zenon DEF EntryTold
    <3>4. Stated(told, o.name, <<e.field>>, e.says, "key") => InAnItem(d, <<e.field>>, e.says)
      BY <1>10
    <3>5. CASE e.array
      BY <3>1, <3>3, <3>4, <3>5, Zenon
    <3>6. CASE ~e.array
      BY <3>1, <3>3, <3>4, <3>6, Zenon
    <3> QED
      BY <3>5, <3>6
  <2> QED
    BY <1>11, <2>1, Zenon DEF d
<1>12. CASE ~d.parses
  <2>1. ASSUME NEW i \in DOMAIN d.lines
        PROVE  LET path == TitlesAbove(d.lines, i)
               IN  /\ \A text \in MustTell(d.lines, i) : InAnItem(d, path, text)
                   /\ ProseWithin(d.lines, i, DetailChars) =>
                        InAnItem(d, path, d.lines[i].says) \/ LostToAnother(d, path, d.lines[i].says)
    <3>1. LineTold(o, i, told)
      BY <1>7, <1>8, <1>9, <1>12 DEF DocTold
    <3>2. \A text \in MustTell(d.lines, i) : Stated(told, o.name, TitlesAbove(d.lines, i), text, "key")
      <4>1. Telling(d.lines, i, "key") = MustTell(d.lines, i)
        BY DEF Telling
      <4> QED
        BY <1>9, <3>1, <4>1 DEF LineTold
    <3>3. ProseWithin(d.lines, i, DetailChars)
             => Stated(told, o.name, TitlesAbove(d.lines, i), d.lines[i].says, "detail")
      <4>1. ProseWithin(d.lines, i, DetailChars) => d.lines[i].says \in Telling(d.lines, i, "detail")
        BY DEF Telling
      <4> QED
        BY <1>9, <3>1, <4>1 DEF LineTold
    <3> QED
      BY <1>10, <3>2, <3>3, Zenon
  <2> QED
    BY <1>12, <2>1, Zenon DEF d
<1> QED
  BY <1>11, <1>12

-----------------------------------------------------------------------------
(* What is read is told, in every reachable state: each line and each entry   *)
(* above the section that is being read, in the key of a fact, which tells    *)
(* facts apart, or, beyond a paragraph's first 200 characters and up to its   *)
(* 1200th, in its detail only (analyzer.ts:269-272).                          *)
THEOREM ReadingIsTold == Spec => []Complete
<1>1. Init => Complete
  BY CompleteInit
<1>2. Inv /\ Complete /\ [Next]_vars => Complete'
  <2> SUFFICES ASSUME Inv, Complete, [Next]_vars PROVE Complete'
    OBVIOUS
  <2>1. CASE ReadHeading
    BY <2>1, CompleteReadHeading
  <2>2. CASE ReadLine
    BY <2>2, CompleteReadLine
  <2>3. CASE EndOfText
    BY <2>3, CompleteEndOfText
  <2>4. CASE ReadEntry
    BY <2>4, CompleteReadEntry
  <2>5. CASE EndOfJson
    BY <2>5, CompleteEndOfJson
  <2>6. CASE Collect
    BY <2>6, CompleteCollect
  <2>7. CASE PlanUnits \/ Rest \/ UNCHANGED vars
    BY <2>7, CompleteRest
  <2> QED
    BY <2>1, <2>2, <2>3, <2>4, <2>5, <2>6, <2>7 DEF Next
<1> QED
  BY <1>1, <1>2, Invariance, PTL DEF Spec

(* When the reading is done, every bullet of some length, every row of a      *)
(* table, every JSON entry within the walk's limits that is neither empty nor  *)
(* a convention of ids, and every line of prose that ends within a key's 200   *)
(* characters of its paragraph is in the detail of an item that names the      *)
(* place it stands at; a line that ends within a detail's 1200 is, or another  *)
(* text with the same key was told with another detail                         *)
(* (parsers.ts:35-170, analyzer.ts:81-95, 269-272).                           *)
THEOREM EverythingIsTold == Spec => []EveryDetailIsTold
<1>1. Inv /\ Complete => EveryDetailIsTold
  BY CompleteTells
<1> QED
  BY <1>1, Invariance, ReadingIsTold, PTL
=============================================================================
