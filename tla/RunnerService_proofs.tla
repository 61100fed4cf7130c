-------------------------- MODULE RunnerService_proofs --------------------------
(***************************************************************************)
(* Theorems about RunnerService, for every value of its constants.          *)
(***************************************************************************)
EXTENDS RunnerService, SequenceTheorems, TLAPS

(***************************************************************************)
(* The inductive invariant. The log holds only lines before FirstLine, the    *)
(* line at which the next read goes on, and FirstLine never moves back: so a    *)
(* late read appends nothing twice and nothing out of order. When the final      *)
(* drain is over, no whole line of the file lies behind FirstLine, and as the     *)
(* child has closed by then it stays so: this is why a poll that returns after     *)
(* the end of the stream adds nothing to it.                                        *)
(***************************************************************************)
Types == {"run_created", "preparing", "workspace_ready", "executor_started",
          "artifacts_persisted", "run_terminal", "run_cancelled"}
Entries == {<<t>> : t \in Types} \cup ({"line"} \X Nat)

Ordered(l, bound) ==
    /\ l \in Seq(Entries)
    /\ \A i \in 1..Len(l) : l[i][1] = "line" => l[i][2] \in Nat /\ l[i][2] < bound
    /\ \A i, j \in 1..Len(l) :
          i < j /\ l[i][1] = "line" /\ l[j][1] = "line" => l[i][2] < l[j][2]

Gone == {"cleanup", "done"}
Drained == {"collecting", "persisting", "catching"} \cup Gone

Streamed ==
    /\ Ordered(log, FirstLine)
    /\ phase \notin Gone => \A i \in 1..Len(log) : log[i][1] # "run_terminal"
    /\ phase \in Drained => WholeLines(written) <= FirstLine

Running ==
    /\ child = "none" => written = 0
    /\ phase \in {"idle", "bundle", "materialize", "starting"} => child = "none"
    /\ child \in {"alive", "killed"} => phase = "running"

Told ==
    /\ phase \notin Gone => status \in Active /\ manifest = "none"
    /\ phase \in Gone => status = final /\ manifest \in {"none", final}
    /\ killer = "cancel" => aborted
    /\ killer = "cancel" /\ phase \in {"persisting", "catching"} \cup Gone => final = "cancelled"

Inv == TypeOK /\ Streamed /\ Running /\ Told

-----------------------------------------------------------------------------
(* Multiplication is monotonic.                                              *)
LEMMA Times ==
  ASSUME NEW d \in Nat, NEW a \in Int, NEW b \in Int, a <= b
  PROVE  a * d \in Int /\ b * d \in Int /\ a * d <= b * d
<1>1. PICK k \in Nat : b = a + k
  <2>1. b - a \in Nat /\ b = a + (b - a)
    OBVIOUS
  <2> QED
    BY <2>1
<1>2. b * d = a * d + k * d
  BY <1>1
<1>3. k * d \in Nat
  OBVIOUS
<1> QED
  BY <1>2, <1>3

(* What division and remainder are.                                          *)
LEMMA DivMod ==
  ASSUME NEW d \in Nat, d > 0, NEW n \in Nat
  PROVE  /\ n \div d \in Nat /\ n % d \in 0..d - 1 /\ (n \div d) * d \in Nat
         /\ n = (n \div d) * d + (n % d)
<1> DEFINE x == n \div d
           r == n - x * d
<1>1. x \in Int /\ x >= 0
  OBVIOUS
<1>2. d * x <= n /\ n < d * (x + 1)
  OBVIOUS
<1>3. d * x = x * d /\ d * (x + 1) = x * d + d /\ x * d \in Int
  <2> HIDE DEF x
  <2> QED
    BY <1>1
<1>5. x * d >= 0
  <2> HIDE DEF x
  <2> QED
    BY <1>1
<1>4. r \in 0..d - 1 /\ n = x * d + r
  <2> HIDE DEF x
  <2> QED
    BY <1>2, <1>3
<1>6. r = n % d
  <2> HIDE DEF x, r
  <2> QED
    BY <1>1, <1>4
<1>7. x \in Nat /\ n % d \in 0..d - 1 /\ x * d \in Nat /\ n = x * d + (n % d)
  <2> HIDE DEF x, r
  <2> QED
    BY <1>1, <1>3, <1>4, <1>5, <1>6
<1> QED
  BY <1>7, Zenon

(* q whole lines of d characters fit into n characters if and only if q is at *)
(* most the quotient.                                                        *)
LEMMA Quotient ==
  ASSUME NEW d \in Nat, d > 0, NEW n \in Nat, NEW q \in Nat
  PROVE  q * d <= n <=> q <= n \div d
<1> DEFINE x == n \div d
           r == n % d
<1>1. x \in Nat /\ r \in 0..d - 1 /\ n = x * d + r /\ x * d \in Nat
  BY DivMod
<1> HIDE DEF x, r
<1>2. ASSUME q <= x PROVE q * d <= n
  <2>1. q * d <= x * d /\ q * d \in Int /\ x * d \in Int
    BY <1>1, <1>2, Times
  <2> QED
    BY <1>1, <2>1
<1>3. ASSUME q > x PROVE ~(q * d <= n)
  <2>1. (x + 1) * d <= q * d /\ q * d \in Int /\ (x + 1) * d \in Int
    BY <1>1, <1>3, Times
  <2>2. (x + 1) * d = x * d + d
    BY <1>1
  <2> QED
    BY <1>1, <2>1, <2>2
<1> QED
  BY <1>1, <1>2, <1>3 DEF x

-----------------------------------------------------------------------------
(* The offset and the lines before it.                                        *)
LEMMA LineLenType == LineLen \in Nat /\ LineLen > 2
  BY RunConstants DEF RunConstants

(* The first line at or after an offset has a number. *)
LEMMA FirstLineType ==
  ASSUME NEW o \in Nat
  PROVE  (o + LineLen - 1) \div LineLen \in Nat /\ o + LineLen - 1 \in Nat
<1>1. o + LineLen - 1 \in Nat
  BY LineLenType
<1> HIDE DEF FirstLine
<1> QED
  BY <1>1, LineLenType, DivMod

(* Rounding an offset up to a line keeps the order of offsets. *)
LEMMA Offsets ==
  ASSUME NEW a \in Nat, NEW b \in Nat, a <= b
  PROVE  /\ a + LineLen - 1 \in Nat /\ b + LineLen - 1 \in Nat
         /\ a + LineLen - 1 <= b + LineLen - 1 /\ a <= b + LineLen - 1
BY LineLenType

(* More characters hold no fewer whole lines. *)
LEMMA Monotonic ==
  ASSUME NEW n \in Nat, NEW m \in Nat, n <= m
  PROVE  n \div LineLen <= m \div LineLen
<1>1. n \div LineLen \in Nat /\ m \div LineLen \in Nat
  BY LineLenType, DivMod
<1>2. (n \div LineLen) * LineLen <= n /\ (n \div LineLen) * LineLen \in Nat
  BY <1>1, LineLenType, Quotient, DivMod
<1>3. (n \div LineLen) * LineLen <= m
  BY <1>2
<1> QED
  BY <1>1, <1>3, LineLenType, Quotient

(* What a drain does: it moves the offset forward, to where no whole line of    *)
(* what it has read is left, and appends the lines in between.                   *)
LEMMA DrainStep ==
  ASSUME offset \in Nat, NEW n \in Nat, Drain(n)
  PROVE  /\ offset' \in Nat /\ offset <= offset' /\ (offset' <= n + 1 \/ offset' = offset)
         /\ FirstLine \in Nat /\ FirstLine' \in Nat /\ FirstLine <= FirstLine'
         /\ WholeLines(n) \in Nat /\ WholeLines(n) <= FirstLine'
         /\ log' = log \o NewLines(n) \/ log' = log
<1> DEFINE W == WholeLines(n)
<1>1. W \in Nat /\ W * LineLen <= n /\ W * LineLen \in Nat
  BY LineLenType, DivMod, Quotient DEF WholeLines
<1>2. offset' \in Nat /\ offset <= offset' /\ W * LineLen <= offset'
      /\ (offset' <= n + 1 \/ offset' = offset)
  <2> HIDE DEF W
  <2>1. CASE n > offset
    <3>1. offset' \in {n + 1, W * LineLen, offset}
          /\ (offset' = W * LineLen => W * LineLen > offset \/ W * LineLen = offset)
          /\ (offset' = offset => offset' = n + 1 \/ ~(W * LineLen > offset) \/ W * LineLen = offset)
      BY <2>1 DEF Drain, NextOffset, W
    <3> QED
      BY <1>1, <2>1, <3>1
  <2>2. CASE ~(n > offset)
    <3>1. offset' = offset
      BY <2>2 DEF Drain
    <3> QED
      BY <1>1, <2>2, <3>1
  <2> QED
    BY <2>1, <2>2
<1>3. FirstLine \in Nat /\ FirstLine' \in Nat
  BY <1>2, FirstLineType DEF FirstLine
<1>4. FirstLine <= FirstLine'
  <2>1. offset + LineLen - 1 \in Nat /\ offset' + LineLen - 1 \in Nat
        /\ offset + LineLen - 1 <= offset' + LineLen - 1
    BY <1>2, Offsets
  <2> QED
    BY <2>1, Monotonic DEF FirstLine
<1>5. W <= FirstLine'
  <2>1. offset' + LineLen - 1 \in Nat /\ W * LineLen <= offset' + LineLen - 1
    <3> HIDE DEF W
    <3> QED
      BY <1>1, <1>2, Offsets
  <2> QED
    BY <1>1, <2>1, LineLenType, Quotient DEF FirstLine
<1>6. log' = log \o NewLines(n) \/ log' = log
  BY DEF Drain
<1> QED
  BY <1>1, <1>2, <1>3, <1>4, <1>5, <1>6

(* The two ways a log grows by one entry or by a sequence of them.               *)
LEMMA Appended ==
  ASSUME NEW l \in Seq(Entries), NEW e \in Entries
  PROVE  /\ Append(l, e) \in Seq(Entries) /\ Len(Append(l, e)) = Len(l) + 1
         /\ \A i \in 1..Len(l) : Append(l, e)[i] = l[i]
         /\ Append(l, e)[Len(l) + 1] = e
BY AppendProperties

(* The lines a drain adds have the numbers from FirstLine on.                   *)
LEMMA NewLinesAre ==
  ASSUME NEW n \in Nat, FirstLine \in Nat, WholeLines(n) \in Nat
  PROVE  /\ NewLines(n) \in Seq({"line"} \X Nat)
         /\ WholeLines(n) <= FirstLine => NewLines(n) = << >>
         /\ WholeLines(n) > FirstLine => Len(NewLines(n)) = WholeLines(n) - FirstLine
         /\ \A i \in 1..Len(NewLines(n)) :
               NewLines(n)[i] = <<"line", FirstLine + i - 1>>
               /\ FirstLine + i - 1 < WholeLines(n)
<1> DEFINE F == FirstLine
           W == WholeLines(n)
<1>1. NewLines(n) = [i \in 1..W - F |-> <<"line", F + i - 1>>]
  BY DEF NewLines
<1>2. F \in Nat /\ W \in Nat
  OBVIOUS
<1> HIDE DEF F, W
<1>3. CASE W > F
  <2>1. W - F \in Nat /\ \A i \in 1..W - F : F + i - 1 \in Nat /\ F + i - 1 < W
    BY <1>2, <1>3
  <2>2. NewLines(n) \in [1..W - F -> {"line"} \X Nat]
    BY <1>1, <2>1
  <2>3. NewLines(n) \in Seq({"line"} \X Nat) /\ Len(NewLines(n)) = W - F
    BY <2>1, <2>2, SeqDef, LenProperties
  <2>4. \A i \in 1..W - F : NewLines(n)[i] = <<"line", F + i - 1>>
    BY <1>1
  <2> QED
    BY <1>2, <1>3, <2>1, <2>3, <2>4 DEF F, W
<1>4. CASE ~(W > F)
  <2>1. 1..W - F = {}
    BY <1>2, <1>4
  <2>2. NewLines(n) \in [1..0 -> {"line"} \X Nat]
    <3>1. 1..0 = {} /\ NewLines(n) = [i \in {} |-> <<"line", F + i - 1>>]
      BY <1>1, <2>1
    <3> QED
      BY <3>1
  <2>3. NewLines(n) \in Seq({"line"} \X Nat) /\ Len(NewLines(n)) = 0
    BY <2>2, SeqDef, LenProperties
  <2>4. NewLines(n) = << >>
    BY <2>3, EmptySeq
  <2> QED
    BY <1>2, <1>4, <2>3, <2>4 DEF F, W
<1> QED
  BY <1>3, <1>4

(* No line is left: nothing is appended.                                        *)
LEMMA NothingNew ==
  ASSUME log \in Seq(Entries), NEW n \in Nat, FirstLine \in Nat, WholeLines(n) \in Nat,
         WholeLines(n) <= FirstLine
  PROVE  log \o NewLines(n) = log
<1>1. NewLines(n) = << >>
  BY NewLinesAre
<1> QED
  BY <1>1, ConcatEmptySeq

(* An ordered log stays ordered when an event of the service enters it.          *)
LEMMA LogGrows ==
  ASSUME NEW l, NEW b, Ordered(l, b), NEW e \in {<<t>> : t \in Types}
  PROVE  Ordered(Append(l, e), b)
<1>1. e \in Entries /\ e[1] # "line"
  BY DEF Entries, Types
<1>2. l \in Seq(Entries) /\ Len(l) \in Nat
  BY DEF Ordered
<1>3. /\ Append(l, e) \in Seq(Entries) /\ Len(Append(l, e)) = Len(l) + 1
      /\ \A i \in 1..Len(l) : Append(l, e)[i] = l[i]
      /\ Append(l, e)[Len(l) + 1] = e
  BY <1>1, <1>2, Appended
<1>4. \A i \in 1..Len(Append(l, e)) : i \in 1..Len(l) \/ i = Len(l) + 1
  BY <1>2, <1>3
<1>5. \A i \in 1..Len(Append(l, e)) : Append(l, e)[i][1] = "line" =>
         i \in 1..Len(l) /\ Append(l, e)[i] = l[i]
  BY <1>1, <1>3, <1>4
<1> QED
  BY <1>2, <1>3, <1>5 DEF Ordered

(* What an ordered log holds lies before any later line, too.                   *)
LEMMA OrderedMore ==
  ASSUME NEW l, NEW b \in Nat, NEW c \in Nat, b <= c, Ordered(l, b)
  PROVE  Ordered(l, c)
<1>1. \A i \in 1..Len(l) : l[i][1] = "line" => l[i][2] \in Nat /\ l[i][2] < c
  BY DEF Ordered
<1> QED
  BY <1>1 DEF Ordered

(* A drain keeps the log in order, however much of the file it has read.        *)
LEMMA DrainOrdered ==
  ASSUME offset \in Nat, Ordered(log, FirstLine), NEW n \in Nat, Drain(n)
  PROVE  /\ Ordered(log', FirstLine')
         /\ (\A i \in 1..Len(log) : log[i][1] # "run_terminal")
              => \A i \in 1..Len(log') : log'[i][1] # "run_terminal"
<1> DEFINE F == FirstLine
           W == WholeLines(n)
           N == NewLines(n)
           k == Len(log)
<1>1. /\ F \in Nat /\ FirstLine' \in Nat /\ F <= FirstLine'
      /\ W \in Nat /\ W <= FirstLine' /\ (log' = log \o N \/ log' = log)
  BY DrainStep
<1>2. Ordered(log, FirstLine') /\ log \in Seq(Entries) /\ k \in Nat
  <2>1. Ordered(log, FirstLine')
    BY <1>1, OrderedMore
  <2> QED
    BY <2>1 DEF Ordered
<1>3. CASE log' = log
  BY <1>2, <1>3
<1>4. CASE log' = log \o N
  <2>1. /\ N \in Seq({"line"} \X Nat) /\ Len(N) \in Nat
        /\ \A i \in 1..Len(N) : N[i] = <<"line", F + i - 1>> /\ F + i - 1 < W
    BY <1>1, NewLinesAre
  <2>2. N \in Seq(Entries)
    <3>1. {"line"} \X Nat \subseteq Entries
      BY DEF Entries
    <3> HIDE DEF N
    <3> QED
      BY <2>1, <3>1
  <2> HIDE DEF F, W, N
  <2>3. /\ log' \in Seq(Entries) /\ Len(log') = k + Len(N)
        /\ \A i \in 1..k + Len(N) : log'[i] = IF i <= k THEN log[i] ELSE N[i - k]
    BY <1>2, <1>4, <2>2, ConcatProperties
  <2>4. \A i \in 1..k : log'[i] = log[i]
    BY <1>2, <2>1, <2>3
  <2>5. \A i \in k + 1..k + Len(N) :
           /\ log'[i] = <<"line", F + (i - k) - 1>>
           /\ log'[i][1] = "line" /\ log'[i][2] = F + (i - k) - 1
           /\ log'[i][2] \in Nat /\ log'[i][2] >= F /\ log'[i][2] < W
    <3>1. TAKE i \in k + 1..k + Len(N)
    <3>2. i - k \in 1..Len(N) /\ i \in 1..k + Len(N) /\ ~(i <= k)
      BY <1>2, <2>1
    <3>3. log'[i] = <<"line", F + (i - k) - 1>> /\ F + (i - k) - 1 < W
      BY <2>1, <2>3, <3>2
    <3>4. F + (i - k) - 1 \in Nat /\ F + (i - k) - 1 >= F
      BY <1>1, <3>2 DEF F
    <3> QED
      BY <3>3, <3>4
  <2>6. \A i \in 1..Len(log') : i \in 1..k \/ i \in k + 1..k + Len(N)
    BY <1>2, <2>1, <2>3
  <2>7. \A i \in 1..k : log[i][1] = "line" => log[i][2] \in Nat /\ log[i][2] < F
    BY DEF Ordered, F
  <2>8. \A i, j \in 1..k : i < j /\ log[i][1] = "line" /\ log[j][1] = "line"
                             => log[i][2] < log[j][2]
    BY DEF Ordered
  <2> DEFINE b == FirstLine'
             m == log'
  <2>9. b \in Nat /\ F \in Nat /\ W \in Nat /\ F <= b /\ W <= b
    BY <1>1 DEF F, W
  <2>10. \A i \in 1..Len(m) : m[i][1] = "line" => m[i][2] \in Nat /\ m[i][2] < b
    <3> HIDE DEF b
    <3> QED
      BY <2>4, <2>5, <2>6, <2>7, <2>9
  <2>11. ASSUME NEW i \in 1..Len(m), NEW j \in 1..Len(m), i < j,
                m[i][1] = "line", m[j][1] = "line"
         PROVE  m[i][2] < m[j][2]
    <3>1. CASE j \in 1..k
      <4>1. i \in 1..k
        BY <1>2, <2>11, <3>1
      <4> QED
        BY <2>4, <2>8, <2>11, <3>1, <4>1
    <3>2. CASE i \in 1..k /\ j \in k + 1..k + Len(N)
      <4>1. m[i][2] \in Nat /\ m[i][2] < F
        BY <2>4, <2>7, <2>11, <3>2
      <4>2. m[j][2] \in Nat /\ m[j][2] >= F
        BY <2>5, <3>2
      <4> HIDE DEF m
      <4> QED
        BY <2>9, <4>1, <4>2
    <3>3. CASE i \in k + 1..k + Len(N) /\ j \in k + 1..k + Len(N)
      <4>1. m[i][2] = F + (i - k) - 1 /\ m[j][2] = F + (j - k) - 1
        BY <2>5, <3>3
      <4> HIDE DEF m
      <4>2. i \in Int /\ j \in Int
        BY <1>2, <2>1, <3>3
      <4> QED
        BY <1>2, <2>9, <2>11, <4>1, <4>2
    <3> QED
      BY <2>6, <3>1, <3>2, <3>3
  <2>12. Ordered(m, b)
    BY <2>3, <2>10, <2>11 DEF Ordered
  <2>13. ASSUME \A i \in 1..k : log[i][1] # "run_terminal"
         PROVE  \A i \in 1..Len(m) : m[i][1] # "run_terminal"
    BY <2>4, <2>5, <2>6, <2>13
  <2> QED
    BY <2>12, <2>13
<1> QED
  BY <1>1, <1>3, <1>4

-----------------------------------------------------------------------------
(* The invariant holds at the start.                                          *)
LEMMA InitInv == Init => Inv
<1> SUFFICES ASSUME Init PROVE Inv
  OBVIOUS
<1> USE DEF Init
<1>1. MaxLines * LineLen \in Nat
  BY RunConstants DEF RunConstants
<1>2. TypeOK
  <2>1. written \in 0..MaxLines * LineLen
    BY <1>1
  <2>2. offset \in 0..written + 1 /\ reads \in [Polls -> -1..written]
    OBVIOUS
  <2>3. cancels \in 0..MaxCancels
    BY RunConstants DEF RunConstants
  <2> QED
    BY <2>1, <2>2, <2>3 DEF TypeOK, Active, Terminal
<1>3. Streamed
  <2>1. log \in Seq(Entries) /\ Len(log) = 0
    BY EmptySeq
  <2> QED
    BY <2>1 DEF Streamed, Ordered, Drained, Gone
<1>4. Running /\ Told
  BY DEF Running, Told, Gone, Active
<1> QED
  BY <1>2, <1>3, <1>4 DEF Inv

(* The part of TypeOK that a drain changes.                                    *)
LEMMA DrainType ==
  ASSUME written \in Nat, offset \in 0..written + 1, NEW n \in 0..written, Drain(n)
  PROVE  offset' \in 0..written + 1
<1>1. offset \in Nat /\ n \in Nat
  OBVIOUS
<1>2. offset' \in Nat /\ (offset' <= n + 1 \/ offset' = offset)
  BY <1>1, DrainStep
<1> QED
  BY <1>2

(* Every step keeps the types.                                                 *)
LEMMA TypeStep == TypeOK /\ [Next]_vars => TypeOK'
<1> SUFFICES ASSUME TypeOK, [Next]_vars PROVE TypeOK'
  OBVIOUS
<1>0. written \in Nat /\ MaxLines * LineLen \in Nat /\ MaxCancels \in Nat
  BY RunConstants DEF TypeOK, RunConstants
<1> DEFINE Flags ==
             /\ phase \in {"idle", "bundle", "materialize", "starting", "running",
                           "draining", "collecting", "persisting", "catching",
                           "cleanup", "done"}
             /\ status \in Active \cup Terminal
             /\ aborted \in BOOLEAN /\ timedOut \in BOOLEAN
             /\ child \in {"none", "alive", "killed", "closed"}
             /\ killer \in {"none", "cancel", "timeout"}
             /\ exitCode \in {-1, 0, 1}
             /\ final \in Terminal /\ manifest \in Terminal \cup {"none"}
             /\ workspace \in BOOLEAN /\ secrets \in BOOLEAN
             /\ onDisk \in {"none", "there", "removed", "stuck"}
           Counts ==
             /\ written \in 0..MaxLines * LineLen
             /\ offset \in 0..written + 1
             /\ reads \in [Polls -> -1..written]
             /\ cancels \in 0..MaxCancels
<1>1. Flags /\ Counts /\ (Flags' /\ Counts' => TypeOK')
  BY DEF TypeOK
<1>2. Flags'
  <2> USE <1>1 DEF childVars, endVars, tailVars
  <2>1. CASE Submit
    BY <2>1 DEF Submit, Active
  <2>2. CASE BundleRead
    BY <2>2 DEF BundleRead
  <2>3. CASE Materialized
    BY <2>3 DEF Materialized, Catch, Terminal
  <2>4. CASE ExecutorStarted
    BY <2>4 DEF ExecutorStarted, Active
  <2>5. CASE StepFails
    BY <2>5 DEF StepFails, Catch, Terminal
  <2>6. CASE ReporterWrites
    BY <2>6 DEF ReporterWrites
  <2>7. CASE TimeoutFires
    BY <2>7 DEF TimeoutFires, Kill
  <2>8. CASE \E code \in {-1, 0, 1} : ChildCloses(code)
    BY <2>8 DEF ChildCloses
  <2>9. ASSUME NEW p \in Polls, PollStarts(p) \/ PollReturns(p) PROVE Flags'
    BY <2>9 DEF PollStarts, PollReturns
  <2>10. CASE ExitSeen
    BY <2>10 DEF ExitSeen
  <2>11. CASE FinalDrain
    BY <2>11 DEF FinalDrain
  <2>12. CASE Collected
    BY <2>12 DEF Collected, Outcome, Terminal
  <2>13. CASE Persisted
    BY <2>13 DEF Persisted, End
  <2>14. CASE Caught
    <3>1. /\ status' = final /\ secrets' = FALSE /\ phase' \in {"cleanup", "done"}
          /\ manifest' \in {manifest, final}
          /\ UNCHANGED <<aborted, timedOut, childVars, final, workspace, onDisk>>
      BY <2>14 DEF Caught, End, endVars
    <3>2. manifest' \in Terminal \cup {"none"} /\ status' \in Terminal /\ final' \in Terminal
      BY <3>1
    <3>3. /\ exitCode' = exitCode /\ child' = child /\ killer' = killer /\ aborted' = aborted
          /\ timedOut' = timedOut /\ workspace' = workspace /\ onDisk' = onDisk
      BY <3>1 DEF childVars
    <3>4. /\ phase' \in {"idle", "bundle", "materialize", "starting", "running",
                         "draining", "collecting", "persisting", "catching",
                         "cleanup", "done"}
          /\ status' \in Active \cup Terminal /\ workspace' \in BOOLEAN /\ secrets' \in BOOLEAN
      BY <3>1, <3>2, <3>3
    <3> QED
      BY ONLY <1>1, <3>2, <3>3, <3>4
  <2>15. CASE CleanedUp
    BY <2>15 DEF CleanedUp
  <2>16. CASE Cancel
    BY <2>16 DEF Cancel, Kill
  <2>17. CASE UNCHANGED vars
    BY <2>17 DEF vars
  <2> QED
    BY <2>1, <2>2, <2>3, <2>4, <2>5, <2>6, <2>7, <2>8, <2>9, <2>10, <2>11, <2>12, <2>13,
       <2>14, <2>15, <2>16, <2>17 DEF Next, Rest
<1>3. Counts'
  <2> HIDE DEF Flags
  <2>1. CASE UNCHANGED <<written, offset, reads, cancels>>
    BY <1>1, <2>1
  <2>2. CASE ReporterWrites
    <3>1. written' = written + 1 /\ written < MaxLines * LineLen
          /\ UNCHANGED <<offset, reads, cancels>>
      BY <2>2 DEF ReporterWrites, tailVars
    <3> DEFINE m == MaxLines * LineLen
    <3>2. written' \in 0..m
      <4> m \in Nat /\ written < m
        BY <1>0, <3>1
      <4> HIDE DEF m
      <4> QED
        BY <1>0, <3>1
    <3>3. offset' \in 0..written' + 1
      BY <1>0, <1>1, <3>1
    <3>4. reads' \in [Polls -> -1..written']
      <4>1. -1..written \subseteq -1..written'
        BY <1>0, <3>1
      <4> QED
        BY <1>1, <3>1, <4>1
    <3> QED
      BY <1>1, <3>1, <3>2, <3>3, <3>4
  <2>3. ASSUME NEW p \in Polls, PollStarts(p) PROVE Counts'
    <3>1. reads' = [reads EXCEPT ![p] = written] /\ UNCHANGED <<written, offset, cancels>>
      BY <2>3 DEF PollStarts, childVars
    <3>2. reads' \in [Polls -> -1..written]
      BY <1>0, <1>1, <3>1
    <3> QED
      BY <1>1, <3>1, <3>2
  <2>4. ASSUME NEW p \in Polls, PollReturns(p) PROVE Counts'
    <3>1. /\ reads' = [reads EXCEPT ![p] = -1] /\ UNCHANGED <<written, cancels>>
          /\ reads[p] # -1
          /\ (\E n \in reads[p]..written : Drain(n)) \/ offset' = offset
      BY <2>4 DEF PollReturns, childVars
    <3>2. reads' \in [Polls -> -1..written]
      BY <1>0, <1>1, <3>1
    <3>3. offset' \in 0..written + 1
      <4>1. CASE offset' = offset
        BY <1>1, <4>1
      <4>2. ASSUME NEW n \in reads[p]..written, Drain(n) PROVE offset' \in 0..written + 1
        <5>1. reads[p] \in 0..written
          <6>1. reads[p] \in -1..written
            BY <1>1
          <6> QED
            BY <1>0, <3>1, <6>1
        <5>2. n \in 0..written
          BY <1>0, <5>1
        <5> QED
          BY <1>0, <1>1, <4>2, <5>2, DrainType
      <4> QED
        BY <3>1, <4>1, <4>2
    <3> QED
      BY <1>1, <3>1, <3>2, <3>3
  <2>5. CASE FinalDrain
    <3>1. Drain(written) /\ UNCHANGED <<written, reads, cancels>>
      BY <2>5 DEF FinalDrain, childVars
    <3>2. offset' \in 0..written + 1
      <4>1. written \in 0..written
        BY <1>0
      <4> QED
        BY <1>0, <1>1, <3>1, <4>1, DrainType
    <3> QED
      BY <1>1, <3>1, <3>2
  <2>6. CASE Cancel
    <3>1. cancels' = cancels + 1 /\ cancels < MaxCancels /\ UNCHANGED <<written, offset, reads>>
      BY <2>6 DEF Cancel, Kill, childVars, tailVars
    <3>2. cancels' \in 0..MaxCancels
      BY <1>0, <1>1, <3>1
    <3> QED
      BY <1>1, <3>1, <3>2
  <2>7. ASSUME Submit \/ BundleRead \/ Materialized \/ ExecutorStarted \/ StepFails
        PROVE UNCHANGED <<written, offset, reads, cancels>>
    BY <2>7 DEF Submit, BundleRead, Materialized, ExecutorStarted, StepFails, childVars, tailVars
  <2>8. ASSUME TimeoutFires \/ (\E code \in {-1, 0, 1} : ChildCloses(code)) \/ ExitSeen
        PROVE UNCHANGED <<written, offset, reads, cancels>>
    BY <2>8 DEF TimeoutFires, Kill, ChildCloses, ExitSeen, childVars, tailVars
  <2>9. ASSUME Collected \/ Persisted \/ Caught \/ CleanedUp \/ UNCHANGED vars
        PROVE UNCHANGED <<written, offset, reads, cancels>>
    BY <2>9 DEF Collected, Persisted, Caught, CleanedUp, vars, childVars, tailVars
  <2> QED
    BY <2>1, <2>2, <2>3, <2>4, <2>5, <2>6, <2>7, <2>8, <2>9 DEF Next, Rest
<1> QED
  BY <1>1, <1>2, <1>3

(* Every step keeps what the child, the status and the evidence have to do     *)
(* with the phase.                                                             *)
LEMMA RunningToldStep == TypeOK /\ Running /\ Told /\ [Next]_vars => Running' /\ Told'
<1> SUFFICES ASSUME TypeOK, Running, Told, [Next]_vars PROVE Running' /\ Told'
  OBVIOUS
<1>1. /\ phase \in {"idle", "bundle", "materialize", "starting", "running", "draining",
                    "collecting", "persisting", "catching", "cleanup", "done"}
      /\ child \in {"none", "alive", "killed", "closed"}
      /\ killer \in {"none", "cancel", "timeout"}
      /\ aborted \in BOOLEAN /\ timedOut \in BOOLEAN
  BY DEF TypeOK
<1> USE <1>1 DEF Running, Told, Gone, childVars, endVars, tailVars
<1>2. CASE Submit
  BY <1>2 DEF Submit, Active
<1>3. CASE BundleRead
  BY <1>3 DEF BundleRead
<1>4. CASE Materialized
  BY <1>4 DEF Materialized, Catch
<1>5. CASE ExecutorStarted
  BY <1>5 DEF ExecutorStarted, Active
<1>6. CASE StepFails
  BY <1>6 DEF StepFails, Catch
<1>7. CASE ReporterWrites
  BY <1>7 DEF ReporterWrites
<1>8. CASE TimeoutFires
  BY <1>8 DEF TimeoutFires, Kill
<1>9. CASE \E code \in {-1, 0, 1} : ChildCloses(code)
  BY <1>9 DEF ChildCloses
<1>10. ASSUME NEW p \in Polls, PollStarts(p) \/ PollReturns(p) PROVE Running' /\ Told'
  BY <1>10 DEF PollStarts, PollReturns
<1>11. CASE ExitSeen
  BY <1>11 DEF ExitSeen
<1>12. CASE FinalDrain
  BY <1>12 DEF FinalDrain
<1>13. CASE Collected
  BY <1>13 DEF Collected, Outcome
<1>14. CASE Persisted
  BY <1>14 DEF Persisted, End
<1>15. CASE Caught
  BY <1>15 DEF Caught, End
<1>16. CASE CleanedUp
  BY <1>16 DEF CleanedUp
<1>17. CASE Cancel
  BY <1>17 DEF Cancel, Kill
<1>18. CASE UNCHANGED vars
  BY <1>18 DEF vars
<1> QED
  BY <1>2, <1>3, <1>4, <1>5, <1>6, <1>7, <1>8, <1>9, <1>10, <1>11, <1>12, <1>13, <1>14,
     <1>15, <1>16, <1>17, <1>18 DEF Next, Rest

(* A poll that returns after the final drain finds no line that is not yet in  *)
(* the log.                                                                     *)
LEMMA LatePoll ==
  ASSUME TypeOK, Streamed, phase \in Drained, NEW p \in Polls, PollReturns(p)
  PROVE  log' = log /\ FirstLine <= FirstLine' /\ FirstLine' \in Nat
<1>1. written \in Nat /\ offset \in Nat /\ reads[p] \in -1..written /\ reads[p] # -1
  BY RunConstants DEF TypeOK, PollReturns, RunConstants
<1>2. CASE UNCHANGED <<offset, log>>
  <2>1. FirstLine \in Nat
    BY <1>1, FirstLineType DEF FirstLine
  <2> QED
    BY <1>2, <2>1 DEF FirstLine
<1>3. ASSUME NEW n \in reads[p]..written, Drain(n)
      PROVE  log' = log /\ FirstLine <= FirstLine' /\ FirstLine' \in Nat
  <2>1. n \in Nat /\ n <= written
    BY <1>1
  <2>2. /\ FirstLine \in Nat /\ FirstLine' \in Nat /\ FirstLine <= FirstLine'
        /\ WholeLines(n) \in Nat /\ (log' = log \o NewLines(n) \/ log' = log)
    BY <1>1, <1>3, <2>1, DrainStep
  <2>3. WholeLines(n) <= WholeLines(written) /\ WholeLines(written) \in Nat
    BY <1>1, <2>1, Monotonic, DivMod, LineLenType DEF WholeLines
  <2>4. WholeLines(n) <= FirstLine
    BY <2>2, <2>3 DEF Streamed
  <2>5. log \o NewLines(n) = log
    BY <2>1, <2>2, <2>4, NothingNew DEF Streamed, Ordered
  <2> QED
    BY <2>2, <2>5
<1> QED
  BY <1>2, <1>3 DEF PollReturns

(* An event of the service other than run_terminal enters the log.             *)
LEMMA EmitStep ==
  ASSUME Streamed, NEW type \in Types, type # "run_terminal", Emit(type)
  PROVE  /\ \A b : Ordered(log, b) => Ordered(log', b)
         /\ (\A i \in 1..Len(log) : log[i][1] # "run_terminal")
              => \A i \in 1..Len(log') : log'[i][1] # "run_terminal"
<1>1. <<type>> \in {<<t>> : t \in Types} /\ log' = Append(log, <<type>>)
  BY DEF Emit
<1>2. log \in Seq(Entries) /\ Len(log) \in Nat /\ <<type>> \in Entries
  BY <1>1 DEF Streamed, Ordered, Entries
<1>3. \A b : Ordered(log, b) => Ordered(log', b)
  BY <1>1, LogGrows
<1>4. /\ Len(log') = Len(log) + 1 /\ log'[Len(log) + 1] = <<type>>
      /\ \A i \in 1..Len(log) : log'[i] = log[i]
  BY <1>1, <1>2, Appended
<1>5. \A i \in 1..Len(log') : i \in 1..Len(log) \/ i = Len(log) + 1
  BY <1>2, <1>4
<1> QED
  BY <1>3, <1>4, <1>5

(* Two events that are not lines enter an ordered log.                          *)
LEMMA TwoMore ==
  ASSUME NEW b, Ordered(log, b), NEW s \in Types, NEW t \in Types,
         log' = log \o <<<<s>>, <<t>>>>
  PROVE  Ordered(log', b)
<1>1. <<s>> \in {<<x>> : x \in Types} /\ <<t>> \in {<<x>> : x \in Types}
      /\ <<s>> \in Entries /\ <<t>> \in Entries
  BY DEF Entries
<1>2. log \in Seq(Entries)
  BY DEF Ordered
<1>3. Append(log, <<s>>) \in Seq(Entries)
  BY <1>1, <1>2, Appended
<1>4. log' = Append(Append(log, <<s>>), <<t>>)
  BY <1>1, <1>2, <1>3
<1>5. Ordered(Append(log, <<s>>), b)
  BY <1>1, LogGrows
<1>6. Ordered(Append(Append(log, <<s>>), <<t>>), b)
  BY <1>1, <1>5, LogGrows
<1> QED
  BY <1>4, <1>6

(* Every step keeps the log in order and drained.                               *)
LEMMA StreamedStep ==
  TypeOK /\ Streamed /\ Running /\ Told /\ [Next]_vars => Streamed'
<1> SUFFICES ASSUME TypeOK, Streamed, Running, Told, [Next]_vars PROVE Streamed'
  OBVIOUS
<1> DEFINE Silent(l) == \A i \in 1..Len(l) : l[i][1] # "run_terminal"
<1>1. /\ written \in Nat /\ offset \in Nat /\ offset \in 0..written + 1
      /\ FirstLine \in Nat /\ WholeLines(written) \in Nat
  <2>1. written \in Nat /\ offset \in Nat /\ offset \in 0..written + 1
    BY RunConstants DEF TypeOK, RunConstants
  <2> QED
    BY <2>1, FirstLineType, DivMod, LineLenType DEF FirstLine, WholeLines
<1>2. /\ Ordered(log, FirstLine)
      /\ phase \notin Gone => Silent(log)
      /\ phase \in Drained => WholeLines(written) <= FirstLine
  BY DEF Streamed
<1>3. ASSUME Ordered(log', FirstLine'), phase' \notin Gone => Silent(log'),
             phase' \in Drained => WholeLines(written') <= FirstLine'
      PROVE  Streamed'
  BY <1>3 DEF Streamed, WholeLines
<1>4. offset' = offset => FirstLine' = FirstLine
  BY DEF FirstLine
<1> HIDE DEF Silent
<1>5. CASE Submit
  <2>1. /\ log' = <<<<"run_created">>, <<"preparing">>>> /\ offset' = offset
        /\ phase' = "bundle"
    BY <1>5 DEF Submit, tailVars
  <2>2. log' \in Seq(Entries) /\ Len(log') = 2 /\ log'[1] = <<"run_created">>
        /\ log'[2] = <<"preparing">>
    <3>1. <<"run_created">> \in Entries /\ <<"preparing">> \in Entries
      BY DEF Entries, Types
    <3> QED
      BY <2>1, <3>1
  <2>3. \A i \in 1..Len(log') : i = 1 \/ i = 2
    BY <2>2
  <2>4. \A i \in 1..Len(log') : log'[i][1] # "line" /\ log'[i][1] # "run_terminal"
    BY <2>2, <2>3
  <2>5. Ordered(log', FirstLine') /\ Silent(log')
    BY <2>2, <2>4 DEF Ordered, Silent
  <2>6. phase' \notin Drained
    BY <2>1 DEF Drained, Gone
  <2> QED
    BY <1>3, <2>5, <2>6
<1>6. CASE BundleRead
  <2>1. UNCHANGED <<log, offset>> /\ phase' = "materialize" /\ phase = "bundle"
    BY <1>6 DEF BundleRead, tailVars
  <2> QED
    BY <1>2, <1>3, <1>4, <2>1 DEF Drained, Gone
<1>7. CASE Materialized
  <2>1. /\ Emit("workspace_ready") /\ UNCHANGED <<offset, written>> /\ phase = "materialize"
        /\ phase' \in {"catching", "starting"}
    BY <1>7 DEF Materialized, tailVars, childVars, Catch
  <2>2. Ordered(log', FirstLine) /\ Silent(log')
    BY <1>2, <2>1, EmitStep DEF Types, Gone, Silent
  <2>3. WholeLines(written) <= FirstLine
    <3>1. written = 0
      BY <2>1 DEF Running
    <3>2. WholeLines(written) * LineLen <= written /\ WholeLines(written) = 0
      BY <3>1, LineLenType DEF WholeLines
    <3> QED
      BY <1>1, <3>2
  <2>4. WholeLines(written') <= FirstLine'
    BY <1>4, <2>1, <2>3
  <2> QED
    BY <1>3, <1>4, <2>1, <2>2, <2>4
<1>8. CASE ExecutorStarted
  <2>1. /\ Emit("executor_started") /\ UNCHANGED offset /\ phase = "starting"
        /\ phase' = "running"
    BY <1>8 DEF ExecutorStarted, tailVars
  <2>2. Ordered(log', FirstLine) /\ Silent(log')
    BY <1>2, <2>1, EmitStep DEF Types, Gone, Silent
  <2> QED
    BY <1>3, <1>4, <2>1, <2>2 DEF Drained, Gone
<1>9. CASE StepFails
  <2>1. /\ UNCHANGED <<log, offset, written>> /\ phase' = "catching"
        /\ phase \in {"bundle", "materialize", "starting", "collecting", "persisting"}
    BY <1>9 DEF StepFails, Catch, tailVars, childVars
  <2>2. WholeLines(written) <= FirstLine
    <3>1. CASE phase \in {"bundle", "materialize", "starting"}
      <4>1. written = 0
        BY <3>1 DEF Running
      <4>2. WholeLines(written) = 0
        BY <4>1, LineLenType DEF WholeLines
      <4> QED
        BY <1>1, <4>2
    <3>2. CASE phase \in {"collecting", "persisting"}
      BY <1>2, <3>2 DEF Drained
    <3> QED
      BY <2>1, <3>1, <3>2
  <2>3. WholeLines(written') <= FirstLine' /\ phase \notin Gone
    BY <1>4, <2>1, <2>2 DEF Gone
  <2> QED
    BY <1>2, <1>3, <1>4, <2>1, <2>3
<1>10. CASE ReporterWrites
  <2>1. UNCHANGED <<log, offset, phase>> /\ child \in {"alive", "killed"}
    BY <1>10 DEF ReporterWrites, tailVars
  <2>2. phase \notin Drained
    BY <2>1 DEF Running, Drained, Gone
  <2> QED
    BY <1>2, <1>3, <1>4, <2>1, <2>2
<1>11. ASSUME TimeoutFires \/ (\E code \in {-1, 0, 1} : ChildCloses(code))
              \/ (\E p \in Polls : PollStarts(p)) \/ UNCHANGED vars
       PROVE  Streamed'
  <2>1. UNCHANGED <<log, offset, phase, written>>
    BY <1>11 DEF TimeoutFires, Kill, ChildCloses, PollStarts, vars, tailVars, childVars
  <2> QED
    BY <1>2, <1>3, <1>4, <2>1
<1>12. ASSUME NEW p \in Polls, PollReturns(p) PROVE Streamed'
  <2>1. UNCHANGED <<phase, written>>
    BY <1>12 DEF PollReturns, childVars
  <2>2. CASE phase \in Drained
    <3>1. log' = log /\ FirstLine <= FirstLine' /\ FirstLine' \in Nat
      BY <1>12, <2>2, LatePoll
    <3>2. Ordered(log', FirstLine')
      BY <1>1, <1>2, <3>1, OrderedMore
    <3>3. WholeLines(written') <= FirstLine'
      BY <1>1, <1>2, <2>1, <2>2, <3>1
    <3> QED
      BY <1>2, <1>3, <2>1, <3>1, <3>2, <3>3
  <2>3. CASE phase \notin Drained
    <3>1. phase \notin Gone
      BY <2>3 DEF Drained
    <3>2. CASE UNCHANGED <<offset, log>>
      BY <1>2, <1>3, <1>4, <2>1, <2>3, <3>2
    <3>3. ASSUME NEW n \in reads[p]..written, Drain(n) PROVE Streamed'
      <4>1. n \in Nat
        <5>1. reads[p] \in -1..written /\ reads[p] # -1
          BY <1>12 DEF TypeOK, PollReturns
        <5> QED
          BY <1>1, <5>1
      <4>2. Ordered(log', FirstLine') /\ Silent(log')
        BY <1>1, <1>2, <3>1, <3>3, <4>1, DrainOrdered DEF Silent
      <4> QED
        BY <1>3, <2>1, <2>3, <4>2
    <3> QED
      BY <1>12, <3>2, <3>3 DEF PollReturns
  <2> QED
    BY <2>2, <2>3
<1>13. CASE ExitSeen
  <2>1. UNCHANGED <<log, offset>> /\ phase' = "draining" /\ phase = "running"
    BY <1>13 DEF ExitSeen, tailVars
  <2> QED
    BY <1>2, <1>3, <1>4, <2>1 DEF Drained, Gone
<1>14. CASE FinalDrain
  <2>1. Drain(written) /\ phase = "draining" /\ phase' = "collecting" /\ written' = written
    BY <1>14 DEF FinalDrain, childVars
  <2>2. Ordered(log', FirstLine') /\ Silent(log')
    BY <1>1, <1>2, <2>1, DrainOrdered DEF Silent, Gone
  <2>3. WholeLines(written) <= FirstLine'
    BY <1>1, <2>1, DrainStep
  <2> QED
    BY <1>3, <2>1, <2>2, <2>3
<1>15. CASE Collected
  <2>1. UNCHANGED <<log, offset, written>> /\ phase = "collecting" /\ phase' = "persisting"
    BY <1>15 DEF Collected, tailVars, childVars
  <2> QED
    BY <1>2, <1>3, <1>4, <2>1 DEF Drained, Gone
<1>16. CASE Persisted
  <2>1. /\ log' = log \o <<<<"artifacts_persisted">>, <<"run_terminal">>>>
        /\ UNCHANGED <<offset, written>> /\ phase = "persisting" /\ phase' \in Gone
    BY <1>16 DEF Persisted, End, tailVars, childVars, Gone
  <2>2. Ordered(log', FirstLine)
    BY <1>2, <2>1, TwoMore DEF Types
  <2> QED
    BY <1>2, <1>3, <1>4, <2>1, <2>2 DEF Drained
<1>17. CASE Caught
  <2>1. /\ Emit("run_terminal") /\ UNCHANGED <<offset, written>> /\ phase = "catching"
        /\ phase' \in Gone
    BY <1>17 DEF Caught, End, tailVars, childVars, Gone
  <2>2. Ordered(log', FirstLine)
    BY <1>2, <2>1, LogGrows DEF Types, Emit
  <2> QED
    BY <1>2, <1>3, <1>4, <2>1, <2>2 DEF Drained
<1>18. CASE CleanedUp
  <2>1. UNCHANGED <<log, offset, written>> /\ phase = "cleanup" /\ phase' = "done"
    BY <1>18 DEF CleanedUp, tailVars, childVars
  <2> QED
    BY <1>2, <1>3, <1>4, <2>1 DEF Drained, Gone
<1>19. CASE Cancel
  <2>1. /\ Emit("run_cancelled") /\ UNCHANGED <<offset, written, phase>> /\ status \in Active
    BY <1>19 DEF Cancel, Kill, tailVars, childVars
  <2>2. phase \notin Gone
    BY <2>1 DEF TypeOK, Told, Active, Terminal
  <2>3. Ordered(log', FirstLine) /\ Silent(log')
    BY <1>2, <2>1, <2>2, EmitStep DEF Types, Silent
  <2> QED
    BY <1>2, <1>3, <1>4, <2>1, <2>3
<1> QED
  BY <1>5, <1>6, <1>7, <1>8, <1>9, <1>10, <1>11, <1>12, <1>13, <1>14, <1>15, <1>16, <1>17,
     <1>18, <1>19 DEF Next, Rest

(* Every step keeps the invariant.                                              *)
LEMMA NextInv == Inv /\ [Next]_vars => Inv'
  BY TypeStep, RunningToldStep, StreamedStep DEF Inv

(* The inductive invariant holds in every reachable state.                       *)
THEOREM Invariance == Spec => []Inv
<1>1. Init => Inv
  BY InitInv
<1>2. Inv /\ [Next]_vars => Inv'
  BY NextInv
<1> QED
  BY <1>1, <1>2, PTL DEF Spec

(* Every variable keeps its type: the offset never runs more than one character *)
(* ahead of the file, although a file that ends with a newline is counted one    *)
(* character too long (service.ts:168-183).                                      *)
THEOREM TypeCorrect == Spec => []TypeOK
<1>1. Inv => TypeOK
  BY DEF Inv
<1> QED
  BY <1>1, Invariance, PTL

(* Overlapping and late reads never repeat a line of the reporter and never      *)
(* reorder two of them (service.ts:168-183).                                     *)
THEOREM InOrder == Spec => []LinesInOrder
<1>1. Inv => LinesInOrder
  BY DEF Inv, Streamed, Ordered, LinesInOrder, Lines
<1> QED
  BY <1>1, Invariance, PTL

(* The persisted manifest and the visible status agree, and a run whose child a  *)
(* cancellation has killed is cancelled (service.ts:236-237, 248-254, 272-283).  *)
THEOREM TrueStatus == Spec => []StatusIsTrue
<1>1. ASSUME Inv PROVE StatusIsTrue
  <2>1. SUFFICES ASSUME status \in Terminal
                 PROVE  /\ manifest # "none" => manifest = status
                        /\ killer = "cancel" => status = "cancelled"
    BY DEF StatusIsTrue
  <2>2. phase \in Gone
    BY <1>1, <2>1 DEF Inv, Told, Active, Terminal
  <2> QED
    BY <1>1, <2>2 DEF Inv, Told
<1> QED
  BY <1>1, Invariance, PTL

(* A run holds its slot in the tenant's cap as long as its child lives           *)
(* (store.ts:19-33).                                                             *)
THEOREM SlotHeld == Spec => []SlotHeldByChild
<1>1. Inv => SlotHeldByChild
  BY DEF Inv, Running, Told, SlotHeldByChild, Gone
<1> QED
  BY <1>1, Invariance, PTL

(* Nothing enters the stream after run_terminal: no cancellation, and no poll    *)
(* that was still reading when the run ended (service.ts:84, 168-183, 256).      *)
THEOREM StreamEnds == Spec => [][Ended => UNCHANGED log]_vars
<1>1. ASSUME Inv, Ended, [Next]_vars PROVE UNCHANGED log
  <2>1. phase \in Gone
    BY <1>1 DEF Inv, Streamed, Ended
  <2>2. CASE \E p \in Polls : PollReturns(p)
    BY <1>1, <2>1, <2>2, LatePoll DEF Inv, Drained
  <2>3. CASE Cancel
    BY <1>1, <2>1, <2>3 DEF Cancel, Inv, Told, TypeOK, Active, Terminal
  <2>4. ~(Submit \/ Materialized \/ ExecutorStarted \/ FinalDrain \/ Persisted \/ Caught)
    BY <2>1 DEF Gone, Submit, Materialized, ExecutorStarted, FinalDrain, Persisted, Caught
  <2>5. ASSUME BundleRead \/ StepFails \/ ReporterWrites \/ TimeoutFires \/ ExitSeen
               \/ Collected \/ CleanedUp \/ UNCHANGED vars
               \/ (\E code \in {-1, 0, 1} : ChildCloses(code))
               \/ (\E p \in Polls : PollStarts(p))
        PROVE  UNCHANGED log
    BY <2>5 DEF BundleRead, StepFails, ReporterWrites, TimeoutFires, ExitSeen, Collected,
                CleanedUp, vars, ChildCloses, PollStarts
  <2> QED
    BY <1>1, <2>2, <2>3, <2>4, <2>5 DEF Next, Rest
<1>2. Inv /\ [Next]_vars => [Ended => UNCHANGED log]_vars
  BY <1>1
<1> QED
  BY <1>2, Invariance, PTL DEF Spec

-----------------------------------------------------------------------------
(* The lifecycle that the run implements. What the invariant does not say is    *)
(* why a verdict is deserved: it was decided of a closed child, before the        *)
(* evidence was persisted, and is as true when the verdict becomes visible.       *)
Verdict ==
    \/ final = "cancelled" /\ aborted
    \/ final = "timed_out" /\ timedOut
    \/ final = "completed" /\ ~timedOut /\ (exitCode = 0 \/ (exitCode = 1 /\ HasResults))
    \/ final = "failed" /\ ~timedOut /\ exitCode # 0

Decided ==
    /\ phase = "running" => child # "none"
    /\ phase \in {"draining", "collecting", "persisting"} => child = "closed"
    /\ phase = "persisting" => Verdict
    /\ phase = "catching" => \/ final = "failed"
                             \/ final = "cancelled" /\ aborted

(* What has been shown stays shown when more is told.                           *)
LEMMA ResultsStay ==
  ASSUME log \in Seq(Entries), NEW type \in Types, Emit(type), HasResults
  PROVE  HasResults'
<1>1. log' = Append(log, <<type>>) /\ <<type>> \in Entries
  BY DEF Emit, Entries
<1>2. /\ Len(log) \in Nat /\ Len(log') = Len(log) + 1
      /\ \A i \in 1..Len(log) : log'[i] = log[i]
  BY <1>1, Appended, LenProperties
<1>3. PICK i \in 1..Len(log) : log[i][1] = "line" /\ log[i][2] > 0
  BY DEF HasResults, Lines
<1>4. i \in 1..Len(log') /\ log'[i] = log[i]
  BY <1>2, <1>3
<1> QED
  BY <1>3, <1>4 DEF HasResults, Lines

(* The order of the phases, and what a verdict rests on.                        *)
LEMMA DecidedStep == Inv /\ Decided /\ [Next]_vars => Decided'
<1> SUFFICES ASSUME Inv, Decided, [Next]_vars PROVE Decided'
  OBVIOUS
<1>1. /\ child \in {"none", "alive", "killed", "closed"} /\ log \in Seq(Entries)
      /\ child \in {"alive", "killed"} => phase = "running"
      /\ phase \notin Gone => status \in Active
      /\ phase \in Gone => status \notin Active
  BY DEF Inv, TypeOK, Streamed, Ordered, Running, Told, Active, Terminal
<1>2. CASE Submit \/ BundleRead \/ Materialized \/ StepFails \/ Caught \/ CleanedUp \/ Persisted
  BY <1>2 DEF Submit, BundleRead, Materialized, StepFails, Caught, CleanedUp, Persisted,
              Catch, End, Decided
<1>3. CASE ExecutorStarted \/ ExitSeen \/ FinalDrain
  BY <1>1, <1>3 DEF ExecutorStarted, ExitSeen, FinalDrain, Decided, childVars
<1>4. CASE ReporterWrites \/ TimeoutFires \/ (\E code \in {-1, 0, 1} : ChildCloses(code))
           \/ (\E p \in Polls : PollStarts(p)) \/ UNCHANGED vars \/ Rest
  <2>1. CASE ReporterWrites \/ TimeoutFires \/ (\E code \in {-1, 0, 1} : ChildCloses(code))
    BY <1>1, <2>1 DEF ReporterWrites, TimeoutFires, ChildCloses, Kill, Decided, childVars, endVars
  <2>2. CASE (\E p \in Polls : PollStarts(p)) \/ UNCHANGED vars \/ Rest
    <3>1. UNCHANGED <<phase, child, exitCode, final, aborted, timedOut, log>>
      BY <2>2 DEF PollStarts, Rest, vars, childVars, endVars
    <3> QED
      BY <3>1 DEF Decided, Verdict, HasResults, Lines
  <2> QED
    BY <1>4, <2>1, <2>2
<1>5. CASE Collected
  <2>1. /\ phase = "collecting" /\ phase' = "persisting" /\ final' = Outcome
        /\ UNCHANGED <<aborted, timedOut, child, exitCode, log>>
    BY <1>5 DEF Collected, childVars
  <2>2. HasResults' = HasResults
    BY <2>1, Zenon DEF HasResults, Lines
  <2>3. exitCode \in {-1, 0, 1}
    BY DEF Inv, TypeOK
  <2>4. Verdict'
    BY <2>1, <2>2, <2>3 DEF Verdict, Outcome
  <2> QED
    BY <2>1, <2>4 DEF Decided
<1>6. CASE \E p \in Polls : PollReturns(p)
  <2>1. PICK p \in Polls : PollReturns(p)
    BY <1>6
  <2>2. UNCHANGED <<phase, child, exitCode, final, aborted, timedOut>>
    BY <2>1 DEF PollReturns, childVars, endVars
  <2>3. CASE phase = "persisting"
    <3>1. log' = log
      BY <2>1, <2>3, LatePoll DEF Inv, Drained
    <3>2. Verdict' = Verdict
      BY <2>2, <3>1, Zenon DEF Verdict, HasResults, Lines
    <3> QED
      BY <2>2, <3>2 DEF Decided
  <2> QED
    BY <2>2, <2>3 DEF Decided
<1>7. CASE Cancel
  <2>1. /\ Emit("run_cancelled") /\ aborted' = TRUE /\ UNCHANGED <<phase, timedOut, exitCode, final>>
        /\ IF phase = "running" THEN child' \in {child, "killed"} ELSE child' = child
    BY <1>7 DEF Cancel, Kill, childVars, endVars
  <2>2. "run_cancelled" \in Types
    BY DEF Types
  <2>3. HasResults => HasResults'
    BY <1>1, <2>1, <2>2, ResultsStay
  <2>4. Verdict => Verdict'
    BY <2>1, <2>3 DEF Verdict
  <2> QED
    BY <2>1, <2>4 DEF Decided
<1> QED
  BY <1>2, <1>3, <1>4, <1>5, <1>6, <1>7 DEF Next

(* The abstract state at each phase.                                            *)
LEMMA SeenAs ==
  ASSUME Inv
  PROVE  /\ phase = "idle" => Seen = "none"
         /\ phase # "idle" /\ phase \notin Gone => Seen = "active"
         /\ phase \in Gone => Seen = status
BY DEF Inv, Told, Seen, Active, Terminal, Gone, TypeOK

(* What is shown of the log.                                                    *)
LEMMA ShownAs ==
  /\ Lifecycle!Shown = {log[i][2] : i \in Lines(log)}
  /\ Lifecycle!HasResults <=> HasResults
<1>1. Lifecycle!Shown = {log[i][2] : i \in Lines(log)}
  BY Zenon DEF Lifecycle!Shown, Lines
<1>2. Lifecycle!HasResults <=> HasResults
  BY <1>1 DEF Lifecycle!HasResults, HasResults
<1> QED
  BY <1>1, <1>2

(* A step that no client and no viewer sees.                                    *)
LEMMA Unseen ==
  ASSUME UNCHANGED <<phase, status, aborted, timedOut, child, exitCode, killer, log, manifest>>
  PROVE  UNCHANGED Lifecycle!vars
BY DEF Lifecycle!vars, Seen, Suite, Stopped, Active

(* A drain shows the next results, or nothing.                                  *)
LEMMA DrainShows ==
  ASSUME Inv, phase # "idle", phase \notin Gone, NEW n \in 0..written, Drain(n),
         UNCHANGED <<status, aborted, timedOut, child, exitCode, killer, manifest, Seen>>
  PROVE  Lifecycle!Show \/ UNCHANGED Lifecycle!vars
<1>1. /\ offset \in Nat /\ n \in Nat /\ written \in Nat /\ n <= MaxLines * LineLen
      /\ MaxLines \in Nat /\ log \in Seq(Entries)
  <2>1. MaxLines * LineLen \in Nat
    BY RunConstants DEF RunConstants
  <2> QED
    BY <2>1, RunConstants DEF RunConstants, Inv, TypeOK, Streamed, Ordered
<1>2. Seen = "active" /\ UNCHANGED <<Seen, Suite, Stopped>>
  BY SeenAs DEF Gone, Suite, Stopped
<1>3. FirstLine \in Nat /\ WholeLines(n) \in Nat
  BY <1>1, DrainStep
<1>4. WholeLines(n) <= MaxLines
  <2>1. n \div LineLen \in Nat /\ (n \div LineLen) * LineLen <= n
    <3>1. /\ (n \div LineLen) * LineLen \in Nat /\ n % LineLen \in 0..LineLen - 1
          /\ n = (n \div LineLen) * LineLen + (n % LineLen) /\ n \div LineLen \in Nat
      BY <1>1, LineLenType, DivMod
    <3> QED
      BY <1>1, <3>1, LineLenType
  <2>2. PICK q \in Nat : q = n \div LineLen
    BY <2>1
  <2>3. ASSUME ~(q <= MaxLines) PROVE FALSE
    <3>1. MaxLines + 1 <= q /\ MaxLines + 1 \in Int
      BY <1>1, <2>2, <2>3
    <3>2. (MaxLines + 1) * LineLen <= q * LineLen
      BY <3>1, LineLenType, Times
    <3>3. (MaxLines + 1) * LineLen = MaxLines * LineLen + LineLen
      BY <1>1, LineLenType
    <3>4. MaxLines * LineLen \in Nat /\ q * LineLen \in Nat /\ q * LineLen <= n
      BY <1>1, <2>1, <2>2, LineLenType
    <3> QED
      BY <1>1, <3>2, <3>3, <3>4, LineLenType
  <2> QED
    BY <2>2, <2>3 DEF WholeLines
<1>5. CASE log' = log
  BY <1>2, <1>5 DEF Lifecycle!vars
<1>6. CASE log' # log
  <2>1. n > offset /\ log' = log \o NewLines(n)
    BY <1>6 DEF Drain
  <2>2. ~(WholeLines(n) <= FirstLine)
    BY <1>1, <1>3, <1>6, <2>1, NothingNew
  <2>3. PICK first \in Nat : first = FirstLine
    BY <1>3
  <2>4. PICK w \in Nat : w = WholeLines(n)
    BY <1>3
  <2>5. first < w /\ w <= MaxLines
    BY <1>4, <2>2, <2>3, <2>4
  <2>6. first \in 0..MaxLines - 1 /\ w - first \in 1..MaxLines - first
    BY <1>1, <2>5
  <2>7. \A k \in Lifecycle!Shown : k < first
    BY <2>3, ShownAs DEF Inv, Streamed, Ordered, Lines
  <2>8. log' = log \o [i \in 1..w - first |-> <<"line", first + i - 1>>]
    BY <2>1, <2>3, <2>4, Zenon DEF NewLines
  <2>9. child # "none"
    BY <1>1, <2>1 DEF Inv, Running
  <2>10. \E f \in 0..MaxLines - 1 : \E m \in 1..MaxLines - f :
            /\ \A k \in Lifecycle!Shown : k < f
            /\ log' = log \o [i \in 1..m |-> <<"line", f + i - 1>>]
    BY <2>6, <2>7, <2>8, Zenon
  <2>11. Suite # "none"
    BY <2>9 DEF Suite
  <2> QED
    BY <1>2, <2>10, <2>11, Zenon DEF Lifecycle!Show
<1> QED
  BY <1>5, <1>6

(* Each step of the run is one of the lifecycle, or is not seen.                *)
LEMMA StepSimulation ==
  Inv /\ Inv' /\ Decided /\ [Next]_vars => [Lifecycle!Next]_(Lifecycle!vars)
<1> SUFFICES ASSUME Inv, Inv', Decided, [Next]_vars
             PROVE  Lifecycle!Next \/ UNCHANGED Lifecycle!vars
  OBVIOUS
<1>1. /\ child \in {"none", "alive", "killed", "closed"}
      /\ phase \in {"idle", "bundle", "materialize", "starting", "running", "draining",
                    "collecting", "persisting", "catching", "cleanup", "done"}
      /\ child \in {"alive", "killed"} => phase = "running"
      /\ phase \in {"idle", "bundle", "materialize", "starting"} => child = "none"
      /\ phase \notin Gone => status \in Active /\ manifest = "none"
      /\ phase \in Gone => status \notin Active
  BY DEF Inv, TypeOK, Running, Told, Active, Terminal
<1>2. /\ phase = "idle" => Seen = "none"
      /\ phase # "idle" /\ phase \notin Gone => Seen = "active"
      /\ phase \in Gone => Seen = status
  BY SeenAs
<1>3. /\ phase' = "idle" => Seen' = "none"
      /\ phase' # "idle" /\ phase' \notin Gone => Seen' = "active"
      /\ phase' \in Gone => Seen' = status'
  <2>1. (/\ phase = "idle" => Seen = "none"
         /\ phase # "idle" /\ phase \notin Gone => Seen = "active"
         /\ phase \in Gone => Seen = status)'
    BY SeenAs, PTL
  <2> QED
    BY <2>1 DEF Gone
<1>4. CASE Submit
  <2>1. Seen = "none" /\ Seen' = "active" /\ UNCHANGED <<Suite, Stopped>>
    BY <1>2, <1>3, <1>4 DEF Submit, Gone, Suite, Stopped, childVars
  <2>2. Lifecycle!Accept
    BY <1>4, <2>1 DEF Submit, Lifecycle!Accept, childVars
  <2> QED
    BY <2>2, Zenon DEF Lifecycle!Next
<1>5. CASE Materialized
  <2>1. Seen = "active" /\ Seen' = "active" /\ Suite = "none" /\ UNCHANGED <<Suite, Stopped>>
    BY <1>1, <1>2, <1>3, <1>5 DEF Materialized, Catch, Gone, Suite, Stopped, childVars
  <2>2. Lifecycle!Prepare
    BY <1>5, <2>1 DEF Materialized, Emit, Lifecycle!Prepare, Lifecycle!Told, childVars
  <2> QED
    BY <2>2, Zenon DEF Lifecycle!Next
<1>6. CASE ExecutorStarted
  <2>1. /\ Seen = "active" /\ Seen' = "active" /\ Suite = "none" /\ Suite' = "runs"
        /\ UNCHANGED Stopped
    BY <1>1, <1>2, <1>3, <1>6 DEF ExecutorStarted, Gone, Suite, Stopped
  <2>2. Lifecycle!Start
    BY <1>6, <2>1 DEF ExecutorStarted, Emit, Lifecycle!Start, Lifecycle!Told, endVars
  <2> QED
    BY <2>2, Zenon DEF Lifecycle!Next
<1>7. CASE BundleRead \/ StepFails \/ ExitSeen \/ Collected \/ CleanedUp
  <2>1. /\ UNCHANGED <<status, aborted, timedOut, child, exitCode, killer, log, manifest>>
        /\ phase # "idle" /\ phase' # "idle"
    BY <1>7 DEF BundleRead, StepFails, Catch, ExitSeen, Collected, CleanedUp, childVars, endVars
  <2>2. UNCHANGED <<Seen, Suite, Stopped>>
    BY <2>1 DEF Seen, Suite, Stopped, Active
  <2> QED
    BY <2>1, <2>2 DEF Lifecycle!vars
<1>8. CASE ReporterWrites \/ (\E p \in Polls : PollStarts(p)) \/ Rest \/ UNCHANGED vars
  <2>1. UNCHANGED <<phase, status, aborted, timedOut, child, exitCode, killer, log, manifest>>
    BY <1>8 DEF ReporterWrites, PollStarts, Rest, vars, childVars, endVars
  <2> QED
    BY <2>1, Unseen
<1>9. CASE \E code \in {-1, 0, 1} : ChildCloses(code)
  <2>1. PICK code \in {-1, 0, 1} : ChildCloses(code)
    BY <1>9
  <2>2. Suite = "runs" /\ Suite' = "over" /\ UNCHANGED <<Seen, Stopped>>
    BY <2>1 DEF ChildCloses, Suite, Stopped, Seen, Active
  <2>3. Lifecycle!Exit
    BY <2>1, <2>2 DEF ChildCloses, Lifecycle!Exit, endVars
  <2> QED
    BY <2>3, Zenon DEF Lifecycle!Next
<1>10. CASE TimeoutFires
  <2>1. Seen = "active" /\ Seen' = "active" /\ Suite # "none" /\ UNCHANGED Suite
    BY <1>1, <1>2, <1>3, <1>10 DEF TimeoutFires, Kill, Decided, Gone, Suite, childVars
  <2>2. UNCHANGED Stopped
    BY <1>10 DEF TimeoutFires, Kill, Stopped, childVars
  <2>3. Lifecycle!Expire
    BY <1>10, <2>1, <2>2 DEF TimeoutFires, Kill, Lifecycle!Expire, childVars, endVars
  <2> QED
    BY <2>3, Zenon DEF Lifecycle!Next
<1>11. CASE \E p \in Polls : PollReturns(p)
  <2>1. PICK p \in Polls : PollReturns(p)
    BY <1>11
  <2>2. UNCHANGED <<phase, status, aborted, timedOut, child, exitCode, killer, manifest>>
    BY <2>1 DEF PollReturns, childVars, endVars
  <2>3. CASE phase \in Gone \/ UNCHANGED <<offset, log>>
    <3>1. log' = log
      BY <2>1, <2>3, LatePoll DEF Inv, Drained
    <3> QED
      BY <2>2, <3>1, Unseen
  <2>4. CASE phase \notin Gone /\ ~UNCHANGED <<offset, log>>
    <3>1. PICK n \in reads[p]..written : Drain(n)
      BY <2>1, <2>4 DEF PollReturns
    <3>2. n \in 0..written
      <4>1. reads[p] \in -1..written /\ reads[p] # -1 /\ written \in Nat
        BY <2>1, RunConstants DEF Inv, TypeOK, PollReturns, RunConstants
      <4> QED
        BY <4>1
    <3>3. n > offset
      BY <2>4, <3>1 DEF Drain
    <3>4. phase # "idle"
      BY <1>1, <3>2, <3>3 DEF Inv, Running, TypeOK
    <3>5. UNCHANGED Seen
      BY <2>2 DEF Seen
    <3>6. Lifecycle!Show \/ UNCHANGED Lifecycle!vars
      BY <2>2, <2>4, <3>1, <3>2, <3>4, <3>5, DrainShows
    <3> QED
      BY <3>6, Zenon DEF Lifecycle!Next
  <2> QED
    BY <2>3, <2>4
<1>12. CASE FinalDrain
  <2>1. /\ Drain(written) /\ phase = "draining" /\ phase' = "collecting"
        /\ UNCHANGED <<status, aborted, timedOut, child, exitCode, killer, manifest>>
    BY <1>12 DEF FinalDrain, childVars, endVars
  <2>2. UNCHANGED Seen /\ phase \notin Gone
    BY <2>1 DEF Seen, Gone
  <2>3. written \in 0..written
    BY RunConstants DEF Inv, TypeOK, RunConstants
  <2>4. Lifecycle!Show \/ UNCHANGED Lifecycle!vars
    BY <2>1, <2>2, <2>3, DrainShows
  <2> QED
    BY <2>4, Zenon DEF Lifecycle!Next
<1>13. CASE Cancel
  <2>1. phase # "idle" /\ phase \notin Gone /\ UNCHANGED phase
    BY <1>1, <1>13 DEF Cancel
  <2>2. Seen = "active" /\ Seen' = "active" /\ UNCHANGED Suite
    BY <1>2, <1>3, <1>13, <2>1 DEF Cancel, Kill, Suite, childVars
  <2>3. UNCHANGED Stopped \/ (Suite = "runs" /\ Stopped')
    BY <1>13 DEF Cancel, Kill, Suite, Stopped, childVars
  <2>4. /\ aborted' = TRUE /\ UNCHANGED <<timedOut, exitCode, manifest>>
        /\ log' = Append(log, <<"run_cancelled">>)
    BY <1>13 DEF Cancel, Kill, Emit, childVars, endVars
  <2>5. Lifecycle!Cancel
    BY <2>2, <2>3, <2>4 DEF Lifecycle!Cancel, Lifecycle!Told
  <2> QED
    BY <2>5, Zenon DEF Lifecycle!Next
<1>14. ASSUME Persisted \/ Caught PROVE Lifecycle!Ends(final) /\ final \in Terminal
  <2>1. /\ phase \in {"persisting", "catching"} /\ phase' \in Gone /\ status' = final
        /\ UNCHANGED <<aborted, timedOut, child, exitCode, killer>>
    BY <1>14 DEF Persisted, Caught, End, Gone, childVars
  <2>2. Seen = "active" /\ Seen' = final /\ UNCHANGED <<Suite, Stopped>>
    BY <1>2, <1>3, <2>1 DEF Gone, Suite, Stopped
  <2>3. Suite # "runs"
    BY <1>1, <2>1 DEF Suite
  <2>4. Stopped => final = "cancelled"
    BY <2>1 DEF Inv, Told, Stopped
  <2>5. final \in Terminal
    BY DEF Inv, TypeOK
  <2> QED
    BY <2>1, <2>2, <2>3, <2>4, <2>5 DEF Lifecycle!Ends
<1>15. CASE Persisted
  <2>1. /\ phase = "persisting" /\ manifest' = final
        /\ log' = log \o <<<<"artifacts_persisted">>, <<"run_terminal">>>>
    BY <1>15 DEF Persisted
  <2>2. Suite = "over" /\ Verdict
    BY <2>1 DEF Decided, Suite
  <2>3. Lifecycle!Deserved(final)
    BY <2>2, ShownAs DEF Verdict, Lifecycle!Deserved
  <2>4. final \in Lifecycle!Verdicts
    BY <1>14, <1>15 DEF Terminal, Lifecycle!Verdicts
  <2>5. Lifecycle!Conclude
    BY <1>14, <1>15, <2>1, <2>2, <2>3, <2>4, Zenon DEF Lifecycle!Conclude
  <2> QED
    BY <2>5, Zenon DEF Lifecycle!Next
<1>16. CASE Caught
  <2>1. /\ phase = "catching" /\ manifest' \in {manifest, final}
        /\ log' = Append(log, <<"run_terminal">>)
    BY <1>16 DEF Caught, Emit
  <2>2. final \in {"failed", "cancelled"} /\ (final = "cancelled" => aborted)
    BY <2>1 DEF Decided
  <2>3. manifest' \in {"none", final}
    BY <1>1, <2>1 DEF Gone
  <2>4. Lifecycle!GiveUp
    BY <1>14, <1>16, <2>1, <2>2, <2>3, Zenon DEF Lifecycle!GiveUp, Lifecycle!Told
  <2> QED
    BY <2>4, Zenon DEF Lifecycle!Next
<1> QED
  BY <1>4, <1>5, <1>6, <1>7, <1>8, <1>9, <1>10, <1>11, <1>12, <1>13, <1>15, <1>16 DEF Next

(* Every behaviour of a run, seen from outside, is one of the promised           *)
(* lifecycle: one execution of the suite, its results in their order, and one      *)
(* end with a deserved verdict that the evidence repeats (service.ts:164-295).     *)
THEOREM Implementation == Spec => ImplementsLifecycle
<1>1. Init => Lifecycle!Init /\ Inv /\ Decided
  <2>1. Init => Lifecycle!Init
    BY DEF Init, Lifecycle!Init, Seen, Suite, Stopped
  <2>2. Init => Decided
    BY DEF Init, Decided
  <2> QED
    BY <2>1, <2>2, InitInv
<1>2. Inv /\ Decided /\ [Next]_vars => Inv' /\ Decided'
  BY NextInv, DecidedStep
<1>3. Inv /\ Inv' /\ Decided /\ [Next]_vars => [Lifecycle!Next]_(Lifecycle!vars)
  BY StepSimulation
<1> QED
  BY <1>1, <1>2, <1>3, PTL DEF Spec, ImplementsLifecycle, Lifecycle!Spec
=============================================================================
