-------------------------- MODULE NovitaClient_proofs --------------------------
(***************************************************************************)
(* Theorems about NovitaClient, for every value of its constants.           *)
(***************************************************************************)
EXTENDS NovitaClient, FiniteSetTheorems, TLAPS

(***************************************************************************)
(* The inductive invariant. What a call has sent follows from how far it is *)
(* up the ladder. What it can still add to the breaker's failures is its      *)
(* budget: one for every attempt but the last, which may be refused and       *)
(* counts twice. No step adds more failures than it takes from the budgets,   *)
(* except that a new call brings its own; but a new call is let through only   *)
(* by a breaker that is not over its threshold.                                *)
(***************************************************************************)
BreakerTypes ==
    failures \in Nat /\ elapsed \in BOOLEAN /\ gauge = IF Tripped THEN 1 ELSE 0

CallTypes ==
    /\ at \in [Callers -> {"idle", "fetching", "backoff"}]
    /\ attempt \in [Callers -> 1..MaxRetries + 1]
    /\ mode \in [Callers -> {"schema", "object", "none"}]
    /\ aborted \in [Callers -> BOOLEAN]
    /\ exchanges \in [Callers -> 0..MaxRetries + 3]
    /\ trial \subseteq Callers

CallInv(c) ==
    /\ at[c] = "idle" => attempt[c] = 1 /\ mode[c] = "none" /\ exchanges[c] = 0
    /\ at[c] = "backoff" => attempt[c] <= MaxRetries
    /\ at[c] # "idle" =>
          exchanges[c] = IF mode[c] = "object" THEN attempt[c] + 1 ELSE attempt[c]

Budget ==
    [c \in Callers |->
        IF at[c] = "idle" THEN 0
        ELSE IF at[c] = "fetching" THEN MaxRetries + 3 - attempt[c]
        ELSE MaxRetries + 2 - attempt[c]]

\* The failures that calls with these budgets may record, counted one by one.
All == Callers \X (1..MaxRetries + 2)
Owed(budget) == {o \in All : o[2] <= budget[o[1]]}
Most == Cardinality(Callers) * (MaxRetries + 2)

Inv ==
    /\ BreakerTypes /\ CallTypes
    /\ \A c \in Callers : CallInv(c)
    /\ failures + Cardinality(Owed(Budget)) <= Threshold - 1 + Most

-----------------------------------------------------------------------------
(* Counting budgets.                                                          *)
LEMMA MostIsAll ==
    /\ IsFiniteSet(All) /\ Cardinality(All) = Most /\ Most \in Nat
<1>1. MaxRetries \in Nat /\ IsFiniteSet(Callers)
  BY NovitaConstants DEF NovitaConstants
<1>2. IsFiniteSet(1..MaxRetries + 2) /\ Cardinality(1..MaxRetries + 2) = MaxRetries + 2
  BY <1>1, FS_Interval
<1>3. IsFiniteSet(All) /\ Cardinality(All) = Most
  BY <1>1, <1>2, FS_Product DEF All, Most
<1> QED
  BY <1>3, FS_CardinalityType

(* What calls may still record is finite, and bounded by all that callers *)
(* could record.                                                          *)
LEMMA OwedBounded ==
  ASSUME NEW budget
  PROVE  /\ IsFiniteSet(Owed(budget)) /\ Cardinality(Owed(budget)) \in 0..Most
<1>1. Owed(budget) \in SUBSET All
  BY DEF Owed
<1> QED
  BY <1>1, MostIsAll, FS_Subset, FS_CardinalityType

Budgets == [Callers -> 0..MaxRetries + 2]

(* A caller that is left with n less than it had owes n failures less.        *)
LEMMA Pays ==
  ASSUME NEW old \in Budgets, NEW new \in Budgets, NEW c \in Callers, NEW n \in {0, 1, 2},
         new[c] + n <= old[c], \A d \in Callers \ {c} : new[d] = old[d]
  PROVE  Cardinality(Owed(new)) + n <= Cardinality(Owed(old))
<1> DEFINE b == old[c]
           one == Owed(old) \ {<<c, b>>}
           two == one \ {<<c, b - 1>>}
<1>1. b \in Nat /\ b <= MaxRetries + 2 /\ MaxRetries \in Nat /\ new[c] \in Nat
  BY NovitaConstants DEF Budgets, NovitaConstants
<1>2. IsFiniteSet(Owed(old)) /\ Cardinality(Owed(old)) \in Nat
      /\ IsFiniteSet(Owed(new)) /\ Cardinality(Owed(new)) \in Nat
  BY OwedBounded
<1>3. Owed(new) \subseteq Owed(old)
  <2>1. \A d \in Callers : new[d] \in Nat /\ old[d] \in Nat /\ new[d] <= old[d]
    BY <1>1 DEF Budgets
  <2> QED
    BY <2>1 DEF Owed, All
<1>4. CASE n = 0
  BY <1>2, <1>3, <1>4, FS_Subset
<1>5. CASE n = 1
  <2>1. <<c, b>> \in Owed(old) /\ <<c, b>> \notin Owed(new)
    BY <1>1, <1>5 DEF Owed, All
  <2>2. IsFiniteSet(one) /\ Cardinality(one) = Cardinality(Owed(old)) - 1
    BY <1>2, <2>1, FS_RemoveElement
  <2>3. Owed(new) \in SUBSET one
    BY <1>3, <2>1
  <2>4. Cardinality(Owed(new)) <= Cardinality(one)
    BY <2>2, <2>3, FS_Subset
  <2> QED
    BY <1>2, <1>5, <2>2, <2>4
<1>6. CASE n = 2
  <2>1. /\ <<c, b>> \in Owed(old) /\ <<c, b>> \notin Owed(new)
        /\ <<c, b - 1>> \in Owed(old) /\ <<c, b - 1>> \notin Owed(new)
        /\ <<c, b - 1>> # <<c, b>>
    BY <1>1, <1>6 DEF Owed, All
  <2>2. IsFiniteSet(one) /\ Cardinality(one) = Cardinality(Owed(old)) - 1
    BY <1>2, <2>1, FS_RemoveElement
  <2>3. IsFiniteSet(two) /\ Cardinality(two) = Cardinality(one) - 1
    BY <2>1, <2>2, FS_RemoveElement
  <2>4. Owed(new) \in SUBSET two
    BY <1>3, <2>1
  <2>5. Cardinality(Owed(new)) <= Cardinality(two)
    BY <2>3, <2>4, FS_Subset
  <2> QED
    BY <1>2, <1>6, <2>2, <2>3, <2>5
<1> QED
  BY <1>4, <1>5, <1>6

(* Budgets are what the counting is about. *)
LEMMA BudgetType == CallTypes => Budget \in Budgets
<1> SUFFICES ASSUME CallTypes, NEW c \in Callers PROVE Budget[c] \in 0..MaxRetries + 2
  BY DEF Budgets, Budget
<1>1. MaxRetries \in Nat /\ attempt[c] \in 1..MaxRetries + 1
      /\ at[c] \in {"idle", "fetching", "backoff"}
  BY NovitaConstants DEF NovitaConstants, CallTypes
<1> QED
  BY <1>1 DEF Budget

-----------------------------------------------------------------------------
(* A step of one call, seen from the call: its ladder, and that it is alone.   *)

Alone(c) ==
    \A d \in Callers \ {c} :
        /\ at'[d] = at[d] /\ attempt'[d] = attempt[d] /\ mode'[d] = mode[d]
        /\ exchanges'[d] = exchanges[d]

Step(c) ==
    \/ Start(c) \/ Cancel(c) \/ Succeeds(c) \/ Downgraded(c) \/ Fails(c) \/ Refused(c)
    \/ BackoffEnds(c) \/ Rejected(c)

(* The range of what the invariant says of one call. *)
LEMMA Ladder ==
  ASSUME Inv, NEW c \in Callers
  PROVE  /\ MaxRetries \in Nat /\ attempt[c] \in 1..MaxRetries + 1
         /\ exchanges[c] \in 0..MaxRetries + 2
         /\ at[c] \in {"idle", "fetching", "backoff"}
<1>1. MaxRetries \in Nat /\ attempt[c] \in 1..MaxRetries + 1
      /\ at[c] \in {"idle", "fetching", "backoff"}
  BY NovitaConstants DEF NovitaConstants, Inv, BreakerTypes, CallTypes
<1>2. CallInv(c)
  BY DEF Inv
<1> QED
  BY <1>1, <1>2 DEF CallInv

(* A call that ends has no budget left. *)
LEMMA EndsStep ==
  ASSUME Inv, NEW c \in Callers, Ends(c), trial' \subseteq Callers
  PROVE  CallTypes' /\ CallInv(c)' /\ Alone(c) /\ Budget'[c] = 0
<1>1. MaxRetries \in Nat
  BY NovitaConstants DEF NovitaConstants
<1>2. CallTypes' /\ Alone(c)
  BY <1>1 DEF Ends, Inv, BreakerTypes, CallTypes, Alone
<1>3. at'[c] = "idle" /\ attempt'[c] = 1 /\ mode'[c] = "none" /\ exchanges'[c] = 0
  BY DEF Ends, Inv, BreakerTypes, CallTypes
<1> QED
  BY <1>2, <1>3 DEF CallInv, Budget

(* A new call starts on the first rung of its ladder. *)
LEMMA StartStep ==
  ASSUME Inv, NEW c \in Callers, Start(c)
  PROVE  CallTypes' /\ CallInv(c)' /\ Alone(c)
<1>1. MaxRetries \in Nat
  BY NovitaConstants DEF NovitaConstants
<1>2. PICK m \in {"schema", "none"} : mode' = [mode EXCEPT ![c] = m]
  BY DEF Start
<1>3. trial' \subseteq Callers
  BY DEF Start, Admit, Inv, BreakerTypes, CallTypes
<1>4. CallTypes' /\ Alone(c)
  BY <1>1, <1>2, <1>3 DEF Start, Inv, BreakerTypes, CallTypes, Alone
<1>5. at'[c] = "fetching" /\ attempt'[c] = 1 /\ mode'[c] = m /\ exchanges'[c] = 1
  BY <1>2 DEF Start, Inv, BreakerTypes, CallTypes
<1> QED
  BY <1>4, <1>5 DEF CallInv

(* A request is counted, and the counter is not at its cap. *)
LEMMA SendsOne ==
  ASSUME Inv, NEW c \in Callers, Sends(c)
  PROVE  exchanges' = [exchanges EXCEPT ![c] = exchanges[c] + 1]
<1>1. ~(exchanges[c] > MaxRetries + 2)
  BY Ladder
<1>2. (IF exchanges[c] > MaxRetries + 2 THEN exchanges[c] ELSE exchanges[c] + 1)
        = exchanges[c] + 1
  BY <1>1, Zenon
<1> QED
  BY <1>2, Zenon DEF Sends

(* A step that neither starts nor ends the call climbs the ladder at no cost,   *)
(* or for the one failure that it records.                                      *)
LEMMA ClimbStep ==
  ASSUME Inv, NEW c \in Callers, NEW n \in {0, 1},
         \/ n = 0 /\ (Cancel(c) \/ Downgraded(c) \/ BackoffEnds(c))
         \/ n = 1 /\ Fails(c) /\ Retries(c)
  PROVE  CallTypes' /\ CallInv(c)' /\ Alone(c) /\ Budget'[c] + n <= Budget[c]
<1>1. /\ MaxRetries \in Nat /\ attempt[c] \in 1..MaxRetries + 1
      /\ exchanges[c] \in 0..MaxRetries + 2
  BY Ladder
<1>2. CallInv(c) /\ CallTypes
  BY DEF Inv
<1>3. CASE n = 0 /\ Cancel(c)
  BY <1>1, <1>2, <1>3 DEF Cancel, CallTypes, CallInv, Alone, Budget, callVars
<1>4. CASE n = 0 /\ Downgraded(c)
  <2>1. /\ at'[c] = "fetching" /\ attempt'[c] = attempt[c] /\ mode'[c] = "object"
        /\ exchanges'[c] = exchanges[c] + 1
        /\ at[c] = "fetching" /\ mode[c] = "schema" /\ exchanges[c] = attempt[c]
    BY <1>1, <1>2, <1>4 DEF Downgraded, Sends, CallTypes, CallInv
  <2>2. exchanges' = [exchanges EXCEPT ![c] = exchanges[c] + 1]
    BY <1>4, SendsOne DEF Downgraded
  <2>3. CallTypes' /\ Alone(c)
    BY <1>1, <1>2, <1>4, <2>2 DEF Downgraded, CallTypes, Alone
  <2>4. Budget'[c] = Budget[c] /\ Budget[c] \in Int
    BY <1>1, <2>1 DEF Budget
  <2> QED
    BY <1>4, <2>1, <2>3, <2>4 DEF CallInv
<1>5. CASE n = 0 /\ BackoffEnds(c)
  <2>1. /\ at'[c] = "fetching" /\ attempt'[c] = attempt[c] + 1 /\ mode'[c] = mode[c]
        /\ exchanges'[c] = exchanges[c] + 1 /\ at[c] = "backoff" /\ attempt[c] <= MaxRetries
    BY <1>1, <1>2, <1>5 DEF BackoffEnds, Sends, CallTypes, CallInv
  <2>2. exchanges' = [exchanges EXCEPT ![c] = exchanges[c] + 1]
    BY <1>5, SendsOne DEF BackoffEnds
  <2>3. CallTypes' /\ Alone(c)
    BY <1>1, <1>2, <1>5, <2>1, <2>2 DEF BackoffEnds, CallTypes, Alone
  <2>4. Budget'[c] = Budget[c] /\ Budget[c] \in Int
    BY <1>1, <2>1 DEF Budget
  <2>5. CallInv(c)'
    BY <1>1, <1>2, <2>1 DEF CallInv
  <2> QED
    BY <1>5, <2>3, <2>4, <2>5
<1>6. CASE n = 1 /\ Fails(c) /\ Retries(c)
  <2>1. /\ at' = [at EXCEPT ![c] = "backoff"] /\ at[c] = "fetching" /\ attempt[c] <= MaxRetries
        /\ UNCHANGED <<attempt, mode, aborted, exchanges>> /\ trial' = {}
    BY <1>6 DEF Fails, Retries, RecordFailures
  <2>2. CallTypes' /\ Alone(c) /\ at'[c] = "backoff"
    BY <1>2, <2>1 DEF CallTypes, Alone
  <2>3. Budget'[c] + 1 = Budget[c] /\ Budget[c] \in Int
    BY <1>1, <2>1, <2>2 DEF Budget
  <2> QED
    BY <1>2, <1>6, <2>1, <2>2, <2>3 DEF CallInv
<1> QED
  BY <1>3, <1>4, <1>5, <1>6

(* The budgets pay for the failures that a step records.                        *)
LEMMA Paid ==
  ASSUME Inv, NEW c \in Callers, NEW n \in {0, 1, 2}, CallTypes', Alone(c),
         Budget'[c] + n <= Budget[c],
         failures' \in Nat, failures' <= failures + n
  PROVE  failures' + Cardinality(Owed(Budget')) <= Threshold - 1 + Most
<1>1. Budget \in Budgets
  BY BudgetType DEF Inv
<1>2. Budget' \in Budgets
  <2> SUFFICES ASSUME NEW d \in Callers PROVE Budget'[d] \in 0..MaxRetries + 2
    BY DEF Budgets, Budget
  <2>1. CASE d = c
    <3>1. Budget'[c] \in Int /\ Budget'[c] >= 0
      <4>1. MaxRetries \in Nat /\ attempt'[c] \in 1..MaxRetries + 1
        BY NovitaConstants DEF NovitaConstants, CallTypes
      <4> QED
        BY <4>1 DEF Budget
    <3>2. Budget[c] \in 0..MaxRetries + 2 /\ MaxRetries \in Nat
      BY <1>1, NovitaConstants DEF Budgets, NovitaConstants
    <3> QED
      BY <2>1, <3>1, <3>2
  <2>2. CASE d # c
    <3>1. Budget'[d] = Budget[d]
      BY <2>2 DEF Alone, Budget
    <3> QED
      BY <1>1, <3>1 DEF Budgets
  <2> QED
    BY <2>1, <2>2
<1>3. \A d \in Callers \ {c} : Budget'[d] = Budget[d]
  BY DEF Alone, Budget
<1>4. Cardinality(Owed(Budget')) + n <= Cardinality(Owed(Budget))
  BY <1>1, <1>2, <1>3, Pays
<1>5. /\ Cardinality(Owed(Budget')) \in Nat /\ Cardinality(Owed(Budget)) \in Nat
      /\ failures \in Nat /\ Threshold \in Nat /\ Most \in Nat
  BY OwedBounded, MostIsAll, NovitaConstants DEF NovitaConstants, Inv, BreakerTypes, CallTypes
<1>6. failures + Cardinality(Owed(Budget)) <= Threshold - 1 + Most
  BY DEF Inv
<1> QED
  BY <1>4, <1>5, <1>6

(* The breaker: what it records, and the gauge that says so.                    *)

(* Recorded failures move the gauge with the breaker and end the trial. *)
LEMMA RecordStep ==
  ASSUME Inv, NEW n \in {1, 2}, RecordFailures(n)
  PROVE  BreakerTypes' /\ failures' = failures + n /\ trial' = {}
<1>1. failures \in Nat /\ Threshold \in Nat
  BY NovitaConstants DEF NovitaConstants, Inv, BreakerTypes, CallTypes
<1>2. BreakerTypes
  BY DEF Inv
<1>3. failures' = failures + n /\ trial' = {}
  BY DEF RecordFailures
<1>4. CASE failures + n >= Threshold
  <2>1. failures' \in Nat /\ failures' >= Threshold
    BY <1>1, <1>3, <1>4
  <2>2. elapsed' = FALSE /\ gauge' = 1
    BY <1>4, Zenon DEF RecordFailures
  <2> QED
    BY <1>3, <2>1, <2>2 DEF BreakerTypes, Tripped
<1>5. CASE ~(failures + n >= Threshold)
  <2>1. ~(failures >= Threshold)
    BY <1>1, <1>5
  <2>2. failures' \in Nat /\ ~(failures' >= Threshold)
    BY <1>1, <1>3, <1>5
  <2>3. UNCHANGED <<elapsed, gauge>>
    BY <1>5, Zenon DEF RecordFailures
  <2> QED
    BY <1>2, <1>3, <2>1, <2>2, <2>3 DEF BreakerTypes, Tripped
<1> QED
  BY <1>3, <1>4, <1>5

(* Every step of a call keeps its ladder and spends what it records from *)
(* its budget.                                                           *)
LEMMA NextStep ==
  ASSUME Inv, NEW c \in Callers, Step(c)
  PROVE  /\ CallTypes' /\ CallInv(c)' /\ Alone(c) /\ BreakerTypes'
         /\ failures' + Cardinality(Owed(Budget')) <= Threshold - 1 + Most
<1>1. /\ failures \in Nat /\ Threshold \in Nat \ {0} /\ BreakerTypes
      /\ trial \subseteq Callers
  BY NovitaConstants DEF NovitaConstants, Inv, BreakerTypes, CallTypes, BreakerTypes
<1>2. Budget[c] \in 0..MaxRetries + 2 /\ MaxRetries \in Nat
  BY BudgetType, NovitaConstants DEF Inv, Budgets, NovitaConstants
<1>3. CASE Start(c)
  <2>1. CallTypes' /\ CallInv(c)' /\ Alone(c)
    BY <1>3, StartStep
  <2>2. BreakerTypes' /\ failures' <= Threshold - 1
    BY <1>1, <1>3 DEF Start, Admit, BreakerTypes, Tripped
  <2>3. Cardinality(Owed(Budget')) \in 0..Most /\ Most \in Nat
    BY OwedBounded, MostIsAll
  <2>4. failures' \in Nat
    BY <2>2 DEF BreakerTypes
  <2> QED
    BY <1>1, <2>1, <2>2, <2>3, <2>4
<1>4. CASE Cancel(c) \/ Downgraded(c) \/ BackoffEnds(c)
  <2>1. CallTypes' /\ CallInv(c)' /\ Alone(c) /\ Budget'[c] + 0 <= Budget[c]
    BY <1>4, ClimbStep
  <2>2. UNCHANGED breakerVars
    BY <1>4 DEF Cancel, Downgraded, BackoffEnds
  <2>3. BreakerTypes' /\ failures' = failures
    BY <1>1, <2>2 DEF BreakerTypes, Tripped, breakerVars
  <2> QED
    BY <1>1, <2>1, <2>3, Paid
<1>5. CASE Fails(c) /\ Retries(c)
  <2>1. CallTypes' /\ CallInv(c)' /\ Alone(c) /\ Budget'[c] + 1 <= Budget[c]
    BY <1>5, ClimbStep
  <2>2. BreakerTypes' /\ failures' = failures + 1
    BY <1>5, RecordStep DEF Fails
  <2> QED
    BY <1>1, <2>1, <2>2, Paid
<1>6. CASE Fails(c) /\ ~Retries(c)
  <2>1. BreakerTypes' /\ failures' = failures + 1 /\ trial' = {} /\ Ends(c)
    BY <1>6, RecordStep DEF Fails
  <2>2. CallTypes' /\ CallInv(c)' /\ Alone(c) /\ Budget'[c] = 0
    BY <2>1, EndsStep
  <2>3. Budget[c] >= 1
    BY <1>2, <1>6, Ladder DEF Fails, Budget
  <2> QED
    BY <1>1, <1>2, <2>1, <2>2, <2>3, Paid
<1>7. CASE Refused(c)
  <2>1. BreakerTypes' /\ failures' = failures + 2 /\ trial' = {} /\ Ends(c)
    BY <1>7, RecordStep DEF Refused
  <2>2. CallTypes' /\ CallInv(c)' /\ Alone(c) /\ Budget'[c] = 0
    BY <2>1, EndsStep
  <2>3. Budget[c] >= 2
    BY <1>2, <1>7, Ladder DEF Refused, Budget
  <2> QED
    BY <1>1, <1>2, <2>1, <2>2, <2>3, Paid
<1>8. CASE Succeeds(c) \/ Rejected(c)
  <2>1. Ends(c) /\ trial' \subseteq Callers
    BY <1>1, <1>8 DEF Succeeds, Rejected, RecordSuccess
  <2>2. CallTypes' /\ CallInv(c)' /\ Alone(c) /\ Budget'[c] = 0
    BY <2>1, EndsStep
  <2>3. BreakerTypes' /\ failures' \in {0, failures}
    BY <1>1, <1>8 DEF Succeeds, Rejected, RecordSuccess, BreakerTypes, Tripped, breakerVars
  <2> QED
    BY <1>1, <1>2, <2>2, <2>3, Paid
<1> QED
  BY <1>3, <1>4, <1>5, <1>6, <1>7, <1>8 DEF Step

(* The invariant holds at the start. *)
LEMMA InitInv == Init => Inv
<1> SUFFICES ASSUME Init PROVE Inv
  OBVIOUS
<1>1. MaxRetries \in Nat /\ Threshold \in Nat \ {0}
  BY NovitaConstants DEF NovitaConstants
<1>2. CallTypes /\ \A c \in Callers : CallInv(c)
  BY <1>1 DEF Init, CallTypes, CallInv
<1>3. BreakerTypes
  BY <1>1 DEF Init, BreakerTypes, Tripped
<1>4. failures + Cardinality(Owed(Budget)) <= Threshold - 1 + Most
  <2>1. failures = 0 /\ Cardinality(Owed(Budget)) \in 0..Most /\ Most \in Nat
    BY OwedBounded, MostIsAll DEF Init
  <2> QED
    BY <1>1, <2>1
<1> QED
  BY <1>2, <1>3, <1>4 DEF Inv

(* Every step keeps the invariant. *)
LEMMA NextInv == Inv /\ [Next]_vars => Inv'
<1> SUFFICES ASSUME Inv, [Next]_vars PROVE Inv'
  OBVIOUS
<1>1. ASSUME NEW c \in Callers, Step(c) PROVE Inv'
  <2>1. /\ CallTypes' /\ CallInv(c)' /\ Alone(c) /\ BreakerTypes'
        /\ failures' + Cardinality(Owed(Budget')) <= Threshold - 1 + Most
    BY <1>1, NextStep
  <2>2. ASSUME NEW d \in Callers PROVE CallInv(d)'
    BY <2>1 DEF Alone, CallInv, Inv
  <2> QED
    BY <2>1, <2>2 DEF Inv
<1>2. CASE UNCHANGED vars \/ ResetElapses
  <2>1. UNCHANGED <<failures, gauge, callVars, trial>> /\ elapsed' \in BOOLEAN
    BY <1>2 DEF vars, breakerVars, ResetElapses, Inv, BreakerTypes, CallTypes
  <2>2. Budget' = Budget
    BY <2>1 DEF callVars, Budget
  <2> QED
    BY <2>1, <2>2 DEF Inv, BreakerTypes, CallTypes, CallInv, callVars, Tripped, Owed
<1> QED
  BY <1>1, <1>2 DEF Next, Step

(* The inductive invariant holds at every state.                              *)
THEOREM Invariance == Spec => []Inv
  BY InitInv, NextInv, PTL DEF Spec

(* The failures that the breaker counts never exceed what calls admitted        *)
(* before it opened could still report, and the exported gauge says at every     *)
(* time whether it is over its threshold (novita.ts:90-112).                     *)
THEOREM TypeCorrect == Spec => []TypeOK
<1>1. Inv => TypeOK
  <2> SUFFICES ASSUME Inv PROVE failures \in 0..(Threshold - 1 + Most)
    BY DEF Inv, BreakerTypes, CallTypes, TypeOK, Most
  <2>1. /\ failures \in Nat /\ Cardinality(Owed(Budget)) \in Nat
        /\ Threshold \in Nat /\ Most \in Nat
    BY OwedBounded, MostIsAll, NovitaConstants DEF NovitaConstants, Inv, BreakerTypes
  <2> QED
    BY <2>1 DEF Inv
<1> QED
  BY <1>1, Invariance, PTL

(* A call never sends more than one request beyond its ladder of attempts        *)
(* (novita.ts:188, 211-227).                                                     *)
THEOREM Bounded == Spec => []ExchangesBounded
<1>1. Inv => ExchangesBounded
  <2> SUFFICES ASSUME Inv, NEW c \in Callers PROVE exchanges[c] <= MaxRetries + 2
    BY DEF ExchangesBounded
  <2> QED
    BY Ladder
<1> QED
  BY <1>1, Invariance, PTL

(* A cancelled call only ends, and the breaker does not hear of it               *)
(* (novita.ts:289-291, 59-75).                                                   *)
THEOREM CancelledCallsOnlyEnd == Spec => CancelledCallsStop
<1>1. ASSUME Inv, [Next]_vars, NEW c \in Callers, aborted[c], at[c] # "idle",
             at'[c] # at[c] \/ exchanges'[c] # exchanges[c]
      PROVE  at'[c] = "idle" /\ UNCHANGED breakerVars
  <2>1. PICK d \in Callers : Step(d)
    BY <1>1 DEF Next, Step, ResetElapses, vars, callVars
  <2>2. d = c
    BY <1>1, <2>1, NextStep DEF Alone
  <2>3. Rejected(c) \/ Cancel(c)
    BY <1>1, <2>1, <2>2 DEF Step, Start, Succeeds, Downgraded, Fails, Refused, BackoffEnds
  <2>4. Rejected(c)
    BY <1>1, <2>3 DEF Cancel
  <2> QED
    BY <1>1, <2>4 DEF Rejected, Ends, Inv, BreakerTypes, CallTypes
<1>2. Inv /\ [Next]_vars =>
        [\A c \in Callers :
            aborted[c] /\ at[c] # "idle" /\ (at'[c] # at[c] \/ exchanges'[c] # exchanges[c])
                => at'[c] = "idle" /\ UNCHANGED breakerVars]_vars
  BY <1>1
<1> QED
  BY <1>2, Invariance, PTL DEF Spec, CancelledCallsStop
=============================================================================
