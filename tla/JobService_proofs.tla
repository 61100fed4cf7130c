-------------------------- MODULE JobService_proofs --------------------------
(***************************************************************************)
(* Theorems about JobService, for every value of its constants, and in the  *)
(* end that its steps implement those of JobLifecycle.                      *)
(***************************************************************************)
EXTENDS JobService, FiniteSetTheorems, FunctionTheorems, TLAPS

(***************************************************************************)
(* The inductive invariant. No property of JobService is inductive by       *)
(* itself: what a finished job shows was decided before its flush, and it   *)
(* stays right because no runner is left that could push a case and no file *)
(* of the flush is missing.                                                  *)
(***************************************************************************)
AllIdle == \A r \in Runners : ~Busy(r)

\* Before the submission nothing has happened.
Fresh ==
    phase = "idle" =>
        /\ status = "queued" /\ ~aborted /\ items = {} /\ pass = 0
        /\ cases = {} /\ report = {} /\ AllIdle
        /\ \A f \in Files : disk[f] = "incomplete"

\* No terminal status and no write exist while the pool runs.
Working ==
    phase \in {"idle", "pass"} =>
        status \notin Finals /\ writing = {} /\ ~flushFailed

\* The outcome fits the cases, and nothing more could be tried.
Decided ==
    IF final = "failed" THEN cases = {}
    ELSE /\ report = cases /\ cases # {}
         /\ (final = "completed") <=> (items \subseteq UNION cases)
Exhausted ==
    items \subseteq UNION cases \/ aborted \/ pass = MaxGlobalRepairRounds

\* During the flush the outcome is decided and hidden, and what is not in
\* flight is on disk.
Flushing ==
    phase \in {"mkdir", "flush"} =>
        /\ status \notin Finals /\ Decided /\ Exhausted /\ AllIdle
        /\ ~flushFailed
        /\ phase = "mkdir" => writing = {}
        /\ phase = "flush" => \A f \in Files \ writing : disk[f] = final

\* A visible verdict is the decided one, and it is on disk.
Concluded ==
    status \in Finals =>
        /\ phase \in {"over", "gone"} /\ status = final
        /\ Decided /\ Exhausted /\ AllIdle
        /\ ~flushFailed => \A f \in Files : disk[f] = final

Inv == TypeOK /\ Fresh /\ Working /\ Flushing /\ Concluded

(***************************************************************************)
(* The invariant of the pool. Units leave the count only when a cancelled   *)
(* job drops them, and no unit is empty, so that a runner that has taken one *)
(* is busy and the unit is counted with it.                                  *)
(***************************************************************************)
BusyIn(un) == {r \in Runners : un[r] # {}}
InPlay == Cardinality(BusyIn(unit)) + Cardinality(pending)

Counted ==
    /\ {} \notin pending
    /\ completedUnits + InPlay <= totalUnits
    /\ phase = "pass" /\ ~aborted => completedUnits + InPlay = totalUnits
    /\ phase = "idle" => completedUnits = 0 /\ totalUnits = 0 /\ pending = {}

PoolInv == Inv /\ Counted /\ SevereFirst

(* Units are sets of the planned items, and there are finitely many.        *)
LEMMA PlanTypes ==
  ASSUME JobConstants, NEW S \in SUBSET Items
  PROVE  Plan(S) \subseteq SUBSET S /\ Cardinality(Plan(S)) \in Nat
<1>1. Plan(S) \in SUBSET SUBSET S
  BY DEF Plan, UnitOf
<1>2. IsFiniteSet(S)
  BY FS_Subset DEF JobConstants
<1>3. IsFiniteSet(SUBSET S)
  BY <1>2, FS_SUBSET
<1>4. IsFiniteSet(Plan(S))
  BY <1>1, <1>3, FS_Subset
<1> QED
  BY <1>1, <1>4, FS_CardinalityType

(* A pool started on units over S hands out only these.                     *)
LEMMA StartPoolTypes ==
  ASSUME JobConstants, NEW S, NEW U \in SUBSET SUBSET S, StartPool(U)
  PROVE  /\ unit' \in [Runners -> SUBSET S] /\ pending' \subseteq SUBSET S
         /\ round' \in [Runners -> 0..MaxRepairRounds]
         /\ got' \in [Runners -> SUBSET S]
<1>1. PICK a \in Dispatch(U) : unit' = a /\ pending' = U \ {a[r] : r \in Runners}
  BY DEF StartPool
<1>2. a \in [Runners -> U \cup {{}}]
  BY <1>1 DEF Dispatch
<1>3. U \cup {{}} \subseteq SUBSET S
  OBVIOUS
<1>4. unit' \in [Runners -> SUBSET S]
  BY <1>1, <1>2, <1>3
<1>5. round' \in [Runners -> 0..MaxRepairRounds] /\ got' \in [Runners -> SUBSET S]
  BY DEF StartPool, JobConstants
<1> QED
  BY <1>1, <1>4, <1>5

(* What a runner that leaves a unit does keeps the types, whichever of the  *)
(* three ways out it takes.                                                  *)
LEMMA UnitOverTypes ==
  ASSUME JobConstants, TypeOK, NEW r \in Runners, NEW new \in SUBSET SUBSET items,
         UnitOver(r, new)
  PROVE  TypeOK'
<1> DEFINE cs == cases \cup new
<1>1. /\ cases' = cs /\ completedUnits' = completedUnits + 1
      /\ UNCHANGED <<items, status, aborted, writing, disk, flushFailed>>
  BY DEF UnitOver, diskVars
<1>2. cs \subseteq SUBSET items
  BY DEF TypeOK
<1>3. ASSUME TakeUnit(r) PROVE TypeOK'
  <2>1. PICK u \in pending : unit' = [unit EXCEPT ![r] = u] /\ pending' = pending \ {u}
    BY <1>3 DEF TakeUnit, First
  <2>2. unit' \in [Runners -> SUBSET items]
    BY <2>1 DEF TypeOK
  <2>3. round' \in [Runners -> 0..MaxRepairRounds] /\ got' \in [Runners -> SUBSET items]
    BY <1>3 DEF TakeUnit, TypeOK, JobConstants
  <2>4. pending' \subseteq SUBSET items
    BY <2>1 DEF TypeOK
  <2>5. UNCHANGED <<phase, pass, totalUnits, report, final, error>>
    BY <1>3 DEF TakeUnit
  <2> HIDE DEF cs
  <2> QED
    BY <1>1, <1>2, <2>2, <2>3, <2>4, <2>5 DEF TypeOK
<1>4. ASSUME ThrowCancelled(r) PROVE TypeOK'
  <2>1. pending' \subseteq SUBSET items /\ unit' \in [Runners -> SUBSET items]
    BY <1>4 DEF ThrowCancelled, TypeOK
  <2>2. phase' = "over" /\ UNCHANGED <<pass, round, got, totalUnits, report, final, error>>
    BY <1>4 DEF ThrowCancelled
  <2> HIDE DEF cs
  <2> QED
    BY <1>1, <1>2, <2>1, <2>2 DEF TypeOK
<1>5. ASSUME Stop(r, cs) PROVE TypeOK'
  <2>1. CASE RepairPass(cs)
    <3> DEFINE U == Plan(Uncovered(cs))
    <3>1. Uncovered(cs) \in SUBSET Items /\ Uncovered(cs) \subseteq items
      BY DEF Uncovered, TypeOK
    <3>2. U \subseteq SUBSET items /\ Cardinality(U) \in Nat
      BY <3>1, PlanTypes
    <3>3. StartPool(U) /\ totalUnits' = totalUnits + Cardinality(U) /\ pass' = pass + 1
          /\ UNCHANGED <<phase, report, final, error>> /\ pass < MaxGlobalRepairRounds
      BY <2>1 DEF RepairPass, RepairsLeft
    <3>4. /\ unit' \in [Runners -> SUBSET items] /\ pending' \subseteq SUBSET items
          /\ round' \in [Runners -> 0..MaxRepairRounds]
          /\ got' \in [Runners -> SUBSET items]
      BY <3>2, <3>3, StartPoolTypes
    <3>5. pass' \in 0..MaxGlobalRepairRounds /\ totalUnits' \in Nat
      BY <3>2, <3>3 DEF TypeOK, JobConstants
    <3> HIDE DEF U, cs
    <3> QED
      BY <1>1, <1>2, <3>3, <3>4, <3>5 DEF TypeOK
  <2>2. CASE Finish(cs)
    <3> HIDE DEF cs
    <3>1. unit' \in [Runners -> SUBSET items] /\ pending' \subseteq SUBSET items
          /\ UNCHANGED <<pass, round, got, totalUnits>>
      BY <2>2 DEF Finish
    <3>2. report' \subseteq SUBSET items /\ phase' \in {"mkdir", "over"}
      BY <1>2, <2>2 DEF Finish, TypeOK
    <3>3. final' \in Finals /\ error' \in {"none", "cancelled", "failed"}
      BY <2>2 DEF Finish, TypeOK, Verdict, Finals
    <3> QED
      BY <1>1, <1>2, <3>1, <3>2, <3>3 DEF TypeOK
  <2>3. CASE /\ unit' = [unit EXCEPT ![r] = {}] /\ pending' = {}
             /\ UNCHANGED <<phase, pass, round, got, totalUnits, report, final, error>>
    BY <1>1, <1>2, <2>3 DEF TypeOK
  <2> QED
    BY <1>5, <2>1, <2>2, <2>3 DEF Stop
<1> QED
  BY <1>3, <1>4, <1>5 DEF UnitOver

(* A runner that leaves a unit keeps the invariant: its cases come before   *)
(* the verdict, and only the last runner of the last pass starts the flush.  *)
LEMMA UnitOverInv ==
  ASSUME JobConstants, Inv, NEW r \in Runners, NEW new \in SUBSET SUBSET items,
         Busy(r), UnitOver(r, new)
  PROVE  Inv'
<1> DEFINE cs == cases \cup new
<1>1. TypeOK'
  BY UnitOverTypes DEF Inv
<1>2. /\ cases' = cs
      /\ UNCHANGED <<items, status, aborted, writing, disk, flushFailed>>
  BY DEF UnitOver, diskVars
<1>3. phase \in {"pass", "over", "gone"} /\ status \notin Finals
  <2>1. ~AllIdle
    BY DEF AllIdle
  <2> QED
    BY <2>1 DEF Inv, TypeOK, Fresh, Flushing, Concluded
<1>4. phase = "pass" => writing = {} /\ ~flushFailed
  BY DEF Inv, Working
<1>5. \/ phase' \in {"pass", "over", "gone"} /\ (phase' = "pass" => phase = "pass")
      \/ phase = "pass" /\ Finish(cs)
  <2>1. CASE TakeUnit(r)
    BY <1>3, <2>1 DEF TakeUnit
  <2>2. CASE ThrowCancelled(r)
    BY <2>2 DEF ThrowCancelled
  <2>3. CASE Stop(r, cs)
    BY <1>3, <2>3 DEF Stop, RepairPass
  <2> QED
    BY <2>1, <2>2, <2>3 DEF UnitOver
<1>6. CASE phase' \in {"pass", "over", "gone"} /\ (phase' = "pass" => phase = "pass")
  BY <1>1, <1>2, <1>3, <1>4, <1>6 DEF Inv, Fresh, Working, Flushing, Concluded
<1>7. CASE phase = "pass" /\ Finish(cs)
  <2> HIDE DEF cs
  <2>1. /\ AllIdle' /\ pass' = pass
        /\ pass = MaxGlobalRepairRounds \/ aborted \/ items \subseteq UNION cs
    <3>1. AllIdle' /\ pass' = pass
      BY <1>7 DEF Finish, AllIdle, Busy
    <3>2. ~RepairsLeft => pass = MaxGlobalRepairRounds
      BY DEF RepairsLeft, Inv, TypeOK, JobConstants
    <3>3. Uncovered(cs) = {} => items \subseteq UNION cs
      BY DEF Uncovered, Covered
    <3> QED
      BY <1>7, <3>1, <3>2, <3>3 DEF Finish
  <2>2. \/ phase' = "over"
        \/ phase' = "mkdir" /\ Decided'
    <3>1. CASE cs # {}
      <4>1. phase' = "mkdir" /\ report' = cs /\ final' = Verdict(cs)
        BY <1>7, <3>1 DEF Finish
      <4>2. (Verdict(cs) = "completed") <=> (items \subseteq UNION cs)
        BY DEF Verdict, Uncovered, Covered
      <4>3. Verdict(cs) # "failed"
        BY DEF Verdict
      <4> QED
        BY <1>2, <3>1, <4>1, <4>2, <4>3 DEF Decided
    <3>2. CASE cs = {}
      BY <1>2, <1>7, <3>2 DEF Finish, Decided
    <3> QED
      BY <3>1, <3>2
  <2>3. Exhausted'
    BY <1>2, <2>1 DEF Exhausted
  <2> QED
    BY <1>1, <1>2, <1>3, <1>4, <1>7, <2>1, <2>2, <2>3
       DEF Inv, Fresh, Working, Flushing, Concluded
<1> QED
  BY <1>5, <1>6, <1>7

(* The invariant holds at the start. *)
LEMMA InitInv == JobConstants /\ Init => Inv
<1> SUFFICES ASSUME JobConstants, Init PROVE Inv
  OBVIOUS
<1>1. TypeOK
  <2>1. disk \in [Files -> {"incomplete"} \cup Finals] /\ final \in Finals
    BY DEF Init, Finals
  <2>2. unit \in [Runners -> SUBSET items] /\ got \in [Runners -> SUBSET items]
    BY DEF Init
  <2>3. round \in [Runners -> 0..MaxRepairRounds] /\ pass \in 0..MaxGlobalRepairRounds
    BY DEF Init, JobConstants
  <2> QED
    BY <2>1, <2>2, <2>3 DEF Init, TypeOK
<1>2. Fresh /\ Working /\ Flushing /\ Concluded
  BY DEF Init, Fresh, Working, Flushing, Concluded, AllIdle, Busy, Finals
<1> QED
  BY <1>1, <1>2 DEF Inv

(* The submission plans the items and starts the pool with nothing decided. *)
LEMMA SubmitInv ==
  ASSUME JobConstants, Inv, NEW S \in SUBSET Items, Submit(S)
  PROVE  Inv'
<1>1. Plan(S) \in SUBSET SUBSET S /\ Cardinality(Plan(S)) \in Nat
  BY PlanTypes
<1>2. /\ unit' \in [Runners -> SUBSET S] /\ pending' \subseteq SUBSET S
      /\ round' \in [Runners -> 0..MaxRepairRounds]
      /\ got' \in [Runners -> SUBSET S]
  BY <1>1, StartPoolTypes DEF Submit
<1>3. /\ phase = "idle" /\ items' = S /\ totalUnits' = Cardinality(Plan(S))
      /\ status' = "generating" /\ phase' = "pass"
      /\ UNCHANGED <<error, aborted, pass, cases, completedUnits, report, final>>
      /\ UNCHANGED <<writing, disk, flushFailed>>
  BY DEF Submit, diskVars
<1>4. cases = {} /\ report = {}
  BY <1>3 DEF Inv, Fresh
<1>5. TypeOK'
  BY <1>1, <1>2, <1>3, <1>4 DEF Inv, TypeOK, Terminal
<1> QED
  BY <1>3, <1>5 DEF Inv, Fresh, Working, Flushing, Concluded, Finals

(* The steps of the flush.                                                  *)
LEMMA FlushInv ==
  ASSUME JobConstants, Inv,
         \/ MkdirDone \/ MkdirFails
         \/ \E f \in Files : FileWritten(f) \/ FileFails(f)
  PROVE  Inv'
<1>1. UNCHANGED <<workVars, error, aborted, report, final>>
  BY DEF MkdirDone, MkdirFails, FileWritten, FileFails
<1>2. /\ TypeOK /\ UNCHANGED <<items, pass, pending, unit, round, got, cases,
                               totalUnits, completedUnits>>
  BY <1>1 DEF Inv, workVars
<1>3. AllIdle' = AllIdle /\ Decided' = Decided /\ Exhausted' = Exhausted
  BY <1>1, <1>2 DEF AllIdle, Busy, Decided, Exhausted
<1>4. CASE MkdirDone
  <2>1. /\ phase = "mkdir" /\ phase' = "flush" /\ writing' = Files
        /\ UNCHANGED <<status, disk, flushFailed>>
    BY <1>4 DEF MkdirDone
  <2>2. TypeOK'
    BY <1>1, <1>2, <2>1 DEF TypeOK
  <2> QED
    BY <1>3, <2>1, <2>2 DEF Inv, Fresh, Working, Flushing, Concluded
<1>5. CASE MkdirFails
  <2>1. /\ phase = "mkdir" /\ phase' = "over" /\ status' = final /\ flushFailed'
        /\ flushFailed' \in BOOLEAN
        /\ UNCHANGED <<writing, disk>>
    BY <1>5 DEF MkdirFails, Conclude
  <2>2. TypeOK'
    BY <1>1, <1>2, <2>1 DEF TypeOK, Terminal
  <2> QED
    BY <1>1, <1>3, <2>1, <2>2 DEF Inv, Fresh, Working, Flushing, Concluded
<1>6. ASSUME NEW f \in Files, FileWritten(f) PROVE Inv'
  <2>1. /\ f \in writing /\ writing' = writing \ {f}
        /\ disk' = [disk EXCEPT ![f] = final] /\ flushFailed' = flushFailed
    BY <1>6 DEF FileWritten
  <2>2. TypeOK'
    <3>1. disk' \in [Files -> {"incomplete"} \cup Finals]
      BY <1>2, <2>1 DEF TypeOK
    <3>2. status' \in Terminal \cup {"queued", "analyzing", "generating"}
          /\ phase' \in {"idle", "pass", "mkdir", "flush", "over", "gone"}
      BY <1>2, <1>6 DEF FileWritten, Conclude, TypeOK, Terminal
    <3> QED
      BY <1>1, <1>2, <2>1, <3>1, <3>2 DEF TypeOK
  <2>3. \A g \in Files : disk'[g] = IF g = f THEN final ELSE disk[g]
    BY <1>2, <2>1 DEF TypeOK
  <2>4. CASE phase = "flush" /\ writing = {f}
    <3>1. status' = final /\ phase' = "over"
      BY <1>6, <2>4 DEF FileWritten, Conclude
    <3>2. \A g \in Files : disk'[g] = final
      BY <2>3, <2>4 DEF Inv, Flushing
    <3> QED
      BY <1>1, <1>3, <2>2, <2>4, <3>1, <3>2 DEF Inv, Fresh, Working, Flushing, Concluded
  <2>5. CASE ~(phase = "flush" /\ writing = {f})
    <3>1. UNCHANGED <<status, phase>>
      BY <1>6, <2>5 DEF FileWritten
    <3>2. phase \notin {"idle", "pass", "mkdir"}
      BY <2>1 DEF Inv, Working, Flushing
    <3> QED
      BY <1>1, <1>3, <2>1, <2>2, <2>3, <3>1, <3>2
         DEF Inv, Fresh, Working, Flushing, Concluded
  <2> QED
    BY <2>4, <2>5
<1>7. ASSUME NEW f \in Files, FileFails(f) PROVE Inv'
  <2>1. /\ f \in writing /\ writing' = writing \ {f} /\ disk' = disk
        /\ flushFailed' /\ flushFailed' \in BOOLEAN
    BY <1>7 DEF FileFails
  <2>2. \/ phase = "flush" /\ status' = final /\ phase' = "over"
        \/ phase # "flush" /\ UNCHANGED <<status, phase>>
    BY <1>7 DEF FileFails, Conclude
  <2>3. TypeOK'
    <3>1. status' \in Terminal \cup {"queued", "analyzing", "generating"}
          /\ phase' \in {"idle", "pass", "mkdir", "flush", "over", "gone"}
      BY <1>2, <2>2 DEF TypeOK, Terminal
    <3> QED
      BY <1>1, <1>2, <2>1, <3>1 DEF TypeOK
  <2>4. phase \notin {"idle", "pass", "mkdir"}
    BY <2>1 DEF Inv, Working, Flushing
  <2> QED
    BY <1>1, <1>3, <2>1, <2>2, <2>3, <2>4 DEF Inv, Fresh, Working, Flushing, Concluded
<1> QED
  BY <1>4, <1>5, <1>6, <1>7

(* Every step keeps the invariant. *)
LEMMA NextInv == JobConstants /\ Inv /\ [Next]_vars => Inv'
<1> SUFFICES ASSUME JobConstants, Inv, [Next]_vars PROVE Inv'
  OBVIOUS
<1>1. ASSUME NEW S \in SUBSET Items, Submit(S) PROVE Inv'
  BY <1>1, SubmitInv
<1>2. CASE SubmitNothing
  <2>1. /\ phase = "idle" /\ status' = "analyzing" /\ error' = "failed"
        /\ phase' = "mkdir" /\ final' = "failed"
        /\ UNCHANGED <<items, pass, pending, unit, round, got, cases, totalUnits,
                      completedUnits, aborted, report, writing, disk, flushFailed>>
    BY <1>2 DEF SubmitNothing, workVars, diskVars
  <2>2. TypeOK'
    <3>1. final' \in Finals
      BY <2>1 DEF Finals
    <3> QED
      BY <2>1, <3>1 DEF Inv, TypeOK
  <2>3. AllIdle' /\ Decided' /\ Exhausted'
    BY <2>1 DEF Inv, Fresh, AllIdle, Busy, Decided, Exhausted
  <2> QED
    BY <2>1, <2>2, <2>3 DEF Inv, Fresh, Working, Flushing, Concluded, Finals
<1>3. ASSUME NEW r \in Runners, Reply(r) PROVE Inv'
  <2>1. PICK C \in SUBSET unit[r] :
          LET now == got[r] \cup C
          IN  IF AsksAgain(r, now)
              THEN /\ got' = [got EXCEPT ![r] = now]
                   /\ round' = [round EXCEPT ![r] = @ + 1]
                   /\ UNCHANGED <<items, pass, pending, unit, cases, totalUnits,
                                  completedUnits, status, error, aborted, phase,
                                  report, final, diskVars>>
              ELSE UnitOver(r, {now})
    BY <1>3 DEF Reply
  <2> DEFINE now == got[r] \cup C
  <2>2. now \in SUBSET items
    BY DEF Inv, TypeOK
  <2>3. CASE AsksAgain(r, now)
    <3> HIDE DEF now
    <3>1. got' = [got EXCEPT ![r] = now] /\ round' = [round EXCEPT ![r] = @ + 1]
      BY <2>1, <2>3 DEF now
    <3>2. /\ UNCHANGED <<items, pass, pending, unit, cases, totalUnits, completedUnits>>
          /\ UNCHANGED <<status, error, aborted, phase, report, final>>
          /\ UNCHANGED <<writing, disk, flushFailed>>
      BY <2>1, <2>3 DEF now, diskVars
    <3>3. round' \in [Runners -> 0..MaxRepairRounds] /\ got' \in [Runners -> SUBSET items]
      BY <2>2, <2>3, <3>1 DEF AsksAgain, Inv, TypeOK, JobConstants
    <3>4. TypeOK'
      BY <3>2, <3>3 DEF Inv, TypeOK
    <3> QED
      BY <3>2, <3>4 DEF Inv, Fresh, Working, Flushing, Concluded, Decided, Exhausted,
                        AllIdle, Busy
  <2>4. CASE ~AsksAgain(r, now)
    <3>1. UnitOver(r, {now})
      BY <2>1, <2>4
    <3>2. Busy(r)
      BY <1>3 DEF Reply
    <3> QED
      BY <2>2, <3>1, <3>2, UnitOverInv
  <2> QED
    BY <2>3, <2>4
<1>4. ASSUME NEW r \in Runners PROVE Kept(r) \in SUBSET SUBSET items
  BY DEF Kept, Inv, TypeOK
<1>5. ASSUME NEW r \in Runners, CallFails(r) PROVE Inv'
  BY <1>4, <1>5, UnitOverInv DEF CallFails
<1>6. ASSUME NEW r \in Runners, CallAborted(r) PROVE Inv'
  <2>1. CASE round[r] = 0
    <3>1. /\ Busy(r) /\ unit' = [unit EXCEPT ![r] = {}]
          /\ completedUnits' = completedUnits + 1 /\ phase' = "over"
          /\ UNCHANGED <<items, pass, pending, round, got, cases, totalUnits>>
          /\ UNCHANGED <<status, error, aborted, report, final>>
          /\ UNCHANGED <<writing, disk, flushFailed>>
      BY <1>6, <2>1 DEF CallAborted, diskVars
    <3>2. ~AllIdle
      BY <3>1 DEF AllIdle
    <3>3. status \notin Finals
      BY <3>2 DEF Inv, Concluded
    <3>4. TypeOK'
      BY <3>1 DEF Inv, TypeOK
    <3> QED
      BY <3>1, <3>3, <3>4 DEF Inv, Fresh, Working, Flushing, Concluded
  <2>2. CASE round[r] # 0
    BY <1>4, <1>6, <2>2, UnitOverInv DEF CallAborted
  <2> QED
    BY <2>1, <2>2
<1>7. CASE MkdirDone \/ MkdirFails
  BY <1>7, FlushInv
<1>8. ASSUME NEW f \in Files, FileWritten(f) \/ FileFails(f) PROVE Inv'
  BY <1>8, FlushInv
<1>9. CASE Cancel
  <2>1. /\ phase # "idle" /\ status \notin Terminal
        /\ aborted' = TRUE /\ status' = "cancelled" /\ error' = "cancelled"
        /\ UNCHANGED <<items, pass, pending, unit, round, got, cases, totalUnits,
                      completedUnits, phase, report, final, writing, disk, flushFailed>>
    BY <1>9 DEF Cancel, workVars, diskVars
  <2>2. TypeOK'
    BY <2>1 DEF Inv, TypeOK, Terminal
  <2>3. AllIdle' = AllIdle /\ Decided' = Decided /\ Exhausted'
    BY <2>1 DEF AllIdle, Busy, Decided, Exhausted
  <2> QED
    BY <2>1, <2>2, <2>3 DEF Inv, Fresh, Working, Flushing, Concluded, Finals
<1>10. CASE Crash
  <2>1. /\ phase' = "gone" /\ unit' = [r \in Runners |-> {}]
        /\ pending' = {} /\ writing' = {}
        /\ UNCHANGED <<items, pass, round, got, cases, totalUnits, completedUnits>>
        /\ UNCHANGED <<status, error, aborted, report, final, disk, flushFailed>>
    BY <1>10 DEF Crash
  <2>2. TypeOK'
    BY <2>1 DEF Inv, TypeOK
  <2>3. AllIdle' /\ Decided' = Decided /\ Exhausted' = Exhausted
    BY <2>1 DEF AllIdle, Busy, Decided, Exhausted
  <2> QED
    BY <2>1, <2>2, <2>3 DEF Inv, Fresh, Working, Flushing, Concluded
<1>11. CASE UNCHANGED vars
  BY <1>11 DEF vars, workVars, diskVars, Inv, TypeOK, Fresh, Working, Flushing,
               Concluded, Decided, Exhausted, AllIdle, Busy
<1>12. CASE Rest
  BY <1>11, <1>12 DEF Rest
<1> QED
  BY <1>1, <1>2, <1>3, <1>5, <1>6, <1>7, <1>8, <1>9, <1>10, <1>11, <1>12 DEF Next

(***************************************************************************)
(* The theorems.                                                           *)
(***************************************************************************)
(* The inductive invariant holds in every reachable state. *)
THEOREM Invariance == Spec => []Inv
<1>1. Init => Inv
  BY JobConstants, InitInv
<1>2. Inv /\ [Next]_vars => Inv'
  BY JobConstants, NextInv
<1> QED
  BY <1>1, <1>2, PTL DEF Spec

(* Every variable keeps its type: the repair rounds and passes their bounds. *)
THEOREM TypeCorrect == Spec => []TypeOK
<1>1. Inv => TypeOK
  BY DEF Inv
<1> QED
  BY <1>1, Invariance, PTL

(* A failed job has no test case it could have kept; a job is "completed"     *)
(* exactly if its final cases cover every item of its documents, and its      *)
(* report is that of these cases (service.ts:222-235).                        *)
THEOREM Honesty == Spec => []VerdictIsHonest
<1>1. Inv => VerdictIsHonest
  BY DEF Inv, Concluded, Decided, VerdictIsHonest, Finals
<1> QED
  BY <1>1, Invariance, PTL

(* A verdict that a client sees is on disk in all artifact files, unless the *)
(* flush failed, however cancellations, failing writes and the loss of the   *)
(* process interleave (service.ts:238-242).                                  *)
THEOREM Durability == Spec => []FlushedBeforeVisible
<1>1. Inv => FlushedBeforeVisible
  BY DEF Inv, Concluded, FlushedBeforeVisible
<1> QED
  BY <1>1, Invariance, PTL

(* Gaps are final only after the last repair pass or a cancellation          *)
(* (service.ts:173-179).                                                     *)
THEOREM RepairsExhausted == Spec => []GivesUpOnlyAtTheLimit
<1>1. Inv => GivesUpOnlyAtTheLimit
  BY DEF Inv, Concluded, Exhausted, GivesUpOnlyAtTheLimit
<1> QED
  BY <1>1, Invariance, PTL

(* No step changes the outcome that process() has made visible: no runner is *)
(* left, and a late cancellation returns early (service.ts:79-83).           *)
THEOREM Frozen == Spec => OutcomeIsFrozen
<1>1. Inv /\ [Next]_vars => [(status \in Finals) => UNCHANGED outcome]_vars
  <2> SUFFICES ASSUME Inv, Next, status \in Finals PROVE UNCHANGED outcome
    BY DEF vars
  <2>1. phase \in {"over", "gone"} /\ \A r \in Runners : ~Busy(r)
    BY DEF Inv, Concluded, AllIdle
  <2>2. status \in Terminal
    BY DEF Terminal
  <2>3. ASSUME NEW S \in SUBSET Items, Submit(S) PROVE FALSE
    BY <2>1, <2>3 DEF Submit
  <2>4. ASSUME NEW r \in Runners, Reply(r) \/ CallFails(r) \/ CallAborted(r) PROVE FALSE
    BY <2>1, <2>4 DEF Reply, CallFails, CallAborted
  <2>5. ASSUME NEW f \in Files, FileWritten(f) \/ FileFails(f) PROVE UNCHANGED outcome
    BY <2>1, <2>5 DEF FileWritten, FileFails, workVars, outcome
  <2>6. CASE Crash \/ Rest
    BY <2>6 DEF Crash, Rest, vars, workVars, outcome
  <2> QED
    BY <2>1, <2>2, <2>3, <2>4, <2>5, <2>6
       DEF Next, SubmitNothing, MkdirDone, MkdirFails, Cancel
<1> QED
  BY <1>1, Invariance, PTL DEF Spec, OutcomeIsFrozen

(* A cancelled job starts no model call: not for the next unit, nor for the  *)
(* next repair round, nor in a further pass (service.ts:127, 174, 194).       *)
THEOREM AbortStopsCalls == Spec => NoCallAfterAbort
<1>1. Inv /\ [Next]_vars => [aborted => \A r \in Runners : ~StartsCall(r)]_vars
  <2> SUFFICES ASSUME Inv, Next, aborted, NEW q \in Runners
               PROVE  ~StartsCall(q)
    BY DEF vars
  <2>1. phase # "idle"
    BY DEF Inv, Fresh
  <2>2. unit \in [Runners -> SUBSET items]
    BY DEF Inv, TypeOK
  <2>3. ASSUME NEW r \in Runners, NEW new, UnitOver(r, new) PROVE ~StartsCall(q)
    <3>1. CASE TakeUnit(r)
      BY <3>1 DEF TakeUnit
    <3>2. CASE ThrowCancelled(r)
      BY <2>2, <3>2 DEF ThrowCancelled, StartsCall
    <3>3. CASE Stop(r, cases \cup new)
      <4>1. CASE RepairPass(cases \cup new)
        BY <4>1 DEF RepairPass
      <4>2. CASE Finish(cases \cup new)
        BY <4>2 DEF Finish, StartsCall
      <4>3. CASE unit' = [unit EXCEPT ![r] = {}] /\ round' = round
        BY <2>2, <4>3 DEF StartsCall
      <4> QED
        BY <3>3, <4>1, <4>2, <4>3 DEF Stop
    <3> QED
      BY <2>3, <3>1, <3>2, <3>3 DEF UnitOver
  <2>4. ASSUME NEW r \in Runners, Reply(r) \/ CallFails(r) PROVE FALSE
    BY <2>4 DEF Reply, CallFails
  <2>5. ASSUME NEW r \in Runners, CallAborted(r) PROVE ~StartsCall(q)
    <3>1. CASE round[r] = 0
      BY <2>2, <2>5, <3>1 DEF CallAborted, StartsCall
    <3>2. CASE round[r] # 0
      BY <2>3, <2>5, <3>2 DEF CallAborted
    <3> QED
      BY <3>1, <3>2
  <2>6. CASE UNCHANGED <<unit, round>>
    BY <2>6 DEF StartsCall
  <2>7. CASE Crash
    BY <2>7 DEF Crash, StartsCall
  <2>8. CASE MkdirDone \/ MkdirFails \/ Cancel \/ Rest
             \/ \E f \in Files : FileWritten(f) \/ FileFails(f)
    BY <2>6, <2>8 DEF MkdirDone, MkdirFails, Cancel, Rest, FileWritten, FileFails,
                      vars, workVars
  <2> QED
    BY <2>1, <2>4, <2>5, <2>7, <2>8 DEF Next, Submit, SubmitNothing
<1> QED
  BY <1>1, Invariance, PTL DEF Spec, NoCallAfterAbort

-----------------------------------------------------------------------------
(* The pool. A unit that a plan holds is not empty.                         *)
LEMMA UnitsAreNotEmpty ==
  ASSUME NEW S
  PROVE  {} \notin Plan(S)
<1>1. ASSUME NEW i \in S PROVE i \in UnitOf(S, i)
  BY DEF UnitOf
<1> QED
  BY <1>1 DEF Plan

(* Severity is a strict order.                                              *)
LEMMA SeverityIsStrict ==
  ASSUME JobConstants, NEW u \in SUBSET Items, NEW v \in SUBSET Items, MoreSevere(u, v)
  PROVE  ~MoreSevere(v, u)
<1>1. PICK i \in u : \A j \in v : Priority[i] < Priority[j]
  BY DEF MoreSevere
<1>2. ASSUME NEW k \in v, \A j \in u : Priority[k] < Priority[j] PROVE FALSE
  <2>1. Priority[i] < Priority[k] /\ Priority[k] < Priority[i]
    BY <1>1, <1>2
  <2>2. Priority[i] \in Nat /\ Priority[k] \in Nat
    BY DEF JobConstants
  <2> QED
    BY <2>1, <2>2
<1> QED
  BY <1>2 DEF MoreSevere

(* What comes before another unit is not less severe.                        *)
LEMMA BeforeIsSevere ==
  ASSUME JobConstants, NEW u \in SUBSET Items, NEW v \in SUBSET Items, Before(u, v)
  PROVE  ~MoreSevere(v, u)
BY SeverityIsStrict DEF Before

(* The busy runners and the pending units are finitely many.                 *)
LEMMA PoolIsFinite ==
  ASSUME JobConstants, TypeOK
  PROVE  /\ IsFiniteSet(BusyIn(unit)) /\ Cardinality(BusyIn(unit)) \in Nat
         /\ IsFiniteSet(pending) /\ Cardinality(pending) \in Nat
         /\ InPlay \in Nat
<1>1. IsFiniteSet(BusyIn(unit))
  <2>1. BusyIn(unit) \in SUBSET Runners
    BY DEF BusyIn
  <2> QED
    BY <2>1, FS_Subset DEF JobConstants
<1>2. IsFiniteSet(pending)
  <2>1. items \in SUBSET Items /\ pending \in SUBSET SUBSET items
    BY DEF TypeOK
  <2>2. IsFiniteSet(items)
    BY <2>1, FS_Subset DEF JobConstants
  <2>3. IsFiniteSet(SUBSET items)
    BY <2>2, FS_SUBSET
  <2> QED
    BY <2>1, <2>3, FS_Subset
<1>3. Cardinality(BusyIn(unit)) \in Nat /\ Cardinality(pending) \in Nat
  BY <1>1, <1>2, FS_CardinalityType
<1> QED
  BY <1>1, <1>2, <1>3 DEF InPlay

(* A pool that starts has every unit of its plan in play, each once, and the *)
(* units in flight are at least as severe as those that wait.                *)
LEMMA StartPoolCounts ==
  ASSUME JobConstants, NEW S \in SUBSET Items, StartPool(Plan(S))
  PROVE  /\ {} \notin pending'
         /\ Cardinality(BusyIn(unit')) + Cardinality(pending') = Cardinality(Plan(S))
         /\ \A r \in Runners, u \in pending' :
               unit'[r] # {} => ~MoreSevere(u, unit'[r])
<1> DEFINE U == Plan(S)
<1>1. PICK a \in Dispatch(U) : unit' = a /\ pending' = U \ {a[r] : r \in Runners}
  BY DEF StartPool
<1> DEFINE taken == {a[r] : r \in Runners} \ {{}}
           B == BusyIn(a)
<1>2. {} \notin U /\ U \in SUBSET SUBSET S /\ Cardinality(U) \in Nat
  BY UnitsAreNotEmpty, PlanTypes
<1>3. IsFiniteSet(U)
  <2>1. IsFiniteSet(SUBSET S)
    BY FS_Subset, FS_SUBSET DEF JobConstants
  <2> QED
    BY <1>2, <2>1, FS_Subset
<1> HIDE DEF U
<1>4. /\ a \in [Runners -> U \cup {{}}]
      /\ \A r, s \in Runners : a[r] = a[s] => r = s \/ a[r] = {}
      /\ \A u \in taken, v \in U \ taken : Before(u, v)
  BY DEF Dispatch
<1>5. taken \in SUBSET U /\ pending' = U \ taken
  BY <1>1, <1>2, <1>4
<1>6. Cardinality(B) = Cardinality(taken)
  <2> DEFINE f == [r \in B |-> a[r]]
  <2>1. B \in SUBSET Runners /\ IsFiniteSet(B)
    <3>1. B \in SUBSET Runners
      BY DEF BusyIn
    <3> QED
      BY <3>1, FS_Subset DEF JobConstants
  <2>2. f \in [B -> taken]
    BY DEF BusyIn
  <2>3. \A r, s \in B : f[r] = f[s] => r = s
    BY <1>4 DEF BusyIn
  <2>4. \A u \in taken : \E r \in B : f[r] = u
    BY DEF BusyIn
  <2> HIDE DEF f, taken, B
  <2>5. f \in Bijection(B, taken)
    BY <2>2, <2>3, <2>4, Fun_IsBij
  <2>6. ExistsBijection(B, taken)
    BY <2>5, Fun_ExistsBij
  <2> QED
    BY <2>1, <2>6, FS_Bijection
<1>7. Cardinality(U \ taken) = Cardinality(U) - Cardinality(taken)
      /\ Cardinality(taken) \in Nat
  <2> HIDE DEF taken
  <2>1. U \cap taken = taken /\ IsFiniteSet(taken)
    BY <1>3, <1>5, FS_Subset
  <2> QED
    BY <1>3, <2>1, FS_Difference, FS_CardinalityType
<1>8. ASSUME NEW r \in Runners, NEW u \in pending', unit'[r] # {}
      PROVE  ~MoreSevere(u, unit'[r])
  <2>1. unit'[r] \in taken /\ u \in U \ taken
    BY <1>1, <1>5, <1>8
  <2>2. Before(unit'[r], u)
    BY <1>4, <2>1
  <2>3. unit'[r] \in SUBSET Items /\ u \in SUBSET Items
    BY <1>2, <1>5, <2>1
  <2> QED
    BY <2>2, <2>3, BeforeIsSevere
<1>9. Cardinality(BusyIn(unit')) + Cardinality(pending') = Cardinality(U)
  <2>1. BusyIn(unit') = B
    BY <1>1
  <2> HIDE DEF B, taken
  <2> QED
    BY <1>2, <1>5, <1>6, <1>7, <2>1
<1> QED
  BY <1>2, <1>5, <1>8, <1>9 DEF U

(* A runner that stops is one busy runner less.                              *)
LEMMA OneLess ==
  ASSUME JobConstants, TypeOK, NEW r \in Runners, Busy(r),
         unit' = [unit EXCEPT ![r] = {}]
  PROVE  /\ Cardinality(BusyIn(unit')) = Cardinality(BusyIn(unit)) - 1
         /\ \A s \in Runners : unit'[s] # {} => unit'[s] = unit[s] /\ unit[s] # {}
<1>1. \A s \in Runners : unit'[s] = IF s = r THEN {} ELSE unit[s]
  BY DEF TypeOK
<1>2. BusyIn(unit') = BusyIn(unit) \ {r} /\ r \in BusyIn(unit)
  BY <1>1 DEF BusyIn, Busy
<1>3. Cardinality(BusyIn(unit) \ {r}) = Cardinality(BusyIn(unit)) - 1
  BY <1>2, PoolIsFinite, FS_RemoveElement
<1> QED
  BY <1>1, <1>2, <1>3

(* No runner is busy and no unit waits: nothing is in play.                  *)
LEMMA NothingInPlay ==
  ASSUME unit' = [r \in Runners |-> {}], pending' = {}
  PROVE  InPlay' = 0 /\ BusyIn(unit') = {} /\ SevereFirst' /\ {} \notin pending'
<1>1. BusyIn(unit') = {}
  BY DEF BusyIn
<1>2. Cardinality(BusyIn(unit')) = 0 /\ Cardinality(pending') = 0
  BY <1>1, FS_EmptySet
<1>3. SevereFirst' /\ {} \notin pending'
  BY DEF SevereFirst
<1> QED
  BY <1>1, <1>2, <1>3 DEF InPlay

(* A runner that leaves a unit keeps the count and the order, whichever of the *)
(* ways out it takes.                                                         *)
LEMMA UnitOverPool ==
  ASSUME JobConstants, PoolInv, NEW r \in Runners, NEW new \in SUBSET SUBSET items,
         Busy(r), UnitOver(r, new)
  PROVE  Counted' /\ SevereFirst'
<1> DEFINE cs == cases \cup new
           n == Cardinality(BusyIn(unit))
           k == Cardinality(pending)
<1>1. /\ TypeOK /\ Counted /\ SevereFirst
      /\ completedUnits' = completedUnits + 1 /\ aborted' = aborted /\ items' = items
  BY DEF PoolInv, Inv, UnitOver
<1>2. /\ IsFiniteSet(BusyIn(unit)) /\ n \in Nat /\ n > 0
      /\ IsFiniteSet(pending) /\ k \in Nat /\ InPlay = n + k
  <2>1. IsFiniteSet(BusyIn(unit)) /\ n \in Nat /\ IsFiniteSet(pending) /\ k \in Nat
    BY <1>1, PoolIsFinite
  <2>2. n # 0
    <3>1. r \in BusyIn(unit)
      BY DEF BusyIn, Busy
    <3> QED
      BY <2>1, <3>1, FS_EmptySet
  <2> QED
    BY <2>1, <2>2 DEF InPlay
<1>3. /\ completedUnits \in Nat /\ totalUnits \in Nat /\ phase # "idle"
      /\ completedUnits + InPlay <= totalUnits
      /\ phase = "pass" /\ ~aborted => completedUnits + InPlay = totalUnits
      /\ {} \notin pending /\ pending \subseteq SUBSET Items
      /\ unit \in [Runners -> SUBSET items] /\ items \subseteq Items
  BY <1>1 DEF TypeOK, Counted, PoolInv, Inv, Fresh, AllIdle
<1>4. InPlay' = Cardinality(BusyIn(unit')) + Cardinality(pending')
  BY DEF InPlay
<1> HIDE DEF n, k, cs
<1>5. CASE TakeUnit(r)
  <2>1. PICK u \in First(pending) : unit' = [unit EXCEPT ![r] = u] /\ pending' = pending \ {u}
    BY <1>5 DEF TakeUnit
  <2>2. UNCHANGED <<phase, totalUnits>>
    BY <1>5 DEF TakeUnit
  <2>3. u \in pending /\ u # {} /\ \A v \in pending' : Before(u, v)
    BY <1>3, <2>1 DEF First
  <2>4. \A s \in Runners : unit'[s] = IF s = r THEN u ELSE unit[s]
    BY <1>3, <2>1
  <2>5. BusyIn(unit') = BusyIn(unit)
    BY <2>3, <2>4 DEF BusyIn, Busy
  <2>6. Cardinality(pending') = k - 1
    BY <1>2, <2>1, <2>3, FS_RemoveElement DEF k
  <2>7. InPlay' = n + (k - 1)
    BY <1>4, <2>5, <2>6 DEF n
  <2>8. Counted'
    BY <1>1, <1>2, <1>3, <2>1, <2>2, <2>7 DEF Counted
  <2>9. ASSUME NEW s \in Runners, NEW w \in pending', unit'[s] # {}
        PROVE  ~MoreSevere(w, unit'[s])
    <3>1. CASE s = r
      <4>1. Before(u, w) /\ u \in SUBSET Items /\ w \in SUBSET Items
        BY <1>3, <2>1, <2>3
      <4> QED
        BY <2>4, <3>1, <4>1, BeforeIsSevere
    <3>2. CASE s # r
      BY <1>1, <2>1, <2>4, <2>9, <3>2 DEF SevereFirst, Busy
    <3> QED
      BY <3>1, <3>2
  <2> QED
    BY <2>8, <2>9 DEF SevereFirst, Busy
<1>6. ASSUME unit' = [unit EXCEPT ![r] = {}], pending' \subseteq pending
      PROVE  SevereFirst' /\ {} \notin pending' /\ Cardinality(BusyIn(unit')) = n - 1
  <2>1. /\ Cardinality(BusyIn(unit')) = n - 1
        /\ \A s \in Runners : unit'[s] # {} => unit'[s] = unit[s] /\ unit[s] # {}
    BY <1>1, <1>6, OneLess DEF n
  <2> QED
    BY <1>1, <1>3, <1>6, <2>1 DEF SevereFirst, Busy
<1>7. CASE ThrowCancelled(r)
  <2>1. PICK u \in pending : pending' = pending \ {u}
    BY <1>7 DEF ThrowCancelled, First
  <2>2. unit' = [unit EXCEPT ![r] = {}] /\ phase' = "over" /\ totalUnits' = totalUnits
    BY <1>7 DEF ThrowCancelled
  <2>3. Cardinality(pending') = k - 1
    BY <1>2, <2>1, FS_RemoveElement DEF k
  <2>4. SevereFirst' /\ {} \notin pending' /\ InPlay' = (n - 1) + (k - 1)
    BY <1>4, <1>6, <2>1, <2>2, <2>3
  <2> QED
    BY <1>1, <1>2, <1>3, <2>2, <2>4 DEF Counted
<1>8. CASE Stop(r, cs)
  <2>1. CASE RepairPass(cs) /\ OthersIdle(r) /\ phase = "pass"
    <3> DEFINE S == Uncovered(cs)
    <3>1. /\ ~aborted /\ StartPool(Plan(S)) /\ phase' = phase
          /\ totalUnits' = totalUnits + Cardinality(Plan(S))
      BY <2>1 DEF RepairPass
    <3>2. S \in SUBSET Items
      BY <1>3 DEF Uncovered
    <3> HIDE DEF S
    <3>3. pending = {} /\ k = 0
      BY <1>8, <3>1, FS_EmptySet DEF Stop, k
    <3>4. n = 1
      <4>1. BusyIn(unit) = {r}
        BY <2>1 DEF BusyIn, OthersIdle, Busy
      <4> QED
        BY <4>1, FS_Singleton DEF n
    <3>5. /\ {} \notin pending' /\ InPlay' = Cardinality(Plan(S))
          /\ Cardinality(Plan(S)) \in Nat
      BY <1>4, <3>1, <3>2, StartPoolCounts, PlanTypes
    <3>6. SevereFirst'
      BY <3>1, <3>2, StartPoolCounts DEF SevereFirst, Busy
    <3>7. Counted'
      BY <1>1, <1>2, <1>3, <2>1, <3>1, <3>3, <3>4, <3>5 DEF Counted
    <3> QED
      BY <3>6, <3>7
  <2>2. CASE Finish(cs)
    <3>1. /\ unit' = [q \in Runners |-> {}] /\ pending' = {} /\ totalUnits' = totalUnits
          /\ phase' \in {"mkdir", "over"}
      BY <2>2 DEF Finish
    <3>2. InPlay' = 0 /\ SevereFirst' /\ {} \notin pending'
      BY <3>1, NothingInPlay
    <3> QED
      BY <1>1, <1>2, <1>3, <3>1, <3>2 DEF Counted
  <2>3. CASE /\ unit' = [unit EXCEPT ![r] = {}] /\ pending' = {}
             /\ UNCHANGED <<phase, pass, round, got, totalUnits, report, final, error>>
    <3>1. Cardinality(pending') = 0
      BY <2>3, FS_EmptySet
    <3>2. SevereFirst' /\ {} \notin pending' /\ InPlay' = n - 1
      BY <1>2, <1>4, <1>6, <2>3, <3>1
    <3>3. phase = "pass" /\ ~aborted => k = 0
      BY <1>8, FS_EmptySet DEF Stop, k
    <3> QED
      BY <1>1, <1>2, <1>3, <2>3, <3>2, <3>3 DEF Counted
  <2> QED
    BY <1>8, <2>1, <2>2, <2>3 DEF Stop
<1> QED
  BY <1>5, <1>7, <1>8 DEF UnitOver, cs

(* The pool's invariant holds at the start.                                  *)
LEMMA InitPool == JobConstants /\ Init => PoolInv
<1> SUFFICES ASSUME JobConstants, Init PROVE PoolInv
  OBVIOUS
<1>1. BusyIn(unit) = {} /\ pending = {}
  BY DEF Init, BusyIn
<1>2. InPlay = 0
  BY <1>1, FS_EmptySet DEF InPlay
<1>3. Counted /\ SevereFirst
  BY <1>1, <1>2 DEF Init, Counted, SevereFirst
<1> QED
  BY <1>3, InitInv DEF PoolInv

(* Every step keeps it.                                                      *)
LEMMA NextPool == JobConstants /\ PoolInv /\ [Next]_vars => PoolInv'
<1> SUFFICES ASSUME JobConstants, PoolInv, [Next]_vars PROVE PoolInv'
  OBVIOUS
<1>1. Inv' /\ Inv /\ TypeOK /\ Counted /\ SevereFirst
  BY NextInv DEF PoolInv, Inv
<1>2. /\ completedUnits \in Nat /\ totalUnits \in Nat /\ InPlay \in Nat
      /\ InPlay = Cardinality(BusyIn(unit)) + Cardinality(pending)
      /\ Cardinality(BusyIn(unit)) \in Nat /\ Cardinality(pending) \in Nat
  BY <1>1, PoolIsFinite DEF TypeOK, InPlay
<1>3. SUFFICES Counted' /\ SevereFirst'
  BY <1>1 DEF PoolInv
<1>4. ASSUME NEW S \in SUBSET Items, Submit(S) PROVE Counted' /\ SevereFirst'
  <2>1. /\ phase = "idle" /\ totalUnits' = Cardinality(Plan(S)) /\ StartPool(Plan(S))
        /\ completedUnits' = completedUnits /\ phase' = "pass"
    BY <1>4 DEF Submit
  <2>2. completedUnits' = 0
    BY <1>1, <2>1 DEF Counted
  <2>3. /\ {} \notin pending' /\ InPlay' = Cardinality(Plan(S))
        /\ Cardinality(Plan(S)) \in Nat
    BY <2>1, StartPoolCounts, PlanTypes DEF InPlay
  <2>4. SevereFirst'
    BY <2>1, StartPoolCounts DEF SevereFirst, Busy
  <2> QED
    BY <2>1, <2>2, <2>3, <2>4 DEF Counted
<1>5. ASSUME UNCHANGED <<unit, pending, completedUnits, totalUnits>>, phase' # "idle",
             phase' = "pass" /\ ~aborted' => phase = "pass" /\ ~aborted
      PROVE  Counted' /\ SevereFirst'
  <2>1. BusyIn(unit') = BusyIn(unit)
    BY <1>5
  <2>2. InPlay' = InPlay
    BY <1>5, <2>1 DEF InPlay
  <2> QED
    BY <1>1, <1>5, <2>2 DEF Counted, SevereFirst, Busy
<1>6. CASE SubmitNothing
  BY <1>5, <1>6 DEF SubmitNothing, workVars
<1>7. ASSUME NEW r \in Runners PROVE Kept(r) \in SUBSET SUBSET items
  BY <1>1 DEF Kept, TypeOK
<1>8. ASSUME NEW r \in Runners, Reply(r) PROVE Counted' /\ SevereFirst'
  <2>1. PICK C \in SUBSET unit[r] :
          LET now == got[r] \cup C
          IN  IF AsksAgain(r, now)
              THEN /\ got' = [got EXCEPT ![r] = now]
                   /\ round' = [round EXCEPT ![r] = @ + 1]
                   /\ UNCHANGED <<items, pass, pending, unit, cases, totalUnits,
                                  completedUnits, status, error, aborted, phase,
                                  report, final, diskVars>>
              ELSE UnitOver(r, {now})
    BY <1>8 DEF Reply
  <2> DEFINE now == got[r] \cup C
  <2>2. Busy(r) /\ phase # "idle"
    BY <1>1, <1>8 DEF Reply, Inv, Fresh, AllIdle
  <2>3. CASE AsksAgain(r, now)
    <3>1. UNCHANGED <<unit, pending, completedUnits, totalUnits, phase, aborted>>
      BY <2>1, <2>3
    <3> QED
      BY <1>5, <2>2, <3>1
  <2>4. CASE ~AsksAgain(r, now)
    <3>1. UnitOver(r, {now}) /\ {now} \in SUBSET SUBSET items
      BY <1>1, <2>1, <2>4 DEF TypeOK
    <3> QED
      BY <2>2, <3>1, UnitOverPool
  <2> QED
    BY <2>3, <2>4
<1>9. ASSUME NEW r \in Runners, CallFails(r) PROVE Counted' /\ SevereFirst'
  BY <1>7, <1>9, UnitOverPool DEF CallFails
<1>10. ASSUME NEW r \in Runners, CallAborted(r) PROVE Counted' /\ SevereFirst'
  <2>1. CASE round[r] = 0
    <3>1. /\ Busy(r) /\ unit' = [unit EXCEPT ![r] = {}] /\ phase' = "over"
          /\ completedUnits' = completedUnits + 1
          /\ UNCHANGED <<pending, totalUnits>>
      BY <1>10, <2>1 DEF CallAborted
    <3>2. /\ Cardinality(BusyIn(unit')) = Cardinality(BusyIn(unit)) - 1
          /\ \A s \in Runners : unit'[s] # {} => unit'[s] = unit[s] /\ unit[s] # {}
      BY <1>1, <3>1, OneLess
    <3>3. InPlay' = InPlay - 1
      BY <1>2, <3>1, <3>2 DEF InPlay
    <3>4. SevereFirst'
      BY <1>1, <3>1, <3>2 DEF SevereFirst, Busy
    <3> QED
      BY <1>1, <1>2, <3>1, <3>3, <3>4 DEF Counted
  <2>2. CASE round[r] # 0
    BY <1>7, <1>10, <2>2, UnitOverPool DEF CallAborted
  <2> QED
    BY <2>1, <2>2
<1>11. CASE MkdirDone \/ MkdirFails
  BY <1>5, <1>11 DEF MkdirDone, MkdirFails, Conclude, workVars
<1>12. ASSUME NEW f \in Files, FileWritten(f) \/ FileFails(f) PROVE Counted' /\ SevereFirst'
  <2>1. phase # "idle"
    BY <1>1, <1>12 DEF FileWritten, FileFails, Inv, Working
  <2> QED
    BY <1>5, <1>12, <2>1 DEF FileWritten, FileFails, Conclude, workVars
<1>13. CASE Cancel
  BY <1>5, <1>13 DEF Cancel, workVars
<1>14. CASE Crash
  <2>1. /\ unit' = [r \in Runners |-> {}] /\ pending' = {} /\ phase' = "gone"
        /\ UNCHANGED <<totalUnits, completedUnits>>
    BY <1>14 DEF Crash
  <2>2. InPlay' = 0 /\ SevereFirst' /\ {} \notin pending'
    BY <2>1, NothingInPlay
  <2> QED
    BY <1>1, <1>2, <2>1, <2>2 DEF Counted
<1>15. CASE UNCHANGED vars
  <2>1. UNCHANGED <<unit, pending, completedUnits, totalUnits, phase, aborted>>
    BY <1>15 DEF vars, workVars
  <2>2. BusyIn(unit') = BusyIn(unit)
    BY <2>1
  <2>3. InPlay' = InPlay
    BY <2>1, <2>2 DEF InPlay
  <2> QED
    BY <1>1, <2>1, <2>3 DEF Counted, SevereFirst, Busy
<1>16. CASE Rest
  BY <1>15, <1>16 DEF Rest
<1> QED
  BY <1>4, <1>6, <1>8, <1>9, <1>10, <1>11, <1>12, <1>13, <1>14, <1>15, <1>16 DEF Next

(* The pool's invariant holds in every reachable state.                      *)
THEOREM PoolInvariance == Spec => []PoolInv
<1>1. Init => PoolInv
  BY JobConstants, InitPool
<1>2. PoolInv /\ [Next]_vars => PoolInv'
  BY JobConstants, NextPool
<1> QED
  BY <1>1, <1>2, PTL DEF Spec

(* Whatever the interleaving of the runners and however their calls end, the *)
(* units done, in flight and pending of a running job add up to its total,   *)
(* over all its passes (pool.ts:10-17, service.ts:162).                      *)
THEOREM Accounting == Spec => []UnitsAccountedFor
<1>1. ASSUME PoolInv PROVE UnitsAccountedFor
  <2>1. TypeOK /\ Counted
    BY <1>1 DEF PoolInv, Inv
  <2> DEFINE n == Cardinality(BusyIn(unit))
             k == Cardinality(pending)
  <2>2. n \in Nat /\ k \in Nat /\ InPlay = n + k
    BY <2>1, JobConstants, PoolIsFinite DEF InPlay
  <2>3. Cardinality({r \in Runners : Busy(r)}) = n
    BY DEF BusyIn, Busy
  <2> HIDE DEF n
  <2>4. completedUnits \in Nat /\ totalUnits \in Nat
    BY <2>1 DEF TypeOK
  <2> HIDE DEF k
  <2>5. /\ completedUnits <= totalUnits
        /\ phase = "pass" /\ ~aborted => completedUnits + n + k = totalUnits
    BY <2>1, <2>2, <2>4 DEF Counted
  <2> QED
    BY <2>3, <2>5 DEF UnitsAccountedFor, k
<1> QED
  BY <1>1, PoolInvariance, PTL

(* The runners work the units off by severity: whoever is busy has a unit    *)
(* that is not less severe than any that waits (planner.ts:103-108).         *)
THEOREM SeverityOrder == Spec => []SevereFirst
<1>1. PoolInv => SevereFirst
  BY DEF PoolInv
<1> QED
  BY <1>1, PoolInvariance, PTL

-----------------------------------------------------------------------------
(* What the mapping of the artifact files rests on: before and during the    *)
(* flush no file counts as stored that is not, and a failed flush leaves a   *)
(* file behind that no write will complete.                                  *)
Storage ==
    /\ phase \in {"idle", "pass", "mkdir"} => \A f \in Files : disk[f] = "incomplete"
    /\ \A f \in writing : disk[f] = "incomplete"
    /\ flushFailed => \E f \in Files \ writing : disk[f] = "incomplete"
    /\ phase \in {"over", "gone"} /\ ~flushFailed => writing = {}
    /\ phase = "gone" => AllIdle /\ writing = {}
    /\ phase # "idle" => status # "queued"

(* At the start no file is stored. *)
LEMMA InitStorage == JobConstants /\ Init => Storage
BY DEF Init, Storage

(* A runner that leaves a unit touches no file, and either nothing is stored *)
(* yet or the process has already ended.                                     *)
LEMMA UnitOverPhases ==
  ASSUME Inv, Storage, NEW r \in Runners, NEW new, Busy(r), UnitOver(r, new)
  PROVE  /\ UNCHANGED <<items, status, writing, disk, flushFailed>>
         /\ cases' = cases \cup new
         /\ phase \in {"pass", "over"} /\ phase' \in {"pass", "over", "mkdir"}
         /\ status \notin Finals
         /\ phase # "pass" => phase' = "over" /\ final' = final
<1>1. /\ UNCHANGED <<items, status, writing, disk, flushFailed>>
      /\ cases' = cases \cup new
  BY DEF UnitOver, diskVars
<1>2. ~AllIdle
  BY DEF AllIdle
<1>3. phase \in {"pass", "over"} /\ status \notin Finals
  BY <1>2 DEF Storage, Inv, TypeOK, Fresh, Flushing, Concluded
<1>4. CASE TakeUnit(r)
  BY <1>1, <1>3, <1>4 DEF TakeUnit
<1>5. CASE ThrowCancelled(r)
  BY <1>1, <1>3, <1>5 DEF ThrowCancelled
<1>6. CASE Stop(r, cases \cup new)
  <2>1. CASE phase # "pass"
    BY <1>1, <1>3, <1>6, <2>1 DEF Stop
  <2>2. CASE phase = "pass"
    BY <1>1, <1>3, <1>6, <2>2 DEF Stop, RepairPass, Finish
  <2> QED
    BY <2>1, <2>2
<1> QED
  BY <1>4, <1>5, <1>6 DEF UnitOver

(* Every step keeps what is known of the files. *)
LEMMA NextStorage == JobConstants /\ Inv /\ Storage /\ [Next]_vars => Storage'
<1> SUFFICES ASSUME JobConstants, Inv, Storage, [Next]_vars PROVE Storage'
  OBVIOUS
<1>1. ASSUME NEW r \in Runners, NEW new, Busy(r), UnitOver(r, new) PROVE Storage'
  BY <1>1, UnitOverPhases DEF Storage, Inv, Working
<1>2. ASSUME NEW S \in SUBSET Items, Submit(S) PROVE Storage'
  BY <1>2 DEF Submit, diskVars, Storage
<1>3. CASE SubmitNothing
  BY <1>3 DEF SubmitNothing, workVars, diskVars, Storage
<1>4. ASSUME NEW r \in Runners, Reply(r) PROVE Storage'
  <2>1. CASE UNCHANGED <<unit, status, phase, diskVars>>
    BY <2>1 DEF diskVars, Storage, AllIdle, Busy
  <2>2. CASE \E new : UnitOver(r, new)
    BY <1>1, <1>4, <2>2 DEF Reply
  <2> QED
    BY <1>4, <2>1, <2>2 DEF Reply
<1>5. ASSUME NEW r \in Runners, CallFails(r) PROVE Storage'
  BY <1>1, <1>5 DEF CallFails
<1>6. ASSUME NEW r \in Runners, CallAborted(r) PROVE Storage'
  <2>1. CASE round[r] = 0
    <3>1. /\ Busy(r) /\ phase' = "over"
          /\ UNCHANGED <<status, writing, disk, flushFailed>>
      BY <1>6, <2>1 DEF CallAborted, diskVars
    <3>2. phase \in {"pass", "over"}
      <4>1. ~AllIdle
        BY <3>1 DEF AllIdle
      <4> QED
        BY <4>1 DEF Storage, Inv, TypeOK, Fresh, Flushing
    <3> QED
      BY <3>1, <3>2 DEF Storage, Inv, Working
  <2>2. CASE round[r] # 0
    BY <1>1, <1>6, <2>2 DEF CallAborted
  <2> QED
    BY <2>1, <2>2
<1>7. CASE MkdirDone
  BY <1>7 DEF MkdirDone, Storage, Inv, Flushing
<1>8. CASE MkdirFails
  <2>1. PICK f \in Files : disk[f] = "incomplete"
    BY <1>8 DEF MkdirFails, Storage, JobConstants
  <2> QED
    BY <1>8, <2>1 DEF MkdirFails, Conclude, Storage, Inv, TypeOK, Flushing, Finals
<1>9. ASSUME NEW f \in Files, FileWritten(f) PROVE Storage'
  <2>1. /\ f \in writing /\ writing' = writing \ {f} /\ flushFailed' = flushFailed
        /\ \A g \in Files : disk'[g] = IF g = f THEN final ELSE disk[g]
    BY <1>9 DEF FileWritten, Inv, TypeOK
  <2>2. phase \in {"flush", "over"}
    BY <2>1 DEF Storage, Inv, TypeOK, Working, Flushing
  <2>3. writing \subseteq Files
    BY DEF Inv, TypeOK
  <2>4. \A g \in writing' : disk'[g] = "incomplete"
    BY <2>1, <2>3 DEF Storage
  <2>5. flushFailed' => \E g \in Files \ writing' : disk'[g] = "incomplete"
    BY <2>1 DEF Storage
  <2>6. CASE phase = "flush" /\ writing = {f}
    <3>1. status' \in Finals /\ phase' = "over"
      BY <1>9, <2>6 DEF FileWritten, Conclude, Inv, TypeOK
    <3> QED
      BY <2>1, <2>4, <2>5, <2>6, <3>1 DEF Storage, Finals
  <2>7. CASE ~(phase = "flush" /\ writing = {f})
    <3>1. UNCHANGED <<status, phase>>
      BY <1>9, <2>7 DEF FileWritten
    <3> QED
      BY <2>1, <2>2, <2>4, <2>5, <3>1 DEF Storage
  <2> QED
    BY <2>6, <2>7
<1>10. ASSUME NEW f \in Files, FileFails(f) PROVE Storage'
  <2>1. /\ f \in writing /\ writing' = writing \ {f} /\ disk' = disk /\ flushFailed'
        /\ final \in Finals /\ disk[f] = "incomplete"
    BY <1>10 DEF FileFails, Storage, Inv, TypeOK
  <2>2. phase \in {"flush", "over"}
    BY <2>1 DEF Storage, Inv, TypeOK, Working, Flushing
  <2>3. phase' = "over" /\ status' # "queued"
    BY <1>10, <2>1, <2>2 DEF FileFails, Conclude, Storage, Finals
  <2> QED
    BY <2>1, <2>3 DEF Storage
<1>11. CASE Cancel
  BY <1>11 DEF Cancel, workVars, diskVars, Storage, AllIdle, Busy
<1>12. CASE Crash
  BY <1>12 DEF Crash, Storage, AllIdle, Busy
<1>13. CASE UNCHANGED vars
  BY <1>13 DEF vars, workVars, diskVars, Storage, AllIdle, Busy
<1> QED
  BY <1>2, <1>3, <1>4, <1>5, <1>6, <1>7, <1>8, <1>9, <1>10, <1>11, <1>12, <1>13
     DEF Next, Rest

(***************************************************************************)
(* The steps under the mapping. Seen is a function of status, so it stays    *)
(* when status does.                                                         *)
(***************************************************************************)
(* The mapping of the files: one missing file, and the artifacts are *)
(* incomplete.                                                       *)
LEMMA StoredIncomplete ==
  ASSUME JobConstants, TypeOK, \E f \in Files : disk[f] = "incomplete"
  PROVE  Stored = "incomplete"
BY DEF Stored, TypeOK, Finals

(* The mapping of the files: all of them written, and the verdict is *)
(* stored.                                                           *)
LEMMA StoredByFinal ==
  ASSUME JobConstants, TypeOK, \A f \in Files : disk[f] = final
  PROVE  Stored = final
BY DEF Stored

(* The decided outcome is the abstract verdict.                              *)
LEMMA FinalIsVerdict ==
  ASSUME TypeOK, Decided
  PROVE  final = Lifecycle!Verdict
<1>1. items \subseteq UNION cases <=> UNION cases = items
  BY DEF TypeOK
<1> QED
  BY <1>1 DEF TypeOK, Decided, Lifecycle!Verdict, Finals

(* The end of the flush is the verdict of the abstract job, stored or *)
(* excused.                                                           *)
LEMMA FlushStep ==
  ASSUME JobConstants, Inv, Storage, phase \in {"mkdir", "flush"},
         UNCHANGED <<items, cases, final>>, status' = final, phase' = "over",
         \/ UNCHANGED Stored /\ flushFailed' = TRUE
         \/ Stored' = final /\ flushFailed' = FALSE
  PROVE  Lifecycle!Next
<1>1. final = Lifecycle!Verdict
  BY FinalIsVerdict DEF Inv, Flushing
<1>2. Seen \in {"running", "cancelled"}
  BY DEF Inv, TypeOK, Flushing, Storage, Terminal, Seen
<1>3. Seen' = final
  BY DEF Inv, TypeOK, Finals, Seen
<1>4. Lifecycle!Reach
  BY <1>1, <1>3 DEF Lifecycle!Reach
<1> QED
  BY <1>2, <1>4 DEF Lifecycle!Next, Lifecycle!Conclude, Lifecycle!ConcludeAnyway

(* A unit that is over is a delivery of its cases, or a stutter. *)
LEMMA UnitOverStep ==
  ASSUME JobConstants, Inv, Inv', Storage, Storage', NEW r \in Runners, Busy(r),
         NEW new, new = {} \/ \E C \in SUBSET items : new = {C}, UnitOver(r, new)
  PROVE  [Lifecycle!Next]_(Lifecycle!vars)
<1>1. /\ UNCHANGED <<items, status, writing, disk, flushFailed>>
      /\ cases' = cases \cup new
      /\ phase \in {"pass", "over"} /\ phase' \in {"pass", "over", "mkdir"}
      /\ status \notin Finals
      /\ phase # "pass" => phase' = "over" /\ final' = final
  BY UnitOverPhases
<1>2. UNCHANGED Seen /\ UNCHANGED (phase = "gone")
  BY <1>1 DEF Seen
<1>3. UNCHANGED Stored
  <2>1. CASE phase = "pass"
    <3>1. \E f \in Files : disk[f] = "incomplete"
      BY <2>1 DEF Storage, JobConstants
    <3>2. \E f \in Files : disk'[f] = "incomplete"
      BY <1>1, <3>1
    <3>3. Stored = "incomplete"
      BY <3>1, StoredIncomplete DEF Inv
    <3>4. Stored' = "incomplete"
      BY <3>2 DEF Inv, TypeOK, Finals, Stored
    <3> QED
      BY <3>3, <3>4
  <2>2. CASE phase # "pass"
    BY <1>1, <2>2 DEF Stored
  <2> QED
    BY <2>1, <2>2
<1>4. Seen \in {"running", "cancelled"}
  BY <1>1 DEF Inv, TypeOK, Storage, Terminal, Seen
<1>5. CASE new = {}
  BY <1>1, <1>2, <1>3, <1>5 DEF Lifecycle!vars
<1>6. ASSUME NEW C \in SUBSET items, new = {C} PROVE Lifecycle!Deliver
  BY <1>1, <1>2, <1>3, <1>4, <1>6 DEF Lifecycle!Deliver
<1> QED
  BY <1>5, <1>6 DEF Lifecycle!Next

(* Initial states are initial states of the abstract job. *)
LEMMA InitSimulation == JobConstants /\ Init => Lifecycle!Init
<1> SUFFICES ASSUME JobConstants, Init PROVE Lifecycle!Init
  OBVIOUS
<1>1. \E f \in Files : disk[f] = "incomplete"
  BY DEF Init, JobConstants
<1>2. Stored = "incomplete"
  BY <1>1, InitInv, StoredIncomplete DEF Inv
<1> QED
  BY <1>2 DEF Init, Lifecycle!Init, Seen

(* Every step is a step of the abstract job, or a stutter. *)
LEMMA StepSimulation ==
  ASSUME JobConstants, Inv, Inv', Storage, Storage', [Next]_vars
  PROVE  [Lifecycle!Next]_(Lifecycle!vars)
<1>1. ASSUME UNCHANGED <<items, status, cases, disk, final, flushFailed>>,
             UNCHANGED (phase = "gone")
      PROVE  UNCHANGED Lifecycle!vars
  BY <1>1 DEF Lifecycle!vars, Seen, Stored
<1>2. ASSUME NEW S \in SUBSET Items, Submit(S) PROVE Lifecycle!Next
  <2>1. /\ phase = "idle" /\ phase' = "pass" /\ items' = S /\ status' = "generating"
        /\ UNCHANGED <<cases, final, disk, flushFailed>>
    BY <1>2 DEF Submit, diskVars
  <2>2. Seen = "none" /\ Seen' = "running" /\ Stored' = Stored
    BY <2>1 DEF Inv, Fresh, Seen, Stored
  <2>3. Lifecycle!Accept
    BY <2>1, <2>2 DEF Lifecycle!Accept
  <2> QED
    BY <2>3 DEF Lifecycle!Next
<1>3. CASE SubmitNothing
  <2>1. /\ phase = "idle" /\ phase' = "mkdir" /\ status' = "analyzing"
        /\ UNCHANGED <<items, cases, disk, flushFailed>>
    BY <1>3 DEF SubmitNothing, workVars, diskVars
  <2>2. Seen = "none" /\ Seen' = "running" /\ items' \in SUBSET Items
    BY <2>1 DEF Inv, TypeOK, Fresh, Seen
  <2>3. \E f \in Files : disk[f] = "incomplete" /\ disk'[f] = "incomplete"
    BY <2>1 DEF Storage, JobConstants
  <2>4. Stored' = Stored
    <3>1. Stored = "incomplete"
      BY <2>3, StoredIncomplete DEF Inv
    <3>2. Stored' = "incomplete"
      BY <2>3 DEF Inv, TypeOK, Finals, Stored
    <3> QED
      BY <3>1, <3>2
  <2>5. Lifecycle!Accept
    BY <2>1, <2>2, <2>4 DEF Lifecycle!Accept
  <2> QED
    BY <2>5 DEF Lifecycle!Next
<1>4. ASSUME NEW r \in Runners, Reply(r) PROVE [Lifecycle!Next]_(Lifecycle!vars)
  <2>1. PICK C \in SUBSET unit[r] :
          LET now == got[r] \cup C
          IN  IF AsksAgain(r, now)
              THEN /\ got' = [got EXCEPT ![r] = now]
                   /\ round' = [round EXCEPT ![r] = @ + 1]
                   /\ UNCHANGED <<items, pass, pending, unit, cases, totalUnits,
                                  completedUnits, status, error, aborted, phase,
                                  report, final, diskVars>>
              ELSE UnitOver(r, {now})
    BY <1>4 DEF Reply
  <2>2. CASE UNCHANGED <<items, status, cases, phase, final, diskVars>>
    BY <1>1, <2>2 DEF diskVars
  <2>3. CASE UnitOver(r, {got[r] \cup C})
    <3>1. got[r] \cup C \in SUBSET items
      BY DEF Inv, TypeOK
    <3>2. Busy(r)
      BY <1>4 DEF Reply
    <3> QED
      BY <2>3, <3>1, <3>2, UnitOverStep
  <2> QED
    BY <2>1, <2>2, <2>3
<1>5. ASSUME NEW r \in Runners
      PROVE  Kept(r) = {} \/ \E C \in SUBSET items : Kept(r) = {C}
  BY DEF Kept, Inv, TypeOK
<1>6. ASSUME NEW r \in Runners, CallFails(r) PROVE [Lifecycle!Next]_(Lifecycle!vars)
  BY <1>5, <1>6, UnitOverStep DEF CallFails
<1>7. ASSUME NEW r \in Runners, CallAborted(r) PROVE [Lifecycle!Next]_(Lifecycle!vars)
  <2>1. CASE round[r] = 0
    <3>1. /\ Busy(r) /\ phase' = "over"
          /\ UNCHANGED <<items, status, cases, disk, final, flushFailed>>
      BY <1>7, <2>1 DEF CallAborted, diskVars
    <3>2. phase # "gone"
      BY <3>1 DEF Storage, AllIdle
    <3> QED
      BY <1>1, <3>1, <3>2
  <2>2. CASE round[r] # 0
    BY <1>5, <1>7, <2>2, UnitOverStep DEF CallAborted
  <2> QED
    BY <2>1, <2>2
<1>8. CASE MkdirDone
  BY <1>1, <1>8 DEF MkdirDone, workVars
<1>9. CASE MkdirFails
  <2>1. /\ phase = "mkdir" /\ status' = final /\ phase' = "over" /\ flushFailed' = TRUE
        /\ UNCHANGED <<items, cases, final, disk>>
    BY <1>9 DEF MkdirFails, Conclude, workVars
  <2>2. UNCHANGED Stored
    BY <2>1 DEF Stored
  <2> QED
    BY <2>1, <2>2, FlushStep
<1>10. ASSUME NEW f \in Files, FileWritten(f) PROVE [Lifecycle!Next]_(Lifecycle!vars)
  <2>1. /\ f \in writing /\ writing' = writing \ {f}
        /\ UNCHANGED <<items, cases, final, flushFailed>>
        /\ disk' = [disk EXCEPT ![f] = final]
    BY <1>10 DEF FileWritten, workVars
  <2>2. \A g \in Files : disk'[g] = IF g = f THEN final ELSE disk[g]
    BY <2>1 DEF Inv, TypeOK
  <2>3. CASE phase = "flush" /\ writing = {f}
    <3>1. status' = final /\ phase' = "over"
      BY <1>10, <2>3 DEF FileWritten, Conclude
    <3>2. \A g \in Files : disk'[g] = final'
      BY <2>1, <2>2, <2>3 DEF Inv, Flushing
    <3>3. Stored' = final /\ flushFailed' = FALSE
      <4>1. Stored' = final'
        BY <3>2 DEF Stored
      <4>2. flushFailed' = FALSE
        BY <2>1, <2>3 DEF Inv, TypeOK, Flushing
      <4> QED
        BY <2>1, <4>1, <4>2
    <3> QED
      BY <2>1, <2>3, <3>1, <3>3, FlushStep
  <2>4. CASE ~(phase = "flush" /\ writing = {f})
    <3>1. UNCHANGED <<status, phase>>
      BY <1>10, <2>4 DEF FileWritten
    <3>2. PICK g \in Files : g # f /\ disk[g] = "incomplete"
      <4>1. CASE phase = "flush"
        BY <2>1, <2>4, <4>1 DEF Storage, Inv, TypeOK
      <4>2. CASE phase # "flush"
        <5>1. flushFailed
          BY <2>1, <4>2 DEF Storage, Inv, TypeOK, Working, Flushing
        <5> QED
          BY <2>1, <5>1 DEF Storage
      <4> QED
        BY <4>1, <4>2
    <3>3. Stored = "incomplete"
      BY <3>2, StoredIncomplete DEF Inv
    <3>4. Stored' = "incomplete"
      <4>1. disk'[g] = "incomplete"
        BY <2>2, <3>2
      <4> QED
        BY <4>1 DEF Inv, TypeOK, Finals, Stored
    <3>5. UNCHANGED Seen
      BY <3>1 DEF Seen
    <3> QED
      BY <2>1, <3>1, <3>3, <3>4, <3>5 DEF Lifecycle!vars
  <2> QED
    BY <2>3, <2>4
<1>11. ASSUME NEW f \in Files, FileFails(f) PROVE [Lifecycle!Next]_(Lifecycle!vars)
  <2>1. /\ f \in writing /\ flushFailed' = TRUE
        /\ UNCHANGED <<items, cases, final, disk>>
    BY <1>11 DEF FileFails, workVars
  <2>2. UNCHANGED Stored
    BY <2>1 DEF Stored
  <2>3. CASE phase = "flush"
    BY <1>11, <2>1, <2>2, <2>3, FlushStep DEF FileFails, Conclude
  <2>4. CASE phase # "flush"
    <3>1. flushFailed = TRUE
      BY <2>1, <2>4 DEF Storage, Inv, TypeOK, Working, Flushing
    <3> QED
      BY <1>1, <1>11, <2>1, <2>4, <3>1 DEF FileFails
  <2> QED
    BY <2>3, <2>4
<1>12. CASE Cancel
  <2>1. /\ phase # "idle" /\ phase # "gone" /\ status \notin Terminal
        /\ status' = "cancelled"
        /\ UNCHANGED <<items, cases, phase, final, disk, flushFailed>>
    BY <1>12 DEF Cancel, workVars, diskVars
  <2>2. Seen = "running" /\ Seen' = "cancelled" /\ UNCHANGED Stored
    BY <2>1 DEF Storage, Inv, TypeOK, Seen, Stored
  <2>3. Lifecycle!Cancel
    BY <2>1, <2>2 DEF Lifecycle!Cancel
  <2> QED
    BY <2>3 DEF Lifecycle!Next
<1>13. CASE Crash
  <2>1. /\ phase # "idle" /\ phase # "gone" /\ phase' = "gone"
        /\ UNCHANGED <<items, status, cases, final, disk, flushFailed>>
    BY <1>13 DEF Crash
  <2>2. Seen # "none" /\ UNCHANGED Seen /\ UNCHANGED Stored
    BY <2>1 DEF Storage, Inv, TypeOK, Seen, Stored, Terminal, Finals
  <2>3. Lifecycle!Lose
    BY <2>1, <2>2 DEF Lifecycle!Lose
  <2> QED
    BY <2>3 DEF Lifecycle!Next
<1>14. CASE UNCHANGED vars
  BY <1>1, <1>14 DEF vars, workVars, diskVars
<1> QED
  BY <1>2, <1>3, <1>4, <1>6, <1>7, <1>8, <1>9, <1>10, <1>11, <1>12, <1>13, <1>14
     DEF Next, Rest

(* Every behaviour of the job, seen from outside, is one of the promised     *)
(* lifecycle: cases accumulate, one verdict follows from them, and it        *)
(* appears with its artifacts or with the excuse (service.ts:93-294).        *)
THEOREM ImplementsLifecycleSteps == Spec => LifecycleSteps
<1>1. Init => Lifecycle!Init /\ Storage /\ Inv
  BY JobConstants, InitSimulation, InitStorage, InitInv
<1>2. Inv /\ Storage /\ [Next]_vars => Inv' /\ Storage'
  BY JobConstants, NextInv, NextStorage
<1>3. Inv /\ Storage /\ Inv' /\ Storage' /\ [Next]_vars
        => [Lifecycle!Next]_(Lifecycle!vars)
  BY JobConstants, StepSimulation
<1> QED
  BY <1>1, <1>2, <1>3, PTL DEF Spec, LifecycleSteps
=============================================================================
