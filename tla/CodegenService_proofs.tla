------------------------ MODULE CodegenService_proofs ------------------------
(***************************************************************************)
(* Theorems about CodegenService, for every value of its constants.         *)
(***************************************************************************)
EXTENDS CodegenService, FiniteSetTheorems, NaturalsInduction, TLAPS

(***************************************************************************)
(* The inductive invariant, one job at a time. That a visible suite is whole *)
(* was decided when its pool ended; it stays right because by then no call   *)
(* is in flight that could move a task, and nothing but the writes comes      *)
(* between. Calls that outlive a rejected pool belong to cancelled      *)
(* jobs, which never reach a suite.                                           *)
(***************************************************************************)
Suites == {"completed", "completed_with_errors"}

\* Before its submission nothing of a job exists.
Fresh(j) ==
    phase[j] = "none" =>
        /\ status[j] = "none" /\ ~aborted[j] /\ inFlight[j] = {}
        /\ manifest[j] = NoManifest /\ j \notin stored

\* How far process() is, and what a client sees of it. A job that is active
\* and aborted was cancelled while it read its source, and is about to fail.
Visible(j) ==
    /\ phase[j] # "none" => status[j] # "none"
    /\ phase[j] = "over" => status[j] \in Terminal
    /\ status[j] \in Finals => phase[j] = "over"
    /\ status[j] \in Active /\ aborted[j] => phase[j] \in {"failing", "failed"}

\* The pool works as long as calls are in flight, and they are those of the
\* tasks it has started. Only a cancelled job has calls that outlive it.
Calling(j) ==
    /\ phase[j] = "pool" => inFlight[j] # {}
    /\ phase[j] = "pool" /\ ~aborted[j] => inFlight[j] = Those(j, "generating")
    /\ inFlight[j] # {} => phase[j] = "pool" \/ (phase[j] = "over" /\ aborted[j])

Whole(j) ==
    /\ Those(j, "completed") # {}
    /\ Those(j, "pending") = {} /\ Those(j, "generating") = {}
Verdict(j) ==
    IF Those(j, "failed") = {} THEN "completed" ELSE "completed_with_errors"

Failure == [status |-> "failed", files |-> {}]

\* While the suite is written the verdict is decided and hidden.
Decided(j) ==
    /\ phase[j] \in {"writing", "written"} => Whole(j) /\ final[j] = Verdict(j)
    /\ phase[j] \notin {"written", "failed", "over"} => manifest[j] = NoManifest
    /\ phase[j] = "written" => manifest[j] = [status |-> final[j], files |-> Output(j)]
    /\ phase[j] = "failed" => manifest[j] \in {NoManifest, Failure}

\* A visible suite is whole, and its manifest lists what is on disk.
Concluded(j) ==
    /\ manifest[j].files \subseteq onDisk[j]
    /\ status[j] \in Suites =>
        /\ Whole(j) /\ status[j] = Verdict(j) /\ inFlight[j] = {}
        /\ manifest[j] = [status |-> status[j], files |-> Output(j)]

JobInv(j) == Fresh(j) /\ Visible(j) /\ Calling(j) /\ Decided(j) /\ Concluded(j)
Inv == TypeOK /\ \A j \in Jobs : JobInv(j)

-----------------------------------------------------------------------------
(* What a step leaves alone of a job keeps what is known of the job.          *)
Same(k) ==
    /\ k \in stored' => k \in stored
    /\ status'[k] = status[k] /\ aborted'[k] = aborted[k] /\ phase'[k] = phase[k]
    /\ task'[k] = task[k] /\ inFlight'[k] = inFlight[k] /\ final'[k] = final[k]
    /\ onDisk'[k] = onDisk[k] /\ manifest'[k] = manifest[k]

(* What is known of a job stays known when a step leaves the job alone. *)
LEMMA Untouched ==
  ASSUME NEW k \in Jobs, JobInv(k), Same(k)
  PROVE  JobInv(k)'
<1>1. \A s : Those(k, s)' = Those(k, s)
  BY DEF Those, Same
<1>2. /\ Whole(k)' = Whole(k) /\ Verdict(k)' = Verdict(k) /\ Output(k)' = Output(k)
  BY <1>1 DEF Whole, Verdict, Output
<1> QED
  BY <1>1, <1>2 DEF Same, JobInv, Fresh, Visible, Calling, Decided, Concluded

(* A non-empty set of files has a first one.                                  *)
LEMMA Least ==
  ASSUME NEW S \in SUBSET Nat, S # {}
  PROVE  \E x \in S : \A y \in S : x <= y
<1>1. PICK x \in S : \A y \in S : <<y, x>> \notin OpToRel(<, Nat)
  BY WFMin, NatLessThanWellFounded, Zenon
<1>2. \A y \in S : ~(y < x)
  BY <1>1, Zenon DEF OpToRel
<1> QED
  BY <1>2

(* Files are numbered in the order of the plan. *)
LEMMA FilesAreNumbers == Files \subseteq Nat
  BY CodegenConstants DEF Files, CodegenConstants

(* The pool takes no more files than it has runners.                          *)
LEMMA FirstBounded ==
  ASSUME NEW n \in Nat
  PROVE  /\ First(n) \subseteq Files /\ IsFiniteSet(First(n))
         /\ Cardinality(First(n)) <= Concurrency
<1>1. First(n) \in SUBSET (1..Concurrency)
  <2>1. \A f \in Files : f \in Nat /\ f >= 1
    BY CodegenConstants DEF Files, CodegenConstants
  <2> QED
    BY <2>1, CodegenConstants DEF First, CodegenConstants
<1>2. IsFiniteSet(1..Concurrency) /\ Cardinality(1..Concurrency) = Concurrency
  BY FS_Interval, CodegenConstants DEF CodegenConstants
<1> QED
  BY <1>1, <1>2, FS_Subset DEF First

-----------------------------------------------------------------------------
(* Types.                                                                     *)
LEMMA TypeInit == Init => TypeOK
<1> SUFFICES ASSUME Init PROVE TypeOK
  OBVIOUS
<1>1. Cardinality({}) = 0 /\ 0 <= Concurrency
  BY FS_EmptySet, CodegenConstants DEF CodegenConstants
<1>2. \A j \in Jobs : Cardinality(inFlight[j]) <= Concurrency
  BY <1>1 DEF Init
<1>3. NoManifest \in [status : {"none"} \cup Finals, files : SUBSET (Files \cup {0})]
  BY DEF NoManifest
<1> QED
  BY <1>2, <1>3 DEF Init, TypeOK, Finals

(* A job has finitely many files. *)
LEMMA FilesFinite == IsFiniteSet(Files)
<1> DEFINE Part == [k \in Jobs |-> 1..MaxFiles[k]]
           Parts == {1..MaxFiles[k] : k \in Jobs}
<1>1. \A p \in Parts : IsFiniteSet(p)
  BY FS_Interval, CodegenConstants DEF CodegenConstants
<1>2. Part \in Surjection(Jobs, Parts)
  BY DEF Surjection
<1>3. IsFiniteSet(Parts)
  <2> HIDE DEF Part, Parts
  <2> QED
    BY <1>2, FS_Surjection, CodegenConstants DEF CodegenConstants
<1> QED
  BY <1>1, <1>3, FS_UNION DEF Files

(* A runner that is through with a file takes at most one other.              *)
LEMMA RunnersBounded ==
  ASSUME TypeOK, NEW j \in Jobs, NEW f \in inFlight[j], NEW T \in SUBSET Files,
         \A g, h \in T : g = h
  PROVE  /\ Cardinality((inFlight[j] \ {f}) \cup T) <= Concurrency
         /\ Cardinality(inFlight[j] \ {f}) <= Concurrency
<1> DEFINE n == Cardinality(inFlight[j])
           L == inFlight[j] \ {f}
<1>1. IsFiniteSet(inFlight[j]) /\ n <= Concurrency
  BY FilesFinite, FS_Subset DEF TypeOK
<1>2. n \in Nat /\ Concurrency \in Nat
  BY <1>1, FS_CardinalityType, CodegenConstants DEF CodegenConstants
<1>3. IsFiniteSet(L) /\ Cardinality(L) = n - 1
  BY <1>1, FS_RemoveElement
<1>4. ASSUME T = {} PROVE Cardinality(L \cup T) <= Concurrency
  <2>1. L \cup T = L
    BY <1>4
  <2> HIDE DEF L, n
  <2> QED
    BY <1>1, <1>2, <1>3, <2>1
<1>5. ASSUME NEW g \in T PROVE Cardinality(L \cup T) <= Concurrency
  <2>1. T = {g}
    OBVIOUS
  <2>2. Cardinality(L \cup {g}) \in {n - 1, n}
    <3> HIDE DEF L, n
    <3>1. Cardinality(L \cup {g}) = IF g \in L THEN Cardinality(L) ELSE Cardinality(L) + 1
      BY <1>3, FS_AddElement
    <3> QED
      BY <1>2, <1>3, <3>1
  <2> HIDE DEF L, n
  <2> QED
    BY <1>1, <1>2, <2>1, <2>2
<1>6. T = {} \/ \E g \in T : TRUE
  OBVIOUS
<1>7. Cardinality(L \cup T) <= Concurrency
  <2> HIDE DEF L
  <2> QED
    BY <1>4, <1>5, <1>6
<1>8. Cardinality(L) <= Concurrency
  <2> HIDE DEF L, n
  <2> QED
    BY <1>1, <1>2, <1>3
<1> QED
  BY <1>7, <1>8

(* What FileOver does, one variable at a time.                                *)
Next1(j, f, result) ==
    [g \in Files |-> IF g = f THEN result
                     ELSE IF g \in FirstPending(j) THEN "generating" ELSE task[j][g]]
LeftOver(j, f) == (inFlight[j] \ {f}) \cup FirstPending(j)

(* What one file that is over changes: its task, the calls in flight, and, *)
(* when none is left, the verdict (service.ts:188-238).                    *)
LEMMA FileOverSteps ==
  ASSUME TypeOK, NEW j \in Jobs, NEW f \in Files, NEW result, FileOver(j, f, result)
  PROVE  /\ task' = [task EXCEPT ![j] = Next1(j, f, result)]
         /\ inFlight' = [inFlight EXCEPT ![j] = LeftOver(j, f)]
         /\ UNCHANGED <<stored, status, aborted, onDisk, manifest>>
         /\ \/ LeftOver(j, f) # {} /\ UNCHANGED <<phase, final>>
            \/ /\ LeftOver(j, f) = {} /\ (\E g \in Files : Next1(j, f, result)[g] = "completed")
               /\ phase' = [phase EXCEPT ![j] = "writing"]
               /\ final' = [final EXCEPT ![j] = IF \E g \in Files : Next1(j, f, result)[g] = "failed"
                                                THEN "completed_with_errors" ELSE "completed"]
            \/ /\ LeftOver(j, f) = {} /\ final' = final
               /\ phase' = [phase EXCEPT ![j] = "failing"]
  BY DEF FileOver, Next1, LeftOver, Set, Moves

(* A runner takes one pending task, and finds one if there is any. *)
LEMMA FirstPendingIsOne ==
  ASSUME NEW j \in Jobs
  PROVE  /\ FirstPending(j) \subseteq Those(j, "pending")
         /\ \A g, h \in FirstPending(j) : g = h
         /\ FirstPending(j) = {} => Those(j, "pending") = {}
<1>1. Those(j, "pending") \in SUBSET Nat
  BY FilesAreNumbers DEF Those
<1>2. Those(j, "pending") # {} => FirstPending(j) # {}
  BY <1>1, Least DEF FirstPending
<1>3. \A g, h \in FirstPending(j) : g <= h /\ h <= g /\ g \in Nat /\ h \in Nat
  BY <1>1 DEF FirstPending
<1> QED
  BY <1>2, <1>3 DEF FirstPending

(* A file that is over keeps the types, the bound on the calls in flight *)
(* included.                                                             *)
LEMMA FileOverTypes ==
  ASSUME TypeOK, NEW j \in Jobs, NEW f \in inFlight[j],
         NEW result \in {"completed", "failed"}, FileOver(j, f, result)
  PROVE  TypeOK'
<1>1. f \in Files /\ FirstPending(j) \in SUBSET Files
  BY FirstPendingIsOne DEF TypeOK, Those
<1>2. Cardinality(LeftOver(j, f)) <= Concurrency
  BY <1>1, FirstPendingIsOne, RunnersBounded DEF LeftOver
<1>3. Next1(j, f, result) \in [Files -> {"none", "pending", "generating", "completed", "failed"}]
  BY DEF Next1, TypeOK
<1>4. LeftOver(j, f) \subseteq Files
  BY <1>1 DEF LeftOver, TypeOK
<1>5. /\ task' = [task EXCEPT ![j] = Next1(j, f, result)]
      /\ inFlight' = [inFlight EXCEPT ![j] = LeftOver(j, f)]
      /\ UNCHANGED <<stored, status, aborted, onDisk, manifest>>
  BY <1>1, FileOverSteps
<1>6. /\ phase' \in [Jobs -> {"none", "source", "pool", "writing", "written", "failing",
                           "failed", "over"}]
      /\ final' \in [Jobs -> Finals]
  <2>1. final \in [Jobs -> Finals] /\ {"completed", "completed_with_errors"} \subseteq Finals
        /\ phase \in [Jobs -> {"none", "source", "pool", "writing", "written", "failing",
                           "failed", "over"}]
    BY DEF TypeOK, Finals
  <2>2. CASE UNCHANGED <<phase, final>>
    BY <2>1, <2>2
  <2>3. CASE /\ phase' = [phase EXCEPT ![j] = "writing"]
             /\ \E v \in {"completed", "completed_with_errors"} :
                    final' = [final EXCEPT ![j] = v]
    BY <2>1, <2>3
  <2>4. CASE final' = final /\ phase' = [phase EXCEPT ![j] = "failing"]
    BY <2>1, <2>4
  <2> QED
    BY <1>1, FileOverSteps, <2>2, <2>3, <2>4
<1>7. \A k \in Jobs : Cardinality(inFlight'[k]) <= Concurrency
  BY <1>2, <1>5 DEF TypeOK
<1> QED
  BY <1>3, <1>4, <1>5, <1>6, <1>7 DEF TypeOK

(* Every step keeps the types. *)
LEMMA TypeStep == TypeOK /\ [Next]_vars => TypeOK'
<1> SUFFICES ASSUME TypeOK, [Next]_vars PROVE TypeOK'
  OBVIOUS
<1>1. ASSUME NEW j \in Jobs, Submit(j) PROVE TypeOK'
  BY <1>1 DEF Submit, Set, Moves, TypeOK, Active
<1>2. ASSUME NEW j \in Jobs, SourceFails(j) \/ PersistFails(j) PROVE TypeOK'
  BY <1>2 DEF SourceFails, PersistFails, Catch, Set, Moves, TypeOK
<1>3. ASSUME NEW j \in Jobs, SourceLoaded(j) PROVE TypeOK'
  <2>1. PICK n \in 1..MaxFiles[j] :
          LET taken == IF aborted[j] THEN {} ELSE First(n)
          IN  /\ task' = Set(task, j, [f \in Files |-> IF f > n THEN "none"
                                         ELSE IF f \in taken THEN "generating" ELSE "pending"])
              /\ inFlight' = Set(inFlight, j, taken)
    BY <1>3 DEF SourceLoaded
  <2> DEFINE taken == IF aborted[j] THEN {} ELSE First(n)
  <2>2. taken \subseteq Files /\ Cardinality(taken) <= Concurrency
    BY FirstBounded, FS_EmptySet, CodegenConstants DEF CodegenConstants
  <2>3. /\ task' = [task EXCEPT ![j] = [f \in Files |-> IF f > n THEN "none"
                                         ELSE IF f \in taken THEN "generating" ELSE "pending"]]
        /\ inFlight' = [inFlight EXCEPT ![j] = taken]
    BY <2>1 DEF Set
  <2> HIDE DEF taken
  <2>4. /\ task' \in [Jobs -> [Files -> {"none", "pending", "generating", "completed", "failed"}]]
        /\ inFlight' \in [Jobs -> SUBSET Files]
        /\ \A k \in Jobs : Cardinality(inFlight'[k]) <= Concurrency
    BY <2>2, <2>3 DEF TypeOK
  <2> QED
    BY <1>3, <2>4 DEF SourceLoaded, Set, Moves, TypeOK, Active
<1>4. ASSUME NEW j \in Jobs, NEW f \in Files, FileGenerated(j, f) \/ FileFails(j, f)
      PROVE  TypeOK'
  BY <1>4, FileOverTypes DEF FileGenerated, FileFails
<1>5. ASSUME NEW j \in Jobs, NEW f \in Files, FileAborted(j, f) PROVE TypeOK'
  <2>1. f \in inFlight[j] /\ inFlight' = [inFlight EXCEPT ![j] = inFlight[j] \ {f}]
    BY <1>5 DEF FileAborted, Set
  <2>2. Cardinality(inFlight[j] \ {f}) <= Concurrency
    BY <2>1, RunnersBounded
  <2>3. /\ inFlight' \in [Jobs -> SUBSET Files]
        /\ \A k \in Jobs : Cardinality(inFlight'[k]) <= Concurrency
    BY <2>1, <2>2 DEF TypeOK
  <2> QED
    BY <1>5, <2>3 DEF FileAborted, Catch, Set, Moves, TypeOK
<1>6. ASSUME NEW j \in Jobs, FileWritten(j) PROVE TypeOK'
  BY <1>6 DEF FileWritten, Output, Those, TypeOK
<1>7. ASSUME NEW j \in Jobs, ManifestWritten(j) PROVE TypeOK'
  BY <1>7 DEF ManifestWritten, Set, Moves, Output, Those, Terminal, TypeOK
<1>8. ASSUME NEW j \in Jobs, FailureWritten(j) \/ Conclude(j) PROVE TypeOK'
  <2>1. CASE FailureWritten(j)
    <3>1. [status |-> "failed", files |-> {}]
            \in [status : {"none"} \cup Finals, files : SUBSET (Files \cup {0})]
      BY DEF Finals
    <3>2. manifest' \in [Jobs -> [status : {"none"} \cup Finals, files : SUBSET (Files \cup {0})]]
      BY <2>1, <3>1 DEF FailureWritten, Set, TypeOK
    <3> QED
      BY <2>1, <3>2 DEF FailureWritten, Set, Moves, TypeOK
  <2>2. CASE Conclude(j)
    <3>1. (IF phase[j] = "written" THEN final[j] ELSE "failed") \in Terminal
      BY DEF Terminal, Finals, TypeOK
    <3> QED
      BY <2>2, <3>1 DEF Conclude, Set, Moves, TypeOK
  <2> QED
    BY <1>8, <2>1, <2>2
<1>9. ASSUME NEW j \in Jobs, Cancel(j) PROVE TypeOK'
  BY <1>9 DEF Cancel, Set, Terminal, TypeOK
<1>10. CASE UNCHANGED vars
  BY <1>10 DEF vars, TypeOK
<1> QED
  BY <1>1, <1>2, <1>3, <1>4, <1>5, <1>6, <1>7, <1>8, <1>9, <1>10 DEF Next, Rest

-----------------------------------------------------------------------------
(* One lemma for each action: it keeps what is known of its own job, and       *)
(* leaves the others alone.                                                   *)
Others(j) == \A k \in Jobs \ {j} : Same(k)

(* The invariant holds at the start. *)
LEMMA InitInv == Init => Inv
<1> SUFFICES ASSUME Init PROVE Inv
  OBVIOUS
<1>1. ASSUME NEW j \in Jobs PROVE JobInv(j)
  BY DEF Init, JobInv, Fresh, Visible, Calling, Decided, Concluded, NoManifest,
         Suites, Active, Finals
<1> QED
  BY <1>1, TypeInit DEF Inv

(* A submission starts a fresh record and touches no other job. *)
LEMMA SubmitInv ==
  ASSUME Inv, NEW j \in Jobs, Submit(j)
  PROVE  JobInv(j)' /\ Others(j)
<1>1. JobInv(j) /\ phase[j] = "none"
  BY DEF Inv, JobInv, Visible, Submit, Suites, Finals
<1>2. /\ status'[j] = "planning" /\ phase'[j] = "source"
      /\ \A k \in Jobs \ {j} : status'[k] = status[k] /\ phase'[k] = phase[k]
      /\ stored' \subseteq stored \cup {j}
      /\ UNCHANGED <<aborted, task, inFlight, final, onDisk, manifest>>
  BY DEF Submit, Set, Moves, Inv, TypeOK
<1>3. Others(j)
  BY <1>2 DEF Others, Same
<1>4. JobInv(j)'
  BY <1>1, <1>2 DEF JobInv, Fresh, Visible, Calling, Decided, Concluded, Suites, Active, Finals
<1> QED
  BY <1>3, <1>4

(* An error on the way sends the job to its catch, before anything is *)
(* visible.                                                           *)
LEMMA CatchInv ==
  ASSUME Inv, NEW j \in Jobs, SourceFails(j) \/ PersistFails(j)
  PROVE  JobInv(j)' /\ Others(j)
<1>1. JobInv(j) /\ phase[j] \in {"source", "writing"} /\ inFlight[j] = {}
  BY DEF Inv, JobInv, Calling, SourceFails, PersistFails
<1>2. /\ phase'[j] = IF status[j] = "cancelled" THEN "over" ELSE "failing"
      /\ \A k \in Jobs \ {j} : phase'[k] = phase[k]
      /\ UNCHANGED <<stored, status, aborted, task, inFlight, final, onDisk, manifest>>
  BY DEF SourceFails, PersistFails, Catch, Set, Moves, Inv, TypeOK
<1>3. Others(j)
  BY <1>2 DEF Others, Same
<1>4. JobInv(j)'
  BY <1>1, <1>2 DEF JobInv, Fresh, Visible, Calling, Decided, Concluded, Suites, Terminal, Finals
<1> QED
  BY <1>3, <1>4

(* The pool starts with the calls of the tasks that it has put to *)
(* generating, also over a cancellation.                          *)
LEMMA SourceLoadedInv ==
  ASSUME Inv, NEW j \in Jobs, SourceLoaded(j)
  PROVE  JobInv(j)' /\ Others(j)
<1>1. JobInv(j) /\ phase[j] = "source" /\ inFlight[j] = {} /\ manifest[j] = NoManifest
  BY DEF Inv, JobInv, Calling, Decided, SourceLoaded
<1>2. PICK n \in 1..MaxFiles[j] :
        LET taken == IF aborted[j] THEN {} ELSE First(n)
        IN  /\ task' = Set(task, j, [f \in Files |-> IF f > n THEN "none"
                                       ELSE IF f \in taken THEN "generating" ELSE "pending"])
            /\ inFlight' = Set(inFlight, j, taken)
  BY DEF SourceLoaded
<1> DEFINE taken == IF aborted[j] THEN {} ELSE First(n)
<1>3. /\ task'[j] = [f \in Files |-> IF f > n THEN "none"
                       ELSE IF f \in taken THEN "generating" ELSE "pending"]
      /\ inFlight'[j] = taken
      /\ \A k \in Jobs \ {j} : task'[k] = task[k] /\ inFlight'[k] = inFlight[k]
  BY <1>2 DEF Set, Inv, TypeOK
<1>4. /\ status'[j] = "generating"
      /\ phase'[j] = IF aborted[j] THEN "failing" ELSE "pool"
      /\ \A k \in Jobs \ {j} : status'[k] = status[k] /\ phase'[k] = phase[k]
      /\ UNCHANGED <<stored, aborted, final, onDisk, manifest>>
  BY DEF SourceLoaded, Set, Moves, Inv, TypeOK
<1>5. Others(j)
  BY <1>3, <1>4 DEF Others, Same
<1>6. First(n) # {} /\ \A f \in First(n) : f \in Files /\ ~(f > n)
  <2>1. 1 \in Files
    BY CodegenConstants DEF Files, CodegenConstants
  <2>2. 1 \in First(n)
    BY <2>1, CodegenConstants DEF First, CodegenConstants
  <2>3. n \in Nat
    BY CodegenConstants DEF CodegenConstants
  <2>4. ASSUME NEW f \in First(n) PROVE f \in Files /\ ~(f > n)
    <3>1. f \in Files /\ f \in Nat /\ f <= n
      BY FilesAreNumbers DEF First
    <3> QED
      BY <2>3, <3>1
  <2> QED
    BY <2>2, <2>4
<1>7. Calling(j)'
  <2>1. CASE aborted[j]
    BY <1>3, <1>4, <2>1 DEF Calling
  <2>2. CASE ~aborted[j]
    <3>1. Those(j, "generating")' = First(n)
      BY <1>3, <1>6, <2>2 DEF Those
    <3> QED
      BY <1>3, <1>4, <1>6, <2>2, <3>1 DEF Calling
  <2> QED
    BY <2>1, <2>2
<1>8. JobInv(j)'
  BY <1>1, <1>4, <1>7 DEF JobInv, Fresh, Visible, Decided, Concluded, Suites, Active, Finals
<1> QED
  BY <1>5, <1>8

(* A file is over: as long as calls are left nothing is decided, and the last  *)
(* one leaves no task pending or generating.                                   *)
LEMMA FileOverInv ==
  ASSUME Inv, NEW j \in Jobs, NEW f \in inFlight[j], ~aborted[j],
         NEW result \in {"completed", "failed"}, FileOver(j, f, result)
  PROVE  JobInv(j)' /\ Others(j)
<1> DEFINE now == Next1(j, f, result)
           left == LeftOver(j, f)
<1>1. /\ JobInv(j) /\ phase[j] = "pool" /\ inFlight[j] = Those(j, "generating")
      /\ manifest[j] = NoManifest /\ status[j] \notin Suites
  BY DEF Inv, JobInv, Calling, Decided, Visible, Suites, Finals
<1>2. f \in Files /\ TypeOK
  BY DEF Inv, TypeOK
<1>3. /\ task'[j] = now /\ inFlight'[j] = left
      /\ \A k \in Jobs \ {j} : task'[k] = task[k] /\ inFlight'[k] = inFlight[k]
      /\ UNCHANGED <<stored, status, aborted, onDisk, manifest>>
  BY <1>2, FileOverSteps DEF TypeOK
<1>4. \A k \in Jobs \ {j} : phase'[k] = phase[k] /\ final'[k] = final[k]
  <2>1. /\ phase' = phase \/ \E p : phase' = [phase EXCEPT ![j] = p]
        /\ final' = final \/ \E s : final' = [final EXCEPT ![j] = s]
    BY <1>2, FileOverSteps, Zenon
  <2>2. DOMAIN phase = Jobs /\ DOMAIN final = Jobs
    BY <1>2 DEF TypeOK
  <2> QED
    BY <2>1, <2>2
<1>5. Others(j)
  BY <1>3, <1>4 DEF Others, Same
<1>6. Those(j, "generating")' = left
  <2>1. ASSUME NEW g \in Files
        PROVE  now[g] = "generating" <=> g \in left
    <3>1. now[g] = IF g = f THEN result
                   ELSE IF g \in FirstPending(j) THEN "generating" ELSE task[j][g]
      BY DEF Next1
    <3>2. g \in left <=> g \in FirstPending(j) \/ (g # f /\ task[j][g] = "generating")
      BY <1>1 DEF LeftOver, Those
    <3>3. f \notin FirstPending(j)
      BY <1>1, FirstPendingIsOne DEF Those
    <3> QED
      BY <3>1, <3>2, <3>3
  <2>2. left \subseteq Files
    BY <1>1, FirstPendingIsOne DEF LeftOver, Those
  <2> HIDE DEF now, left
  <2> QED
    BY <1>3, <2>1, <2>2 DEF Those
<1>7. CASE left # {}
  <2>1. phase'[j] = "pool"
    BY <1>1, <1>2, <1>7, FileOverSteps
  <2> HIDE DEF now, left
  <2> QED
    BY <1>1, <1>3, <1>5, <1>6, <1>7, <2>1
       DEF JobInv, Fresh, Visible, Calling, Decided, Concluded, Suites, Finals
<1>8. CASE left = {} /\ phase'[j] = "failing"
  <2> HIDE DEF now, left
  <2> QED
    BY <1>1, <1>3, <1>5, <1>6, <1>8
       DEF JobInv, Fresh, Visible, Calling, Decided, Concluded, Suites, Finals
<1>9. CASE /\ left = {} /\ phase'[j] = "writing"
           /\ \E g \in Files : now[g] = "completed"
           /\ final'[j] = IF \E g \in Files : now[g] = "failed"
                          THEN "completed_with_errors" ELSE "completed"
  <2>1. Those(j, "pending")' = {}
    <3>1. FirstPending(j) = {} /\ Those(j, "pending") = {}
      BY <1>9, FirstPendingIsOne DEF LeftOver
    <3>2. \A g \in Files : now[g] # "pending"
      BY <3>1 DEF Next1, Those
    <3> QED
      BY <1>3, <3>2 DEF Those
  <2> HIDE DEF now, left
  <2>2. Whole(j)' /\ final'[j] = Verdict(j)'
    BY <1>3, <1>6, <1>9, <2>1 DEF Whole, Verdict, Those
  <2> QED
    BY <1>1, <1>3, <1>5, <1>9, <2>2
       DEF JobInv, Fresh, Visible, Calling, Decided, Concluded, Suites, Finals
<1> QED
  BY <1>2, <1>7, <1>8, <1>9, FileOverSteps DEF TypeOK

(* A call rejected by the cancellation ends the pool, or outlives it. *)
LEMMA FileAbortedInv ==
  ASSUME Inv, NEW j \in Jobs, NEW f \in Files, FileAborted(j, f)
  PROVE  JobInv(j)' /\ Others(j)
<1>1. /\ JobInv(j) /\ aborted[j] /\ phase[j] \in {"pool", "over"}
      /\ status[j] \notin Suites /\ (phase[j] = "pool" => status[j] = "cancelled")
  <2>1. JobInv(j) /\ f \in inFlight[j] /\ aborted[j]
    BY DEF Inv, FileAborted
  <2>2. status[j] \in {"none"} \cup Active \cup Terminal
    BY DEF Inv, TypeOK
  <2>3. phase[j] \in {"pool", "over"} /\ status[j] \notin Suites
    BY <2>1 DEF JobInv, Calling, Concluded
  <2>4. phase[j] = "pool" => status[j] = "cancelled"
    BY <2>1, <2>2, <2>3 DEF JobInv, Visible, Terminal, Finals, Suites, Active
  <2> QED
    BY <2>1, <2>3, <2>4
<1>2. /\ inFlight'[j] \subseteq inFlight[j] /\ phase'[j] = "over"
      /\ \A k \in Jobs \ {j} : inFlight'[k] = inFlight[k] /\ phase'[k] = phase[k]
      /\ UNCHANGED <<stored, status, aborted, task, final, onDisk, manifest>>
  BY <1>1 DEF FileAborted, Catch, Set, Moves, Inv, TypeOK
<1>3. Others(j)
  BY <1>2 DEF Others, Same
<1>4. JobInv(j)'
  BY <1>1, <1>2 DEF JobInv, Fresh, Visible, Calling, Decided, Concluded, Terminal, Suites, Finals
<1> QED
  BY <1>3, <1>4

(* The writes of the suite, and the verdict that appears with its manifest.     *)
LEMMA FileWrittenInv ==
  ASSUME Inv, NEW j \in Jobs, FileWritten(j)
  PROVE  JobInv(j)' /\ Others(j)
<1>1. JobInv(j) /\ phase[j] = "writing" /\ manifest[j] = NoManifest
  BY DEF Inv, JobInv, Decided, FileWritten
<1>2. /\ \A k \in Jobs \ {j} : onDisk'[k] = onDisk[k]
      /\ UNCHANGED <<stored, status, aborted, phase, task, inFlight, final, manifest>>
  BY DEF FileWritten, Inv, TypeOK
<1>3. Others(j)
  BY <1>2 DEF Others, Same
<1>4. \A s : Those(j, s)' = Those(j, s)
  BY <1>2 DEF Those
<1>5. Whole(j)' = Whole(j) /\ Verdict(j)' = Verdict(j)
  BY <1>4 DEF Whole, Verdict
<1>6. status[j] \notin Suites /\ manifest[j].files = {}
  BY <1>1 DEF JobInv, Visible, Suites, Finals, NoManifest
<1>7. JobInv(j)'
  BY <1>1, <1>2, <1>5, <1>6 DEF JobInv, Fresh, Visible, Calling, Decided, Concluded
<1> QED
  BY <1>3, <1>7

(* The manifest lists what is on disk, with the verdict of the tasks.          *)
LEMMA ManifestWrittenInv ==
  ASSUME Inv, NEW j \in Jobs, ManifestWritten(j)
  PROVE  JobInv(j)' /\ Others(j)
<1>1. /\ JobInv(j) /\ phase[j] = "writing" /\ inFlight[j] = {}
      /\ Whole(j) /\ final[j] = Verdict(j)
  BY DEF Inv, JobInv, Calling, Decided, ManifestWritten
<1>2. /\ phase'[j] = "written"
      /\ manifest'[j] = [status |-> final[j], files |-> Output(j)]
      /\ Output(j) \subseteq onDisk[j]
      /\ \A k \in Jobs \ {j} : phase'[k] = phase[k] /\ manifest'[k] = manifest[k]
      /\ UNCHANGED <<stored, status, aborted, task, inFlight, final, onDisk>>
  BY DEF ManifestWritten, Set, Moves, Inv, TypeOK
<1>3. Others(j)
  BY <1>2 DEF Others, Same
<1>4. \A s : Those(j, s)' = Those(j, s)
  BY <1>2 DEF Those
<1>5. Whole(j)' /\ Verdict(j)' = final[j] /\ Output(j)' = Output(j)
  BY <1>1, <1>4 DEF Whole, Verdict, Output
<1>6. status[j] \notin Suites
  BY <1>1 DEF JobInv, Visible, Suites, Finals
<1>7. JobInv(j)'
  BY <1>1, <1>2, <1>5, <1>6 DEF JobInv, Fresh, Visible, Calling, Decided, Concluded, Finals
<1> QED
  BY <1>3, <1>7

(* The manifest of a failed job lists no file. *)
LEMMA FailureWrittenInv ==
  ASSUME Inv, NEW j \in Jobs, FailureWritten(j)
  PROVE  JobInv(j)' /\ Others(j)
<1>1. /\ JobInv(j) /\ phase[j] = "failing" /\ inFlight[j] = {} /\ manifest[j] = NoManifest
      /\ status[j] \notin Suites
  BY DEF Inv, JobInv, Calling, Decided, Visible, Suites, Finals, FailureWritten
<1>2. /\ phase'[j] = "failed"
      /\ manifest'[j] \in {manifest[j], Failure}
      /\ \A k \in Jobs \ {j} : phase'[k] = phase[k] /\ manifest'[k] = manifest[k]
      /\ UNCHANGED <<stored, status, aborted, task, inFlight, final, onDisk>>
  BY DEF FailureWritten, Set, Moves, Inv, TypeOK, Failure
<1>3. Others(j)
  BY <1>2 DEF Others, Same
<1>4. manifest'[j].files \subseteq onDisk[j]
  BY <1>1, <1>2 DEF NoManifest, Failure
<1>5. JobInv(j)'
  BY <1>1, <1>2, <1>4 DEF JobInv, Fresh, Visible, Calling, Decided, Concluded, Finals, Failure
<1> QED
  BY <1>3, <1>5

(* The verdict that becomes visible is the manifest's, and a failure leaves no *)
(* manifest that says otherwise.                                               *)
LEMMA ConcludeInv ==
  ASSUME Inv, NEW j \in Jobs, Conclude(j)
  PROVE  JobInv(j)' /\ Others(j)
<1>1. JobInv(j) /\ phase[j] \in {"written", "failed"} /\ inFlight[j] = {}
  BY DEF Inv, JobInv, Calling, Conclude
<1>2. /\ status'[j] = IF phase[j] = "written" THEN final[j] ELSE "failed"
      /\ phase'[j] = "over"
      /\ \A k \in Jobs \ {j} : status'[k] = status[k] /\ phase'[k] = phase[k]
      /\ UNCHANGED <<stored, aborted, task, inFlight, final, onDisk, manifest>>
  BY DEF Conclude, Set, Moves, Inv, TypeOK
<1>3. Others(j)
  BY <1>2 DEF Others, Same
<1>4. \A s : Those(j, s)' = Those(j, s)
  BY <1>2 DEF Those
<1>5. Whole(j)' = Whole(j) /\ Verdict(j)' = Verdict(j) /\ Output(j)' = Output(j)
  BY <1>4 DEF Whole, Verdict, Output
<1>6. CASE phase[j] = "written"
  <2>1. Whole(j) /\ final[j] = Verdict(j)
        /\ manifest[j] = [status |-> final[j], files |-> Output(j)]
    BY <1>1, <1>6 DEF JobInv, Decided
  <2>2. final[j] \in Suites /\ final[j] \in Terminal /\ final[j] \notin Active
    BY <2>1 DEF Verdict, Suites, Terminal, Finals, Active
  <2> QED
    BY <1>1, <1>2, <1>3, <1>5, <1>6, <2>1, <2>2
       DEF JobInv, Fresh, Visible, Calling, Decided, Concluded, Suites, Finals
<1>7. CASE phase[j] = "failed"
  BY <1>1, <1>2, <1>3, <1>7 DEF JobInv, Fresh, Visible, Calling, Decided, Concluded,
                                Suites, Terminal, Finals, Active
<1> QED
  BY <1>1, <1>6, <1>7

(* A cancellation changes no task and no file. *)
LEMMA CancelInv ==
  ASSUME Inv, NEW j \in Jobs, Cancel(j)
  PROVE  JobInv(j)' /\ Others(j)
<1>1. JobInv(j) /\ status[j] \in Active /\ phase[j] \notin {"none", "over"}
  <2>1. JobInv(j) /\ status[j] \in Active
    BY DEF Inv, Cancel
  <2> QED
    BY <2>1 DEF JobInv, Fresh, Visible, Active, Terminal, Finals, Suites
<1>2. /\ status'[j] = "cancelled" /\ aborted'[j] = TRUE
      /\ \A k \in Jobs \ {j} : status'[k] = status[k] /\ aborted'[k] = aborted[k]
      /\ UNCHANGED <<stored, phase, task, inFlight, final, onDisk, manifest>>
  BY DEF Cancel, Set, Inv, TypeOK
<1>3. Others(j)
  BY <1>2 DEF Others, Same
<1>4. \A s : Those(j, s)' = Those(j, s)
  BY <1>2 DEF Those
<1>5. Whole(j)' = Whole(j) /\ Verdict(j)' = Verdict(j) /\ Output(j)' = Output(j)
  BY <1>4 DEF Whole, Verdict, Output
<1>6. Calling(j)' /\ Decided(j)'
  BY <1>1, <1>2, <1>4, <1>5 DEF JobInv, Calling, Decided
<1>7. JobInv(j)'
  BY <1>1, <1>2, <1>5, <1>6 DEF JobInv, Fresh, Visible, Concluded, Suites, Active, Finals
<1> QED
  BY <1>3, <1>7

-----------------------------------------------------------------------------
(* Every step keeps the invariant of the job it is about, and leaves the *)
(* others alone.                                                         *)
LEMMA NextInv == Inv /\ [Next]_vars => Inv'
<1> SUFFICES ASSUME Inv, [Next]_vars PROVE Inv'
  OBVIOUS
<1>1. TypeOK'
  BY TypeStep DEF Inv
<1>2. ASSUME NEW j \in Jobs, JobInv(j)', Others(j) PROVE \A k \in Jobs : JobInv(k)'
  <2>1. ASSUME NEW k \in Jobs \ {j} PROVE JobInv(k)'
    BY <1>2, Untouched DEF Others, Inv
  <2> QED
    BY <1>2, <2>1
<1>3. ASSUME NEW j \in Jobs, NEW f \in Files,
             FileGenerated(j, f) \/ FileFails(j, f) \/ FileAborted(j, f)
      PROVE  JobInv(j)' /\ Others(j)
  BY <1>3, FileOverInv, FileAbortedInv DEF FileGenerated, FileFails
<1>4. ASSUME NEW j \in Jobs,
             \/ Submit(j) \/ SourceFails(j) \/ SourceLoaded(j)
             \/ FileWritten(j) \/ ManifestWritten(j) \/ PersistFails(j)
             \/ FailureWritten(j) \/ Conclude(j) \/ Cancel(j)
      PROVE  JobInv(j)' /\ Others(j)
  BY <1>4, SubmitInv, CatchInv, SourceLoadedInv, FileWrittenInv, ManifestWrittenInv,
     FailureWrittenInv, ConcludeInv, CancelInv
<1>5. ASSUME UNCHANGED vars, NEW k \in Jobs PROVE JobInv(k)'
  BY <1>5, Untouched DEF Same, vars, Inv
<1>6. \A k \in Jobs : JobInv(k)'
  BY <1>2, <1>3, <1>4, <1>5 DEF Next, Rest
<1> QED
  BY <1>1, <1>6 DEF Inv

(* The inductive invariant holds at every state.                              *)
THEOREM Invariance == Spec => []Inv
  BY InitInv, NextInv, PTL DEF Spec

(* Every value keeps its type, and no job ever has more model calls in flight  *)
(* than its options allow (the runners of runPool, service.ts:188-199).        *)
THEOREM TypeCorrect == Spec => []TypeOK
<1>1. Inv => TypeOK
  BY DEF Inv
<1> QED
  BY <1>1, Invariance, PTL

(* A visible suite was tried in full, and its status tells whether any file     *)
(* failed; a cancellation never ends in one (service.ts:188-238).               *)
THEOREM Honesty == Spec => []VerdictIsHonest
<1>1. Inv => VerdictIsHonest
  <2> SUFFICES ASSUME Inv, NEW j \in Jobs, status[j] \in Suites
               PROVE  /\ Those(j, "completed") # {}
                      /\ Those(j, "pending") \cup Those(j, "generating") = {}
                      /\ (status[j] = "completed") <=> (Those(j, "failed") = {})
    BY DEF VerdictIsHonest, Suites
  <2>1. Whole(j) /\ status[j] = Verdict(j)
    BY DEF Inv, JobInv, Concluded
  <2> QED
    BY <2>1 DEF Whole, Verdict
<1> QED
  BY <1>1, Invariance, PTL

(* The files that a manifest lists are on disk whenever it can be read, and a   *)
(* visible suite has its manifest (persist.ts:39-51; service.ts:241-249).       *)
THEOREM Flushed == Spec => []FlushedBeforeVisible
<1>1. Inv => FlushedBeforeVisible
  BY DEF Inv, JobInv, Concluded, Suites, FlushedBeforeVisible
<1> QED
  BY <1>1, Invariance, PTL

(* No step of the system starts a model call for a cancelled job                *)
(* (service.ts:190, 222).                                                       *)
THEOREM AbortStopsCalls == Spec => NoCallAfterAbort
<1>1. ASSUME Inv, [Next]_vars, NEW j \in Jobs, aborted[j]
      PROVE  inFlight'[j] \subseteq inFlight[j]
  <2>1. ASSUME NEW k \in Jobs, NEW f \in Files, FileGenerated(k, f) \/ FileFails(k, f)
        PROVE  inFlight'[j] = inFlight[j]
    <3>1. f \in inFlight[k] /\ j # k
      BY <1>1, <2>1 DEF FileGenerated, FileFails
    <3>2. JobInv(k)' /\ Others(k)
      BY <1>1, <2>1, <3>1, FileOverInv DEF FileGenerated, FileFails
    <3> QED
      BY <3>1, <3>2 DEF Others, Same
  <2>2. ASSUME NEW k \in Jobs, NEW f \in Files, FileAborted(k, f)
        PROVE  inFlight'[j] \subseteq inFlight[j]
    BY <1>1, <2>2 DEF FileAborted, Set, Inv, TypeOK
  <2>3. ASSUME NEW k \in Jobs, SourceLoaded(k)
        PROVE  inFlight'[j] \subseteq inFlight[j]
    <3>1. CASE j = k
      BY <1>1, <2>3, <3>1 DEF SourceLoaded, Set, Inv, TypeOK
    <3>2. CASE j # k
      BY <1>1, <2>3, <3>2, SourceLoadedInv DEF Others, Same
    <3> QED
      BY <3>1, <3>2
  <2>4. ASSUME NEW k \in Jobs,
               \/ Submit(k) \/ SourceFails(k) \/ FileWritten(k) \/ ManifestWritten(k)
               \/ PersistFails(k) \/ FailureWritten(k) \/ Conclude(k) \/ Cancel(k)
        PROVE  inFlight' = inFlight
    BY <2>4 DEF Submit, SourceFails, FileWritten, ManifestWritten, PersistFails,
                FailureWritten, Conclude, Cancel
  <2>5. CASE UNCHANGED vars
    BY <2>5 DEF vars
  <2> QED
    BY <1>1, <2>1, <2>2, <2>3, <2>4, <2>5 DEF Next, Rest
<1>2. Inv /\ [Next]_vars =>
        [\A j \in Jobs : aborted[j] => inFlight'[j] \subseteq inFlight[j]]_vars
  BY <1>1
<1> QED
  BY <1>2, Invariance, PTL DEF Spec, NoCallAfterAbort

-----------------------------------------------------------------------------
(***************************************************************************)
(* The steps of SuiteLifecycle. What it takes beyond the invariant is why a   *)
(* job may give up: it has no plan yet, it has tried everything, or it was     *)
(* cancelled before it tried anything.                                        *)
(***************************************************************************)
Reason(j) ==
    /\ phase[j] \in {"none", "source"} => \A f \in Files : task[j][f] = "none"
    /\ status[j] = "cancelled" => aborted[j]
    /\ phase[j] \in {"failing", "failed"} =>
        \/ \A f \in Files : task[j][f] = "none"
        \/ Those(j, "pending") = {} /\ Those(j, "generating") = {}
        \/ aborted[j] /\ Those(j, "completed") = {} /\ Those(j, "failed") = {}
Reasons == \A j \in Jobs : Reason(j)

(* The reasons hold at the start. *)
LEMMA InitReasons == Init => Reasons
  BY DEF Init, Reasons, Reason

(* A job left alone keeps its reason. *)
LEMMA ReasonKept ==
  ASSUME NEW k \in Jobs, Reason(k), Same(k)
  PROVE  Reason(k)'
<1>1. \A s : Those(k, s)' = Those(k, s)
  BY DEF Those, Same
<1> QED
  BY <1>1 DEF Reason, Same

(* A file that is over leaves the pool running, or a suite to be written, or *)
(* nothing more to try.                                                      *)
LEMMA FileOverReason ==
  ASSUME Inv, Reasons, NEW j \in Jobs, NEW f \in inFlight[j], ~aborted[j],
         NEW result \in {"completed", "failed"}, FileOver(j, f, result)
  PROVE  Reason(j)'
<1>1. f \in Files /\ TypeOK /\ JobInv(j) /\ JobInv(j)' /\ phase[j] = "pool"
  BY FileOverInv DEF Inv, TypeOK, JobInv, Calling
<1>2. UNCHANGED <<status, aborted>> /\ inFlight' = [inFlight EXCEPT ![j] = LeftOver(j, f)]
      /\ task' = [task EXCEPT ![j] = Next1(j, f, result)]
  BY <1>1, FileOverSteps
<1>3. CASE phase' = phase
  BY <1>1, <1>2, <1>3 DEF Reason, Reasons
<1>4. CASE phase'[j] = "writing"
  BY <1>1, <1>2, <1>4 DEF Reason, Reasons
<1>5. CASE LeftOver(j, f) = {} /\ phase'[j] = "failing"
  <2>1. FirstPending(j) = {} /\ Those(j, "pending") = {}
    BY <1>5, FirstPendingIsOne DEF LeftOver
  <2>2. inFlight[j] = {f} /\ inFlight[j] = Those(j, "generating")
    BY <1>1, <1>5 DEF LeftOver, JobInv, Calling
  <2>3. \A g \in Files : Next1(j, f, result)[g] \notin {"pending", "generating"}
    BY <2>1, <2>2 DEF Next1, Those
  <2>4. task'[j] = Next1(j, f, result)
    BY <1>1, <1>2 DEF TypeOK
  <2>5. Those(j, "pending")' = {} /\ Those(j, "generating")' = {}
    BY <2>3, <2>4 DEF Those
  <2> QED
    BY <1>2, <1>5, <2>5 DEF Reason, Reasons
<1> QED
  BY <1>1, <1>3, <1>4, <1>5, FileOverSteps DEF TypeOK

(* Every step leaves the job it is about with a reason, and the others alone. *)
LEMMA NextReasons == Inv /\ Reasons /\ [Next]_vars => Reasons'
<1> SUFFICES ASSUME Inv, Reasons, [Next]_vars PROVE Reasons'
  OBVIOUS
<1>1. ASSUME NEW j \in Jobs, Reason(j)', Others(j) PROVE Reasons'
  <2>1. ASSUME NEW k \in Jobs \ {j} PROVE Reason(k)'
    BY <1>1, ReasonKept DEF Others, Reasons
  <2> QED
    BY <1>1, <2>1 DEF Reasons
<1>2. ASSUME NEW j \in Jobs, NEW f \in Files, FileGenerated(j, f) \/ FileFails(j, f)
      PROVE  Reason(j)' /\ Others(j)
  BY <1>2, FileOverInv, FileOverReason DEF FileGenerated, FileFails
<1>3. ASSUME NEW j \in Jobs, NEW f \in Files, FileAborted(j, f)
      PROVE  Reason(j)' /\ Others(j)
  <2>1. JobInv(j) /\ JobInv(j)' /\ Others(j) /\ UNCHANGED <<status, aborted, task>>
    BY <1>3, FileAbortedInv DEF FileAborted, Inv
  <2>2. inFlight[j] # {} /\ phase[j] \in {"pool", "over"} /\ aborted[j]
    BY <1>3, <2>1 DEF FileAborted, JobInv, Calling
  <2>3. status[j] \in {"none"} \cup Active \cup Terminal
    BY DEF Inv, TypeOK
  <2>4. phase[j] = "pool" => status[j] = "cancelled"
    BY <2>1, <2>2, <2>3 DEF JobInv, Visible, Terminal, Active
  <2>5. phase'[j] = "over"
    BY <1>3, <2>2, <2>4 DEF FileAborted, Catch, Moves, Set, Inv, TypeOK
  <2> QED
    BY <2>1, <2>5 DEF Reason, Reasons
<1>4. ASSUME NEW j \in Jobs, Submit(j) PROVE Reason(j)' /\ Others(j)
  <2>1. Others(j) /\ JobInv(j) /\ phase[j] = "none"
    BY <1>4, SubmitInv DEF Inv, JobInv, Visible, Submit, Suites, Finals
  <2>2. task' = task /\ status'[j] = "planning" /\ phase'[j] = "source"
    BY <1>4 DEF Submit, Set, Moves, Inv, TypeOK
  <2> QED
    BY <2>1, <2>2 DEF Reason, Reasons
<1>5. ASSUME NEW j \in Jobs, SourceFails(j) \/ PersistFails(j)
      PROVE  Reason(j)' /\ Others(j)
  <2>1. Others(j) /\ UNCHANGED <<status, aborted, task>> /\ JobInv(j)
        /\ phase[j] \in {"source", "writing"} /\ phase'[j] \in {"over", "failing"}
    BY <1>5, CatchInv DEF SourceFails, PersistFails, Catch, Moves, Set, Inv, TypeOK
  <2>2. \A s : Those(j, s)' = Those(j, s)
    BY <2>1 DEF Those
  <2>3. phase[j] = "writing" => Those(j, "pending") = {} /\ Those(j, "generating") = {}
    BY <2>1 DEF JobInv, Decided, Whole
  <2> QED
    BY <2>1, <2>2, <2>3 DEF Reason, Reasons
<1>6. ASSUME NEW j \in Jobs, SourceLoaded(j) PROVE Reason(j)' /\ Others(j)
  <2>1. Others(j)
    BY <1>6, SourceLoadedInv
  <2>2. status'[j] = "generating" /\ phase'[j] \in {"pool", "failing"} /\ aborted' = aborted
        /\ (phase'[j] = "failing" => aborted[j])
    BY <1>6 DEF SourceLoaded, Moves, Set, Inv, TypeOK
  <2>3. \A f \in Files : task'[j][f] \in {"none", "pending", "generating"}
    BY <1>6 DEF SourceLoaded, Set, Inv, TypeOK
  <2>4. Those(j, "completed")' = {} /\ Those(j, "failed")' = {}
    BY <2>3 DEF Those
  <2> QED
    BY <2>1, <2>2, <2>4 DEF Reason
<1>7. ASSUME NEW j \in Jobs, FileWritten(j) PROVE Reason(j)' /\ Others(j)
  <2>1. Others(j) /\ phase[j] = "writing" /\ UNCHANGED <<phase, status, aborted>>
    BY <1>7, FileWrittenInv DEF FileWritten
  <2> QED
    BY <2>1 DEF Reason, Reasons
<1>8. ASSUME NEW j \in Jobs, ManifestWritten(j) \/ FailureWritten(j) \/ Conclude(j)
      PROVE  Reason(j)' /\ Others(j)
  <2>1. Others(j)
    BY <1>8, ManifestWrittenInv, FailureWrittenInv, ConcludeInv
  <2>2. CASE ManifestWritten(j) \/ FailureWritten(j)
    <3>1. /\ UNCHANGED <<status, aborted, task>>
          /\ \/ phase'[j] = "written"
             \/ phase[j] = "failing" /\ phase'[j] = "failed"
      BY <2>2 DEF ManifestWritten, FailureWritten, Moves, Set, Inv, TypeOK
    <3>2. \A s : Those(j, s)' = Those(j, s)
      BY <3>1 DEF Those
    <3> QED
      BY <2>1, <3>1, <3>2 DEF Reason, Reasons
  <2>3. CASE Conclude(j)
    <3>1. phase'[j] = "over" /\ status'[j] \in Finals
      BY <2>3 DEF Conclude, Moves, Set, Inv, TypeOK, Finals
    <3> QED
      BY <2>1, <3>1 DEF Reason, Finals
  <2> QED
    BY <1>8, <2>2, <2>3
<1>9. ASSUME NEW j \in Jobs, Cancel(j) PROVE Reason(j)' /\ Others(j)
  <2>1. Others(j) /\ UNCHANGED <<phase, task>> /\ aborted'[j]
    BY <1>9, CancelInv DEF Cancel, Set, Inv, TypeOK
  <2>2. \A s : Those(j, s)' = Those(j, s)
    BY <2>1 DEF Those
  <2> QED
    BY <2>1, <2>2 DEF Reason, Reasons
<1>10. CASE UNCHANGED vars
  <2>1. \A k \in Jobs : Same(k)
    BY <1>10 DEF vars, Same
  <2> QED
    BY <2>1, ReasonKept DEF Reasons
<1> QED
  BY <1>1, <1>2, <1>3, <1>4, <1>5, <1>6, <1>7, <1>8, <1>9, <1>10 DEF Next, Rest

-----------------------------------------------------------------------------
(* What the abstract job sees of a step of one job is a change at that job.    *)
LEMMA OneJobChanges ==
  ASSUME Inv, Inv', NEW j \in Jobs, Others(j)
  PROVE  /\ Seen' = [Seen EXCEPT ![j] = Seen'[j]]
         /\ Planned' = [Planned EXCEPT ![j] = Planned'[j]]
         /\ Generated' = [Generated EXCEPT ![j] = Generated'[j]]
         /\ Broken' = [Broken EXCEPT ![j] = Broken'[j]]
         /\ aborted' = [aborted EXCEPT ![j] = aborted'[j]]
         /\ manifest' = [manifest EXCEPT ![j] = manifest'[j]]
<1>1. \A k \in Jobs \ {j} :
        /\ status'[k] = status[k] /\ task'[k] = task[k]
        /\ aborted'[k] = aborted[k] /\ manifest'[k] = manifest[k]
  BY DEF Others, Same
<1>2. \A k \in Jobs \ {j} : \A s : Those(k, s)' = Those(k, s)
  BY <1>1 DEF Those
<1>3. aborted' = [aborted EXCEPT ![j] = aborted'[j]]
      /\ manifest' = [manifest EXCEPT ![j] = manifest'[j]]
  BY <1>1 DEF Inv, TypeOK
<1>4. Seen' = [Seen EXCEPT ![j] = Seen'[j]]
  BY <1>1 DEF Seen
<1>5. Planned' = [Planned EXCEPT ![j] = Planned'[j]]
  BY <1>1 DEF Planned
<1>6. Generated' = [Generated EXCEPT ![j] = Generated'[j]]
  BY <1>2 DEF Generated
<1>7. Broken' = [Broken EXCEPT ![j] = Broken'[j]]
  BY <1>2 DEF Broken
<1> QED
  BY <1>3, <1>4, <1>5, <1>6, <1>7

(* What the abstract job sees of the tasks is decided by the tasks. *)
LEMMA SameTasks ==
  ASSUME task' = task
  PROVE  UNCHANGED <<Planned, Generated, Broken>>
<1>1. \A j, s : Those(j, s)' = Those(j, s)
  BY DEF Those
<1> QED
  BY <1>1 DEF Planned, Generated, Broken

(* A submission is accepted. *)
LEMMA SubmitAccepts ==
  ASSUME Inv, Inv', NEW j \in Jobs, Submit(j)
  PROVE  Lifecycle!Accept(j)
<1>1. UNCHANGED <<aborted, task, manifest>> /\ status[j] = "none" /\ status'[j] = "planning"
  BY DEF Submit, Set, Inv, TypeOK
<1>2. Seen[j] = "none" /\ Seen'[j] = "running"
  BY <1>1 DEF Seen, Active
<1>3. Seen' = [Seen EXCEPT ![j] = "running"]
  BY <1>2, SubmitInv, OneJobChanges
<1> QED
  BY <1>1, <1>2, <1>3, SameTasks DEF Lifecycle!Accept

(* A job that is past its submission and short of its verdict looks open. *)
LEMMA LooksOpen ==
  ASSUME Inv, NEW j \in Jobs, phase[j] \notin {"none", "over"}
  PROVE  /\ Seen[j] \in Lifecycle!Open
         /\ Seen[j] = IF status[j] = "cancelled" THEN "cancelled" ELSE "running"
<1>1. status[j] \in Active \cup {"cancelled"}
  BY DEF Inv, TypeOK, JobInv, Visible, Terminal
<1> QED
  BY <1>1 DEF Seen, Active, Lifecycle!Open

(* Before the verdict of its tries a job has nothing stored. *)
LEMMA NothingStored ==
  ASSUME Inv, NEW j \in Jobs, phase[j] \notin {"written", "failed", "over"}
  PROVE  manifest[j] = Lifecycle!NoManifest
  BY DEF Inv, JobInv, Decided, NoManifest, Lifecycle!NoManifest

(* The sources are there: the job has its plan, and looks active again even if *)
(* it was cancelled meanwhile (service.ts:165-190).                            *)
LEMMA SourceLoadedPlans ==
  ASSUME Inv, Inv', Reasons, NEW j \in Jobs, SourceLoaded(j)
  PROVE  Lifecycle!Plan(j)
<1>1. PICK n \in 1..MaxFiles[j] :
        LET taken == IF aborted[j] THEN {} ELSE First(n)
        IN  /\ task' = Set(task, j, [f \in Files |-> IF f > n THEN "none"
                                       ELSE IF f \in taken THEN "generating" ELSE "pending"])
            /\ inFlight' = Set(inFlight, j, taken)
  BY DEF SourceLoaded
<1> DEFINE taken == IF aborted[j] THEN {} ELSE First(n)
           S == {f \in Files : ~(f > n)}
<1>2. task'[j] = [f \in Files |-> IF f > n THEN "none"
                    ELSE IF f \in taken THEN "generating" ELSE "pending"]
  BY <1>1 DEF Set, Inv, TypeOK
<1>3. /\ phase[j] = "source" /\ status'[j] = "generating"
      /\ UNCHANGED <<aborted, manifest>>
  BY DEF SourceLoaded, Set, Inv, TypeOK
<1>4. Seen[j] \in Lifecycle!Open /\ Seen'[j] = "running"
  BY <1>3, LooksOpen DEF Seen, Active
<1>5. /\ Planned[j] = {} /\ Generated[j] = {} /\ Broken[j] = {}
      /\ Planned'[j] = S /\ Generated'[j] = {} /\ Broken'[j] = {}
  <2> HIDE DEF taken
  <2>1. \A f \in Files : task[j][f] = "none"
    BY <1>3 DEF Reasons, Reason
  <2>2. \A f \in Files : /\ task'[j][f] \in {"none", "generating", "pending"}
                         /\ task'[j][f] # "none" <=> ~(f > n)
    BY <1>2
  <2>3. Generated[j] = {} /\ Broken[j] = {} /\ Planned[j] = {}
    BY <2>1 DEF Planned, Generated, Broken, Those
  <2>4. Generated'[j] = {} /\ Broken'[j] = {} /\ Planned'[j] = S
    BY <2>2 DEF Planned, Generated, Broken, Those
  <2> QED
    BY <2>3, <2>4
<1>6. S \in (SUBSET Files) \ {{}}
  <2>1. 1 \in Files /\ n \in Nat /\ n >= 1
    BY CodegenConstants DEF Files, CodegenConstants
  <2> QED
    BY <2>1
<1> HIDE DEF S, taken
<1>7. /\ Seen' = [Seen EXCEPT ![j] = "running"] /\ Planned' = [Planned EXCEPT ![j] = S]
      /\ Generated' = Generated /\ Broken' = Broken
  <2>1. /\ Seen' = [Seen EXCEPT ![j] = "running"] /\ Planned' = [Planned EXCEPT ![j] = S]
        /\ Generated' = [Generated EXCEPT ![j] = {}] /\ Broken' = [Broken EXCEPT ![j] = {}]
    BY <1>4, <1>5, SourceLoadedInv, OneJobChanges
  <2> QED
    BY <1>5, <2>1 DEF Generated, Broken
<1> QED
  BY <1>3, <1>4, <1>5, <1>6, <1>7, NothingStored DEF Lifecycle!Plan

(* A file that is over has been tried, whatever the runner takes next and      *)
(* whether or not the pool ends with it (service.ts:188-238).                  *)
LEMMA FileOverTries ==
  ASSUME Inv, Inv', Reasons, NEW j \in Jobs, NEW f \in inFlight[j], ~aborted[j],
         NEW result \in {"completed", "failed"}, FileOver(j, f, result)
  PROVE  Lifecycle!Try(j)
<1>1. f \in Files /\ TypeOK /\ JobInv(j) /\ phase[j] = "pool" /\ task[j][f] = "generating"
  BY DEF Inv, TypeOK, JobInv, Calling, Those
<1>2. /\ UNCHANGED <<status, aborted, manifest>> /\ Others(j)
      /\ task'[j] = Next1(j, f, result)
  BY <1>1, FileOverSteps, FileOverInv DEF TypeOK
<1>3. Seen' = Seen /\ Seen[j] = "running"
  <2>1. status[j] # "cancelled"
    BY DEF Reasons, Reason
  <2> QED
    BY <1>1, <1>2, <2>1, LooksOpen DEF Seen
<1>4. \A g \in Files :
        \/ g = f /\ task'[j][g] = result
        \/ g # f /\ task[j][g] = "pending" /\ task'[j][g] = "generating"
        \/ g # f /\ task'[j][g] = task[j][g]
  BY <1>2, FirstPendingIsOne DEF Next1, Those
<1>5. f \in Planned[j] \ Lifecycle!Tried(j)
  BY <1>1 DEF Planned, Lifecycle!Tried, Generated, Broken, Those
<1>6. /\ Planned'[j] = Planned[j]
      /\ Generated'[j] = IF result = "completed" THEN Generated[j] \cup {f} ELSE Generated[j]
      /\ Broken'[j] = IF result = "failed" THEN Broken[j] \cup {f} ELSE Broken[j]
  <2>1. Planned'[j] = Planned[j]
    BY <1>1, <1>4 DEF Planned
  <2>2. Those(j, "completed")' = IF result = "completed" THEN Those(j, "completed") \cup {f}
                                 ELSE Those(j, "completed")
    BY <1>1, <1>4 DEF Those
  <2>3. Those(j, "failed")' = IF result = "failed" THEN Those(j, "failed") \cup {f}
                              ELSE Those(j, "failed")
    BY <1>1, <1>4 DEF Those
  <2> QED
    BY <2>1, <2>2, <2>3 DEF Generated, Broken
<1>7. /\ Planned' = Planned
      /\ Generated' = [Generated EXCEPT ![j] = Generated'[j]]
      /\ Broken' = [Broken EXCEPT ![j] = Broken'[j]]
      /\ (Generated'[j] = Generated[j] => Generated' = Generated)
      /\ (Broken'[j] = Broken[j] => Broken' = Broken)
  <2>1. /\ Planned' = [Planned EXCEPT ![j] = Planned'[j]]
        /\ Generated' = [Generated EXCEPT ![j] = Generated'[j]]
        /\ Broken' = [Broken EXCEPT ![j] = Broken'[j]]
    BY <1>2, OneJobChanges
  <2> QED
    BY <1>6, <2>1 DEF Planned, Generated, Broken
<1>8. CASE result = "completed"
  <2>1. Generated' = [Generated EXCEPT ![j] = @ \cup {f}] /\ Broken' = Broken
    BY <1>6, <1>7, <1>8
  <2> QED
    BY <1>1, <1>2, <1>3, <1>5, <1>7, <2>1, NothingStored DEF Lifecycle!Try
<1>9. CASE result = "failed"
  <2>1. Broken' = [Broken EXCEPT ![j] = @ \cup {f}] /\ Generated' = Generated
    BY <1>6, <1>7, <1>9
  <2> QED
    BY <1>1, <1>2, <1>3, <1>5, <1>7, <2>1, NothingStored DEF Lifecycle!Try
<1> QED
  BY <1>8, <1>9

(* What is decided of a suite to be published: the verdict of its tries, and its *)
(* manifest (service.ts:230-245).                                                *)
LEMMA SuiteIsTried ==
  ASSUME Inv, NEW j \in Jobs, phase[j] \in {"writing", "written"}
  PROVE  /\ Generated[j] # {} /\ Lifecycle!Tried(j) = Planned[j]
         /\ final[j] = Lifecycle!Verdict(j) /\ final[j] \notin Active
         /\ [status |-> final[j], files |-> Output(j)] = Lifecycle!Suite(j)
<1>1. Whole(j) /\ final[j] = Verdict(j) /\ task[j] \in
        [Files -> {"none", "pending", "generating", "completed", "failed"}]
  BY DEF Inv, TypeOK, JobInv, Decided
<1>2. Generated[j] # {} /\ Lifecycle!Tried(j) = Planned[j]
  BY <1>1 DEF Whole, Lifecycle!Tried, Generated, Broken, Planned, Those
<1>3. final[j] = Lifecycle!Verdict(j) /\ Output(j) = {0} \cup Generated[j]
  BY <1>1 DEF Lifecycle!Verdict, Verdict, Output, Generated, Broken
<1>4. final[j] \notin Active
  BY <1>1 DEF Verdict, Active
<1> QED
  BY <1>2, <1>3, <1>4 DEF Lifecycle!Suite

(* What is visible of a failing job is one of the reasons to give up.            *)
LEMMA FailureHasReason ==
  ASSUME Inv, Reasons, NEW j \in Jobs, phase[j] \in {"failing", "failed"}
  PROVE  Lifecycle!Reason(j)
<1>1. task[j] \in [Files -> {"none", "pending", "generating", "completed", "failed"}]
  BY DEF Inv, TypeOK
<1>2. CASE \A f \in Files : task[j][f] = "none"
  BY <1>2 DEF Planned, Lifecycle!Reason
<1>3. CASE Those(j, "pending") = {} /\ Those(j, "generating") = {}
  BY <1>1, <1>3 DEF Lifecycle!Tried, Generated, Broken, Planned, Those, Lifecycle!Reason
<1>4. CASE aborted[j] /\ Those(j, "completed") = {} /\ Those(j, "failed") = {}
  BY <1>4 DEF Lifecycle!Tried, Generated, Broken, Lifecycle!Reason
<1> QED
  BY <1>2, <1>3, <1>4 DEF Reasons, Reason

(* The manifest stores the suite (persist.ts:47-51). *)
LEMMA ManifestStores ==
  ASSUME Inv, Inv', NEW j \in Jobs, ManifestWritten(j)
  PROVE  Lifecycle!Store(j)
<1>1. /\ phase[j] = "writing" /\ UNCHANGED <<status, aborted, task>>
      /\ manifest'[j] = [status |-> final[j], files |-> Output(j)]
  BY DEF ManifestWritten, Set, Inv, TypeOK
<1>2. manifest[j] = Lifecycle!NoManifest
  BY <1>1, NothingStored
<1>3. Seen[j] \in Lifecycle!Open /\ Seen' = Seen
  BY <1>1, LooksOpen DEF Seen
<1>4. manifest' = [manifest EXCEPT ![j] = Lifecycle!Suite(j)]
  BY <1>1, ManifestWrittenInv, OneJobChanges, SuiteIsTried
<1> QED
  BY <1>1, <1>2, <1>3, <1>4, SuiteIsTried, SameTasks DEF Lifecycle!Store

(* The manifest of a failed job stores its failure, or nothing is stored *)
(* (service.ts:268-273).                                                  *)
LEMMA FailureStores ==
  ASSUME Inv, Inv', Reasons, NEW j \in Jobs, FailureWritten(j)
  PROVE  Lifecycle!Store(j) \/ UNCHANGED Lifecycle!vars
<1>1. /\ phase[j] = "failing" /\ UNCHANGED <<status, aborted, task>>
      /\ manifest' \in {manifest, [manifest EXCEPT ![j] = Lifecycle!Failure]}
  BY DEF FailureWritten, Set, Inv, TypeOK, Lifecycle!Failure
<1>2. manifest[j] = Lifecycle!NoManifest
  BY <1>1, NothingStored
<1>3. Seen[j] \in Lifecycle!Open /\ Seen' = Seen
  BY <1>1, LooksOpen DEF Seen
<1>4. Lifecycle!Reason(j)
  BY <1>1, FailureHasReason
<1> QED
  BY <1>1, <1>2, <1>3, <1>4, SameTasks DEF Lifecycle!Store, Lifecycle!vars

(* The verdict publishes what is stored, and a failure is one of the promised   *)
(* ends (service.ts:248, 274).                                                  *)
LEMMA ConcludePublishes ==
  ASSUME Inv, Inv', Reasons, NEW j \in Jobs, Conclude(j)
  PROVE  Lifecycle!Publish(j) \/ Lifecycle!GiveUp(j)
<1>1. /\ phase[j] \in {"written", "failed"} /\ UNCHANGED <<aborted, task, manifest>>
      /\ status'[j] = IF phase[j] = "written" THEN final[j] ELSE "failed"
  BY DEF Conclude, Set, Inv, TypeOK
<1>2. Seen[j] \in Lifecycle!Open
  BY <1>1, LooksOpen
<1>3. Seen' = [Seen EXCEPT ![j] = Seen'[j]]
  BY ConcludeInv, OneJobChanges
<1>4. CASE phase[j] = "written"
  <2>1. manifest[j] = Lifecycle!Suite(j)
    BY <1>4, SuiteIsTried DEF Inv, JobInv, Decided
  <2>2. Seen'[j] = Lifecycle!Verdict(j)
    BY <1>1, <1>4, SuiteIsTried DEF Seen
  <2> QED
    BY <1>1, <1>2, <1>3, <2>1, <2>2, SameTasks DEF Lifecycle!Publish
<1>5. CASE phase[j] = "failed"
  <2>1. manifest[j] \in {Lifecycle!NoManifest, Lifecycle!Failure}
    BY <1>5 DEF Inv, JobInv, Decided, NoManifest, Failure, Lifecycle!NoManifest, Lifecycle!Failure
  <2>2. Seen'[j] = "failed"
    BY <1>1, <1>5 DEF Seen, Active
  <2>3. Lifecycle!Reason(j)
    BY <1>5, FailureHasReason
  <2> QED
    BY <1>1, <1>2, <1>3, <2>1, <2>2, <2>3, SameTasks DEF Lifecycle!GiveUp
<1> QED
  BY <1>1, <1>4, <1>5

(* A cancellation is visible at once. *)
LEMMA CancelCancels ==
  ASSUME Inv, Inv', NEW j \in Jobs, Cancel(j)
  PROVE  Lifecycle!Cancel(j)
<1>1. /\ status[j] \in Active /\ status'[j] = "cancelled" /\ UNCHANGED <<task, manifest>>
      /\ aborted' = [aborted EXCEPT ![j] = TRUE]
  BY DEF Cancel, Set, Inv, TypeOK
<1>2. Seen[j] = "running" /\ Seen'[j] = "cancelled"
  BY <1>1 DEF Seen, Active
<1>3. Seen' = [Seen EXCEPT ![j] = "cancelled"]
  BY <1>2, CancelInv, OneJobChanges
<1> QED
  BY <1>1, <1>2, <1>3, SameTasks DEF Lifecycle!Cancel

(* Every step is a step of the abstract suite, or a stutter. *)
LEMMA StepSimulation ==
  Inv /\ Inv' /\ Reasons /\ [Next]_vars => [Lifecycle!Next]_(Lifecycle!vars)
<1> SUFFICES ASSUME Inv, Inv', Reasons, [Next]_vars
             PROVE  [Lifecycle!Next]_(Lifecycle!vars)
  OBVIOUS
<1>1. ASSUME UNCHANGED <<status, aborted, task, manifest>>
      PROVE  UNCHANGED Lifecycle!vars
  BY <1>1, SameTasks DEF Lifecycle!vars, Seen
<1>2. ASSUME NEW j \in Jobs, NEW f \in Files, FileGenerated(j, f) \/ FileFails(j, f)
      PROVE  Lifecycle!Try(j)
  BY <1>2, FileOverTries DEF FileGenerated, FileFails
<1>3. ASSUME NEW j \in Jobs, Submit(j) PROVE Lifecycle!Accept(j)
  BY <1>3, SubmitAccepts
<1>4. ASSUME NEW j \in Jobs, SourceLoaded(j) PROVE Lifecycle!Plan(j)
  BY <1>4, SourceLoadedPlans
<1>5. ASSUME NEW j \in Jobs, ManifestWritten(j) \/ FailureWritten(j)
      PROVE  Lifecycle!Store(j) \/ UNCHANGED Lifecycle!vars
  BY <1>5, ManifestStores, FailureStores
<1>6. ASSUME NEW j \in Jobs, Conclude(j)
      PROVE  Lifecycle!Publish(j) \/ Lifecycle!GiveUp(j)
  BY <1>6, ConcludePublishes
<1>7. ASSUME NEW j \in Jobs, Cancel(j) PROVE Lifecycle!Cancel(j)
  BY <1>7, CancelCancels
<1>8. ASSUME NEW j \in Jobs, NEW f \in Files, FileAborted(j, f)
      PROVE  UNCHANGED Lifecycle!vars
  BY <1>1, <1>8 DEF FileAborted
<1>9. ASSUME NEW j \in Jobs, SourceFails(j) \/ FileWritten(j) \/ PersistFails(j)
      PROVE  UNCHANGED Lifecycle!vars
  BY <1>1, <1>9 DEF SourceFails, FileWritten, PersistFails
<1>10. CASE UNCHANGED vars
  BY <1>1, <1>10 DEF vars
<1> QED
  BY <1>2, <1>3, <1>4, <1>5, <1>6, <1>7, <1>8, <1>9, <1>10
     DEF Next, Rest, Lifecycle!Next

(* Initial states are initial states of the abstract suite. *)
LEMMA InitSimulation == Init => Lifecycle!Init
<1> SUFFICES ASSUME Init PROVE Lifecycle!Init
  OBVIOUS
<1>1. \A j \in Jobs : \A s \in {"completed", "failed"} : Those(j, s) = {}
  BY DEF Init, Those
<1>2. \A j \in Jobs : {f \in Files : task[j][f] # "none"} = {}
  BY DEF Init
<1> QED
  BY <1>1, <1>2 DEF Init, Lifecycle!Init, Seen, Planned, Generated, Broken, Active, NoManifest,
                    Lifecycle!NoManifest

(* Every behaviour of the jobs, seen from outside, is one of the promised     *)
(* lifecycle: a plan, one try of each file, and then one suite whose verdict   *)
(* follows from the tries, or a failure for a reason (service.ts:188-282).     *)
THEOREM Implementation == Spec => ImplementsLifecycle
<1>1. Init => Lifecycle!Init /\ Inv /\ Reasons
  BY InitSimulation, InitInv, InitReasons
<1>2. Inv /\ Reasons /\ [Next]_vars => Inv' /\ Reasons'
  BY NextInv, NextReasons
<1>3. Inv /\ Inv' /\ Reasons /\ [Next]_vars => [Lifecycle!Next]_(Lifecycle!vars)
  BY StepSimulation
<1> QED
  BY <1>1, <1>2, <1>3, PTL DEF Spec, ImplementsLifecycle, Lifecycle!Spec
=============================================================================
