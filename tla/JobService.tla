----------------------------- MODULE JobService -----------------------------
(***************************************************************************)
(* One test-generation job, from its submission to its terminal status:    *)
(* the runner pool (jobs/pool.ts), the per-unit coverage repair loop        *)
(* (llm/generator.ts), the job-level repair passes, cancellation and the    *)
(* artifact flush (jobs/service.ts, jobs/persist.ts), and the loss of the   *)
(* process.                                                                 *)
(*                                                                          *)
(* A step is what the Node event loop runs between two awaits: the answer   *)
(* of one model call or of one file write, with the whole chain of          *)
(* continuations that it resolves, or one HTTP cancellation.                *)
(*                                                                          *)
(* Abstracted: a coverage item is a number, numbered in the order the       *)
(* planner sorts by (priority, then id); the test cases that one unit       *)
(* pushes are the set of items they cover; the error is its class; usage,   *)
(* warnings, timestamps and metrics are left out.                           *)
(*                                                                          *)
(* An operator named X_Fault is operator X with one plausible coding error; *)
(* nothing uses it. Put in the place of X it makes the property break that  *)
(* the comment names.                                                       *)
(***************************************************************************)
EXTENDS Integers, FiniteSets

CONSTANTS
    Items,                  \* what the analyzer can extract: a set of numbers
    Priority,               \* item -> severity, 0 for P0
    Group,                  \* item -> rank of its suite/section group
    Runners,                \* the pool's runners: job.options.concurrency
    Files,                  \* ARTIFACT_FILES
    MaxItemsPerUnit,        \* job.options.maxItemsPerUnit
    MaxRepairRounds,        \* MAX_REPAIR_ROUNDS, the generator's own bound
    MaxGlobalRepairRounds   \* job.options.maxGlobalRepairRounds

ASSUME JobConstants ==
    /\ Items \subseteq Nat /\ IsFiniteSet(Items)
    /\ Priority \in [Items -> Nat] /\ Group \in [Items -> Nat]
    /\ \A i, j \in Items : i < j => Priority[i] <= Priority[j]
    /\ Runners # {} /\ IsFiniteSet(Runners)
    /\ Files # {}
    /\ MaxItemsPerUnit \in Nat \ {0}
    /\ MaxRepairRounds \in Nat
    /\ MaxGlobalRepairRounds \in Nat

VARIABLES
    items,        \* spec.items of the submitted documents
    status,       \* job.status as a client last saw it
    error,        \* job.error
    aborted,      \* job.abort.signal.aborted
    phase,        \* where process() stands
    pass,         \* 0: the first pass; n: the n-th job-level repair pass
    pending,      \* units no runner has taken yet
    unit,         \* runner -> the items of the unit it works on, {} if none
    round,        \* runner -> 0 in the first call, n in the n-th repair call
    got,          \* runner -> items covered by the unit's cases so far
    cases,        \* job.cases: for each unit that returned, what it covers
    totalUnits,   \* job.progress.totalUnits
    completedUnits, \* job.progress.completedUnits
    report,       \* job.coverage: the cases it was computed from
    final,        \* the terminal status the flush is done for
    writing,      \* artifact files with a write in flight
    disk,         \* file -> the status it records once wholly written
    flushFailed   \* persistSafely caught an error

workVars == <<items, pass, pending, unit, round, got, cases,
              totalUnits, completedUnits>>
diskVars == <<writing, disk, flushFailed>>
vars == <<workVars, status, error, aborted, phase, report, final, diskVars>>

(***************************************************************************)
(* The job as a client and the disk see it.                                *)
(***************************************************************************)
Finals == {"completed", "completed_with_gaps", "failed"}
Terminal == Finals \cup {"cancelled"}

Covered(cs) == UNION cs
Uncovered(cs) == items \ Covered(cs)

(***************************************************************************)
(* ingest/planner.ts: a group's items, in order, cut into slices of at     *)
(* most MaxItemsPerUnit; units ordered by severity, then by their id,       *)
(* which numbers them in the order of groups and slices.                    *)
(***************************************************************************)
Rank(S, i) == Cardinality({j \in S : Group[j] = Group[i] /\ j < i})
UnitOf(S, i) == {j \in S : /\ Group[j] = Group[i]
                           /\ Rank(S, j) \div MaxItemsPerUnit
                                = Rank(S, i) \div MaxItemsPerUnit}
Plan(S) == {UnitOf(S, i) : i \in S}

MoreSevere(u, v) == \E i \in u : \A j \in v : Priority[i] < Priority[j]
UnitIdBefore(u, v) == \E i \in u : \A j \in v : \/ Group[i] < Group[j]
                                                \/ Group[i] = Group[j] /\ i < j
\* SevereFirst breaks: the final sort is dropped.
Before_Fault(u, v) == UnitIdBefore(u, v)
Before(u, v) == \/ MoreSevere(u, v)
                \/ ~MoreSevere(v, u) /\ UnitIdBefore(u, v)
First(U) == {u \in U : \A v \in U \ {u} : Before(u, v)}

Busy(r) == unit[r] # {}

(***************************************************************************)
(* mapWithConcurrency starts its runners synchronously: each takes one     *)
(* unit, in order, until units or runners run out.                          *)
(***************************************************************************)
Dispatch(U) ==
    {a \in [Runners -> U \cup {{}}] :
        LET taken == {a[r] : r \in Runners} \ {{}}
        IN  /\ \A r, s \in Runners : a[r] = a[s] => r = s \/ a[r] = {}
            /\ (\E r \in Runners : a[r] = {}) => U \subseteq taken
            /\ \A u \in taken, v \in U \ taken : Before(u, v)}

StartPool(U) ==
    /\ \E a \in Dispatch(U) : /\ unit' = a
                              /\ pending' = U \ {a[r] : r \in Runners}
    /\ round' = [r \in Runners |-> 0]
    /\ got' = [r \in Runners |-> {}]

-----------------------------------------------------------------------------
Init ==
    /\ items = {} /\ status = "queued" /\ error = "none" /\ aborted = FALSE
    /\ phase = "idle" /\ pass = 0 /\ pending = {}
    /\ unit = [r \in Runners |-> {}]
    /\ round = [r \in Runners |-> 0]
    /\ got = [r \in Runners |-> {}]
    /\ cases = {} /\ totalUnits = 0 /\ completedUnits = 0
    /\ report = {} /\ final = "failed"
    /\ writing = {} /\ disk = [f \in Files |-> "incomplete"]
    /\ flushFailed = FALSE

(* submit() runs process() up to its first await: the documents are         *)
(* analyzed and planned, and the first calls of the pool are in flight.     *)
Submit(S) ==
    /\ phase = "idle" /\ S # {}
    /\ items' = S
    /\ status' = "generating" /\ phase' = "pass"
    /\ totalUnits' = Cardinality(Plan(S))
    /\ StartPool(Plan(S))
    /\ UNCHANGED <<error, aborted, pass, cases, completedUnits, report, final, diskVars>>

(* The documents hold no testable item: process() throws into its catch.    *)
SubmitNothing ==
    /\ phase = "idle"
    /\ status' = "analyzing" /\ error' = "failed"
    /\ phase' = "mkdir" /\ final' = "failed"
    /\ UNCHANGED <<workVars, aborted, report, diskVars>>

-----------------------------------------------------------------------------
\* GivesUpOnlyAtTheLimit breaks: the last repair pass is skipped.
RepairsLeft_Fault == pass + 1 < MaxGlobalRepairRounds
RepairsLeft == pass < MaxGlobalRepairRounds

(* All runners of a pass have returned and a repair pass follows.           *)
RepairPass(cs) ==
    /\ RepairsLeft /\ ~aborted /\ Uncovered(cs) # {}
    /\ pass' = pass + 1
    /\ totalUnits' = totalUnits + Cardinality(Plan(Uncovered(cs)))
    /\ StartPool(Plan(Uncovered(cs)))
    /\ UNCHANGED <<phase, report, final, error>>

\* VerdictIsHonest breaks: only gaps in P0 coverage count as gaps.
Verdict_Fault(cs) ==
    IF \A i \in Uncovered(cs) : Priority[i] > 0 THEN "completed" ELSE "completed_with_gaps"
Verdict(cs) == IF Uncovered(cs) = {} THEN "completed" ELSE "completed_with_gaps"

(* All runners have returned and no repair pass follows: either the flush   *)
(* of the outcome starts, or the job was cancelled and has nothing to keep. *)
Finish(cs) ==
    /\ ~RepairsLeft \/ aborted \/ Uncovered(cs) = {}
    /\ IF cs # {}
       THEN /\ report' = cs /\ final' = Verdict(cs)
            /\ phase' = "mkdir" /\ error' = error
       ELSE IF status = "cancelled"
       THEN phase' = "over" /\ UNCHANGED <<report, final, error>>
       ELSE /\ error' = "failed" /\ final' = "failed"
            /\ phase' = "mkdir" /\ report' = report
    /\ unit' = [r \in Runners |-> {}] /\ pending' = {}
    /\ UNCHANGED <<pass, round, got, totalUnits>>

OthersIdle(r) == \A s \in Runners \ {r} : ~Busy(s)

TakeUnit_Fault(r) ==    \* NoCallAfterAbort breaks: no abort check before a unit.
    /\ \E u \in First(pending) : /\ unit' = [unit EXCEPT ![r] = u]
                                 /\ pending' = pending \ {u}
    /\ round' = [round EXCEPT ![r] = 0]
    /\ got' = [got EXCEPT ![r] = {}]
    /\ UNCHANGED <<phase, pass, totalUnits, report, final, error>>

(* A runner asks for its next unit and starts the first call of it.         *)
TakeUnit(r) ==
    /\ ~aborted
    /\ \E u \in First(pending) : /\ unit' = [unit EXCEPT ![r] = u]
                                 /\ pending' = pending \ {u}
    /\ round' = [round EXCEPT ![r] = 0]
    /\ got' = [got EXCEPT ![r] = {}]
    /\ UNCHANGED <<phase, pass, totalUnits, report, final, error>>

(* The first pass throws at the next unit of a cancelled job, and the       *)
(* rejected pool sends process() to its catch, which returns.               *)
ThrowCancelled(r) ==
    /\ aborted /\ pending # {} /\ pass = 0
    /\ \E u \in First(pending) : pending' = pending \ {u}
    /\ unit' = [unit EXCEPT ![r] = {}]
    /\ phase' = "over"
    /\ UNCHANGED <<pass, round, got, totalUnits, report, final, error>>

(* The runner finds no unit left, or, in a repair pass of a cancelled job,  *)
(* skips all that are left. The last runner to stop ends the pass.          *)
Stop(r, cs) ==
    /\ pending = {} \/ (aborted /\ pass > 0)
    /\ IF OthersIdle(r) /\ phase = "pass"
       THEN RepairPass(cs) \/ Finish(cs)
       ELSE /\ unit' = [unit EXCEPT ![r] = {}] /\ pending' = {}
            /\ UNCHANGED <<phase, pass, round, got, totalUnits, report, final, error>>

UnitOver_Fault(r, new) ==    \* UnitsAccountedFor breaks: only successes count.
    /\ cases' = cases \cup new
    /\ completedUnits' = IF new = {} THEN completedUnits ELSE completedUnits + 1
    /\ TakeUnit(r) \/ ThrowCancelled(r) \/ Stop(r, cases \cup new)
    /\ UNCHANGED <<items, status, aborted, diskVars>>

(* The unit of runner r is over, with the test cases in new, and the runner *)
(* loops.                                                                   *)
UnitOver(r, new) ==
    /\ cases' = cases \cup new
    /\ completedUnits' = completedUnits + 1
    /\ TakeUnit(r) \/ ThrowCancelled(r) \/ Stop(r, cases \cup new)
    /\ UNCHANGED <<items, status, aborted, diskVars>>

\* TypeOK breaks: one repair round too many.
AsksAgain_Fault(r, now) == now # unit[r] /\ round[r] <= MaxRepairRounds
AsksAgain(r, now) == now # unit[r] /\ round[r] < MaxRepairRounds

(* A model call of runner r is answered with test cases that claim to cover *)
(* the items C of its unit: the generator asks again for the missing ones,  *)
(* up to its bound on rounds, and then returns the unit's cases.            *)
Reply(r) ==
    /\ Busy(r) /\ ~aborted
    /\ \E C \in SUBSET unit[r] :
        LET now == got[r] \cup C
        IN  IF AsksAgain(r, now)
            THEN /\ got' = [got EXCEPT ![r] = now]
                 /\ round' = [round EXCEPT ![r] = @ + 1]
                 /\ UNCHANGED <<items, pass, pending, unit, cases, totalUnits,
                                completedUnits, status, error, aborted, phase,
                                report, final, diskVars>>
            ELSE UnitOver(r, {now})

(* What a unit keeps when one of its calls throws: nothing if it was the    *)
(* first call, else the cases of the earlier rounds (the repair loop        *)
(* catches every error, a cancellation too).                                *)
Kept(r) == IF round[r] = 0 THEN {} ELSE {got[r]}

CallFails_Fault(r) ==    \* VerdictIsHonest breaks: the failure is not isolated.
    /\ Busy(r) /\ ~aborted
    /\ unit' = [s \in Runners |-> {}]
    /\ phase' = "mkdir" /\ final' = "failed" /\ error' = "failed"
    /\ UNCHANGED <<items, pass, pending, round, got, cases, totalUnits,
                   completedUnits, status, aborted, report, diskVars>>

(* A call of runner r fails: timeout, upstream error, unusable output.      *)
CallFails(r) ==
    /\ Busy(r) /\ ~aborted
    /\ UnitOver(r, Kept(r))

(* A call in flight is rejected because the job was cancelled. In the first *)
(* round the worker rethrows, and the rejected pool ends process().         *)
CallAborted(r) ==
    /\ Busy(r) /\ aborted
    /\ IF round[r] = 0
       THEN /\ unit' = [unit EXCEPT ![r] = {}]
            /\ completedUnits' = completedUnits + 1
            /\ phase' = "over"
            /\ UNCHANGED <<items, pass, pending, round, got, cases, totalUnits,
                           status, error, aborted, report, final, diskVars>>
       ELSE UnitOver(r, Kept(r))

-----------------------------------------------------------------------------
(* process() makes the terminal status visible as persistSafely returns.    *)
Conclude == status' = final /\ phase' = "over"

MkdirDone_Fault ==    \* FlushedBeforeVisible breaks: the writes are not awaited.
    /\ phase = "mkdir"
    /\ writing' = Files /\ Conclude
    /\ UNCHANGED <<workVars, error, aborted, report, final, disk, flushFailed>>

MkdirDone ==
    /\ phase = "mkdir"
    /\ phase' = "flush" /\ writing' = Files
    /\ UNCHANGED <<workVars, status, error, aborted, report, final, disk, flushFailed>>

MkdirFails_Fault ==    \* ImplementsLifecycle breaks: the failure leaves no warning.
    /\ phase = "mkdir" /\ Conclude
    /\ UNCHANGED <<workVars, error, aborted, report, final, diskVars>>

MkdirFails ==
    /\ phase = "mkdir"
    /\ flushFailed' = TRUE /\ Conclude
    /\ UNCHANGED <<workVars, error, aborted, report, final, writing, disk>>

(* The four files are written in parallel: the last one written, or the     *)
(* first one that fails, settles the flush; the writes still in flight go   *)
(* on after a failure.                                                      *)
FileWritten(f) ==
    /\ f \in writing
    /\ writing' = writing \ {f}
    /\ disk' = [disk EXCEPT ![f] = final]
    /\ IF phase = "flush" /\ writing = {f} THEN Conclude ELSE UNCHANGED <<status, phase>>
    /\ UNCHANGED <<workVars, error, aborted, report, final, flushFailed>>

FileFails_Fault(f) ==    \* JobEnds breaks: the error of the flush is not caught.
    /\ f \in writing
    /\ writing' = writing \ {f} /\ flushFailed' = TRUE
    /\ phase' = IF phase = "flush" THEN "over" ELSE phase
    /\ UNCHANGED <<workVars, status, error, aborted, report, final, disk>>

FileFails(f) ==
    /\ f \in writing
    /\ writing' = writing \ {f}
    /\ flushFailed' = TRUE
    /\ IF phase = "flush" THEN Conclude ELSE UNCHANGED <<status, phase>>
    /\ UNCHANGED <<workVars, error, aborted, report, final, disk>>

-----------------------------------------------------------------------------
Cancel_Fault ==    \* OutcomeIsFrozen breaks: a finished job can be cancelled.
    /\ phase # "idle" /\ phase # "gone" /\ status # "cancelled"
    /\ aborted' = TRUE /\ status' = "cancelled" /\ error' = "cancelled"
    /\ UNCHANGED <<workVars, phase, report, final, diskVars>>

Cancel ==
    /\ phase # "idle" /\ phase # "gone" /\ status \notin Terminal
    /\ aborted' = TRUE /\ status' = "cancelled" /\ error' = "cancelled"
    /\ UNCHANGED <<workVars, phase, report, final, diskVars>>

(* The process dies: jobs live in memory only, and what is not wholly       *)
(* written is lost. The variables keep what clients last saw.               *)
Crash ==
    /\ phase # "idle" /\ phase # "gone"
    /\ phase' = "gone"
    /\ unit' = [r \in Runners |-> {}] /\ pending' = {} /\ writing' = {}
    /\ UNCHANGED <<items, pass, round, got, cases, totalUnits, completedUnits,
                   status, error, aborted, report, final, disk, flushFailed>>

Quiet == writing = {} /\ \A r \in Runners : ~Busy(r)

(* Nothing is left to run for this job.                                     *)
Rest == phase \in {"over", "gone"} /\ Quiet /\ UNCHANGED vars

CallSettles(r) == Reply(r) \/ CallFails(r) \/ CallAborted(r)
WriteSettles(f) == FileWritten(f) \/ FileFails(f)
MkdirSettles == MkdirDone \/ MkdirFails

Next ==
    \/ \E S \in SUBSET Items : Submit(S)
    \/ SubmitNothing
    \/ \E r \in Runners : Reply(r) \/ CallFails(r) \/ CallAborted(r)
    \/ MkdirDone \/ MkdirFails
    \/ \E f \in Files : FileWritten(f) \/ FileFails(f)
    \/ Cancel \/ Crash \/ Rest

(* Every call has a timeout and a bounded retry ladder (llm/novita.ts), and *)
(* the file system answers: what was started settles. Nothing obliges a     *)
(* client to cancel, a call to succeed or the process to die.               *)
Fairness ==
    /\ \A r \in Runners : WF_vars(CallSettles(r))
    /\ WF_vars(MkdirSettles)
    /\ \A f \in Files : WF_vars(WriteSettles(f))

Spec == Init /\ [][Next]_vars /\ Fairness

-----------------------------------------------------------------------------
(* Types. cases is a set of item sets: what each unit that returned covers. *)
TypeOK ==
    /\ items \subseteq Items
    /\ status \in Terminal \cup {"queued", "analyzing", "generating"}
    /\ error \in {"none", "cancelled", "failed"}
    /\ aborted \in BOOLEAN
    /\ phase \in {"idle", "pass", "mkdir", "flush", "over", "gone"}
    /\ pass \in 0..MaxGlobalRepairRounds
    /\ pending \subseteq SUBSET items
    /\ unit \in [Runners -> SUBSET items]
    /\ round \in [Runners -> 0..MaxRepairRounds]
    /\ got \in [Runners -> SUBSET items]
    /\ cases \subseteq SUBSET items
    /\ totalUnits \in Nat /\ completedUnits \in Nat
    /\ report \subseteq SUBSET items
    /\ final \in Finals
    /\ writing \subseteq Files
    /\ disk \in [Files -> {"incomplete"} \cup Finals]
    /\ flushFailed \in BOOLEAN

(* The verdict follows from the final cases. A job that has any did not fail,  *)
(* so one unit's failure never costs it the others' (service.ts:146-160, 222);  *)
(* "completed" and "completed with gaps" are told apart by whether an extracted *)
(* item is left uncovered, and the report covers all the cases (229-235). It    *)
(* breaks if a case is pushed after the report or a gap is lost between the     *)
(* passes.                                                                     *)
VerdictIsHonest ==
    /\ status = "failed" => cases = {}
    /\ status \in {"completed", "completed_with_gaps"} =>
        /\ report = cases /\ cases # {}
        /\ (status = "completed") <=> (items \subseteq UNION cases)

(* A client that saw a terminal status which process() set finds all four   *)
(* artifact files with that status, for good: also when the process dies    *)
(* right after (service.ts:238-242). Only a failed flush excuses it.         *)
FlushedBeforeVisible ==
    status \in Finals /\ ~flushFailed => \A f \in Files : disk[f] = status

(* A job gives up on uncovered items only after every job-level repair pass *)
(* it has, unless a client cancelled it (service.ts:173-179).                *)
GivesUpOnlyAtTheLimit ==
    status \in Finals /\ ~(items \subseteq UNION cases) /\ ~aborted
        => pass = MaxGlobalRepairRounds

(* No unit is lost or handed out twice between the runners of the pool: in  *)
(* every pass the units done, in flight and pending add up to the total the *)
(* progress bar shows (pool.ts:10-17, service.ts:162).                       *)
UnitsAccountedFor ==
    /\ completedUnits <= totalUnits
    /\ phase = "pass" /\ ~aborted =>
        completedUnits + Cardinality({r \in Runners : Busy(r)}) + Cardinality(pending)
            = totalUnits

(* No runner starts on a unit while a more severe one of the same pass      *)
(* waits (planner.ts:103-108).                                               *)
SevereFirst ==
    \A r \in Runners, u \in pending : Busy(r) => ~MoreSevere(u, unit[r])

(* After a cancellation no model call is started: whatever unit or repair   *)
(* round a runner was in, it starts no other (service.ts:127, 174, 194).     *)
StartsCall(r) == unit'[r] # {} /\ <<unit[r], round[r]>>' # <<unit[r], round[r]>>
NoCallAfterAbort == [][aborted => \A r \in Runners : ~StartsCall(r)]_vars

outcome == <<status, error, cases, report>>

(* A terminal status that process() set is final, and so are the cases and  *)
(* the report behind it: no late runner and no late cancellation changes    *)
(* them (service.ts:79-83, 242).                                             *)
OutcomeIsFrozen ==
    [][(status \in Finals) => UNCHANGED outcome]_vars

(* Every accepted job comes to rest with a terminal status, and its runners *)
(* and writes with it, unless the process dies first.                        *)
JobEnds ==
    phase # "idle" ~> \/ phase = "gone"
                      \/ phase = "over" /\ status \in Terminal /\ Quiet

-----------------------------------------------------------------------------
(* The job implements the promise of JobLifecycle.                          *)
Seen == CASE status = "queued" -> "none"
          [] status \in {"analyzing", "generating"} -> "running"
          [] OTHER -> status
Stored == IF \A f \in Files : disk[f] = final THEN final ELSE "incomplete"

Lifecycle == INSTANCE JobLifecycle WITH
    wanted <- items, status <- Seen, stored <- Stored,
    excused <- flushFailed, lost <- (phase = "gone")

(* Seen from outside, the pool, the repair rounds, the parallel writes and  *)
(* their failures are one delivery of cases after another and one verdict   *)
(* that follows from them and appears with its artifacts.                   *)
ImplementsLifecycle == Lifecycle!Spec
LifecycleSteps == Lifecycle!Init /\ [][Lifecycle!Next]_(Lifecycle!vars)

-----------------------------------------------------------------------------
(* What the repository says and the code does not do.                       *)

(* README.md:105, "Cancel an in-flight job.", and service.ts:146, "A        *)
(* cancellation aborts the whole job": a cancelled job stays cancelled.      *)
CancelledIsFinal == [][status = "cancelled" => status' = "cancelled"]_vars
=============================================================================
