---------------------------- MODULE CodegenService ----------------------------
(***************************************************************************)
(* The code generation jobs of some tenants (codegen/service.ts) and the     *)
(* store that admits them (codegen/store.ts): reading the source cases, one  *)
(* model call per planned file, cancellation, the artifacts with their       *)
(* manifest (codegen/persist.ts), admission under caps and eviction.         *)
(*                                                                          *)
(* A step is what runs between two awaits. The spec files of a job are       *)
(* 1..n in the order they were planned; 0 is the scaffold, which is written  *)
(* first. Trace, usage and warnings are left out; time is that any finished  *)
(* job may have expired when the next one is submitted.                      *)
(*                                                                          *)
(* X_Fault is X with one plausible coding error; see JobService.             *)
(***************************************************************************)
EXTENDS Integers, FiniteSets

CONSTANTS
    Jobs,           \* bound: jobs ever submitted
    Tenants,
    TenantOf,       \* job -> its tenant
    MaxFiles,       \* bound: job -> the most spec files it may have planned
    Concurrency,    \* job.options.concurrency
    MaxGlobal,      \* store.maxActiveGlobal
    MaxPerTenant    \* store.maxActivePerTenant

ASSUME CodegenConstants ==
    /\ IsFiniteSet(Jobs) /\ TenantOf \in [Jobs -> Tenants]
    /\ MaxFiles \in [Jobs -> Nat \ {0}] /\ Concurrency \in Nat \ {0}
    /\ MaxGlobal \in Nat \ {0} /\ MaxPerTenant \in Nat \ {0}

VARIABLES
    stored,     \* the jobs the store holds
    status,     \* job -> job.status
    aborted,    \* job -> its signal is aborted
    phase,      \* job -> the await process() stands at
    task,       \* job -> file -> its task's status
    inFlight,   \* job -> files whose model call is in flight
    final,      \* job -> finalStatus
    onDisk,     \* job -> files wholly written to its directory
    manifest    \* job -> the manifest's status and persistedFiles

vars == <<stored, status, aborted, phase, task, inFlight, final, onDisk, manifest>>

Files == UNION {1..MaxFiles[j] : j \in Jobs}
Active == {"queued", "planning", "generating"}
Finals == {"completed", "completed_with_errors", "failed"}
Terminal == Finals \cup {"cancelled"}
NoManifest == [status |-> "none", files |-> {}]

Those(j, s) == {f \in Files : task[j][f] = s}
Output(j) == {0} \cup Those(j, "completed")

Set(v, j, x) == [v EXCEPT ![j] = x]
Moves(j, p) == phase' = Set(phase, j, p)

-----------------------------------------------------------------------------
Init ==
    /\ stored = {}
    /\ status = [j \in Jobs |-> "none"]
    /\ aborted = [j \in Jobs |-> FALSE]
    /\ phase = [j \in Jobs |-> "none"]
    /\ task = [j \in Jobs |-> [f \in Files |-> "none"]]
    /\ inFlight = [j \in Jobs |-> {}]
    /\ final = [j \in Jobs |-> "failed"]
    /\ onDisk = [j \in Jobs |-> {}]
    /\ manifest = [j \in Jobs |-> NoManifest]

(* The store's create: expired jobs go, the caps are counted over the rest.  *)
ActiveOf(S) == {j \in S : status[j] \in Active}
Admits(S, j) ==
    /\ Cardinality(ActiveOf(S)) < MaxGlobal
    /\ Cardinality({k \in ActiveOf(S) : TenantOf[k] = TenantOf[j]}) < MaxPerTenant

(* submit() runs process() up to the read of the source job's cases.         *)
Submit(j) ==
    /\ status[j] = "none"
    /\ \E expired \in SUBSET (stored \ ActiveOf(stored)) :
        /\ Admits(stored \ expired, j)
        /\ stored' = (stored \ expired) \cup {j}
    /\ status' = Set(status, j, "planning") /\ Moves(j, "source")
    /\ UNCHANGED <<aborted, task, inFlight, final, onDisk, manifest>>

(* process() enters its catch: a cancelled job just returns, any other       *)
(* persists a manifest without files.                                         *)
Catch(j) == Moves(j, IF status[j] = "cancelled" THEN "over" ELSE "failing")

SourceFails(j) ==
    /\ phase[j] = "source" /\ Catch(j)
    /\ UNCHANGED <<stored, status, aborted, task, inFlight, final, onDisk, manifest>>

(* The pool takes the files in order; of a cancelled job it takes none, and   *)
(* the check for an empty suite throws with the status at "generating".       *)
First_Fault(n) == {f \in Files : f <= n /\ f <= Concurrency + 1}  \* TypeOK breaks
First(n) == {f \in Files : f <= n /\ f <= Concurrency}

SourceLoaded_Fault(j) ==    \* NoCallAfterAbort breaks: a worker does not check
    /\ phase[j] = "source"
    /\ status' = Set(status, j, "generating")
    /\ \E n \in 1..MaxFiles[j] :
        /\ task' = Set(task, j, [f \in Files |-> IF f > n THEN "none"
                                    ELSE IF f \in First(n) THEN "generating" ELSE "pending"])
        /\ inFlight' = Set(inFlight, j, First(n))
    /\ Moves(j, "pool")
    /\ UNCHANGED <<stored, aborted, final, onDisk, manifest>>

SourceLoaded(j) ==
    /\ phase[j] = "source"
    /\ status' = Set(status, j, "generating")
    /\ \E n \in 1..MaxFiles[j] :
        LET taken == IF aborted[j] THEN {} ELSE First(n)
        IN  /\ task' = Set(task, j, [f \in Files |-> IF f > n THEN "none"
                                        ELSE IF f \in taken THEN "generating" ELSE "pending"])
            /\ inFlight' = Set(inFlight, j, taken)
    /\ Moves(j, IF aborted[j] THEN "failing" ELSE "pool")
    /\ UNCHANGED <<stored, aborted, final, onDisk, manifest>>

-----------------------------------------------------------------------------
(* The model call of file f is over, with a usable spec file or not: the      *)
(* runner takes the next file, or, as the last one, ends the pool.            *)
FirstPending(j) == {g \in Those(j, "pending") : \A h \in Those(j, "pending") : g <= h}


FileOver(j, f, result) ==
    LET taken == FirstPending(j)
        now == [g \in Files |-> IF g = f THEN result
                                ELSE IF g \in taken THEN "generating" ELSE task[j][g]]
        left == (inFlight[j] \ {f}) \cup taken
        Ended(s) == \E g \in Files : now[g] = s
    IN  /\ task' = Set(task, j, now) /\ inFlight' = Set(inFlight, j, left)
        /\ IF left # {} THEN UNCHANGED <<phase, final>>
           ELSE IF Ended("completed")
           THEN /\ Moves(j, "writing")
                /\ final' = Set(final, j, IF Ended("failed") THEN "completed_with_errors"
                                          ELSE "completed")
           ELSE Moves(j, "failing") /\ UNCHANGED final
        /\ UNCHANGED <<stored, status, aborted, onDisk, manifest>>

FileGenerated(j, f) ==
    f \in inFlight[j] /\ ~aborted[j] /\ FileOver(j, f, "completed")

FileFails_Fault(j, f) ==    \* ImplementsLifecycle breaks: one failure rejects the pool
    /\ f \in inFlight[j] /\ ~aborted[j]
    /\ task' = [task EXCEPT ![j][f] = "failed"]
    /\ inFlight' = Set(inFlight, j, inFlight[j] \ {f})
    /\ Catch(j)
    /\ UNCHANGED <<stored, status, aborted, final, onDisk, manifest>>

FileFails(j, f) ==
    f \in inFlight[j] /\ ~aborted[j] /\ FileOver(j, f, "failed")

FileAborted_Fault(j, f) ==  \* VerdictIsHonest breaks: the abort is one more failure
    /\ f \in inFlight[j] /\ aborted[j]
    /\ inFlight' = Set(inFlight, j, inFlight[j] \ {f})
    /\ IF inFlight[j] # {f} THEN UNCHANGED <<phase, final>>
       ELSE IF Those(j, "completed") # {}
       THEN Moves(j, "writing") /\ final' = Set(final, j, "completed")
       ELSE Moves(j, "failing") /\ UNCHANGED final
    /\ UNCHANGED <<stored, status, aborted, task, onDisk, manifest>>

(* The call of a cancelled job rejects, the worker rethrows, and the rejected *)
(* pool ends process(); the task is left at "generating".                     *)
FileAborted(j, f) ==
    /\ f \in inFlight[j] /\ aborted[j]
    /\ inFlight' = Set(inFlight, j, inFlight[j] \ {f})
    /\ IF phase[j] = "pool" THEN Catch(j) ELSE UNCHANGED phase
    /\ UNCHANGED <<stored, status, aborted, task, final, onDisk, manifest>>

-----------------------------------------------------------------------------
(* The artifacts: scaffold and spec files one after the other, and then the   *)
(* manifest that lists them.                                                  *)
FileWritten(j) ==
    /\ phase[j] = "writing"
    /\ \E f \in Output(j) \ onDisk[j] :
        /\ f = 0 \/ 0 \in onDisk[j]
        /\ onDisk' = [onDisk EXCEPT ![j] = @ \cup {f}]
    /\ UNCHANGED <<stored, status, aborted, phase, task, inFlight, final, manifest>>

ManifestWritten_Early(j) == \* FlushedBeforeVisible breaks: the manifest goes first
    /\ phase[j] = "writing"
    /\ manifest' = Set(manifest, j, [status |-> final[j], files |-> Output(j)])
    /\ IF Output(j) \subseteq onDisk[j] THEN Moves(j, "written") ELSE UNCHANGED phase
    /\ UNCHANGED <<stored, status, aborted, task, inFlight, final, onDisk>>

ManifestWritten_Fault(j) == \* FlushedBeforeVisible breaks: status before manifest
    /\ phase[j] = "writing" /\ Output(j) \subseteq onDisk[j]
    /\ status' = Set(status, j, final[j])
    /\ IF status[j] = final[j]
       THEN /\ manifest' = Set(manifest, j, [status |-> final[j], files |-> Output(j)])
            /\ Moves(j, "written")
       ELSE UNCHANGED <<manifest, phase>>
    /\ UNCHANGED <<stored, aborted, task, inFlight, final, onDisk>>

ManifestWritten(j) ==
    /\ phase[j] = "writing" /\ Output(j) \subseteq onDisk[j]
    /\ manifest' = Set(manifest, j, [status |-> final[j], files |-> Output(j)])
    /\ Moves(j, "written")
    /\ UNCHANGED <<stored, status, aborted, task, inFlight, final, onDisk>>

PersistFails_Fault(j) ==    \* JobEnds breaks: the error is not caught
    /\ phase[j] = "writing" /\ Moves(j, "over")
    /\ UNCHANGED <<stored, status, aborted, task, inFlight, final, onDisk, manifest>>

PersistFails(j) ==
    /\ phase[j] = "writing" /\ Catch(j)
    /\ UNCHANGED <<stored, status, aborted, task, inFlight, final, onDisk, manifest>>

(* The manifest of a failed job, which may fail to be written.                *)
FailureWritten(j) ==
    /\ phase[j] = "failing" /\ Moves(j, "failed")
    /\ manifest' \in {manifest, Set(manifest, j, [status |-> "failed", files |-> {}])}
    /\ UNCHANGED <<stored, status, aborted, task, inFlight, final, onDisk>>

(* After the await of the persist the final status becomes visible, whatever  *)
(* the status is by now.                                                      *)
Conclude(j) ==
    /\ phase[j] \in {"written", "failed"} /\ Moves(j, "over")
    /\ status' = Set(status, j, IF phase[j] = "written" THEN final[j] ELSE "failed")
    /\ UNCHANGED <<stored, aborted, task, inFlight, final, onDisk, manifest>>

Cancel(j) ==
    /\ j \in stored /\ status[j] \in Active
    /\ aborted' = Set(aborted, j, TRUE)
    /\ status' = Set(status, j, "cancelled")
    /\ UNCHANGED <<stored, phase, task, inFlight, final, onDisk, manifest>>

Over(j) == phase[j] = "over" /\ inFlight[j] = {}
Rest == (\A j \in Jobs : Over(j) \/ status[j] = "none") /\ UNCHANGED vars

Settles(j) ==
    \/ SourceFails(j) \/ SourceLoaded(j)
    \/ \E f \in Files : FileGenerated(j, f) \/ FileFails(j, f) \/ FileAborted(j, f)
    \/ FileWritten(j) \/ ManifestWritten(j) \/ PersistFails(j)
    \/ FailureWritten(j) \/ Conclude(j)

Next ==
    \/ \E j \in Jobs :
        \/ Submit(j) \/ SourceFails(j) \/ SourceLoaded(j)
        \/ \E f \in Files : FileGenerated(j, f) \/ FileFails(j, f) \/ FileAborted(j, f)
        \/ FileWritten(j) \/ ManifestWritten(j) \/ PersistFails(j)
        \/ FailureWritten(j) \/ Conclude(j)
        \/ Cancel(j)
    \/ Rest

(* Model calls settle (see NovitaClient) and the file system answers.         *)
Fairness == \A j \in Jobs : WF_vars(Settles(j))

Spec == Init /\ [][Next]_vars /\ Fairness

-----------------------------------------------------------------------------
(* Types, and the limit on the calls that a job has in flight.                *)
TypeOK ==
    /\ stored \subseteq Jobs
    /\ status \in [Jobs -> {"none"} \cup Active \cup Terminal]
    /\ aborted \in [Jobs -> BOOLEAN]
    /\ phase \in [Jobs -> {"none", "source", "pool", "writing", "written", "failing",
                         "failed", "over"}]
    /\ task \in [Jobs -> [Files -> {"none", "pending", "generating", "completed", "failed"}]]
    /\ inFlight \in [Jobs -> SUBSET Files]
    /\ \A j \in Jobs : Cardinality(inFlight[j]) <= Concurrency
    /\ final \in [Jobs -> Finals]
    /\ onDisk \in [Jobs -> SUBSET (Files \cup {0})]
    /\ manifest \in [Jobs -> [status : {"none"} \cup Finals, files : SUBSET (Files \cup {0})]]

(* A finished suite is a whole one: every planned file was generated, or was   *)
(* tried and failed and the status says so. In particular a cancellation never *)
(* ends in a suite that lacks the files it cut off (service.ts:188-238).        *)
VerdictIsHonest ==
    \A j \in Jobs : status[j] \in {"completed", "completed_with_errors"} =>
        /\ Those(j, "completed") # {}
        /\ Those(j, "pending") \cup Those(j, "generating") = {}
        /\ (status[j] = "completed") <=> (Those(j, "failed") = {})

(* Whoever reads the manifest, at any time, finds every file that it lists     *)
(* (persist.ts:39-51; readBundle, 97-106, which every run starts with), and a   *)
(* poller that sees a finished job finds its manifest, with this status and all *)
(* the files (service.ts:241-249).                                              *)
FlushedBeforeVisible ==
    \A j \in Jobs :
        /\ manifest[j].files \subseteq onDisk[j]
        /\ status[j] \in {"completed", "completed_with_errors"} =>
              manifest[j] = [status |-> status[j], files |-> Output(j)]

(* A cancelled job starts no model call, also when it was cancelled before it  *)
(* had a plan (service.ts:190, 222).                                            *)
NoCallAfterAbort ==
    [][\A j \in Jobs : aborted[j] => inFlight'[j] \subseteq inFlight[j]]_vars

(* Every accepted job comes to rest with a terminal status.                    *)
JobEnds ==
    \A j \in Jobs : status[j] # "none" ~> Over(j) /\ status[j] \in Terminal

-----------------------------------------------------------------------------
(* The jobs implement the promise of SuiteLifecycle.                           *)
Seen == [j \in Jobs |-> IF status[j] \in Active THEN "running" ELSE status[j]]
Planned == [j \in Jobs |-> {f \in Files : task[j][f] # "none"}]
Generated == [j \in Jobs |-> Those(j, "completed")]
Broken == [j \in Jobs |-> Those(j, "failed")]

Lifecycle == INSTANCE SuiteLifecycle WITH
    status <- Seen, planned <- Planned, good <- Generated, bad <- Broken

(* Seen from outside, the pool, the calls that outlive it and the file writes   *)
(* are one try of a file after another, and then one suite that is final, or a   *)
(* failure for a reason (service.ts:188-257).                                   *)
ImplementsLifecycle == Lifecycle!Spec

-----------------------------------------------------------------------------
(* What the repository says and the code does not do.                          *)

(* store.ts:7-8, "one heavy tenant cannot exhaust the shared LLM throughput":   *)
(* a tenant never has more active jobs than its cap.                            *)
TenantCap ==
    \A t \in Tenants :
        Cardinality({j \in ActiveOf(Jobs) : TenantOf[j] = t}) <= MaxPerTenant
=============================================================================
