------------------------------- MODULE Service -------------------------------
(***************************************************************************)
(* The process as a whole (api/app.ts): the requests of tenants for test       *)
(* case generation jobs, suites (code generation jobs) and runs, the three     *)
(* stores that admit, find and evict them, the artifacts through which one     *)
(* stage hands its result to the next, and the loss of the process, which      *)
(* loses the stores but not the disk.                                         *)
(*                                                                          *)
(* A job is here what JobLifecycle, JobService, CodegenService and             *)
(* RunnerService say of its steps: it reads, works, flushes and ends. What of  *)
(* an outcome depends on the work itself is arbitrary. Time is that any        *)
(* finished job may have expired when the next one is submitted.               *)
(*                                                                          *)
(* X_Fault is X with one plausible coding error; see JobService.               *)
(***************************************************************************)
EXTENDS Integers, FiniteSets

CONSTANTS
    Jobs, Suites, Runs,     \* bound: what is ever submitted, by kind
    Source,                 \* suite -> a job, run -> a suite: the id it asks for
    Keys,                   \* the API keys (an open service is one of one key)
    KeyToTenant,            \* key -> its tenant
    KeysOf,                 \* bound: the keys that a submission may come with
    MaxActive,              \* MAX_ACTIVE_JOBS, of each store
    MaxSuites, MaxRuns,     \* the caps per tenant
    MaxCrashes              \* bound

Ids == Jobs \cup Suites \cup Runs

ASSUME ServiceConstants ==
    /\ IsFiniteSet(Ids)
    /\ Jobs \cap Suites = {} /\ Jobs \cap Runs = {} /\ Suites \cap Runs = {}
    /\ \A s \in Suites : Source[s] \in Jobs
    /\ \A r \in Runs : Source[r] \in Suites
    /\ DOMAIN KeyToTenant = Keys /\ \A i \in Ids : KeysOf[i] \subseteq Keys /\ KeysOf[i] # {}
    /\ {MaxActive, MaxSuites, MaxRuns} \subseteq Nat \ {0} /\ MaxCrashes \in Nat

VARIABLES
    stored,     \* the jobs that the stores hold
    tenantId,
    status,     \* "active" for all that the stores count as active
    aborted,    \* the jobs at work whose signal is aborted
    phase,      \* where a job's process() stands
    outcome,    \* the status it has decided on
    disk,       \* what its directory gives the next stage
    children,   \* the runs whose suite this process has started and not seen end
    orphans,    \* the runs whose suite a lost process left running
    gauge,      \* tcf_active_jobs
    promised,   \* the sources that have been seen done, with their artifacts
    crashes

store == <<stored, tenantId, status, gauge>>
vars == <<store, aborted, phase, outcome, disk, children, orphans, promised, crashes>>

Finals == {"done", "failed", "cancelled"}

-----------------------------------------------------------------------------
(* authHook: the tenant of a request.                                        *)
Tenant(key) == KeyToTenant[key]

Active(S) == {i \in S : status[i] = "active"}
ActiveJobs(S, st) == Cardinality({i \in S \cap Jobs : st[i] = "active"})

(* store.get(): another tenant's job behaves as not found.                     *)
Finds(i, key) == i \in stored /\ tenantId[i] = Tenant(key)

Init ==
    /\ stored = {} /\ gauge = 0 /\ crashes = 0 /\ tenantId = [i \in Ids |-> "none"]
    /\ status = [i \in Ids |-> "none"] /\ phase = [i \in Ids |-> "none"]
    /\ outcome = [i \in Ids |-> "failed"] /\ disk = [i \in Jobs \cup Suites |-> "none"]
    /\ aborted = {} /\ children = {} /\ orphans = {}
    /\ promised = {}

(* evictExpired(), and then the caps over what is left.                        *)
Expirable(Kind) == {i \in stored \cap Kind : status[i] \in Finals}

KindOf(i) == CHOOSE Kind \in {Jobs, Suites, Runs} : i \in Kind
Cap(Kind) == IF Kind = Suites THEN MaxSuites ELSE MaxRuns
Full(Kind, tenant, S) ==
    \/ Cardinality(Active(S \cap Kind)) >= MaxActive
    \/ Kind # Jobs /\ Cardinality({k \in Active(S \cap Kind) : tenantId[k] = tenant}) >= Cap(Kind)

(* What is evicted is forgotten, but for a cancelled job that is still at work.  *)
Evicts(expired) == [i \in Ids |-> IF i \in expired /\ phase[i] = "over" THEN "lost" ELSE status[i]]

(* A submission over a cap is refused, but expired jobs are gone.               *)
Refused(i, key) ==
    /\ status[i] = "none"
    /\ \E expired \in SUBSET Expirable(KindOf(i)) :
        /\ Full(KindOf(i), Tenant(key), stored \ expired)
        /\ stored' = stored \ expired /\ status' = Evicts(expired)
    /\ UNCHANGED <<tenantId, gauge, aborted, phase, outcome, disk, children, orphans, promised, crashes>>

Accepted(i, key, start) ==
    /\ status[i] = "none"
    /\ \E expired \in SUBSET Expirable(KindOf(i)) :
        /\ ~Full(KindOf(i), Tenant(key), stored \ expired)
        /\ stored' = (stored \ expired) \cup {i}
        /\ status' = [Evicts(expired) EXCEPT ![i] = "active"]
    /\ tenantId' = [tenantId EXCEPT ![i] = Tenant(key)]
    /\ phase' = [phase EXCEPT ![i] = start]
    /\ UNCHANGED <<aborted, outcome, disk, children, orphans, promised, crashes>>

SubmitJob(i, key) ==
    /\ Accepted(i, key, "working")
    /\ gauge' = ActiveJobs(stored', status')

(* The source need not be finished, in the store, or the tenant's.              *)
SubmitSuite(i, key) == Accepted(i, key, "reading") /\ UNCHANGED gauge
SubmitRun(i, key) == Accepted(i, key, "reading") /\ UNCHANGED gauge

-----------------------------------------------------------------------------
(* The artifacts of the source, in the directory of the reader's tenant. The    *)
(* manifest of a failed suite is there, too, and lists no file.                 *)
Feeds_Fault(i) ==       \* PipelineHolds breaks: the source is looked for in memory
    /\ tenantId[Source[i]] = tenantId[i]
    /\ Source[i] \in stored /\ status[Source[i]] = "done"

Feeds(i) ==
    /\ tenantId[Source[i]] = tenantId[i]
    /\ IF i \in Suites THEN disk[Source[i]] = "full" ELSE disk[Source[i]] # "none"

To(i, p) == phase' = [phase EXCEPT ![i] = p]
Flushes(i, o) == To(i, "flushing") /\ UNCHANGED aborted /\ outcome' = [outcome EXCEPT ![i] = o]
Over(i) == To(i, "over") /\ aborted' = aborted \ {i}
Returns(i) == Over(i) /\ outcome' = [outcome EXCEPT ![i] = "failed"]

(* The status is set over a cancellation; a cancelled suite then generates       *)
(* nothing and fails.                                                            *)
SuiteLoads(i) ==
    /\ phase[i] = "reading" /\ Feeds(i)
    /\ status' = [status EXCEPT ![i] = "active"]
    /\ IF i \in aborted THEN Flushes(i, "failed")
       ELSE To(i, "working") /\ UNCHANGED <<aborted, outcome>>
    /\ UNCHANGED <<stored, tenantId, gauge, disk, children, orphans, promised, crashes>>

(* There is no source, or in it no case that is valid and selected.              *)
SuiteStarves(i) ==
    /\ phase[i] = "reading"
    /\ IF status[i] = "cancelled" THEN Returns(i) ELSE Flushes(i, "failed")
    /\ UNCHANGED <<store, disk, children, orphans, promised, crashes>>

(* From the bundle to the started executor; the abort is looked at in between.   *)
RunStarts(i) ==
    /\ phase[i] = "reading" /\ Feeds(i)
    /\ IF i \in aborted THEN Flushes(i, "cancelled") /\ UNCHANGED children
       ELSE To(i, "working") /\ children' = children \cup {i} /\ UNCHANGED <<aborted, outcome>>
    /\ UNCHANGED <<store, disk, orphans, promised, crashes>>

RunOutcome(i) == IF i \in aborted THEN {"cancelled"} ELSE {"done", "failed"}

(* The bundle, the workspace or the executor cannot be had.                      *)
RunStarves(i) ==
    /\ phase[i] = "reading"
    /\ Flushes(i, IF i \in aborted THEN "cancelled" ELSE "failed")
    /\ UNCHANGED <<store, disk, children, orphans, promised, crashes>>

(* The work is over. A cancelled job mostly returns; see JobService for the way    *)
(* in which it may yet be completed.                                             *)
JobDecides(i) ==
    /\ phase[i] = "working"
    /\ \/ Flushes(i, "done")
       \/ i \notin aborted /\ Flushes(i, "failed")
       \/ i \in aborted /\ Returns(i)
    /\ UNCHANGED <<store, disk, children, orphans, promised, crashes>>

SuiteDecides(i) ==
    /\ phase[i] = "working"
    /\ IF i \in aborted THEN Returns(i) ELSE \E o \in {"done", "failed"} : Flushes(i, o)
    /\ UNCHANGED <<store, disk, children, orphans, promised, crashes>>

RunDecides(i) ==
    /\ phase[i] = "working"
    /\ children' = children \ {i}
    /\ \E o \in RunOutcome(i) : Flushes(i, o)
    /\ UNCHANGED <<store, disk, orphans, promised, crashes>>

-----------------------------------------------------------------------------
(* persist(): a failed job leaves the cases it has, a failed suite no file.       *)
Written(i) ==
    IF outcome[i] = "done" THEN {"full"}
    ELSE IF i \in Suites THEN {"empty"} ELSE {"empty", "full"}

Flushed(i) ==
    /\ phase[i] = "flushing" /\ To(i, "ending")
    /\ IF i \in Runs THEN UNCHANGED disk ELSE \E w \in Written(i) : disk' = [disk EXCEPT ![i] = w]
    /\ UNCHANGED <<store, aborted, outcome, children, orphans, promised, crashes>>

FlushFails_Fault(i) ==      \* SlotsComeFree breaks: the error ends process()
    /\ phase[i] = "flushing" /\ Returns(i)
    /\ UNCHANGED <<store, disk, children, orphans, promised, crashes>>

(* A job only warns, and what it has written by then may serve: that is Flushed.  *)
(* A suite that was done fails, and tries again to say so, unless it is cancelled. *)
(* A run fails, or is cancelled by now; if it had failed before, it may stay so.   *)
FlushFails(i) ==
    /\ phase[i] = "flushing"
    /\ CASE i \in Jobs -> To(i, "ending") /\ UNCHANGED <<aborted, outcome>>
         [] i \in Runs ->
              /\ To(i, "ending") /\ UNCHANGED aborted
              /\ \E o \in {"failed", "cancelled"} :
                    /\ o = "cancelled" => i \in aborted
                    /\ o = "failed" => i \notin aborted \/ outcome[i] = "failed"
                    /\ outcome' = [outcome EXCEPT ![i] = o]
         [] i \in Suites /\ outcome[i] = "failed" ->
              To(i, "ending") /\ UNCHANGED <<aborted, outcome>>
         [] i \in Suites /\ outcome[i] # "failed" ->
              IF status[i] = "cancelled" THEN Returns(i) ELSE Flushes(i, "failed")
    /\ UNCHANGED <<store, disk, children, orphans, promised, crashes>>

(* The terminal status becomes visible.                                           *)
Ends(i) ==
    /\ phase[i] = "ending" /\ Returns(i)
    /\ status' = [status EXCEPT ![i] = outcome[i]]
    /\ gauge' = IF i \in Jobs THEN ActiveJobs(stored, status') ELSE gauge
    /\ promised' = IF i \notin Runs /\ outcome[i] = "done" /\ disk[i] = "full"
                   THEN promised \cup {i} ELSE promised
    /\ UNCHANGED <<stored, tenantId, disk, children, orphans, crashes>>

Stops(i, key) == Finds(i, key) /\ status[i] = "active" /\ aborted' = aborted \cup {i}

CancelJob(i, key) ==
    /\ Stops(i, key)
    /\ status' = [status EXCEPT ![i] = "cancelled"]
    /\ gauge' = ActiveJobs(stored, status')
    /\ UNCHANGED <<stored, tenantId, phase, outcome, disk, children, orphans, promised, crashes>>

CancelSuite(i, key) ==
    /\ Stops(i, key)
    /\ status' = [status EXCEPT ![i] = "cancelled"]
    /\ UNCHANGED <<stored, tenantId, gauge, phase, outcome, disk, children, orphans, promised, crashes>>

CancelRun_Fault(i, key) ==  \* CapsHold breaks: the slot is free before the suite is gone
    /\ Stops(i, key)
    /\ status' = [status EXCEPT ![i] = "cancelled"]
    /\ UNCHANGED <<stored, tenantId, gauge, phase, outcome, disk, children, orphans, promised, crashes>>

(* A run keeps its status, and with it its slot, until its suite has ended.        *)
CancelRun(i, key) ==
    /\ Stops(i, key)
    /\ UNCHANGED <<store, phase, outcome, disk, children, orphans, promised, crashes>>

(* The process is shut down or dies and is started again. Nothing of what was      *)
(* going on is taken up, and containers go on by themselves.                       *)
Restart_Fault ==            \* TypeOK breaks: it takes the containers for its own
    /\ crashes < MaxCrashes /\ crashes' = crashes + 1
    /\ stored' = {} /\ gauge' = 0
    /\ status' = [i \in Ids |-> IF status[i] = "none" THEN "none" ELSE "lost"]
    /\ phase' = [i \in Ids |-> IF status[i] = "none" THEN "none" ELSE "over"]
    /\ aborted' = {} /\ outcome' = [i \in Ids |-> "failed"]
    /\ UNCHANGED <<tenantId, disk, children, orphans, promised>>

Restart ==
    /\ crashes < MaxCrashes /\ crashes' = crashes + 1
    /\ stored' = {} /\ gauge' = 0
    /\ status' = [i \in Ids |-> IF status[i] = "none" THEN "none" ELSE "lost"]
    /\ phase' = [i \in Ids |-> IF status[i] = "none" THEN "none" ELSE "over"]
    /\ orphans' = orphans \cup children /\ children' = {} /\ aborted' = {}
    /\ outcome' = [i \in Ids |-> "failed"] /\ UNCHANGED <<tenantId, disk, promised>>

OrphanEnds(i) ==
    /\ i \in orphans /\ orphans' = orphans \ {i}
    /\ UNCHANGED <<store, aborted, phase, outcome, disk, children, promised, crashes>>

-----------------------------------------------------------------------------
Rest == (\A i \in Ids : phase[i] = "over") /\ UNCHANGED vars

Settles(i) ==
    \/ i \in Jobs /\ JobDecides(i)
    \/ i \in Suites /\ (SuiteLoads(i) \/ SuiteStarves(i) \/ SuiteDecides(i))
    \/ i \in Runs /\ (RunStarts(i) \/ RunStarves(i) \/ RunDecides(i))
    \/ Flushed(i) \/ FlushFails(i) \/ Ends(i)

Next ==
    \/ \E i \in Jobs : JobDecides(i) \/ \E key \in KeysOf[i] : SubmitJob(i, key)
    \/ \E i \in Suites : SuiteLoads(i) \/ SuiteStarves(i) \/ SuiteDecides(i)
                         \/ \E key \in KeysOf[i] : SubmitSuite(i, key)
    \/ \E i \in Runs : RunStarts(i) \/ RunStarves(i) \/ RunDecides(i) \/ OrphanEnds(i)
                       \/ \E key \in KeysOf[i] : SubmitRun(i, key)
    \/ \E i \in Ids : Flushed(i) \/ FlushFails(i) \/ Ends(i)
                      \/ \E key \in KeysOf[i] : Refused(i, key)
    \/ \E key \in Keys : \/ \E i \in Jobs : CancelJob(i, key)
                         \/ \E i \in Suites : CancelSuite(i, key)
                         \/ \E i \in Runs : CancelRun(i, key)
    \/ Restart \/ Rest

(* What a job awaits settles: JobService, CodegenService and RunnerService show     *)
(* that each of them ends.                                                          *)
Fairness == \A i \in Ids : WF_vars(Settles(i))

Spec == Init /\ [][Next]_vars /\ Fairness

-----------------------------------------------------------------------------
(* Types, and that this process knows each suite it has started: it is that of a    *)
(* run that is at work.                                                             *)
TypeOK ==
    /\ stored \subseteq Ids /\ tenantId \in [Ids -> {"none"} \cup {Tenant(key) : key \in Keys}]
    /\ gauge \in 0..Cardinality(Jobs)
    /\ status \in [Ids -> {"none", "active", "lost"} \cup Finals]
    /\ phase \in [Ids -> {"none", "reading", "working", "flushing", "ending", "over"}]
    /\ outcome \in [Ids -> Finals] /\ disk \in [Jobs \cup Suites -> {"none", "empty", "full"}]
    /\ children \subseteq {r \in Runs : phase[r] = "working"} /\ orphans \subseteq Runs
    /\ aborted \subseteq Ids /\ promised \subseteq Jobs \cup Suites
    /\ crashes \in 0..MaxCrashes

(* What the caps are for: no more jobs at work than MAX_ACTIVE_JOBS, as far as they  *)
(* are not cancelled (jobs/store.ts:20-28), and no more suites running for a tenant   *)
(* than its share, cancelled or not (runner/store.ts:6, 23-33), as far as this        *)
(* process has started them. The gauge tells the truth about the jobs (59-64).        *)
CapsHold ==
    /\ ActiveJobs(stored, status) <= MaxActive
    /\ Cardinality(children) <= MaxActive
    /\ \A r \in children : Cardinality({k \in children : tenantId[k] = tenantId[r]}) <= MaxRuns
    /\ gauge = ActiveJobs(stored, status)

(* "terminal results are flushed here so generated test cases remain downloadable      *)
(* after a restart or redeploy" (jobs/persist.ts:10-11): who asks for a suite of a job  *)
(* that was seen completed, or for a run of such a suite, never hears that there is     *)
(* no such job, be it evicted, expired, cancelled since or of a process that is gone;   *)
(* and nobody works on what is another tenant's (auth.ts:20-21).                        *)
PipelineHolds ==
    \A i \in Suites \cup Runs :
        /\ phase[i] = "reading" /\ Source[i] \in promised /\ tenantId[Source[i]] = tenantId[i] => Feeds(i)
        /\ phase[i] = "working" => tenantId[Source[i]] = tenantId[i]

(* "Too many active jobs. Retry once in-flight jobs complete." (jobs/store.ts:26,       *)
(* codegen/store.ts:24, runner/store.ts:23): a store that is full does not stay so.     *)
SlotsComeFree ==
    \A Kind \in {Jobs, Suites, Runs}, key \in Keys :
        Full(Kind, Tenant(key), stored) ~> ~Full(Kind, Tenant(key), stored)
=============================================================================
