---------------------------- MODULE RunnerService ----------------------------
(***************************************************************************)
(* One test run (runner/service.ts): the workspace, the child process that  *)
(* executes the suite, the tail of the reporter's event file, cancellation, *)
(* the timeout, the evidence written to disk and the cleanup.               *)
(*                                                                          *)
(* The reporter appends lines of LineLen characters (the newline included)  *)
(* to events.jsonl; line 0 is run_started, every other one a test_finished. *)
(* A reader may see a line half written. The child, the file system and the *)
(* readers of the file are the actors that interleave. The child stands for *)
(* the suite as a whole: killing it ends its container with it (executor.ts, *)
(* docker mode).                                                            *)
(*                                                                          *)
(* X_Fault is X with one plausible coding error; see JobService.            *)
(***************************************************************************)
EXTENDS Integers, Sequences

CONSTANTS
    MaxLines,   \* bound: lines the reporter of this run writes
    LineLen,    \* characters of a line, its newline included
    Polls,      \* bound: reads of the event file in flight at a time
    MaxCancels  \* bound: cancellations a client sends

ASSUME RunConstants ==
    /\ MaxLines \in Nat /\ MaxCancels \in Nat
    /\ LineLen \in Nat /\ LineLen > 2

VARIABLES
    phase,      \* the await process() stands at
    status,     \* job.status
    aborted,    \* job.abort.signal.aborted
    timedOut,   \* the timeout callback ran
    child,      \* the process (docker client and container) of the suite
    killer,     \* who killed it first
    exitCode,   \* of the closed child: 0, 1 (tests failed) or -1 (other)
    written,    \* characters in events.jsonl
    offset,     \* eventsOffset
    reads,      \* poll -> file length when its read started, -1 if none
    log,        \* job.events: event types, a number for a reporter line
    final,      \* finalStatus, decided before the evidence is persisted
    manifest,   \* the status in the persisted manifest.json
    workspace,  \* job.workspace is set
    onDisk,     \* the workspace directory: "none", "there", "removed", or
                \* "stuck" when removing it failed
    secrets,    \* job.envValues is not empty
    cancels     \* cancellations so far

tailVars == <<offset, reads>>
childVars == <<child, killer, exitCode, written>>
endVars == <<final, manifest, workspace, onDisk, secrets>>
vars == <<phase, status, aborted, timedOut, childVars, tailVars, log, endVars, cancels>>

Active == {"queued", "preparing", "running"}
Terminal == {"completed", "failed", "timed_out", "cancelled"}

Emit(type) == log' = Append(log, <<type>>)
Lines(l) == {i \in 1..Len(l) : l[i][1] = "line"}
HasResults == \E i \in Lines(log) : log[i][2] > 0

-----------------------------------------------------------------------------
(* drainEvents, once its read returned the first n characters of the file.  *)
(* The new lines are those that start at or after the offset and are whole; *)
(* a line whose beginning the offset has cut off is not JSON and is dropped. *)
FirstLine == (offset + LineLen - 1) \div LineLen
WholeLines(n) == n \div LineLen
NewLines(n) == [i \in 1..WholeLines(n) - FirstLine |-> <<"line", FirstLine + i - 1>>]

NextOffset_Drift(n) == offset + n    \* TypeOK breaks: adds the whole file's length

NextOffset_Fault(n) ==      \* LinesInOrder breaks: only partial lines move it
    IF n % LineLen = 0 THEN offset ELSE WholeLines(n) * LineLen

(* When the file ends with a newline, the split leaves an empty last line,   *)
(* and the newline that join() puts before it is counted once more.          *)
NextOffset(n) ==
    IF n % LineLen = 0 THEN n + 1
    ELSE IF WholeLines(n) * LineLen > offset THEN WholeLines(n) * LineLen
    ELSE offset

Drain(n) ==
    IF n > offset THEN offset' = NextOffset(n) /\ log' = log \o NewLines(n)
    ELSE UNCHANGED <<offset, log>>

-----------------------------------------------------------------------------
Init ==
    /\ phase = "idle" /\ status = "queued" /\ aborted = FALSE /\ timedOut = FALSE
    /\ child = "none" /\ killer = "none" /\ exitCode = -1 /\ written = 0
    /\ offset = 0 /\ reads = [p \in Polls |-> -1]
    /\ log = <<>> /\ final = "failed" /\ manifest = "none"
    /\ workspace = FALSE /\ onDisk = "none" /\ secrets = FALSE /\ cancels = 0

(* submit() runs process() up to the read of the generated suite.            *)
Submit ==
    /\ phase = "idle"
    /\ phase' = "bundle" /\ status' = "preparing" /\ secrets' = TRUE
    /\ log' = <<<<"run_created">>, <<"preparing">>>>
    /\ UNCHANGED <<aborted, timedOut, childVars, tailVars, final, manifest,
                   workspace, onDisk, cancels>>

(* process() enters its catch: the outcome is decided there, and the         *)
(* evidence is collected and persisted under it.                             *)
Catch ==
    /\ phase' = "catching"
    /\ final' = IF aborted THEN "cancelled" ELSE "failed"

BundleRead ==
    /\ phase = "bundle" /\ phase' = "materialize" /\ onDisk' = "there"
    /\ UNCHANGED <<status, aborted, timedOut, childVars, tailVars, log, final,
                   manifest, workspace, secrets, cancels>>

Materialized ==
    /\ phase = "materialize" /\ workspace' = TRUE
    /\ Emit("workspace_ready")
    /\ IF aborted THEN Catch ELSE phase' = "starting" /\ UNCHANGED final
    /\ UNCHANGED <<status, aborted, timedOut, childVars, tailVars, manifest,
                   onDisk, secrets, cancels>>

ExecutorStarted ==
    /\ phase = "starting" /\ phase' = "running" /\ status' = "running"
    /\ child' = "alive"
    /\ Emit("executor_started")
    /\ UNCHANGED <<aborted, timedOut, killer, exitCode, written, tailVars, endVars, cancels>>

(* An await before the suite runs, or the collection of its evidence, fails. *)
StepFails ==
    /\ phase \in {"bundle", "materialize", "starting", "collecting", "persisting"}
    /\ Catch
    /\ UNCHANGED <<status, aborted, timedOut, childVars, tailVars, log, manifest,
                   workspace, onDisk, secrets, cancels>>

-----------------------------------------------------------------------------
(* The suite runs.                                                          *)
Kill(who) ==
    /\ child' = "killed"
    /\ killer' = IF killer = "none" THEN who ELSE killer
    /\ UNCHANGED <<exitCode, written>>

ReporterWrites ==
    /\ child \in {"alive", "killed"} /\ written < MaxLines * LineLen
    /\ written' = written + 1
    /\ UNCHANGED <<phase, status, aborted, timedOut, child, killer, exitCode,
                   tailVars, log, endVars, cancels>>

(* A child that exits on its own, even as the kill is on its way, has        *)
(* written its last line to the end.                                         *)
ChildCloses(code) ==
    /\ child \in {"alive", "killed"}
    /\ written % LineLen = 0 \/ code = -1
    /\ child' = "closed" /\ exitCode' = code
    /\ UNCHANGED <<phase, status, aborted, timedOut, killer, written, tailVars,
                   log, endVars, cancels>>

TimeoutFires_Fault == FALSE    \* RunEnds breaks: no timeout is armed

TimeoutFires ==
    /\ phase = "running" /\ ~timedOut
    /\ timedOut' = TRUE
    /\ IF child = "alive" THEN Kill("timeout") ELSE UNCHANGED childVars
    /\ UNCHANGED <<phase, status, aborted, tailVars, log, endVars, cancels>>

PollStarts(p) ==
    /\ phase = "running" /\ reads[p] = -1
    /\ reads' = [reads EXCEPT ![p] = written]
    /\ UNCHANGED <<phase, status, aborted, timedOut, childVars, offset, log, endVars, cancels>>

(* A read returns some length that the file had while it was under way, or   *)
(* fails: no file yet, or no file any more.                                   *)
PollReturns(p) ==
    /\ reads[p] # -1
    /\ reads' = [reads EXCEPT ![p] = -1]
    /\ (\E n \in reads[p]..written : Drain(n)) \/ UNCHANGED <<offset, log>>
    /\ UNCHANGED <<phase, status, aborted, timedOut, childVars, endVars, cancels>>

(* process() learns of the exit and stops the poller, the timer and the      *)
(* listener for the cancellation.                                             *)
ExitSeen ==
    /\ phase = "running" /\ child = "closed"
    /\ phase' = "draining"
    /\ UNCHANGED <<status, aborted, timedOut, childVars, tailVars, log, endVars, cancels>>

FinalDrain ==
    /\ phase = "draining" /\ phase' = "collecting"
    /\ Drain(written)
    /\ UNCHANGED <<status, aborted, timedOut, childVars, reads, endVars, cancels>>

-----------------------------------------------------------------------------
(* The outcome.                                                             *)
Outcome_Fault ==        \* StatusIsTrue breaks: the timeout is looked at first
    IF timedOut THEN "timed_out" ELSE IF aborted THEN "cancelled"
    ELSE IF exitCode = 0 \/ (exitCode = 1 /\ HasResults) THEN "completed" ELSE "failed"

Outcome ==
    IF aborted THEN "cancelled" ELSE IF timedOut THEN "timed_out"
    ELSE IF exitCode = 0 \/ (exitCode = 1 /\ HasResults) THEN "completed" ELSE "failed"

Collected ==
    /\ phase = "collecting" /\ phase' = "persisting" /\ final' = Outcome
    /\ UNCHANGED <<status, aborted, timedOut, childVars, tailVars, log, manifest,
                   workspace, onDisk, secrets, cancels>>

(* The terminal status becomes visible, run_terminal ends the stream, and    *)
(* the finally block wipes the secrets and removes the workspace.            *)
End == /\ status' = final /\ secrets' = FALSE
       /\ phase' = IF workspace THEN "cleanup" ELSE "done"

Persisted ==
    /\ phase = "persisting" /\ manifest' = final /\ End
    /\ log' = log \o <<<<"artifacts_persisted">>, <<"run_terminal">>>>
    /\ UNCHANGED <<aborted, timedOut, childVars, tailVars, final, workspace, onDisk, cancels>>

Caught_Fault ==         \* StatusIsTrue breaks: every caught error is a failure on disk
    /\ phase = "catching" /\ End
    /\ manifest' \in {manifest, "failed"}
    /\ Emit("run_terminal")
    /\ UNCHANGED <<aborted, timedOut, childVars, tailVars, final, workspace, onDisk, cancels>>

Caught ==
    /\ phase = "catching" /\ End
    /\ manifest' \in {manifest, final}
    /\ Emit("run_terminal")
    /\ UNCHANGED <<aborted, timedOut, childVars, tailVars, final, workspace, onDisk, cancels>>

CleanedUp ==
    /\ phase = "cleanup" /\ phase' = "done"
    /\ onDisk' \in {"removed", "stuck"}
    /\ UNCHANGED <<status, aborted, timedOut, childVars, tailVars, log, final,
                   manifest, workspace, secrets, cancels>>

-----------------------------------------------------------------------------
Cancel_Fault ==         \* SlotHeldByChild breaks: the status is flipped at once
    /\ phase # "idle" /\ status \in Active /\ cancels < MaxCancels
    /\ cancels' = cancels + 1 /\ aborted' = TRUE /\ status' = "cancelled"
    /\ Emit("run_cancelled")
    /\ IF phase = "running" /\ ~aborted /\ child = "alive" THEN Kill("cancel")
       ELSE UNCHANGED childVars
    /\ UNCHANGED <<phase, timedOut, tailVars, endVars>>

Cancel_AnyTime ==        \* ImplementsLifecycle breaks: also when it is over
    /\ phase # "idle" /\ cancels < MaxCancels
    /\ cancels' = cancels + 1 /\ aborted' = TRUE
    /\ Emit("run_cancelled")
    /\ IF phase = "running" /\ ~aborted /\ child = "alive" THEN Kill("cancel")
       ELSE UNCHANGED childVars
    /\ UNCHANGED <<phase, status, timedOut, tailVars, endVars>>

(* The abort event fires once, and only the running suite listens to it: a   *)
(* signal that is aborted before the listener is added never calls it.       *)
Cancel ==
    /\ phase # "idle" /\ status \in Active /\ cancels < MaxCancels
    /\ cancels' = cancels + 1 /\ aborted' = TRUE
    /\ Emit("run_cancelled")
    /\ IF phase = "running" /\ ~aborted /\ child = "alive" THEN Kill("cancel")
       ELSE UNCHANGED childVars
    /\ UNCHANGED <<phase, status, timedOut, tailVars, endVars>>

Rest == phase = "done" /\ (\A p \in Polls : reads[p] = -1) /\ UNCHANGED vars

Awaits == BundleRead \/ Materialized \/ ExecutorStarted \/ StepFails \/ ExitSeen
          \/ FinalDrain \/ Collected \/ Persisted \/ Caught \/ CleanedUp

Next ==
    \/ Submit \/ BundleRead \/ Materialized \/ ExecutorStarted \/ StepFails
    \/ ReporterWrites \/ TimeoutFires
    \/ \E code \in {-1, 0, 1} : ChildCloses(code)
    \/ \E p \in Polls : PollStarts(p) \/ PollReturns(p)
    \/ ExitSeen \/ FinalDrain \/ Collected \/ Persisted \/ Caught \/ CleanedUp
    \/ Cancel \/ Rest

(* The file system answers, the timer fires and a killed child closes; a     *)
(* suite left alone need not end, and a poll need not start.                  *)
Fairness ==
    /\ WF_vars(Awaits) /\ WF_vars(TimeoutFires)
    /\ WF_vars(child = "killed" /\ ChildCloses(-1))
    /\ \A p \in Polls : WF_vars(PollReturns(p))

Spec == Init /\ [][Next]_vars /\ Fairness

-----------------------------------------------------------------------------
TypeOK ==
    /\ phase \in {"idle", "bundle", "materialize", "starting", "running", "draining",
                  "collecting", "persisting", "catching", "cleanup", "done"}
    /\ status \in Active \cup Terminal
    /\ aborted \in BOOLEAN /\ timedOut \in BOOLEAN
    /\ child \in {"none", "alive", "killed", "closed"}
    /\ killer \in {"none", "cancel", "timeout"}
    /\ exitCode \in {-1, 0, 1}
    /\ written \in 0..MaxLines * LineLen
    /\ offset \in 0..written + 1
    /\ reads \in [Polls -> -1..written]
    /\ final \in Terminal /\ manifest \in Terminal \cup {"none"}
    /\ workspace \in BOOLEAN /\ secrets \in BOOLEAN
    /\ onDisk \in {"none", "there", "removed", "stuck"}
    /\ cancels \in 0..MaxCancels

(* The reporter's events enter the run's log in the order of the file, none  *)
(* twice, however the polls overlap and whatever part of a line they see      *)
(* (service.ts:168-183).                                                      *)
LinesInOrder ==
    \A i, j \in Lines(log) : i < j => log[i][2] < log[j][2]

(* The evidence on disk tells the status that clients see (service.ts:248-254, *)
(* 276-283), and that is cancelled for a run whose child a cancellation has    *)
(* killed, also when the timeout fires before the child has closed (236-237,   *)
(* 272).                                                                       *)
StatusIsTrue ==
    status \in Terminal =>
        /\ manifest # "none" => manifest = status
        /\ killer = "cancel" => status = "cancelled"

(* A run occupies its slot in the tenant's cap as long as its child lives     *)
(* (store.ts:19-33, service.ts:223).                                          *)
SlotHeldByChild ==
    child \in {"alive", "killed"} => status \in Active

(* Every run ends, with its child closed, its secrets wiped, and its workspace *)
(* removed unless that fails; only one that was never finished stays behind    *)
(* (service.ts:191, 288-294, workspace.ts:28).                                 *)
RunEnds ==
    phase # "idle" ~> /\ phase = "done" /\ status \in Terminal /\ ~secrets
                      /\ child \in {"none", "closed"}
                      /\ workspace => onDisk \in {"removed", "stuck"}

-----------------------------------------------------------------------------
(* The run implements the promise of RunLifecycle.                            *)
Seen == IF phase = "idle" THEN "none" ELSE IF status \in Active THEN "active" ELSE status
Suite == IF child = "none" THEN "none" ELSE IF child = "closed" THEN "over" ELSE "runs"
Stopped == killer = "cancel"

Lifecycle == INSTANCE RunLifecycle WITH
    status <- Seen, asked <- aborted, expired <- timedOut, suite <- Suite, exit <- exitCode,
    stopped <- Stopped, stream <- log

(* Seen from outside, overlapping polls, the timer, cancellations and failing *)
(* awaits are one execution of the suite and one end with the verdict it       *)
(* deserves, after which nothing is told: a late cancellation is ignored, and   *)
(* a poll that returns late adds nothing (service.ts:84, 164-295;               *)
(* api/routes/runs.ts:92-95).                                                   *)
ImplementsLifecycle == Lifecycle!Spec

-----------------------------------------------------------------------------
(* What the repository says and the code does not do.                        *)

Ended == \E i \in 1..Len(log) : log[i] = <<"run_terminal">>

(* api/routes/runs.ts:68-69, the live view "streams every new event": at the  *)
(* end the log holds every whole line that the reporter wrote.                *)
EveryLineIsStreamed ==
    Ended => \A k \in 0..WholeLines(written) - 1 : \E i \in Lines(log) : log[i][2] = k

(* README.md:120, cancelling means "Kill an in-flight run (container          *)
(* included)": no suite goes on running after its cancellation.               *)
CancelKillsChild == aborted /\ phase = "running" => child # "alive"
=============================================================================
