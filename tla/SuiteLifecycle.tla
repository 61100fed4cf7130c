---------------------------- MODULE SuiteLifecycle ----------------------------
(***************************************************************************)
(* What the service promises of its code generation jobs, whatever the pool, *)
(* the calls that outlive it and the single file writes do: a job plans its   *)
(* files, tries each of them once, and publishes what was generated with a     *)
(* verdict that follows from the tries. It gives up only before it has a plan, *)
(* after it has tried everything, or when it was cancelled before it tried      *)
(* anything. Readers find the suite before they see the verdict, and what is     *)
(* published is final. A cancellation is visible at once, but the plan, the       *)
(* suite or the failure of a cancelled job may still follow.                     *)
(***************************************************************************)
CONSTANTS Jobs, Files

VARIABLES
    status,     \* job -> what a client sees
    aborted,    \* job -> it was cancelled at some time
    planned,    \* job -> the files it is to have
    good,       \* job -> the files generated
    bad,        \* job -> the files tried in vain
    manifest    \* job -> what readers of the suite find

vars == <<status, aborted, planned, good, bad, manifest>>

Open == {"running", "cancelled"}
NoManifest == [status |-> "none", files |-> {}]
Failure == [status |-> "failed", files |-> {}]
Tried(j) == good[j] \cup bad[j]
Verdict(j) == IF bad[j] = {} THEN "completed" ELSE "completed_with_errors"

\* 0 is the scaffold, which every suite has.
Suite(j) == [status |-> Verdict(j), files |-> {0} \cup good[j]]

Reason(j) == planned[j] = {} \/ Tried(j) = planned[j] \/ (aborted[j] /\ Tried(j) = {})

Init ==
    /\ status = [j \in Jobs |-> "none"] /\ aborted = [j \in Jobs |-> FALSE]
    /\ planned = [j \in Jobs |-> {}] /\ good = [j \in Jobs |-> {}] /\ bad = [j \in Jobs |-> {}]
    /\ manifest = [j \in Jobs |-> NoManifest]

Accept(j) ==
    /\ status[j] = "none"
    /\ status' = [status EXCEPT ![j] = "running"]
    /\ UNCHANGED <<aborted, planned, good, bad, manifest>>

\* The plan makes a cancelled job look active again.
Plan(j) ==
    /\ status[j] \in Open /\ planned[j] = {} /\ manifest[j] = NoManifest
    /\ \E S \in (SUBSET Files) \ {{}} : planned' = [planned EXCEPT ![j] = S]
    /\ status' = [status EXCEPT ![j] = "running"]
    /\ UNCHANGED <<aborted, good, bad, manifest>>

Try(j) ==
    /\ status[j] = "running" /\ ~aborted[j] /\ manifest[j] = NoManifest
    /\ \E f \in planned[j] \ Tried(j) :
        \/ good' = [good EXCEPT ![j] = @ \cup {f}] /\ bad' = bad
        \/ bad' = [bad EXCEPT ![j] = @ \cup {f}] /\ good' = good
    /\ UNCHANGED <<status, aborted, planned, manifest>>

Store(j) ==
    /\ status[j] \in Open /\ manifest[j] = NoManifest
    /\ \/ /\ good[j] # {} /\ Tried(j) = planned[j]
          /\ manifest' = [manifest EXCEPT ![j] = Suite(j)]
       \/ Reason(j) /\ manifest' = [manifest EXCEPT ![j] = Failure]
    /\ UNCHANGED <<status, aborted, planned, good, bad>>

Publish(j) ==
    /\ status[j] \in Open /\ manifest[j] = Suite(j)
    /\ status' = [status EXCEPT ![j] = Verdict(j)]
    /\ UNCHANGED <<aborted, planned, good, bad, manifest>>

GiveUp(j) ==
    /\ status[j] \in Open /\ Reason(j) /\ manifest[j] \in {NoManifest, Failure}
    /\ status' = [status EXCEPT ![j] = "failed"]
    /\ UNCHANGED <<aborted, planned, good, bad, manifest>>

Cancel(j) ==
    /\ status[j] = "running"
    /\ status' = [status EXCEPT ![j] = "cancelled"]
    /\ aborted' = [aborted EXCEPT ![j] = TRUE]
    /\ UNCHANGED <<planned, good, bad, manifest>>

Next ==
    \E j \in Jobs :
        Accept(j) \/ Plan(j) \/ Try(j) \/ Store(j) \/ Publish(j) \/ GiveUp(j) \/ Cancel(j)

Spec == Init /\ [][Next]_vars
=============================================================================
