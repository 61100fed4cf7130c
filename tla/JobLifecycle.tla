---------------------------- MODULE JobLifecycle ----------------------------
(***************************************************************************)
(* What the service promises of one test-generation job, whatever the pool, *)
(* the repair rounds and the single file writes do: test cases accumulate   *)
(* until the verdict, the verdict is decided by them alone, and it becomes  *)
(* visible together with its stored artifacts (or with the warning that     *)
(* storing them failed). A cancellation is visible at once, but it does not *)
(* exclude a later verdict.                                                  *)
(***************************************************************************)
CONSTANT Items      \* what the documents may ask to be covered

VARIABLES
    wanted,     \* the items this job has to cover
    status,     \* what a client sees
    cases,      \* the delivered test cases, as the item sets they cover
    stored,     \* the verdict the artifact directory wholly records
    excused,    \* storing the artifacts failed
    lost        \* the process died

vars == <<wanted, status, cases, stored, excused, lost>>

Verdicts == {"completed", "completed_with_gaps", "failed"}
Statuses == Verdicts \cup {"none", "running", "cancelled"}

Verdict == IF cases = {} THEN "failed"
           ELSE IF UNION cases = wanted THEN "completed"
           ELSE "completed_with_gaps"

Init ==
    /\ wanted = {} /\ status = "none" /\ cases = {}
    /\ stored = "incomplete" /\ excused = FALSE /\ lost = FALSE

Accept ==
    /\ status = "none"
    /\ \E S \in SUBSET Items : wanted' = S
    /\ status' = "running"
    /\ UNCHANGED <<cases, stored, excused, lost>>

Deliver ==
    /\ ~lost /\ status \in {"running", "cancelled"}
    /\ \E C \in SUBSET wanted : cases' = cases \cup {C}
    /\ UNCHANGED <<wanted, status, stored, excused, lost>>

\* The verdict, with its artifacts or with the excuse.
Reach ==
    /\ ~lost
    /\ status' = Verdict
    /\ \/ stored' = Verdict /\ excused' = FALSE
       \/ stored' = stored /\ excused' = TRUE
    /\ UNCHANGED <<wanted, cases, lost>>

Conclude == status = "running" /\ Reach
ConcludeAnyway == status = "cancelled" /\ Reach

Cancel ==
    /\ ~lost /\ status = "running"
    /\ status' = "cancelled"
    /\ UNCHANGED <<wanted, cases, stored, excused, lost>>

Lose ==
    /\ ~lost /\ status # "none"
    /\ lost' = TRUE
    /\ UNCHANGED <<wanted, status, cases, stored, excused>>

Next == Accept \/ Deliver \/ Conclude \/ ConcludeAnyway \/ Cancel \/ Lose

\* A running job reaches its verdict, unless it is cancelled or lost first.
Spec == Init /\ [][Next]_vars /\ WF_vars(Conclude)
=============================================================================
