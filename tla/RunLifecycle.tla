----------------------------- MODULE RunLifecycle -----------------------------
(***************************************************************************)
(* What the service promises of a test run, whatever the polls of the event  *)
(* file, the timer and the awaits of process() do: the suite is started once, *)
(* its results are shown in their order while the run is open, and the run     *)
(* ends once, with a verdict that it deserves and evidence that agrees with it. *)
(* It never ends while its suite executes, and after its end nothing is told.    *)
(* A cancellation may come too late to change the verdict, but not if it has      *)
(* stopped the suite.                                                              *)
(***************************************************************************)
EXTENDS Integers, Sequences

CONSTANT MaxLines    \* bound: results of a run

VARIABLES
    status,     \* what a client sees
    asked,      \* somebody has cancelled it
    expired,    \* its time is over
    suite,      \* the suite: not started, executing, or over
    exit,       \* with which it ended: 0, 1 (tests failed) or -1 (other)
    stopped,    \* the cancellation has ended it
    stream,     \* what viewers are told
    manifest    \* the verdict in the evidence

vars == <<status, asked, expired, suite, exit, stopped, stream, manifest>>

Verdicts == {"completed", "failed", "timed_out", "cancelled"}

Told(type) == stream' = Append(stream, <<type>>)
Shown == {stream[i][2] : i \in {k \in 1..Len(stream) : stream[k][1] = "line"}}
\* Line 0 announces the suite, the others are results.
HasResults == \E k \in Shown : k > 0

Init ==
    /\ status = "none" /\ asked = FALSE /\ expired = FALSE /\ suite = "none" /\ exit = -1
    /\ stopped = FALSE /\ stream = <<>> /\ manifest = "none"

Accept ==
    /\ status = "none" /\ status' = "active"
    /\ stream' = <<<<"run_created">>, <<"preparing">>>>
    /\ UNCHANGED <<asked, expired, suite, exit, stopped, manifest>>

Prepare ==
    /\ status = "active" /\ suite = "none"
    /\ Told("workspace_ready")
    /\ UNCHANGED <<status, asked, expired, suite, exit, stopped, manifest>>

Start ==
    /\ status = "active" /\ suite = "none" /\ suite' = "runs"
    /\ Told("executor_started")
    /\ UNCHANGED <<status, asked, expired, exit, stopped, manifest>>

\* The next results; some may have been lost before them.
Show ==
    /\ status = "active" /\ suite # "none"
    /\ \E first \in 0..MaxLines - 1 : \E n \in 1..MaxLines - first :
        /\ \A k \in Shown : k < first
        /\ stream' = stream \o [i \in 1..n |-> <<"line", first + i - 1>>]
    /\ UNCHANGED <<status, asked, expired, suite, exit, stopped, manifest>>

Expire ==
    /\ status = "active" /\ suite # "none" /\ expired' = TRUE
    /\ UNCHANGED <<status, asked, suite, exit, stopped, stream, manifest>>

Cancel ==
    /\ status = "active" /\ asked' = TRUE
    /\ UNCHANGED stopped \/ (suite = "runs" /\ stopped' = TRUE)
    /\ Told("run_cancelled")
    /\ UNCHANGED <<status, expired, suite, exit, manifest>>

Exit ==
    /\ suite = "runs" /\ suite' = "over" /\ exit' \in {-1, 0, 1}
    /\ UNCHANGED <<status, asked, expired, stopped, stream, manifest>>

Deserved(v) ==
    \/ v = "cancelled" /\ asked
    \/ v = "timed_out" /\ expired
    \/ v = "completed" /\ ~expired /\ (exit = 0 \/ (exit = 1 /\ HasResults))
    \/ v = "failed" /\ ~expired /\ exit # 0

Ends(v) ==
    /\ status = "active" /\ suite # "runs" /\ status' = v
    /\ stopped => v = "cancelled"
    /\ UNCHANGED <<asked, expired, suite, exit, stopped>>

\* The suite is over, and its evidence is there before the verdict is.
Conclude == \E v \in Verdicts :
    /\ Ends(v) /\ suite = "over" /\ Deserved(v)
    /\ manifest' = v
    /\ stream' = stream \o <<<<"artifacts_persisted">>, <<"run_terminal">>>>

\* A step on the way fails, or is refused after a cancellation.
GiveUp == \E v \in {"failed", "cancelled"} :
    /\ Ends(v) /\ (v = "cancelled" => asked)
    /\ manifest' \in {"none", v}
    /\ Told("run_terminal")

Next == Accept \/ Prepare \/ Start \/ Show \/ Expire \/ Cancel \/ Exit \/ Conclude \/ GiveUp

Spec == Init /\ [][Next]_vars
=============================================================================
