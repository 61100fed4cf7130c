----------------------------- MODULE NovitaClient -----------------------------
(***************************************************************************)
(* The client of the model API (llm/novita.ts) as its concurrent callers    *)
(* share it: the circuit breaker, and for each call the ladder of attempts   *)
(* with their timeouts, back-off sleeps, the free downgrade from json_schema *)
(* to json_object, and cancellation.                                         *)
(*                                                                          *)
(* Abstracted: time is whether resetMs has passed since the breaker opened;  *)
(* an answer is the class of what complete() does with it; a caller stands   *)
(* for a runner of some job and calls again and again.                       *)
(*                                                                          *)
(* X_Fault is X with one plausible coding error; see JobService.             *)
(***************************************************************************)
EXTENDS Integers, FiniteSets

CONSTANTS
    Callers,        \* runners that share the client
    MaxRetries,     \* config.maxRetries
    Threshold       \* config.circuitFailureThreshold

ASSUME NovitaConstants ==
    /\ Callers # {} /\ IsFiniteSet(Callers)
    /\ MaxRetries \in Nat
    /\ Threshold \in Nat \ {0}

VARIABLES
    failures,   \* breaker.failures
    elapsed,    \* resetMs has passed since breaker.openedAt
    gauge,      \* metrics.circuitOpen
    at,         \* caller -> "idle", "fetching" or "backoff"
    attempt,    \* caller -> the attempt of its call
    mode,       \* caller -> responseMode
    aborted,    \* caller -> its job's signal is aborted
    exchanges,  \* history: caller -> requests its call has sent, counted up
                \* to one more than MaxRetries + 2
    trial       \* history: calls let through since the breaker half-opened
                \* that are still unsettled, up to the next recorded result

breakerVars == <<failures, elapsed, gauge>>
callVars == <<at, attempt, mode, aborted, exchanges>>
vars == <<breakerVars, callVars, trial>>

-----------------------------------------------------------------------------
(* The breaker.                                                             *)
Tripped == failures >= Threshold
Blocked == Tripped /\ ~elapsed

RecordSuccess_Fault ==      \* TypeOK breaks: the gauge is left alone
    failures' = 0 /\ trial' = {} /\ UNCHANGED <<elapsed, gauge>>

RecordSuccess ==
    failures' = 0 /\ gauge' = 0 /\ trial' = {} /\ UNCHANGED elapsed

RecordFailures(n) ==
    /\ failures' = failures + n
    /\ IF failures + n >= Threshold
       THEN elapsed' = FALSE /\ gauge' = 1
       ELSE UNCHANGED <<elapsed, gauge>>
    /\ trial' = {}

(* isOpen, read once at the start of a call: when the reset time has passed  *)
(* it leaves the breaker one failure away from tripping again.               *)
Admit_Fault(c) ==           \* TypeOK breaks: an open breaker is not looked at
    /\ trial' = IF Tripped \/ trial # {} THEN trial \cup {c} ELSE trial
    /\ UNCHANGED breakerVars

Admit(c) ==
    /\ ~Blocked
    /\ IF Tripped
       THEN failures' = Threshold - 1 /\ gauge' = 0 /\ trial' = {c}
       ELSE /\ UNCHANGED <<failures, gauge>>
            /\ trial' = IF trial # {} THEN trial \cup {c} ELSE {}
    /\ UNCHANGED elapsed

ResetElapses ==
    /\ Blocked /\ elapsed' = TRUE
    /\ UNCHANGED <<failures, gauge, callVars, trial>>

-----------------------------------------------------------------------------
Init ==
    /\ failures = 0 /\ elapsed = TRUE /\ gauge = 0
    /\ at = [c \in Callers |-> "idle"]
    /\ attempt = [c \in Callers |-> 1]
    /\ mode = [c \in Callers |-> "none"]
    /\ aborted = [c \in Callers |-> FALSE]
    /\ exchanges = [c \in Callers |-> 0]
    /\ trial = {}

(* A call of complete(), with or without a response format; one that finds   *)
(* the breaker open is rejected at once and leaves no trace.                  *)
Start(c) ==
    /\ at[c] = "idle" /\ Admit(c)
    /\ at' = [at EXCEPT ![c] = "fetching"]
    /\ attempt' = [attempt EXCEPT ![c] = 1]
    /\ \E m \in {"schema", "none"} : mode' = [mode EXCEPT ![c] = m]
    /\ aborted' = [aborted EXCEPT ![c] = FALSE]
    /\ exchanges' = [exchanges EXCEPT ![c] = 1]

(* complete() returns or throws, and its locals go with it.                   *)
Ends(c) ==
    /\ at' = [at EXCEPT ![c] = "idle"]
    /\ attempt' = [attempt EXCEPT ![c] = 1]
    /\ mode' = [mode EXCEPT ![c] = "none"]
    /\ aborted' = [aborted EXCEPT ![c] = FALSE]
    /\ exchanges' = [exchanges EXCEPT ![c] = 0]

Sends(c) ==
    exchanges' = [exchanges EXCEPT ![c] = IF @ > MaxRetries + 2 THEN @ ELSE @ + 1]

Succeeds(c) ==
    /\ at[c] = "fetching" /\ ~aborted[c]
    /\ RecordSuccess /\ Ends(c)

Downgraded_Fault(c) ==      \* ExchangesBounded breaks: the mode is kept
    /\ at[c] = "fetching" /\ ~aborted[c] /\ mode[c] = "schema"
    /\ Sends(c)
    /\ UNCHANGED <<breakerVars, at, attempt, mode, aborted, trial>>

(* The model rejects json_schema: the same attempt is made again with         *)
(* json_object, at once and free of charge.                                   *)
Downgraded(c) ==
    /\ at[c] = "fetching" /\ ~aborted[c] /\ mode[c] = "schema"
    /\ mode' = [mode EXCEPT ![c] = "object"]
    /\ Sends(c)
    /\ UNCHANGED <<breakerVars, at, attempt, aborted, trial>>

Retries(c) == attempt[c] <= MaxRetries

(* A timeout, a network error, a retryable status or an unusable body.        *)
Fails(c) ==
    /\ at[c] = "fetching" /\ ~aborted[c]
    /\ RecordFailures(1)
    /\ IF Retries(c)
       THEN at' = [at EXCEPT ![c] = "backoff"] /\ UNCHANGED <<attempt, mode, aborted, exchanges>>
       ELSE Ends(c)

(* Any other status: recorded where it is thrown and again where it is        *)
(* caught, and never retried.                                                 *)
Refused(c) ==
    /\ at[c] = "fetching" /\ ~aborted[c]
    /\ RecordFailures(2) /\ Ends(c)

(* The next attempt does not ask the breaker again.                           *)
BackoffEnds(c) ==
    /\ at[c] = "backoff" /\ ~aborted[c]
    /\ at' = [at EXCEPT ![c] = "fetching"]
    /\ attempt' = [attempt EXCEPT ![c] = @ + 1]
    /\ Sends(c)
    /\ UNCHANGED <<breakerVars, mode, aborted, trial>>

Cancel(c) ==
    /\ at[c] # "idle" /\ ~aborted[c]
    /\ aborted' = [aborted EXCEPT ![c] = TRUE]
    /\ UNCHANGED <<breakerVars, at, attempt, mode, exchanges, trial>>

Rejected_Fault(c) ==        \* CancelledCallsStop breaks: recorded before the check
    /\ aborted[c] /\ at[c] # "idle"
    /\ RecordFailures(1) /\ Ends(c)

Rejected_Hangs(c) ==        \* CallEnds breaks: the aborted sleep clears its timer only
    /\ aborted[c] /\ at[c] = "fetching"
    /\ trial' = trial \ {c}
    /\ Ends(c) /\ UNCHANGED breakerVars

(* The fetch or the sleep of a cancelled call rejects.                        *)
Rejected(c) ==
    /\ aborted[c] /\ at[c] # "idle"
    /\ trial' = trial \ {c}
    /\ Ends(c) /\ UNCHANGED breakerVars

Settles(c) ==
    Succeeds(c) \/ Downgraded(c) \/ Fails(c) \/ Refused(c) \/ BackoffEnds(c) \/ Rejected(c)

Next ==
    \/ ResetElapses
    \/ \E c \in Callers :
        \/ Start(c) \/ Cancel(c)
        \/ Succeeds(c) \/ Downgraded(c) \/ Fails(c) \/ Refused(c)
        \/ BackoffEnds(c) \/ Rejected(c)

(* A fetch is answered or times out, and a timer fires.                       *)
Fairness == WF_vars(ResetElapses) /\ \A c \in Callers : WF_vars(Settles(c))

Spec == Init /\ [][Next]_vars /\ Fairness

-----------------------------------------------------------------------------
(* Types, the bound on the failures that calls admitted before the breaker    *)
(* opened can still add to it, and that the exported gauge says whether calls *)
(* are being refused, or would be but for the reset time, in whatever order   *)
(* results and probes come in (novita.ts:90-112).                             *)
TypeOK ==
    /\ failures \in 0..Threshold - 1 + Cardinality(Callers) * (MaxRetries + 2)
    /\ elapsed \in BOOLEAN /\ gauge = IF Tripped THEN 1 ELSE 0
    /\ at \in [Callers -> {"idle", "fetching", "backoff"}]
    /\ attempt \in [Callers -> 1..MaxRetries + 1]
    /\ mode \in [Callers -> {"schema", "object", "none"}]
    /\ aborted \in [Callers -> BOOLEAN]
    /\ exchanges \in [Callers -> 0..MaxRetries + 3]
    /\ trial \subseteq Callers

(* Retries and the free downgrade together never send more than one request   *)
(* beyond the ladder (novita.ts:188, 211-227).                                 *)
ExchangesBounded == \A c \in Callers : exchanges[c] <= MaxRetries + 2

(* A cancelled call does nothing more but end: it sends no request, and the   *)
(* breaker does not take the abort for an upstream failure                    *)
(* (novita.ts:289-291, 59-75).                                                 *)
CancelledCallsStop ==
    [][\A c \in Callers :
        aborted[c] /\ at[c] # "idle" /\ (at'[c] # at[c] \/ exchanges'[c] # exchanges[c])
            => at'[c] = "idle" /\ UNCHANGED breakerVars]_vars

(* Every call settles, whatever the upstream does and whatever the other      *)
(* calls do to the breaker: this is what the job's fairness rests on.          *)
CallEnds == \A c \in Callers : at[c] # "idle" ~> at[c] = "idle"

-----------------------------------------------------------------------------
(* What the repository says and the code does not do.                         *)

(* novita.ts:93, "Half-open: allow one probe through and let the result        *)
(* decide": while the probe is out, no other call is let through.              *)
OneProbe == Cardinality(trial) <= 1
=============================================================================
