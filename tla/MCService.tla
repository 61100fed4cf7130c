------------------------------ MODULE MCService ------------------------------
(* Two tenants. acme asks for a job, a suite of it and a run of the suite; another  *)
(* run of the suite is asked for by either.                                         *)
EXTENDS Service

CONSTANTS j1, s1, r1, r2

MCKeyToTenant == [k \in Keys |-> IF k = "ka" THEN "acme" ELSE "beta"]
MCKeysOf == [i \in Ids |-> IF i = r2 THEN Keys ELSE {"ka"}]
MCSource == [i \in Suites \cup Runs |-> IF i \in Suites THEN j1 ELSE s1]
=============================================================================
