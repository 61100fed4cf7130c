---------------------------- MODULE MCNovitaClient ----------------------------
(* Three callers with one retry each: enough for a ladder that outlives the   *)
(* opening of the breaker while another caller probes it.                     *)
EXTENDS NovitaClient
=============================================================================
