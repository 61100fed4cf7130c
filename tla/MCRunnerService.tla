--------------------------- MODULE MCRunnerService ---------------------------
(* A run of two or three reporter lines of three characters, the least that  *)
(* tells a cut line from a whole one.                                        *)
EXTENDS RunnerService
=============================================================================
