---------------------------- MODULE MCJobService ----------------------------
(* Values of JobService's constants for TLC.                               *)
EXTENDS JobService

\* Item 1 is P0, 2 and 3 are P1, 4 is P2; 1 to 3 share a section.
MCItems == 1..4
MCPriority == <<0, 1, 1, 2>>
MCGroup == <<1, 1, 1, 0>>
=============================================================================
