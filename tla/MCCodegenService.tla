--------------------------- MODULE MCCodegenService ---------------------------
(* Two jobs of one tenant, which may have one active job at a time; one has    *)
(* more files than runners.                                                    *)
EXTENDS CodegenService

CONSTANTS j1, j2
MCJobs == {j1, j2}

MCTenantOf == [j \in Jobs |-> CHOOSE t \in Tenants : TRUE]
MCMaxFiles == [j \in Jobs |-> IF j = j1 THEN 3 ELSE 1]
=============================================================================
