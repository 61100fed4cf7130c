SPECIFICATION Spec
CONSTANTS
    Items <- MCItems
    Priority <- MCPriority
    Group <- MCGroup
    Runners = {r1, r2}
    Files = {jobJson, casesJson}
    MaxItemsPerUnit = 2
    MaxRepairRounds = 2
    MaxGlobalRepairRounds = 2
PROPERTY CancelledIsFinal
