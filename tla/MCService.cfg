SPECIFICATION Spec
CONSTANTS
    j1 = j1
    s1 = s1
    r1 = r1
    r2 = r2
    Jobs = {j1}
    Suites = {s1}
    Runs = {r1, r2}
    Source <- MCSource
    Keys = {"ka", "kb"}
    KeyToTenant <- MCKeyToTenant
    KeysOf <- MCKeysOf
    MaxActive = 2
    MaxSuites = 1
    MaxRuns = 1
    MaxCrashes = 1
INVARIANTS
    TypeOK
    CapsHold
    PipelineHolds
PROPERTIES
    SlotsComeFree
