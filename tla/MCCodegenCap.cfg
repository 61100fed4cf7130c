SPECIFICATION Spec
CONSTANTS
    j1 = j1
    j2 = j2
    Jobs <- MCJobs
    Tenants = {acme}
    TenantOf <- MCTenantOf
    MaxFiles <- MCMaxFiles
    Concurrency = 2
    MaxGlobal = 2
    MaxPerTenant = 1
INVARIANT TenantCap
