\* Upserts with RETURNING of four rows in chunks of two, without a unique index; two
\* attempts, one of which times out.
SPECIFICATION NodesSpec
CONSTANTS
    N = 4
    ChunkSize = 2
    Setups <- UnindexedSetups
    MaxAttempts = 2
    MaxFaults = 1
    Values = {1, 2, 3}
    Lower <- LowerCase
    Cleaned <- Names
    Jobs <- IdJobs
    Null = Null
    None = None
    Raised = Raised
    Executions = {"e1", "e2"}
    Nodes = {"n1", "n2"}
    CacheKeys = {"K", "L"}
    Histories <- EveryHistory
    MaxRemovals = 1
    Connections = {"pg", "ora"}
    Owner <- Owners
    Dialect <- Dialects
    Inferred <- NodeDialects
    UrlDatabase <- UrlDatabases
    Databases = {"A", "B"}
    Callers = {"k"}
    Requests = {r1, r2}
    MaxEngines = 1
    MaxRevisions = 2
CHECK_DEADLOCK FALSE
INVARIANT OneRowEach
