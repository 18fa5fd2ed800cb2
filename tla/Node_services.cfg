\* Every job of the tables: up to three rows, three texts, two cases, three inputs.
\* Executions that share a cache; edits of connections.
\* Loads: four rows in chunks of two, every strategy, two attempts, two failures.
SPECIFICATION NodesSpec
CONSTANTS
    N = 4
    ChunkSize = 2
    Setups <- EverySetup
    MaxAttempts = 2
    MaxFaults = 2
    Values = {1, 2, 3}
    Lower <- LowerCase
    Cleaned <- Names
    Jobs <- EveryJob
    Null = Null
    None = None
    Raised = Raised
    Executions = {"e1", "e2"}
    Nodes = {"n1", "n2"}
    CacheKeys = {"K", "L"}
    Histories <- EveryHistory
    MaxRemovals = 1
    Connections = {"pg", "ora"}
    Owner <- Owners
    Dialect <- Dialects
    Inferred <- NodeDialects
    UrlDatabase <- UrlDatabases
    Databases = {"A", "B"}
    Callers = {"k"}
    Requests = {r1, r2}
    MaxEngines = 1
    MaxRevisions = 2
SYMMETRY RequestSymmetry
CHECK_DEADLOCK FALSE
INVARIANTS
    ReportExact
    UpsertKeepsLast
    RoutedExact
    RowsMatched
    HitsExplained
    StaleExplained
