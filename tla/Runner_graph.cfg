\* The ancestors of e: a condition, two branches that meet, an error branch, a node of each kind.
\* Two clients, a pool of two kept warm, three containers, one trouble.
SPECIFICATION RunnerSpec
CONSTANTS
    a = a
    b = b
    c = c
    d = d
    e = e
    f = f
    g = g
    h = h
    k = k
    u = u
    z = z
    Nodes = {a, b, c, d, e, f, g, h, k, u, z}
    Wires <- Rich
    NoHandle = NoHandle
    NoTarget = NoTarget
    Target = e
    NoChoice = NoChoice
    Choices <- Condition
    Flags <- Mixed
    MaxAttempts <- TwoForC
    TestMode = FALSE
    MaxCancels = 2
    Clients = {c1, c2}
    Containers = {k1, k2, k3}
    TargetIdle = 2
    Max = 2
    MaxTroubles = 1
    NoContainer = NoContainer
CHECK_DEADLOCK FALSE
INVARIANTS
    BranchesFollowed
    ReportTruthful
    StorageOutlivesThreads
    OwnersExact
PROPERTIES
    OnlyUserDestroys
    GraphEnds
    StopEmpties
