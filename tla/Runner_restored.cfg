\* A resumed run of a condition and its two branches: both branches run.
SPECIFICATION RunnerSpec
CONSTANTS
    a = a
    b = b
    c = c
    d = d
    e = e
    f = f
    g = g
    h = h
    k = k
    u = u
    z = z
    Nodes = {c, d, k}
    Wires <- Resumed
    NoHandle = NoHandle
    NoTarget = NoTarget
    Target = NoTarget
    NoChoice = NoChoice
    Choices <- Condition
    Flags <- OnlyK
    MaxAttempts <- TwoForC
    TestMode = FALSE
    MaxCancels = 0
    Clients = {c1}
    Containers = {k1}
    TargetIdle = 0
    Max = 1
    MaxTroubles = 0
    NoContainer = NoContainer
CHECK_DEADLOCK FALSE
INVARIANTS
    ActiveWaysOnly
