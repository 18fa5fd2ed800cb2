\* One session, two clients, one fault and one call of another writer.
\* One queue of two chunks in RAM, which spills or waits, and four threads.
SPECIFICATION PartsSpec
CONSTANTS
    a = a
    b = b
    d = d
    NoClient = NoClient
    Sessions = {s1}
    Clients = {c1, c2}
    Node <- Ids
    Edge <- Edges
    Drawn <- OneDrawn
    MaxFaults = 1
    MaxOthers = 1
    q1 = q1
    q2 = q2
    e1 = e1
    e2 = e2
    t1 = t1
    t2 = t2
    t3 = t3
    t4 = t4
    Threads <- FourThreads
    Queues <- OneQueue
    Execs <- OneExec
    ExecOf <- Separate
    MaxSize = 2
    MaxPuts = 5
SYMMETRY SomeSymmetry
CHECK_DEADLOCK FALSE
INVARIANTS
    NoCopies
    EventsTellDefinition
    ConfirmedIsDurable
    RamDiscipline
    NoOrphanFile
    NoLostWakeup
PROPERTIES
    ImplementsChannel
