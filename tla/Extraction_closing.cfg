\* Three partitions without spilling, and a queue of two slots.
SPECIFICATION ExecutionSpec
CONSTANTS
    e1 = e1
    e2 = e2
    e3 = e3
    p1 = p1
    Executions = {e1}
    Projects = {p1}
    NoProject = NoProject
    ProjectOf <- TwoOfOneProject
    Awaited = {e1}
    GlobalSlots = 2
    ProjectSlots = 1
    MaxCancellations = 0
    MaxCrashes = 0
    N = 3
    BatchRows = 2
    Unlimited = Unlimited
    Setups <- FullHouse
    MaxSize = 2
    MaxPuts = 100
    MaxFaults = 0
    Queue = Queue
    Exec = Exec
    Consumer = Consumer
    Main = Main
CHECK_DEADLOCK FALSE
PROPERTIES
    ClosingNeverBlocks
