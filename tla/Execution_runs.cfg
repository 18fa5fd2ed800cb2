\* Three executions, two slots, one slot for the project of the first two.
\* One to three partitions, with and without spilling, whole or limited and cancelled.
SPECIFICATION ExecutionSpec
CONSTANTS
    e1 = e1
    e2 = e2
    e3 = e3
    p1 = p1
    Executions = {e1, e2, e3}
    Projects = {p1}
    NoProject = NoProject
    ProjectOf <- TwoOfOneProject
    Awaited = {e1}
    GlobalSlots = 2
    ProjectSlots = 1
    MaxCancellations = 2
    MaxCrashes = 1
    N = 3
    BatchRows = 2
    Unlimited = Unlimited
    Setups <- Calls
    MaxSize = 2
    MaxPuts = 100
    MaxFaults = 2
    Queue = Queue
    Exec = Exec
    Consumer = Consumer
    Main = Main
CHECK_DEADLOCK FALSE
INVARIANTS
    SlotsAccounted
    RunningRowsExplained
    
    CancelStopsProducers
PROPERTIES
    FinalStatusStays
    SlotsComeBack
    ExtractionEnds
