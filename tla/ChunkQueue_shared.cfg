\* Two queues of the same execution share the spill directory.
SPECIFICATION QueueSpec
CONSTANTS
    q1 = q1
    q2 = q2
    e1 = e1
    e2 = e2
    Threads = {t1, t2}
    Queues <- TwoQueues
    Execs <- OneExec
    ExecOf <- Shared
    MaxSize = 1
    MaxPuts = 3
SYMMETRY ThreadSymmetry
CHECK_DEADLOCK FALSE
INVARIANTS
    OwnChunksOnly
