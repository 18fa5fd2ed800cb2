\* Three events of two transactions, two editors, queues and replays of one
\* event each, a connection that fails.
SPECIFICATION EventsSpec
CONSTANTS
    Writers = {w1, w2}
    Editors = {e1, e2}
    MaxSeq = 3
    QueueCap = 1
    ReplayRows = 1
    MaxTroubles = 1
SYMMETRY Symmetry
INVARIANTS MissedExplained
