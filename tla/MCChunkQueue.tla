---------------------------- MODULE MCChunkQueue ----------------------------
(* Instances of ChunkQueue for TLC. *)
EXTENDS ChunkQueue, TLC

CONSTANTS q1, q2, e1, e2

OneQueue == {q1}
TwoQueues == {q1, q2}
OneExec == {e1}
TwoExecs == {e1, e2}

\* Every queue works for an execution of its own ...
Separate == [q \in Queues |-> IF q = q1 THEN e1 ELSE e2]
\* ... or two extraction nodes of one execution run at the same time.
Shared == [q \in Queues |-> e1]

ThreadSymmetry == Permutations(Threads)
=============================================================================
