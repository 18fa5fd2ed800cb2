----------------------------- MODULE FifoChannel -----------------------------
(***************************************************************************)
(* What a BoundedChunkQueue promises to those who put and get, with        *)
(* neither RAM nor files: the n-th chunk that comes out is the n-th chunk  *)
(* that went in, nothing goes in once it is shut, and only a chunk that is *)
(* inside can be lost.  ChunkQueue implements it.                          *)
(***************************************************************************)
EXTENDS Naturals, Sequences

CONSTANTS Queues

VARIABLES
    count,      \* how many chunks went into each queue
    out,        \* the chunks that came out, <<q, n>> for the n-th that went in
    shut,
    broken      \* a chunk was lost: what comes out after it is not promised

vars == <<count, out, shut, broken>>

Init ==
    /\ count = [q \in Queues |-> 0]
    /\ out = [q \in Queues |-> <<>>]
    /\ shut = [q \in Queues |-> FALSE]
    /\ broken = [q \in Queues |-> FALSE]

HoldsSome(q) == Len(out[q]) < count[q]

Put(q) ==
    /\ ~shut[q]
    /\ count' = [count EXCEPT ![q] = @ + 1]
    /\ UNCHANGED <<out, shut, broken>>

Get(q) ==
    /\ ~broken[q] /\ HoldsSome(q)
    /\ out' = [out EXCEPT ![q] = Append(@, <<q, Len(out[q]) + 1>>)]
    /\ UNCHANGED <<count, shut, broken>>

Shut(q) ==
    /\ shut' = [shut EXCEPT ![q] = TRUE]
    /\ UNCHANGED <<count, out, broken>>

Lose(q) ==
    /\ HoldsSome(q)
    /\ broken' = [broken EXCEPT ![q] = TRUE]
    /\ UNCHANGED <<count, out, shut>>

\* What came out of a broken queue stays, and whatever comes next follows it.
GetFromBroken(q) ==
    /\ broken[q]
    /\ out' = [out EXCEPT ![q] = Append(@, out'[q][Len(out[q]) + 1])]
    /\ UNCHANGED <<count, shut, broken>>

Next == \E q \in Queues : Put(q) \/ Get(q) \/ Shut(q) \/ Lose(q) \/ GetFromBroken(q)

Spec == Init /\ [][Next]_vars
=============================================================================
