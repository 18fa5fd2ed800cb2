---------------------------- MODULE MCBuildSession ----------------------------
(***************************************************************************)
(* Two small instances in one run: the build sessions of a workflow        *)
(* (BuildSession), with one node drawn, two that sessions or tools add and *)
(* an edge between the first of them, or one chunk queue (ChunkQueue).  A  *)
(* behaviour is one of the two and leaves the variables of the other as    *)
(* they are.                                                               *)
(***************************************************************************)
EXTENDS BuildSession, MCChunkQueue

CONSTANTS a, b, d, t1, t2, t3, t4

Ids == {a, b, d}
Edges == {<<a, b>>}
OneDrawn == {a}

FourThreads == {t1, t2, t3, t4}
\* The clients of a build are interchangeable, and so are the threads of a queue:
\* two pairs of the four, since every permutation costs each state its time.
SomeSymmetry == Permutations(Clients) \cup Permutations({t1, t2}) \cup Permutations({t3, t4})

-----------------------------------------------------------------------------
VARIABLE part
allVars == <<part, vars, queueVars>>

PartsInit ==
    /\ part \in {"build", "queue"}
    /\ Init /\ QueueInit
    /\ part = "build" => \A q \in Queues : spillOn[q]

PartsNext ==
    \/ part = "build" /\ Next /\ UNCHANGED <<part, queueVars>>
    \/ part = "queue" /\ QueueNext /\ UNCHANGED <<part, vars>>

PartsSpec == PartsInit /\ [][PartsNext]_allVars
=============================================================================
