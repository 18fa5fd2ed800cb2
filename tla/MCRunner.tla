------------------------------- MODULE MCRunner -------------------------------
(***************************************************************************)
(* What an execution runs: the graph of a workflow (WorkflowRunner), or    *)
(* the nodes that run the user's Python in the containers of the pool      *)
(* (SandboxPool).  A behaviour is one of the two and leaves the variables  *)
(* of the other as they are.                                               *)
(***************************************************************************)
EXTENDS WorkflowRunner, SandboxPool

CONSTANTS a, b, c, d, e, f, g, h, k, u, z

W(m, n, handle) == [source |-> m, target |-> n, handle |-> handle]

\* A condition b with two branches c and d that meet again in e, and an error
\* branch of c to f; a feeds b and, around the branches, e.
Diamond == << W(a, b, NoHandle), W(b, c, "true"), W(b, d, "false"), W(c, e, "success"),
              W(d, e, NoHandle), W(c, f, "on_error"), W(a, e, NoHandle) >>

\* And one node of each kind that is not dispatched: h hangs on the disabled f
\* and on u, whose type nobody knows; k and g bring results of earlier runs, k
\* that of a condition which may have closed its way to e; z is behind the
\* target e.
Rich == Diamond \o << W(f, h, NoHandle), W(u, h, NoHandle), W(h, e, NoHandle),
                      W(k, e, "true"), W(g, d, "success"), W(e, z, "success") >>

Condition == [n \in Nodes |->
    CASE n = b -> {{"true"}, {"false"}, {"true", "false"}}
      [] n = k -> {{"true"}, {"false"}}
      [] OTHER -> {NoChoice}]

Mixed == [n \in Nodes |->
    CASE n = a -> {"cached"} [] n = f -> {"disabled"} [] n = u -> {"unknown"}
      [] n = k -> {"checkpoint"} [] n = g -> {"pinned"} [] OTHER -> {}]

\* A condition k whose result is taken from a checkpoint, and its two branches.
Resumed == << W(k, c, "true"), W(k, d, "false") >>
OnlyK == [n \in Nodes |-> IF n = k THEN {"checkpoint"} ELSE {}]

TwoForC == [n \in Nodes |-> IF n = c THEN 2 ELSE 1]

-----------------------------------------------------------------------------
VARIABLE part
allVars == <<part, vars, poolVars>>

RunnerInit == part \in {"graph", "pool"} /\ Init /\ PoolInit

RunnerNext ==
    \/ part = "graph" /\ Next /\ UNCHANGED <<part, poolVars>>
    \/ part = "pool" /\ PoolNext /\ UNCHANGED <<part, vars>>

\* The fairness of each, for its own part.
RunnerFairness ==
    /\ WF_vars(part = "graph" /\ Step)
    /\ \A client \in Clients : WF_poolVars(part = "pool" /\ Finish(client))
    /\ WF_poolVars(part = "pool" /\ Warms) /\ WF_poolVars(part = "pool" /\ Replenishes)
    /\ WF_poolVars(part = "pool" /\ Check)
    /\ WF_poolVars(part = "pool" /\ \E box \in Containers : DestroysSnapshot(box))

RunnerSpec == RunnerInit /\ [][RunnerNext]_allVars /\ RunnerFairness

\* The run of a graph comes to its end (WorkflowRunner).
GraphEnds == part = "graph" => RunEnds
=============================================================================
