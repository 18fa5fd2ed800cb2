------------------------------ MODULE LoopRuns ------------------------------
(***************************************************************************)
(* Runs that start runs: the loop node (workflow/nodes/loop.py) and the    *)
(* call_workflow node (workflow/nodes/sub_workflow.py) invoke run_workflow *)
(* again, for every item or once.  Their process() holds a thread of       *)
(* asyncio's pool while it waits for a coroutine of the event loop, whose  *)
(* runs need threads of the same pool.  A chain of workflows may not       *)
(* repeat one nor grow past a depth, and a loop refuses to run in an       *)
(* iteration.                                                              *)
(*                                                                         *)
(* Every workflow has one node here: how the nodes of one run are ordered  *)
(* is WorkflowRunner's matter.  A run is named by its path from the root:  *)
(* run p \o <<i>> is the one that item i of the node of run p started.     *)
(* Clocks may run out at any time.                                         *)
(***************************************************************************)
EXTENDS Naturals, Sequences, FiniteSets, Functions

CONSTANTS
    Ids,            \* published workflows
    Root,           \* the workflow that is executed
    Setups,         \* bound of the model: the definitions considered, the limits on
                    \* parallel items and the sizes of the pool
    MaxRows,        \* bound of the model: rows of the dataset of a loop
    MaxDepth,       \* SUBWORKFLOW_MAX_DEPTH
    None

ASSUME SizesAssumption == MaxRows \in Nat /\ MaxDepth \in Nat \ {0}

\* What the node of a workflow does: work of its own in its thread, call a workflow, loop
\* over one, or loop over an inline body, which works (to = None) or calls a workflow; and
\* how many items it runs.
Leaf == [op |-> "leaf", to |-> None, rows |-> 0]
Call(w) == [op |-> "call", to |-> w, rows |-> 1]
Node == {Leaf} \union {Call(w) : w \in Ids}
          \union [op : {"loop"}, to : Ids, rows : 0..MaxRows]
          \union [op : {"inline"}, to : Ids \union {None}, rows : 0..MaxRows]
Loops == {"loop", "inline"}

\* max_parallelism (1 stands for mode "sequential" as well) and on_item_error = fail_fast
\* are the same for all loops of a setup
ASSUME SetupsAssumption ==
    /\ Root \in Ids /\ None \notin Ids
    /\ Setups \subseteq [program : [Ids -> Node], limit : Nat \ {0}, failFast : BOOLEAN,
                         threads : Nat \ {0}]

VARIABLES
    setup,          \* never changes
    tree,           \* the runs so far, by path
    queue           \* the pool's queue of nodes that have had no thread yet
runsVars == <<setup, tree, queue>>

Paths == DOMAIN tree
Over(p) == tree[p].state # "running"
Parent(p) == SubSeq(p, 1, Len(p) - 1)
Item(p) == p[Len(p)]
\* the children of p that are named by the items its coroutine started
Under(p, marks) == {Append(p, i) : i \in {j \in DOMAIN tree[p].mark : tree[p].mark[j] \in marks}}
Above(p) == {SubSeq(p, 1, k) : k \in 0..(Len(p) - 1)}

Run(node, stack, inLoop) ==
    [node |-> node, stack |-> stack, inLoop |-> inLoop, state |-> "running",
     job |-> "queued", coro |-> "none",
     mark |-> [i \in 1..node.rows |-> "idle"]]

RunsTypeOK ==
    /\ setup \in Setups
    /\ \A p \in Paths :
         /\ tree[p].node \in Node /\ tree[p].inLoop \in BOOLEAN
         /\ tree[p].stack \in Seq(Ids)
         /\ tree[p].state \in {"running", "completed", "failed", "timedout", "cancelled"}
         /\ tree[p].job \in {"queued", "dropped", "busy", "waiting", "ok", "error", "gaveup"}
         /\ tree[p].coro \in {"none", "going", "cancelling", "cancelled", "ok", "error"}
         /\ \A i \in DOMAIN tree[p].mark :
              tree[p].mark[i] \in {"idle", "running", "ok", "failed", "cut"}
         /\ p # <<>> => Parent(p) \in Paths
    /\ {p \in Paths : tree[p].job = "queued"} \subseteq Range(queue)
    /\ Range(queue) \subseteq {p \in Paths : tree[p].job \in {"queued", "dropped"}}
    /\ IsInjective(queue)

RunsInit ==
    /\ setup \in Setups
    /\ tree = [p \in {<<>>} |-> Run(setup.program[Root], <<Root>>, FALSE)]
    /\ queue = <<<<>>>>

-----------------------------------------------------------------------------
(* The pool of threads.  A wait_for that ends drops what is still queued,   *)
(* which a worker then passes over; a thread that has begun goes on.        *)

Holding == {p \in Paths : tree[p].job \in {"busy", "waiting"}}
HasThread == Cardinality(Holding) < setup.threads
Withdrawn(run) == IF run.job = "queued" THEN [run EXCEPT !.job = "dropped"] ELSE run
Ended(run, how) == [Withdrawn(run) EXCEPT !.state = how]

\* process() begins: a leaf works; a loop or a call sends its coroutine to the event loop
\* and waits for it.
LeafBegins(p) ==
    /\ tree[p].node.op = "leaf"
    /\ tree' = [tree EXCEPT ![p].job = "busy"]
LoopBegins(p) ==
    /\ tree[p].node.op \in Loops /\ ~tree[p].inLoop
    /\ tree' = [tree EXCEPT ![p].job = "waiting", ![p].coro = "going"]
CallBegins(p) ==
    /\ tree[p].node.op = "call"
    /\ tree' = [tree EXCEPT ![p].job = "waiting", ![p].coro = "going"]

\* A loop in an iteration is refused, and so is an invalid configuration or body, a source
\* that is not there, more rows than max_iterations; a call also fails where the rows of
\* its inputs cannot be read.
LoopRefused(p) ==
    /\ tree[p].node.op \in Loops
    /\ tree' = [tree EXCEPT ![p].job = "error"]
CallRefused(p) ==
    /\ tree[p].node.op = "call"
    /\ tree' = [tree EXCEPT ![p].job = "error"]

Process(p) == LeafBegins(p) \/ LoopBegins(p) \/ CallBegins(p) \/ LoopRefused(p) \/ CallRefused(p)

TakesThread ==
    /\ HasThread
    /\ \E i \in DOMAIN queue :
         /\ tree[queue[i]].job = "queued" /\ \A j \in 1..(i - 1) : tree[queue[j]].job # "queued"
         /\ Process(queue[i])
         /\ queue' = SubSeq(queue, i + 1, Len(queue))
    /\ UNCHANGED setup

LeafReturns(p) ==
    /\ tree[p].job = "busy"
    /\ \E how \in {"ok", "error"} : tree' = [tree EXCEPT ![p].job = how]
    /\ UNCHANGED <<setup, queue>>

-----------------------------------------------------------------------------
(* The coroutine of a loop or of a call                                     *)

Going(p) == tree[p].coro \in {"going", "cancelling"}
Running(p) == {i \in DOMAIN tree[p].mark : tree[p].mark[i] = "running"}
Limit(p) == IF tree[p].node.op = "call" THEN 1 ELSE setup.limit
\* first_error is set, and on_item_error is fail_fast; a call has a single item
Aborted(p) ==
    /\ setup.failFast \/ tree[p].node.op = "call"
    /\ \E i \in DOMAIN tree[p].mark : tree[p].mark[i] = "failed"

\* the node that an item of p runs, and the chain of workflows it runs in
Body(node) ==
    IF node.op # "inline" THEN setup.program[node.to]
    ELSE IF node.to = None THEN Leaf ELSE Call(node.to)
\* Mutant: the body of a loop does not inherit the call stack
Chain_Fresh(run) == IF run.node.op = "inline" THEN <<>> ELSE Append(run.stack, run.node.to)
Chain(run) == IF run.node.op = "inline" THEN run.stack ELSE Append(run.stack, run.node.to)
Allowed(run) ==
    /\ run.node.op # "inline" => run.node.to \notin Range(run.stack)
    /\ Len(run.stack) < MaxDepth
Child(run) == Run(Body(run.node), Chain(run), run.node.op \in Loops)

\* an item starts in the order of the dataset, when the semaphore lets it
Turn(p, i) ==
    /\ Going(p) /\ ~Aborted(p)
    /\ tree[p].mark[i] = "idle" /\ Cardinality(Running(p)) < Limit(p)
    /\ \A j \in DOMAIN tree[p].mark : j < i => tree[p].mark[j] # "idle"

StartsItem(p, i) ==
    /\ Turn(p, i) /\ Allowed(tree[p])
    /\ tree' = [q \in Paths \union {Append(p, i)} |->
         IF q = Append(p, i) THEN Child(tree[p])
         ELSE IF q = p THEN [tree[p] EXCEPT !.mark[i] = "running"]
         ELSE tree[q]]
    /\ queue' = Append(queue, Append(p, i))
    /\ UNCHANGED setup

\* no published version, inputs it does not declare, an unknown variable, a cycle, a
\* chain too deep
ItemInvalid(p, i) ==
    /\ Turn(p, i)
    /\ tree' = [tree EXCEPT ![p].mark[i] = "failed"]
    /\ UNCHANGED <<setup, queue>>

\* Mutant: fail_fast does not wait for the items in flight
Settled_AtOnce(p) == Aborted(p) \/ \A i \in DOMAIN tree[p].mark : tree[p].mark[i] \notin {"idle", "running"}
\* gather returns, or the sequential loop is at its end: the outcome is the thread's, if it
\* still waits
Settled(p) == Running(p) = {} /\ (Aborted(p) \/ \A i \in DOMAIN tree[p].mark : tree[p].mark[i] # "idle")
CoroEnds(p) ==
    /\ Going(p) /\ Settled(p)
    /\ LET how == IF Aborted(p) THEN "error" ELSE "ok" IN
         tree' = [tree EXCEPT ![p].coro = how,
                              ![p].job = IF @ = "waiting" THEN how ELSE @]
    /\ UNCHANGED <<setup, queue>>

\* Mutant: the loop gives up without cancelling its coroutine
GivesUp_Alone(p) ==
    /\ tree[p].job = "waiting"
    /\ tree' = [tree EXCEPT ![p].job = "gaveup"]
    /\ UNCHANGED <<setup, queue>>

\* future.result runs out of time: a loop cancels its coroutine, a call does not
GivesUp(p) ==
    /\ tree[p].job = "waiting"
    /\ tree' = [tree EXCEPT ![p].job = "gaveup",
                            ![p].coro = IF tree[p].node.op \in Loops THEN "cancelling" ELSE @]
    /\ UNCHANGED <<setup, queue>>

\* the cancellation reaches the coroutine and what it awaits
CancelArrives(p) ==
    /\ tree[p].coro = "cancelling"
    /\ LET cut == Under(p, {"running"}) IN
         tree' = [q \in Paths |->
              IF q = p THEN [tree[p] EXCEPT !.coro = "cancelled",
                               !.mark = [i \in DOMAIN @ |-> IF @[i] = "running" THEN "cut" ELSE @[i]]]
              ELSE IF q \in cut THEN Ended(tree[q], "cancelled") ELSE tree[q]]
    /\ UNCHANGED <<setup, queue>>

-----------------------------------------------------------------------------
(* The end of a run, and of the item it was started for                     *)

EndsRun(p, run, mark) ==
    /\ tree' = [q \in Paths |->
         IF q = p THEN run
         ELSE IF p # <<>> /\ q = Parent(p) THEN [tree[q] EXCEPT !.mark[Item(p)] = mark]
         ELSE tree[q]]
    /\ UNCHANGED <<setup, queue>>

\* its node returned; a required output may be missing, or one that cannot be resolved
Verdicts(p) == IF tree[p].job = "ok" THEN {"ok", "failed"} ELSE {"failed"}
Finishes(p) ==
    /\ ~Over(p) /\ tree[p].job \in {"ok", "error", "gaveup"}
    /\ \E mark \in Verdicts(p) :
         EndsRun(p, Ended(tree[p], IF tree[p].job = "ok" THEN "completed" ELSE "failed"), mark)

\* Mutant: no clock interrupts a node that works
TimesOut_Idle(p) ==
    /\ ~Over(p) /\ tree[p].job # "busy"
    /\ EndsRun(p, Ended(tree[p], "timedout"), "failed")

\* the clock of its node, or the one around the run itself
TimesOut(p) ==
    /\ ~Over(p)
    /\ EndsRun(p, Ended(tree[p], "timedout"), "failed")

UserCancels ==
    /\ ~Over(<<>>)
    /\ EndsRun(<<>>, Ended(tree[<<>>], "cancelled"), "failed")

-----------------------------------------------------------------------------
Progress ==
    \/ TakesThread
    \/ \E p \in Paths :
         \/ \E i \in DOMAIN tree[p].mark : StartsItem(p, i) \/ ItemInvalid(p, i)
         \/ CoroEnds(p) \/ GivesUp(p) \/ CancelArrives(p)
         \/ Finishes(p) \/ TimesOut(p)
RunsNext == Progress \/ UserCancels \/ \E p \in Paths : LeafReturns(p)

\* Clocks run out and the event loop goes on; what a leaf waits for may never answer.
\* No step can be taken twice, so fairness of the whole is fairness of each.
Fairness == WF_runsVars(Progress)
RunsSpec == RunsInit /\ [][RunsNext]_runsVars /\ Fairness

-----------------------------------------------------------------------------
(* Properties                                                               *)

Marked(p, how) == {i \in DOMAIN tree[p].mark : tree[p].mark[i] = how}
Begun(p) == DOMAIN tree[p].mark \ Marked(p, "idle")

\* What a loop or a call reports is what its runs did: at no time more than max_parallelism
\* of them run; when the coroutine ends none does any more, and every item succeeded or is
\* listed as failed; with fail_fast it ends well only if all succeeded, and after the first
\* failure only those that were in flight may fail too (loop.py _run_iterations).
ReportExact ==
    RunsTypeOK /\ \A p \in Paths :
      /\ Marked(p, "running") = {i \in DOMAIN tree[p].mark :
                                   Append(p, i) \in Paths /\ ~Over(Append(p, i))}
      /\ Cardinality(Running(p)) <= Limit(p)
      /\ \A i \in Marked(p, "ok") : tree[Append(p, i)].state = "completed"
      /\ Begun(p) = 1..Cardinality(Begun(p))
      /\ tree[p].coro \in {"ok", "error"} => Running(p) = {}
      /\ tree[p].coro = "ok" =>
           /\ Marked(p, "ok") \union Marked(p, "failed") = DOMAIN tree[p].mark
           /\ setup.failFast \/ tree[p].node.op = "call" => Marked(p, "failed") = {}
      /\ tree[p].coro = "error" => Aborted(p)
      /\ Aborted(p) => Cardinality(Marked(p, "failed")) <= Limit(p)
      /\ tree[p].state = "completed" => tree[p].coro \in {"none", "ok"}

\* Along a chain of runs no workflow runs twice and there are at most MaxDepth of them, so
\* the recursion ends; and no loop iterates directly in an iteration.  (One that a
\* call_workflow of the iteration reaches does: the call does not hand in_loop on.)
Callee(p) == IF p = <<>> THEN Root ELSE tree[Parent(p)].node.to
Published(p) == p = <<>> \/ tree[Parent(p)].node.op # "inline"
ChainsBounded ==
    \A p \in Paths :
      LET chain == {q \in Above(p) \union {p} : Published(q)} IN
        /\ \A q, r \in chain : q # r => Callee(q) # Callee(r)
        /\ Cardinality(chain) <= MaxDepth
        /\ /\ p # <<>> /\ tree[p].coro # "none" /\ tree[p].node.op \in Loops
           => tree[Parent(p)].node.op = "call"

\* A run goes on behind an ended ancestor only if, on the way down, one ran out of time or
\* was cancelled while its thread waited, or a call gave up: a loop that gives up takes its
\* iterations with it (loop.py:287), and a run that ends by itself has nothing left running.
LetGo(p) ==
    \/ tree[p].state \in {"timedout", "cancelled"}
    \/ tree[p].job = "gaveup" /\ (tree[p].node.op = "call" \/ tree[p].coro = "cancelling")
StraysExplained ==
    \A p \in Paths : ~Over(p) =>
      /\ p # <<>> => Going(Parent(p))
      /\ \A q \in Above(p) : Over(q) => \E r \in Above(p) : Len(q) <= Len(r) /\ LetGo(r)

\* Although threads wait for runs that wait for threads, and a leaf may hang for ever, every
\* run ends, every coroutine ends, and no thread waits any more: the clocks see to it.
Quiet(p) == Over(p) /\ ~Going(p) /\ tree[p].job \notin {"queued", "waiting"}
RunsEnd == <>[](\A p \in Paths : Quiet(p))

=============================================================================
