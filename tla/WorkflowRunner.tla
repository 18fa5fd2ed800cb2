--------------------------- MODULE WorkflowRunner ---------------------------
(***************************************************************************)
(* run_workflow (orchestration/flows/dynamic_runner.py): one execution of  *)
(* a workflow's graph, level by level.  A level is first visited node by   *)
(* node (skipped, restored, pinned, disabled or dispatched), then its      *)
(* dispatched nodes run together, each with its retries and its timeout,   *)
(* then their outcomes are drained one by one: they select the branches    *)
(* that later levels follow, and decide whether there are later levels.    *)
(*                                                                         *)
(* The runner suspends at every event it emits, so a cancellation may      *)
(* strike between any two of these steps.  A node runs in a thread that    *)
(* neither a timeout nor a cancellation stops.                             *)
(***************************************************************************)
EXTENDS Integers, FiniteSets, Sequences

CONSTANTS
    Nodes,
    Wires,          \* edges, in the order of the definition: [source, target, handle]
    NoHandle,       \* an edge without sourceHandle
    Target,         \* target_node_id, or NoTarget
    NoTarget,
    Flags,          \* what the data of each node and checkpoint_results say
    Choices,        \* the active handles a node's result may declare
    NoChoice,       \* a result that declares none
    MaxAttempts,    \* retry_policy of each node
    TestMode,       \* mode = "test"
    MaxCancels      \* bound of the model

\* "checkpoint": there is one to restore; "cached": cache_enabled;
\* "output": the profile has the shape of an output; "unknown": neither a
\* processor nor an aiNode.
FlagNames == {"checkpoint", "cached", "refresh", "output", "pinned", "disabled", "unknown"}

Ends == 1..Len(Wires)
Handles == {Wires[i].handle : i \in Ends} \ {NoHandle}

ASSUME NodesAssumption == IsFiniteSet(Nodes) /\ NoTarget \notin Nodes
                          /\ Target \in Nodes \union {NoTarget}
ASSUME WiresAssumption == \A i \in Ends : Wires[i].source \in Nodes /\ Wires[i].target \in Nodes
ASSUME FlagsAssumption == Flags \in [Nodes -> SUBSET FlagNames]
ASSUME ChoicesAssumption ==
    /\ \A S \in SUBSET (Handles \union {"success", "on_error"}) : S # NoChoice
    /\ \A n \in Nodes : Choices[n] # {} /\ Choices[n] \subseteq {NoChoice} \union SUBSET Handles
ASSUME AttemptsAssumption == MaxAttempts \in [Nodes -> Nat \ {0}]
ASSUME CancelsAssumption == MaxCancels \in Nat

VARIABLES
    phase,      \* "visit", "run", "drain", "close", "over"
    todo,       \* nodes of the level still to be visited
    passed,     \* nodes visited
    pending,    \* coros: nodes dispatched and not drained yet
    work,       \* what the task of a pending node does
    attempt,    \* which attempt that is
    outcome,    \* what gather returns for it
    threads,    \* threads of each node that are still running
    expired,    \* nodes an attempt of which has timed out
    skipped,    \* skipped_nodes
    inactive,   \* inactive_edges
    results,    \* results: the active handles each declares, or Missing
    fed,        \* the sources of upstream_results given to each node
    records,    \* node_executions: the statuses recorded for each node, in order
    shown,      \* the events about each node: "none", "started" or "ended"
    stops,      \* level_unexpected, level_skipped, level_failed: which are not empty
    status,     \* final_status
    storage,    \* the files of the execution: "kept" or "removed"
    cancels

levelVars == <<todo, passed>>
taskVars == <<pending, work, attempt, outcome, threads, expired>>
graphVars == <<skipped, inactive, results, fed>>
reportVars == <<records, shown>>
endVars == <<stops, status, storage, cancels>>
vars == <<phase, levelVars, taskVars, graphVars, reportVars, endVars>>

-----------------------------------------------------------------------------
(* The graph.  _build_graph keys the handles by (source, target): of two    *)
(* edges between the same nodes the last one counts.                        *)

Arcs == {<<Wires[i].source, Wires[i].target>> : i \in Ends}

\* _filter_payload_to_ancestors
Closed(S) == \A arc \in Arcs : arc[2] \in S => arc[1] \in S
Scope ==
    IF Target = NoTarget THEN Nodes
    ELSE {n \in Nodes : \A S \in SUBSET Nodes : Target \in S /\ Closed(S) => n \in S}

Sources(n) == {m \in Scope : <<m, n>> \in Arcs}
Targets(n) == {m \in Scope : <<n, m>> \in Arcs}

Handle(m, n) ==
    LET between == {i \in Ends : Wires[i].source = m /\ Wires[i].target = n}
    IN  Wires[CHOOSE i \in between : \A j \in between : j <= i].handle

\* _topological_sort_levels.  The nodes of a cycle, and those behind it, are
\* in no level.
NextLevel(done) == {n \in Scope \ done : Sources(n) \subseteq done}

Missing == "missing"
Declares(n) == results[n].active

-----------------------------------------------------------------------------
Statuses == {"completed", "failed", "aborted", "cancelled"}
Marks == {"success", "skipped", "handled_error", "error", "cancelled"}
Answers == {NoChoice} \union SUBSET (Handles \union {"success", "on_error"})
Outcomes == {[is |-> "ok", active |-> a] : a \in Answers}
            \union {[is |-> i, active |-> NoChoice] : i \in {"none", "error", "skip", "unexpected"}}
NoOutcome == [is |-> "none", active |-> NoChoice]
Result(is, active) == [is |-> is, active |-> active]

TypeOK ==
    /\ phase \in {"visit", "run", "drain", "close", "over"}
    /\ todo \subseteq Scope /\ passed \subseteq Scope /\ pending \subseteq Scope
    /\ work \in [Nodes -> {"idle", "attempt", "backoff"}]
    /\ attempt \in [Nodes -> Nat]
    /\ outcome \in [Nodes -> Outcomes]
    /\ threads \in [Nodes -> Nat]
    /\ expired \subseteq Nodes
    /\ skipped \subseteq Scope /\ inactive \subseteq Scope \X Scope
    /\ results \in [Nodes -> [is : {Missing, "ran", "restored", "skipped", "handled"}, active : Answers]]
    /\ fed \in [Nodes -> SUBSET Scope]
    /\ records \in [Nodes -> Seq(Marks)]
    /\ shown \in [Nodes -> {"none", "started", "ended"}]
    /\ stops \subseteq {"unexpected", "skipped", "failed"}
    /\ status \in Statuses
    /\ storage \in {"kept", "removed"}
    /\ cancels \in 0..MaxCancels

Init ==
    /\ phase = "visit"
    /\ todo = NextLevel({})
    /\ passed = {} /\ pending = {}
    /\ work = [n \in Nodes |-> "idle"]
    /\ attempt = [n \in Nodes |-> 0]
    /\ outcome = [n \in Nodes |-> NoOutcome]
    /\ threads = [n \in Nodes |-> 0]
    /\ expired = {}
    /\ skipped = {} /\ inactive = {}
    /\ results = [n \in Nodes |-> Result(Missing, NoChoice)]
    /\ fed = [n \in Nodes |-> {}]
    /\ records = [n \in Nodes |-> <<>>]
    /\ shown = [n \in Nodes |-> "none"]
    /\ stops = {}
    /\ status = "completed"
    /\ storage = "kept"
    /\ cancels = 0

-----------------------------------------------------------------------------
(* The visit of a level *)

Visits(n) ==
    /\ phase = "visit" /\ n \in todo
    /\ todo' = todo \ {n} /\ passed' = passed \union {n}
    /\ UNCHANGED <<phase, work, attempt, outcome, threads, expired, inactive, endVars>>

Records(n, what) == records' = [records EXCEPT ![n] = Append(@, what)]
Shows(n, what) == shown' = [shown EXCEPT ![n] = what]

\* _is_node_skipped
ReachesNobody(n) ==
    /\ Sources(n) # {}
    /\ \A m \in Sources(n) : m \in skipped \/ <<m, n>> \in inactive

\* _default_success_handle_if_needed
WithDefault(n, active) ==
    IF active = NoChoice /\ \E m \in Targets(n) : Handle(n, m) \in {"success", "on_error"}
    THEN {"success"} ELSE active

SkippedByBranch(n) ==
    /\ Visits(n)
    /\ ReachesNobody(n)
    /\ skipped' = skipped \union {n}
    /\ results' = [results EXCEPT ![n] = Result("skipped", NoChoice)]
    /\ Records(n, "skipped") /\ Shows(n, "ended")
    /\ UNCHANGED <<pending, fed>>

\* A result of an earlier run takes the place of this one; the loop goes on to
\* the next node, and no edge is made inactive.
TakesStored(n, as) ==
    /\ ~ReachesNobody(n)
    /\ \E active \in Choices[n] :
          results' = [results EXCEPT ![n] = Result("restored", WithDefault(n, active))]
    /\ Records(n, as) /\ Shows(n, "ended")
    /\ UNCHANGED <<pending, skipped, fed>>

RestoresCheckpoint(n) ==
    Visits(n) /\ "checkpoint" \in Flags[n] /\ TakesStored(n, "skipped")

\* resolve_strategy: neither a refresh nor an output node takes it.
HitsCache(n) ==
    /\ Visits(n)
    /\ "cached" \in Flags[n] /\ Flags[n] \intersect {"checkpoint", "refresh", "output"} = {}
    /\ TakesStored(n, "skipped")

TakesPinned(n) ==
    /\ Visits(n)
    /\ "pinned" \in Flags[n] /\ "checkpoint" \notin Flags[n]
    /\ TakesStored(n, "success")

Disabled(n) ==
    /\ Visits(n) /\ ~ReachesNobody(n)
    /\ "disabled" \in Flags[n] /\ Flags[n] \intersect {"checkpoint", "pinned"} = {}
    /\ skipped' = skipped \union {n}
    /\ results' = [results EXCEPT ![n] = Result("skipped", NoChoice)]
    /\ Records(n, "skipped") /\ Shows(n, "ended")
    /\ UNCHANGED <<pending, fed>>

Ordinary(n) == Flags[n] \intersect {"checkpoint", "pinned", "disabled"} = {} /\ ~ReachesNobody(n)

\* Recorded as skipped, and not in skipped_nodes: its targets run.
UnknownType(n) ==
    /\ Visits(n) /\ Ordinary(n) /\ "unknown" \in Flags[n]
    /\ Records(n, "skipped") /\ Shows(n, "ended")
    /\ UNCHANGED <<pending, graphVars>>

ActiveSources_All(n) == Sources(n)      \* mutant: closed branches are read too
\* active_sources
ActiveSources(n) == {m \in Sources(n) : m \notin skipped /\ <<m, n>> \notin inactive}

Dispatches(n) ==
    /\ Visits(n) /\ Ordinary(n) /\ "unknown" \notin Flags[n]
    /\ fed' = [fed EXCEPT ![n] = ActiveSources(n)]
    /\ pending' = pending \union {n}
    /\ Shows(n, "started")
    /\ UNCHANGED <<skipped, results, records>>

Visit(n) ==
    \/ SkippedByBranch(n) \/ RestoresCheckpoint(n) \/ HitsCache(n) \/ TakesPinned(n)
    \/ Disabled(n) \/ UnknownType(n) \/ Dispatches(n)

\* _inject_connection_string finds no connection, or the rows of a pinned node
\* cannot be stored: the coroutines of the level are dropped.
VisitRaises(n) ==
    /\ phase = "visit" /\ n \in todo /\ ~ReachesNobody(n)
    /\ phase' = "close"
    /\ status' = "failed"
    /\ UNCHANGED <<levelVars, taskVars, graphVars, reportVars, stops, storage, cancels>>

-----------------------------------------------------------------------------
(* gather: the dispatched nodes run together *)

StartsLevel ==
    /\ phase = "visit" /\ todo = {} /\ pending # {}
    /\ phase' = "run"
    /\ work' = [n \in Nodes |-> IF n \in pending THEN "attempt" ELSE work[n]]
    /\ attempt' = [n \in Nodes |-> IF n \in pending THEN 1 ELSE attempt[n]]
    /\ threads' = [n \in Nodes |-> IF n \in pending THEN threads[n] + 1 ELSE threads[n]]
    /\ UNCHANGED <<levelVars, pending, outcome, expired, graphVars, reportVars, endVars>>

Answered(n, what) ==
    /\ outcome' = [outcome EXCEPT ![n] = what]
    /\ work' = [work EXCEPT ![n] = "idle"]

\* _run_with_retry: another attempt, unless there are none left or the policy
\* does not match the message.
Errs(n) ==
    \/ /\ attempt[n] < MaxAttempts[n]
       /\ work' = [work EXCEPT ![n] = "backoff"]
       /\ UNCHANGED outcome
    \/ Answered(n, Result("error", NoChoice))

AttemptEnds(n) ==
    /\ phase = "run" /\ work[n] = "attempt"
    /\ threads' = [threads EXCEPT ![n] = @ - 1]
    /\ \/ \E active \in Choices[n] : Answered(n, Result("ok", active))
       \/ \E is \in {"skip", "unexpected"} : Answered(n, Result(is, NoChoice))
       \/ Errs(n)
    /\ UNCHANGED <<phase, levelVars, pending, attempt, expired, graphVars, reportVars, endVars>>

\* wait_for gives up; the thread goes on.
AttemptExpires(n) ==
    /\ phase = "run" /\ work[n] = "attempt"
    /\ expired' = expired \union {n}
    /\ Errs(n)
    /\ UNCHANGED <<phase, levelVars, pending, attempt, threads, graphVars, reportVars, endVars>>

Retries(n) ==
    /\ phase = "run" /\ work[n] = "backoff"
    /\ work' = [work EXCEPT ![n] = "attempt"]
    /\ attempt' = [attempt EXCEPT ![n] = @ + 1]
    /\ threads' = [threads EXCEPT ![n] = @ + 1]
    /\ UNCHANGED <<phase, levelVars, pending, outcome, expired, graphVars, reportVars, endVars>>

\* A thread that nobody waits for any more.
ThreadEnds(n) ==
    /\ threads[n] > IF work[n] = "attempt" THEN 1 ELSE 0
    /\ threads' = [threads EXCEPT ![n] = @ - 1]
    /\ UNCHANGED <<phase, levelVars, pending, work, attempt, outcome, expired,
                   graphVars, reportVars, endVars>>

Gathered_First == \E n \in pending : outcome[n].is # "none"      \* mutant: gather ends at the first
Gathered == \A n \in pending : outcome[n].is # "none"

GatherReturns ==
    /\ phase = "run" /\ Gathered
    /\ phase' = "drain"
    /\ UNCHANGED <<levelVars, taskVars, graphVars, reportVars, endVars>>

-----------------------------------------------------------------------------
(* The outcomes of the level *)

Drains(n, is) ==
    /\ phase = "drain" /\ n \in pending /\ outcome[n].is = is
    /\ pending' = pending \ {n}
    /\ Shows(n, "ended")
    /\ UNCHANGED <<phase, levelVars, work, attempt, outcome, threads, expired,
                   skipped, fed, status, storage, cancels>>

\* The edges that a result with these active handles closes.
ClosedBy(n, active) ==
    IF active = NoChoice THEN {}
    ELSE {<<n, m>> : m \in {t \in Targets(n) : Handle(n, t) \notin active \union {NoHandle}}}

Succeeds(n) ==
    /\ Drains(n, "ok")
    /\ LET active == WithDefault(n, outcome[n].active)
       IN  /\ results' = [results EXCEPT ![n] = Result("ran", active)]
           /\ inactive' = inactive \union ClosedBy(n, active)
    /\ Records(n, "success")
    /\ UNCHANGED stops

HasErrorBranch(n) == \E m \in Targets(n) : Handle(n, m) = "on_error"

\* The error branch is taken, and every other edge closed.
HandlesError(n) ==
    /\ Drains(n, "error") /\ HasErrorBranch(n)
    /\ results' = [results EXCEPT ![n] = Result("handled", {"on_error"})]
    /\ inactive' = inactive \union {<<n, m>> : m \in {t \in Targets(n) : Handle(n, t) # "on_error"}}
    /\ Records(n, "handled_error")
    /\ UNCHANGED stops

Fails(n) ==
    /\ Drains(n, "error") /\ ~HasErrorBranch(n)
    /\ stops' = stops \union {"failed"}
    /\ Records(n, "error")
    /\ UNCHANGED <<results, inactive>>

Aborts(n) ==
    /\ Drains(n, "skip")
    /\ stops' = stops \union {"skipped"}
    /\ Records(n, "skipped")
    /\ UNCHANGED <<results, inactive>>

Breaks(n) ==
    /\ Drains(n, "unexpected")
    /\ stops' = stops \union {"unexpected"}
    /\ Records(n, "error")
    /\ UNCHANGED <<results, inactive>>

-----------------------------------------------------------------------------
(* Between levels, and the end *)

LevelDone_Drained ==    \* mutant: a level without coroutines is not left
    phase = "drain" /\ \A n \in pending : outcome[n].is = "none"
\* Nothing was dispatched, or nothing is left to drain.
LevelDone ==
    \/ phase = "visit" /\ todo = {} /\ pending = {}
    \/ phase = "drain" /\ \A n \in pending : outcome[n].is = "none"

Stopped_FailuresOnly == "failed" \in stops     \* mutant: only a failure stops the run
Stopped == stops # {}

Advances ==
    /\ LevelDone /\ ~Stopped /\ NextLevel(passed) # {}
    /\ phase' = "visit"
    /\ todo' = NextLevel(passed)
    /\ UNCHANGED <<passed, taskVars, graphVars, reportVars, endVars>>

Completes ==
    /\ LevelDone /\ ~Stopped /\ NextLevel(passed) = {}
    /\ phase' = "close"
    /\ UNCHANGED <<levelVars, taskVars, graphVars, reportVars, endVars>>

Stops ==
    /\ LevelDone /\ Stopped
    /\ phase' = "close"
    /\ status' = IF "unexpected" \notin stops /\ "skipped" \in stops THEN "aborted" ELSE "failed"
    /\ UNCHANGED <<levelVars, taskVars, graphVars, reportVars, stops, storage, cancels>>

\* Every node that was dispatched and has no record gets one.
RecordCancelled ==
    records' = [n \in Nodes |-> IF shown[n] = "started" /\ records[n] = <<>>
                                THEN <<"cancelled">> ELSE records[n]]

\* The tasks of gather are cancelled with it, their threads are not.
Cancelled ==
    /\ phase \in {"visit", "run", "drain"} /\ cancels < MaxCancels
    /\ cancels' = cancels + 1
    /\ phase' = "close"
    /\ status' = "cancelled"
    /\ work' = [n \in Nodes |-> "idle"]
    /\ RecordCancelled
    /\ UNCHANGED <<levelVars, pending, attempt, outcome, threads, expired, graphVars, shown,
                   stops, storage>>

\* The finally suspends where it emits its events: the cleanup is behind that.
CancelledClosing ==
    /\ phase = "close" /\ cancels < MaxCancels
    /\ cancels' = cancels + 1
    /\ phase' = "over"
    /\ status' = "cancelled"
    /\ UNCHANGED <<levelVars, taskVars, graphVars, reportVars, stops, storage>>

Closes ==
    /\ phase = "close"
    /\ phase' = "over"
    /\ storage' = IF TestMode THEN storage ELSE "removed"
    /\ UNCHANGED <<levelVars, taskVars, graphVars, reportVars, stops, status, cancels>>

-----------------------------------------------------------------------------
NodeStep(n) ==
    \/ Visit(n) \/ VisitRaises(n)
    \/ AttemptEnds(n) \/ AttemptExpires(n) \/ Retries(n)
    \/ Succeeds(n) \/ HandlesError(n) \/ Fails(n) \/ Aborts(n) \/ Breaks(n)

Step == (\E n \in Nodes : NodeStep(n)) \/ StartsLevel \/ GatherReturns
        \/ Advances \/ Completes \/ Stops \/ Closes

Next == Step \/ (\E n \in Nodes : ThreadEnds(n)) \/ Cancelled \/ CancelledClosing

\* The event loop goes on, and an attempt ends: if nothing else, its timeout
\* (DEFAULT_NODE_TIMEOUT_SECONDS, when the node says none) ends the wait.
Spec == Init /\ [][Next]_vars /\ WF_vars(Step)

-----------------------------------------------------------------------------
(* Properties *)

Dispatched(n) == shown[n] = "started" \/ attempt[n] > 0
Restored(n) == results[n].is = "restored"

\* What the definition of the workflow says: the way from m to n is open when m
\* has a result and one of the edges between them carries a handle that this
\* result makes active, or no handle at all.  The error branch excludes those.
Opens(m, n) ==
    \E i \in Ends :
        /\ Wires[i].source = m /\ Wires[i].target = n
        /\ CASE results[m].is = "handled" -> Wires[i].handle = "on_error"
             [] results[m].is = "skipped" -> FALSE
             [] OTHER -> \/ Declares(m) = NoChoice \/ Wires[i].handle = NoHandle
                         \/ Wires[i].handle \in Declares(m)

\* A dispatched node was given the results of all its open ways in, and no
\* other result that this run computed.  Results of earlier runs (checkpoint,
\* cache, pin) are exempt: the visit goes on to the next node before it selects
\* their branches, so every way out of them is followed (ActiveWaysOnly).
FedByOpenWays ==
    \A n \in Nodes : Dispatched(n) =>
        LET open == {m \in Sources(n) : Opens(m, n)}
        IN  open \subseteq fed[n] /\ fed[n] \ open \subseteq {m \in Sources(n) : Restored(m)}

\* "Arestas cujo sourceHandle nao esta no conjunto ativo sao adicionadas a
\* inactive_edges": nothing runs on a result whose way to it is closed.  It
\* fails for the results of earlier runs.
ActiveWaysOnly ==
    \A n \in Nodes : Dispatched(n) => \A m \in fed[n] : Opens(m, n)

\* A node is passed over for its branch only when no way in is open.
SkippedOnlyIfClosed ==
    \A n \in Nodes : results[n].is = "skipped" /\ "disabled" \notin Flags[n] =>
        \A m \in Sources(n) : ~Opens(m, n)

\* Of every node that was visited: run with the results of its open ways in, and
\* at most results of earlier runs besides, or passed over because no way in is
\* open.
BranchesFollowed == TypeOK /\ FedByOpenWays /\ SkippedOnlyIfClosed

\* No node is recorded twice, and a run that is not cut off by an exception of
\* the visit or by a cancellation leaves no node that the user still sees as
\* running.
EveryNodeReported ==
    /\ \A n \in Nodes : Len(records[n]) <= 1
    /\ phase \in {"close", "over"} /\ status # "cancelled" /\ (status = "failed" => stops # {}) =>
         \A n \in passed : shown[n] = "ended" /\ records[n] # <<>>

\* The final status is that of the worst record, and what failed is behind the
\* last node that was looked at: no level is visited after a failure.
StatusExplained ==
    /\ status = "completed" /\ phase \in {"close", "over"} =>
         /\ passed = Scope \/ NextLevel(passed) = {}
         /\ \A n \in Nodes : records[n] # <<"error">>
    /\ \A n \in Nodes : records[n] = <<"error">> =>
         \A m \in passed : n \notin Sources(m)

\* What the user sees of a run, node by node and as a whole, is what happened.
ReportTruthful == EveryNodeReported /\ StatusExplained

\* The files of the execution are removed only when none of its threads is at
\* work, but for those that a timeout or a cancellation has left behind.
StorageOutlivesThreads ==
    storage = "removed" /\ status # "cancelled" =>
        \A n \in Nodes \ expired : threads[n] = 0

\* A run comes to its end, whatever its nodes do and in whichever level nothing
\* is left to run.
RunEnds == <>(phase = "over")
=============================================================================
