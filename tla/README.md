# A formal model of the Shift backend

Shift extracts data from (often legacy) databases, transforms it in DuckDB and
loads it into other systems. A workflow is a graph of nodes that
`shift-backend` runs level by level; executions compete for slots, extraction
nodes read partitions in parallel threads, loops and calls start further runs,
finished executions notify other systems through webhooks, and several people
and an agent edit one definition at a time. This directory holds TLA+ models of the parts whose
correctness depends on the order in which threads, tasks, callbacks and
failures interleave, or on data in shapes that nobody tests; the TLC
configurations that check small instances of them; and proofs that TLAPS checks
for every instance.

Paths below are relative to `shift-backend/app/` unless they start with another
top-level directory.

1. [Inventory](#1-inventory)
2. [Modules and the code they stand for](#2-modules-and-the-code-they-stand-for)
3. [Runs, bounds and what they show](#3-runs-bounds-and-what-they-show)
4. [Fairness](#4-fairness)
5. [What is proved](#5-what-is-proved)
6. [Where the code and its documentation disagree](#6-where-the-code-and-its-documentation-disagree)
7. [What is not modelled, and the plan](#7-what-is-not-modelled-and-the-plan)
8. [Running the checks](#8-running-the-checks)

## 1. Inventory

### Components with behaviour in time

| Component | State it keeps | Operations | What is hard | What makes it correct |
|---|---|---|---|---|
| Chunk queue `services/streaming/bounded_chunk_queue.py` | chunks in RAM, pointers to spill files, the closed flag, sleeping threads, a spill directory shared by the process | `put`, `get`, `send_eof`, `close`, `cleanup`, `cleanup_execution` | two storage levels behave as one FIFO; condition variables; a write to disk in the middle of `put` | order, nothing lost, RAM bounded, no lost wakeup, no foreign chunk |
| Partitioned extraction `services/extraction_service.py` | N producer threads, one consumer thread, the cancel flag, a count of EOFs, the JSONL table | split the key range, start, fetch, put, EOF, write, collect, closing EOFs, timed join, cleanup | an error in any thread while the others block; a join that expires; the row limit; ranges that must cover every key | every row once and in order unless an error surfaces; it ends |
| Execution lifecycle `services/workflow_service.py`, `services/execution_registry.py`, slots of `orchestration/flows/dynamic_runner.py` | a global semaphore, one per project, the registry of tasks, heartbeats, the status row | acquire, preflight, launch, run, persist, notify, release, cancel, sweep orphans | slots held across awaits that may be cancelled; a crash between two commits | every slot accounted for, limits, a row that says RUNNING is explained, final statuses are final |
| Dynamic runner `orchestration/flows/dynamic_runner.py` | results, node records, skipped nodes, inactive edges, pending coroutines, threads that outlive their timeout | visit a level, restore, cache, pin, disable, skip, dispatch, retry, time out, gather, drain, abort, cancel, close | which branch runs depends on all that finished before; a cancelled await does not stop its thread | exactly the active branches run, every node is reported, the status follows from what happened, files outlive the threads that use them |
| Loops and calls `services/workflow/nodes/loop.py`, `sub_workflow.py` | runs below runs, a semaphore per loop, the process's pool of threads | start an item, settle it, give up, cancel, time out | a node waits in a thread for runs that need threads of the same pool; fail-fast with items in flight; recursion | the report says what the runs did, chains are bounded, everything ends |
| Node processors `services/workflow/nodes/` | none: a table in, tables out | conditions, routing, joins, lookups, unions, pivots, numbering | NULLs in SQL against None in Python, keys that repeat, an ORDER BY that ties | no row is lost, doubled or in two branches without a reason; the two modes of a node agree |
| Load service `services/load_service.py`, `nodes/bulk_insert.py`, `nodes/composite_insert.py` | the target table, an open transaction, the report | dlt and its fallback, batch with savepoint, row by row, upsert, RETURNING, composite | a batch that fails in the middle; a retry beside the attempt that timed out | each row in one list of the report, and the table as reported |
| Webhook dispatch `services/webhooks/`, `services/webhook_dispatch_service.py`, `api/v1/webhook_subscriptions.py` | delivery rows, subscriptions, dead letters, a replay limiter | enqueue, pick (`FOR UPDATE SKIP LOCKED`), post, persist, retry, dead-letter, replay, test, delete | replicas that share a table; the POST is between two transactions; answers that get lost | one worker per row, each attempt counted, statuses that tell the truth, one dead letter per failure, one replay per request window |
| Definition events `services/definition_event_service.py` and the editor's reader of the stream | one LISTEN connection per workflow, subscriber queues, a grace timer, the editor's cursor | publish, commit, connect, broadcast, subscribe, replay, yield, overflow, reconnect | replay and live stream must not leave a gap; transactions commit out of the order of their numbers | nothing that was rolled back, nothing missed without a reason one can name |
| Sandbox pool `services/sandbox/pool.py` | idle, busy and starting containers, threads that wait | acquire, release, replenish, pre-warm, health check, stop | docker is called outside the lock | counters that agree with the threads, one user per container, a stopped pool ends up empty |
| Build session `services/build_session_service.py`, `api/v1/workflow_build.py`, the agent's write tools | sessions with pending nodes and edges, cached answers, the workflow's definition | create, add, remove, confirm, undo, cancel, expire; write tools and PUT beside them | `confirm` awaits the database between two critical sections; other writers | nothing twice, the events tell the definition, nothing is marked before it is committed |
| Engine cache `services/db/engine_cache.py`, edits in `services/connection_service.py` | engines keyed by workspace and connection, rows of connections | resolve, get, evict, edit, delete, invalidate, commit | credentials change while a caller has a URL; the key leaves the password out; the sweep comes before the commit; edits overlap | an engine with old credentials stays for a reason one can name only |
| Extract cache `services/extract_cache_service.py`, hooks of the runner | files and rows of entries, the directory of each execution | look up, copy, run, save in the background, expire, invalidate | saves race with the removal of the execution's directory, and with removals; a key without the node's id | what a node is given is what it would have extracted, but for reasons one can name |
| Checkpoints `services/checkpoint_service.py` | copies of node results | save in the background, load, expire | the same | not modelled: the copies never happen (section 6) |
| Agent `services/agent/` | the status of a thread, its checkpointed graph state, rows of approvals, budgets | message, plan, ask, interrupt, decide, resume, execute, build, report, expire | an interrupted node runs again from its first line; state survives from turn to turn; two streams of one thread | nothing that needs consent happens without it, and waiting for it can end |

Everything else — parameter resolution, semantic hashes, CRUD, accounts, the
MCP server, the scheduler, data pipelines, the frontend, deployment — is
sequential, pure, or a wrapper of a library; `PROJECT.json` lists each part with
the reason it has no module.

### How they interact

```
  editor / agent  --- Build session, PUT ---> definition of a workflow
        ^                                          |  events in the same transaction
        +------------- Definition events <---------+
  request / scheduler / webhook
        |  run(wait=True|False)
        v
  Execution lifecycle ---- acquire / release ----> global and project slots
        |  run_workflow                                   ^
        v                                                 | orphan sweep at startup
  Dynamic runner --- thread per attempt ---> node processor
        |     ^                                  |  sql_database -> Partitioned extraction
        |     +--- Loops and calls <-------------|                 N producers -> chunk queue -> consumer
        |                                        |  bulk_insert  -> Load service -> target table
        | final status                           |  code         -> Sandbox pool -> container
        v                                        |  if, join ... -> node tables (DuckDB)
  Webhook dispatch            nodes ask --> Engine cache <-- invalidates -- edits of connections
                              runner    --> Extract cache <-- expires, invalidates -- jobs, users
  rows -> workers -> POST -> dead letter -> replay

  user -- message, decision --> Agent thread -- consent --> tools, Build session
                                 status, checkpoint, approvals <- expiration job
```

The extraction and its queue share state and are composed: `ExtractionPipeline`
instantiates `ChunkQueue` on its own variables and takes its ranges from
`PartitionRanges`.  The other interfaces are
narrow.  The lifecycle sees the runner as "it runs, then it has an outcome or is
cancelled"; the runner sees an extraction, a load or a loop as an attempt that
ends, fails, expires, or leaves a thread behind; `LoopRuns` sees a run as one
node, and `BulkLoad` sees the runner as whoever starts a second attempt; the
dispatcher sees the lifecycle as somebody who inserts rows; the event stream
sees a build session as a writer whose transaction commits or rolls back; the
agent's thread sees what it executes or draws as one effect; the caches see
a node as somebody who asks at any time.  Each
model lets its neighbour do everything that the neighbour's code can do.

The hazards, each at its line and with the properties that cover it, are in
`PROJECT.json`.

## 2. Modules and the code they stand for

An action is what a thread or a task does between two points where another one
can act: between two acquisitions of a lock for threads, between two awaits for
asyncio tasks, between two transactions for replicas.  `map` in `PROJECT.json`
gives the lines of every definition.  A definition with an underscore in its
name (`Remaining_None`) is a seeded mistake: the definition it stands before,
changed as a plausible bug would change it, to show that a property notices.

### ChunkQueue, FifoChannel

`ChunkQueue` models `BoundedChunkQueue`, for any number of queues in one
process.  `inmem` is the deque, `spill` the list of pointers to files,
`disk` the files that exist, `thread` where each thread is.  The lock is held
for a whole call except while a thread sleeps on a condition variable, so a call is one step
(`PutInRam`, `PutOnDisk`, `Get`, ...) or starts with going to sleep
(`PutSleeps`, `GetSleeps`), is woken by a notify, and resumes, sleeps again or
times out.  A chunk is a pair of the queue and the number of the `put` that
accepted it.  Files are named by the execution and the queue's count of chunks,
as in the code; `disk` says which chunk each holds, or that it is torn.
Sweeping (`cleanup_execution`) and `cleanup` list the files first (`doomed`)
and unlink them one at a time, without the lock.  The ghosts `accepted` and
`got` record what was accepted and delivered; `intact` says that nothing was
thrown away and no read has failed.

`FifoChannel` is what the users of a queue are promised, with neither RAM nor
files nor threads: the n-th chunk out is the n-th that went in (`Put`, `Get`),
nothing goes in after `Shut`, and only a chunk that is inside can be lost
(`Lose`: what a cleanup, a sweep or an unreadable file drops), after which the
order is not promised any more.  `ImplementsChannel` is the refinement; it maps the
channel's counters to `accepted`, `got`, `closed` and the negation of `intact`.

### ExtractionPipeline, PartitionRanges

`extract_sql_partitioned_to_duckdb` composed with its queue (`Q == INSTANCE
ChunkQueue`).  A producer goes `check` → `fetch` → `put` → ... → `eof` →
`done`; the consumer alternates `get` and `handle`; `Main` collects the futures
in order, sends the closing EOFs, waits 30 s, cleans up, and concludes.
The wait that expires is a step that `Main` may always take: 30 s can pass
before the consumer does anything.  `payload` says what a chunk carries while
somebody needs to know; `written` is the consumer's own count of rows, which the limit is
compared with.  `setup` is how the extraction was called: its ranges, whether it
spills, its row limit, whether its caller passed a `cancel_event`.
`CancelsExecution` and `RunnerSweeps` are the world around the extraction: a
cancelled execution whose threads go on, and whose spill files the runner
sweeps.

`PartitionRanges` is `_numeric_ranges` and `_temporal_ranges`.  Their ends are
computed in floats, or in whole microseconds, so the module does not say which ends
there are, but what rounding leaves of them: `Cuts` are the ends that begin with
`lo`, end with `hi` and only grow in between, inside the interval or not;
a degenerate interval has one range.  `ExactCuts` are those of an integer key
when nothing is rounded, with the truncation of `int()` towards zero.  `InRange` is the
WHERE clause of a range.  The rows of each producer are the keys of its range, so a range
with a missing or doubled key shows up as a missing or doubled row.

### ExecutionLifecycle

`acquire_execution_slot`, `run()`, `_run_and_persist`, the registry, heartbeats
and the orphan sweep.  `place` follows an execution through `global` and `project`
(waiting for a slot), `preflight`, `created`, `running`, `persisting`,
`notifying`.  Awaited executions (SSE tests, `on_finish` webhooks) are cancelled
with their callers; the others through the registry.  A cancellation is an
action per place where it can strike, because what is undone there
differs.  `row` is the committed status; `stale` the rows whose heartbeat is
old; `Crashes` and `Restarts` lose the memory and keep the rows; `PeerStarts`
is another process that starts and sweeps.

### WorkflowRunner

`run_workflow` over a graph given by `Wires` (the list of edges with their
handles).  `phase` is where the loop is: visiting the nodes of a level in order,
running the pending ones, draining their results in order, closing.  The
branches of the visit loop are one action each, in the order of the code
(skipped by branch, checkpoint, cache hit, pinned, disabled, unknown type,
dispatch), with guards that exclude the branches before them that are certain;
a cache may miss.
`AttemptExpires` leaves the attempt's thread in `threads`, and `ThreadEnds` ends
it later, for nothing in the code waits for it.  `records` is the list of node
records, `shown` the events sent about a node, `fed` the sources whose results
a node was given.  What a processor computes is
`outcome`: it fails, or declares any of the sets of handles `Choices` allows.
A result that was restored, cached or pinned has such a set too, which the code
does not look at: `BranchesFollowed` says which results of open ways a node must have been
given, and that it may have been given those of earlier runs besides; that it is not given
the ones whose branch they had closed is `ActiveWaysOnly`, and false (section 6).

### LoopRuns

The loop node with a workflow or an inline body and the call_workflow node, and
the runs they start.  A run is named by its path from the root; `tree[p]` holds
its node, the workflows above it (`stack`), where its job stands in the pool of
threads, where the coroutine that its thread waits for stands, and a mark for
each item.  A node waits in `queue` for a thread, keeps it while it waits for
its coroutine, and gives it up when its own clock runs out, which cancels the
coroutine of a loop but not that of a call; `Finishes`, `TimesOut` and `UserCancels` end a
run (`EndsRun`) without reaching the threads below it.  A node whose run ends while it is
queued is dropped: it stays in `queue` until a thread passes over it.  Workflows have one node each: the
order of nodes in a run is the subject of `WorkflowRunner`.

### NodeTables

What the nodes that route and combine rows make of a table, as one step per
job.  A condition has three truth values; `Where` is the SQL of `if_node` and of
`filter`, which differ in how they compare the case of letters, `Gate` the Python
of the mode that judges a single row.  `Numberings` is the set of results that
`ROW_NUMBER()` may return when its ORDER BY ties, so every property has to hold for any
of them.  Joins, lookups with and without deduplication, unions with and
without a priority, aggregates, pivots, and `record_id` in two linked batches
are computed from sets of pairs of row numbers; sums are taken over sets of rows
(`SumFunctionOnSet`).

### BulkLoad

`bulk_insert` and `composite_insert` with the ways of `LoadService` into a
table.  `pc` follows an attempt through its chunks: dlt, a batch inside a
savepoint, its rows one at a time after the batch failed, the commit.  `todo` is the set of the
rows that a call has prepared and not written, of which it takes the first (`NextRow`); `wrote`
says how many copies of each row the open transaction has inserted, `table` how many are committed, by
the attempt that wrote them.  An upsert is two steps, as a SELECT and the UPDATE or INSERT
that follows are two statements: `found` is what the first has seen.  Only a unique index
on the key (`indexed`) makes the second wait for another transaction, or fail.  `RetriesExpired` starts the next attempt while the
thread of the last one goes on, as the runner does.  `bad` are the rows that
the target refuses, `key` the values of the unique columns.  ON CONFLICT without an
index is left out: PostgreSQL refuses each row, MySQL inserts each.

### EngineCache

A caller (a workflow's run or the playground) reads the committed row of a
connection and makes a URL of it (`Resolves`); later, in another thread and as
often as it likes, it asks for the engine of that URL (`Finds`, `Creates`).  A
request reads the row (`Reads`), writes and flushes, which takes the lock of the
row (`Flushes`), sweeps the key of the row it had read and that of the new one
(`InvalidatesOld`, `InvalidatesNew`), and commits only when the endpoint has returned
(`Commits`), or fails at any place (`RollsBack`).  `RowKey` is the key as an edit makes
it, `UrlKey` as a caller does, with the dialect that the caller says: bulk_insert,
composite_insert and truncate_table infer one from the URL, `postgres` where the row has
`postgresql` (`Inferred`).  An engine remembers the revision of the row that it was
made of; `late` and `misread` are ghosts, the reasons why it may outlive an edit.

### ExtractCache

Executions whose nodes ask the cache (`Finds` reads the row, `Copies` its
files), run after a miss, and save in a task of their own (`CopiesBack`, `Stores`), which may
come after the end of the execution has removed what it copies.  `dir` and `entry` are the
files of an execution and of an entry by the name of the node that wrote them; `stored` is
the row.  A removal (`Begins`, `RemovesFiles`, `DeletesRows`) is the daily cleanup or an
invalidation.  `late`, `torn` and `cleared` are ghosts.

### BuildSession

The definition of one workflow and everybody who writes it.  What the service
does under its lock is one step; a confirm is read, transaction and mark.
`def` is the committed definition (copies of each node and edge), `told` what
the published events add up to, `overwritten` whether a writer without the lock
of the row has put an older definition back.  `client` is a request that takes
several steps: a confirm, an undo, a write tool, a PUT of the variables.
`FOR UPDATE` is `row`.

### DefinitionEvents

Writers that publish in a transaction and commit or roll back, Postgres that
hands notifications to a connection that listens, the `SharedListener` with its
queues and its grace timer, `sse_stream` (subscribe, replay, live), and the
editor with its cursor.  `wire` is what is on the way to the connection.
`late`, `unheard` and `missed` are ghosts: why an event may never reach an editor.

### SandboxPool

One action is one critical section of the pool or one call of docker outside
it, or the end of user code in a container.  `at` and `hand` follow a client from `acquire` to the creation of the next
container; `warming` and `background` count threads that create containers;
`check`, `suspects` and `dead` are the health check with what it copied;
`snapshot` is what `stop()` took.  `state` is docker's own view: a container is `down` when its user
code has ended and the client still reads its output, too, and then a health check that
listed it while it was idle takes it for dead.  Docker may fail in every call: a
creation may leave a container behind (`LeavesStray`), a removal may leave it, running
or not (`Destroys`), an inspection may not be answered.  `lost` are those left, `silent` those
not answered for, `abandoned` those that a stop made the check forget.

### AgentThreads

One thread of the agent: `status`, the rows of `approvals`, the latest
checkpoint (`saved`) and `runs`, the requests that were let in, each with a
place.  `SendMessage` and `Decide` are the guards of the two endpoints;
`EntersTurn` and `Resumes` are the stream that starts later, from whatever is
the latest checkpoint by then.  The nodes are cut where they await: a request
for approval inserts its row (`AsksRow`), sets the status (`SetsAwaiting`),
interrupts, and behind the answer marks the row (`Decided`) and sets the status
again (`SetsDecision`); `Draws` is a build up to its second interrupt, `Signals`
and `Closes` what the stream does when its run is over.  A plan is the run that
made it and its kind, so a property can tell whose plan was agreed to
(`agreed`) and whose was executed with which row (`effects`).

LangGraph is external: a run works on a copy of the checkpoint it loaded and
saves one behind each node; a resumed node starts at its first line and gets the
answers it has been given so far in order; answers are kept with the
checkpoint while the node suspends again; a message leaves a suspended node
behind; nothing keeps two runs of a thread apart.  `Fails` is an exception in
the stream, `Leaves` a client or a process that goes away at any place.  `Expires` is
the job, for any prefix of the rows but those of a run under way, whose hour
has just begun (`InHand`).

### WebhookDispatch

The table of deliveries, `enqueue_for_execution`, the steps of `dispatch_due`
(pick and mark; reload; post all; persist one by one, each in a transaction of
its own), the dead letters and the replay and test endpoints.  `sends` counts
the requests sent to a receiver and `verdict` is what the service took the last one
for: they are outside the database, which is what makes the properties about them say
something.  `lost` are the rows whose outcome was never saved because a replica
died or a transaction failed.

### Proof and model-checking modules

A module `XProofs` holds the theorems about `X`; `ExtractionProofs` is about
`ExtractionPipeline`, `DefinitionProofs` about `BuildSession` and `DefinitionEvents`;
`ChunkQueueProofs` also has that about `PartitionRanges`, `WorkflowRunnerProofs` those about `LoopRuns`, and `SharedServicesProofs` those about `SandboxPool`,
`EngineCache`, `ExtractCache`, `BulkLoad` and `NodeTables`.  The `MC` modules give the
constants that a `.cfg` cannot write down: graphs, programs, setups, jobs,
symmetries.  Four of them hold several small models at a time, of which a behaviour
moves one, named by `part`, and leaves the variables of the others as they are, so
that one run asks the questions of each: `MCNodes` has
`NodeTables`, `BulkLoad`, `ExtractCache` and `EngineCache`, `MCExecution` has
`ExecutionLifecycle` and `ExtractionPipeline`, `MCRunner` has `WorkflowRunner` and `SandboxPool`,
`MCBuildSession` has `BuildSession` and `ChunkQueue`.  Fairness and liveness are those of the
part (`ExtractionEnds` and `GraphEnds` are `Ends` and `RunEnds` for theirs).  Modules that are
extended side by side, there or by a module of proofs, have names of their own
(`QueueInit`, `PoolNext`, `LifecycleSpec`).

## 3. Runs, bounds and what they show

Several properties are conjunctions of named parts, each with its own comment;
the type invariant of a module stands alone or is one of the parts (it is in
`RamDiscipline`, `SlotsAccounted`, `InFlightExact` and `ConsentExact`, among others).

| Run | Instance | Properties |
|---|---|---|
| `Build_and_queue` | *a queue*: with and without spilling, 4 threads, 2 slots of RAM, 5 puts; *or build sessions*: 1 session, 2 clients, 3 node ids, 1 edge, 1 failure, 1 other writer | `RamDiscipline`: RAM bounded, disk only behind a full RAM. `NoOrphanFile`. `NoLostWakeup`. `ImplementsChannel`: first in first out, nothing lost. `NoCopies`. `EventsTellDefinition`. `ConfirmedIsDurable` |
| `ChunkQueue_shared` | 2 queues of one execution, 2 threads | `OwnChunksOnly`, *violated* |
| `Execution_runs` | *slots*: 3 executions, one of them awaited, 2 slots, 2 of one project with 1 slot, 2 cancellations, 1 crash; *or an extraction*: five ways to call it, 1 to 3 ranges, batches of 2, a queue of 2 slots, 2 faults | `SlotsAccounted`. `RunningRowsExplained`. `FinalStatusStays`. `SlotsComeBack`, for the global slots. `OutcomeTruthful`: in order within a partition, the row limit exact, errors surface, complete unless the consumer was lost. `CancelStopsProducers` once the flag is set. `ExtractionEnds`, but where, without spilling, the consumer died or the closing EOFs have no room |
| `Extraction_closing` | 3 ranges, 2 slots, no spilling | `ClosingNeverBlocks`, *violated* |
| `Runner_graph` | *a graph*: 11 nodes up to a target: a condition, two branches that meet, an error branch, one node of each special kind; *or the pool*: 2 clients, 2 warm containers, 3 in all, 1 trouble | `BranchesFollowed`: a node runs with the results of its open ways in, and at most results of earlier runs besides. `ReportTruthful`: every node reported, status explained. `StorageOutlivesThreads`. `GraphEnds`. `OwnersExact`: counters agree with threads, stock bounded, one user each, none forgotten but for the reasons named. `OnlyUserDestroys`. `StopEmpties` |
| `Runner_restored` | a condition restored from a checkpoint, with two branches | `ActiveWaysOnly`, *violated* |
| `LoopRuns_calls` | 3 workflows, 9 wirings, up to 3 rows, limits and pools of 1 and 2 | `ReportExact`. `ChainsBounded`. `StraysExplained`: what runs behind a run that ended was let go by a clock, a call or a cancellation. `RunsEnd` |
| `Node_services` | `MCNodes`: every job of the node tables with inputs of up to 3 rows; every load of 4 rows in chunks of 2 by every strategy, keys repeated in a chunk and across chunks, with a unique index and without, 2 attempts, 2 failures; 2 executions of 2 nodes after one that filled entries, 4 histories, 2 keys, 1 removal; 1 caller, 2 edits, 2 connections, room for 1 engine per workspace | `RoutedExact`: each row takes one branch but for NULLs, the two modes of if and switch agree. `RowsMatched`: joins, lookups, unions, pivots, numbers. `ReportExact`: each row in one list, the table as reported. `UpsertKeepsLast`: one row for each key if the target has a unique index or no attempt overlapped, and the last one. `HitsExplained`: a hit gives the files of this configuration, none from before an invalidation, but for named reasons. `StaleExplained`: the same for engines of replaced credentials |
| `Upsert_without_index` | the same loads, upserts that look first, no unique index | `OneRowEach`, *violated* |
| `Webhook_dispatch` | 3 rows, 2 replicas, batches of 2, 2 attempts, 2 replay requests | `InFlightExact`: one worker per row, `in_flight` explained, sends counted. `OutcomesExact`: status tells the verdict, one dead letter per failure. `ReplayedOnce`. `NothingAfterVerdict`. `Settles` |
| `Definition_events` | 3 events, 2 writers, 2 editors, queues and replays of one event, 1 failure | `MissedExplained`: an event an editor lacks was missed for one of the named reasons |
| `Agent_threads` | plans of every kind, 3 requests, 2 at a time, 1 fault | `ConsentExact`: what needs consent is executed or drawn behind a yes to its own plan and has an approved row of its own. `AwaitingExplained`: who waits can be answered or expires. `WaitsEnd` |

Why the bounds are enough for what the runs ask:

- *Queue.*  Two slots and five puts reach RAM full, spilling, a file read back
  into the FIFO and a full RAM again; lost wakeups need two sleepers of one kind
  and one of the other with a fourth thread that changes what they wait for,
  hence four threads.  `MaxPuts` is the only cap; a spilling `put` never waits, so longer
  behaviours repeat the same shapes.
- *Extraction.*  Two partitions are the least for which EOFs can be counted
  wrongly and orders can mix; a batch behind another one in its partition is the
  least for which the order within a partition means something.  The threads put
  far fewer than `MaxPuts` chunks.  `MaxFaults`
  counts errors of the source and of the disk and cancellations; two allow an
  error while another one is being handled.  `Limited` puts the limit in
  the middle of a batch; its ends are those of a time whose step is rounded to
  microseconds.  `Single` is a key that cannot be divided; `Crowded` has more ranges than
  values and than slots, which is where the closing EOFs block (section 6).
- *Lifecycle.*  Three executions and two slots make one wait for a global slot;
  two of one project with one slot make one wait with a global slot in hand, the
  state in which cancellation matters.  One crash with the sweep after it, and a
  peer that sweeps at any time, cover what a second crash would repeat.
- *Runner.*  The graph is small but has one of each: both handles of a condition
  may be active; a join below it; an error edge; a node reached by
  several edges; a checkpoint, a cache hit, a pinned output, a disabled node, an
  unknown type; a node outside the ancestors of the target.  One node has two
  attempts.
- *Loops.*  Two threads and two items are the least for which a loop can hold
  the thread that its own item needs while another item runs; three rows put
  one item behind the limit; cycles, nested loops, an inline body that calls, and
  a chain of `MaxDepth` = 3 workflows are among the wirings.  The largest tree, a
  call in every item of a loop, is explored with two threads and a limit of two.
- *Tables.*  Three texts, two of which differ only in their case, and NULL; rows
  up to three, so that a key can be repeated and a third row be apart; two
  conditions or cases, so that a row can be in two; three inputs of a union, two
  of them on one handle, handles 2 and 10, whose order as texts is not that of
  the numbers.
- *Load.*  Two chunks of two rows put a repeated key into one chunk and across
  two; `bad` is nothing, one row, or a whole chunk.  Two attempts may run side by
  side; two faults break a connection while the first attempt has not ended.
- *Extract cache.*  Two executions that run at once, after a third that filled
  entries, in four histories: a node was configured otherwise before and another took its
  configuration over; both nodes share a key; one of them is new; one was renamed after it
  filled the entry that another one asks for.  One removal strikes between any
  two steps.  Without any one of the reasons that `HitsExplained` names TLC finds a
  counterexample, so each of them happens.
- *Engines.*  Two requests are needed for edits that overlap, two revisions for an engine to
  be outdated twice; callers share nothing but the cache, so that one that asks again plays
  the second.  A connection of Oracle that belongs to a project and one of a workspace have
  keys that an edit misses and keys that it hits.  `MaxEngines` = 1 makes every second
  engine evict one.  More callers are left to the proof.
- *Webhooks.*  Three rows and batches of two leave one row for the other replica,
  and let a replay add a row while the first are being sent.  Two attempts give
  a retry and an exhaustion.  Larger instances (two
  subscriptions; two million states) were run by hand and agree.
- *Sessions.*  Two clients confirm, undo and retry at once; one failure and one
  other writer can strike between any two of their steps.  A second session
  would share only the definition, which the other writer stands for.
- *Events.*  Three events let two be in the order of their numbers and one late;
  a queue of one and a replay of one are full at once; two editors keep a
  listener alive for each other.
- *Agent.*  Three requests are a message, a decision and one more of either, so
  that a plan can be asked for, decided twice, or decided while the next turn plans
  another one; two at a time meet at every place; one fault strikes at any of
  them.  Three at a time (two million states) were run by hand and agree.
- *Pool.*  Two clients compete for one room; three containers let one be created while
  another one is used and a third one checked.  One trouble of any kind strikes anywhere; the end
  of the code in a container is not one, so a container that was taken during a check
  and has exited is there without any.

Deadlock checking is on in `Definition_events`, where an editor may always
reconnect.  It is off elsewhere: queues, executions, runs, jobs, loads and
deliveries come to an end, and a model that has used its bounds stops.  Where something has to
happen before the end, a liveness property says so (`ExtractionEnds`, `SlotsComeBack`,
`GraphEnds`, `RunsEnd`, `Settles`, `StopEmpties`, `WaitsEnd`), and for the
queue `NoLostWakeup` says that nobody is left asleep with something to do.
Symmetry is used for threads in the runs of the queue, for clients in `Build_and_queue`, for
writers and editors in `Definition_events` and for requests in `Node_services`; all they check are invariants and
a safety refinement.

## 4. Fairness

| Module | Assumed | Because |
|---|---|---|
| ExtractionPipeline | weak fairness of each producer, of the consumer, of `Main` | threads are scheduled by the operating system and timed waits expire. None for faults, the user, or the sweep |
| ExecutionLifecycle | weak fairness of `Progress(e)` | the event loop runs what is ready, `wait_for` expires, and a run is bounded by `max_execution_time_seconds` or ended by its nodes. None for cancellations, crashes, or restarts: a process that stays down keeps no slots |
| WorkflowRunner | weak fairness of `Step` | the loop goes on, and an attempt ends or expires: a node without a timeout is taken to come back some time. None for the end of a thread that was left behind, which may never come |
| LoopRuns | weak fairness of `Progress` as a whole; no step of a behaviour can be taken twice, so this is fairness of each | the event loop and the pool go on, and every wait of a loop, a call or a run has a clock. None for `LeafReturns`: the thread of a node that does real work may hang |
| WebhookDispatch | weak fairness of `ComesDue(d)` and `Works(w)` | time passes, and APScheduler calls `dispatch_due` at each interval. None for replicas that die, failing transactions or requests |
| AgentThreads | weak fairness of `Advances` and of `Job` | the event loop takes up some run that can go on, each of which has a bounded number of steps; APScheduler calls the job every five minutes. None for requests or faults: nobody has to decide |
| SandboxPool | weak fairness of `Finish(c)`, `Warms`, `Replenishes`, `Check` and of the destruction of what `stop` took | threads run on, waits are timed and user code has a timeout. Nobody has to come for a container, to begin a check or to stop the pool, and docker need not fail |

`Settles` promises nothing for the rows in `lost`: nobody picks them up again
(section 6).  `Ends` promises nothing when the consumer dies in a queue that
does not spill, because the producers then wait for ever on a queue that nobody
empties.  `WaitsEnd` promises nothing for a thread of which a run was left within
a build, which waits without a row, or was lost between marking its row and
setting the status (section 6).
`FinalStatusStays` is about background executions, which have a heartbeat; an
awaited one has none, so that the sweep of another process may mark it
`CRASHED` and its own final save then overwrites that.  `SlotsComeBack` is about the
global slots; those of a project come back with them, but for the executions named
in `SlotsAccounted`.  `StopEmpties` leaves out
the containers in `abandoned`, which `stop()` made the health check forget, and in `lost`, which
docker did not remove or a failed creation left.  `StorageOutlivesThreads` is about the
`gather` before the cleanup: threads of attempts that timed out, and the background saves, do
use files that are gone.  `HitsExplained` and `AwaitingExplained` name the
late save and the lost decisions among the reasons they allow: what they refuse is any
other one.
The other modules state safety only.

## 5. What is proved

Each theorem holds for every value of the constants that satisfies the named
`ASSUME`s, and so does not depend on the bounds above; `MaxPuts`, `MaxCancels`
and the like occur in guards only and are arbitrary.

**ChunkQueueProofs.**  `TypeInv` is `QueueTypeOK /\ RamBound`, inductive as it
stands; it gives `TypeCorrect`.  Order needs more:
`OrderInv` says that while a queue is `intact`, the chunks delivered, those in
RAM and those behind the pointers carry consecutive numbers in this order, that
pointers exist only behind a full RAM, that they are the last files written, and
that each readable file holds the chunk its pointer stands for (`Ordered`).  No
other queue may write those files.  That is `DistinctExecs` (no two queues of one
execution), an explicit hypothesis of `FifoDelivery`, `NoChunkLost`,
`RamDisciplined` and `QueueIsChannel`; `ChunkQueue_shared` shows that it is
needed.  `QueueIsChannel` maps every step of every queue to a step of
`FifoChannel` or to a stutter.  `NoFileOrphaned` has no such hypothesis:
whoever shares the directory, what was written in full stays behind some pointer or in the
hands of a cleanup.  Nor has `NoWakeupLost`, which counts the chunks and the slots a sleeper could have
against the threads that were notified for them and have not run yet (finitely many:
`ThreadsAssumption`).  It is inductive once one knows that nobody sleeps in a `put` of a queue that
spills and that no other queue has pointers (`WaitersByKind`), as a failed read frees a slot of
the RAM and notifies nobody.

*Partition ranges.*  `EachKeyInOneRange`: for all ends in `Cuts`, wherever rounding has put them,
and every key between the first and the last, exactly one range selects the key.  Ends that only
grow make the ranges disjoint; the range behind the last end, of those in between, that is not above the
key has it, or the first or the last range.  `ExactCutsAreCuts`: ends computed without an
error, truncated towards zero, are such ends, by the monotonicity of truncated division.  That
the floats of the code only grow is read off `step * i`, not proved.

**ExtractionProofs.**  `OutcomesAreTruthful` and `CancellationStopsProducers`, for any interval,
number of partitions, sizes of a batch and of the queue, limits and faults.  A step of the extraction is
a step of its queue or none (`StepOfQueue`), so what is proved of the queue is taken from there with
`QP == INSTANCE ChunkQueueProofs`; an extraction has one queue, which makes `DistinctExecs` hold.
On top of it `Inv` says what the threads know of each other: `Phases` (the
caller goes on once every producer is done and has heard of every failure), `Line`
(while the consumer lives, what it got and what is in RAM carry consecutive tickets, and only the
closing cleanup takes any away), `Carried` (which tickets are given out and
not handled, and that each carries a batch or an EOF) and `Hears`.
Then come the arguments that the code leaves unsaid.

- `Counted`: in front of a batch there are fewer than N EOFs, those already heard included, so the consumer does not leave
  before it.  While producers work there are no more EOFs than producers that are done,
  and those that the caller adds come behind everything.
- `InSequence`: as long as nothing is cancelled and the consumer lives, the batches of a partition in the
  table and in front of a ticket in the queue are exactly those with lower numbers than
  the one this ticket carries.  It says nothing of a cancelled extraction; there the table holds
  a beginning of each partition all the same (`InPartitionOrder`, part of it), since after the flag
  nothing is appended.
- `Amounts`: the counter is the number of rows of the table, never above the limit and equal to
  it once the limit stopped the extraction.
- `Late`: once the caller's flag is set, a producer that has fetched a batch looks at
  the flag before the next one.

If the consumer has heard N EOFs, nothing is behind them; so the
table has every batch (`EverythingTabled`), and the rows of all batches correspond one to one
to the keys of the interval, by `EachKeyInOneRange` and the sizes of batches.  No sum is
needed, which would have taken an induction over the sequence.

**ExecutionLifecycleProofs.**  `IInv` is `LifecycleTypeOK`, `OutcomeKnown` (an execution
that is being saved has an outcome to save) and `SlotsCounted`: the free global
slots plus the executions that hold one plus those abandoned with one add up to
`GlobalSlots`, and likewise for each project.  The proof is an induction with
cardinalities of sets of executions that lose or gain one element.
`LimitsHold` follows: never more running executions than slots, globally or for a project.
`RunningRowsAreExplained` and `FinalStatusIsKept` rest on `RowsInv`: what a row may say at each
place, and that a background execution at work is registered and has a fresh row that says `RUNNING`,
so that the sweep of another process does not find it and nobody else has written to it.

**WorkflowRunnerProofs.**  For any graph, flags, choices, numbers of attempts and of
cancellations.  `TrackInv` follows a node from its level to its one record: what was not visited has left no
trace, what is pending is shown as running and has no result, the sources of what is visited are
settled, and no level begins behind a failure.  With `FailuresLast` it gives `ReportIsTruthful`.
`ThreadsExplained` says that a thread at work is that of a running attempt, but for nodes
an attempt of which has expired and for cancelled runs; this gives `StorageOutlives`.
`BranchInv` keeps what the runner has closed (`inactive`, `skipped`) equal to what the results say
of the edges behind them, and what a node was given equal to what is open.
`LastEdgesAreFollowed` is what the code does in any graph: among edges that join the same
two nodes the last one decides (section 6).  `BranchesAreFollowed`, the property of the run, is
about all ways in and has the hypothesis `SingleEdges`.  What a node was given is,
for the results of earlier runs, only bounded from above: by the edges from restored nodes.

*Runs that start runs.*  `RunReportsAreExact`, `ChainsAreBounded` and `StraysAreExplained`, for
any definitions of workflows, limits, pools and numbers of rows.  `RunsInv` ties a run to the mark of the
item it was started for (`Linked`), the marks of a run to the state of its coroutine and its
thread (`Jobbed`), and the queue of the pool to the nodes that have had no thread (`Queued`).
`Stacked` makes the stack that a run is handed the callees of the chain of runs it is in, each
once; so what a call compares with its stack, it compares with its chain, and the bound on the
length of the one bounds the other.  `StraysExplained` is inductive on top of these: a step that
ends a run whose coroutine still goes leaves it let go, and no run ends by itself over
running items, since its thread waits for them.

**WebhookDispatchProofs.**  `IInv` conjoins `TypeOK`, what is known of a row in
each status (`RowsInv`), of a worker and its batch at each stage (`HandsInv`),
of requests (`RequestsInv`), and the safety invariants.  The heart is that the
batches of the workers are disjoint and hold rows that are `in_flight` (or
deleted meanwhile), that a row in flight is in a batch or in `lost`, and that
only such a row can have been sent once more often than its saved attempts say.  `ReplayInv` strengthens
`ReplayedOnce`: at most one request for a letter is past the limiter, as its key
stays in the store.  It needs `OneStoreForAll`: with a limiter in the memory of
each replica the claim is false.

**DefinitionProofs.**  *Sessions.*  `IInv` adds to the types what the lock of the row buys
(`ReadIsCurrent`: a transaction works on the committed definition), that every
id in the definition, in a session or in the hands of a client has been given
out by `uuid4` before (`IdsGiven`), so that an id given out later is new, that
the stale definition of a PUT has no copies either (`PutsSingle`), and that a
client that is about to mark a session has announced it (`MarksAnnounced`).
`NothingTwice`, `EventsTell` and `MarkedIsCommitted` follow.

*Events.*  `EventsInv` relates the cursor of an editor to
what has been committed: every event that the cursor has passed is in the editor's
definition or excused (`PassedExcused`); a stream without a cursor starts behind
nothing that is not excused (`StartExcused`); the rows of a replay are sorted, above the
cursor and below whatever the replay left out (`ReplaySound`); and queue and
wire together are in the order of the numbers but for late commits
(`Orderly`).  `Numbered` says that the sequence gives each number once.
`EventsTypeCorrect` says moreover that nothing rolled back is on its way to an editor and that no
listener is dropped under a stream.  `NothingLostUnexplained` is `MissedExplained` for any number of editors, writers
and events; the proof is an induction with lemmas about sorted sequences that are cut,
appended and copied to queues.

**AgentThreadsProofs.**  `ConsentIsExact` and `WaitIsExplained`, for any number of
requests, of runs at a time and of faults.  `IInv` says what the place of a run
tells of its row (`HandsInv`: a run that has been answered has marked a row of
its own plan), that no two runs have the same row (`OneHandEach`), and
that an answer that says yes was given to a checkpoint with the plan it decides
(`ToldInv`).  The last is the hard one, as a checkpoint may be replaced between two answers:
along a run the nodes only go up in `Rank`, so a run never saves two checkpoints that name the
same node, and one that is still the latest is the one that was loaded
(`BasesInv`).  `ExecuteInv` carries consent through the checkpoint to the node
that executes; `WaitInv` follows what explains a wait through every step.

**SharedServicesProofs.**  *Containers.*  `PoolOwnersAreExact` and `UsersAreNotRobbed`, for any
clients, containers, sizes and troubles.  `Counted` makes each counter the number of the
threads it stands for, in sums that every step keeps; `Owned` says that no hand and no list names a
container that is not created yet, so that a new one is nobody's, and that what the
health check found dead was idle when it began and is not up, whoever took it since, or was
not answered for.  What docker kept is in `lost` from the step in which it failed.

*Engines.*  `StalenessExplained`, for any connections, callers and edits and any
quota.  The invariant rests on revisions: one that a request holds back with the lock of its
row has been seen by nobody (`Fresh`), so a revision belongs to one content of a row
(`Determined`).  Once a request has swept the key of the row it read, all that still has the
committed revision is `late`, provided that this row is the one it replaces (`Swept`); what
the commit makes outdated is therefore late, or the row was misread, and so it is for
URLs that become engines afterwards (`UrlsExplained`).

*Extractions.*  `CacheHitsAreExplained`, for any executions, nodes, keys, removals and
histories of edits.  Files are of the key of their entry (`Labelled`); a save
copies a file of its own or none, and a row that is not late names a file no older than the
last invalidation (`SavesOwn`, `SavesCopied`, `RowsBacked`), unless a removal has torn the key;
where it has not, it has no save and no lookup beside it (`Alone`).  What a node finds under
its name before it ran was brought by another node of its execution (`Brought`).  The attempt to prove an earlier
form of `HitsExplained` failed for a good reason: it did not mention a file that another
node of the execution brings before the invalidation, nor one named after a node as
the *earlier* execution had it.  A history for each is in the run now.

*Loads.*  `LoadReportsAreExact` and `UpsertsKeepTheLast`, for any number of rows, sizes of a
chunk, configurations, attempts and faults.  `ListsFit` says where every row of the input is at
each place of an attempt: unread, to be written, or in one of the three lists, and how many
copies of it the attempt has in its transaction and in the table.  It needs `AttemptFits` (which
places a configuration can reach, and that an attempt past the current one has left no trace).
`KeysOnce` says that upserts leave one row under a key, whichever attempts wrote it, when the
target has a unique index or the attempts came one after the other; it rests on what a
SELECT has found being true until its transaction ends, then (`UpsertFits`).
`LatestInv` makes it the last row that a first attempt has written under that key: what is committed
lies below what its transaction has written, and this below what it has to write, since a
call takes the rows from the lowest number (`MinIsLeast`).

*Routes.*  `RoutesAreExact`, for any texts, values, tables, conditions, cases and labels.  What is
to be shown is that two readings of a condition agree: SQL's, with three truth values
(`Connectives` for AND, OR and NOT), and that of a node that reads one record in Python.
`Clauses` compares them for one clause, operator by operator, `Wheres` for the AND or OR of
clauses.  They differ for NULLs and for the case of a text, as the property says; elsewhere
the branch of a row is the gate of its record.  Of a switch, `SwitchRoutes`: a
row is among those of a label exactly if its value fits one of that label's cases, provided that each
label has a table of its own.

*Tables.*  `RowsAreMatched`, for any tables, keys, dictionaries, sources, priorities, starts
and offsets, by one lemma for each node.

- `JoinsMatch` and `LookupsMatch`.  `GroupIsNumbered` says that the numbers of a group are those from one
  to how many rows it has, each once, and in the order; so one row of each group is kept and none comes before it
  (`OneIsKept`), which is the one that the order wants, NULLs behind all others.
- `UnionsMatch`.  Every handle has one source that is heard (`SourcesHeard`); the ranks of handles are
  compared as the handles are (`RanksFollow`), so the row numbered first is of the first or last input.
- `PivotsAdd`.  The values of a column, spread over the columns of the pivot, add up to
  the same (`ColumnsAddUp`), but for the rows whose pivot is NULL.
- `BatchesFollow`.  A batch without partitions has the numbers from its start on, without a gap (`BatchIsNumbered`); the
  second starts behind the highest, which exists for a batch that has rows.
  The proof attempt showed that an earlier form of
  `NumbersFollow` held only for the offsets of the instance, 0 and 1: a negative one may lead below
  1, where the second batch is refused.  The property names that case now, and the instance has it.

Sums, maxima and numberings are statements about data of any size.  `Shrinking` is the
induction they rest on: a set that has the empty set, and has every subset of a finite set whose
subsets with an element less it has, has all of them.  It is stated for a *set* of subsets, not for a
predicate, and proved from the library's facts that have no operator parameter (`WFMin` and
`FS_StrictSubsetOrderingWellFounded`).  The assumptions on the constants are those of
`Shapes` (what the tables of a job are) and are checked on the instance.

**Only model-checked:** the liveness properties, which, like `ENABLED`, are out of the prover's
reach: `ExtractionEnds`, `SlotsComeBack`, `GraphEnds`, `RunsEnd`, `Settles`, `StopEmpties`, `WaitsEnd`.  Every other
property that a passing run checks, of states or of steps, is a theorem.

## 6. Where the code and its documentation disagree

Shown by a run that ends in a counterexample each:

- `ChunkQueue_shared`: spill files are named by execution and by a count that
  starts at zero in every queue, so two partitioned extraction nodes of one
  level write the same files (`bounded_chunk_queue.py:384-387`).
- `Extraction_closing`: "nunca bloqueia indefinidamente aqui" (`extraction_service.py:355-356`),
  but a queue that does not spill, with more partitions than slots, blocks the closing EOFs
  for ever once the consumer is done.
- `Runner_restored`: "apenas um ramo do grafo e executado" (`dynamic_runner.py:46-57`), but a restored,
  cached or pinned condition closes none of its branches (`:1415`, `:1538`, `:1611`).
- `Upsert_without_index`: an upsert that looks first "funciona com qualquer merge_key, com ou sem
  indice unique" (`load_service.py:1389`), but two attempts that overlap both find no row and
  insert two (`:1449-1481`).

Met while modelling, and in the models as the code has them, without a run of
their own:

**Extraction.**
- Nobody looks at whether the wait of 30 s for the consumer expired; the backlog
  is deleted and a truncated table is returned as a success
  (`extraction_service.py:362`).
- The flag that cancels producers is never passed (`nodes/sql_database.py:130`),
  although the docstring says it is (`:25`).
- Without spilling a dead consumer hangs the producers (`:740-742`); a full disk raises instead of
  blocking (`bounded_chunk_queue.py:392-394`); an error in the `finally` leaves
  the spill files behind (`extraction_service.py:363-364`).
- Ranges are computed in floating point (`:630-646`), so that for large keys ends may lie outside the
  interval; the ranges then are uneven, but still have every key once.

**Lifecycle.**
- A caller cancelled while it waits for the slot of its project keeps the
  global one (`dynamic_runner.py:202`, against `workflow_service.py:486`); a task
  cancelled before its first step never runs its `finally`, and keeps its slots.
- A crash between the commit of the final status and the enqueuing of webhooks
  loses the event (`workflow_service.py:1117`); the sweep runs at startup only.
- The timeout of `on_finish` is answered with 200 instead of 504
  (`api/v1/webhooks.py:205-209`).

**Runner.**
- Two edges between the same nodes share one entry of `edge_handle_map` (`dynamic_runner.py:467`).

**Loops and calls.**
- `call_workflow` does not hand `in_loop` on: a loop reached through a call in an
  iteration does iterate, against the comment `dynamic_runner.py:1128-1130`
  ("direto ou indireto").
- Cancelling an execution or the timeout of a node never reaches the thread that
  waits (comment `loop.py:303-305`); a call that gives up leaves its workflow running
  (`sub_workflow.py:348`); a retry policy on a loop runs its items again while the
  first attempt still iterates.

**Node processors.**
- Rows for which a condition is UNKNOWN "caem em FALSE" (`if_node.py:324-325`),
  but they are in neither branch; the gate's `in` and `not_in` treat a None unlike SQL.
- `contains`, `startswith` and `endswith` are LIKE in `filter` and ILIKE in
  `if_node`; `condition_node.py:25` ("identico ao do filter_node") lacks three
  operators.
- A union behind both branches of an if raises when one is empty, for it needs two
  active inputs; of two sources on one handle it hears one; its
  "first" and "last" are those of an ORDER BY NULL.
- Deduplication without `order_by` keeps any row, against its comment
  ("determinístico", `:74-75`).
- Switch labels that are written alike as tables overwrite each other, after
  their rows were counted (`switch_node.py:240`), and so does a label "default";
  the modes are not "coerente" (`:27-28`): TRIM strips spaces only, Python
  all white space, and the gate takes the first matching case only.
- Right and full joins drop the key of rows without a match; a lookup repeats
  rows when its dictionary repeats a key; `record_id` linked to an empty table
  raises; `unpivot` keeps all other columns natively and `index_columns` only in
  its fallback.

**Load.**
- `append_safe` is documented as all or nothing (`load_service.py:269-270`,
  `nodes/bulk_insert.py:47-48`), but falls back to a savepoint per row (`:1287`).
- dlt that fails half way has committed rows that the fallback inserts again
  (`:475`); a refused row with RETURNING raises UnboundLocalError (`:1260-1261`);
  `insert_composite` documents one transaction (`:550`) and keeps the rows before a
  failed one (`:760`).
- `unique_columns` is to keep "o valor mais recente" (`nodes/bulk_insert.py:55-59`) and keeps the
  first row of a chunk (`load_service.py:404-415`), so that the last one wins between chunks only.

**Build sessions.**
- `confirm` does not look at `confirmed`, though two comments say that a confirmed
  session is closed (`:94`; `workflow_build.py:391`).  A node that is added, and a
  cancel that is answered, while a confirm writes are lost
  (`build_workflow.py:681`); an undo misses a node removed meanwhile
  (`workflow_build.py:485`); the map of temporary ids is never cleaned
  (`workflow_pending_tools.py:100`).
- The PUT of the variables (`workflows_crud.py:665-682`) and that of the workflow
  write back a definition they read without the lock, and publish nothing; a confirm
  publishes no `variables_updated`.
- The undo is documented with 5 minutes and has 30; the cleanup after 90 s
  without a heartbeat never happens, as `cleanup_expired` has no caller.

**Event stream.**
- The overflow sentinel is put into the queue that is full, so that the
  reconnection of `definition_event_service.py:80` never happens and `:287-292`
  is never reached.
- A replay stops at 500 rows, and the first live event passes the rest; a first
  connection, which has no `?since=`, loses what is committed between the GET
  and the LISTEN; a transaction that commits late is skipped by the editor
  (`seq <= lastSeqRef`); `sse_stream` does not wait for the LISTEN it documents
  (`:73`).
- A failed connection is not tried again while its streams last, which get
  keepalives only; a listener dropped while it connects leaves its connection behind;
  a payload over 8 kB fails the transaction of the writer in `pg_notify`.

**Sandbox pool.**
- `release` makes room without waking a waiter (`pool.py:230`, `:260`; the
  docstring `:206` says it does), who then sleeps until its timeout; concurrent releases let the total pass
  `max_size`; `stop()` interrupts the health check, which forgets the dead it had
  found; a docker that does not answer makes the check take a healthy container for a dead one.
- The health check "descarta idle morto" (`:350`), but lists the idle containers and looks later, so it may
  remove one that a client took meanwhile, whose code has ended and whose output the client
  still reads (`:358-379`, `:411-418`).
- `stop()` is "kill+remove tudo", but errors of kill and remove are swallowed (`docker_sandbox.py:441-450`), and a creation
  that fails in attach or start leaves its container (`:279-285`); nothing looks for these again.

**Webhooks.**
- Only a complete 2xx or 4xx, the redirects 301, 302, 303, 307 and 308 and a refused
  address settle a delivery (`OutcomeOf`); a 300, 304, 305 or 306, and a 2xx whose body
  does not come in time, count as failures to be retried (`:534`, `:582-587`), so a
  client that has taken a delivery may get it again.  `NothingAfterVerdict` speaks of what
  the service has seen, not of what the client has done.
- A row whose replica died stays `in_flight`, although the docstring of
  the dispatcher promises "exactly-once-or-more" (`:290-293`); rows of an inactive
  subscription are still delivered; test deliveries leave no dead letter; a
  limiter per process lets two replicas replay the same letter (the code
  documents this as best effort); its hourly count takes two round trips
  (`replay_limiter.py:205`).

**Agent.**
- A node that interrupts is run again from its start, so a resumed
  `human_approval` (`human_approval.py:56-63`) makes a second row and marks that
  one; the first stays pending, and the job that expires it also ends a later wait of
  the thread for something else (`expiration_job.py:5-6` says "quando a approval estava
  bloqueando").
- Two decisions at once both resume the graph and execute the plan twice; a decision
  on the row of one plan resumes whatever the latest checkpoint holds, which may be
  another plan (`api/v1/agent.py:394-415`; the run is not told which row it was let in for).
  What holds is that somebody said yes while that plan was the one that waited.
- The audit of a build (`build_workflow.py:115-130`) names no row; a destructive script in which no
  tables are found is a `build` and asks for nothing of its own.
- `error` and `build_plan` stay in the checkpointed state: a later turn reports an
  old error, or goes to `build_workflow` with an old plan (`builder.py:45-49`).
- After `build_ready` the thread is `awaiting_approval` without a row, so that
  every later message is refused (`chat_service.py:511-530`, `api/v1/agent.py:314`); the same
  when a process dies between marking a row and setting the status, and when
  the stream sets `awaiting_approval` behind a decision that came first (`chat_service.py:534`).
- A thread in `error` takes neither messages nor decisions again.
- An approval asked for through MCP can never be given, as its thread never waits
  (`api/v1/agent.py:380`).

**Engine cache.**
- Edits promise that "credenciais novas entrem em vigor na proxima get_engine()"
  (`connection_service.py:252-254`).  The key of an edit is made of the row and that of a
  caller of the URL (`engine_cache.py:490-497`), so they differ for Oracle, whose service
  name is a parameter of the URL (`connection_service.py:579-582`), for Firebird, whose path
  is translated (`:566`), and for the connections of a project, which a workflow caches under
  its workspace and an edit sweeps in the default scope.  bulk_insert, composite_insert and truncate_table
  call PostgreSQL `postgres` (`nodes/bulk_insert.py:527-542`), an edit calls it
  `postgresql` (`connection_service.py:296`).  All these engines keep the
  old credentials until they are evicted.
- The sweep comes before the commit: an engine made in between, or later of a URL read
  before, has the old credentials under the swept key.  Of two edits that
  overlap, the second sweeps the key of the row it read and not of the row the
  first has committed.  A process sweeps its own cache only.
- Two Oracle services on one host with one user share a key, hence an engine, against
  "ainda eh seguro" (`engine_cache.py:486-488`): the models have one connection per
  server and leave this out.

**Extract cache.**
- The key hashes neither the node nor the mode of the run: rows cut by a preview
  (`dynamic_runner.py:1150-1152`) are saved and served to full runs.  It does hash
  `force_refresh`, so that a forced run saves under another key and refreshes nothing.
- Files are named after the node that saved them and are not replaced in an execution that
  has one of that name (`extract_cache_service.py:139`): a node edited since then hands its
  new file to whoever is served its old one.
- A save that comes after the end of its execution stores a row without a file, and any
  file of the entry makes it a hit (`:123`, "Arquivo DuckDB foi removido" `:97`).  An invalidation
  that overlaps with a save leaves what it was to remove, or a row without files.

**Checkpoints** (read, not modelled).
- `_TMP_SHIFT_RE` matches up to the directory of the execution only, so copies fail
  and are logged; loading never notices missing files, though the
  docstring says so (`checkpoint_service.py:169-170`); the cleanup removes the directory of an
  execution when one of its rows expired.

## 7. What is not modelled, and the plan

Abstracted away throughout: contents of rows and messages beyond what a
property compares, log texts, payloads of events, metrics.  Semaphores serve any waiter
rather than the oldest, a worker picks any of the due rows, the pool hands out any idle
container: the models have more behaviours than the code, which is sound for
the safety properties; liveness holds even so.

Left out of the modelled components:

- *Extraction*: how floats round, and the single-cursor
  extractors, which are sequential.
- *Lifecycle*: `replay()`, which takes the same path from its own lookup; log
  buffer, snapshots and progress events.
- *Runner*: parameter resolution, semantic hashes, the choice of what is
  cached; loops and calls are processors like any other there and have
  their own module, without retry policies.
- *Node processors*: switch with conditions, sort, sample, unpivot, mapper, math, text, code, HTTP
  and the input and output nodes: one SQL statement or one call each.
- *Load*: write dispositions that `bulk_insert` never asks for, truncate,
  `insert_from_source`, casts.
- *Agent*: messages, titles, budgets, the deletion of a thread, what tools do and
  what the model answers: a plan is whatever kind it may turn out to be.
- *Sessions*: budgets and limits of operations, contents of nodes, the events of
  pending nodes, which nothing reads back.
- *Engines*: host, port and user, which behave like the database; the creation of a
  connection; the disposal of all engines, which only tests call; the metrics.
- *Extract cache*: counts of hits, WAL files, and the mode of a run, which the key leaves out.

Checkpoints are not modelled, as their copies never happen (section 6).  The remaining
components have no behaviour in time of their own.  Accounts, CRUD,
uploads, dead letters of rows and the like are rows written by one request in one
transaction, guarded by the database's own constraints; data pipelines, playground
and drivers move bytes through libraries; the log buffer may lose a line by
design; parameter resolution, hashes, exporters and serializers are pure
conversions whose correctness is in the wording that a model would abstract
away; prompts and tools of the agent follow the answers of a language model; the frontend
keeps nothing that the backend depends on, except for the reader of the event
stream, which is in `DefinitionEvents`.

What comes next, in order:

1. More processors in `NodeTables`: switch with conditions, unpivot, sample.
2. The budgets of the agent (a counter read and raised in two steps) and the last owner of
   an organization (memberships changed by two requests at once).

## 8. Running the checks

```
tlc -config Build_and_queue.cfg MCBuildSession    # PROJECT.json names the module of each run
tlapm ChunkQueueProofs.tla                        # and the seven other proof modules
```
