------------------------- MODULE ExecutionLifecycle -------------------------
(***************************************************************************)
(* The life of a workflow execution in one backend process: the slots of   *)
(* acquire_execution_slot and release_execution_slot                       *)
(* (orchestration/flows/dynamic_runner.py), run() and _run_and_persist()   *)
(* (services/workflow_service.py), the registry of running tasks with its  *)
(* heartbeats (services/execution_registry.py) and the orphan sweep that   *)
(* every process runs when it starts.                                      *)
(*                                                                         *)
(* An execution is awaited by its caller (wait=True: the SSE route and the *)
(* on_finish webhook, which may cancel it) or runs in a background task    *)
(* (everybody else; only a registered task can be cancelled, by the cancel *)
(* endpoint or by the memory monitor).  One action is what a task does     *)
(* between two suspensions; a cancellation strikes at a suspension.        *)
(***************************************************************************)
EXTENDS Integers, FiniteSets

CONSTANTS
    Executions,     \* the calls of run()
    Projects,
    NoProject,      \* workflow.project_id is None
    ProjectOf,      \* the project of each execution, or NoProject
    Awaited,        \* the executions started with wait=True
    GlobalSlots,    \* SHIFT_MAX_CONCURRENT_EXECUTIONS
    ProjectSlots,   \* SHIFT_MAX_CONCURRENT_PER_PROJECT
    MaxCancellations, \* bound of the model: cancellations in one behaviour
    MaxCrashes      \* bound of the model: crashes of the process

ASSUME FiniteAssumption == IsFiniteSet(Executions)
ASSUME ProjectAssumption ==
    NoProject \notin Projects /\ ProjectOf \in [Executions -> Projects \union {NoProject}]
ASSUME AwaitedAssumption == Awaited \subseteq Executions
ASSUME SlotsAssumption == GlobalSlots \in Nat \ {0} /\ ProjectSlots \in Nat \ {0}

VARIABLES
    globalFree,     \* _global_semaphore
    projectFree,    \* _project_semaphores
    place,          \* where each execution is
    ending,         \* how the run ended, while _run_and_persist saves it
    row,            \* status of the row of workflow_executions; "none": no row
    registered,     \* _tasks and _heartbeat_tasks
    stale,          \* rows whose updated_at is older than heartbeat_stale_minutes
    up,             \* the process is alive
    cancellations, crashes

slotVars == <<globalFree, projectFree>>
rowVars == <<row, stale>>
lifecycleVars == <<slotVars, place, ending, rowVars, registered, up, cancellations, crashes>>

-----------------------------------------------------------------------------
\* "created": the task exists and has not taken its first step; "notifying":
\* the final state is committed, the webhook deliveries are being enqueued.
Holding == {"preflight", "created", "running", "persisting", "notifying"}
Waiting == {"global", "project"}
\* "interrupted": ended without persisting; "abandoned": cancelled while it
\* waited for a slot of its project; "vanished": its task was cancelled before
\* its first step, so that no line of it ever ran.
Lost == {"abandoned", "vanished"}
Gone == {"over", "refused", "interrupted", "crashed"} \union Lost

Endings == {"completed", "failed", "aborted", "cancelled"}
StatusOf(o) ==
    CASE o = "completed" -> "COMPLETED"
      [] o = "failed" -> "FAILED"
      [] o = "aborted" -> "ABORTED"
      [] o = "cancelled" -> "CANCELLED"
Final == {"COMPLETED", "FAILED", "ABORTED", "CANCELLED", "CRASHED"}

LifecycleTypeOK ==
    /\ globalFree \in 0..GlobalSlots
    /\ projectFree \in [Projects -> 0..ProjectSlots]
    /\ place \in [Executions -> {"new"} \union Waiting \union Holding \union Gone]
    /\ ending \in [Executions -> {"none"} \union Endings]
    /\ row \in [Executions -> {"none", "RUNNING"} \union Final]
    /\ registered \subseteq Executions \ Awaited
    /\ stale \subseteq Executions
    /\ up \in BOOLEAN
    /\ cancellations \in Nat /\ crashes \in Nat

LifecycleInit ==
    /\ globalFree = GlobalSlots
    /\ projectFree = [p \in Projects |-> ProjectSlots]
    /\ place = [e \in Executions |-> "new"]
    /\ ending = [e \in Executions |-> "none"]
    /\ row = [e \in Executions |-> "none"]
    /\ registered = {}
    /\ stale = {}
    /\ up = TRUE
    /\ cancellations = 0 /\ crashes = 0

Goes(e, to) == place' = [place EXCEPT ![e] = to]
Cancelling == cancellations < MaxCancellations /\ cancellations' = cancellations + 1

-----------------------------------------------------------------------------
(* The slots.  The semaphores serve their waiters in order of arrival; here *)
(* any waiter may be next.                                                  *)

HasProject(e) == ProjectOf[e] # NoProject
ProjectHasRoom(e) == HasProject(e) => projectFree[ProjectOf[e]] > 0

TakesProject(e) ==
    projectFree' = IF HasProject(e) THEN [projectFree EXCEPT ![ProjectOf[e]] = @ - 1]
                   ELSE projectFree

Release_GlobalOnly(e) ==    \* mutant: the slot of the project is kept
    /\ globalFree' = globalFree + 1
    /\ UNCHANGED projectFree
\* release_execution_slot
Release(e) ==
    /\ globalFree' = globalFree + 1
    /\ projectFree' = IF HasProject(e) THEN [projectFree EXCEPT ![ProjectOf[e]] = @ + 1]
                      ELSE projectFree

\* run() up to the slot: no such workflow, or no room left on the disk.
RefusedAtOnce(e) ==
    /\ place[e] = "new" /\ up
    /\ Goes(e, "refused")
    /\ UNCHANGED <<slotVars, ending, rowVars, registered, up, cancellations, crashes>>

WaitsForGlobal(e) ==
    /\ place[e] = "new" /\ up
    /\ globalFree = 0
    /\ Goes(e, "global")
    /\ UNCHANGED <<slotVars, ending, rowVars, registered, up, cancellations, crashes>>

\* With a global slot in hand the execution asks for one of its project, and
\* keeps the global slot while it waits.
TakesGlobal(e) ==
    /\ place[e] \in {"new", "global"} /\ up
    /\ globalFree > 0
    /\ globalFree' = globalFree - 1
    /\ IF ProjectHasRoom(e) THEN TakesProject(e) /\ Goes(e, "preflight")
       ELSE UNCHANGED projectFree /\ Goes(e, "project")
    /\ UNCHANGED <<ending, rowVars, registered, up, cancellations, crashes>>

ProjectSlotReady(e) == ProjectHasRoom(e)

GetsProject(e) ==
    /\ place[e] = "project"
    /\ ProjectSlotReady(e)
    /\ TakesProject(e)
    /\ Goes(e, "preflight")
    /\ UNCHANGED <<globalFree, ending, rowVars, registered, up, cancellations, crashes>>

\* wait_for(...) expires: ConcurrencyLimitError.
GlobalTimesOut(e) ==
    /\ place[e] = "global"
    /\ Goes(e, "refused")
    /\ UNCHANGED <<slotVars, ending, rowVars, registered, up, cancellations, crashes>>

ProjectTimesOut_Never(e) == FALSE /\ UNCHANGED lifecycleVars      \* mutant: no timeout
ProjectTimesOut(e) ==
    /\ place[e] = "project"
    /\ globalFree' = globalFree + 1
    /\ Goes(e, "refused")
    /\ UNCHANGED <<projectFree, ending, rowVars, registered, up, cancellations, crashes>>

-----------------------------------------------------------------------------
(* run() between the slot and the launch *)

\* Variables or connections that do not resolve, a failed commit.
PreflightFails(e) ==
    /\ place[e] = "preflight"
    /\ Release(e)
    /\ Goes(e, "refused")
    /\ UNCHANGED <<ending, rowVars, registered, up, cancellations, crashes>>

\* The row is committed; then, without a suspension, the run starts inline or
\* its task is created, registered with a heartbeat, and made the owner of the
\* slot.
Launches(e) ==
    /\ place[e] = "preflight"
    /\ row' = [row EXCEPT ![e] = "RUNNING"]
    /\ IF e \in Awaited THEN Goes(e, "running") /\ UNCHANGED registered
       ELSE Goes(e, "created") /\ registered' = registered \union {e}
    /\ UNCHANGED <<slotVars, ending, stale, up, cancellations, crashes>>

-----------------------------------------------------------------------------
(* _run_and_persist *)

Begins(e) ==
    /\ place[e] = "created"
    /\ Goes(e, "running")
    /\ UNCHANGED <<slotVars, ending, rowVars, registered, up, cancellations, crashes>>

EndsAs(e, how) ==
    /\ ending' = [ending EXCEPT ![e] = how]
    /\ Goes(e, "persisting")

\* run_workflow returns or raises, or max_execution_time_seconds is over,
\* which counts as a cancellation.
Finishes(e) ==
    /\ place[e] = "running"
    /\ \E how \in Endings : EndsAs(e, how)
    /\ UNCHANGED <<slotVars, rowVars, registered, up, cancellations, crashes>>

Saved_NotIfCancelled(e) ==      \* mutant: a cancelled run saves nothing
    [row EXCEPT ![e] = IF ending[e] = "cancelled" THEN @ ELSE StatusOf(ending[e])]
Saved(e) == [row EXCEPT ![e] = StatusOf(ending[e])]

\* _persist_final_state: whatever the row says by then is overwritten.
Persists(e) ==
    /\ place[e] = "persisting"
    /\ row' = Saved(e)
    /\ ending' = [ending EXCEPT ![e] = "none"]
    /\ stale' = stale \ {e}
    /\ Goes(e, "notifying")
    /\ UNCHANGED <<slotVars, registered, up, cancellations, crashes>>

\* The session raises: the finally of the caller gives the slot back.
PersistFails(e) ==
    /\ place[e] = "persisting"
    /\ Release(e)
    /\ ending' = [ending EXCEPT ![e] = "none"]
    /\ Goes(e, "interrupted")
    /\ UNCHANGED <<rowVars, registered, up, cancellations, crashes>>

Leaves(e) ==
    /\ place[e] = "notifying"
    /\ Release(e)
    /\ Goes(e, "over")
    /\ UNCHANGED <<ending, rowVars, registered, up, cancellations, crashes>>

\* The done callback of the task: unregister, and no more heartbeats.
Unregisters(e) ==
    /\ e \in registered
    /\ place[e] \in Gone
    /\ registered' = registered \ {e}
    /\ UNCHANGED <<slotVars, place, ending, rowVars, up, cancellations, crashes>>

-----------------------------------------------------------------------------
(* Cancellation *)

\* The caller of an awaited execution goes away (SSE) or its 60 s are over
\* (on_finish); a registered task is cancelled by the endpoint or the monitor.
MayBeCancelled(e) ==
    IF e \in Awaited THEN place[e] \in Waiting \union Holding
    ELSE e \in registered /\ place[e] \in Holding

RegistryAfterCancel_Forgets(e) == registered' = registered \ {e}     \* mutant: cancel pops the task
RegistryAfterCancel(e) == UNCHANGED registered

CancelledWaitingGlobal(e) ==
    /\ MayBeCancelled(e) /\ place[e] = "global" /\ Cancelling
    /\ Goes(e, "refused")
    /\ UNCHANGED <<slotVars, ending, rowVars, registered, up, crashes>>

\* Only a timeout gives the global slot back here.
CancelledWaitingProject(e) ==
    /\ MayBeCancelled(e) /\ place[e] = "project" /\ Cancelling
    /\ Goes(e, "abandoned")
    /\ UNCHANGED <<slotVars, ending, rowVars, registered, up, crashes>>

\* A cancellation that strikes during the commit leaves it done or undone.
CancelledInPreflight(e) ==
    /\ MayBeCancelled(e) /\ place[e] = "preflight" /\ Cancelling
    /\ Release(e)
    /\ Goes(e, "interrupted")
    /\ row' \in {row, [row EXCEPT ![e] = "RUNNING"]}
    /\ UNCHANGED <<ending, stale, registered, up, crashes>>

\* The task never starts: neither its finally nor _run_and_persist runs.
CancelledBeforeFirstStep(e) ==
    /\ MayBeCancelled(e) /\ place[e] = "created" /\ Cancelling
    /\ Goes(e, "vanished")
    /\ UNCHANGED <<slotVars, ending, rowVars, registered, up, crashes>>

CancelledRunning(e) ==
    /\ MayBeCancelled(e) /\ place[e] = "running" /\ Cancelling
    /\ EndsAs(e, "cancelled")
    /\ RegistryAfterCancel(e)
    /\ UNCHANGED <<slotVars, rowVars, up, crashes>>

\* The awaits of the finally are not shielded.
CancelledPersisting(e) ==
    /\ MayBeCancelled(e) /\ place[e] = "persisting" /\ Cancelling
    /\ Release(e)
    /\ Goes(e, "interrupted")
    /\ row' \in {row, Saved(e)}
    /\ ending' = [ending EXCEPT ![e] = "none"]
    /\ UNCHANGED <<stale, registered, up, crashes>>

CancelledNotifying(e) ==
    /\ MayBeCancelled(e) /\ place[e] = "notifying" /\ Cancelling
    /\ Release(e)
    /\ Goes(e, "over")
    /\ UNCHANGED <<ending, rowVars, registered, up, crashes>>

GetsCancelled(e) ==
    \/ CancelledWaitingGlobal(e) \/ CancelledWaitingProject(e) \/ CancelledInPreflight(e)
    \/ CancelledBeforeFirstStep(e) \/ CancelledRunning(e)
    \/ CancelledPersisting(e) \/ CancelledNotifying(e)

-----------------------------------------------------------------------------
(* Heartbeats, the orphan sweep, crashes *)

HasHeartbeat(e) == up /\ e \in registered

\* Two minutes without a heartbeat.  A heartbeat beats every 30 s: while it is
\* alive the row is taken to stay fresh.
Ages(e) ==
    /\ row[e] = "RUNNING" /\ e \notin stale
    /\ ~HasHeartbeat(e)
    /\ stale' = stale \union {e}
    /\ UNCHANGED <<slotVars, place, ending, row, registered, up, cancellations, crashes>>

\* cleanup_orphaned_executions
SweepVictims == {e \in Executions : row[e] = "RUNNING" /\ e \in stale}
Sweeps == row' = [e \in Executions |-> IF e \in SweepVictims THEN "CRASHED" ELSE row[e]]

\* Another process on the same database starts.
PeerStarts ==
    /\ Sweeps
    /\ stale' = stale \ SweepVictims
    /\ UNCHANGED <<slotVars, place, ending, registered, up, cancellations, crashes>>

\* The memory of the process is gone, its semaphores with it: what an
\* execution had lost is back.
Crashes ==
    /\ up /\ crashes < MaxCrashes
    /\ crashes' = crashes + 1
    /\ up' = FALSE
    /\ place' = [e \in Executions |->
                IF place[e] \in Waiting \union Holding \union Lost THEN "crashed" ELSE place[e]]
    /\ globalFree' = GlobalSlots
    /\ projectFree' = [p \in Projects |-> ProjectSlots]
    /\ ending' = [e \in Executions |-> "none"]
    /\ registered' = {}
    /\ UNCHANGED <<rowVars, cancellations>>

\* The lifespan of the next process sweeps before it serves anything.
Restarts ==
    /\ ~up
    /\ up' = TRUE
    /\ Sweeps
    /\ stale' = stale \ SweepVictims
    /\ UNCHANGED <<slotVars, place, ending, registered, cancellations, crashes>>

-----------------------------------------------------------------------------
Progress(e) ==
    \/ TakesGlobal(e) \/ GetsProject(e) \/ GlobalTimesOut(e) \/ ProjectTimesOut(e)
    \/ PreflightFails(e) \/ Launches(e) \/ Begins(e) \/ Finishes(e)
    \/ Persists(e) \/ PersistFails(e) \/ Leaves(e) \/ Unregisters(e)

LifecycleNext ==
    \/ \E e \in Executions :
         RefusedAtOnce(e) \/ WaitsForGlobal(e) \/ Progress(e) \/ GetsCancelled(e) \/ Ages(e)
    \/ PeerStarts
    \/ Crashes
    \/ Restarts

\* The event loop runs every task that is ready, the waits time out, and a run
\* ends: it is bounded by max_execution_time_seconds, 3600 s by default.
LifecycleFairness == \A e \in Executions : WF_lifecycleVars(Progress(e))

LifecycleSpec == LifecycleInit /\ [][LifecycleNext]_lifecycleVars /\ LifecycleFairness

-----------------------------------------------------------------------------
(* Safety *)

In(states) == {e \in Executions : place[e] \in states}
InOf(p, states) == {e \in In(states) : ProjectOf[e] = p}

\* Every slot is accounted for: it is free, or in the hands of an execution
\* that holds it (a waiter for its project holds a global one), or it belonged
\* to an execution that was cancelled while it waited for its project or
\* before its first step.  There is no third way to lose one and no way to
\* give one back twice, whichever path run() and its task leave by.
SlotsCounted ==
    /\ globalFree = GlobalSlots - Cardinality(In(Holding \union {"project"} \union Lost))
    /\ \A p \in Projects :
         projectFree[p] = ProjectSlots - Cardinality(InOf(p, Holding \union {"vanished"}))

\* The slots are accounted for, and no semaphore is below zero or above its size.
SlotsAccounted == LifecycleTypeOK /\ SlotsCounted

\* The two limits: never more executions at work than global slots, nor more
\* of one project than slots of a project.
LimitsRespected ==
    /\ Cardinality(In(Holding)) <= GlobalSlots
    /\ \A p \in Projects : Cardinality(InOf(p, Holding)) <= ProjectSlots

\* A row says RUNNING only while somebody will still change it, or when its
\* execution was cut off: by a crash, by a cancellation of the commit or of
\* the final save, by a save that failed, or before its first step.
RunningRowsExplained ==
    \A e \in Executions :
        row[e] = "RUNNING" =>
            place[e] \in {"created", "running", "persisting", "interrupted", "vanished", "crashed"}

\* The status a background execution ends with is never changed again.  For
\* one of those that are still at work it takes their heartbeats: the sweep of
\* another process must not find them, or their own final save would
\* overwrite the CRASHED that users have seen.  (An awaited execution has no
\* heartbeat, and that is what happens to it.)
FinalStatusStays ==
    [][\A e \in Executions \ Awaited : row[e] \in Final => row'[e] = row[e]]_lifecycleVars

-----------------------------------------------------------------------------
(* Liveness *)

\* In the end all slots are free but the ones named above: no execution waits
\* for ever for a slot, and none keeps one.
SlotsComeBack == <>[](globalFree = GlobalSlots - Cardinality(In(Lost)))
=============================================================================
