----------------------------- MODULE SandboxPool -----------------------------
(***************************************************************************)
(* The pool of warm containers of app/services/sandbox/pool.py and its     *)
(* user, _run_user_code_sync of docker_sandbox.py: a client acquires a     *)
(* container, runs one piece of code in it, reads its output once the code *)
(* has ended, and with it the container, and releases it; a release        *)
(* destroys the container and starts a background thread that creates the  *)
(* next one.  A health check replaces idle containers that died.           *)
(*                                                                         *)
(* Docker may fail: to create a container, or only to attach to it or to   *)
(* start it once it is there; to kill or remove one, an error that         *)
(* destroy_warm_container swallows; to answer for one.                     *)
(*                                                                         *)
(* One action is one critical section of the pool's lock, or one call to   *)
(* docker made outside it.                                                 *)
(***************************************************************************)
EXTENDS Naturals, FiniteSets

CONSTANTS
    Clients,        \* threads that run user code
    Containers,     \* every container that may ever be created (bound of the model)
    TargetIdle,     \* target_idle
    Max,            \* max_size
    MaxTroubles,    \* bound of the model: failures of docker and containers that
                    \* die while idle, in one behaviour
    NoContainer

ASSUME SizesAssumption == TargetIdle \in Nat /\ Max \in Nat /\ TargetIdle <= Max
ASSUME NoContainerAssumption == NoContainer \notin Containers

VARIABLES
    idle,           \* _idle; the order does not matter
    busy,           \* _busy_ids
    spawning,       \* _spawning
    stopped,        \* _stop_event
    warming,        \* pre-warm threads of start() still running
    background,     \* threads in _spawn_replenish
    at, hand,       \* where each client is, and the container in its hands
    check,          \* where the health check is
    listed,         \* current_idle: those that were idle when it began
    suspects, dead, \* those of them it has still to look at, and those found dead
    silent,         \* history: those of them that docker did not answer for
    snapshot,       \* idle containers stop() took and has not destroyed yet
    abandoned,      \* history: found dead, and forgotten when stop() interrupted
                    \* the health check
    lost,           \* history: not removed by docker, or left behind by a creation
                    \* that failed
    state,          \* docker's view of each container: down when it runs no more,
                    \* or was never started
    troubles

clientVars == <<at, hand>>
checkVars == <<check, listed, suspects, dead, silent>>
dockerVars == <<state, lost, troubles>>
poolVars == <<idle, busy, spawning, stopped, warming, background, clientVars, checkVars,
              snapshot, abandoned, dockerVars>>

ClientPlaces == {"out", "sleeps", "woken", "creates", "uses", "reads", "destroys", "refills"}

PoolTypeOK ==
    /\ idle \subseteq Containers /\ busy \subseteq Containers
    /\ spawning \in Nat /\ background \in Nat /\ warming \in 0..TargetIdle
    /\ stopped \in BOOLEAN
    /\ at \in [Clients -> ClientPlaces]
    /\ hand \in [Clients -> Containers \union {NoContainer}]
    /\ check \in {"rests", "looks", "destroys", "decides", "creates"}
    /\ listed \subseteq Containers /\ silent \subseteq Containers
    /\ suspects \subseteq Containers /\ dead \subseteq Containers
    /\ snapshot \subseteq Containers /\ abandoned \subseteq Containers
    /\ lost \subseteq Containers
    /\ state \in [Containers -> {"unborn", "up", "down", "gone"}]
    /\ troubles \in Nat

PoolInit ==
    /\ idle = {} /\ busy = {} /\ spawning = 0 /\ background = 0 /\ stopped = FALSE
    /\ warming = TargetIdle
    /\ at = [c \in Clients |-> "out"] /\ hand = [c \in Clients |-> NoContainer]
    /\ check = "rests" /\ listed = {} /\ suspects = {} /\ dead = {} /\ silent = {}
    /\ snapshot = {} /\ abandoned = {} /\ lost = {}
    /\ state = [k \in Containers |-> "unborn"]
    /\ troubles = 0

-----------------------------------------------------------------------------
Trouble == troubles < MaxTroubles /\ troubles' = troubles + 1

\* create_warm_container
New(k, s) ==
    LET Unborn == {c \in Containers : state[c] = "unborn"}
    IN  Unborn # {} /\ k = (CHOOSE c \in Unborn : TRUE) /\ state' = [state EXCEPT ![k] = s]

Starts(k) == New(k, "up") /\ UNCHANGED <<lost, troubles>>

\* A container that nobody has got the handle of, or whose removal failed.
LeavesStray == Trouble /\ \E k \in Containers : New(k, "down") /\ lost' = lost \union {k}

CannotStart == LeavesStray \/ (Trouble /\ UNCHANGED <<state, lost>>)

\* destroy_warm_container; after an error docker still has the container, killed or not.
Destroys(k) ==
    \/ state' = [state EXCEPT ![k] = "gone"] /\ UNCHANGED <<lost, troubles>>
    \/ /\ Trouble /\ state[k] # "gone"
       /\ state' \in {state, [state EXCEPT ![k] = "down"]}
       /\ lost' = lost \union {k}

Sleepers == {c \in Clients : at[c] = "sleeps"}

\* _idle.append(wc) and one notify.
Stocks(k) ==
    /\ idle' = idle \union {k}
    /\ \/ Sleepers = {} /\ UNCHANGED at
       \/ \E c \in Sleepers : at' = [at EXCEPT ![c] = "woken"]
    /\ UNCHANGED hand

Delivers_EvenStopped ==       \* mutant: the event is not looked at again
    \E k \in Containers : Starts(k) /\ Stocks(k)

\* The end of a creation in the background: the container joins the idle ones,
\* unless the pool was stopped: then it is destroyed at once, or docker keeps it.
Delivers ==
    \/ ~stopped /\ \E k \in Containers : Starts(k) /\ Stocks(k)
    \/ stopped /\ (LeavesStray \/ UNCHANGED dockerVars) /\ UNCHANGED <<idle, clientVars>>

-----------------------------------------------------------------------------
(* start(): clients find the pool once its threads are joined *)

Ready == warming = 0

Warms ==
    /\ warming > 0
    /\ warming' = warming - 1
    /\ Delivers \/ (CannotStart /\ UNCHANGED <<idle, clientVars>>)
    /\ UNCHANGED <<busy, spawning, stopped, background, checkVars, snapshot, abandoned>>

-----------------------------------------------------------------------------
(* acquire() *)

Proceeds(c, place) == at' = [at EXCEPT ![c] = place]

\* A client enters the loop, or a wait with something to look at returns to it.
Looks(c) == Ready /\ at[c] \in {"out", "woken"}

\* NoContainer: the caller creates a container of its own, outside the pool.
TurnedAway(c) ==
    /\ Looks(c) /\ at[c] = "woken" /\ stopped
    /\ Proceeds(c, "out")
    /\ UNCHANGED <<idle, busy, spawning, stopped, warming, background, hand, checkVars,
                   snapshot, abandoned, dockerVars>>

TakesIdle_Peeks(c) ==      \* mutant: the container stays in the deque
    /\ Looks(c) /\ ~stopped
    /\ \E k \in idle :
        /\ busy' = busy \union {k}
        /\ hand' = [hand EXCEPT ![c] = k]
    /\ Proceeds(c, "uses")
    /\ UNCHANGED <<idle, spawning, stopped, warming, background, checkVars,
                   snapshot, abandoned, dockerVars>>

TakesIdle(c) ==
    /\ Looks(c) /\ ~stopped
    /\ \E k \in idle :
        /\ idle' = idle \ {k}
        /\ busy' = busy \union {k}
        /\ hand' = [hand EXCEPT ![c] = k]
    /\ Proceeds(c, "uses")
    /\ UNCHANGED <<spawning, stopped, warming, background, checkVars,
                   snapshot, abandoned, dockerVars>>

HasRoom == Cardinality(idle) + Cardinality(busy) + spawning < Max

StartsCreating(c) ==
    /\ Looks(c) /\ ~stopped /\ idle = {} /\ HasRoom
    /\ spawning' = spawning + 1
    /\ Proceeds(c, "creates")
    /\ UNCHANGED <<idle, busy, stopped, warming, background, hand, checkVars,
                   snapshot, abandoned, dockerVars>>

Sleeps(c) ==
    /\ Looks(c) /\ ~stopped /\ idle = {} /\ ~HasRoom
    /\ Proceeds(c, "sleeps")
    /\ UNCHANGED <<idle, busy, spawning, stopped, warming, background, hand, checkVars,
                   snapshot, abandoned, dockerVars>>

\* cond.wait gives up; a notify that comes just then is lost with it.
WaitExpires(c) ==
    /\ at[c] \in {"sleeps", "woken"}
    /\ Proceeds(c, "out")
    /\ UNCHANGED <<idle, busy, spawning, stopped, warming, background, hand, checkVars,
                   snapshot, abandoned, dockerVars>>

CreatesOwn(c) ==
    /\ at[c] = "creates"
    /\ spawning' = spawning - 1
    /\ \E k \in Containers :
        /\ Starts(k)
        /\ busy' = busy \union {k}
        /\ hand' = [hand EXCEPT ![c] = k]
    /\ Proceeds(c, "uses")
    /\ UNCHANGED <<idle, stopped, warming, background, checkVars, snapshot, abandoned>>

CreationFails(c) ==
    /\ at[c] = "creates"
    /\ CannotStart
    /\ spawning' = spawning - 1
    /\ Proceeds(c, "out")
    /\ UNCHANGED <<idle, busy, stopped, warming, background, hand, checkVars,
                   snapshot, abandoned>>

-----------------------------------------------------------------------------
(* release() *)

\* wait() returns: the container has exited, and what it wrote can be read.
CodeEnds(c) ==
    /\ at[c] = "uses" /\ state[hand[c]] # "gone"
    /\ state' = [state EXCEPT ![hand[c]] = "down"]
    /\ Proceeds(c, "reads")
    /\ UNCHANGED <<idle, busy, spawning, stopped, warming, background, hand, checkVars,
                   snapshot, abandoned, lost, troubles>>

\* With the output, or without: the code timed out, or docker failed.
Releases(c) ==
    /\ at[c] \in {"uses", "reads"}
    /\ busy' = busy \ {hand[c]}
    /\ Proceeds(c, "destroys")
    /\ UNCHANGED <<idle, spawning, stopped, warming, background, hand, checkVars,
                   snapshot, abandoned, dockerVars>>

\* The event is looked at outside the lock.
DestroysOwn(c) ==
    /\ at[c] = "destroys"
    /\ Destroys(hand[c])
    /\ hand' = [hand EXCEPT ![c] = NoContainer]
    /\ Proceeds(c, IF stopped THEN "out" ELSE "refills")
    /\ UNCHANGED <<idle, busy, spawning, stopped, warming, background, checkVars,
                   snapshot, abandoned>>

Deficit == Cardinality(idle) + spawning < TargetIdle

Refills(c) ==
    /\ at[c] = "refills"
    /\ IF Deficit THEN spawning' = spawning + 1 /\ background' = background + 1
                  ELSE UNCHANGED <<spawning, background>>
    /\ Proceeds(c, "out")
    /\ UNCHANGED <<idle, busy, stopped, warming, hand, checkVars,
                   snapshot, abandoned, dockerVars>>

\* _spawn_replenish
Replenishes ==
    /\ background > 0
    /\ background' = background - 1
    /\ spawning' = spawning - 1
    /\ Delivers \/ (CannotStart /\ UNCHANGED <<idle, clientVars>>)
    /\ UNCHANGED <<busy, stopped, warming, checkVars, snapshot, abandoned>>

-----------------------------------------------------------------------------
(* The health check *)

BeginsCheck ==
    /\ Ready /\ check = "rests" /\ ~stopped
    /\ check' = "looks" /\ listed' = idle /\ suspects' = idle /\ dead' = {} /\ silent' = {}
    /\ UNCHANGED <<idle, busy, spawning, stopped, warming, background, clientVars,
                   snapshot, abandoned, dockerVars>>

LooksAt_Always(k) ==        \* mutant: compared with a status docker never reports
    /\ check = "looks" /\ k \in suspects
    /\ suspects' = suspects \ {k} /\ dead' = dead \union {k}
    /\ UNCHANGED <<idle, busy, spawning, stopped, warming, background, clientVars, check,
                   listed, silent, snapshot, abandoned, dockerVars>>

\* _is_running, without the lock; no answer counts as dead.
LooksAt(k) ==
    /\ check = "looks" /\ k \in suspects
    /\ suspects' = suspects \ {k}
    /\ \/ /\ dead' = IF state[k] = "up" THEN dead ELSE dead \union {k}
          /\ UNCHANGED <<silent, troubles>>
       \/ Trouble /\ silent' = silent \union {k} /\ dead' = dead \union {k}
    /\ UNCHANGED <<idle, busy, spawning, stopped, warming, background, clientVars, check,
                   listed, snapshot, abandoned, state, lost>>

\* _healthcheck_once returns, and its variables are gone.
Returns == check' = "rests" /\ listed' = {} /\ dead' = {} /\ silent' = {}

NextDead ==
    IF dead = {} THEN Returns ELSE check' = "destroys" /\ UNCHANGED <<listed, dead, silent>>

EndsLook ==
    /\ check = "looks" /\ suspects = {}
    /\ idle' = idle \ dead
    /\ NextDead
    /\ UNCHANGED <<busy, spawning, stopped, warming, background, clientVars, suspects,
                   snapshot, abandoned, dockerVars>>

\* Destroyed even when a client took it since the look.
DestroysDead(k) ==
    /\ check = "destroys" /\ k \in dead
    /\ Destroys(k)
    /\ dead' = dead \ {k}
    /\ check' = "decides"
    /\ UNCHANGED <<idle, busy, spawning, stopped, warming, background, clientVars, listed,
                   suspects, silent, snapshot, abandoned>>

\* The return inside the loop: what is left of the list is forgotten.
Forgets == Returns /\ abandoned' = abandoned \union dead

Decides ==
    /\ check = "decides"
    /\ \/ stopped /\ Forgets /\ UNCHANGED spawning
       \/ ~stopped /\ ~Deficit /\ NextDead /\ UNCHANGED <<spawning, abandoned>>
       \/ ~stopped /\ Deficit /\ check' = "creates" /\ spawning' = spawning + 1
            /\ UNCHANGED <<abandoned, listed, dead, silent>>
    /\ UNCHANGED <<idle, busy, stopped, warming, background, clientVars, suspects,
                   snapshot, dockerVars>>

Replaces ==
    /\ check = "creates"
    /\ spawning' = spawning - 1
    /\ \/ /\ Delivers
          /\ IF stopped THEN Forgets ELSE NextDead /\ UNCHANGED abandoned
       \/ CannotStart /\ NextDead /\ UNCHANGED <<idle, clientVars, abandoned>>
    /\ UNCHANGED <<busy, stopped, warming, background, suspects, snapshot>>

-----------------------------------------------------------------------------
(* stop(), and the containers themselves *)

StopsPool ==
    /\ Ready /\ ~stopped
    /\ stopped' = TRUE
    /\ at' = [c \in Clients |-> IF c \in Sleepers THEN "woken" ELSE at[c]]
    /\ snapshot' = idle /\ idle' = {}
    /\ UNCHANGED <<busy, spawning, warming, background, hand, checkVars,
                   abandoned, dockerVars>>

DestroysSnapshot(k) ==
    /\ k \in snapshot
    /\ Destroys(k)
    /\ snapshot' = snapshot \ {k}
    /\ UNCHANGED <<idle, busy, spawning, stopped, warming, background, clientVars, checkVars,
                   abandoned>>

\* An idle container exits; one in use does when its code ends.
Dies(k) ==
    /\ state[k] = "up" /\ k \in idle
    /\ Trouble
    /\ state' = [state EXCEPT ![k] = "down"]
    /\ UNCHANGED <<idle, busy, spawning, stopped, warming, background, clientVars, checkVars,
                   snapshot, abandoned, lost>>

-----------------------------------------------------------------------------
Acquire(c) == TakesIdle(c) \/ StartsCreating(c) \/ Sleeps(c)
Finish(c) ==
    TurnedAway(c) \/ WaitExpires(c) \/ CreatesOwn(c) \/ CreationFails(c)
        \/ CodeEnds(c) \/ Releases(c) \/ DestroysOwn(c) \/ Refills(c)
Check == (\E k \in Containers : LooksAt(k) \/ DestroysDead(k)) \/ EndsLook \/ Decides \/ Replaces

PoolNext ==
    \/ \E c \in Clients : Acquire(c) \/ Finish(c)
    \/ Warms \/ Replenishes
    \/ BeginsCheck \/ Check
    \/ StopsPool
    \/ \E k \in Containers : DestroysSnapshot(k) \/ Dies(k)

\* Threads run on and user code has a timeout; nobody has to come for a
\* container, to check, to stop or to die.
PoolFairness ==
    /\ \A c \in Clients : WF_poolVars(Finish(c))
    /\ WF_poolVars(Warms) /\ WF_poolVars(Replenishes) /\ WF_poolVars(Check)
    /\ WF_poolVars(\E k \in Containers : DestroysSnapshot(k))

PoolSpec == PoolInit /\ [][PoolNext]_poolVars /\ PoolFairness

-----------------------------------------------------------------------------
(* Safety *)

Creating == {c \in Clients : at[c] = "creates"}
Replacing == IF check = "creates" THEN 1 ELSE 0

\* The counters on which capacity is decided agree with the threads, on every
\* path: success, failed creation, a stop in between.
CountersExact ==
    /\ spawning = Cardinality(Creating) + background + Replacing
    /\ busy = {hand[c] : c \in {d \in Clients : at[d] \in {"uses", "reads"}}}

\* Releases, health check and pre-warm never stock more than target_idle
\* containers together ("nao ultrapassar target").
IdleBounded == Cardinality(idle) + background + Replacing + warming <= TargetIdle

Held == {c \in Clients : at[c] \in {"uses", "reads", "destroys"}}

\* Two clients never share a container, and it leaves the pool before it is used.
OneUserEach ==
    /\ \A c, d \in Held : hand[c] = hand[d] => c = d
    /\ \A c \in Held : hand[c] \notin idle

InUse(k) == \E c \in Clients : at[c] \in {"uses", "reads"} /\ hand[c] = k

\* A container is destroyed by its user, who is done with it; by stop(), while
\* nobody has it; or by the health check, if it was idle when the check began and
\* does not run any more, or docker did not answer for it.  A client may have
\* taken such a container since, have run its code in it, and lose the output:
\* that is the one way, and a client that already had its container when the
\* check began is not exposed to it.
OnlyUserDestroys ==
    [][\A k \in Containers : state[k] # "gone" /\ state'[k] = "gone" =>
            \/ \E c \in Clients : at[c] = "destroys" /\ hand[c] = k
            \/ k \in snapshot /\ ~InUse(k)
            \/ k \in listed /\ (state[k] = "down" \/ k \in silent)]_poolVars

\* Every container that docker still has is in somebody's care, except those
\* that a stop made the health check forget, that docker failed to remove, or
\* that a failed creation left behind.
NoneForgotten ==
    \A k \in Containers : state[k] \in {"up", "down"} =>
        \/ k \in idle \union snapshot \union abandoned \union lost
        \/ check # "looks" /\ k \in dead
        \/ \E c \in Held : hand[c] = k

\* What the pool believes of its containers is what they are.
OwnersExact == PoolTypeOK /\ CountersExact /\ IdleBounded /\ OneUserEach /\ NoneForgotten

-----------------------------------------------------------------------------
(* Liveness *)

\* After a stop the pool ends up empty ("kill+remove tudo"), but for those.
StopEmpties ==
    []<>(stopped => \A k \in Containers :
            state[k] \in {"unborn", "gone"} \/ k \in abandoned \union lost)
=============================================================================
