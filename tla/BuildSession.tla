----------------------------- MODULE BuildSession -----------------------------
(***************************************************************************)
(* The definition of one workflow and those who write it: the build        *)
(* sessions of the Platform Agent (services/build_session_service.py,      *)
(* endpoints in api/v1/workflow_build.py), which keep proposed nodes and   *)
(* edges in memory until a user confirms them, the undo of a confirmed     *)
(* session, the agent's write tools (workflow_write_tools.py), and the PUT *)
(* of the workflow's variables (api/v1/workflows_crud.py).                 *)
(*                                                                         *)
(* The asyncio lock of the service never spans an await, so what runs      *)
(* under it is one step; a confirm takes three of them and a transaction   *)
(* between.  Transactions read the committed definition; FOR UPDATE and an *)
(* UPDATE wait for the row.  Whoever follows the event stream of the       *)
(* workflow knows the definition only by its events.                       *)
(***************************************************************************)
EXTENDS Naturals, FiniteSets

CONSTANTS
    Sessions,
    Clients,        \* requests that take more than one step
    Node,           \* the ids that uuid4 can give to nodes
    Edge,           \* the edges that can be drawn, <<source, target>>: one id for each
    Drawn,          \* the nodes of the definition at the beginning
    NoClient,
    MaxFaults,      \* bound of the model: failed transactions, restarts
    MaxOthers       \* bound of the model: calls of the write tools, PUTs

ASSUME IdsAssumption == Edge \subseteq Node \X Node /\ Drawn \subseteq Node
ASSUME ClientAssumption == NoClient \notin Clients
ASSUME BoundsAssumption == MaxFaults \in Nat /\ MaxOthers \in Nat

VARIABLES
    def,            \* the committed definition: copies of each node and edge in it
    told,           \* the definition as the published events add it up
    overwritten,    \* some write has put back an older definition
    row,            \* the client that holds the lock of the workflow's row
    sessions,       \* _sessions: the ids it holds
    confirmed,      \* sessions marked confirmed
    expired,        \* sessions older than their TTL
    pendingNodes,   \* pending_nodes of each session
    pendingEdges,   \* pending_edges of each session
    made,           \* every node id a session has given out
    usedNodes, usedEdges, usedSessions,   \* the ids that uuid4 has given so far
    cached,         \* sessions with a result under their Idempotency-Key
    announced,      \* sessions with a build_confirmed event
    client,         \* what each client is doing
    faults, others  \* for the bounds only

defVars == <<def, told, overwritten>>
memoryVars == <<sessions, confirmed, expired, pendingNodes, pendingEdges, made>>
bounds == <<faults, others>>
idVars == <<usedNodes, usedEdges, usedSessions>>
vars == <<defVars, row, memoryVars, idVars, cached, announced, client, bounds>>

Definition == [nodes : [Node -> Nat], edges : [Edge -> Nat]]
Present(f) == {x \in DOMAIN f : f[x] > 0}

Plus(f, S) == [x \in DOMAIN f |-> IF x \in S THEN f[x] + 1 ELSE f[x]]
Less(f, S) == [x \in DOMAIN f |-> IF x \in S THEN 0 ELSE f[x]]
Adding(d, N, E) == [nodes |-> Plus(d.nodes, N), edges |-> Plus(d.edges, E)]
Removing(d, N, E) == [nodes |-> Less(d.nodes, N), edges |-> Less(d.edges, E)]
Touching(N) == {e \in Edge : e[1] \in N \/ e[2] \in N}

NewNode(n) ==
    /\ n \notin usedNodes /\ usedNodes' = usedNodes \cup {n}
    /\ UNCHANGED <<usedEdges, usedSessions>>
NewEdge(e) ==
    /\ e \notin usedEdges /\ usedEdges' = usedEdges \cup {e}
    /\ UNCHANGED <<usedNodes, usedSessions>>

\* The node ids a caller of a session can name: those it was given (a temp_id
\* resolves for ever, also to a node removed since) and those of the workflow.
Nameable(s) == made[s] \cup Drawn
IsActive(s) == s \in sessions /\ s \notin confirmed /\ s \notin expired

Idle == [at |-> "idle"]
InTransaction == {"confirming", "undoing"}
Requests ==
    {Idle}
    \cup [at : {"confirm"}, session : Sessions, key : BOOLEAN,
          nodes : SUBSET Node, edges : SUBSET Edge]
    \cup [at : {"confirming"}, session : Sessions, key : BOOLEAN,
          nodes : SUBSET Node, edges : SUBSET Edge, read : Definition]
    \cup [at : {"mark"}, session : Sessions, key : BOOLEAN]
    \cup [at : {"undo"}, session : Sessions, nodes : SUBSET Node, edges : SUBSET Edge]
    \cup [at : {"undoing"}, session : Sessions, nodes : SUBSET Node,
          edges : SUBSET Edge, read : Definition]
    \cup [at : {"put"}, read : Definition]

\* The state has its type, and a client holds the row in its transaction and no
\* longer, however it ends.
TypeOK ==
    /\ def \in Definition /\ told \in Definition
    /\ overwritten \in BOOLEAN
    /\ sessions \subseteq Sessions /\ confirmed \subseteq sessions
    /\ expired \subseteq sessions
    /\ pendingNodes \in [Sessions -> SUBSET Node]
    /\ pendingEdges \in [Sessions -> SUBSET Edge]
    /\ made \in [Sessions -> SUBSET Node]
    /\ usedNodes \subseteq Node /\ usedEdges \subseteq Edge
    /\ usedSessions \subseteq Sessions
    /\ cached \subseteq Sessions /\ announced \subseteq Sessions
    /\ client \in [Clients -> Requests]
    /\ row \in Clients \cup {NoClient}
    /\ \A c \in Clients : client[c].at \in InTransaction <=> row = c
    /\ faults \in 0..MaxFaults /\ others \in 0..MaxOthers

Empty == [nodes |-> [n \in Node |-> IF n \in Drawn THEN 1 ELSE 0],
          edges |-> [e \in Edge |-> 0]]

Init ==
    /\ def = Empty /\ told = Empty /\ overwritten = FALSE
    /\ row = NoClient
    /\ sessions = {} /\ confirmed = {} /\ expired = {}
    /\ pendingNodes = [s \in Sessions |-> {}]
    /\ pendingEdges = [s \in Sessions |-> {}]
    /\ made = [s \in Sessions |-> {}]
    /\ usedNodes = Drawn /\ usedEdges = {} /\ usedSessions = {}
    /\ cached = {} /\ announced = {}
    /\ client = [c \in Clients |-> Idle]
    /\ faults = 0 /\ others = 0

-----------------------------------------------------------------------------
(* A session in memory.                                                    *)

Create(s) ==
    /\ s \notin usedSessions /\ usedSessions' = usedSessions \cup {s}
    /\ sessions' = sessions \cup {s}
    /\ UNCHANGED <<defVars, row, confirmed, expired, pendingNodes, pendingEdges, made,
                   usedNodes, usedEdges, cached, announced, client, bounds>>

AddPendingNode(s, n) ==
    /\ IsActive(s) /\ NewNode(n)
    /\ pendingNodes' = [pendingNodes EXCEPT ![s] = @ \cup {n}]
    /\ made' = [made EXCEPT ![s] = @ \cup {n}]
    /\ UNCHANGED <<defVars, row, sessions, confirmed, expired, pendingEdges, cached,
                   announced, client, bounds>>

AddPendingEdge(s, e) ==
    /\ IsActive(s) /\ NewEdge(e) /\ {e[1], e[2]} \subseteq Nameable(s)
    /\ pendingEdges' = [pendingEdges EXCEPT ![s] = @ \cup {e}]
    /\ UNCHANGED <<defVars, row, sessions, confirmed, expired, pendingNodes, made, cached,
                   announced, client, bounds>>

RemovePendingNode(s, n) ==
    /\ IsActive(s) /\ n \in pendingNodes[s]
    /\ pendingNodes' = [pendingNodes EXCEPT ![s] = @ \ {n}]
    /\ pendingEdges' = [pendingEdges EXCEPT ![s] = @ \ Touching({n})]
    /\ UNCHANGED <<defVars, row, sessions, confirmed, expired, made, idVars, cached, announced,
                   client, bounds>>

RemovePendingEdge(s, e) ==
    /\ IsActive(s) /\ e \in pendingEdges[s]
    /\ pendingEdges' = [pendingEdges EXCEPT ![s] = @ \ {e}]
    /\ UNCHANGED <<defVars, row, sessions, confirmed, expired, pendingNodes, made, idVars, cached,
                   announced, client, bounds>>

\* The clock passes the TTL of the session, the session stays where it is.
Expire(s) ==
    /\ s \in sessions \ expired
    /\ expired' = expired \cup {s}
    /\ UNCHANGED <<defVars, row, sessions, confirmed, pendingNodes, pendingEdges, made, idVars,
                   cached, announced, client, bounds>>

Forget(s) ==
    /\ sessions' = sessions \ {s}
    /\ confirmed' = confirmed \ {s}
    /\ expired' = expired \ {s}
    /\ pendingNodes' = [pendingNodes EXCEPT ![s] = {}]
    /\ pendingEdges' = [pendingEdges EXCEPT ![s] = {}]
    /\ UNCHANGED <<defVars, row, made, idVars, cached, announced, client, bounds>>

\* get() of any endpoint, cleanup_expired()
Purge(s) == s \in expired /\ Forget(s)

Cancel(s) == s \in sessions /\ Forget(s)

-----------------------------------------------------------------------------
(* confirm().  A call whose key has a result is answered with it.          *)

ConfirmSnapshot(c, s, key) ==
    /\ client[c] = Idle
    /\ ~(key /\ s \in cached)
    /\ s \in sessions /\ s \notin expired
    /\ client' = [client EXCEPT ![c] =
           [at |-> "confirm", session |-> s, key |-> key,
            nodes |-> pendingNodes[s], edges |-> pendingEdges[s]]]
    /\ UNCHANGED <<defVars, row, memoryVars, idVars, cached, announced, bounds>>

\* Mutant: the row is read without FOR UPDATE.
ConfirmLock_NoForUpdate(c) ==
    /\ client[c].at = "confirm"
    /\ client' = [client EXCEPT ![c] =
           [at |-> "confirming", session |-> @.session, key |-> @.key,
            nodes |-> @.nodes, edges |-> @.edges, read |-> def]]
    /\ UNCHANGED <<defVars, row, memoryVars, idVars, cached, announced, bounds>>

ConfirmLock(c) ==
    /\ client[c].at = "confirm"
    /\ row = NoClient /\ row' = c
    /\ client' = [client EXCEPT ![c] =
           [at |-> "confirming", session |-> @.session, key |-> @.key,
            nodes |-> @.nodes, edges |-> @.edges, read |-> def]]
    /\ UNCHANGED <<defVars, memoryVars, idVars, cached, announced, bounds>>

\* What a confirm adds to the definition it has read.
AddedNodes_All(r) == r.nodes   \* mutant: nothing is skipped
AddedNodes(r) == r.nodes \ Present(r.read.nodes)
AddedEdges(r) == r.edges \ Present(r.read.edges)

ConfirmCommit(c) ==
    LET r == client[c] IN
    /\ r.at = "confirming"
    /\ def' = Adding(r.read, AddedNodes(r), AddedEdges(r))
    /\ told' = Adding(told, AddedNodes(r), AddedEdges(r))
    /\ announced' = announced \cup {r.session}
    /\ row' = NoClient
    /\ client' = [client EXCEPT ![c] =
           [at |-> "mark", session |-> r.session, key |-> r.key]]
    /\ UNCHANGED <<overwritten, memoryVars, idVars, cached, bounds>>

Fault == faults < MaxFaults /\ faults' = faults + 1 /\ UNCHANGED others

\* Mutant: the exception is not raised again.
ConfirmFail_Swallowed(c) ==
    /\ client[c].at = "confirming" /\ Fault
    /\ row' = NoClient
    /\ client' = [client EXCEPT ![c] = [at |-> "mark", session |-> @.session, key |-> @.key]]
    /\ UNCHANGED <<defVars, memoryVars, idVars, cached, announced>>

\* The flush, an event or the commit fails: rollback, build_failed, the session
\* stays as it is for another try.
ConfirmFail(c) ==
    /\ client[c].at = "confirming" /\ Fault
    /\ row' = NoClient
    /\ client' = [client EXCEPT ![c] = Idle]
    /\ UNCHANGED <<defVars, memoryVars, idVars, cached, announced>>

ConfirmMark(c) ==
    LET r == client[c] IN
    /\ r.at = "mark"
    /\ confirmed' = confirmed \cup ({r.session} \cap sessions)
    /\ cached' = IF r.key THEN cached \cup {r.session} ELSE cached
    /\ client' = [client EXCEPT ![c] = Idle]
    /\ UNCHANGED <<defVars, row, sessions, expired, pendingNodes, pendingEdges, made, idVars,
                   announced, bounds>>

KeyExpires(s) ==
    /\ s \in cached
    /\ cached' = cached \ {s}
    /\ UNCHANGED <<defVars, row, memoryVars, idVars, announced, client, bounds>>

-----------------------------------------------------------------------------
(* The undo of a confirmed session, which stays confirmed.                 *)

UndoGet(c, s) ==
    /\ client[c] = Idle
    /\ s \in confirmed /\ s \notin expired
    /\ client' = [client EXCEPT ![c] =
           [at |-> "undo", session |-> s,
            nodes |-> pendingNodes[s], edges |-> pendingEdges[s]]]
    /\ UNCHANGED <<defVars, row, memoryVars, idVars, cached, announced, bounds>>

UndoLock(c) ==
    /\ client[c].at = "undo"
    /\ row = NoClient /\ row' = c
    /\ client' = [client EXCEPT ![c] =
           [at |-> "undoing", session |-> @.session,
            nodes |-> @.nodes, edges |-> @.edges, read |-> def]]
    /\ UNCHANGED <<defVars, memoryVars, idVars, cached, announced, bounds>>

GoneNodes(r) == r.nodes \cap Present(r.read.nodes)
GoneEdges(r) == (r.edges \cup Touching(GoneNodes(r))) \cap Present(r.read.edges)

UndoCommit(c) ==
    LET r == client[c] IN
    /\ r.at = "undoing"
    /\ def' = Removing(r.read, GoneNodes(r), GoneEdges(r))
    /\ told' = Removing(told, GoneNodes(r), GoneEdges(r))
    /\ row' = NoClient
    /\ client' = [client EXCEPT ![c] = Idle]
    /\ UNCHANGED <<overwritten, memoryVars, idVars, cached, announced, bounds>>

UndoFail(c) ==
    /\ client[c].at = "undoing" /\ Fault
    /\ row' = NoClient
    /\ client' = [client EXCEPT ![c] = Idle]
    /\ UNCHANGED <<defVars, memoryVars, idVars, cached, announced>>

-----------------------------------------------------------------------------
(* The agent's write tools: a transaction each, under the lock of the row  *)
(* from its first read to its commit.                                      *)

Other == others < MaxOthers /\ others' = others + 1 /\ UNCHANGED faults

Writes(newDef, newTold) ==
    /\ Other
    /\ row = NoClient
    /\ def' = newDef /\ told' = newTold
    /\ UNCHANGED <<overwritten, row, memoryVars, cached, announced, client>>

ToolAddNode(n) ==
    NewNode(n) /\ Writes(Adding(def, {n}, {}), Adding(told, {n}, {}))

ToolAddEdge(e) ==
    /\ NewEdge(e) /\ {e[1], e[2]} \subseteq Present(def.nodes) /\ e[1] # e[2]
    /\ Writes(Adding(def, {}, {e}), Adding(told, {}, {e}))

\* one event, with the node and the edges that go with it
ToolRemoveNode(n) ==
    LET lost == Touching({n}) \cap Present(def.edges) IN
    /\ n \in Present(def.nodes)
    /\ UNCHANGED idVars
    /\ Writes(Removing(def, {n}, lost), Removing(told, {n}, lost))

ToolRemoveEdge(e) ==
    /\ e \in Present(def.edges)
    /\ UNCHANGED idVars
    /\ Writes(Removing(def, {}, {e}), Removing(told, {}, {e}))

(* The PUT of the variables reads the whole definition without the lock,   *)
(* replaces the variables in it and writes it, without an event.           *)

PutRead(c) ==
    /\ client[c] = Idle /\ Other
    /\ client' = [client EXCEPT ![c] = [at |-> "put", read |-> def]]
    /\ UNCHANGED <<defVars, row, memoryVars, idVars, cached, announced>>

PutWrite(c) ==
    /\ client[c].at = "put" /\ row = NoClient
    /\ def' = client[c].read
    /\ overwritten' = (overwritten \/ def' # def)
    /\ client' = [client EXCEPT ![c] = Idle]
    /\ UNCHANGED <<told, row, memoryVars, idVars, cached, announced, bounds>>

\* The process stops and starts again: its memory is empty, its transactions
\* are rolled back.
Restart ==
    /\ Fault
    /\ sessions' = {} /\ confirmed' = {} /\ expired' = {} /\ cached' = {}
    /\ pendingNodes' = [s \in Sessions |-> {}]
    /\ pendingEdges' = [s \in Sessions |-> {}]
    /\ row' = NoClient
    /\ client' = [c \in Clients |-> Idle]
    /\ UNCHANGED <<defVars, made, idVars, announced>>

Next ==
    \/ \E s \in Sessions : Create(s) \/ Expire(s) \/ Purge(s) \/ Cancel(s) \/ KeyExpires(s)
    \/ \E s \in Sessions, n \in Node : AddPendingNode(s, n) \/ RemovePendingNode(s, n)
    \/ \E s \in Sessions, e \in Edge : AddPendingEdge(s, e) \/ RemovePendingEdge(s, e)
    \/ \E c \in Clients, s \in Sessions, key \in BOOLEAN : ConfirmSnapshot(c, s, key)
    \/ \E c \in Clients : ConfirmLock(c) \/ ConfirmCommit(c) \/ ConfirmFail(c) \/ ConfirmMark(c)
    \/ \E c \in Clients, s \in Sessions : UndoGet(c, s)
    \/ \E c \in Clients : UndoLock(c) \/ UndoCommit(c) \/ UndoFail(c)
    \/ \E n \in Node : ToolAddNode(n) \/ ToolRemoveNode(n)
    \/ \E e \in Edge : ToolAddEdge(e) \/ ToolRemoveEdge(e)
    \/ \E c \in Clients : PutRead(c) \/ PutWrite(c)
    \/ Restart

Spec == Init /\ [][Next]_vars

-----------------------------------------------------------------------------
\* However often a session is confirmed, by several clients, after an undo, a
\* failure or a restored older definition, the definition holds no node and no
\* edge twice (the ids of build_session_service.py:253-273 and their skips).
NoCopies ==
    /\ \A n \in Node : def.nodes[n] <= 1
    /\ \A e \in Edge : def.edges[e] <= 1

\* Whoever applies the events in their order has the definition, at every
\* commit of a confirm, an undo or a tool, unless a write without the lock has
\* put an older definition back (build_session_service.py:305-349,
\* workflow_build.py:513-569).
EventsTellDefinition == overwritten \/ told = def

\* A session is marked confirmed, and a result is kept for its key, only after
\* its nodes and their build_confirmed event are committed (:349-379): a failure
\* leaves it open for another try and nothing is answered from the cache that
\* was rolled back.
ConfirmedIsDurable == confirmed \cup cached \subseteq announced
=============================================================================
