--------------------------- MODULE DefinitionProofs ---------------------------
(***************************************************************************)
(* The definition of a workflow, its writers and its readers.              *)
(*                                                                         *)
(* What BuildSession promises, for any number of sessions, clients and     *)
(* ids.  Its inductive invariant says what the lock of the row buys (a     *)
(* transaction works on the current definition), that every id in use has  *)
(* been given out, and that a client marks what has been announced.        *)
(*                                                                         *)
(* That DefinitionEvents loses no event without a reason                   *)
(* (MissedExplained), for any number of writers, editors and events, any   *)
(* queue and any replay.  Its inductive invariant adds what the cursor has *)
(* passed, what a stream that has no cursor yet starts from, and that the  *)
(* order of the numbers is broken only by late commits.                    *)
(***************************************************************************)
EXTENDS BuildSession, DefinitionEvents, SequenceTheorems, TLAPS

-----------------------------------------------------------------------------
(* The build session *)

Single(d) ==
    /\ \A n \in Node : d.nodes[n] <= 1
    /\ \A e \in Edge : d.edges[e] <= 1
Known(d) == Present(d.nodes) \subseteq usedNodes /\ Present(d.edges) \subseteq usedEdges

ReadIsCurrent == \A c \in Clients : client[c].at \in InTransaction => client[c].read = def
IdsGiven ==
    /\ Known(def)
    /\ \A s \in Sessions : pendingNodes[s] \subseteq usedNodes /\ pendingEdges[s] \subseteq usedEdges
    /\ \A c \in Clients :
          /\ client[c].at \in {"confirm", "confirming"} =>
                client[c].nodes \subseteq usedNodes /\ client[c].edges \subseteq usedEdges
          /\ client[c].at = "put" => Known(client[c].read)
PutsSingle == \A c \in Clients : client[c].at = "put" => Single(client[c].read)
MarksAnnounced == \A c \in Clients : client[c].at = "mark" => client[c].session \in announced

Rest ==
    /\ ReadIsCurrent /\ IdsGiven
    /\ NoCopies /\ PutsSingle
    /\ EventsTellDefinition
    /\ ConfirmedIsDurable /\ MarksAnnounced

IInv == TypeOK /\ Rest

-----------------------------------------------------------------------------
(* What the operators on definitions give back.                            *)

LEMMA AddingTyped ==
    ASSUME NEW d \in Definition, NEW N \in SUBSET Node, NEW E \in SUBSET Edge
    PROVE  Adding(d, N, E) \in Definition
BY DEF Adding, Definition, Plus

LEMMA RemovingTyped ==
    ASSUME NEW d \in Definition, NEW N \in SUBSET Node, NEW E \in SUBSET Edge
    PROVE  Removing(d, N, E) \in Definition
BY DEF Removing, Definition, Less

\* Elements that were not there are there once.
LEMMA AddingSingle ==
    ASSUME NEW d \in Definition, NEW N \in SUBSET Node, NEW E \in SUBSET Edge,
           Single(d), N \cap Present(d.nodes) = {}, E \cap Present(d.edges) = {}
    PROVE  Single(Adding(d, N, E))
BY DEF Single, Adding, Definition, Plus, Present

LEMMA RemovingSingle ==
    ASSUME NEW d \in Definition, NEW N \in SUBSET Node, NEW E \in SUBSET Edge, Single(d)
    PROVE  Single(Removing(d, N, E))
BY DEF Single, Removing, Definition, Less

LEMMA AddingPresent ==
    ASSUME NEW d \in Definition, NEW N \in SUBSET Node, NEW E \in SUBSET Edge
    PROVE  /\ Present(Adding(d, N, E).nodes) = Present(d.nodes) \cup N
           /\ Present(Adding(d, N, E).edges) = Present(d.edges) \cup E
BY DEF Adding, Definition, Plus, Present

LEMMA AddingStays ==
    ASSUME NEW d \in Definition, NEW N \in SUBSET Node, NEW E \in SUBSET Edge, NEW U, NEW V,
           Present(d.nodes) \cup N \subseteq U, Present(d.edges) \cup E \subseteq V
    PROVE  Present(Adding(d, N, E).nodes) \subseteq U /\ Present(Adding(d, N, E).edges) \subseteq V
BY AddingPresent

LEMMA RemovingStays ==
    ASSUME NEW d \in Definition, NEW N \in SUBSET Node, NEW E \in SUBSET Edge, NEW U, NEW V,
           Present(d.nodes) \subseteq U, Present(d.edges) \subseteq V
    PROVE  Present(Removing(d, N, E).nodes) \subseteq U /\ Present(Removing(d, N, E).edges) \subseteq V
<1>1. /\ Present(Removing(d, N, E).nodes) \subseteq Present(d.nodes)
      /\ Present(Removing(d, N, E).edges) \subseteq Present(d.edges)
  BY DEF Removing, Definition, Less, Present
<1> QED
  BY <1>1

LEMMA PresentTyped ==
    ASSUME NEW d \in Definition
    PROVE  Present(d.nodes) \subseteq Node /\ Present(d.edges) \subseteq Edge
BY DEF Definition, Present

LEMMA EmptyIs == Empty \in Definition /\ Single(Empty) /\ Present(Empty.nodes) = Drawn /\ Present(Empty.edges) = {}
BY IdsAssumption DEF Empty, Definition, Single, Present

\* What a client holds at each place.
LEMMA Shapes ==
    ASSUME NEW r \in Requests
    PROVE  /\ r.at \in {"idle", "confirm", "confirming", "mark", "undo", "undoing", "put"}
           /\ r.at \in {"confirm", "confirming", "undo", "undoing"} =>
                 /\ r.session \in Sessions
                 /\ r.nodes \in SUBSET Node /\ r.edges \in SUBSET Edge
           /\ r.at \in {"confirm", "confirming", "mark"} => r.key \in BOOLEAN
           /\ r.at = "mark" => r.session \in Sessions
           /\ r.at \in {"confirming", "undoing", "put"} => r.read \in Definition
BY DEF Requests, Idle

LEMMA Parts ==
    ASSUME NEW r \in Requests
    PROVE  /\ r.at = "confirming" => AddedNodes(r) \in SUBSET Node /\ AddedEdges(r) \in SUBSET Edge
           /\ r.at = "undoing" => GoneNodes(r) \in SUBSET Node /\ GoneEdges(r) \in SUBSET Edge
BY Shapes, PresentTyped DEF AddedNodes, AddedEdges, GoneNodes, GoneEdges

-----------------------------------------------------------------------------
(* Types, and the lock of the row.                                         *)

LEMMA TypeInit == Init => TypeOK
<1> SUFFICES ASSUME Init PROVE TypeOK
  OBVIOUS
<1>1. \A c \in Clients : client[c].at \in InTransaction <=> row = c
  BY ClientAssumption DEF Init, Idle, InTransaction
<1>2. client \in [Clients -> Requests]
  BY DEF Init, Requests
<1>3. faults \in 0..MaxFaults /\ others \in 0..MaxOthers
  BY BoundsAssumption DEF Init
<1>4. def \in Definition /\ told \in Definition
  BY EmptyIs DEF Init
<1> QED
  BY <1>1, <1>2, <1>3, <1>4, IdsAssumption DEF Init, TypeOK

InMemory ==
    \/ \E s \in Sessions : Create(s) \/ Expire(s) \/ Purge(s) \/ Cancel(s) \/ KeyExpires(s)
    \/ \E s \in Sessions, n \in Node : AddPendingNode(s, n) \/ RemovePendingNode(s, n)
    \/ \E s \in Sessions, e \in Edge : AddPendingEdge(s, e) \/ RemovePendingEdge(s, e)

\* The steps in memory leave the clients and the definition alone.
LEMMA TypeMemory ==
    ASSUME TypeOK, InMemory PROVE TypeOK'
<1>1. UNCHANGED <<def, told, overwritten, row, announced, client, faults, others>>
  BY DEF InMemory, Create, Expire, Purge, Cancel, Forget, KeyExpires, AddPendingNode, RemovePendingNode,
         AddPendingEdge, RemovePendingEdge, defVars, bounds
<1>2. /\ sessions' \subseteq Sessions /\ confirmed' \subseteq sessions'
      /\ expired' \subseteq sessions' /\ cached' \subseteq Sessions
      /\ usedNodes' \subseteq Node /\ usedEdges' \subseteq Edge
      /\ usedSessions' \subseteq Sessions
  BY DEF InMemory, TypeOK, Create, Expire, Purge, Cancel, Forget, KeyExpires, AddPendingNode,
         RemovePendingNode, AddPendingEdge, RemovePendingEdge, NewNode, NewEdge, idVars,
         memoryVars
<1>3. /\ pendingNodes' \in [Sessions -> SUBSET Node]
      /\ pendingEdges' \in [Sessions -> SUBSET Edge]
      /\ made' \in [Sessions -> SUBSET Node]
  <2>1. ASSUME NEW s \in Sessions,
               Create(s) \/ Expire(s) \/ Purge(s) \/ Cancel(s) \/ KeyExpires(s)
        PROVE  <1>3!1 /\ <1>3!2 /\ <1>3!3
    BY <2>1 DEF TypeOK, Create, Expire, Purge, Cancel, Forget, KeyExpires, memoryVars
  <2>2. ASSUME NEW s \in Sessions, NEW n \in Node,
               AddPendingNode(s, n) \/ RemovePendingNode(s, n)
        PROVE  <1>3!1 /\ <1>3!2 /\ <1>3!3
    BY <2>2 DEF TypeOK, AddPendingNode, RemovePendingNode
  <2>3. ASSUME NEW s \in Sessions, NEW e \in Edge,
               AddPendingEdge(s, e) \/ RemovePendingEdge(s, e)
        PROVE  <1>3!1 /\ <1>3!2 /\ <1>3!3
    BY <2>3 DEF TypeOK, AddPendingEdge, RemovePendingEdge
  <2> QED
    BY <2>1, <2>2, <2>3 DEF InMemory
<1> QED
  BY <1>1, <1>2, <1>3 DEF TypeOK

\* A client takes one step, from one place to another.
Moves(c, r) == client' = [client EXCEPT ![c] = r]

\* The row changes hands as the place of its client says.
LEMMA RowFollows ==
    ASSUME TypeOK, NEW c \in Clients, NEW r \in Requests, Moves(c, r),
           \/ r.at \in InTransaction /\ row = NoClient /\ row' = c
           \/ r.at \notin InTransaction /\ row = c /\ row' = NoClient
           \/ r.at \notin InTransaction /\ row # c /\ row' = row
    PROVE  /\ client' \in [Clients -> Requests]
           /\ row' \in Clients \cup {NoClient}
           /\ \A q \in Clients : client'[q].at \in InTransaction <=> row' = q
<1>1. \A q \in Clients : q # c => client'[q] = client[q]
  BY DEF TypeOK, Moves
<1>2. client'[c] = r
  BY DEF TypeOK, Moves
<1> QED
  BY <1>1, <1>2, ClientAssumption DEF TypeOK, Moves

LEMMA TypeConfirm ==
    ASSUME TypeOK, NEW c \in Clients,
           \/ \E s \in Sessions, key \in BOOLEAN : ConfirmSnapshot(c, s, key)
           \/ ConfirmLock(c) \/ ConfirmCommit(c) \/ ConfirmFail(c) \/ ConfirmMark(c)
    PROVE  TypeOK'
<1> USE DEF InTransaction
<1>a. client[c] \in Requests
  BY DEF TypeOK
<1>r. row = c <=> client[c].at \in InTransaction
  BY DEF TypeOK
<1>i. Idle \in Requests /\ Idle.at = "idle"
  BY DEF Requests, Idle
<1>1. ASSUME NEW s \in Sessions, NEW key \in BOOLEAN, ConfirmSnapshot(c, s, key)
      PROVE  TypeOK'
  <2> DEFINE r == [at |-> "confirm", session |-> s, key |-> key,
                   nodes |-> pendingNodes[s], edges |-> pendingEdges[s]]
  <2>1. r \in Requests /\ r.at = "confirm"
    BY DEF TypeOK, Requests
  <2>2. Moves(c, r) /\ row # c /\ row' = row
    BY <1>1, <1>r DEF ConfirmSnapshot, Moves, Idle
  <2> QED
    BY <2>1, <2>2, RowFollows, <1>1
       DEF ConfirmSnapshot, TypeOK, defVars, memoryVars, idVars, bounds
<1>2. ASSUME ConfirmLock(c) PROVE TypeOK'
  <2> DEFINE r == [at |-> "confirming", session |-> client[c].session, key |-> client[c].key,
                   nodes |-> client[c].nodes, edges |-> client[c].edges, read |-> def]
  <2>1. r \in Requests /\ r.at = "confirming"
    BY <1>a, <1>2, Shapes DEF ConfirmLock, TypeOK, Requests
  <2>2. Moves(c, r) /\ row = NoClient /\ row' = c
    BY <1>2 DEF ConfirmLock, Moves, TypeOK
  <2> QED
    BY <2>1, <2>2, RowFollows, <1>2
       DEF ConfirmLock, TypeOK, defVars, memoryVars, idVars, bounds
<1>3. ASSUME ConfirmCommit(c) PROVE TypeOK'
  <2> DEFINE q == client[c]
             r == [at |-> "mark", session |-> q.session, key |-> q.key]
  <2>0. q.at = "confirming" /\ q \in Requests
    BY <1>a, <1>3 DEF ConfirmCommit
  <2>1. r \in Requests /\ r.at = "mark" /\ q.session \in Sessions
    BY <2>0, Shapes DEF Requests
  <2>2. Moves(c, r) /\ row = c /\ row' = NoClient
    BY <1>3, <1>r, <2>0 DEF ConfirmCommit, Moves
  <2>3. def' \in Definition /\ told' \in Definition
    BY <1>3, <2>0, Shapes, Parts, AddingTyped DEF ConfirmCommit, TypeOK
  <2> QED
    BY <2>1, <2>2, <2>3, RowFollows, <1>3
       DEF ConfirmCommit, TypeOK, memoryVars, idVars, bounds
<1>4. ASSUME ConfirmFail(c) PROVE TypeOK'
  <2>1. Moves(c, Idle) /\ row = c /\ row' = NoClient
    BY <1>4, <1>r DEF ConfirmFail, Moves
  <2>2. faults' \in 0..MaxFaults /\ others' \in 0..MaxOthers
    BY <1>4, BoundsAssumption DEF ConfirmFail, Fault, TypeOK
  <2> QED
    BY <2>1, <2>2, <1>i, RowFollows, <1>4 DEF ConfirmFail, TypeOK, defVars, memoryVars, idVars
<1>5. ASSUME ConfirmMark(c) PROVE TypeOK'
  <2>1. Moves(c, Idle) /\ row # c /\ row' = row
    BY <1>5, <1>r DEF ConfirmMark, Moves
  <2>2. client[c].session \in Sessions
    BY <1>a, <1>5, Shapes DEF ConfirmMark
  <2>3. confirmed' \subseteq sessions /\ cached' \subseteq Sessions
    BY <1>5, <2>2 DEF ConfirmMark, TypeOK
  <2> QED
    BY <2>1, <2>3, <1>i, RowFollows, <1>5
       DEF ConfirmMark, TypeOK, defVars, memoryVars, idVars, bounds
<1> QED
  BY <1>1, <1>2, <1>3, <1>4, <1>5

LEMMA TypeUndo ==
    ASSUME TypeOK, NEW c \in Clients,
           \/ \E s \in Sessions : UndoGet(c, s)
           \/ UndoLock(c) \/ UndoCommit(c) \/ UndoFail(c)
    PROVE  TypeOK'
<1> USE DEF InTransaction
<1>a. client[c] \in Requests
  BY DEF TypeOK
<1>r. row = c <=> client[c].at \in InTransaction
  BY DEF TypeOK
<1>i. Idle \in Requests /\ Idle.at = "idle"
  BY DEF Requests, Idle
<1>1. ASSUME NEW s \in Sessions, UndoGet(c, s) PROVE TypeOK'
  <2> DEFINE r == [at |-> "undo", session |-> s,
                   nodes |-> pendingNodes[s], edges |-> pendingEdges[s]]
  <2>1. r \in Requests /\ r.at = "undo"
    BY DEF TypeOK, Requests
  <2>2. Moves(c, r) /\ row # c /\ row' = row
    BY <1>1, <1>r DEF UndoGet, Moves, Idle
  <2> QED
    BY <2>1, <2>2, RowFollows, <1>1
       DEF UndoGet, TypeOK, defVars, memoryVars, idVars, bounds
<1>2. ASSUME UndoLock(c) PROVE TypeOK'
  <2> DEFINE r == [at |-> "undoing", session |-> client[c].session,
                   nodes |-> client[c].nodes, edges |-> client[c].edges, read |-> def]
  <2>1. r \in Requests /\ r.at = "undoing"
    BY <1>a, <1>2, Shapes DEF UndoLock, TypeOK, Requests
  <2>2. Moves(c, r) /\ row = NoClient /\ row' = c
    BY <1>2 DEF UndoLock, Moves, TypeOK
  <2> QED
    BY <2>1, <2>2, RowFollows, <1>2
       DEF UndoLock, TypeOK, defVars, memoryVars, idVars, bounds
<1>3. ASSUME UndoCommit(c) PROVE TypeOK'
  <2>0. client[c].at = "undoing"
    BY <1>3 DEF UndoCommit
  <2>1. Moves(c, Idle) /\ row = c /\ row' = NoClient
    BY <1>3, <1>r, <2>0 DEF UndoCommit, Moves
  <2>2. def' \in Definition /\ told' \in Definition
    BY <1>3, <1>a, <2>0, Shapes, Parts, RemovingTyped DEF UndoCommit, TypeOK
  <2> QED
    BY <2>1, <2>2, <1>i, RowFollows, <1>3
       DEF UndoCommit, TypeOK, memoryVars, idVars, bounds
<1>4. ASSUME UndoFail(c) PROVE TypeOK'
  <2>1. Moves(c, Idle) /\ row = c /\ row' = NoClient
    BY <1>4, <1>r DEF UndoFail, Moves
  <2>2. faults' \in 0..MaxFaults /\ others' \in 0..MaxOthers
    BY <1>4, BoundsAssumption DEF UndoFail, Fault, TypeOK
  <2> QED
    BY <2>1, <2>2, <1>i, RowFollows, <1>4 DEF UndoFail, TypeOK, defVars, memoryVars, idVars
<1> QED
  BY <1>1, <1>2, <1>3, <1>4

Tools ==
    \/ \E n \in Node : ToolAddNode(n) \/ ToolRemoveNode(n)
    \/ \E e \in Edge : ToolAddEdge(e) \/ ToolRemoveEdge(e)

\* What a write tool does to the definition, whichever it is.
LEMMA ToolsWrite ==
    ASSUME TypeOK, Tools
    PROVE  /\ row = NoClient
           /\ UNCHANGED <<overwritten, row, memoryVars, cached, announced, client>>
           /\ faults' \in 0..MaxFaults /\ others' \in 0..MaxOthers
           /\ usedSessions' = usedSessions
           /\ \E N \in SUBSET Node, E \in SUBSET Edge :
                 \/ /\ def' = Adding(def, N, E) /\ told' = Adding(told, N, E)
                    /\ N \cap usedNodes = {} /\ E \cap usedEdges = {}
                    /\ usedNodes' = usedNodes \cup N /\ usedEdges' = usedEdges \cup E
                 \/ /\ def' = Removing(def, N, E) /\ told' = Removing(told, N, E)
                    /\ UNCHANGED <<usedNodes, usedEdges>>
<1> DEFINE Goal ==
      /\ row = NoClient
      /\ UNCHANGED <<overwritten, row, memoryVars, cached, announced, client>>
      /\ faults' \in 0..MaxFaults /\ others' \in 0..MaxOthers
      /\ usedSessions' = usedSessions
      /\ \E N \in SUBSET Node, E \in SUBSET Edge :
            \/ /\ def' = Adding(def, N, E) /\ told' = Adding(told, N, E)
               /\ N \cap usedNodes = {} /\ E \cap usedEdges = {}
               /\ usedNodes' = usedNodes \cup N /\ usedEdges' = usedEdges \cup E
            \/ /\ def' = Removing(def, N, E) /\ told' = Removing(told, N, E)
               /\ UNCHANGED <<usedNodes, usedEdges>>
<1>1. ASSUME NEW n \in Node, ToolAddNode(n) PROVE Goal
  <2>1. {n} \in SUBSET Node /\ {} \in SUBSET Edge
    OBVIOUS
  <2> QED
    BY <1>1, <2>1, BoundsAssumption DEF ToolAddNode, NewNode, Writes, Other, TypeOK
<1>2. ASSUME NEW n \in Node, ToolRemoveNode(n) PROVE Goal
  <2>1. {n} \in SUBSET Node /\ Touching({n}) \cap Present(def.edges) \in SUBSET Edge
    BY DEF Touching
  <2>2. /\ row = NoClient /\ Other /\ UNCHANGED <<usedNodes, usedEdges, usedSessions>>
        /\ UNCHANGED <<overwritten, row, memoryVars, cached, announced, client>>
        /\ def' = Removing(def, {n}, Touching({n}) \cap Present(def.edges))
        /\ told' = Removing(told, {n}, Touching({n}) \cap Present(def.edges))
    BY <1>2 DEF ToolRemoveNode, Writes, idVars
  <2>3. faults' \in 0..MaxFaults /\ others' \in 0..MaxOthers
    BY <2>2, BoundsAssumption DEF Other, TypeOK
  <2> QED
    BY <2>1, <2>2, <2>3
<1>3. ASSUME NEW e \in Edge, ToolAddEdge(e) PROVE Goal
  <2>1. {} \in SUBSET Node /\ {e} \in SUBSET Edge
    OBVIOUS
  <2> QED
    BY <1>3, <2>1, BoundsAssumption DEF ToolAddEdge, NewEdge, Writes, Other, TypeOK
<1>4. ASSUME NEW e \in Edge, ToolRemoveEdge(e) PROVE Goal
  <2>1. {} \in SUBSET Node /\ {e} \in SUBSET Edge
    OBVIOUS
  <2> QED
    BY <1>4, <2>1, BoundsAssumption DEF ToolRemoveEdge, Writes, Other, TypeOK, idVars
<1> QED
  BY <1>1, <1>2, <1>3, <1>4 DEF Tools

LEMMA TypeOthers ==
    ASSUME TypeOK,
           \/ Tools
           \/ \E c \in Clients : PutRead(c) \/ PutWrite(c)
           \/ Restart
    PROVE  TypeOK'
<1> USE DEF InTransaction
<1>1. ASSUME NEW c \in Clients, PutRead(c) PROVE TypeOK'
  <2> DEFINE r == [at |-> "put", read |-> def]
  <2>1. r \in Requests /\ r.at = "put"
    BY DEF TypeOK, Requests
  <2>2. Moves(c, r) /\ row # c /\ row' = row
    BY <1>1 DEF PutRead, Moves, Idle, TypeOK
  <2>3. faults' \in 0..MaxFaults /\ others' \in 0..MaxOthers
    BY <1>1, BoundsAssumption DEF PutRead, Other, TypeOK
  <2> QED
    BY <2>1, <2>2, <2>3, RowFollows, <1>1 DEF PutRead, TypeOK, defVars, memoryVars, idVars
<1>2. ASSUME NEW c \in Clients, PutWrite(c) PROVE TypeOK'
  <2>1. Moves(c, Idle) /\ row # c /\ row' = row
    BY <1>2, ClientAssumption DEF PutWrite, Moves
  <2>2. Idle \in Requests /\ Idle.at = "idle"
    BY DEF Requests, Idle
  <2>3. def' \in Definition /\ overwritten' \in BOOLEAN
    BY <1>2, Shapes DEF PutWrite, TypeOK
  <2> QED
    BY <2>1, <2>2, <2>3, RowFollows, <1>2 DEF PutWrite, TypeOK, memoryVars, idVars, bounds
<1>3. ASSUME Restart PROVE TypeOK'
  <2>1. \A c \in Clients : client'[c].at \in InTransaction <=> row' = c
    BY <1>3, ClientAssumption DEF Restart, Idle
  <2>2. faults' \in 0..MaxFaults /\ others' \in 0..MaxOthers
    BY <1>3, BoundsAssumption DEF Restart, Fault, TypeOK
  <2>3. client' \in [Clients -> Requests]
    BY <1>3 DEF Restart, Requests
  <2> QED
    BY <1>3, <2>1, <2>2, <2>3 DEF Restart, TypeOK, defVars, idVars
<1>4. ASSUME Tools PROVE TypeOK'
  <2>1. PICK N \in SUBSET Node, E \in SUBSET Edge :
                 \/ /\ def' = Adding(def, N, E) /\ told' = Adding(told, N, E)
                    /\ usedNodes' = usedNodes \cup N /\ usedEdges' = usedEdges \cup E
                 \/ /\ def' = Removing(def, N, E) /\ told' = Removing(told, N, E)
                    /\ UNCHANGED <<usedNodes, usedEdges>>
    BY <1>4, ToolsWrite
  <2>2. def' \in Definition /\ told' \in Definition
    BY <2>1, AddingTyped, RemovingTyped DEF TypeOK
  <2>3. usedNodes' \subseteq Node /\ usedEdges' \subseteq Edge
    BY <2>1 DEF TypeOK
  <2> QED
    BY <1>4, <2>2, <2>3, ToolsWrite DEF TypeOK, memoryVars
<1> QED
  BY <1>1, <1>2, <1>3, <1>4

-----------------------------------------------------------------------------
(* The other conjuncts.                                                    *)

\* A client that is not in its transaction does not look at the definition it
\* had read: only the row's holder has one that matters.
LEMMA OneInTransaction ==
    ASSUME TypeOK, NEW c \in Clients, NEW q \in Clients, row = c \/ row = NoClient,
           client[q].at \in InTransaction
    PROVE  q = c
BY ClientAssumption DEF TypeOK

LEMMA RestInMemory ==
    ASSUME IInv, InMemory PROVE Rest'
<1>1. UNCHANGED <<def, told, overwritten, announced, client>>
  BY DEF InMemory, Create, Expire, Purge, Cancel, Forget, KeyExpires, AddPendingNode,
         RemovePendingNode, AddPendingEdge, RemovePendingEdge, defVars
<1>2. confirmed' \subseteq confirmed /\ cached' \subseteq cached
  BY DEF InMemory, Create, Expire, Purge, Cancel, Forget, KeyExpires, AddPendingNode,
         RemovePendingNode, AddPendingEdge, RemovePendingEdge, memoryVars
<1> DEFINE Kept == /\ usedNodes \subseteq usedNodes' /\ usedEdges \subseteq usedEdges'
                   /\ \A s \in Sessions : /\ pendingNodes'[s] \subseteq usedNodes'
                                          /\ pendingEdges'[s] \subseteq usedEdges'
<1>3. Kept
  <2>1. ASSUME NEW s \in Sessions,
               Create(s) \/ Expire(s) \/ Purge(s) \/ Cancel(s) \/ KeyExpires(s)
        PROVE  Kept
    BY <2>1 DEF IInv, Rest, IdsGiven, TypeOK, Create, Expire, Purge, Cancel, Forget,
                KeyExpires, memoryVars, idVars
  <2>2. ASSUME NEW s \in Sessions, NEW n \in Node,
               AddPendingNode(s, n) \/ RemovePendingNode(s, n)
        PROVE  Kept
    BY <2>2 DEF IInv, Rest, IdsGiven, TypeOK, AddPendingNode, RemovePendingNode, NewNode, idVars
  <2>3. ASSUME NEW s \in Sessions, NEW e \in Edge,
               AddPendingEdge(s, e) \/ RemovePendingEdge(s, e)
        PROVE  Kept
    BY <2>3 DEF IInv, Rest, IdsGiven, TypeOK, AddPendingEdge, RemovePendingEdge, NewEdge, idVars
  <2> QED
    BY <2>1, <2>2, <2>3 DEF InMemory
<1>4. IdsGiven'
  BY <1>1, <1>3 DEF IInv, Rest, IdsGiven, Known
<1> QED
  BY <1>1, <1>2, <1>4
     DEF IInv, Rest, ReadIsCurrent, NoCopies, PutsSingle, EventsTellDefinition,
         ConfirmedIsDurable, MarksAnnounced, Single

\* What a client must hold wherever it goes.
Sound(r) ==
    /\ r.at \in InTransaction => r.read = def
    /\ r.at \in {"confirm", "confirming"} => r.nodes \subseteq usedNodes /\ r.edges \subseteq usedEdges
    /\ r.at = "put" => Known(r.read) /\ Single(r.read)
    /\ r.at = "mark" => r.session \in announced

LEMMA RestMoves ==
    ASSUME IInv, NEW c \in Clients, NEW r \in Requests, Moves(c, r), Sound(r),
           UNCHANGED <<def, told, overwritten, usedNodes, usedEdges, pendingNodes,
                       pendingEdges, announced>>,
           confirmed' \cup cached' \subseteq announced
    PROVE  Rest'
<1>1. \A q \in Clients : q # c => client'[q] = client[q]
  BY DEF IInv, TypeOK, Moves
<1>2. client'[c] = r
  BY DEF IInv, TypeOK, Moves
<1>3. ReadIsCurrent' /\ MarksAnnounced'
  BY <1>1, <1>2 DEF IInv, Rest, ReadIsCurrent, MarksAnnounced, Sound
<1>4. IdsGiven'
  BY <1>1, <1>2 DEF IInv, Rest, IdsGiven, Known, Sound
<1>5. PutsSingle'
  BY <1>1, <1>2 DEF IInv, Rest, PutsSingle, Single, Sound
<1> QED
  BY <1>3, <1>4, <1>5 DEF IInv, Rest, NoCopies, EventsTellDefinition, ConfirmedIsDurable

\* A write of the definition by the holder of the row, or when nobody holds it:
\* afterwards nobody is in a transaction.
LEMMA RestWrites ==
    ASSUME IInv, NEW c \in Clients, NEW r \in Requests, Moves(c, r),
           r.at \notin InTransaction \cup {"confirm", "put"},
           row = c \/ row = NoClient,
           r.at = "mark" => r.session \in announced',
           Single(def'), Known(def'), overwritten' \/ told' = def',
           UNCHANGED <<usedNodes, usedEdges, pendingNodes, pendingEdges, confirmed, cached>>,
           announced \subseteq announced'
    PROVE  Rest'
<1>1. \A q \in Clients : q # c => client'[q] = client[q]
  BY DEF IInv, TypeOK, Moves
<1>2. client'[c] = r
  BY DEF IInv, TypeOK, Moves
<1>3. ReadIsCurrent'
  BY <1>1, <1>2, OneInTransaction DEF IInv, ReadIsCurrent
<1>4. MarksAnnounced' /\ PutsSingle'
  BY <1>1, <1>2 DEF IInv, Rest, MarksAnnounced, PutsSingle, Single
<1>5. IdsGiven'
  BY <1>1, <1>2 DEF IInv, Rest, IdsGiven, Known, InTransaction
<1>6. NoCopies'
  BY DEF NoCopies, Single
<1> QED
  BY <1>3, <1>4, <1>5, <1>6 DEF IInv, Rest, EventsTellDefinition, ConfirmedIsDurable

LEMMA RestConfirm ==
    ASSUME IInv, NEW c \in Clients,
           \/ \E s \in Sessions, key \in BOOLEAN : ConfirmSnapshot(c, s, key)
           \/ ConfirmLock(c) \/ ConfirmCommit(c) \/ ConfirmFail(c) \/ ConfirmMark(c)
    PROVE  Rest'
<1>a. client[c] \in Requests
  BY DEF IInv, TypeOK
<1>i. Idle \in Requests /\ Idle.at = "idle"
  BY DEF Requests, Idle
<1>s. Sound(Idle)
  BY <1>i DEF Sound, InTransaction
<1>d. confirmed \cup cached \subseteq announced
  BY DEF IInv, Rest, ConfirmedIsDurable
<1>1. ASSUME NEW s \in Sessions, NEW key \in BOOLEAN, ConfirmSnapshot(c, s, key)
      PROVE  Rest'
  <2> DEFINE r == [at |-> "confirm", session |-> s, key |-> key,
                   nodes |-> pendingNodes[s], edges |-> pendingEdges[s]]
  <2>1. r \in Requests
    BY DEF IInv, TypeOK, Requests
  <2>2. Sound(r)
    BY DEF IInv, Rest, IdsGiven, Sound, InTransaction
  <2> QED
    BY <1>1, <1>d, <2>1, <2>2, RestMoves
       DEF ConfirmSnapshot, Moves, defVars, memoryVars, idVars
<1>2. ASSUME ConfirmLock(c) PROVE Rest'
  <2> DEFINE r == [at |-> "confirming", session |-> client[c].session, key |-> client[c].key,
                   nodes |-> client[c].nodes, edges |-> client[c].edges, read |-> def]
  <2>1. r \in Requests
    BY <1>a, <1>2, Shapes DEF ConfirmLock, IInv, TypeOK, Requests
  <2>2. Sound(r)
    BY <1>2 DEF ConfirmLock, IInv, Rest, IdsGiven, Sound, InTransaction
  <2>3. Moves(c, r)
    BY <1>2 DEF ConfirmLock, Moves, IInv, TypeOK
  <2> QED
    BY <1>2, <1>d, <2>1, <2>2, <2>3, RestMoves
       DEF ConfirmLock, defVars, memoryVars, idVars
<1>3. ASSUME ConfirmCommit(c) PROVE Rest'
  <2> DEFINE q == client[c]
             r == [at |-> "mark", session |-> q.session, key |-> q.key]
  <2>0. q.at = "confirming" /\ q \in Requests
    BY <1>a, <1>3 DEF ConfirmCommit
  <2>1. r \in Requests /\ r.at \notin InTransaction \cup {"confirm", "put"}
    BY <2>0, Shapes DEF Requests, InTransaction
  <2>2. q.read = def /\ row = c /\ def \in Definition /\ told \in Definition
    BY <2>0 DEF IInv, Rest, ReadIsCurrent, TypeOK, InTransaction
  <2>3. AddedNodes(q) \in SUBSET Node /\ AddedEdges(q) \in SUBSET Edge
    BY <2>0, Parts
  <2>4. /\ AddedNodes(q) \subseteq usedNodes /\ AddedEdges(q) \subseteq usedEdges
        /\ AddedNodes(q) \cap Present(def.nodes) = {}
        /\ AddedEdges(q) \cap Present(def.edges) = {}
    BY <2>0, <2>2 DEF IInv, Rest, IdsGiven, AddedNodes, AddedEdges
  <2>5. def' = Adding(def, AddedNodes(q), AddedEdges(q))
        /\ told' = Adding(told, AddedNodes(q), AddedEdges(q))
    BY <1>3, <2>2 DEF ConfirmCommit
  <2>6. Single(def')
    BY <2>2, <2>3, <2>4, <2>5, AddingSingle DEF IInv, Rest, NoCopies, Single
  <2>7. Known(def')
    <3>1. Present(def.nodes) \subseteq usedNodes /\ Present(def.edges) \subseteq usedEdges
      BY DEF IInv, Rest, IdsGiven, Known
    <3>2. /\ Present(def.nodes) \cup AddedNodes(q) \subseteq usedNodes
          /\ Present(def.edges) \cup AddedEdges(q) \subseteq usedEdges
      BY <2>4, <3>1
    <3>3. Known(Adding(def, AddedNodes(q), AddedEdges(q)))
      BY <2>2, <2>3, <3>2, AddingStays DEF Known
    <3> QED
      BY <2>5, <3>3
  <2>8. overwritten' \/ told' = def'
    BY <1>3, <2>5 DEF IInv, Rest, EventsTellDefinition, ConfirmCommit
  <2>9. UNCHANGED <<usedNodes, usedEdges, pendingNodes, pendingEdges, confirmed, cached>>
        /\ announced' = announced \cup {q.session} /\ Moves(c, r)
    BY <1>3 DEF ConfirmCommit, memoryVars, idVars, Moves
  <2> QED
    BY <2>1, <2>2, <2>6, <2>7, <2>8, <2>9, RestWrites
<1>4. ASSUME ConfirmFail(c) PROVE Rest'
  BY <1>4, <1>d, <1>i, <1>s, RestMoves
     DEF ConfirmFail, Moves, defVars, memoryVars, idVars
<1>5. ASSUME ConfirmMark(c) PROVE Rest'
  <2>1. client[c].session \in announced
    BY <1>5 DEF ConfirmMark, IInv, Rest, MarksAnnounced
  <2>2. confirmed' \cup cached' \subseteq announced
    BY <1>5, <1>d, <2>1 DEF ConfirmMark
  <2> QED
    BY <1>5, <1>i, <1>s, <2>2, RestMoves
       DEF ConfirmMark, Moves, defVars, memoryVars, idVars
<1> QED
  BY <1>1, <1>2, <1>3, <1>4, <1>5

LEMMA RestUndo ==
    ASSUME IInv, NEW c \in Clients,
           \/ \E s \in Sessions : UndoGet(c, s)
           \/ UndoLock(c) \/ UndoCommit(c) \/ UndoFail(c)
    PROVE  Rest'
<1>a. client[c] \in Requests
  BY DEF IInv, TypeOK
<1>i. Idle \in Requests /\ Idle.at = "idle"
  BY DEF Requests, Idle
<1>s. Sound(Idle)
  BY <1>i DEF Sound, InTransaction
<1>d. confirmed \cup cached \subseteq announced
  BY DEF IInv, Rest, ConfirmedIsDurable
<1>1. ASSUME NEW s \in Sessions, UndoGet(c, s) PROVE Rest'
  <2> DEFINE r == [at |-> "undo", session |-> s,
                   nodes |-> pendingNodes[s], edges |-> pendingEdges[s]]
  <2>1. r \in Requests /\ Sound(r)
    BY DEF IInv, TypeOK, Requests, Sound, InTransaction
  <2> QED
    BY <1>1, <1>d, <2>1, RestMoves DEF UndoGet, Moves, defVars, memoryVars, idVars
<1>2. ASSUME UndoLock(c) PROVE Rest'
  <2> DEFINE r == [at |-> "undoing", session |-> client[c].session,
                   nodes |-> client[c].nodes, edges |-> client[c].edges, read |-> def]
  <2>1. r \in Requests
    BY <1>a, <1>2, Shapes DEF UndoLock, IInv, TypeOK, Requests
  <2>2. Sound(r)
    BY DEF Sound, InTransaction
  <2>3. Moves(c, r)
    BY <1>2 DEF UndoLock, Moves, IInv, TypeOK
  <2> QED
    BY <1>2, <1>d, <2>1, <2>2, <2>3, RestMoves
       DEF UndoLock, defVars, memoryVars, idVars
<1>3. ASSUME UndoCommit(c) PROVE Rest'
  <2> DEFINE q == client[c]
  <2>0. q.at = "undoing" /\ q \in Requests
    BY <1>a, <1>3 DEF UndoCommit
  <2>1. Idle.at \notin InTransaction \cup {"confirm", "put", "mark"}
    BY <1>i DEF InTransaction
  <2>2. q.read = def /\ row = c /\ def \in Definition /\ told \in Definition
    BY <2>0 DEF IInv, Rest, ReadIsCurrent, TypeOK, InTransaction
  <2>3. GoneNodes(q) \in SUBSET Node /\ GoneEdges(q) \in SUBSET Edge
    BY <2>0, Parts
  <2>5. def' = Removing(def, GoneNodes(q), GoneEdges(q))
        /\ told' = Removing(told, GoneNodes(q), GoneEdges(q))
    BY <1>3, <2>2 DEF UndoCommit
  <2>6. Single(def')
    BY <2>2, <2>3, <2>5, RemovingSingle DEF IInv, Rest, NoCopies, Single
  <2>7. Known(def')
    <3>1. Present(def.nodes) \subseteq usedNodes /\ Present(def.edges) \subseteq usedEdges
      BY DEF IInv, Rest, IdsGiven, Known
    <3>2. Known(Removing(def, GoneNodes(q), GoneEdges(q)))
      BY <2>2, <2>3, <3>1, RemovingStays DEF Known
    <3> QED
      BY <2>5, <3>2
  <2>8. overwritten' \/ told' = def'
    BY <1>3, <2>5 DEF IInv, Rest, EventsTellDefinition, UndoCommit
  <2>9. UNCHANGED <<usedNodes, usedEdges, pendingNodes, pendingEdges, confirmed, cached, announced>>
        /\ Moves(c, Idle)
    BY <1>3 DEF UndoCommit, memoryVars, idVars, Moves
  <2> QED
    BY <1>i, <2>1, <2>2, <2>6, <2>7, <2>8, <2>9, RestWrites
<1>4. ASSUME UndoFail(c) PROVE Rest'
  BY <1>4, <1>d, <1>i, <1>s, RestMoves
     DEF UndoFail, Moves, defVars, memoryVars, idVars
<1> QED
  BY <1>1, <1>2, <1>3, <1>4

LEMMA RestPut ==
    ASSUME IInv, NEW c \in Clients, PutRead(c) \/ PutWrite(c)
    PROVE  Rest'
<1>i. Idle \in Requests /\ Idle.at = "idle"
  BY DEF Requests, Idle
<1>1. ASSUME PutRead(c) PROVE Rest'
  <2> DEFINE r == [at |-> "put", read |-> def]
  <2>1. r \in Requests
    BY DEF IInv, TypeOK, Requests
  <2>2. Sound(r)
    BY DEF Sound, InTransaction, IInv, Rest, IdsGiven, NoCopies, Single
  <2> QED
    BY <1>1, <2>1, <2>2, RestMoves
       DEF PutRead, Moves, defVars, memoryVars, idVars, IInv, Rest, ConfirmedIsDurable
<1>2. ASSUME PutWrite(c) PROVE Rest'
  <2>1. Single(def')
    BY <1>2 DEF PutWrite, IInv, Rest, PutsSingle
  <2>2. Known(def')
    BY <1>2 DEF PutWrite, IInv, Rest, IdsGiven, Known, idVars
  <2>3. overwritten' \/ told' = def'
    BY <1>2 DEF PutWrite, IInv, Rest, EventsTellDefinition, TypeOK
  <2>4. Idle.at \notin InTransaction \cup {"confirm", "put", "mark"}
    BY <1>i DEF InTransaction
  <2> QED
    BY <1>2, <1>i, <2>1, <2>2, <2>3, <2>4, RestWrites DEF PutWrite, Moves, memoryVars, idVars
<1> QED
  BY <1>1, <1>2

LEMMA RestTools ==
    ASSUME IInv, Tools PROVE Rest'
<1>1. /\ row = NoClient
      /\ UNCHANGED <<overwritten, pendingNodes, pendingEdges, confirmed, cached, announced, client>>
  BY ToolsWrite DEF IInv, memoryVars
<1>2. PICK N \in SUBSET Node, E \in SUBSET Edge :
        \/ /\ def' = Adding(def, N, E) /\ told' = Adding(told, N, E)
           /\ N \cap usedNodes = {} /\ E \cap usedEdges = {}
           /\ usedNodes' = usedNodes \cup N /\ usedEdges' = usedEdges \cup E
        \/ /\ def' = Removing(def, N, E) /\ told' = Removing(told, N, E)
           /\ UNCHANGED <<usedNodes, usedEdges>>
  BY ToolsWrite DEF IInv
<1>3. /\ def \in Definition /\ Single(def)
      /\ Present(def.nodes) \subseteq usedNodes /\ Present(def.edges) \subseteq usedEdges
  BY DEF IInv, TypeOK, Rest, NoCopies, Single, IdsGiven, Known
<1>4. Single(def')
  BY <1>2, <1>3, AddingSingle, RemovingSingle
<1>5. Present(def.nodes)' \subseteq usedNodes' /\ Present(def.edges)' \subseteq usedEdges'
  <2>1. CASE /\ def' = Adding(def, N, E)
             /\ usedNodes' = usedNodes \cup N /\ usedEdges' = usedEdges \cup E
    <3>1. /\ Present(Adding(def, N, E).nodes) \subseteq usedNodes \cup N
          /\ Present(Adding(def, N, E).edges) \subseteq usedEdges \cup E
      <4>1. /\ Present(def.nodes) \cup N \subseteq usedNodes \cup N
            /\ Present(def.edges) \cup E \subseteq usedEdges \cup E
        BY <1>3
      <4> QED
        BY <1>3, <4>1, AddingStays
    <3> QED
      BY <2>1, <3>1
  <2>2. CASE def' = Removing(def, N, E) /\ UNCHANGED <<usedNodes, usedEdges>>
    <3>1. /\ Present(Removing(def, N, E).nodes) \subseteq usedNodes
          /\ Present(Removing(def, N, E).edges) \subseteq usedEdges
      BY <1>3, RemovingStays
    <3> QED
      BY <2>2, <3>1
  <2> QED
    BY <1>2, <2>1, <2>2
<1>6. usedNodes \subseteq usedNodes' /\ usedEdges \subseteq usedEdges'
  BY <1>2
<1>7. IdsGiven'
  BY <1>1, <1>5, <1>6 DEF IInv, Rest, IdsGiven, Known
<1>8. ReadIsCurrent'
  BY <1>1, ClientAssumption DEF ReadIsCurrent, IInv, TypeOK
<1>9. EventsTellDefinition'
  BY <1>1, <1>2 DEF EventsTellDefinition, IInv, Rest
<1> QED
  BY <1>1, <1>4, <1>7, <1>8, <1>9
     DEF IInv, Rest, NoCopies, Single, PutsSingle, ConfirmedIsDurable, MarksAnnounced

LEMMA RestRestart ==
    ASSUME IInv, Restart PROVE Rest'
<1>1. \A c \in Clients : client'[c].at = "idle"
  BY DEF Restart, Idle
<1>2. /\ UNCHANGED <<def, told, overwritten, usedNodes, usedEdges, announced>>
      /\ confirmed' = {} /\ cached' = {}
      /\ \A s \in Sessions : pendingNodes'[s] = {} /\ pendingEdges'[s] = {}
  BY DEF Restart, defVars, idVars
<1>3. IdsGiven'
  BY <1>1, <1>2 DEF IInv, Rest, IdsGiven, Known
<1> QED
  BY <1>1, <1>2, <1>3
     DEF IInv, Rest, ReadIsCurrent, InTransaction, NoCopies, PutsSingle, EventsTellDefinition,
         ConfirmedIsDurable, MarksAnnounced

-----------------------------------------------------------------------------
LEMMA InvInit == Init => IInv
<1> SUFFICES ASSUME Init PROVE IInv
  OBVIOUS
<1>1. \A c \in Clients : client[c].at = "idle"
  BY DEF Init, Idle
<1>2. Single(def) /\ Known(def)
  BY EmptyIs DEF Init, Known
<1>3. IdsGiven
  BY <1>1, <1>2 DEF Init, IdsGiven
<1> QED
  BY <1>1, <1>2, <1>3, TypeInit
     DEF Init, IInv, Rest, ReadIsCurrent, InTransaction, NoCopies, Single, PutsSingle,
         EventsTellDefinition, ConfirmedIsDurable, MarksAnnounced

LEMMA InvStep == IInv /\ [Next]_vars => IInv'
<1> SUFFICES ASSUME IInv, [Next]_vars PROVE TypeOK' /\ Rest'
  BY DEF IInv
<1>t. TypeOK
  BY DEF IInv
<1>1. CASE InMemory
  BY <1>1, <1>t, TypeMemory, RestInMemory
<1>2. ASSUME NEW c \in Clients,
             \/ \E s \in Sessions, key \in BOOLEAN : ConfirmSnapshot(c, s, key)
             \/ ConfirmLock(c) \/ ConfirmCommit(c) \/ ConfirmFail(c) \/ ConfirmMark(c)
      PROVE  TypeOK' /\ Rest'
  BY <1>2, <1>t, TypeConfirm, RestConfirm
<1>3. ASSUME NEW c \in Clients,
             \/ \E s \in Sessions : UndoGet(c, s)
             \/ UndoLock(c) \/ UndoCommit(c) \/ UndoFail(c)
      PROVE  TypeOK' /\ Rest'
  BY <1>3, <1>t, TypeUndo, RestUndo
<1>4. CASE Tools
  BY <1>4, <1>t, TypeOthers, RestTools
<1>5. ASSUME NEW c \in Clients, PutRead(c) \/ PutWrite(c) PROVE TypeOK' /\ Rest'
  BY <1>5, <1>t, TypeOthers, RestPut
<1>6. CASE Restart
  BY <1>6, <1>t, TypeOthers, RestRestart
<1>7. CASE UNCHANGED vars
  <2>1. TypeOK'
    BY <1>7, <1>t DEF vars, defVars, memoryVars, idVars, bounds, TypeOK
  <2>2. Rest'
    BY <1>7 DEF vars, defVars, memoryVars, idVars, IInv, Rest, ReadIsCurrent, IdsGiven, Known,
                NoCopies, PutsSingle, Single, EventsTellDefinition, ConfirmedIsDurable,
                MarksAnnounced
  <2> QED
    BY <2>1, <2>2
<1> QED
  BY <1>1, <1>2, <1>3, <1>4, <1>5, <1>6, <1>7 DEF Next, InMemory, Tools

\* The inductive invariant, from which the theorems below follow.
THEOREM Invariant == Spec => []IInv
<1> QED
  BY InvInit, InvStep, PTL DEF Spec

\* A client holds the row for as long as its transaction lasts, whatever
\* becomes of it (build_session_service.py:243-352).
THEOREM TypeCorrect == Spec => []TypeOK
<1>1. IInv => TypeOK
  BY DEF IInv
<1> QED
  BY <1>1, Invariant, PTL

\* No confirm, however often repeated, puts a node or an edge twice in the
\* definition (build_session_service.py:253-273).
THEOREM NothingTwice == Spec => []NoCopies
<1>1. IInv => NoCopies
  BY DEF IInv, Rest
<1> QED
  BY <1>1, Invariant, PTL

\* The events add up to the definition until a write without the lock has put
\* an older one back.
THEOREM EventsTell == Spec => []EventsTellDefinition
<1>1. IInv => EventsTellDefinition
  BY DEF IInv, Rest
<1> QED
  BY <1>1, Invariant, PTL

\* Nothing is marked confirmed or kept for its key that is not committed
\* (build_session_service.py:349-379).
THEOREM MarkedIsCommitted == Spec => []ConfirmedIsDurable
<1>1. IInv => ConfirmedIsDurable
  BY DEF IInv, Rest
<1> QED
  BY <1>1, Invariant, PTL
-----------------------------------------------------------------------------
(* The stream of the definition events *)

Excused(c) == missed[c] \cup ((late \cup unheard) \ replayed[c])

\* What the editor will skip when it comes is excused.
PassedExcused(c) == \A e \in committed : e <= cursor[c] => e \in seen[c] \cup Excused(c)

\* An editor without a cursor has nothing to replay from.
StartExcused(c) ==
    at[c] = "away" /\ cursor[c] = 0 => committed \subseteq seen[c] \cup Excused(c)

Shape(c) ==
    /\ at[c] # "replaying" => rows[c] = <<>>
    /\ at[c] \in {"new", "away", "subscribed"} => replayed[c] = {}
    /\ at[c] \in {"new", "away"} => queue[c] = <<>>
    /\ at[c] \in {"subscribed", "replaying"} => cursor[c] # 0
    /\ at[c] = "new" => cursor[c] = 0

ReplaySound(c) ==
    /\ Sorted(rows[c]) /\ \A r \in RangeOf(rows[c]) : cursor[c] < r
    /\ replayed[c] \subseteq seen[c] \cup RangeOf(rows[c])
    /\ \A f \in committed : \/ f \in seen[c] \cup replayed[c] \cup Excused(c)
                            \/ \A r \in RangeOf(rows[c]) : r < f

\* Behind a higher number only what is in L.
Orderly(s, L) == \A i, j \in DOMAIN s : i < j => s[i] < s[j] \/ s[j] \in L

Explained(c) ==
    at[c] \in {"replaying", "live"} => committed \subseteq seen[c] \cup Pending(c) \cup Excused(c)

ClientInv(c) ==
    /\ Shape(c)
    /\ at[c] # "new" => PassedExcused(c)
    /\ StartExcused(c)
    /\ at[c] = "replaying" => ReplaySound(c)
    /\ at[c] = "live" => replayed[c] \subseteq seen[c]
    /\ Orderly(queue[c] \o wire, late)
    /\ Explained(c)

\* The sequence gives each number once, to a transaction in order.
Numbered ==
    /\ \A e \in committed : e < nextSeq
    /\ \A w \in Writers : /\ Sorted(open[w])
                          /\ \A e \in RangeOf(open[w]) : e < nextSeq
    /\ \A v, w \in Writers : v # w => RangeOf(open[v]) \cap RangeOf(open[w]) = {}

EventsInv == EventsTypeOK /\ Numbered /\ \A c \in Editors : ClientInv(c)

-----------------------------------------------------------------------------
(* Sequences.                                                              *)

LEMMA RangeEmpty == RangeOf(<<>>) = {} /\ Sorted(<<>>)
BY DEF RangeOf, Sorted

LEMMA RangeIn ==
    ASSUME NEW S, NEW s \in Seq(S)
    PROVE  RangeOf(s) \subseteq S
BY DEF RangeOf

LEMMA RangeAppend ==
    ASSUME NEW S, NEW s \in Seq(S), NEW e \in S
    PROVE  Append(s, e) \in Seq(S) /\ RangeOf(Append(s, e)) = RangeOf(s) \cup {e}
<1>1. Append(s, e) \in Seq(S) /\ DOMAIN Append(s, e) = 1..Len(s) + 1
  OBVIOUS
<1>2. DOMAIN s = 1..Len(s) /\ Len(s) \in Nat /\ \A i \in 1..Len(s) : Append(s, e)[i] = s[i]
  OBVIOUS
<1>3. Append(s, e)[Len(s) + 1] = e
  OBVIOUS
<1>4. 1..Len(s) + 1 = 1..Len(s) \cup {Len(s) + 1}
  BY <1>2
<1> QED
  BY <1>1, <1>2, <1>3, <1>4 DEF RangeOf

LEMMA HeadTail ==
    ASSUME NEW S, NEW s \in Seq(S), s # <<>>
    PROVE  /\ Head(s) \in S /\ Tail(s) \in Seq(S)
           /\ Len(Tail(s)) = Len(s) - 1 /\ Len(s) >= 1
           /\ Head(s) = s[1] /\ \A i \in DOMAIN Tail(s) : i + 1 \in DOMAIN s /\ Tail(s)[i] = s[i + 1]
           /\ RangeOf(s) = {Head(s)} \cup RangeOf(Tail(s))
<1>1. /\ Head(s) \in S /\ Tail(s) \in Seq(S)
      /\ Len(Tail(s)) = Len(s) - 1 /\ Len(s) >= 1
      /\ Head(s) = s[1] /\ \A i \in DOMAIN Tail(s) : i + 1 \in DOMAIN s /\ Tail(s)[i] = s[i + 1]
  OBVIOUS
<1>a. DOMAIN s = 1..Len(s) /\ DOMAIN Tail(s) = 1..Len(Tail(s)) /\ Len(s) \in Nat
  BY <1>1
<1>2. \A i \in DOMAIN s : i = 1 \/ (i - 1 \in DOMAIN Tail(s) /\ Tail(s)[i - 1] = s[i])
  <2> SUFFICES ASSUME NEW i \in DOMAIN s, i # 1
               PROVE  i - 1 \in DOMAIN Tail(s) /\ Tail(s)[i - 1] = s[i]
    OBVIOUS
  <2>1. i - 1 \in DOMAIN Tail(s) /\ (i - 1) + 1 = i
    BY <1>1, <1>a
  <2> QED
    BY <1>1, <2>1
<1>3. RangeOf(s) \subseteq {Head(s)} \cup RangeOf(Tail(s))
  <2> SUFFICES ASSUME NEW i \in DOMAIN s PROVE s[i] \in {Head(s)} \cup RangeOf(Tail(s))
    BY DEF RangeOf
  <2>1. CASE i = 1
    BY <1>1, <2>1
  <2>2. CASE i # 1
    BY <1>2, <2>2 DEF RangeOf
  <2> QED
    BY <2>1, <2>2
<1>4. {Head(s)} \cup RangeOf(Tail(s)) \subseteq RangeOf(s)
  BY <1>1 DEF RangeOf
<1> QED
  BY <1>1, <1>3, <1>4

LEMMA Concatenated ==
    ASSUME NEW S, NEW s \in Seq(S), NEW t \in Seq(S)
    PROVE  /\ s \o t \in Seq(S) /\ Len(s \o t) = Len(s) + Len(t)
           /\ \A i \in DOMAIN s : i \in DOMAIN (s \o t) /\ (s \o t)[i] = s[i]
           /\ \A i \in DOMAIN t : Len(s) + i \in DOMAIN (s \o t) /\ (s \o t)[Len(s) + i] = t[i]
           /\ \A i \in DOMAIN (s \o t) : \/ i \in DOMAIN s
                                        \/ i - Len(s) \in DOMAIN t
           /\ RangeOf(s \o t) = RangeOf(s) \cup RangeOf(t)
<1>1. /\ s \o t \in Seq(S) /\ Len(s \o t) = Len(s) + Len(t)
      /\ \A i \in DOMAIN s : i \in DOMAIN (s \o t) /\ (s \o t)[i] = s[i]
      /\ \A i \in DOMAIN t : Len(s) + i \in DOMAIN (s \o t) /\ (s \o t)[Len(s) + i] = t[i]
      /\ \A i \in DOMAIN (s \o t) : i \in DOMAIN s \/ i - Len(s) \in DOMAIN t
  OBVIOUS
<1>2. RangeOf(s) \cup RangeOf(t) \subseteq RangeOf(s \o t)
  BY <1>1 DEF RangeOf
<1>3. RangeOf(s \o t) \subseteq RangeOf(s) \cup RangeOf(t)
  <2> SUFFICES ASSUME NEW i \in DOMAIN (s \o t) PROVE (s \o t)[i] \in RangeOf(s) \cup RangeOf(t)
    BY DEF RangeOf
  <2>1. CASE i \in DOMAIN s
    BY <1>1, <2>1 DEF RangeOf
  <2>2. CASE i - Len(s) \in DOMAIN t
    <3>1. Len(s) + (i - Len(s)) = i
      BY <1>1
    <3> QED
      BY <1>1, <2>2, <3>1 DEF RangeOf
  <2> QED
    BY <1>1, <2>1, <2>2
<1> QED
  BY <1>1, <1>2, <1>3

-----------------------------------------------------------------------------
(* Order, over the queue of a stream and the wire behind it.               *)

LEMMA OrderlyTail ==
    ASSUME NEW s \in Seq(Nat), NEW t \in Seq(Nat), NEW L, s # <<>>, Orderly(s \o t, L)
    PROVE  Orderly(Tail(s) \o t, L)
<1> DEFINE u == s \o t  v == Tail(s) \o t
<1>1. Tail(s) \in Seq(Nat) /\ Len(Tail(s)) = Len(s) - 1 /\ Len(s) \in Nat /\ Len(s) >= 1
  BY HeadTail
<1>2. u \in Seq(Nat) /\ v \in Seq(Nat) /\ Len(v) = Len(u) - 1
  BY <1>1, Concatenated
<1>3. \A i \in DOMAIN v : i + 1 \in DOMAIN u /\ v[i] = u[i + 1]
  BY <1>1, <1>2
<1>4. \A i, j \in DOMAIN v : i < j => i + 1 < j + 1
  BY <1>2
<1> QED
  BY <1>3, <1>4 DEF Orderly

LEMMA OrderlyMove ==
    ASSUME NEW s \in Seq(Nat), NEW t \in Seq(Nat), NEW L, t # <<>>, Orderly(s \o t, L)
    PROVE  Orderly(Append(s, Head(t)) \o Tail(t), L)
<1>1. Append(s, Head(t)) \o Tail(t) = s \o t
  OBVIOUS
<1> QED
  BY <1>1

LEMMA OrderlyDrop ==
    ASSUME NEW s \in Seq(Nat), NEW t \in Seq(Nat), NEW L, t # <<>>, Orderly(s \o t, L)
    PROVE  Orderly(s \o Tail(t), L)
<1> DEFINE u == s \o t  v == s \o Tail(t)
           f(i) == IF i <= Len(s) THEN i ELSE i + 1
<1>1. Tail(t) \in Seq(Nat) /\ Len(Tail(t)) = Len(t) - 1 /\ Len(t) \in Nat /\ Len(t) >= 1
      /\ Len(s) \in Nat
  BY HeadTail
<1>2. u \in Seq(Nat) /\ v \in Seq(Nat) /\ DOMAIN u = 1..Len(s) + Len(t)
      /\ DOMAIN v = 1..Len(s) + Len(t) - 1
  BY <1>1
<1>3. ASSUME NEW i \in DOMAIN v PROVE f(i) \in DOMAIN u /\ v[i] = u[f(i)]
  <2>1. CASE i <= Len(s)
    <3>1. i \in DOMAIN s
      BY <1>1, <1>2, <2>1
    <3> QED
      BY <1>1, <2>1, <3>1, Concatenated
  <2>2. CASE i > Len(s)
    <3>a. i \in Nat /\ i <= Len(s) + Len(t) - 1
      BY <1>1, <1>2
    <3>1. i - Len(s) \in DOMAIN Tail(t) /\ Len(s) + (i - Len(s)) = i
      BY <1>1, <2>2, <3>a
    <3>2. v[i] = Tail(t)[i - Len(s)]
      BY <1>1, <3>1, Concatenated
    <3>3. Tail(t)[i - Len(s)] = t[(i - Len(s)) + 1] /\ (i - Len(s)) + 1 \in DOMAIN t
      BY <3>1, HeadTail
    <3>4. Len(s) + ((i - Len(s)) + 1) = i + 1
      BY <1>1, <3>a
    <3>5. i + 1 \in DOMAIN u /\ u[i + 1] = t[(i - Len(s)) + 1]
      BY <3>3, <3>4, Concatenated
    <3>6. f(i) = i + 1
      BY <1>1, <2>2, <3>a
    <3> QED
      BY <3>2, <3>3, <3>5, <3>6
  <2> QED
    BY <1>1, <1>2, <2>1, <2>2
<1>4. \A i, j \in DOMAIN v : i < j => f(i) < f(j)
  BY <1>1, <1>2
<1> HIDE DEF f, u, v
<1> QED
  BY <1>3, <1>4 DEF Orderly, u, v

LEMMA OrderlyRight ==
    ASSUME NEW s \in Seq(Nat), NEW t \in Seq(Nat), NEW L, Orderly(s \o t, L)
    PROVE  Orderly(t, L) /\ Orderly(s, L)
<1>1. Len(s) \in Nat /\ DOMAIN t = 1..Len(t) /\ DOMAIN s = 1..Len(s) /\ Len(t) \in Nat
  OBVIOUS
<1>2. Orderly(s, L)
  <2> SUFFICES ASSUME NEW i \in DOMAIN s, NEW j \in DOMAIN s, i < j
               PROVE  s[i] < s[j] \/ s[j] \in L
    BY DEF Orderly
  <2>1. /\ i \in DOMAIN (s \o t) /\ (s \o t)[i] = s[i]
        /\ j \in DOMAIN (s \o t) /\ (s \o t)[j] = s[j]
    BY Concatenated
  <2> QED
    BY <2>1 DEF Orderly
<1>3. Orderly(t, L)
  <2> SUFFICES ASSUME NEW i \in DOMAIN t, NEW j \in DOMAIN t, i < j
               PROVE  t[i] < t[j] \/ t[j] \in L
    BY DEF Orderly
  <2>1. /\ Len(s) + i \in DOMAIN (s \o t) /\ (s \o t)[Len(s) + i] = t[i]
        /\ Len(s) + j \in DOMAIN (s \o t) /\ (s \o t)[Len(s) + j] = t[j]
    BY Concatenated
  <2>2. Len(s) + i < Len(s) + j
    BY <1>1
  <2> QED
    BY <2>1, <2>2 DEF Orderly
<1> QED
  BY <1>2, <1>3

LEMMA OrderlyMore ==
    ASSUME NEW s, NEW L, NEW M, L \subseteq M, Orderly(s, L)
    PROVE  Orderly(s, M)
BY DEF Orderly

LEMMA OrderlyHead ==
    ASSUME NEW s \in Seq(Nat), NEW t \in Seq(Nat), NEW L, s # <<>>, Orderly(s \o t, L)
    PROVE  \A f \in RangeOf(Tail(s)) \cup RangeOf(t) : Head(s) < f \/ f \in L
<1> DEFINE u == s \o t
<1>1. Tail(s) \in Seq(Nat) /\ Len(s) \in Nat /\ Len(s) >= 1 /\ u \in Seq(Nat)
      /\ DOMAIN Tail(s) = 1..Len(s) - 1 /\ DOMAIN s = 1..Len(s) /\ DOMAIN t = 1..Len(t)
      /\ Len(t) \in Nat
  BY HeadTail, Concatenated
<1>2. 1 \in DOMAIN u /\ u[1] = Head(s)
  BY <1>1, HeadTail, Concatenated
<1>3. ASSUME NEW i \in DOMAIN Tail(s) PROVE Head(s) < Tail(s)[i] \/ Tail(s)[i] \in L
  <2>1. i + 1 \in DOMAIN s /\ s[i + 1] = Tail(s)[i] /\ 1 < i + 1
    BY <1>1, HeadTail
  <2>2. i + 1 \in DOMAIN u /\ u[i + 1] = Tail(s)[i]
    BY <2>1, Concatenated
  <2> QED
    BY <1>2, <2>1, <2>2 DEF Orderly
<1>4. ASSUME NEW i \in DOMAIN t PROVE Head(s) < t[i] \/ t[i] \in L
  <2>1. Len(s) + i \in DOMAIN u /\ u[Len(s) + i] = t[i] /\ 1 < Len(s) + i
    BY <1>1, Concatenated
  <2> QED
    BY <1>2, <2>1 DEF Orderly
<1> QED
  BY <1>3, <1>4 DEF RangeOf

\* What is added in order is late, or above everything before it.
LEMMA OrderlyAdd ==
    ASSUME NEW s \in Seq(Nat), NEW t \in Seq(Nat), NEW L, Orderly(s, L), Sorted(t),
           \A f \in RangeOf(s), e \in RangeOf(t) : f < e \/ e \in L
    PROVE  Orderly(s \o t, L)
<1> DEFINE u == s \o t
<1>1. Len(s) \in Nat /\ Len(t) \in Nat /\ DOMAIN s = 1..Len(s) /\ DOMAIN t = 1..Len(t)
      /\ u \in Seq(Nat) /\ DOMAIN u = 1..Len(s) + Len(t)
  BY Concatenated
<1> SUFFICES ASSUME NEW i \in DOMAIN u, NEW j \in DOMAIN u, i < j
             PROVE  u[i] < u[j] \/ u[j] \in L
  BY DEF Orderly
<1>2. CASE j <= Len(s)
  <2>1. i \in DOMAIN s /\ j \in DOMAIN s
    BY <1>1, <1>2
  <2> QED
    BY <2>1, Concatenated DEF Orderly
<1>3. CASE i <= Len(s) /\ j > Len(s)
  <2>1. i \in DOMAIN s /\ j - Len(s) \in DOMAIN t /\ Len(s) + (j - Len(s)) = j
    BY <1>1, <1>3
  <2>2. u[i] = s[i] /\ u[j] = t[j - Len(s)]
    BY <2>1, Concatenated
  <2> QED
    BY <2>1, <2>2 DEF RangeOf
<1>4. CASE i > Len(s)
  <2>a. i \in Nat /\ j \in Nat /\ i <= Len(s) + Len(t) /\ j <= Len(s) + Len(t) /\ i < j
    BY <1>1
  <2>b. i - Len(s) \in 1..Len(t) /\ j - Len(s) \in 1..Len(t)
    BY <1>1, <1>4, <2>a
  <2>1. i - Len(s) \in DOMAIN t /\ Len(s) + (i - Len(s)) = i
        /\ j - Len(s) \in DOMAIN t /\ Len(s) + (j - Len(s)) = j /\ i - Len(s) < j - Len(s)
    BY <1>1, <2>a, <2>b
  <2>2. u[Len(s) + (i - Len(s))] = t[i - Len(s)] /\ u[Len(s) + (j - Len(s))] = t[j - Len(s)]
    <3> HIDE DEF u
    <3>1. \A k \in DOMAIN t : u[Len(s) + k] = t[k]
      BY Concatenated DEF u
    <3> QED
      BY <2>1, <3>1
  <2>3. u[i] = t[i - Len(s)] /\ u[j] = t[j - Len(s)]
    BY <2>1, <2>2
  <2> QED
    BY <2>1, <2>3 DEF Sorted
<1> QED
  BY <1>1, <1>2, <1>3, <1>4
-----------------------------------------------------------------------------
(* Types and numbers.                                                      *)

EventsSound == EventsTypeOK /\ Numbered

LEMMA SoundInit == EventsInit => EventsSound
<1> SUFFICES ASSUME EventsInit PROVE EventsSound
  OBVIOUS
<1>1. \A c \in Editors : ~Subscribed(c)
  BY DEF EventsInit, Subscribed
<1>2. Durable /\ Numbered
  BY RangeEmpty DEF EventsInit, Durable, Numbered, Seqs
<1>3. nextSeq \in 1..MaxSeq + 1 /\ troubles \in 0..MaxTroubles
  BY SizesAssumption DEF EventsInit
<1>4. \A c \in Editors : Len(queue[c]) <= QueueCap /\ Len(rows[c]) <= ReplayRows
  BY SizesAssumption DEF EventsInit
<1>5. /\ open \in [Writers -> Seq(Seqs)] /\ wire \in Seq(Seqs)
      /\ rows \in [Editors -> Seq(Seqs)] /\ queue \in [Editors -> Seq(Seqs)]
  BY DEF EventsInit
<1>6. /\ seen \in [Editors -> SUBSET Seqs] /\ missed \in [Editors -> SUBSET Seqs]
      /\ replayed \in [Editors -> SUBSET committed] /\ cursor \in [Editors -> {0} \cup committed]
      /\ at \in [Editors -> {"new", "away", "subscribed", "replaying", "live"}]
  BY DEF EventsInit
<1>7. committed \subseteq Seqs /\ late \cup unheard \subseteq committed
      /\ listener \in {"none", "connecting", "listening", "failed"} /\ grace \in BOOLEAN
  BY DEF EventsInit
<1>8. ListenerStays
  BY <1>1 DEF ListenerStays
<1> QED
  BY <1>2, <1>3, <1>4, <1>5, <1>6, <1>7, <1>8 DEF EventsSound, EventsTypeOK

LEMMA SeqsAreNaturals == Seqs \subseteq Nat /\ MaxSeq \in Nat
BY SizesAssumption DEF Seqs

\* A new number is above every number there is.
LEMMA SoundPublish ==
    ASSUME EventsSound, NEW w \in Writers, Publish(w) PROVE EventsSound'
<1>1. nextSeq \in Seqs /\ nextSeq' \in 1..MaxSeq + 1 /\ nextSeq' = nextSeq + 1 /\ nextSeq \in Nat
  BY SizesAssumption DEF Publish, EventsSound, EventsTypeOK, Seqs
<1>2. open[w] \in Seq(Seqs) /\ open' = [open EXCEPT ![w] = Append(open[w], nextSeq)]
  BY DEF Publish, EventsSound, EventsTypeOK
<1>3. /\ Append(open[w], nextSeq) \in Seq(Seqs)
      /\ RangeOf(Append(open[w], nextSeq)) = RangeOf(open[w]) \cup {nextSeq}
  BY <1>1, <1>2, RangeAppend
<1>4. /\ open' \in [Writers -> Seq(Seqs)]
      /\ open'[w] = Append(open[w], nextSeq) /\ \A v \in Writers \ {w} : open'[v] = open[v]
  BY <1>2, <1>3 DEF EventsSound, EventsTypeOK
<1>5. nextSeq \notin committed /\ \A v \in Writers : nextSeq \notin RangeOf(open[v])
  BY <1>1 DEF EventsSound, Numbered
<1>6. Sorted(Append(open[w], nextSeq))
  <2>1. \A i \in DOMAIN open[w] : open[w][i] < nextSeq
    BY <1>2 DEF EventsSound, Numbered, RangeOf
  <2>2. Sorted(open[w])
    BY DEF EventsSound, Numbered
  <2>3. /\ DOMAIN Append(open[w], nextSeq) = 1..Len(open[w]) + 1
        /\ DOMAIN open[w] = 1..Len(open[w]) /\ Len(open[w]) \in Nat
        /\ \A i \in DOMAIN open[w] : Append(open[w], nextSeq)[i] = open[w][i]
        /\ Append(open[w], nextSeq)[Len(open[w]) + 1] = nextSeq
    BY <1>1, <1>2
  <2> QED
    BY <2>1, <2>2, <2>3 DEF Sorted
<1>7. Numbered'
  <2>1. \A e \in committed' : e < nextSeq'
    BY <1>1, SeqsAreNaturals DEF Publish, EventsSound, EventsTypeOK, Numbered, Seqs
  <2>2. \A v \in Writers : Sorted(open'[v]) /\ \A e \in RangeOf(open'[v]) : e < nextSeq'
    <3> SUFFICES ASSUME NEW v \in Writers
                 PROVE  Sorted(open'[v]) /\ \A e \in RangeOf(open'[v]) : e < nextSeq'
      OBVIOUS
    <3>1. \A e \in RangeOf(open[v]) : e < nextSeq /\ e \in Nat
      BY RangeIn, SeqsAreNaturals DEF EventsSound, EventsTypeOK, Numbered
    <3>2. CASE v = w
      <4>1. \A e \in RangeOf(open'[v]) : e \in RangeOf(open[v]) \/ e = nextSeq
        BY <1>3, <1>4, <3>2
      <4>2. \A e \in RangeOf(open'[v]) : e < nextSeq'
        BY <1>1, <3>1, <4>1
      <4> QED
        BY <1>4, <1>6, <3>2, <4>2
    <3>3. CASE v # w
      BY <1>1, <1>4, <3>1, <3>3 DEF EventsSound, Numbered
    <3> QED
      BY <3>2, <3>3
  <2>3. \A u, v \in Writers : u # v => RangeOf(open'[u]) \cap RangeOf(open'[v]) = {}
    <3> SUFFICES ASSUME NEW u \in Writers, NEW v \in Writers, u # v
                 PROVE  RangeOf(open'[u]) \cap RangeOf(open'[v]) = {}
      OBVIOUS
    <3>1. RangeOf(open[u]) \cap RangeOf(open[v]) = {}
      BY DEF EventsSound, Numbered
    <3>2. nextSeq \notin RangeOf(open[u]) /\ nextSeq \notin RangeOf(open[v])
      BY <1>5
    <3>3. CASE u = w
      BY <1>3, <1>4, <3>1, <3>2, <3>3
    <3>4. CASE v = w
      BY <1>3, <1>4, <3>1, <3>2, <3>4
    <3>5. CASE u # w /\ v # w
      BY <1>4, <3>1, <3>5
    <3> QED
      BY <3>3, <3>4, <3>5
  <2> QED
    BY <2>1, <2>2, <2>3 DEF Numbered
<1>8. Durable'
  BY <1>3, <1>4, <1>5 DEF EventsSound, EventsTypeOK, Durable, Publish, listenerVars, streamVars, editorVars
<1> QED
  BY <1>1, <1>4, <1>7, <1>8
     DEF EventsSound, EventsTypeOK, Publish, listenerVars, streamVars, editorVars, history, ListenerStays, Subscribed

LEMMA SoundCommit ==
    ASSUME EventsSound, NEW w \in Writers, Commit(w) PROVE EventsSound'
<1> DEFINE new == RangeOf(open[w])
<1>1. open[w] \in Seq(Seqs) /\ new \subseteq Seqs
  BY RangeIn DEF EventsSound, EventsTypeOK
<1>2. /\ open' \in [Writers -> Seq(Seqs)] /\ committed' = committed \cup new
      /\ open'[w] = <<>> /\ \A v \in Writers \ {w} : open'[v] = open[v]
  BY DEF Commit, EventsSound, EventsTypeOK
<1>3. wire' \in Seq(Seqs) /\ RangeOf(wire') \subseteq RangeOf(wire) \cup new
  BY <1>1, Concatenated DEF Commit, Notify, EventsSound, EventsTypeOK
<1>4. late' \cup unheard' \subseteq committed'
  BY <1>2 DEF Commit, Notify, EventsSound, EventsTypeOK
<1>5. missed' \in [Editors -> SUBSET Seqs]
  BY <1>1 DEF Commit, EventsSound, EventsTypeOK
<1>6. Numbered'
  <2>1. \A v \in Writers : open'[v] = <<>> \/ open'[v] = open[v]
    BY <1>2
  <2> QED
    BY <1>2, <2>1, RangeEmpty DEF Commit, EventsSound, Numbered
<1>7. Durable'
  <2>1. \A v \in Writers : RangeOf(open'[v]) \cap committed' = {}
    BY <1>2, RangeEmpty DEF EventsSound, EventsTypeOK, Durable, Numbered
  <2> QED
    BY <1>2, <1>3, <2>1 DEF EventsSound, EventsTypeOK, Durable, Commit, streamVars, editorVars
<1>8. cursor' \in [Editors -> {0} \cup committed'] /\ replayed' \in [Editors -> SUBSET committed']
  BY <1>2 DEF Commit, EventsSound, EventsTypeOK, editorVars
<1> QED
  BY <1>1, <1>2, <1>3, <1>4, <1>5, <1>6, <1>7, <1>8
     DEF EventsSound, EventsTypeOK, Commit, streamVars, editorVars, ListenerStays, Subscribed

LEMMA SoundRollback ==
    ASSUME EventsSound, NEW w \in Writers, Rollback(w) PROVE EventsSound'
<1>1. /\ open' \in [Writers -> Seq(Seqs)]
      /\ \A v \in Writers : open'[v] = <<>> \/ open'[v] = open[v]
  BY DEF Rollback, EventsSound, EventsTypeOK
<1>2. Numbered'
  BY <1>1, RangeEmpty DEF Rollback, EventsSound, Numbered
<1>3. Durable'
  BY <1>1, RangeEmpty DEF Rollback, EventsSound, EventsTypeOK, Durable, listenerVars, streamVars, editorVars
<1> QED
  BY <1>1, <1>2, <1>3
     DEF EventsSound, EventsTypeOK, Rollback, listenerVars, streamVars, editorVars, history, ListenerStays, Subscribed

LEMMA SoundListener ==
    ASSUME EventsSound, Connect \/ ConnectionFails \/ Broadcast \/ CloseAfterGrace PROVE EventsSound'
<1>n. ASSUME UNCHANGED <<nextSeq, open, committed>> PROVE Numbered'
  BY <1>n DEF EventsSound, Numbered
<1>1. CASE Connect
  BY <1>1, <1>n DEF Connect, EventsSound, EventsTypeOK, writerVars, streamVars, editorVars, history, Durable,
                    ListenerStays, Subscribed
<1>2. CASE ConnectionFails
  <2>1. troubles' \in 0..MaxTroubles
    BY <1>2, SizesAssumption DEF ConnectionFails, Trouble, EventsSound, EventsTypeOK
  <2> QED
    BY <1>2, <1>n, <2>1, RangeEmpty DEF ConnectionFails, EventsSound, EventsTypeOK, writerVars, streamVars, editorVars,
       Durable, ListenerStays, Subscribed
<1>3. CASE Broadcast
  <2> DEFINE e == Head(wire)
  <2>1. e \in Seqs /\ e \in committed /\ Tail(wire) \in Seq(Seqs)
        /\ RangeOf(Tail(wire)) \subseteq committed
    BY <1>3, HeadTail DEF Broadcast, EventsSound, EventsTypeOK, Durable
  <2>2. queue' \in [Editors -> Seq(Seqs)]
    BY <1>3, <2>1 DEF Broadcast, EventsSound, EventsTypeOK
  <2>3. ASSUME NEW c \in Editors
        PROVE  /\ Len(queue'[c]) <= QueueCap
               /\ RangeOf(queue'[c]) \subseteq RangeOf(queue[c]) \cup {e}
    <3>1. queue[c] \in Seq(Seqs) /\ Len(queue[c]) <= QueueCap
      BY DEF EventsSound, EventsTypeOK
    <3>2. CASE queue'[c] = queue[c]
      BY <3>1, <3>2
    <3>3. CASE Len(queue[c]) < QueueCap /\ queue'[c] = Append(queue[c], e)
      BY <2>1, <3>1, <3>3, SizesAssumption, RangeAppend
    <3> QED
      BY <1>3, <3>2, <3>3 DEF Broadcast
  <2>4. missed' \in [Editors -> SUBSET Seqs]
    BY <1>3, <2>1 DEF Broadcast, EventsSound, EventsTypeOK
  <2>5. Durable'
    BY <1>3, <2>1, <2>3 DEF Broadcast, EventsSound, EventsTypeOK, Durable, writerVars, editorVars
  <2> QED
    BY <1>3, <1>n, <2>1, <2>2, <2>3, <2>4, <2>5
       DEF Broadcast, EventsSound, EventsTypeOK, writerVars, editorVars, ListenerStays, Subscribed
<1>4. CASE CloseAfterGrace
  <2>1. \A c \in Editors : ~Subscribed(c) /\ ~Subscribed(c)'
    BY <1>4 DEF CloseAfterGrace, EventsSound, EventsTypeOK, ListenerStays, Subscribed, streamVars
  <2>2. ListenerStays'
    BY <2>1 DEF ListenerStays
  <2>3. Durable'
    BY <1>4, RangeEmpty DEF CloseAfterGrace, EventsSound, EventsTypeOK, Durable, writerVars, streamVars, editorVars
  <2>4. wire' \in Seq(Seqs)
    BY <1>4 DEF CloseAfterGrace
  <2> QED
    BY <1>4, <1>n, <2>2, <2>3, <2>4 DEF CloseAfterGrace, EventsSound, EventsTypeOK, writerVars, streamVars,
       editorVars, history
<1> QED
  BY <1>1, <1>2, <1>3, <1>4

LEMMA SoundStream ==
    ASSUME EventsSound, NEW c \in Editors,
           LoadDefinition(c) \/ Open(c) \/ Replay(c) \/ YieldRow(c) \/ GoLive(c) \/ YieldLive(c) \/ Break(c)
    PROVE  EventsSound'
<1>n. ASSUME UNCHANGED <<nextSeq, open, committed>> PROVE Numbered'
  BY <1>n DEF EventsSound, Numbered
<1>c. committed \subseteq Seqs
  BY DEF EventsSound, EventsTypeOK
<1>1. CASE LoadDefinition(c)
  BY <1>1, <1>n, <1>c DEF LoadDefinition, EventsSound, EventsTypeOK, writerVars, listenerVars, history, Durable,
     ListenerStays, Subscribed
<1>2. CASE Open(c)
  BY <1>2, <1>n DEF Open, EventsSound, EventsTypeOK, writerVars, editorVars, history, Durable,
     ListenerStays, Subscribed
<1>3. CASE Replay(c)
  <2>a. PICK n \in 0..ReplayRows : \E s \in [1..n -> Since(c)] :
           /\ at[c] = "subscribed" /\ at' = [at EXCEPT ![c] = "replaying"]
           /\ rows' = [rows EXCEPT ![c] = s]
           /\ replayed' = [replayed EXCEPT ![c] = RangeOf(s)]
           /\ missed' = [missed EXCEPT ![c] = @ \cup (Since(c) \ RangeOf(s))]
           /\ UNCHANGED <<writerVars, committed, listenerVars, queue, editorVars, late, unheard, troubles>>
    BY <1>3 DEF Replay
  <2>1. PICK s \in [1..n -> Since(c)] :
           /\ at[c] = "subscribed" /\ at' = [at EXCEPT ![c] = "replaying"]
           /\ rows' = [rows EXCEPT ![c] = s]
           /\ replayed' = [replayed EXCEPT ![c] = RangeOf(s)]
           /\ missed' = [missed EXCEPT ![c] = @ \cup (Since(c) \ RangeOf(s))]
           /\ UNCHANGED <<writerVars, committed, listenerVars, queue, editorVars, late, unheard, troubles>>
    BY <2>a
  <2>2. Since(c) \subseteq committed
    BY DEF Since
  <2>3. s \in Seq(Seqs) /\ Len(s) <= ReplayRows /\ RangeOf(s) \subseteq committed
    BY <1>c, <2>2, SizesAssumption DEF RangeOf
  <2> QED
    BY <1>n, <1>c, <2>1, <2>2, <2>3 DEF EventsSound, EventsTypeOK, writerVars, listenerVars, editorVars, Durable,
       ListenerStays, Subscribed
<1>4. CASE YieldRow(c)
  <2>1. Head(rows[c]) \in committed /\ Tail(rows[c]) \in Seq(Seqs)
        /\ Len(Tail(rows[c])) <= ReplayRows /\ RangeOf(Tail(rows[c])) \subseteq committed
    BY <1>4, HeadTail, SizesAssumption DEF YieldRow, EventsSound, EventsTypeOK, Durable
  <2>2. /\ cursor' \in [Editors -> {0} \cup committed]
        /\ seen' \in [Editors -> SUBSET Seqs]
        /\ \A d \in Editors : seen'[d] \subseteq committed
    <3> DEFINE e == Head(rows[c])
    <3>1. CASE e > cursor[c]
      <4>1. /\ cursor' = [cursor EXCEPT ![c] = e]
            /\ seen' = [seen EXCEPT ![c] = seen[c] \cup {e}]
        BY <1>4, <3>1 DEF YieldRow, Applies
      <4>2. cursor \in [Editors -> {0} \cup committed] /\ seen \in [Editors -> SUBSET Seqs]
            /\ \A d \in Editors : seen[d] \subseteq committed
        BY DEF EventsSound, EventsTypeOK, Durable
      <4> HIDE DEF e
      <4>3. e \in committed
        BY <2>1 DEF e
      <4> QED
        BY <1>c, <4>1, <4>2, <4>3
    <3>2. CASE ~(e > cursor[c])
      BY <1>4, <1>c, <3>2 DEF YieldRow, Applies, EventsSound, EventsTypeOK, Durable, editorVars
    <3> QED
      BY <3>1, <3>2
  <2>3. rows' \in [Editors -> Seq(Seqs)] /\ rows'[c] = Tail(rows[c])
        /\ \A d \in Editors : d # c => rows'[d] = rows[d]
    BY <1>4, <2>1 DEF YieldRow, EventsSound, EventsTypeOK
  <2> QED
    BY <1>4, <1>n, <1>c, <2>1, <2>2, <2>3 DEF YieldRow, EventsSound, EventsTypeOK, writerVars, listenerVars,
       history, Durable, ListenerStays, Subscribed
<1>5. CASE GoLive(c)
  BY <1>5, <1>n DEF GoLive, EventsSound, EventsTypeOK, writerVars, listenerVars, editorVars, history, Durable,
     ListenerStays, Subscribed
<1>6. CASE YieldLive(c)
  <2>1. Head(queue[c]) \in committed /\ Tail(queue[c]) \in Seq(Seqs)
        /\ Len(Tail(queue[c])) <= QueueCap /\ RangeOf(Tail(queue[c])) \subseteq committed
    BY <1>6, HeadTail, SizesAssumption DEF YieldLive, EventsSound, EventsTypeOK, Durable
  <2>2. /\ cursor' \in [Editors -> {0} \cup committed]
        /\ seen' \in [Editors -> SUBSET Seqs]
        /\ \A d \in Editors : seen'[d] \subseteq committed
    <3> DEFINE e == Head(queue[c])
    <3>1. CASE e > cursor[c]
      <4>1. /\ cursor' = [cursor EXCEPT ![c] = e]
            /\ seen' = [seen EXCEPT ![c] = seen[c] \cup {e}]
        BY <1>6, <3>1 DEF YieldLive, Applies
      <4>2. cursor \in [Editors -> {0} \cup committed] /\ seen \in [Editors -> SUBSET Seqs]
            /\ \A d \in Editors : seen[d] \subseteq committed
        BY DEF EventsSound, EventsTypeOK, Durable
      <4> HIDE DEF e
      <4>3. e \in committed
        BY <2>1 DEF e
      <4> QED
        BY <1>c, <4>1, <4>2, <4>3
    <3>2. CASE ~(e > cursor[c])
      BY <1>6, <1>c, <3>2 DEF YieldLive, Applies, EventsSound, EventsTypeOK, Durable, editorVars
    <3> QED
      BY <3>1, <3>2
  <2>3. queue' \in [Editors -> Seq(Seqs)] /\ queue'[c] = Tail(queue[c])
        /\ \A d \in Editors : d # c => queue'[d] = queue[d]
    BY <1>6, <2>1 DEF YieldLive, EventsSound, EventsTypeOK
  <2> QED
    BY <1>6, <1>n, <1>c, <2>1, <2>2, <2>3 DEF YieldLive, EventsSound, EventsTypeOK, writerVars, listenerVars,
       history, Durable, ListenerStays, Subscribed
<1>7. CASE Break(c)
  <2>1. RangeOf(queue[c]) \cup RangeOf(wire) \subseteq Seqs
    BY <1>c DEF EventsSound, EventsTypeOK, Durable
  <2>2. missed' \in [Editors -> SUBSET Seqs]
    BY <1>7, <2>1 DEF Break, EventsSound, EventsTypeOK
  <2> QED
    BY <1>7, <1>n, <2>2, RangeEmpty, SizesAssumption DEF Break, EventsSound, EventsTypeOK, writerVars, editorVars, Durable,
       ListenerStays, Subscribed
<1> QED
  BY <1>1, <1>2, <1>3, <1>4, <1>5, <1>6, <1>7

LEMMA SoundStep == EventsSound /\ [EventsNext]_eventsVars => EventsSound'
<1> SUFFICES ASSUME EventsSound, [EventsNext]_eventsVars PROVE EventsSound'
  OBVIOUS
<1>1. CASE UNCHANGED eventsVars
  BY <1>1 DEF eventsVars, writerVars, listenerVars, streamVars, editorVars, history, EventsSound, EventsTypeOK, Numbered,
     Durable, ListenerStays, Subscribed
<1> QED
  BY <1>1, SoundPublish, SoundCommit, SoundRollback, SoundListener, SoundStream DEF EventsNext
-----------------------------------------------------------------------------
(* What each editor misses.                                                *)

LEMMA SeqOfNaturals == ASSUME NEW s \in Seq(Seqs) PROVE s \in Seq(Nat)
<1>0. Len(s) \in Nat /\ DOMAIN s = 1..Len(s) /\ \A i \in 1..Len(s) : s[i] \in Seqs
  OBVIOUS
<1>1. Len(s) \in Nat /\ DOMAIN s = 1..Len(s) /\ \A i \in 1..Len(s) : s[i] \in Nat
  BY <1>0, SeqsAreNaturals
<1>2. s = [i \in 1..Len(s) |-> s[i]]
  OBVIOUS
<1> QED
  BY <1>1, <1>2

LEMMA Typed ==
    ASSUME EventsSound, NEW c \in Editors
    PROVE  /\ committed \subseteq Seqs /\ committed \subseteq Nat
           /\ wire \in Seq(Nat) /\ queue[c] \in Seq(Nat) /\ rows[c] \in Seq(Nat)
           /\ wire \in Seq(Seqs) /\ queue[c] \in Seq(Seqs) /\ rows[c] \in Seq(Seqs)
           /\ RangeOf(wire) \cup RangeOf(queue[c]) \cup RangeOf(rows[c]) \subseteq committed
           /\ seen[c] \subseteq committed /\ replayed[c] \subseteq committed
           /\ cursor[c] \in {0} \cup committed /\ cursor[c] \in Nat
           /\ missed[c] \subseteq Seqs
<1>2. /\ committed \subseteq Seqs /\ committed \subseteq Nat
      /\ wire \in Seq(Seqs) /\ queue[c] \in Seq(Seqs) /\ rows[c] \in Seq(Seqs)
      /\ seen[c] \subseteq committed /\ replayed[c] \subseteq committed
      /\ cursor[c] \in {0} \cup committed /\ missed[c] \subseteq Seqs
  BY SeqsAreNaturals DEF EventsSound, EventsTypeOK, Durable
<1>3. RangeOf(wire) \cup RangeOf(queue[c]) \cup RangeOf(rows[c]) \subseteq committed
  BY DEF EventsSound, EventsTypeOK, Durable
<1>4. wire \in Seq(Nat) /\ queue[c] \in Seq(Nat) /\ rows[c] \in Seq(Nat)
  BY <1>2, SeqOfNaturals
<1>5. cursor[c] \in Nat
  <2>1. cursor[c] = 0 \/ cursor[c] \in committed
    BY <1>2
  <2>2. cursor[c] \in committed => cursor[c] \in Nat
    BY <1>2, Zenon
  <2> QED
    BY <2>1, <2>2
<1> QED
  BY <1>2, <1>3, <1>4, <1>5

LEMMA Joined ==
    \A s \in Seq(Nat), t \in Seq(Nat), u \in Seq(Nat) : (s \o t) \o u = s \o (t \o u)
<1> SUFFICES ASSUME NEW s \in Seq(Nat), NEW t \in Seq(Nat), NEW u \in Seq(Nat)
             PROVE  (s \o t) \o u = s \o (t \o u)
  OBVIOUS
<1> QED
  BY ONLY ConcatAssociative, s \in Seq(Nat), t \in Seq(Nat), u \in Seq(Nat), SMT

LEMMA ClientInit == ASSUME EventsInit, NEW c \in Editors PROVE ClientInv(c)
<1>1. queue[c] \o wire = <<>>
  BY DEF EventsInit
<1>2. Orderly(queue[c] \o wire, late)
  BY <1>1 DEF Orderly
<1> QED
  BY <1>2 DEF EventsInit, ClientInv, Shape, StartExcused, Explained

\* What a step does not touch of an editor stays explained.
LEMMA ClientFrame ==
    ASSUME NEW c \in Editors, ClientInv(c), UNCHANGED <<committed, wire, late, unheard>>,
           at'[c] = at[c], rows'[c] = rows[c], queue'[c] = queue[c], cursor'[c] = cursor[c],
           seen'[c] = seen[c], missed'[c] = missed[c], replayed'[c] = replayed[c]
    PROVE  ClientInv(c)'
<1>1. Excused(c)' = Excused(c) /\ Pending(c)' = Pending(c)
  BY DEF Excused, Pending
<1>2. Shape(c)' /\ StartExcused(c)'
  BY <1>1 DEF ClientInv, Shape, StartExcused
<1>3. (at[c] # "new" => PassedExcused(c)')
  BY <1>1 DEF ClientInv, PassedExcused
<1>4. at[c] = "replaying" => ReplaySound(c)'
  BY <1>1 DEF ClientInv, ReplaySound
<1>5. Explained(c)'
  BY <1>1 DEF ClientInv, Explained
<1> QED
  BY <1>2, <1>3, <1>4, <1>5 DEF ClientInv

LEMMA CommitFacts ==
    ASSUME EventsSound, NEW w \in Writers, Commit(w)
    PROVE  /\ RangeOf(open[w]) \subseteq Nat \ {0} /\ RangeOf(open[w]) \cap committed = {}
           /\ committed' = committed \cup RangeOf(open[w])
           /\ open[w] \in Seq(Nat) /\ open[w] \in Seq(Seqs) /\ Sorted(open[w])
           /\ \A e \in RangeOf(open[w]), f \in committed : f < e \/ e \in late'
           /\ late \subseteq late' /\ unheard \subseteq unheard'
           /\ \/ wire' = wire \o open[w]
              \/ wire' = wire /\ RangeOf(open[w]) \subseteq unheard'
           /\ \A c \in Editors :
                 /\ missed[c] \subseteq missed'[c]
                 /\ at[c] = "away" /\ cursor[c] = 0 => RangeOf(open[w]) \subseteq seen[c] \cup missed'[c]
<1>1. open[w] \in Seq(Seqs) /\ RangeOf(open[w]) \subseteq Seqs
  BY RangeIn DEF EventsSound, EventsTypeOK
<1>2. open[w] \in Seq(Nat) /\ RangeOf(open[w]) \subseteq Nat \ {0}
  BY <1>1, SeqOfNaturals, SeqsAreNaturals DEF Seqs
<1>3. RangeOf(open[w]) \cap committed = {} /\ committed \subseteq Nat /\ Sorted(open[w])
  BY SeqsAreNaturals DEF EventsSound, EventsTypeOK, Durable, Numbered
<1>4. ASSUME NEW e \in RangeOf(open[w]), NEW f \in committed PROVE f < e \/ e \in late'
  <2>1. f # e /\ f \in Nat /\ e \in Nat
    BY <1>2, <1>3
  <2>2. f > e => e \in late'
    BY DEF Commit
  <2> QED
    BY <2>1, <2>2
<1>5. \/ wire' = wire \o open[w]
      \/ wire' = wire /\ RangeOf(open[w]) \subseteq unheard'
  BY DEF Commit, Notify
<1>6. late \subseteq late' /\ unheard \subseteq unheard' /\ committed' = committed \cup RangeOf(open[w])
  BY DEF Commit, Notify
<1>7. \A c \in Editors :
         /\ missed[c] \subseteq missed'[c]
         /\ at[c] = "away" /\ cursor[c] = 0 => RangeOf(open[w]) \subseteq seen[c] \cup missed'[c]
  BY DEF Commit
<1> QED
  BY <1>1, <1>2, <1>3, <1>4, <1>5, <1>6, <1>7

LEMMA ClientCommit ==
    ASSUME EventsSound, NEW w \in Writers, Commit(w), NEW c \in Editors, ClientInv(c)
    PROVE  ClientInv(c)'
<1> DEFINE new == RangeOf(open[w])
<1>0. /\ at'[c] = at[c] /\ rows'[c] = rows[c] /\ queue'[c] = queue[c]
      /\ cursor'[c] = cursor[c] /\ seen'[c] = seen[c] /\ replayed'[c] = replayed[c]
  BY DEF Commit, streamVars, editorVars
<1>a. /\ new \subseteq Nat \ {0} /\ new \cap committed = {} /\ committed' = committed \cup new
      /\ open[w] \in Seq(Nat) /\ open[w] \in Seq(Seqs) /\ Sorted(open[w])
      /\ \A e \in new, f \in committed : f < e \/ e \in late'
      /\ late \subseteq late' /\ unheard \subseteq unheard' /\ missed[c] \subseteq missed'[c]
      /\ at[c] = "away" /\ cursor[c] = 0 => new \subseteq seen[c] \cup missed'[c]
  BY CommitFacts
<1>b. \/ wire' = wire \o open[w]
      \/ wire' = wire /\ new \subseteq unheard'
  BY CommitFacts
<1> HIDE DEF new
<1>1. Excused(c) \subseteq Excused(c)' /\ new \cap replayed[c] = {}
  BY <1>0, <1>a, Typed DEF Excused
<1>2. \A e \in new : e \in late' \/ e \in unheard' => e \in Excused(c)'
  BY <1>0, <1>1 DEF Excused
<1>3. Shape(c)'
  BY <1>0 DEF ClientInv, Shape
<1>4. at'[c] # "new" => PassedExcused(c)'
  <2> SUFFICES ASSUME at[c] # "new", NEW e \in committed', e <= cursor[c]
               PROVE  e \in seen[c] \cup Excused(c)'
    BY <1>0 DEF PassedExcused
  <2>1. CASE e \in committed
    BY <1>1, <2>1 DEF ClientInv, PassedExcused
  <2>2. CASE e \in new
    <3>1. cursor[c] \in committed /\ ~(cursor[c] < e)
      BY <1>a, <2>2, Typed
    <3> QED
      BY <1>2, <1>a, <2>2, <3>1
  <2> QED
    BY <1>a, <2>1, <2>2
<1>5. StartExcused(c)'
  BY <1>0, <1>1, <1>a DEF ClientInv, StartExcused, Excused
<1>6. at'[c] = "replaying" => ReplaySound(c)'
  <2> SUFFICES ASSUME at[c] = "replaying" PROVE ReplaySound(c)'
    BY <1>0
  <2>1. ReplaySound(c)
    BY DEF ClientInv
  <2>2. ASSUME NEW f \in committed'
        PROVE  \/ f \in seen[c] \cup replayed[c] \cup Excused(c)'
               \/ \A r \in RangeOf(rows[c]) : r < f
    <3>1. CASE f \in committed
      BY <1>1, <2>1, <3>1 DEF ReplaySound
    <3>2. CASE f \in new
      BY <1>2, <1>a, <3>2, Typed
    <3> QED
      BY <1>a, <3>1, <3>2
  <2>3. Sorted(rows[c]) /\ (\A r \in RangeOf(rows[c]) : cursor[c] < r)
        /\ replayed[c] \subseteq seen[c] \cup RangeOf(rows[c])
    BY <2>1 DEF ReplaySound
  <2> QED
    BY <1>0, <2>2, <2>3 DEF ReplaySound
<1>7. at'[c] = "live" => replayed'[c] \subseteq seen'[c]
  BY <1>0 DEF ClientInv
<1>8. Orderly(queue[c] \o wire', late')
  <2>1. Orderly(queue[c] \o wire, late')
    BY <1>a, OrderlyMore DEF ClientInv
  <2>2. CASE wire' = wire
    BY <2>1, <2>2
  <2>3. CASE wire' = wire \o open[w]
    <3>1. (queue[c] \o wire) \o open[w] = queue[c] \o (wire \o open[w])
      <4>1. queue[c] \in Seq(Nat) /\ wire \in Seq(Nat) /\ open[w] \in Seq(Nat)
        BY <1>a, Typed
      <4> QED
        BY ONLY <4>1, Joined, Zenon
    <3>2. queue[c] \o wire \in Seq(Nat) /\ RangeOf(queue[c] \o wire) \subseteq committed
      BY Typed, Concatenated
    <3>3. \A f \in RangeOf(queue[c] \o wire), e \in RangeOf(open[w]) : f < e \/ e \in late'
      BY <1>a, <3>2 DEF new
    <3>4. Orderly((queue[c] \o wire) \o open[w], late')
      BY <1>a, <2>1, <3>2, <3>3, OrderlyAdd
    <3> QED
      BY <2>3, <3>1, <3>4
  <2> QED
    BY <1>b, <2>2, <2>3
<1>9. Explained(c)'
  <2>1. RangeOf(wire) \subseteq RangeOf(wire')
        /\ (new \subseteq RangeOf(wire') \/ new \subseteq unheard')
    <3>1. CASE wire' = wire /\ new \subseteq unheard'
      BY <3>1
    <3>2. CASE wire' = wire \o open[w]
      <4>1. RangeOf(wire \o open[w]) = RangeOf(wire) \cup RangeOf(open[w])
        BY <1>a, Typed, Concatenated
      <4> QED
        BY <3>2, <4>1 DEF new
    <3> QED
      BY <1>b, <3>1, <3>2
  <2>2. Pending(c) \subseteq Pending(c)' /\ RangeOf(wire') \subseteq Pending(c)'
    BY <1>0, <2>1 DEF Pending
  <2> QED
    BY <1>0, <1>1, <1>2, <1>a, <2>1, <2>2 DEF ClientInv, Explained
<1> QED
  BY <1>0, <1>3, <1>4, <1>5, <1>6, <1>7, <1>8, <1>9 DEF ClientInv

\* What was said of an editor still holds when only what comes to it changes.
LEMMA ClientKept ==
    ASSUME NEW c \in Editors, ClientInv(c), committed' = committed,
           at'[c] = at[c], rows'[c] = rows[c], cursor'[c] = cursor[c], seen'[c] = seen[c],
           replayed'[c] = replayed[c], Excused(c) \subseteq Excused(c)',
           at[c] \in {"new", "away"} => queue'[c] = <<>>
    PROVE  /\ Shape(c)' /\ StartExcused(c)'
           /\ at'[c] # "new" => PassedExcused(c)'
           /\ at'[c] = "replaying" => ReplaySound(c)'
           /\ at'[c] = "live" => replayed'[c] \subseteq seen'[c]
<1>1. Shape(c)'
  BY DEF ClientInv, Shape
<1>2. StartExcused(c)'
  BY DEF ClientInv, StartExcused
<1>3. at'[c] # "new" => PassedExcused(c)'
  BY DEF ClientInv, PassedExcused
<1>4. at'[c] = "replaying" => ReplaySound(c)'
  <2>1. at[c] = "replaying" => ReplaySound(c)
    BY DEF ClientInv
  <2> QED
    BY <2>1 DEF ReplaySound
<1>5. at'[c] = "live" => replayed'[c] \subseteq seen'[c]
  BY DEF ClientInv
<1> QED
  BY <1>1, <1>2, <1>3, <1>4, <1>5

LEMMA ClientBroadcast ==
    ASSUME EventsSound, Broadcast, NEW c \in Editors, ClientInv(c)
    PROVE  ClientInv(c)'
<1> DEFINE e == Head(wire)
           room == Subscribed(c) /\ Len(queue[c]) < QueueCap
<1>0. /\ at'[c] = at[c] /\ rows'[c] = rows[c] /\ cursor'[c] = cursor[c] /\ seen'[c] = seen[c]
      /\ replayed'[c] = replayed[c] /\ committed' = committed /\ late' = late /\ unheard' = unheard
  BY DEF Broadcast, editorVars
<1>1. /\ wire # <<>> /\ wire' = Tail(wire)
      /\ queue'[c] = IF room THEN Append(queue[c], e) ELSE queue[c]
      /\ missed'[c] = IF Subscribed(c) /\ ~room THEN missed[c] \cup {e} ELSE missed[c]
  BY DEF Broadcast
<1>2. RangeOf(wire) = {e} \cup RangeOf(Tail(wire)) /\ e \in Nat
  BY <1>1, Typed, HeadTail
<1> HIDE DEF e
<1>3. Excused(c) \subseteq Excused(c)' /\ (Subscribed(c) /\ ~room => e \in Excused(c)')
  BY <1>0, <1>1 DEF Excused
<1>4. at[c] \in {"new", "away"} => queue'[c] = <<>>
  BY <1>1 DEF Subscribed, ClientInv, Shape
<1>5. /\ Shape(c)' /\ StartExcused(c)'
      /\ at'[c] # "new" => PassedExcused(c)'
      /\ at'[c] = "replaying" => ReplaySound(c)'
      /\ at'[c] = "live" => replayed'[c] \subseteq seen'[c]
  BY <1>0, <1>3, <1>4, ClientKept
<1>6. Orderly(queue'[c] \o wire', late')
  <2>1. Orderly(queue[c] \o wire, late) /\ queue[c] \in Seq(Nat) /\ wire \in Seq(Nat)
    BY Typed DEF ClientInv
  <2>2. CASE room
    BY <1>0, <1>1, <2>1, <2>2, OrderlyMove DEF e
  <2>3. CASE ~room
    BY <1>0, <1>1, <2>1, <2>3, OrderlyDrop
  <2> QED
    BY <2>2, <2>3
<1>7. Explained(c)'
  <2> SUFFICES ASSUME at[c] \in {"replaying", "live"}
               PROVE  committed \subseteq seen[c] \cup Pending(c)' \cup Excused(c)'
    BY <1>0 DEF Explained
  <2>1. Subscribed(c)
    BY DEF Subscribed
  <2>2. Pending(c) \subseteq Pending(c)' \cup {e} /\ (room => e \in RangeOf(queue'[c]))
        /\ RangeOf(queue'[c]) \subseteq Pending(c)'
    <3>1. CASE room
      <4>1. RangeOf(queue'[c]) = RangeOf(queue[c]) \cup {e}
        <5>1. queue'[c] = Append(queue[c], e) /\ queue[c] \in Seq(Nat)
          BY <1>1, <3>1, Typed
        <5>2. RangeOf(Append(queue[c], e)) = RangeOf(queue[c]) \cup {e}
          BY <1>2, <5>1, RangeAppend
        <5> QED
          BY <5>1, <5>2
      <4> QED
        BY <1>0, <1>1, <1>2, <4>1 DEF Pending
    <3>2. CASE ~room
      BY <1>0, <1>1, <1>2, <3>2 DEF Pending
    <3> QED
      BY <3>1, <3>2
  <2>3. committed \subseteq seen[c] \cup Pending(c) \cup Excused(c)
    BY DEF ClientInv, Explained
  <2> QED
    BY <1>3, <2>1, <2>2, <2>3
<1> QED
  BY <1>5, <1>6, <1>7 DEF ClientInv

LEMMA ClientFails ==
    ASSUME EventsSound, ConnectionFails, NEW c \in Editors, ClientInv(c)
    PROVE  ClientInv(c)'
<1>0. /\ at'[c] = at[c] /\ rows'[c] = rows[c] /\ cursor'[c] = cursor[c] /\ seen'[c] = seen[c]
      /\ replayed'[c] = replayed[c] /\ committed' = committed /\ late' = late /\ queue'[c] = queue[c]
      /\ missed'[c] = missed[c] /\ wire' = <<>> /\ unheard' = unheard \cup RangeOf(wire)
  BY DEF ConnectionFails, streamVars, editorVars
<1>1. Excused(c) \subseteq Excused(c)' /\ RangeOf(wire) \ replayed[c] \subseteq Excused(c)'
  BY <1>0 DEF Excused
<1>2. at[c] \in {"new", "away"} => queue'[c] = <<>>
  BY <1>0 DEF ClientInv, Shape
<1>3. /\ Shape(c)' /\ StartExcused(c)'
      /\ at'[c] # "new" => PassedExcused(c)'
      /\ at'[c] = "replaying" => ReplaySound(c)'
      /\ at'[c] = "live" => replayed'[c] \subseteq seen'[c]
  BY <1>0, <1>1, <1>2, ClientKept
<1>4. Orderly(queue'[c] \o wire', late')
  <2>1. Orderly(queue[c], late)
    BY Typed, OrderlyRight DEF ClientInv
  <2>2. queue[c] \o <<>> = queue[c]
    BY Typed, ConcatEmptySeq
  <2> QED
    BY <1>0, <2>1, <2>2
<1>5. Explained(c)'
  <2> SUFFICES ASSUME at[c] \in {"replaying", "live"}
               PROVE  committed \subseteq seen[c] \cup Pending(c)' \cup Excused(c)'
    BY <1>0 DEF Explained
  <2>1. replayed[c] \subseteq seen[c] \cup Pending(c)'
    BY <1>0 DEF ClientInv, ReplaySound, Pending
  <2>2. Pending(c) \subseteq Pending(c)' \cup RangeOf(wire)
    BY <1>0 DEF Pending
  <2>3. committed \subseteq seen[c] \cup Pending(c) \cup Excused(c)
    BY DEF ClientInv, Explained
  <2> QED
    BY <1>1, <2>1, <2>2, <2>3
<1> QED
  BY <1>3, <1>4, <1>5 DEF ClientInv

\* Nobody is there to miss what was on the wire.
LEMMA ClientClose ==
    ASSUME EventsSound, CloseAfterGrace, NEW c \in Editors, ClientInv(c)
    PROVE  ClientInv(c)'
<1>0. /\ at'[c] = at[c] /\ rows'[c] = rows[c] /\ cursor'[c] = cursor[c] /\ seen'[c] = seen[c]
      /\ replayed'[c] = replayed[c] /\ committed' = committed /\ late' = late /\ queue'[c] = queue[c]
      /\ missed'[c] = missed[c] /\ wire' = <<>> /\ unheard' = unheard
  BY DEF CloseAfterGrace, streamVars, editorVars, history
<1>1. Excused(c)' = Excused(c)
  BY <1>0 DEF Excused
<1>2. at[c] \in {"new", "away"} => queue'[c] = <<>>
  BY <1>0 DEF ClientInv, Shape
<1>3. /\ Shape(c)' /\ StartExcused(c)'
      /\ at'[c] # "new" => PassedExcused(c)'
      /\ at'[c] = "replaying" => ReplaySound(c)'
      /\ at'[c] = "live" => replayed'[c] \subseteq seen'[c]
  BY <1>0, <1>1, <1>2, ClientKept
<1>4. Orderly(queue'[c] \o wire', late')
  <2>1. Orderly(queue[c], late)
    BY Typed, OrderlyRight DEF ClientInv
  <2>2. queue[c] \o <<>> = queue[c]
    BY Typed, ConcatEmptySeq
  <2> QED
    BY <1>0, <2>1, <2>2
<1>5. Explained(c)'
  BY <1>0 DEF EventsSound, EventsTypeOK, ListenerStays, CloseAfterGrace, Subscribed, Explained
<1> QED
  BY <1>3, <1>4, <1>5 DEF ClientInv

-----------------------------------------------------------------------------
(* An editor's own steps.                                                  *)

LEMMA SortedTail ==
    ASSUME NEW s \in Seq(Nat), s # <<>>, Sorted(s)
    PROVE  Sorted(Tail(s)) /\ \A r \in RangeOf(Tail(s)) : Head(s) < r
<1>1. /\ Len(s) \in Nat /\ Len(s) >= 1 /\ DOMAIN s = 1..Len(s) /\ DOMAIN Tail(s) = 1..Len(s) - 1
      /\ Head(s) = s[1] /\ \A i \in DOMAIN Tail(s) : i + 1 \in DOMAIN s /\ Tail(s)[i] = s[i + 1]
  BY HeadTail
<1>2. \A i, j \in DOMAIN Tail(s) : i < j => i + 1 < j + 1
  BY <1>1
<1>3. Sorted(Tail(s))
  BY <1>1, <1>2 DEF Sorted
<1>4. ASSUME NEW i \in DOMAIN Tail(s) PROVE Head(s) < Tail(s)[i]
  <2>1. 1 \in DOMAIN s /\ i + 1 \in DOMAIN s /\ 1 < i + 1
    BY <1>1
  <2> QED
    BY <1>1, <2>1 DEF Sorted
<1> QED
  BY <1>3, <1>4 DEF RangeOf

LEMMA ClientOpens ==
    ASSUME EventsSound, NEW c \in Editors, LoadDefinition(c) \/ Open(c), ClientInv(c)
    PROVE  ClientInv(c)'
<1>t. at \in [Editors -> {"new", "away", "subscribed", "replaying", "live"}]
      /\ seen \in [Editors -> SUBSET Seqs]
  BY DEF EventsSound, EventsTypeOK
<1>1. CASE LoadDefinition(c)
  <2>0. /\ at[c] = "new" /\ at'[c] = "away" /\ seen'[c] = committed /\ committed' = committed
        /\ rows'[c] = rows[c] /\ queue'[c] = queue[c] /\ cursor'[c] = cursor[c]
        /\ replayed'[c] = replayed[c] /\ wire' = wire /\ late' = late
    BY <1>1, <1>t DEF LoadDefinition, listenerVars, history
  <2>1. Shape(c)' /\ PassedExcused(c)' /\ StartExcused(c)' /\ Explained(c)'
    BY <2>0 DEF ClientInv, Shape, PassedExcused, StartExcused, Explained
  <2> QED
    BY <2>0, <2>1 DEF ClientInv
<1>2. CASE Open(c)
  <2>0. /\ at[c] = "away" /\ at'[c] = IF cursor[c] = 0 THEN "live" ELSE "subscribed"
        /\ seen'[c] = seen[c] /\ committed' = committed
        /\ rows'[c] = rows[c] /\ queue'[c] = queue[c] /\ cursor'[c] = cursor[c]
        /\ replayed'[c] = replayed[c] /\ missed'[c] = missed[c]
        /\ wire' = wire /\ late' = late /\ unheard' = unheard
    BY <1>2, <1>t DEF Open, editorVars, history
  <2>1. Excused(c)' = Excused(c) /\ Shape(c)
    BY <2>0 DEF Excused, ClientInv
  <2>2. Shape(c)' /\ (at'[c] = "live" => replayed'[c] \subseteq seen'[c])
    BY <2>0, <2>1 DEF Shape
  <2>3. PassedExcused(c)' /\ StartExcused(c)'
    BY <2>0, <2>1 DEF ClientInv, PassedExcused, StartExcused
  <2>4. Explained(c)'
    BY <2>0, <2>1 DEF ClientInv, StartExcused, Explained
  <2>5. Orderly(queue'[c] \o wire', late')
    BY <2>0 DEF ClientInv
  <2> QED
    BY <2>0, <2>2, <2>3, <2>4, <2>5 DEF ClientInv
<1> QED
  BY <1>1, <1>2

LEMMA ClientReplay ==
    ASSUME EventsSound, NEW c \in Editors, Replay(c), ClientInv(c)
    PROVE  ClientInv(c)'
<1>1. PICK n \in 0..ReplayRows : \E s \in [1..n -> Since(c)] :
         /\ Sorted(s) /\ at[c] = "subscribed" /\ at' = [at EXCEPT ![c] = "replaying"]
         /\ rows' = [rows EXCEPT ![c] = s]
         /\ replayed' = [replayed EXCEPT ![c] = RangeOf(s)]
         /\ missed' = [missed EXCEPT ![c] = @ \cup (Since(c) \ RangeOf(s))]
         /\ UNCHANGED <<writerVars, committed, listenerVars, queue, editorVars, late, unheard, troubles>>
  BY DEF Replay, IsReplay
<1>2. PICK s \in [1..n -> Since(c)] :
         /\ Sorted(s) /\ at[c] = "subscribed" /\ at' = [at EXCEPT ![c] = "replaying"]
         /\ rows' = [rows EXCEPT ![c] = s]
         /\ replayed' = [replayed EXCEPT ![c] = RangeOf(s)]
         /\ missed' = [missed EXCEPT ![c] = @ \cup (Since(c) \ RangeOf(s))]
         /\ UNCHANGED <<writerVars, committed, listenerVars, queue, editorVars, late, unheard, troubles>>
  BY <1>1
<1> DEFINE found == RangeOf(s)
<1>3. found \subseteq Since(c)
  BY DEF RangeOf
<1>0. /\ at'[c] = "replaying" /\ rows'[c] = s /\ replayed'[c] = found
      /\ missed'[c] = missed[c] \cup (Since(c) \ found) /\ queue'[c] = queue[c]
      /\ cursor'[c] = cursor[c] /\ seen'[c] = seen[c] /\ wire' = wire /\ late' = late
      /\ unheard' = unheard /\ committed' = committed
  BY <1>2 DEF EventsSound, EventsTypeOK, listenerVars, editorVars
<1>4. found \subseteq committed /\ (\A e \in found : cursor[c] < e)
      /\ Shape(c) /\ replayed[c] = {} /\ cursor[c] # 0 /\ PassedExcused(c)
  BY <1>2, <1>3, Typed DEF Since, ClientInv, Shape
<1>5. ASSUME NEW e \in committed PROVE e \in seen[c] \cup Excused(c)' \/ e \in found
  <2>1. e \in Nat /\ cursor[c] \in Nat
    BY Typed
  <2>2. CASE e <= cursor[c]
    BY <1>0, <1>4, <2>2 DEF PassedExcused, Excused
  <2>3. CASE e > cursor[c]
    BY <1>0, <2>3 DEF Since, Excused
  <2> QED
    BY <2>1, <2>2, <2>3
<1>6. PassedExcused(c)'
  <2> SUFFICES ASSUME NEW e \in committed, e <= cursor[c] PROVE e \in seen[c] \cup Excused(c)'
    BY <1>0 DEF PassedExcused
  <2>1. e \notin found
    BY <1>4, Typed
  <2> QED
    BY <1>5, <2>1
<1> HIDE DEF found
<1>7. ReplaySound(c)'
  <2>1. Sorted(rows'[c]) /\ RangeOf(rows'[c]) = found
    BY <1>0, <1>2 DEF found
  <2> QED
    BY <1>0, <1>4, <1>5, <2>1 DEF ReplaySound
<1>8. Explained(c)'
  <2>1. found \subseteq Pending(c)'
    BY <1>0 DEF Pending, found
  <2> QED
    BY <1>0, <1>5, <2>1 DEF Explained
<1>9. Shape(c)' /\ StartExcused(c)' /\ Orderly(queue'[c] \o wire', late')
  BY <1>0, <1>4 DEF Shape, StartExcused, ClientInv
<1> QED
  BY <1>0, <1>6, <1>7, <1>8, <1>9 DEF ClientInv

\* The rows are in order, so what the cursor passes is excused.
LEMMA ClientYieldsRow ==
    ASSUME EventsSound, NEW c \in Editors, YieldRow(c), ClientInv(c)
    PROVE  ClientInv(c)'
<1> DEFINE e == Head(rows[c])  rest == RangeOf(Tail(rows[c]))
<1>1. /\ ReplaySound(c) /\ Shape(c) /\ at[c] = "replaying" /\ rows[c] # <<>>
      /\ rows[c] \in Seq(Nat) /\ RangeOf(rows[c]) = {e} \cup rest /\ Tail(rows[c]) \in Seq(Nat)
  BY Typed, HeadTail DEF YieldRow, ClientInv
<1>2. Sorted(Tail(rows[c])) /\ (\A r \in rest : e < r) /\ e > cursor[c] /\ e # 0
      /\ e \in committed /\ e \in Nat /\ cursor[c] \in Nat
  <2>1. e \in committed /\ e \in Nat /\ cursor[c] \in Nat
    BY <1>1, Typed
  <2>2. e > cursor[c]
    BY <1>1, <2>1 DEF ReplaySound
  <2>3. Sorted(Tail(rows[c])) /\ \A r \in rest : e < r
    BY <1>1, SortedTail DEF ReplaySound
  <2> QED
    BY <2>1, <2>2, <2>3
<1>0. /\ at'[c] = at[c] /\ rows'[c] = Tail(rows[c]) /\ replayed'[c] = replayed[c]
      /\ missed'[c] = missed[c] /\ queue'[c] = queue[c] /\ cursor'[c] = e
      /\ seen'[c] = seen[c] \cup {e} /\ wire' = wire /\ late' = late
      /\ unheard' = unheard /\ committed' = committed
  BY <1>2 DEF YieldRow, Applies, EventsSound, EventsTypeOK, listenerVars, history
<1>3. Excused(c)' = Excused(c)
  BY <1>0 DEF Excused
<1>4. \A f \in committed : f <= e => f \in seen'[c] \cup Excused(c)
  <2> SUFFICES ASSUME NEW f \in committed, f <= e, f # e PROVE f \in seen[c] \cup Excused(c)
    BY <1>0
  <2>1. f \in Nat /\ ~(e < f)
    BY <1>2, Typed
  <2>2. f \in seen[c] \cup replayed[c] \cup Excused(c)
    BY <1>1, <2>1 DEF ReplaySound
  <2>3. f \notin rest
    BY <1>2, <2>1
  <2> QED
    BY <1>1, <2>2, <2>3 DEF ReplaySound
<1> HIDE DEF e
<1>5. PassedExcused(c)'
  BY <1>0, <1>3, <1>4 DEF PassedExcused
<1>6. ReplaySound(c)'
  <2>1. RangeOf(rows'[c]) = rest
    BY <1>0
  <2>2. replayed[c] \subseteq seen'[c] \cup rest
    BY <1>0, <1>1 DEF ReplaySound
  <2>3. \A f \in committed : \/ f \in seen'[c] \cup replayed[c] \cup Excused(c)
                             \/ \A r \in rest : r < f
    BY <1>0, <1>1 DEF ReplaySound
  <2> HIDE DEF rest
  <2> QED
    BY <1>0, <1>2, <1>3, <2>1, <2>2, <2>3 DEF ReplaySound
<1>7. Explained(c)'
  <2>1. Pending(c) \subseteq Pending(c)' \cup {e}
    BY <1>0, <1>1 DEF Pending
  <2> QED
    BY <1>0, <1>1, <1>3, <2>1 DEF ClientInv, Explained
<1>8. Shape(c)' /\ StartExcused(c)' /\ Orderly(queue'[c] \o wire', late')
  BY <1>0, <1>1, <1>2 DEF Shape, StartExcused, ClientInv
<1> QED
  BY <1>0, <1>1, <1>5, <1>6, <1>7, <1>8 DEF ClientInv

LEMMA ClientGoesLive ==
    ASSUME EventsSound, NEW c \in Editors, GoLive(c), ClientInv(c)
    PROVE  ClientInv(c)'
<1>0. /\ at[c] = "replaying" /\ at'[c] = "live" /\ rows[c] = <<>> /\ rows'[c] = rows[c]
      /\ replayed'[c] = replayed[c] /\ missed'[c] = missed[c] /\ queue'[c] = queue[c]
      /\ cursor'[c] = cursor[c] /\ seen'[c] = seen[c] /\ wire' = wire /\ late' = late
      /\ unheard' = unheard /\ committed' = committed
  BY DEF GoLive, EventsSound, EventsTypeOK, listenerVars, editorVars, history
<1>1. Excused(c)' = Excused(c) /\ Pending(c)' = Pending(c)
  BY <1>0 DEF Excused, Pending
<1>2. Shape(c)' /\ StartExcused(c)' /\ PassedExcused(c)' /\ Explained(c)'
  BY <1>0, <1>1 DEF ClientInv, Shape, StartExcused, PassedExcused, Explained
<1>3. replayed'[c] \subseteq seen'[c]
  BY <1>0, RangeEmpty DEF ClientInv, ReplaySound
<1> QED
  BY <1>0, <1>2, <1>3 DEF ClientInv

\* Below the head of the queue, what is still to come is late, and no replay
\* found it.
LEMMA ClientYieldsLive ==
    ASSUME EventsSound, NEW c \in Editors, YieldLive(c), ClientInv(c)
    PROVE  ClientInv(c)'
<1> DEFINE e == Head(queue[c])  rest == RangeOf(Tail(queue[c]))
<1>1. /\ Shape(c) /\ at[c] = "live" /\ queue[c] # <<>> /\ rows[c] = <<>>
      /\ queue[c] \in Seq(Nat) /\ wire \in Seq(Nat) /\ RangeOf(queue[c]) = {e} \cup rest
      /\ Orderly(queue[c] \o wire, late) /\ PassedExcused(c) /\ replayed[c] \subseteq seen[c]
      /\ committed \subseteq seen[c] \cup Pending(c) \cup Excused(c)
  BY Typed, HeadTail DEF YieldLive, ClientInv, Shape, Explained
<1>2. e \in committed /\ e \in Nat /\ cursor[c] \in Nat
  BY <1>1, Typed
<1>3. Orderly(Tail(queue[c]) \o wire, late)
  BY <1>1, OrderlyTail
<1>4. \A f \in rest \cup RangeOf(wire) : e < f \/ f \in late
  BY <1>1, OrderlyHead
<1>5. Pending(c) = {e} \cup rest \cup RangeOf(wire)
  BY <1>1, RangeEmpty DEF Pending
<1>0. /\ at'[c] = at[c] /\ queue'[c] = Tail(queue[c]) /\ replayed'[c] = replayed[c]
      /\ missed'[c] = missed[c] /\ rows'[c] = rows[c] /\ wire' = wire /\ late' = late
      /\ unheard' = unheard /\ committed' = committed
  BY DEF YieldLive, EventsSound, EventsTypeOK, listenerVars, history
<1>6. Excused(c)' = Excused(c) /\ Pending(c)' = rest \cup RangeOf(wire)
  BY <1>0, <1>1, RangeEmpty DEF Excused, Pending
<1>7. CASE e > cursor[c]
  <2>0. cursor'[c] = e /\ seen'[c] = seen[c] \cup {e}
    BY <1>7 DEF YieldLive, Applies, EventsSound, EventsTypeOK
  <2>1. \A f \in committed : f <= e => f \in seen'[c] \cup Excused(c)
    <3> SUFFICES ASSUME NEW f \in committed, f <= e, f # e, f \notin seen[c] PROVE f \in Excused(c)
      BY <2>0
    <3>1. f \in Nat /\ ~(e < f)
      BY <1>2, Typed
    <3>2. f \in rest \cup RangeOf(wire) => f \in late
      BY <1>4, <3>1
    <3> QED
      BY <1>1, <1>5, <3>2 DEF Excused
  <2> HIDE DEF e, rest
  <2>2. PassedExcused(c)'
    BY <1>0, <1>6, <2>0, <2>1 DEF PassedExcused
  <2>3. Explained(c)'
    BY <1>0, <1>1, <1>5, <1>6, <2>0 DEF Explained
  <2>4. Shape(c)' /\ StartExcused(c)' /\ replayed'[c] \subseteq seen'[c]
    BY <1>0, <1>1, <2>0 DEF Shape, StartExcused
  <2> QED
    BY <1>0, <1>1, <1>3, <2>2, <2>3, <2>4 DEF ClientInv
<1>8. CASE ~(e > cursor[c])
  <2>0. cursor'[c] = cursor[c] /\ seen'[c] = seen[c]
    BY <1>8 DEF YieldLive, Applies, editorVars
  <2>1. e \in seen[c] \cup Excused(c)
    BY <1>1, <1>2, <1>8 DEF PassedExcused
  <2> HIDE DEF e, rest
  <2>2. PassedExcused(c)'
    BY <1>0, <1>1, <1>6, <2>0 DEF PassedExcused
  <2>3. Explained(c)'
    BY <1>0, <1>1, <1>5, <1>6, <2>0, <2>1 DEF Explained
  <2>4. Shape(c)' /\ StartExcused(c)' /\ replayed'[c] \subseteq seen'[c]
    BY <1>0, <1>1, <2>0 DEF Shape, StartExcused
  <2> QED
    BY <1>0, <1>1, <1>3, <2>2, <2>3, <2>4 DEF ClientInv
<1> QED
  BY <1>7, <1>8

\* An editor without a cursor gives up what is on its way; another finds it in
\* its next replay.
LEMMA ClientBreaks ==
    ASSUME EventsSound, NEW c \in Editors, Break(c), ClientInv(c)
    PROVE  ClientInv(c)'
<1>0. /\ Subscribed(c) /\ at'[c] = "away" /\ rows'[c] = <<>> /\ queue'[c] = <<>>
      /\ missed'[c] = IF cursor[c] = 0
                      THEN missed[c] \cup ((RangeOf(queue[c]) \cup RangeOf(wire)) \ seen[c])
                      ELSE missed[c]
      /\ replayed'[c] = {} /\ cursor'[c] = cursor[c] /\ seen'[c] = seen[c]
      /\ wire' = wire /\ late' = late /\ unheard' = unheard /\ committed' = committed
  BY DEF Break, EventsSound, EventsTypeOK, editorVars
<1>1. Excused(c) \subseteq Excused(c)'
  BY <1>0 DEF Excused
<1>2. Shape(c)' /\ Explained(c)'
  BY <1>0 DEF Shape, Explained
<1>3. PassedExcused(c)'
  BY <1>0, <1>1 DEF Subscribed, ClientInv, PassedExcused
<1>4. StartExcused(c)'
  <2> SUFFICES ASSUME cursor[c] = 0 PROVE committed \subseteq seen[c] \cup Excused(c)'
    BY <1>0 DEF StartExcused
  <2>1. at[c] = "live" /\ rows[c] = <<>>
    BY <1>0 DEF Subscribed, ClientInv, Shape
  <2>2. committed \subseteq seen[c] \cup RangeOf(queue[c]) \cup RangeOf(wire) \cup Excused(c)
    BY <2>1, RangeEmpty DEF ClientInv, Explained, Pending
  <2>3. (RangeOf(queue[c]) \cup RangeOf(wire)) \ seen[c] \subseteq Excused(c)'
    BY <1>0 DEF Excused
  <2> QED
    BY <1>1, <2>2, <2>3
<1>5. Orderly(queue'[c] \o wire', late')
  <2>1. Orderly(wire, late)
    BY Typed, OrderlyRight DEF ClientInv
  <2>2. <<>> \o wire = wire
    BY Typed, ConcatEmptySeq
  <2> QED
    BY <1>0, <2>1, <2>2
<1> QED
  BY <1>0, <1>2, <1>3, <1>4, <1>5 DEF ClientInv

LEMMA OtherClients ==
    ASSUME EventsSound, NEW c \in Editors, NEW d \in Editors, d # c, ClientInv(d),
           LoadDefinition(c) \/ Open(c) \/ Replay(c) \/ YieldRow(c) \/ GoLive(c) \/ YieldLive(c) \/ Break(c)
    PROVE  ClientInv(d)'
<1>t. /\ DOMAIN at = Editors /\ DOMAIN rows = Editors /\ DOMAIN queue = Editors
      /\ DOMAIN cursor = Editors /\ DOMAIN seen = Editors /\ DOMAIN missed = Editors
      /\ DOMAIN replayed = Editors
  BY DEF EventsSound, EventsTypeOK
<1> DEFINE same == /\ UNCHANGED <<committed, wire, late, unheard>>
                   /\ at'[d] = at[d] /\ rows'[d] = rows[d] /\ queue'[d] = queue[d]
                   /\ cursor'[d] = cursor[d] /\ seen'[d] = seen[d]
                   /\ missed'[d] = missed[d] /\ replayed'[d] = replayed[d]
<1>1. CASE LoadDefinition(c)
  <2>1. same
    BY <1>t, <1>1 DEF LoadDefinition, listenerVars, history
  <2> QED
    BY <2>1, ClientFrame
<1>2. CASE Open(c)
  <2>1. same
    BY <1>t, <1>2 DEF Open, editorVars, history
  <2> QED
    BY <2>1, ClientFrame
<1>3. CASE Replay(c)
  <2>1. same
    BY <1>t, <1>3 DEF Replay, listenerVars, editorVars
  <2> QED
    BY <2>1, ClientFrame
<1>4. CASE YieldRow(c)
  <2>1. same
    BY <1>t, <1>4 DEF YieldRow, Applies, listenerVars, editorVars, history
  <2> QED
    BY <2>1, ClientFrame
<1>5. CASE GoLive(c)
  <2>1. same
    BY <1>t, <1>5 DEF GoLive, listenerVars, editorVars, history
  <2> QED
    BY <2>1, ClientFrame
<1>6. CASE YieldLive(c)
  <2>1. same
    BY <1>t, <1>6 DEF YieldLive, Applies, listenerVars, editorVars, history
  <2> QED
    BY <2>1, ClientFrame
<1>7. CASE Break(c)
  <2>1. same
    BY <1>t, <1>7 DEF Break, editorVars
  <2> QED
    BY <2>1, ClientFrame
<1> QED
  BY <1>1, <1>2, <1>3, <1>4, <1>5, <1>6, <1>7

-----------------------------------------------------------------------------
LEMMA ClientStep ==
    ASSUME EventsSound, [EventsNext]_eventsVars, NEW c \in Editors, ClientInv(c)
    PROVE  ClientInv(c)'
<1>1. CASE \E w \in Writers : Commit(w)
  BY <1>1, ClientCommit
<1>2. CASE \E w \in Writers : Publish(w) \/ Rollback(w)
  BY <1>2, ClientFrame DEF Publish, Rollback, listenerVars, streamVars, editorVars, history
<1>3. CASE Connect
  BY <1>3, ClientFrame DEF Connect, streamVars, editorVars, history
<1>4. CASE Broadcast \/ ConnectionFails \/ CloseAfterGrace
  BY <1>4, ClientBroadcast, ClientFails, ClientClose
<1>5. CASE \E d \in Editors : LoadDefinition(d) \/ Open(d) \/ Replay(d) \/ YieldRow(d)
                                 \/ GoLive(d) \/ YieldLive(d) \/ Break(d)
  <2> PICK d \in Editors : LoadDefinition(d) \/ Open(d) \/ Replay(d) \/ YieldRow(d)
                                 \/ GoLive(d) \/ YieldLive(d) \/ Break(d)
    BY <1>5
  <2>1. CASE d = c
    BY <2>1, ClientOpens, ClientReplay, ClientYieldsRow, ClientGoesLive, ClientYieldsLive, ClientBreaks
  <2>2. CASE d # c
    BY <2>2, OtherClients
  <2> QED
    BY <2>1, <2>2
<1>6. CASE UNCHANGED eventsVars
  BY <1>6, ClientFrame DEF eventsVars, writerVars, listenerVars, streamVars, editorVars, history
<1> QED
  BY <1>1, <1>2, <1>3, <1>4, <1>5, <1>6 DEF EventsNext

LEMMA Inductive == EventsInv /\ [EventsNext]_eventsVars => EventsInv'
<1> SUFFICES ASSUME EventsInv, [EventsNext]_eventsVars PROVE EventsInv'
  OBVIOUS
<1>1. EventsSound /\ EventsSound'
  BY SoundStep DEF EventsInv, EventsSound
<1>2. \A c \in Editors : ClientInv(c)'
  BY <1>1, ClientStep DEF EventsInv
<1> QED
  BY <1>1, <1>2 DEF EventsInv, EventsSound

LEMMA Invariance == EventsSpec => []EventsInv
<1>1. EventsInit => EventsInv
  BY SoundInit, ClientInit DEF EventsInv, EventsSound
<1> QED
  BY <1>1, Inductive, PTL DEF EventsSpec

\* Nothing that was rolled back reaches an editor, no queue is overrun, and the
\* listener is not dropped under an open stream.
THEOREM EventsTypeCorrect == EventsSpec => []EventsTypeOK
BY Invariance, PTL DEF EventsInv

\* The streams of definition_event_service.py and the cursor of the editor lose
\* no event but for the reasons MissedExplained names.
THEOREM NothingLostUnexplained == EventsSpec => []MissedExplained
<1>1. EventsInv => MissedExplained
  BY DEF EventsInv, ClientInv, Explained, Excused, MissedExplained
<1> QED
  BY <1>1, Invariance, PTL
==============================================================================
