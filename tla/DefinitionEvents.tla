-------------------------- MODULE DefinitionEvents --------------------------
(***************************************************************************)
(* The stream of the definition events of one workflow                     *)
(* (services/definition_event_service.py) and its reader, the editor       *)
(* (use-workflow-definition-stream.ts).  A writer inserts its events and   *)
(* calls pg_notify in its transaction; Postgres hands the notifications of *)
(* a commit to the connection that listens; the SharedListener copies each *)
(* to the queue of every stream.  An editor reads the definition, opens a  *)
(* stream, and opens it again with ?since= when it breaks.                 *)
(*                                                                         *)
(* One process of the backend.  A listener that is dropped while it still  *)
(* connects leaves its connection behind; nobody hears it and it is left   *)
(* out.                                                                    *)
(***************************************************************************)
EXTENDS Naturals, Sequences, FiniteSets

CONSTANTS
    Writers,        \* transactions that may be open at the same time
    Editors,        \* browsers that have the workflow open
    MaxSeq,         \* bound of the model: events published
    QueueCap,       \* maxsize of a stream's queue
    ReplayRows,     \* _MAX_REPLAY_ROWS
    MaxTroubles     \* bound of the model: connections that fail or break

ASSUME SizesAssumption == {MaxSeq, QueueCap, ReplayRows, MaxTroubles} \subseteq Nat

Seqs == 1..MaxSeq
RangeOf(s) == {s[i] : i \in DOMAIN s}

VARIABLES
    nextSeq,        \* the sequence of the table; a rollback leaves a gap
    open,           \* the events of each transaction that is not committed
    committed,      \* the rows of workflow_definition_events
    listener,       \* the listener of the workflow's channel and its connection
    grace,          \* _close_after_grace is pending
    wire,           \* notifications on their way to the connection
    at,             \* where the stream of each client is
    rows,           \* rows of the replay it has still to yield
    queue,          \* its queue in the SharedListener
    cursor,         \* lastSeqRef of the editor
    seen,           \* events the editor has in its definition
    late,           \* history: events committed behind a higher number
    unheard,        \* history: events no connection listened to
    missed,         \* history: events a client lost for a reason of its own
    replayed,       \* history: the events the last replay of a client found
    troubles

writerVars == <<nextSeq, open>>
listenerVars == <<listener, grace, wire>>
streamVars == <<at, rows, queue>>
editorVars == <<cursor, seen>>
history == <<late, unheard, missed, replayed>>
eventsVars == <<writerVars, committed, listenerVars, streamVars, editorVars, history, troubles>>

\* A stream is subscribed from before its replay until it ends.
Subscribed_AfterReplay(c) == at[c] = "live"   \* mutant
Subscribed(c) == at[c] \in {"subscribed", "replaying", "live"}

\* An editor has nothing, and nothing on its way, that is not durable.
Durable ==
    /\ \A w \in Writers : RangeOf(open[w]) \cap committed = {}
    /\ RangeOf(wire) \subseteq committed
    /\ \A c \in Editors : RangeOf(rows[c]) \cup RangeOf(queue[c]) \cup seen[c] \subseteq committed

\* The listener of a stream is not dropped under it.
ListenerStays == \A c \in Editors : Subscribed(c) => listener # "none" /\ ~grace

EventsTypeOK ==
    /\ nextSeq \in 1..MaxSeq + 1 /\ committed \subseteq Seqs
    /\ open \in [Writers -> Seq(Seqs)]
    /\ listener \in {"none", "connecting", "listening", "failed"} /\ grace \in BOOLEAN
    /\ wire \in Seq(Seqs)
    /\ at \in [Editors -> {"new", "away", "subscribed", "replaying", "live"}]
    /\ rows \in [Editors -> Seq(Seqs)] /\ queue \in [Editors -> Seq(Seqs)]
    /\ \A c \in Editors : Len(queue[c]) <= QueueCap /\ Len(rows[c]) <= ReplayRows
    /\ cursor \in [Editors -> {0} \cup committed]
    /\ seen \in [Editors -> SUBSET Seqs]
    /\ late \cup unheard \subseteq committed
    /\ missed \in [Editors -> SUBSET Seqs] /\ replayed \in [Editors -> SUBSET committed]
    /\ troubles \in 0..MaxTroubles
    /\ Durable /\ ListenerStays

EventsInit ==
    /\ nextSeq = 1 /\ open = [w \in Writers |-> <<>>] /\ committed = {}
    /\ listener = "none" /\ grace = FALSE /\ wire = <<>>
    /\ at = [c \in Editors |-> "new"]
    /\ rows = [c \in Editors |-> <<>>] /\ queue = [c \in Editors |-> <<>>]
    /\ cursor = [c \in Editors |-> 0]
    /\ seen = [c \in Editors |-> {}]
    /\ late = {} /\ unheard = {}
    /\ missed = [c \in Editors |-> {}] /\ replayed = [c \in Editors |-> {}]
    /\ troubles = 0

-----------------------------------------------------------------------------
(* Writers.                                                                *)

Publish(w) ==
    /\ nextSeq <= MaxSeq
    /\ open' = [open EXCEPT ![w] = Append(@, nextSeq)]
    /\ nextSeq' = nextSeq + 1
    /\ UNCHANGED <<committed, listenerVars, streamVars, editorVars, history, troubles>>

\* What Postgres does with the notifications of a transaction that ends.
Notify(events) ==
    /\ wire' = IF listener = "listening" THEN wire \o events ELSE wire
    /\ unheard' = IF listener = "listening" THEN unheard ELSE unheard \cup RangeOf(events)

Commit(w) ==
    LET new == RangeOf(open[w]) IN
    /\ open[w] # <<>> /\ open' = [open EXCEPT ![w] = <<>>]
    /\ committed' = committed \cup new
    /\ Notify(open[w])
    /\ late' = late \cup {e \in new : \E f \in committed : f > e}
    /\ missed' = [c \in Editors |-> IF at[c] = "away" /\ cursor[c] = 0
                                     THEN missed[c] \cup (new \ seen[c]) ELSE missed[c]]
    /\ UNCHANGED <<nextSeq, listener, grace, streamVars, editorVars, replayed, troubles>>

Rollback(w) ==
    /\ open[w] # <<>> /\ open' = [open EXCEPT ![w] = <<>>]
    /\ UNCHANGED <<nextSeq, committed, listenerVars, streamVars, editorVars, history, troubles>>

-----------------------------------------------------------------------------
(* The SharedListener.                                                     *)

Trouble == troubles < MaxTroubles /\ troubles' = troubles + 1

Connect ==
    /\ listener = "connecting" /\ listener' = "listening"
    /\ UNCHANGED <<writerVars, committed, grace, wire, streamVars, editorVars, history, troubles>>

\* _connect raises, or the connection breaks later: nothing connects again, the
\* streams stay.
ConnectionFails ==
    /\ listener \in {"connecting", "listening"} /\ listener' = "failed" /\ Trouble
    /\ wire' = <<>> /\ unheard' = unheard \cup RangeOf(wire)
    /\ UNCHANGED <<writerVars, committed, grace, streamVars, editorVars, late, missed, replayed>>

\* A queue that is full refuses the event, and the sentinel after it as well.
Broadcast ==
    LET e == Head(wire)
        Room(c) == Subscribed(c) /\ Len(queue[c]) < QueueCap
        Full(c) == Subscribed(c) /\ ~Room(c)
    IN
    /\ wire # <<>> /\ wire' = Tail(wire)
    /\ queue' = [c \in Editors |-> IF Room(c) THEN Append(queue[c], e) ELSE queue[c]]
    /\ missed' = [c \in Editors |-> IF Full(c) THEN missed[c] \cup {e} ELSE missed[c]]
    /\ UNCHANGED <<writerVars, committed, listener, grace, at, rows, editorVars,
                   late, unheard, replayed, troubles>>

CloseAfterGrace ==
    /\ grace /\ grace' = FALSE
    /\ listener' = "none" /\ wire' = <<>>
    /\ UNCHANGED <<writerVars, committed, streamVars, editorVars, history, troubles>>

-----------------------------------------------------------------------------
(* A stream and its editor.  sse_stream takes the listener and subscribes   *)
(* without giving up control.                                               *)

\* The editor reads the definition before it opens its first stream.
LoadDefinition(c) ==
    /\ at[c] = "new" /\ at' = [at EXCEPT ![c] = "away"]
    /\ seen' = [seen EXCEPT ![c] = committed]
    /\ UNCHANGED <<writerVars, committed, listenerVars, rows, queue, cursor, history, troubles>>

\* Without an event yet there is no ?since= and no replay.
Open(c) ==
    /\ at[c] = "away"
    /\ at' = [at EXCEPT ![c] = IF cursor[c] = 0 THEN "live" ELSE "subscribed"]
    /\ listener' = IF listener = "none" THEN "connecting" ELSE listener
    /\ grace' = FALSE
    /\ UNCHANGED <<writerVars, committed, wire, rows, queue, editorVars, history, troubles>>

Sorted(s) == \A i, j \in DOMAIN s : i < j => s[i] < s[j]

Since(c) == {e \in committed : e > cursor[c]}

\* The answer of get_events_since: the lowest numbers, in order.
IsReplay(s, found) ==
    /\ Sorted(s) /\ RangeOf(s) \subseteq found
    /\ RangeOf(s) # found =>
          /\ Len(s) = ReplayRows
          /\ \A e \in found \ RangeOf(s), f \in RangeOf(s) : f < e

Replay(c) ==
    \E n \in 0..ReplayRows : \E s \in [1..n -> Since(c)] :
        /\ IsReplay(s, Since(c))
        /\ at[c] = "subscribed" /\ at' = [at EXCEPT ![c] = "replaying"]
        /\ rows' = [rows EXCEPT ![c] = s]
        /\ replayed' = [replayed EXCEPT ![c] = RangeOf(s)]
        /\ missed' = [missed EXCEPT ![c] = @ \cup (Since(c) \ RangeOf(s))]
        /\ UNCHANGED <<writerVars, committed, listenerVars, queue, editorVars, late, unheard, troubles>>

\* applyEvent: what is not above the cursor is skipped.
Applies(c, e) ==
    IF e > cursor[c]
    THEN /\ cursor' = [cursor EXCEPT ![c] = e]
         /\ seen' = [seen EXCEPT ![c] = @ \cup {e}]
    ELSE UNCHANGED editorVars

YieldRow(c) ==
    /\ at[c] = "replaying" /\ rows[c] # <<>>
    /\ Applies(c, Head(rows[c]))
    /\ rows' = [rows EXCEPT ![c] = Tail(@)]
    /\ UNCHANGED <<writerVars, committed, listenerVars, at, queue, history, troubles>>

GoLive(c) ==
    /\ at[c] = "replaying" /\ rows[c] = <<>>
    /\ at' = [at EXCEPT ![c] = "live"]
    /\ UNCHANGED <<writerVars, committed, listenerVars, rows, queue, editorVars, history, troubles>>

YieldLive(c) ==
    /\ at[c] = "live" /\ queue[c] # <<>>
    /\ Applies(c, Head(queue[c]))
    /\ queue' = [queue EXCEPT ![c] = Tail(@)]
    /\ UNCHANGED <<writerVars, committed, listenerVars, at, rows, history, troubles>>

\* The stream breaks; unsubscribe, and the editor tries again later.
Break(c) ==
    /\ Subscribed(c) /\ at' = [at EXCEPT ![c] = "away"]
    /\ rows' = [rows EXCEPT ![c] = <<>>] /\ queue' = [queue EXCEPT ![c] = <<>>]
    /\ grace' = \A d \in Editors \ {c} : ~Subscribed(d)
    /\ missed' = [missed EXCEPT ![c] = IF cursor[c] = 0
                      THEN @ \cup ((RangeOf(queue[c]) \cup RangeOf(wire)) \ seen[c]) ELSE @]
    /\ replayed' = [replayed EXCEPT ![c] = {}]
    /\ UNCHANGED <<writerVars, committed, listener, wire, editorVars, late, unheard, troubles>>

EventsNext ==
    \/ \E w \in Writers : Publish(w) \/ Commit(w) \/ Rollback(w)
    \/ Connect \/ ConnectionFails \/ Broadcast \/ CloseAfterGrace
    \/ \E c \in Editors : LoadDefinition(c) \/ Open(c) \/ Replay(c) \/ YieldRow(c)
                             \/ GoLive(c) \/ YieldLive(c) \/ Break(c)

EventsSpec == EventsInit /\ [][EventsNext]_eventsVars

-----------------------------------------------------------------------------
Pending(c) == RangeOf(rows[c]) \cup RangeOf(queue[c]) \cup RangeOf(wire)

\* Replay and live stream have no gap between them: what an editor with an open
\* stream neither has nor is about to get was
\*   - committed before its first event, while it had no stream (no ?since= yet),
\*   - refused by its full queue (:80-87), or beyond the 500 rows of a replay,
\*   - committed behind an event with a higher number, or while no connection
\*     listened, and not found by its last replay.
\* Nothing else is lost, whatever breaks and whoever else comes and goes.
MissedExplained ==
    \A c \in Editors : at[c] \in {"replaying", "live"} =>
        committed \ (seen[c] \cup Pending(c))
            \subseteq missed[c] \cup ((late \cup unheard) \ replayed[c])
=============================================================================
