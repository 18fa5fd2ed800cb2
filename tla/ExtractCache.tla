----------------------------- MODULE ExtractCache -----------------------------
(***************************************************************************)
(* The cache of the results of extraction nodes: ExtractCacheService, the  *)
(* hooks of the runner that ask it before a node and fill it behind one    *)
(* (orchestration/flows/dynamic_runner.py), and the directory of an        *)
(* execution, which the runner removes at the end.                         *)
(*                                                                         *)
(* A result names the DuckDB file of the node that made it.  The key of an *)
(* entry is a hash of the configuration of a node, without its id, so that *)
(* an entry may hold files of several nodes, and the row in the database   *)
(* names one of them.  Files are copied and removed without an await;      *)
(* every access to the database is one.                                    *)
(***************************************************************************)
EXTENDS Naturals, FiniteSets

CONSTANTS
    Executions,
    Nodes,
    Keys,
    Setups,         \* see setup
    MaxRemovals,    \* bound of the model
    None

\* A file has the key of the configuration it was extracted for, and the number
\* of the removal that was the last to begin before.
Files == [key : Keys, born : Nat]

\* The files of keys that a filter matches are removed, then the rows.
Removals == [at : {"selected", "swept"}, filter : SUBSET Keys, keys : SUBSET Keys,
             expiredOnly : BOOLEAN]

\* What the constants are.
Constants ==
    /\ None \notin Nodes \union Keys \union Files \union Removals
    /\ \A s \in Setups :
        /\ s.configured \in [Executions -> [Nodes -> Keys \union {None}]]
        /\ s.test \subseteq Executions
        /\ s.earlier \in [Keys -> Nodes \union {None}]

VARIABLES
    setup,          \* how it begins: configured, the key of each node in each execution, as
                    \* people edit workflows, or None, if it is not there; test, the executions
                    \* with mode "test", which keep their directory; earlier, for each key the
                    \* node of an execution before these that filled the entry, or None
    over,           \* executions that have ended
    step,           \* where each node of each execution is
    result,         \* what the cache gave it: the node whose file it names
    dir,            \* the files of each execution, by the node they are named after
    entry,          \* the files of each entry of the cache
    stored,         \* the row of each entry; history: late, if no file was there to copy
    saves,          \* tasks in the background
    removal,        \* a cleanup or an invalidation
    removals,       \* removals so far
    cleared,        \* history: the last invalidation of each key that has ended
    torn            \* history: keys of which a removal overlapped with a save or a lookup

vars == <<setup, over, step, result, dir, entry, stored, saves, removal, removals, cleared, torn>>

Unvisited(e) == [n \in Nodes |-> IF setup.configured[e][n] = None THEN "absent" ELSE "waiting"]

NoFiles == [n \in Nodes |-> None]

Init ==
    /\ setup \in Setups
    /\ over = {}
    /\ step = [e \in Executions |-> Unvisited(e)]
    /\ result = [e \in Executions |-> NoFiles]
    /\ dir = [e \in Executions |-> NoFiles]
    /\ entry = [k \in Keys |-> [n \in Nodes |-> IF n = setup.earlier[k] THEN [key |-> k, born |-> 0]
                                              ELSE None]]
    /\ stored = [k \in Keys |-> IF setup.earlier[k] = None THEN None
                               ELSE [file |-> setup.earlier[k], expired |-> FALSE, late |-> FALSE]]
    /\ saves = {}
    /\ removal = None /\ removals = 0
    /\ cleared = [k \in Keys |-> 0]
    /\ torn = {}

-----------------------------------------------------------------------------
(* A node of a running execution *)

KeyOf(e, n) == setup.configured[e][n]
At(e, n, place) == e \notin over /\ step[e][n] = place
Goes(e, n, place) == step' = [step EXCEPT ![e][n] = place]

\* What the removal under way is about.
Concerned == IF removal.expiredOnly THEN removal.keys ELSE removal.filter

\* A save that copies, or a lookup that begins, while a removal is under way.
Overlaps(k) == torn' = IF removal # None /\ k \in Concerned THEN torn \union {k} ELSE torn

Valid(k) == stored[k] # None /\ ~stored[k].expired

Asks(e, n) == At(e, n, "waiting") /\ \A m \in Nodes : step[e][m] # "found"

\* get() reads the row, and the name in it.  The loop that visits the nodes waits
\* for one lookup after another.
Finds(e, n) ==
    /\ Asks(e, n) /\ Valid(KeyOf(e, n))
    /\ Goes(e, n, "found")
    /\ result' = [result EXCEPT ![e][n] = [file |-> stored[KeyOf(e, n)].file,
                                           late |-> stored[KeyOf(e, n)].late,
                                           since |-> cleared[KeyOf(e, n)]]]
    /\ Overlaps(KeyOf(e, n))
    /\ UNCHANGED <<setup, over, dir, entry, stored, saves, removal, removals, cleared>>

\* A node with force_refresh does not ask, but has a key of its own: the flag is hashed too.
Misses(e, n) ==
    /\ Asks(e, n) /\ ~Valid(KeyOf(e, n))
    /\ Goes(e, n, "missed")
    /\ UNCHANGED <<setup, over, result, dir, entry, stored, saves, removal, removals, cleared, torn>>

Forgets(e, n) == Goes(e, n, "missed") /\ result' = [result EXCEPT ![e][n] = None]

\* glob("*.duckdb") has none, or the database fails.
LookupFails(e, n) ==
    /\ At(e, n, "found")
    /\ Forgets(e, n)
    /\ UNCHANGED <<setup, over, dir, entry, stored, saves, removal, removals, cleared, torn>>

\* What is there already is not replaced.
Merged(old, new) == [n \in Nodes |-> IF old[n] = None THEN new[n] ELSE old[n]]

Copies_Own(e, n) ==      \* mutant: the file of the node that asks, whatever the row names
    /\ At(e, n, "found") /\ entry[KeyOf(e, n)] # NoFiles
    /\ dir' = [dir EXCEPT ![e][n] = IF dir[e][n] = None THEN entry[KeyOf(e, n)][n] ELSE dir[e][n]]
    /\ Forgets(e, n) \/ (Goes(e, n, "hit") /\ UNCHANGED result)
    /\ UNCHANGED <<setup, over, entry, stored, saves, removal, removals, cleared, torn>>

\* The count of hits that follows may fail, which makes it a miss.
Copies(e, n) ==
    /\ At(e, n, "found") /\ entry[KeyOf(e, n)] # NoFiles
    /\ dir' = [dir EXCEPT ![e] = Merged(dir[e], entry[KeyOf(e, n)])]
    /\ Forgets(e, n) \/ (Goes(e, n, "hit") /\ UNCHANGED result)
    /\ UNCHANGED <<setup, over, entry, stored, saves, removal, removals, cleared, torn>>

\* The processor writes the file, and the drain of the level starts the save.
Runs(e, n) ==
    /\ At(e, n, "missed")
    /\ Goes(e, n, "ran")
    /\ dir' = [dir EXCEPT ![e][n] = [key |-> KeyOf(e, n), born |-> removals]]
    /\ saves' = saves \union {[exec |-> e, node |-> n, at |-> "begun", late |-> FALSE]}
    /\ UNCHANGED <<setup, over, result, entry, stored, removal, removals, cleared, torn>>

\* The execution ends, fails or is cancelled; nobody asks for its nodes any more.
Ends(e) ==
    /\ e \notin over
    /\ over' = over \union {e}
    /\ dir' = [dir EXCEPT ![e] = IF e \in setup.test THEN dir[e] ELSE NoFiles]
    /\ step' = [step EXCEPT ![e] = Unvisited(e)]
    /\ result' = [result EXCEPT ![e] = NoFiles]
    /\ UNCHANGED <<setup, entry, stored, saves, removal, removals, cleared, torn>>

-----------------------------------------------------------------------------
(* A save *)

SaveKey(s) == KeyOf(s.exec, s.node)

CopiesBack(s) ==
    /\ s \in saves /\ s.at = "begun"
    /\ entry' = IF dir[s.exec][s.node] = None THEN entry
                ELSE [entry EXCEPT ![SaveKey(s)][s.node] = dir[s.exec][s.node]]
    /\ saves' = (saves \ {s}) \union {[s EXCEPT !.at = "copied", !.late = dir[s.exec][s.node] = None]}
    /\ Overlaps(SaveKey(s))
    /\ UNCHANGED <<setup, over, step, result, dir, stored, removal, removals, cleared>>

\* The upsert.
Stores(s) ==
    /\ s \in saves /\ s.at = "copied"
    /\ stored' = [stored EXCEPT ![SaveKey(s)] = [file |-> s.node, expired |-> FALSE, late |-> s.late]]
    /\ saves' = saves \ {s}
    /\ UNCHANGED <<setup, over, step, result, dir, entry, removal, removals, cleared, torn>>

SaveFails(s) ==
    /\ s \in saves /\ s.at = "copied"
    /\ saves' = saves \ {s}
    /\ UNCHANGED <<setup, over, step, result, dir, entry, stored, removal, removals, cleared, torn>>

-----------------------------------------------------------------------------
(* A removal *)

Expires(k) ==
    /\ Valid(k)
    /\ stored' = [stored EXCEPT ![k].expired = TRUE]
    /\ UNCHANGED <<setup, over, step, result, dir, entry, saves, removal, removals, cleared, torn>>

UnderWay(k) ==
    \/ \E s \in saves : SaveKey(s) = k
    \/ \E e \in Executions, n \in Nodes : At(e, n, "found") /\ KeyOf(e, n) = k

Selects(filter, expiredOnly) ==
    LET keys == {k \in filter : stored[k] # None /\ (expiredOnly => stored[k].expired)}
    IN  /\ removal' = [at |-> "selected", filter |-> filter, keys |-> keys, expiredOnly |-> expiredOnly]
        /\ torn' = torn \union {k \in Concerned' : UnderWay(k)}

\* invalidate() takes what a filter matches, cleanup_expired what has expired.
Begins ==
    /\ removal = None /\ removals < MaxRemovals
    /\ Selects(Keys, TRUE) \/ \E filter \in {Keys} \union {{k} : k \in Keys} : Selects(filter, FALSE)
    /\ removals' = removals + 1
    /\ UNCHANGED <<setup, over, step, result, dir, entry, stored, saves, cleared>>

\* rmtree
RemovesFiles ==
    /\ removal # None /\ removal.at = "selected"
    /\ entry' = [k \in Keys |-> IF k \in removal.keys THEN NoFiles ELSE entry[k]]
    /\ removal' = [removal EXCEPT !.at = "swept"]
    /\ UNCHANGED <<setup, over, step, result, dir, stored, saves, removals, cleared, torn>>

Doomed(k) == k \in removal.filter /\ (removal.expiredOnly => stored[k] # None /\ stored[k].expired)

DeletesRows ==
    /\ removal # None /\ removal.at = "swept"
    /\ stored' = [k \in Keys |-> IF Doomed(k) THEN None ELSE stored[k]]
    /\ removal' = None
    /\ cleared' = IF removal.expiredOnly THEN cleared
                  ELSE [k \in Keys |-> IF k \in removal.filter THEN removals ELSE cleared[k]]
    /\ UNCHANGED <<setup, over, step, result, dir, entry, saves, removals, torn>>

-----------------------------------------------------------------------------
Node(e, n) ==
    \/ Finds(e, n) \/ Misses(e, n) \/ LookupFails(e, n) \/ Copies(e, n) \/ Runs(e, n)
Save(s) == CopiesBack(s) \/ Stores(s) \/ SaveFails(s)
Removal == Begins \/ RemovesFiles \/ DeletesRows

Next ==
    \/ \E e \in Executions, n \in Nodes : Node(e, n)
    \/ \E e \in Executions : Ends(e)
    \/ \E s \in saves : Save(s)
    \/ \E k \in Keys : Expires(k)
    \/ Removal

Spec == Init /\ [][Next]_vars

-----------------------------------------------------------------------------
(* Properties *)

\* What a node was configured as, in these executions or in the earlier one.
Once(n, key) == setup.earlier[key] = n \/ \E e \in Executions : KeyOf(e, n) = key

\* A node that the cache serves gets a file of its configuration, and after an
\* invalidation none that was extracted before, but for these reasons: the files
\* of the entry were saved after their execution had removed them; a removal
\* overlapped with a save or a lookup; the file is named after another node of
\* this execution; another node of this execution has asked for the same entry
\* before, or for one with a file of this node as it was configured once, and
\* what was there under this name is not replaced.
HitExplained(e, n) ==
    LET key == KeyOf(e, n)
        hit == result[e][n]
        file == dir[e][hit.file]
        late == hit.late \/ key \in torn
        twin == \E m \in Nodes \ {n} : KeyOf(e, m) = key /\ step[e][m] # "waiting"
    IN  /\ file = None => late
        /\ file # None /\ file.key # key => hit.file # n \/ Once(n, file.key)
        /\ file # None /\ file.key = key /\ file.born < hit.since => late \/ hit.file # n \/ twin

HitsExplained == \A e \in Executions, n \in Nodes : At(e, n, "hit") => HitExplained(e, n)
=============================================================================
