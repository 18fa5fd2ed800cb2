----------------------------- MODULE EngineCache -----------------------------
(***************************************************************************)
(* The engines of SQLAlchemy that the nodes and the playground share       *)
(* (services/db/engine_cache.py), and the edits of connections that        *)
(* invalidate them (ConnectionService.update and delete).  A caller reads  *)
(* the row of a connection, makes a URL of it, and asks for the engine of  *)
(* that URL later, in another thread and as often as it has nodes.         *)
(*                                                                         *)
(* The key of an engine leaves out the password.  Callers derive it from   *)
(* the URL, edits from the row.  Host, port and user behave alike: one     *)
(* server and one user, of which the database is what may change.          *)
(* dispose() closes the idle connections of a pool, which opens others for *)
(* whoever still has the engine: it changes nothing that is modelled.      *)
(***************************************************************************)
EXTENDS Naturals, Sequences, FiniteSets

CONSTANTS
    Connections,
    Owner,          \* "workspace" or "project", for each connection
    Dialect,        \* the type of each connection
    Inferred,       \* what bulk_insert, composite_insert and truncate_table make of
                    \* the prefix of its URL: "postgres" where the type is "postgresql"
    UrlDatabase,    \* what the URL of each connection has in the place of each of
                    \* its databases: nothing for Oracle, whose service name is a
                    \* parameter, a path inside the container for a bundled Firebird
    Databases,
    Callers,
    Requests,       \* that edit or delete a connection
    MaxEngines,     \* DEFAULT_MAX_ENGINES_PER_WORKSPACE
    MaxRevisions,   \* bound of the model: edits of connections
    None

VARIABLES
    row,            \* committed: the database and the revision of each connection
    edit,           \* the requests: where each is, the row it has read and the new one
    revisions,      \* edits so far
    cache,          \* _CACHE
    recent,         \* its keys, the least recently used first
    url,            \* the URL each caller has made; history: late, if its key was
                    \* invalidated after the row it was made of was committed
    misread         \* history: the revisions replaced by a request that had read another

vars == <<row, edit, revisions, cache, recent, url, misread>>

NoEdit == [at |-> "none", conn |-> None, read |-> None, new |-> None]

Init ==
    /\ row \in [Connections -> [database : Databases, revision : {0}]]
    /\ edit = [r \in Requests |-> NoEdit]
    /\ revisions = 0
    /\ cache = {} /\ recent = <<>>
    /\ url = [k \in Callers |-> None]
    /\ misread = {}

-----------------------------------------------------------------------------
(* Keys *)

Key(scope, dialect, database) == [scope |-> scope, dialect |-> dialect, database |-> database]

\* The workspace_id of the row, which a connection of a project has not.
RowScope(c) == IF Owner[c] = "workspace" THEN "workspace" ELSE "default"

RowKey(c, database) == Key(RowScope(c), Dialect[c], database)

\* conn_type is taken as the caller gives it.
UrlKey(u) == Key(u.scope, u.dialect, UrlDatabase[u.conn][u.database])

-----------------------------------------------------------------------------
(* A caller *)

\* Those whose change the lock of the row protects.
Writers(c) == {r \in Requests : edit[r].conn = c /\ edit[r].at \in {"flushed", "half", "swept"}}

\* The runner of a workflow has the workspace of its context, and some of its
\* nodes a dialect of their own making; the playground has both from the row.
Resolves(k) ==
    /\ url[k] = None
    /\ \E c \in Connections, scope \in {"workspace", "default"} :
       \E dialect \in {Dialect[c], Inferred[c]} :
        /\ row[c] # None
        /\ <<scope, dialect>> = <<RowScope(c), Dialect[c]>> \/ scope = "workspace"
        /\ url' = [url EXCEPT ![k] = [conn |-> c, scope |-> scope, dialect |-> dialect,
                                      database |-> row[c].database,
                                      revision |-> row[c].revision,
                                      late |-> \E r \in Writers(c) : edit[r].at # "flushed"]]
    /\ UNCHANGED <<row, edit, revisions, cache, recent, misread>>

Cached(key) == \E e \in cache : e.key = key
Uses(key) == recent' = Append(SelectSeq(recent, LAMBDA other : other # key), key)

\* get_engine, under the lock.
Finds(k) ==
    /\ url[k] # None
    /\ Cached(UrlKey(url[k]))
    /\ Uses(UrlKey(url[k]))
    /\ UNCHANGED <<row, edit, revisions, cache, url, misread>>

OfScope(scope) == {e \in cache : e.key.scope = scope}
Before(key, other) == \E i, j \in DOMAIN recent : i < j /\ recent[i] = key /\ recent[j] = other

\* _evict_lru_for_workspace
Victims(scope) ==
    IF Cardinality(OfScope(scope)) < MaxEngines THEN {}
    ELSE {e \in OfScope(scope) : \A f \in OfScope(scope) \ {e} : Before(e.key, f.key)}

Engine(u) == [key |-> UrlKey(u), conn |-> u.conn, database |-> u.database,
              revision |-> u.revision, late |-> u.late]

Creates(k) ==
    /\ url[k] # None
    /\ ~Cached(UrlKey(url[k]))
    /\ LET made == Engine(url[k])
           victims == Victims(made.key.scope)
       IN  /\ cache' = (cache \ victims) \union {made}
           /\ recent' = Append(SelectSeq(recent, LAMBDA key : \A e \in victims : e.key # key), made.key)
    /\ UNCHANGED <<row, edit, revisions, url, misread>>

Ends(k) ==
    /\ url[k] # None
    /\ url' = [url EXCEPT ![k] = None]
    /\ UNCHANGED <<row, edit, revisions, cache, recent, misread>>

-----------------------------------------------------------------------------
(* A request that edits a connection, or deletes it *)

Goes(r, place) == edit' = [edit EXCEPT ![r].at = place]

\* ConnectionService.get
Reads(r) ==
    /\ edit[r] = NoEdit
    /\ \E c \in Connections :
        /\ row[c] # None
        /\ edit' = [edit EXCEPT ![r] = [at |-> "read", conn |-> c, read |-> row[c], new |-> None]]
    /\ UNCHANGED <<row, revisions, cache, recent, url, misread>>

\* Only a field that differs from what was read is written.
Written(r, d) ==
    [database |-> IF d = edit[r].read.database THEN row[edit[r].conn].database ELSE d,
     revision |-> revisions + 1]

\* The lock of the row keeps others waiting until the commit, and a row that is
\* gone by then ends the request with an error.
Flushes(r) ==
    /\ edit[r].at = "read" /\ Writers(edit[r].conn) = {} /\ row[edit[r].conn] # None
    /\ revisions < MaxRevisions
    /\ revisions' = revisions + 1
    /\ \E new \in {Written(r, d) : d \in Databases} \union {None} :
        edit' = [edit EXCEPT ![r].at = "flushed", ![r].new = new]
    /\ UNCHANGED <<row, cache, recent, url, misread>>

Misses(u, c, key) == u # None /\ u.conn = c /\ RowKey(c, u.database) = key

\* invalidate_engine
Invalidates(c, key) ==
    /\ cache' = {e \in cache : e.key # key}
    /\ recent' = SelectSeq(recent, LAMBDA other : other # key)
    /\ url' = [k \in Callers |-> IF Misses(url[k], c, key) THEN [url[k] EXCEPT !.late = TRUE] ELSE url[k]]

InvalidatesOld_New(r) ==      \* mutant: the key is taken after the row has changed
    /\ edit[r].at = "flushed"
    /\ LET left == IF edit[r].new = None THEN edit[r].read ELSE edit[r].new
       IN  Invalidates(edit[r].conn, RowKey(edit[r].conn, left.database))
    /\ Goes(r, IF edit[r].new = None THEN "swept" ELSE "half")
    /\ UNCHANGED <<row, revisions, misread>>

\* The key of the row as it was read; the only one of a delete.
InvalidatesOld(r) ==
    /\ edit[r].at = "flushed"
    /\ Invalidates(edit[r].conn, RowKey(edit[r].conn, edit[r].read.database))
    /\ Goes(r, IF edit[r].new = None THEN "swept" ELSE "half")
    /\ UNCHANGED <<row, revisions, misread>>

InvalidatesNew(r) ==
    /\ edit[r].at = "half"
    /\ Invalidates(edit[r].conn, RowKey(edit[r].conn, edit[r].new.database))
    /\ Goes(r, "swept")
    /\ UNCHANGED <<row, revisions, misread>>

\* get_db commits when the endpoint has returned.
Commits(r) ==
    /\ edit[r].at = "swept"
    /\ LET c == edit[r].conn
       IN  /\ row' = [row EXCEPT ![c] = edit[r].new]
           /\ misread' = IF row[c].database = edit[r].read.database THEN misread
                         ELSE misread \union {<<c, row[c].revision>>}
    /\ edit' = [edit EXCEPT ![r] = NoEdit]
    /\ UNCHANGED <<revisions, cache, recent, url>>

RollsBack(r) ==
    /\ edit[r] # NoEdit
    /\ edit' = [edit EXCEPT ![r] = NoEdit]
    /\ UNCHANGED <<row, revisions, cache, recent, url, misread>>

-----------------------------------------------------------------------------
Calls(k) == Resolves(k) \/ Finds(k) \/ Creates(k) \/ Ends(k)
Edits(r) ==
    \/ Reads(r) \/ Flushes(r)
    \/ InvalidatesOld(r) \/ InvalidatesNew(r)
    \/ Commits(r) \/ RollsBack(r)

Next == (\E k \in Callers : Calls(k)) \/ (\E r \in Requests : Edits(r))

Spec == Init /\ [][Next]_vars

-----------------------------------------------------------------------------
(* Properties *)

Rows == [database : Databases, revision : 0..revisions]
Places == {"read", "flushed", "half", "swept"}
Urls == [conn : Connections, scope : {"workspace", "default"},
         dialect : {Dialect[c] : c \in Connections} \union {Inferred[c] : c \in Connections},
         database : Databases, revision : 0..revisions, late : BOOLEAN]

TypeOK ==
    /\ row \in [Connections -> Rows \union {None}]
    /\ edit \in [Requests -> {NoEdit} \union [at : Places, conn : Connections, read : Rows,
                                              new : Rows \union {None}]]
    /\ revisions \in Nat
    /\ url \in [Callers -> Urls \union {None}]

\* The row an engine was made of has been replaced.
Outdated(e) == row[e.conn] = None \/ row[e.conn].revision # e.revision

\* The key that an edit makes of the row is not the engine's: the caller had
\* the workspace of its workflow and the connection belongs to a project, the
\* node inferred another name of the dialect, or the URL has another database.
OutOfReach(e) ==
    \/ e.key.scope # RowScope(e.conn)
    \/ e.key.dialect # Dialect[e.conn]
    \/ e.key.database # e.database

\* "garante que credenciais novas entrem em vigor na proxima get_engine()": an
\* engine that still has the old ones either has a key that no edit sweeps
\* (the engines of bulk_insert, composite_insert and truncate_table for any
\* PostgreSQL, of workflows for a project's connection, and of Oracle), or was
\* made after the edit swept its key, of a URL made before the commit, or is of
\* a row that the edit had not read, as two edits overlapped.
StaleExplained ==
    \A e \in cache : Outdated(e) =>
        \/ OutOfReach(e)
        \/ e.late
        \/ <<e.conn, e.revision>> \in misread
=============================================================================
