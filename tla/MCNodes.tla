------------------------------- MODULE MCNodes -------------------------------
(***************************************************************************)
(* What nodes do and what serves them: a job of NodeTables, a load of      *)
(* BulkLoad, executions that share the ExtractCache, or callers of the     *)
(* EngineCache and edits of connections.  A behaviour is one of the four   *)
(* and leaves the variables of the others as they are.                     *)
(*                                                                         *)
(* Texts: 2 is 1 in lower case.  Labels: "Sul" and "sul" share a table.    *)
(***************************************************************************)
EXTENDS EngineCache, Integers, TLC

CONSTANTS N, ChunkSize, Setups, MaxAttempts, MaxFaults
VARIABLES setup, current, pc, next, todo, found, changed, wrote, ok, failed, dropped, redone,
          table, value, overlapped, faults
Loads == INSTANCE BulkLoad

CONSTANTS Values, Lower, Cleaned, Jobs, Null, Raised
VARIABLES part, job, out
Tables == INSTANCE NodeTables

CONSTANTS Executions, Nodes, CacheKeys, Histories, MaxRemovals
VARIABLES history, over, step, result, dir, entry, stored, saves, removal, removals, cleared, torn
Results == INSTANCE ExtractCache WITH Setups <- Histories, setup <- history,
                                  Keys <- CacheKeys

ASSUME LoadsAssumption == Loads!Constants
ASSUME ResultsAssumption == Results!Constants
ASSUME JobsAssumption == Tables!Shapes

-----------------------------------------------------------------------------
(* Four rows to load; the third has the key of the first or of the fourth.  *)
RowKeys == {<<"x", "y", "x", "z">>, <<"x", "x", "y", "y">>}

Setup(strategies, loaders, returnings, indexed) ==
    [strategy : strategies, loader : loaders, returning : returnings, unique : BOOLEAN,
     indexed : indexed, key : RowKeys, bad : {{}, {2}, {3, 4}}]

EverySetup == Setup({"append_fast", "append_safe", "composite"}, {"dlt"}, BOOLEAN, {FALSE})
             \union Setup({"append_fast"}, {"sqlalchemy"}, {FALSE}, {FALSE})
             \union Setup({"upsert"}, {"dlt"}, BOOLEAN, BOOLEAN)

(* Upserts that look first, into a table whose keys have no unique index.   *)
UnindexedSetups == Setup({"upsert"}, {"dlt"}, {TRUE}, {FALSE})

-----------------------------------------------------------------------------
LowerCase == 1 :> 2 @@ 2 :> 2 @@ 3 :> 3
Names == "sul" :> "sul" @@ "Sul" :> "sul" @@ "norte" :> "norte" @@ "default" :> "default"

Cells == Values \union {Null}
Upto(n, S) == UNION {[1..k -> S] : k \in 0..n}

(* Every condition; with a second one on the other column; two rows.        *)
On(field) ==
    [field : {field}, op : {"eq", "ne", "gt", "contains"}, arg : {2, Null}, list : {{}}]
      \union [field : {field}, op : {"startswith"}, arg : {2}, list : {{}}]
      \union [field : {field}, op : {"is_null", "is_not_null"}, arg : {Null}, list : {{}}]
      \union [field : {field}, op : {"in", "not_in"}, arg : {Null}, list : {{2}, {3, Null}}]
ConditionJobs ==
    [node : {"conditions"}, logic : {"AND", "OR"},
     conditions : {{}} \union {{c} : c \in On("key")}
                    \union {{c, d} : c \in On("key"), d \in On("val")},
     table : Upto(1, [key : Cells, val : Cells])
               \union [1..2 -> [key : {1, 3, Null}, val : {3, Null}]]]

Branches(labels, values) == [label : labels, values : values]
SwitchJobs ==
    [node : {"switch"}, column : Upto(2, Cells),
     cases : [1..2 -> Branches({"sul", "Sul", "norte", "default"}, {{}, {1}, {1, 2}, {3}})]]

JoinJobs == [node : {"join"}, type : {"inner", "left", "right", "full"},
             left : Upto(2, Cells), right : Upto(2, Cells)]
LookupJobs == [node : {"lookup"}, primary : Upto(2, {1, 3, Null}),
               dictionary : Upto(3, [key : {1, Null}, val : {1, 3, Null}]),
               ordered : BOOLEAN, keep : {"first", "last"}]
UnionJobs == [node : {"union"}, priority : {None, "first", "input_first", "input_last"},
              sources : UNION {[1..k -> [handle : {1, 2, 10}, keys : Upto(1, {1, Null}) \union {<<1, Null>>}]] :
                                 k \in 1..3}]
PivotJobs == [node : {"pivot"}, max : {1, 2},
              table : Upto(3, [key : {1, Null}, pivot : {1, 3, Null}, val : {1, 3, Null}])]
IdJobs == [node : {"record_id"}, start : {0, 1, 5}, offset : {-1, 0, 1}, partitioned : BOOLEAN,
           first : Upto(3, {1, Null}), second : Upto(2, {1})]

EveryJob == ConditionJobs \union SwitchJobs \union JoinJobs \union LookupJobs \union UnionJobs
           \union PivotJobs \union IdJobs

-----------------------------------------------------------------------------
(* Two executions after one that has filled entries.  A node that was configured *)
(* otherwise in the first of them, and another one that took its place; all      *)
(* alike; one that the first has not; one renamed since the entries were filled. *)
History(first, second, test, earlier) ==
    [configured |-> "e1" :> first @@ "e2" :> second, test |-> test, earlier |-> earlier]
Both(one, two) == "n1" :> one @@ "n2" :> two
Filled(k, l) == "K" :> k @@ "L" :> l

EveryHistory ==
    {History(Both("K", None), Both("L", "K"), {}, Filled(None, "n1")),
     History(Both("K", None), Both("K", "K"), {"e2"}, Filled("n2", None)),
     History(Both(None, "K"), Both("K", "K"), {}, Filled("n2", None)),
     History(Both(None, None), Both("K", "L"), {}, Filled("n1", "n1"))}

(* A connection of a workspace, and one of a project, with Oracle.          *)
Owners == "pg" :> "workspace" @@ "ora" :> "project"
Dialects == "pg" :> "postgresql" @@ "ora" :> "oracle"
NodeDialects == "pg" :> "postgres" @@ "ora" :> "oracle"
UrlDatabases == "pg" :> [d \in Databases |-> d] @@ "ora" :> [d \in Databases |-> ""]

RequestSymmetry == Permutations(Requests)

-----------------------------------------------------------------------------
cacheVars == <<history, over, step, result, dir, entry, stored, saves, removal, removals, cleared, torn>>
loadVars == <<setup, current, pc, next, todo, found, changed, wrote, ok, failed, dropped, redone,
              table, value, overlapped, faults>>

NoLoad == setup = CHOOSE s \in Setups : TRUE
NoHistory == history = CHOOSE h \in Histories : TRUE

(* Engines do not tell the databases of one connection from each other, and the  *)
(* connections have dialects of their own: each starts with the same database.   *)
FirstDatabase == CHOOSE d \in Databases : TRUE

NodesInit ==
    /\ part \in {"load", "table", "result", "engine"}
    /\ Init /\ Loads!Init /\ Results!Init
    /\ part = "load" \/ NoLoad
    /\ part = "result" \/ NoHistory
    /\ \A c \in Connections : row[c].database = FirstDatabase
    /\ IF part = "table" THEN Tables!Init ELSE job = None /\ out = None

NodesNext ==
    \/ part = "load" /\ Loads!Next /\ UNCHANGED <<part, vars, job, out, cacheVars>>
    \/ part = "table" /\ Tables!Next /\ UNCHANGED <<part, vars, loadVars, cacheVars>>
    \/ part = "result" /\ Results!Next /\ UNCHANGED <<part, vars, loadVars, job, out>>
    \/ part = "engine" /\ Next /\ UNCHANGED <<part, loadVars, job, out, cacheVars>>

NodesSpec == NodesInit /\ [][NodesNext]_<<part, vars, loadVars, job, out, cacheVars>>

\* The report of a load has each row in one list, and the table has what the
\* report says (BulkLoad).
ReportExact == part = "load" => Loads!ReportExact

\* An upsert leaves the last row of each key, and only that where it has an index
\* or no attempt overlapped (BulkLoad).
UpsertKeepsLast == part = "load" => Loads!UpsertKeepsLast

\* An upsert leaves one row for each key, "com ou sem indice unique" (BulkLoad).
OneRowEach == part = "load" => Loads!OneRowEach

\* A row takes one branch of a condition, or none if it compares a NULL, and the
\* mode of a node for records agrees with its mode for rows (NodeTables).
RoutedExact == part = "table" => Tables!RoutedExact

\* Joins, lookups, unions, pivots and numbers find each row that they should, as
\* often as they should (NodeTables).
RowsMatched == part = "table" => Tables!RowsMatched

\* What the cache of extractions gives a node is what it would have extracted,
\* but for the reasons named there (ExtractCache).
HitsExplained == Results!HitsExplained
=============================================================================
