------------------------------- MODULE BulkLoad -------------------------------
(***************************************************************************)
(* Rows written to a target table: the bulk_insert node                    *)
(* (services/workflow/nodes/bulk_insert.py), which reads its input in      *)
(* chunks and calls LoadService.insert for each, the composite_insert      *)
(* node, which calls insert_composite once with all its rows, and the ways *)
(* of services/load_service.py into the database: dlt, a transaction with  *)
(* a savepoint per batch that falls back to a savepoint per row, and row   *)
(* by row (upsert, RETURNING, composite).                                  *)
(*                                                                         *)
(* The runner tries a failed node again, and it does so too when an        *)
(* attempt times out, whose thread then goes on (WorkflowRunner): attempts *)
(* run side by side on one table.  The batch of a call is the whole chunk, *)
(* bulk_insert passes one batch_size for both.                             *)
(*                                                                         *)
(* An upsert is ON CONFLICT, which needs a unique index on the key, or     *)
(* looks first: with RETURNING a SELECT, then an UPDATE or an INSERT; with *)
(* MERGE the two halves of a statement.  Those need no index.  Without one *)
(* ON CONFLICT is not modelled: PostgreSQL refuses every row, and MySQL    *)
(* inserts each.                                                           *)
(***************************************************************************)
EXTENDS Integers, FiniteSets, FiniteSetsExt

CONSTANTS
    N,              \* the rows of the input are 1..N
    ChunkSize,      \* batch_size
    Setups,         \* the configurations of the node, with what the target refuses
    MaxAttempts,    \* of the retry policy
    MaxFaults       \* bound of the model: transient failures of the database, timeouts

Rows == 1..N
Attempts == 1..MaxAttempts
Strategies == {"append_fast", "append_safe", "upsert", "composite"}

\* What the constants are.  key: what unique_columns and merge_keys say of each
\* row.  indexed: the target has a unique index on it.  bad: the rows that violate
\* another constraint.
Constants ==
    /\ N \in Nat \ {0} /\ ChunkSize \in Nat \ {0}
    /\ MaxAttempts \in Nat \ {0} /\ MaxFaults \in Nat
    /\ \A s \in Setups :
        /\ s.strategy \in Strategies /\ s.loader \in {"dlt", "sqlalchemy"}
        /\ s.returning \in BOOLEAN /\ s.unique \in BOOLEAN /\ s.indexed \in BOOLEAN
        /\ DOMAIN s.key = Rows /\ s.bad \subseteq Rows

VARIABLES
    setup,          \* the configuration of this node (never changes)
    current,        \* the attempt that the runner awaits
    pc,             \* where each attempt is
    next,           \* the first row that an attempt has not read
    todo,           \* the prepared rows of its call that are still to be written
    found,          \* what the upsert of the next row has found of its key
    changed,        \* the rows that an upsert has inserted or updated in its transaction
    wrote,          \* copies of each row that its open transaction has inserted
    ok,             \* successful_row_numbers
    failed,         \* failed_row_numbers
    dropped,        \* duplicates_removed
    redone,         \* dlt has failed in this attempt
    table,          \* copies of each row in the target, by the attempt that inserted them
    value,          \* the row whose values the target has for a key, by an upsert; 0: none
    overlapped,     \* history: an attempt was started beside another
    faults

attemptVars == <<pc, next, todo, found, changed, wrote, ok, failed, dropped, redone>>
targetVars == <<table, value>>
vars == <<setup, current, attemptVars, targetVars, overlapped, faults>>

Places == {"idle", "read", "dlt", "batch", "rows", "commit", "done", "error", "raised"}

Keys == {setup.key[r] : r \in Rows}

TypeOK ==
    /\ setup \in Setups
    /\ current \in Attempts
    /\ pc \in [Attempts -> Places]
    /\ next \in [Attempts -> 1..N + 1]
    /\ todo \in [Attempts -> SUBSET Rows] /\ wrote \in [Attempts -> [Rows -> Nat]]
    /\ found \in [Attempts -> {"asks", "there", "absent"}]
    /\ changed \in [Attempts -> SUBSET Rows]
    /\ ok \in [Attempts -> SUBSET Rows] /\ failed \in [Attempts -> SUBSET Rows]
    /\ dropped \in [Attempts -> SUBSET Rows]
    /\ redone \in [Attempts -> BOOLEAN]
    /\ table \in [Attempts -> [Rows -> Nat]]
    /\ value \in [Keys -> 0..N]
    /\ overlapped \in BOOLEAN
    /\ faults \in 0..MaxFaults

Nothing == [r \in Rows |-> 0]
\* what there is of each row, and once more of those in rows
Plus(copies, rows) == [r \in Rows |-> IF r \in rows THEN copies[r] + 1 ELSE copies[r]]

Init ==
    /\ setup \in Setups
    /\ current = 1
    /\ pc = [a \in Attempts |-> IF a = 1 THEN "read" ELSE "idle"]
    /\ next = [a \in Attempts |-> 1]
    /\ todo = [a \in Attempts |-> {}] /\ wrote = [a \in Attempts |-> Nothing]
    /\ found = [a \in Attempts |-> "asks"] /\ changed = [a \in Attempts |-> {}]
    /\ ok = [a \in Attempts |-> {}] /\ failed = [a \in Attempts |-> {}]
    /\ dropped = [a \in Attempts |-> {}]
    /\ redone = [a \in Attempts |-> FALSE]
    /\ table = [a \in Attempts |-> Nothing]
    /\ value = [k \in Keys |-> 0]
    /\ overlapped = FALSE
    /\ faults = 0

Goes(a, to) == pc' = [pc EXCEPT ![a] = to]
Fault == faults < MaxFaults /\ faults' = faults + 1

-----------------------------------------------------------------------------
(* What the configuration decides *)

Upserts == setup.strategy = "upsert"
Composite == setup.strategy = "composite"
Appends == ~Upserts

\* RETURNING turns append_fast into append_safe, which goes row by row then.
ByDlt == setup.strategy = "append_fast" /\ ~setup.returning /\ setup.loader = "dlt"
RowByRow == Upserts \/ Composite \/ setup.returning

\* The way of a call into the database.
Path == IF ByDlt THEN "dlt" ELSE IF RowByRow THEN "rows" ELSE "batch"

\* The handler of a refused INSERT ... RETURNING reads a variable of the other
\* branch, which is unbound: the call raises.
RefusalRaises == setup.returning /\ Appends /\ ~Composite

LooksFirst == Upserts /\ (setup.returning \/ ~setup.indexed)

-----------------------------------------------------------------------------
(* Reading a chunk *)

LastOf(a) == IF Composite \/ next[a] + ChunkSize > N THEN N ELSE next[a] + ChunkSize - 1
Chunk(a) == next[a]..LastOf(a)

\* unique_columns: of rows with the same key the first of the chunk stays.
IsDuplicate(a, r) ==
    setup.unique /\ ~Composite /\ \E q \in Chunk(a) : q < r /\ setup.key[q] = setup.key[r]
Kept(a) == {r \in Chunk(a) : ~IsDuplicate(a, r)}

Reads(a) ==
    /\ pc[a] = "read" /\ next[a] <= N
    /\ todo' = [todo EXCEPT ![a] = Kept(a)]
    /\ dropped' = [dropped EXCEPT ![a] = @ \union (Chunk(a) \ Kept(a))]
    /\ next' = [next EXCEPT ![a] = LastOf(a) + 1]
    /\ Goes(a, Path)
    /\ UNCHANGED <<setup, current, found, changed, wrote, ok, failed, redone, targetVars,
                   overlapped, faults>>

Finishes(a) ==
    /\ pc[a] = "read" /\ next[a] > N
    /\ Goes(a, "done")
    /\ UNCHANGED <<setup, current, next, todo, found, changed, wrote, ok, failed, dropped, redone,
                   targetVars, overlapped, faults>>

-----------------------------------------------------------------------------
(* dlt *)

Refusable(a) == todo[a] \intersect setup.bad # {}

DltLoads(a) ==
    /\ pc[a] = "dlt" /\ ~Refusable(a)
    /\ table' = [table EXCEPT ![a] = Plus(@, todo[a])]
    /\ ok' = [ok EXCEPT ![a] = @ \union todo[a]]
    /\ todo' = [todo EXCEPT ![a] = {}]
    /\ Goes(a, "read")
    /\ UNCHANGED <<setup, current, next, found, changed, wrote, failed, dropped, redone, value,
                   overlapped, faults>>

\* dlt commits in pieces; what it has committed stays, and the whole call goes
\* to SQLAlchemy.
DltFails(a) ==
    /\ pc[a] = "dlt"
    /\ \/ Refusable(a) /\ UNCHANGED faults
       \/ Fault
    /\ \E stays \in SUBSET (todo[a] \ setup.bad) : table' = [table EXCEPT ![a] = Plus(@, stays)]
    /\ redone' = [redone EXCEPT ![a] = TRUE]
    /\ Goes(a, "batch")
    /\ UNCHANGED <<setup, current, next, todo, found, changed, wrote, ok, failed, dropped, value,
                   overlapped>>

-----------------------------------------------------------------------------
(* The transaction of a call.  Its first savepoint is around the batch.       *)

BatchGoesIn(a) ==
    /\ pc[a] = "batch" /\ ~Refusable(a)
    /\ wrote' = [wrote EXCEPT ![a] = Plus(@, todo[a])]
    /\ ok' = [ok EXCEPT ![a] = @ \union todo[a]]
    /\ todo' = [todo EXCEPT ![a] = {}]
    /\ Goes(a, "commit")
    /\ UNCHANGED <<setup, current, next, found, changed, failed, dropped, redone, targetVars,
                   overlapped, faults>>

AfterRollback_Ghosts(a) ==    \* mutant: no savepoint, the rows before the bad one stay
    [wrote EXCEPT ![a] = Plus(@, {r \in todo[a] : \A b \in setup.bad : r < b})]
AfterRollback(a) == wrote

BatchRefused(a) ==
    /\ pc[a] = "batch"
    /\ \/ Refusable(a) /\ UNCHANGED faults
       \/ Fault
    /\ wrote' = AfterRollback(a)
    /\ Goes(a, "rows")
    /\ UNCHANGED <<setup, current, next, todo, found, changed, ok, failed, dropped, redone,
                   targetVars, overlapped>>

\* the rows of a call are written in their order
NextRow(a) == Min(todo[a])
KeyOf(a) == setup.key[NextRow(a)]

Changes(a, k) == \E r \in changed[a] : setup.key[r] = k
Updates(a, k) == \E r \in changed[a] : setup.key[r] = k /\ wrote[a][r] = 0
InTable(k) == \E a \in Attempts, r \in Rows : setup.key[r] = k /\ table[a][r] > 0

\* What has been committed, and the rows of its own transaction.
Exists_InsertFirst(a, k) == FALSE     \* mutant: INSERT, and UPDATE if that is refused
Exists(a, k) == InTable(k) \/ Changes(a, k)

LooksUp(a) ==
    /\ pc[a] = "rows" /\ todo[a] # {} /\ LooksFirst /\ found[a] = "asks"
    /\ found' = [found EXCEPT ![a] = IF Exists(a, KeyOf(a)) THEN "there" ELSE "absent"]
    /\ UNCHANGED <<setup, current, pc, next, todo, changed, wrote, ok, failed, dropped, redone,
                   targetVars, overlapped, faults>>

Inserts(a) ==
    \/ Appends
    \/ Upserts /\ IF LooksFirst THEN found[a] = "absent" ELSE ~Exists(a, KeyOf(a))

\* Another transaction has a row of that key in the index, or has changed a row
\* that is to be changed.
Blocked(a) ==
    /\ Upserts
    /\ \E b \in Attempts \ {a} :
        \/ setup.indexed /\ Changes(b, KeyOf(a))
        \/ ~Inserts(a) /\ InTable(KeyOf(a)) /\ Updates(b, KeyOf(a))

\* The key has come in since the row was looked for.
Taken(a) == setup.indexed /\ LooksFirst /\ Inserts(a) /\ InTable(KeyOf(a))

Answered(a) == LooksFirst => found[a] # "asks"
Refusal(a) == Answered(a) /\ (NextRow(a) \in setup.bad \/ Taken(a))

Handled(a) ==
    /\ todo' = [todo EXCEPT ![a] = @ \ {NextRow(a)}]
    /\ found' = [found EXCEPT ![a] = "asks"]

RowGoesIn(a) ==
    /\ pc[a] = "rows" /\ todo[a] # {}
    /\ Answered(a) /\ ~Refusal(a) /\ ~Blocked(a)
    /\ wrote' = IF Inserts(a) THEN [wrote EXCEPT ![a] = Plus(@, {NextRow(a)})] ELSE wrote
    /\ changed' = IF Upserts THEN [changed EXCEPT ![a] = @ \union {NextRow(a)}] ELSE changed
    /\ ok' = [ok EXCEPT ![a] = @ \union {NextRow(a)}]
    /\ Handled(a)
    /\ UNCHANGED <<setup, current, pc, next, failed, dropped, redone, targetVars, overlapped, faults>>

\* A constraint, the victim of a deadlock, or a failure of this statement.
Refuses(a) ==
    \/ (Refusal(a) \/ (Answered(a) /\ Blocked(a))) /\ UNCHANGED faults
    \/ Fault

RowRefused(a) ==
    /\ pc[a] = "rows" /\ todo[a] # {} /\ ~RefusalRaises
    /\ Refuses(a)
    /\ failed' = [failed EXCEPT ![a] = @ \union {NextRow(a)}]
    /\ Handled(a)
    /\ UNCHANGED <<setup, current, pc, next, changed, wrote, ok, dropped, redone, targetVars,
                   overlapped>>

\* The transaction is undone, and with it what its rows were counted for.
Raises(a) ==
    /\ wrote' = [wrote EXCEPT ![a] = Nothing]
    /\ todo' = [todo EXCEPT ![a] = {}]
    /\ found' = [found EXCEPT ![a] = "asks"] /\ changed' = [changed EXCEPT ![a] = {}]
    /\ ok' = [ok EXCEPT ![a] = {}] /\ failed' = [failed EXCEPT ![a] = {}]
    /\ Goes(a, IF Composite THEN "error" ELSE "raised")
    /\ UNCHANGED <<setup, current, next, dropped, redone, overlapped>>

RowRefusedRaises(a) ==
    /\ pc[a] = "rows" /\ todo[a] # {} /\ RefusalRaises
    /\ Refuses(a)
    /\ Raises(a)
    /\ UNCHANGED targetVars

\* The transaction adds what it has inserted, and a key has the values of the last
\* row that it was inserted or updated with.
Applied(a) ==
    LET Last(k) == Max({r \in changed[a] : setup.key[r] = k})
    IN  /\ table' = [table EXCEPT ![a] = [r \in Rows |-> @[r] + wrote[a][r]]]
        /\ value' = [k \in Keys |-> IF Changes(a, k) THEN Last(k) ELSE value[k]]

CanCommit(a) == pc[a] = "commit" \/ (pc[a] = "rows" /\ todo[a] = {})

Commits(a) ==
    /\ CanCommit(a)
    /\ Applied(a)
    /\ wrote' = [wrote EXCEPT ![a] = Nothing]
    /\ changed' = [changed EXCEPT ![a] = {}]
    /\ Goes(a, "read")
    /\ UNCHANGED <<setup, current, next, todo, found, ok, failed, dropped, redone, overlapped, faults>>

\* The connection breaks.  A commit whose answer is lost may be done.
ConnectionBreaks(a) ==
    /\ pc[a] \in {"batch", "rows", "commit"}
    /\ Fault
    /\ Raises(a)
    /\ (CanCommit(a) /\ Applied(a)) \/ UNCHANGED targetVars

-----------------------------------------------------------------------------
(* The runner *)

StartsAgain ==
    /\ current' = current + 1
    /\ Goes(current + 1, "read")
    /\ UNCHANGED <<setup, next, todo, found, changed, wrote, ok, failed, dropped, redone, targetVars>>

RetriesFailed ==
    /\ current < MaxAttempts /\ pc[current] = "raised"
    /\ StartsAgain
    /\ UNCHANGED <<overlapped, faults>>

\* The attempt has timed out; its thread goes on.
RetriesExpired ==
    /\ current < MaxAttempts /\ pc[current] \notin {"done", "error", "raised"}
    /\ Fault
    /\ StartsAgain
    /\ overlapped' = TRUE

Step(a) ==
    \/ Reads(a) \/ Finishes(a) \/ DltLoads(a) \/ DltFails(a)
    \/ BatchGoesIn(a) \/ BatchRefused(a) \/ LooksUp(a) \/ RowGoesIn(a) \/ RowRefused(a)
    \/ RowRefusedRaises(a) \/ Commits(a) \/ ConnectionBreaks(a)

Next == (\E a \in Attempts : Step(a)) \/ RetriesFailed \/ RetriesExpired

Spec == Init /\ [][Next]_vars

-----------------------------------------------------------------------------
(* Properties *)

Between(a) == pc[a] \in {"read", "done"}

\* Every row that an attempt has read is in exactly one of the three lists of
\* its report, a duplicate only behind the row it repeats.
EachRowAccounted ==
    \A a \in Attempts : Between(a) =>
        /\ ok[a] \union failed[a] \union dropped[a] = 1..next[a] - 1
        /\ ok[a] \intersect failed[a] = {}
        /\ dropped[a] \intersect (ok[a] \union failed[a]) = {}
        /\ \A r \in dropped[a] : \E q \in (ok[a] \union failed[a]) : q < r /\ setup.key[q] = setup.key[r]

\* What an attempt has appended is what it reports, each row once: no ghost rows
\* of a batch that failed in the middle ("evitar que falhas parciais gerem linhas
\* fantasma"), none twice, and no refused row.  Only where dlt gave up may a
\* row be there once more, or against the report.
AppendsAsReported ==
    Appends => \A a \in Attempts : Between(a) /\ ~redone[a] =>
        \A r \in Rows : table[a][r] = IF r \in ok[a] THEN 1 ELSE 0

ReportExact == TypeOK /\ EachRowAccounted /\ AppendsAsReported

Copies(k) ==
    {place \in Attempts \X Rows : setup.key[place[2]] = k /\ table[place[1]][place[2]] > 0}

\* "com ou sem indice unique": an upsert leaves one row for each key.
OneRowEach == Upserts => \A k \in Keys : Cardinality(Copies(k)) <= 1

\* However often an upsert is repeated, overtaken or cut off, the table has one
\* row for each key ("Idempotente por merge_key"), unless it has no unique index
\* and an attempt that timed out went on beside the next: each may then look for
\* the key before the other commits it.  When nothing was repeated the row is the
\* last one reported as written ("o valor mais recente"; but of the rows of a
\* chunk unique_columns has dropped all but the first).
UpsertKeepsLast ==
    Upserts =>
        /\ setup.indexed \/ ~overlapped => OneRowEach
        /\ current = 1 /\ Between(1) =>
             \A r \in ok[1] :
                value[setup.key[r]] = r <=> \A q \in ok[1] : q > r => setup.key[q] # setup.key[r]
=============================================================================
