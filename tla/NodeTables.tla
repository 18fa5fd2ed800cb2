----------------------------- MODULE NodeTables -----------------------------
(***************************************************************************)
(* What the nodes that route and combine rows do with the tables of their  *)
(* inputs (services/workflow/nodes): if_node in both modes, filter,        *)
(* assert, ifElse, switch_node in both modes, join, lookup, deduplication, *)
(* union, aggregator, pivot and record_id.  The nodes write SQL, so a      *)
(* condition has three truth values and a row number is any that the ORDER *)
(* BY allows.                                                              *)
(*                                                                         *)
(* A job is an input and a configuration; one step computes what the nodes *)
(* of its kind make of it.  Rows are known by their place in the input.    *)
(* The values of a column are one-letter texts, numbered in their order:   *)
(* there "contains" is equality up to the case of the letter.              *)
(***************************************************************************)
EXTENDS Integers, Sequences, FiniteSets, SequencesExt, FiniteSetsExt

CONSTANTS
    Values,         \* the texts: numbers
    Lower,          \* the text with its letter in lower case: [Values -> Values]
    Cleaned,        \* the table of a label: sanitize_name
    Jobs,           \* bound of the model: the inputs and configurations considered
    Null, None,
    Raised          \* the NodeProcessingError of a node

VARIABLES
    job,            \* never changes
    out             \* None, or what the nodes made of it
vars == <<job, out>>

Init == job \in Jobs /\ out = None

TextSearch == {"contains", "startswith"}    \* like is eq on these texts, ilike is contains
Operators == {"eq", "ne", "gt", "is_null", "is_not_null", "in", "not_in"} \union TextSearch
Cells == Values \union {Null}

\* What the constants are.
Shapes ==
    /\ Values \subseteq Int /\ Lower \in [Values -> Values]
    /\ Null \notin Int /\ Null \notin BOOLEAN /\ None \notin Nat
    /\ Raised \notin {"true", "false"} /\ Raised \notin Seq(Int)
    /\ \A j \in Jobs : j.node = "conditions" =>
         /\ j.logic \in {"AND", "OR"}
         /\ \A c \in j.conditions :
              /\ c.op \in Operators /\ c.arg \in Cells /\ c.list \subseteq Cells
              /\ \A i \in DOMAIN j.table : j.table[i][c.field] \in Cells
    /\ \A j \in Jobs : j.node = "switch" =>
         j.cases \in Seq(Range(j.cases))
    /\ \A j \in Jobs : j.node = "join" => {j.left, j.right} \subseteq Seq(Cells)
    /\ \A j \in Jobs : j.node = "lookup" =>
         /\ j.primary \in Seq(Cells) /\ j.dictionary \in Seq([key : Cells, val : Cells])
         /\ j.keep \in {"first", "last"}
    /\ \A j \in Jobs : j.node = "union" =>
         j.sources \in Seq([handle : Nat, keys : Seq(Cells)])
    /\ \A j \in Jobs : j.node = "pivot" =>
         j.table \in Seq([key : Cells, pivot : Cells, val : Cells])
    /\ \A j \in Jobs : j.node = "record_id" =>
         /\ j.start \in Int /\ j.offset \in Int
         /\ {j.first, j.second} \subseteq Seq(Cells)

-----------------------------------------------------------------------------
(* Conditions, in SQL and in Python.                                        *)

Neg(t) == IF t = Null THEN Null ELSE ~t
Conj(truths) == IF FALSE \in truths THEN FALSE ELSE IF Null \in truths THEN Null ELSE TRUE
Disj(truths) == Neg(Conj({Neg(t) : t \in truths}))
Compared(x, y, holds) == IF Null \in {x, y} THEN Null ELSE holds
Equal(x, y) == Compared(x, y, x = y)
Similar(x, y) == y # Null /\ Lower[x] = Lower[y]

\* the truth of condition c for the value x of its field; gt stands for the four comparisons
Clause(c, x, ignoresCase) ==
    CASE c.op = "eq" -> Equal(x, c.arg)
      [] c.op = "ne" -> Neg(Equal(x, c.arg))
      [] c.op = "gt" -> Compared(x, c.arg, x > c.arg)
      [] c.op = "is_null" -> x = Null
      [] c.op = "is_not_null" -> x # Null
      [] c.op = "in" -> Disj({Equal(x, a) : a \in c.list})
      [] c.op = "not_in" -> Neg(Disj({Equal(x, a) : a \in c.list}))
      [] c.op \in TextSearch ->
            IF x = Null THEN Null ELSE IF ignoresCase THEN Similar(x, c.arg) ELSE x = c.arg

Where(row, ignoresCase) ==
    LET truths == {Clause(c, row[c.field], ignoresCase) : c \in job.conditions}
    IN  IF truths = {} THEN TRUE ELSE IF job.logic = "AND" THEN Conj(truths) ELSE Disj(truths)

Passes(c, x) ==
    CASE c.op = "is_null" -> x = Null
      [] c.op = "in" -> x \in c.list
      [] c.op = "not_in" -> x \notin c.list
      [] OTHER ->
            /\ x # Null
            /\ CASE c.op = "ne" -> x # c.arg
                 [] c.op = "gt" -> c.arg # Null /\ x > c.arg
                 [] c.op = "is_not_null" -> TRUE
                 [] c.op = "eq" -> x = c.arg
                 [] c.op \in TextSearch -> Similar(x, c.arg)

Gate(row) ==
    LET passes == {Passes(c, row[c.field]) : c \in job.conditions}
    IN  IF passes = {} \/ (IF job.logic = "AND" THEN FALSE \notin passes ELSE TRUE \in passes)
        THEN "true" ELSE "false"

-----------------------------------------------------------------------------
(* ROW_NUMBER() OVER (PARTITION BY group ORDER BY ...): group gives each row *)
(* its group, before the pairs that the order tells apart; the others are   *)
(* numbered either way.  NULLs are one group.                               *)

Numberings(group, before) ==
    {number \in [DOMAIN group -> 1..Cardinality(DOMAIN group)] : \A r \in DOMAIN group :
        LET rows == {s \in DOMAIN group : group[s] = group[r]}
        IN  /\ number[r] \in 1..Cardinality(rows)
            /\ \A s \in rows \ {r} : number[s] # number[r]
                                      /\ (<<s, r>> \in before => number[s] < number[r])}
OnePerGroup(group, before) ==
    {{r \in DOMAIN group : number[r] = 1} : number \in Numberings(group, before)}
Unordered == {}

-----------------------------------------------------------------------------
(* union: sources are the active upstreams, in the order of their edges.  A *)
(* handle gives the rows of the first source wired to it.                   *)

Handles(sources) == {s.handle : s \in Range(sources)}
SourceOf(sources, h) == CHOOSE k \in DOMAIN sources :
    sources[k].handle = h /\ \A m \in 1..(k - 1) : sources[m].handle # h
\* Mutant: the last input has the first rank
Rank_Reversed(handles, h) == Cardinality({g \in handles : g >= h})
Rank(handles, h) == Cardinality({g \in handles : g <= h})

RowsIn(sources) == UNION {sources[SourceOf(sources, h)].rows : h \in Handles(sources)}
RankOf(sources, r) ==
    Rank(Handles(sources),
         CHOOSE h \in Handles(sources) : r \in sources[SourceOf(sources, h)].rows)
Preferred(sources, priority) ==
    LET Before(r, s) ==
            \/ priority = "input_first" /\ RankOf(sources, r) < RankOf(sources, s)
            \/ priority = "input_last" /\ RankOf(sources, r) > RankOf(sources, s)
    IN  {p \in RowsIn(sources) \X RowsIn(sources) : Before(p[1], p[2])}

\* keys gives the key of every row of the sources
Unions(sources, keys, priority) ==
    IF Cardinality(Handles(sources)) < 2 THEN {Raised}
    ELSE IF priority = None THEN {RowsIn(sources)}
    ELSE OnePerGroup([r \in RowsIn(sources) |-> keys[r]], Preferred(sources, priority))

-----------------------------------------------------------------------------
(* The same rows and conditions for each of the nodes that have conditions, *)
(* and the branches of if_node joined again by a union.                     *)

Ids(table) == DOMAIN table
Kept(ignoresCase) == {i \in Ids(job.table) : Where(job.table[i], ignoresCase) = TRUE}
Violating(ignoresCase) == {i \in Ids(job.table) : Where(job.table[i], ignoresCase) = FALSE}

Branch == [true |-> Kept(TRUE), false |-> Violating(TRUE)]
ActiveHandles == {h \in DOMAIN Branch : Branch[h] # {}}

\* filter, assert and ifElse refuse to run without a condition; ifElse knows fewer of them
Filter == IF job.conditions = {} THEN Raised ELSE Kept(FALSE)
Asserted(action) ==
    IF job.conditions = {} \/ (action = "abort" /\ Violating(FALSE) # {}) THEN Raised
    ELSE IF action = "drop" THEN Kept(FALSE) ELSE Ids(job.table)
IfElse == IF job.conditions = {} \/ \E c \in job.conditions : c.op = "startswith" THEN Raised
          ELSE IF Kept(FALSE) # {} THEN "true" ELSE "false"

\* the sources of a union behind a node on each branch: only active branches arrive
Arriving(handle, rows) == IF rows = {} THEN <<>> ELSE <<[handle |-> handle, rows |-> rows]>>
FromBranches == Arriving(1, Branch.true) \o Arriving(2, Branch.false)

Conditioned ==
    {[branch |-> Branch, active |-> ActiveHandles, merged |-> merged,
      gate |-> [i \in Ids(job.table) |-> Gate(job.table[i])],
      filter |-> Filter, ifElse |-> IfElse,
      drop |-> Asserted("drop"), abort |-> Asserted("abort")] :
     merged \in Unions(FromBranches, [i \in Ids(job.table) |-> job.table[i].key], None)}

-----------------------------------------------------------------------------
(* switch_node: one table for each case and one for default, written in     *)
(* that order; branches and counts are dictionaries by label.               *)

Default == "default"
\* Mutant: a row without a value belongs to no case, and not to default either
Unassigned_NotIn(x, values) == x # Null /\ x \notin values
Unassigned(x, values) == x \notin values

SwitchGate(x) == LET fitting == {k \in DOMAIN job.cases : x \in job.cases[k].values}
                 IN  IF fitting = {} THEN Default ELSE job.cases[Min(fitting)].label

Matching(values) == {i \in Ids(job.column) : job.column[i] \in values}

Switched ==
    LET assigned == UNION {c.values : c \in Range(job.cases)}
        writes == Append([k \in DOMAIN job.cases |->
                            [label |-> job.cases[k].label, rows |-> Matching(job.cases[k].values)]],
                         [label |-> Default,
                          rows |-> {i \in Ids(job.column) : Unassigned(job.column[i], assigned)}])
        labels == {w.label : w \in Range(writes)}
        Final(Wanted(_)) == writes[Max({k \in DOMAIN writes : Wanted(writes[k].label)})].rows
        counts == [l \in labels |-> Cardinality(Final(LAMBDA m : m = l))]
    IN  {[branch |-> [l \in labels |-> Final(LAMBDA m : Cleaned[m] = Cleaned[l])],
          counts |-> counts,
          gate |-> [i \in Ids(job.column) |-> SwitchGate(job.column[i])]]}

-----------------------------------------------------------------------------
(* join and lookup: pairs of rows, None where a side has no row.  The keys  *)
(* of the right side are left out of the output.                            *)

Matches(left, right) == {p \in Ids(left) \X Ids(right) : Equal(left[p[1]], right[p[2]]) = TRUE}

Pairs(left, right, type) ==
    LET matched == Matches(left, right)
    IN  matched
        \union (IF type \in {"left", "full"}
                THEN {<<i, None>> : i \in {i \in Ids(left) : \A p \in matched : p[1] # i}} ELSE {})
        \union (IF type \in {"right", "full"}
                THEN {<<None, j>> : j \in {j \in Ids(right) : \A p \in matched : p[2] # j}} ELSE {})

Joined ==
    {[pairs |-> Pairs(job.left, job.right, job.type),
      key |-> [p \in Pairs(job.left, job.right, job.type) |->
                 IF p[1] = None THEN Null ELSE job.left[p[1]]]]}

\* the key of each of the rows
Keys(table, rows) == [i \in rows |-> table[i].key]

\* deduplication; the ORDER BY of DuckDB puts NULLs last in both directions
Ordering(table, ordered, keep) ==
    LET Comes(i, j) == /\ ordered /\ table[i].val # Null
                       /\ \/ table[j].val = Null
                          \/ keep = "first" /\ table[i].val < table[j].val
                          \/ keep = "last" /\ table[i].val > table[j].val
    IN  {p \in Ids(table) \X Ids(table) : Comes(p[1], p[2])}
Deduplicated(table, ordered, keep) ==
    OnePerGroup(Keys(table, Ids(table)), Ordering(table, ordered, keep))

\* a dictionary, as it is and deduplicated by its key, and the lookup in each
LookedUp ==
    LET Found(rows) == Pairs(job.primary, Keys(job.dictionary, rows), "left")
    IN  {[rows |-> rows, plain |-> Found(Ids(job.dictionary)), single |-> Found(rows)] :
            rows \in Deduplicated(job.dictionary, job.ordered, job.keep)}

\* a row is the place of its source and its place in it
RowsOf(k) == {<<k, i>> : i \in Ids(job.sources[k].keys)}
KeyOf(r) == job.sources[r[1]].keys[r[2]]
Inputs == [k \in DOMAIN job.sources |-> [handle |-> job.sources[k].handle, rows |-> RowsOf(k)]]
InputKeys == [r \in UNION {RowsOf(k) : k \in DOMAIN job.sources} |-> KeyOf(r)]

United == {[rows |-> rows] : rows \in Unions(Inputs, InputKeys, job.priority)}

-----------------------------------------------------------------------------
(* aggregator and pivot, by the same key; the SUM of no values is NULL.     *)

Added(values) == LET known == {i \in DOMAIN values : values[i] # Null}
                 IN  IF known = {} THEN Null ELSE SumFunctionOnSet(values, known)

Groups == {r.key : r \in Range(job.table)}
Rows(g) == {i \in Ids(job.table) : job.table[i].key = g}
Aggregated == [g \in Groups |-> [sum |-> Added([i \in Rows(g) |-> job.table[i].val]),
                                 count |-> Cardinality(Rows(g))]]

PivotValues == {r.pivot : r \in Range(job.table)} \ {Null}
PivotCell(g, c) ==
    [sum |-> Added([i \in Rows(g) |-> IF job.table[i].pivot = c THEN job.table[i].val ELSE 0]),
     count |-> Cardinality({i \in Rows(g) : job.table[i].pivot = c})]
Pivoted == IF PivotValues = {} \/ Cardinality(PivotValues) > job.max THEN Raised
           ELSE [g \in Groups |-> [c \in PivotValues |-> PivotCell(g, c)]]

Totalled == {[aggregated |-> Aggregated, pivoted |-> Pivoted]}

Offset(start) == start - 1
Numbered(group, start) ==
    {[r \in DOMAIN group |-> number[r] + Offset(start)] : number \in Numberings(group, Unordered)}

\* Two batches of record_id: the second starts behind the highest number of the first,
\* linked through an aggregator (MAX) and start_at_offset.
Partition == [i \in Ids(job.first) |-> IF job.partitioned THEN job.first[i] ELSE None]
Linked(ids) ==
    IF ids = <<>> \/ Max(Range(ids)) + job.offset < 1 THEN {Raised}
    ELSE Numbered([i \in Ids(job.second) |-> None], Max(Range(ids)) + job.offset)

Recorded ==
    IF job.start < 1 THEN {[first |-> Raised, second |-> Raised]}
    ELSE UNION {{[first |-> ids, second |-> next] : next \in Linked(ids)} :
                  ids \in Numbered(Partition, job.start)}

-----------------------------------------------------------------------------
Answers(node, results) == out = None /\ job.node = node /\ out' \in results /\ UNCHANGED job

Conditions == Answers("conditions", Conditioned)
Switch == Answers("switch", Switched)
Join == Answers("join", Joined)
Lookup == Answers("lookup", LookedUp)
Union == Answers("union", United)
Pivot == Answers("pivot", Totalled)
RecordId == Answers("record_id", Recorded)

Next == Conditions \/ Switch \/ Join \/ Lookup \/ Union \/ Pivot \/ RecordId
Spec == Init /\ [][Next]_vars

Did(node) == out # None /\ job.node = node

-----------------------------------------------------------------------------
NullTests == {"is_null", "is_not_null"}
Arguments(c) == IF c.op \in {"in", "not_in"} THEN c.list ELSE {c.arg}
\* a condition of the job compares row i with a NULL
ComparesNull(i) == \E c \in job.conditions :
    c.op \notin NullTests /\ Null \in Arguments(c) \union {job.table[i][c.field]}

ConditionsRouted ==
    LET true == out.branch.true
        false == out.branch.false
        blank == {i \in Ids(job.table) : ComparesNull(i)}
    IN  /\ true \intersect false = {}
        /\ Ids(job.table) \ (true \union false) \subseteq blank
        /\ out.merged = IF true = {} \/ false = {} THEN Raised ELSE true \union false
        /\ out.filter # Raised =>
             /\ out.filter \subseteq true
             /\ (\A c \in job.conditions : c.op \notin TextSearch) => out.filter = true
             /\ out.abort # Raised => Ids(job.table) \ out.drop \subseteq blank
             /\ out.ifElse = "true" => "true" \in out.active

Labels == {Default} \union {c.label : c \in Range(job.cases)}
OwnTables == /\ IsInjective([k \in DOMAIN job.cases |-> Cleaned[job.cases[k].label]])
             /\ \A c \in Range(job.cases) : Cleaned[c.label] # Cleaned[Default]
Holders(i) == {l \in Labels : i \in out.branch[l]}

SwitchRouted ==
    /\ \A l \in Labels : out.counts[l] = Cardinality(out.branch[l])
    /\ \A i \in Ids(job.column) :
         LET fitting == {c \in Range(job.cases) : job.column[i] \in c.values}
         IN  IF Cardinality(fitting) > 1 THEN Holders(i) = {c.label : c \in fitting}
             ELSE Cardinality(Holders(i)) = 1

(* A row is in one branch of an if_node; it is in none only if a condition  *)
(* compares it with a NULL.  What filter and assert keep is what if_node    *)
(* calls true, but for the case of a text, and an assert that lets all      *)
(* pass could not have dropped a row without a NULL.  The branches can be   *)
(* joined again only if both have rows.  A row of a switch_node is in one   *)
(* branch, NULLs in default, in more if cases share its value, provided     *)
(* every label has a table of its own.                                      *)
(* The mode for a status and the mode for rows agree on one record: a gate  *)
(* opens where the row would have gone, or one of the branches that the row *)
(* would have been in; where the row would have gone nowhere it opens one.  *)
RoutedExact ==
    /\ Did("conditions") =>
         /\ ConditionsRouted
         /\ \A i \in Ids(job.table) : \A h \in DOMAIN out.branch :
              i \in out.branch[h] => out.gate[i] = h
    /\ Did("switch") /\ OwnTables =>
         /\ SwitchRouted
         /\ \A i \in Ids(job.column) : out.gate[i] \in Holders(i)

-----------------------------------------------------------------------------
Uses(pairs, i) == Cardinality({p \in pairs : p[1] = i})

JoinMatched ==
    /\ \A p \in out.pairs : p[1] # None /\ p[2] # None => out.key[p] = job.right[p[2]]
    /\ \A p \in out.pairs : out.key[p] = Null => p[1] = None \/ job.left[p[1]] = Null
    /\ \A j \in Ids(job.right) : job.type \in {"right", "full"} => \E p \in out.pairs : p[2] = j
    /\ job.type = "full" =>
         \A i \in Ids(job.left), j \in Ids(job.right) :
            <<i, None>> \in out.pairs /\ <<None, j>> \in out.pairs =>
               job.left[i] # job.right[j] \/ job.left[i] = Null

LookupMatched == \A i \in Ids(job.primary) :
    /\ Uses(out.single, i) = 1
    /\ Uses(out.plain, i) > 1 <=>
         Cardinality({j \in Ids(job.dictionary) : /\ job.dictionary[j].key = job.primary[i]
                                                  /\ job.primary[i] # Null}) > 1
    /\ \A p, q \in out.single \union out.plain : p[1] = i /\ q[1] = i =>
         (job.ordered /\ p \in out.single /\ p[2] # None /\ job.dictionary[q[2]].val # Null =>
            LET used == job.dictionary[p[2]].val
                other == job.dictionary[q[2]].val
            IN  used # Null /\ IF job.keep = "first" THEN used <= other ELSE used >= other)

UnionMatched ==
    LET Hidden(k) == \E m \in 1..(k - 1) : job.sources[m].handle = job.sources[k].handle
        heard == {k \in DOMAIN job.sources : ~Hidden(k)}
        all == UNION {RowsOf(k) : k \in heard}
    IN  out.rows # Raised =>
          IF job.priority = None THEN out.rows = all
          ELSE \A r \in all : \E s \in out.rows :
                 /\ {t \in out.rows : KeyOf(t) = KeyOf(r)} = {s}
                 /\ job.priority = "input_first" =>
                      job.sources[s[1]].handle <= job.sources[r[1]].handle
                 /\ job.priority = "input_last" =>
                      job.sources[s[1]].handle >= job.sources[r[1]].handle

OrZero(v) == IF v = Null THEN 0 ELSE v

PivotAdds == out.pivoted # Raised => \A g \in DOMAIN out.aggregated :
    LET cells == out.pivoted[g]
        left == {i \in Ids(job.table) : job.table[i].key = g /\ job.table[i].pivot = Null}
    IN  /\ out.aggregated[g].count = Cardinality(left)
             + SumFunctionOnSet([c \in DOMAIN cells |-> cells[c].count], DOMAIN cells)
        /\ OrZero(out.aggregated[g].sum) =
             SumFunctionOnSet([i \in left |-> OrZero(job.table[i].val)], left)
             + SumFunctionOnSet([c \in DOMAIN cells |-> OrZero(cells[c].sum)], DOMAIN cells)

NumbersFollow ==
    LET total == Len(job.first) + Len(job.second)
    IN  IF out.first = Raised \/ out.second = Raised
        THEN job.start < 1 \/ job.first = <<>> \/ job.offset < 0
        ELSE job.offset = 1 =>
               /\ Range(out.first) \intersect Range(out.second) = {}
               /\ ~job.partitioned => Range(out.first) \union Range(out.second)
                                        = job.start..(job.start + total - 1)

(* A joined row has the key of its match, and no key only if it is a right  *)
(* row without one.  A lookup repeats a row for every entry of its key; in  *)
(* a dictionary that was deduplicated by the key it finds one, the first or *)
(* the last by the order.  A union keeps the row of the first or last input *)
(* that has its key, by the number of the input, and hears one source for   *)
(* each.  The columns of a pivot and the rows whose pivot is NULL add up to *)
(* what the aggregator has for the group.  Two batches of record_id, the    *)
(* second linked behind the highest number of the first, have no number     *)
(* twice and, without partitions, none missing.                             *)
RowsMatched == /\ Did("join") => JoinMatched
               /\ Did("lookup") => LookupMatched
               /\ Did("union") => UnionMatched
               /\ Did("pivot") => PivotAdds
               /\ Did("record_id") => NumbersFollow
=============================================================================
