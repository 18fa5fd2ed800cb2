-------------------------- MODULE SharedServicesProofs --------------------------
(***************************************************************************)
(* What nodes share: OwnersExact and OnlyUserDestroys of the pool of       *)
(* containers, for any clients, containers, sizes and troubles;            *)
(* StaleExplained of the engine cache, for any connections, callers,       *)
(* requests and quota; HitsExplained of the cache of extractions, for any  *)
(* executions, nodes, keys, removals and histories.  And what single nodes  *)
(* do to rows: ReportExact and UpsertKeepsLast of loads, for any rows,     *)
(* chunks, configurations, attempts and faults; RoutedExact of conditions  *)
(* and switches, for any tables, conditions and cases, and RowsMatched of  *)
(* joins, lookups, unions, pivots and numbers, for any tables and jobs.    *)
(*                                                                         *)
(* The pool: each counter is the number of threads that its name says      *)
(* (Counted), which bounds what is stocked, since whoever adds a thread    *)
(* has just seen a deficit.  Who has which container is Owned: no hand and *)
(* no list names one that is not created yet, so that a new one is nobody's, *)
(* and what the health check found dead was idle when it began and is not  *)
(* up, whoever took it since, or was not answered for.  lost names what     *)
(* docker failed to remove, and what a failed creation left.               *)
(*                                                                         *)
(* The engines: a revision belongs to one content of a row (Determined),   *)
(* since a request that holds the lock of the row has a number that nobody *)
(* has seen (Fresh).  Once it has swept the key of the row it read, what   *)
(* still has the committed revision is late, if that row is the one it is  *)
(* about to replace (Swept).  So what its commit makes outdated is late,   *)
(* or the row was not the one it had read.                                 *)
(*                                                                         *)
(* The extractions: every file is of the key of its entry, and of a node   *)
(* that had this key once (Labelled).  A save copies a file of its own,    *)
(* and a row that is not late names a file that is there and not older     *)
(* than the last invalidation (SavesOwn, SavesCopied, RowsBacked), unless  *)
(* a removal has torn its key: where it has not, the removal has no save   *)
(* and no lookup beside it (Alone).  A lookup keeps what the row said      *)
(* (LookupsBacked), and a file that was there before another node of the   *)
(* execution has brought (Brought).                                        *)
(*                                                                         *)
(* The loads: each row an attempt has read is in one of its lists or still *)
(* to be written (ListsFit), and an upsert writes its rows in their order  *)
(* (LatestInv).  What an upsert has found of its key stays true until it   *)
(* writes, if no attempt overlaps (UpsertFits), and a unique index makes   *)
(* it wait otherwise: a key is there once (KeysOnce).                      *)
(*                                                                         *)
(* The routes: SQL calls a condition true of exactly the rows that Python  *)
(* calls it true of, one lemma for each operator (Clauses, Wheres), so the *)
(* branches of the one are the gates of the other.                         *)
(*                                                                         *)
(* The matches: what holds of sums holds by induction over the subsets of  *)
(* a finite set (Shrinking), so the parts a pivot splits a column into add *)
(* up to the column (ColumnsAddUp), and a lookup keeps the one row of each *)
(* key that is numbered first (OneIsKept).  A batch of a numbering takes   *)
(* the numbers that follow those its group has (BatchIsNumbered).  A union *)
(* hears one source of each of its handles (SourcesHeard), in their order  *)
(* (RanksFollow).                                                          *)
(***************************************************************************)
EXTENDS SandboxPool, MCNodes, FiniteSetTheorems, WellFoundedInduction, TLAPS

-----------------------------------------------------------------------------
(* The engine cache *)

W == {"flushed", "half", "swept"}

Types ==
    /\ TypeOK
    /\ \A e \in cache : /\ e.conn \in Connections /\ e.revision \in 0..revisions
                         /\ e.key = Key(e.key.scope, e.key.dialect, e.key.database)

\* One request has the lock of a row, which is there.
Locked ==
    \A r \in Requests : edit[r].at \in W =>
        /\ row[edit[r].conn] # None
        /\ \A s \in Requests : edit[s].at \in W /\ edit[s].conn = edit[r].conn => s = r

Fresh ==
    \A r \in Requests : edit[r].at \in W /\ edit[r].new # None =>
        LET number == edit[r].new.revision
        IN  /\ row[edit[r].conn].revision # number
            /\ \A k \in Callers : url[k] # None /\ url[k].conn = edit[r].conn => url[k].revision # number
            /\ \A e \in cache : e.conn = edit[r].conn => e.revision # number

Current(x) == row[x.conn] # None /\ row[x.conn].revision = x.revision

Determined ==
    /\ \A k \in Callers : url[k] # None /\ Current(url[k]) => url[k].database = row[url[k].conn].database
    /\ \A e \in cache : Current(e) => e.database = row[e.conn].database

Swept ==
    \A r \in Requests :
        edit[r].at \in {"half", "swept"} /\ edit[r].read.database = row[edit[r].conn].database =>
            /\ \A k \in Callers : url[k] # None /\ url[k].conn = edit[r].conn /\ Current(url[k]) => url[k].late
            /\ \A e \in cache : e.conn = edit[r].conn /\ Current(e) =>
                   e.late \/ OutOfReach(e)

UrlsExplained ==
    \A k \in Callers : url[k] # None /\ Outdated(url[k]) =>
        url[k].late \/ <<url[k].conn, url[k].revision>> \in misread

IInv == Types /\ Locked /\ Fresh /\ Determined /\ Swept /\ UrlsExplained /\ StaleExplained

-----------------------------------------------------------------------------
\* An engine has the key that an edit makes of its row, or is out of its reach.
LEMMA OnlyTheirKeys ==
    ASSUME Types
    PROVE  \A e \in cache : e.key # RowKey(e.conn, e.database) => OutOfReach(e)
BY DEF Types, OutOfReach, RowKey, Key

LEMMA InitHolds == Init => IInv
BY DEF Init, IInv, Types, TypeOK, Rows, Urls, NoEdit, Locked, Fresh, Determined, Swept, W,
       UrlsExplained, StaleExplained

\* Steps that leave the rows, the requests and what callers and cache have.
LEMMA StutterHolds == IInv /\ UNCHANGED vars => IInv'
BY DEF vars, IInv, Types, TypeOK, Rows, Urls, NoEdit, Places, Locked, Fresh, Determined, Swept, W,
       UrlsExplained, StaleExplained, Current, Outdated, OutOfReach, RowScope

LEMMA ResolvesHolds == ASSUME IInv, NEW k \in Callers, Resolves(k) PROVE IInv'
<1> USE DEF IInv, Types, TypeOK, Rows, Urls
<1>1. PICK c \in Connections, scope \in {"workspace", "default"} :
        /\ row[c] # None
        /\ \E dialect \in {Dialect[c], Inferred[c]} :
            url' = [url EXCEPT ![k] = [conn |-> c, scope |-> scope, dialect |-> dialect,
                                       database |-> row[c].database,
                                       revision |-> row[c].revision,
                                       late |-> \E r \in Writers(c) : edit[r].at # "flushed"]]
  BY DEF Resolves
<1>0. PICK dialect \in {Dialect[c], Inferred[c]} :
        url' = [url EXCEPT ![k] = [conn |-> c, scope |-> scope, dialect |-> dialect,
                                   database |-> row[c].database,
                                   revision |-> row[c].revision,
                                   late |-> \E r \in Writers(c) : edit[r].at # "flushed"]]
  BY <1>1
<1>2. UNCHANGED <<row, edit, revisions, cache, misread>>
  BY DEF Resolves
<1>3. /\ url'[k].conn = c /\ url'[k].database = row[c].database /\ url'[k].revision = row[c].revision
      /\ url'[k].late = \E r \in Writers(c) : edit[r].at # "flushed"
      /\ \A j \in Callers \ {k} : url'[j] = url[j]
  BY <1>1
<1>4. Types'
  <2>1. row[c] \in Rows
    BY <1>1
  <2>2. url'[k] \in Urls
    BY <1>1, <2>1
  <2> QED  BY <1>1, <1>2, <2>2 DEF NoEdit, Places
<1>5. Locked'
  BY <1>2 DEF Locked, W
<1>6. Fresh'
  BY <1>2, <1>3 DEF Fresh, W
<1>7. Determined'
  BY <1>2, <1>3 DEF Determined, Current
<1>8. Swept'
  <2>1. ASSUME NEW r \in Requests, edit[r].at \in {"half", "swept"}, edit[r].conn = c
        PROVE  url'[k].late
    <3>1. r \in Writers(c) /\ edit[r].at # "flushed"
      BY <2>1 DEF Writers
    <3> QED  BY <3>1, <1>3
  <2>2. ASSUME NEW r \in Requests, edit[r].at \in {"half", "swept"},
               edit[r].read.database = row[edit[r].conn].database,
               NEW j \in Callers, url'[j] # None, url'[j].conn = edit[r].conn, Current(url'[j])
        PROVE  url'[j].late
    <3>1. CASE j = k
      BY <3>1, <2>1, <2>2, <1>3
    <3>2. CASE j # k
      BY <3>2, <2>2, <1>3 DEF Swept
    <3> QED  BY <3>1, <3>2
  <2> QED  BY <1>2, <2>2 DEF Swept, Current, OutOfReach, RowScope
<1>9. UrlsExplained'
  BY <1>1, <1>2, <1>3 DEF UrlsExplained, Outdated
<1>10. StaleExplained'
  BY <1>2 DEF StaleExplained, Outdated, OutOfReach, RowScope
<1> QED  BY <1>4, <1>5, <1>6, <1>7, <1>8, <1>9, <1>10

LEMMA FindsHolds == ASSUME IInv, NEW k \in Callers, Finds(k) PROVE IInv'
BY DEF Finds, IInv, Types, TypeOK, Rows, Urls, NoEdit, Places, Locked, Fresh, Determined, Swept, W,
       UrlsExplained, StaleExplained, Current, Outdated, OutOfReach, RowScope

LEMMA CreatesHolds == ASSUME IInv, NEW k \in Callers, Creates(k) PROVE IInv'
<1> USE DEF IInv, Types, TypeOK, Rows, Urls
<1> DEFINE made == Engine(url[k])
<1>1. url[k] # None /\ url[k] \in Urls
  BY DEF Creates
<1>2. /\ made.conn = url[k].conn /\ made.database = url[k].database
      /\ made.revision = url[k].revision /\ made.late = url[k].late
  BY DEF Engine
<1>12. made.key = Key(made.key.scope, made.key.dialect, made.key.database)
  BY DEF Engine, UrlKey, Key
<1>3. \A e \in cache' : e \in cache \/ e = made
  BY DEF Creates
<1>4. UNCHANGED <<row, edit, revisions, url, misread>>
  BY DEF Creates
<1> HIDE DEF made
<1>5. Types'
  BY <1>1, <1>2, <1>3, <1>4, <1>12 DEF NoEdit, Places, Key
<1>6. Locked'
  BY <1>4 DEF Locked, W
<1>7. Fresh'
  BY <1>1, <1>2, <1>3, <1>4 DEF Fresh, W
<1>8. Determined'
  BY <1>1, <1>2, <1>3, <1>4 DEF Determined, Current
<1>9. Swept'
  BY <1>1, <1>2, <1>3, <1>4 DEF Swept, Current, OutOfReach, RowScope
<1>10. UrlsExplained'
  BY <1>4 DEF UrlsExplained, Outdated
<1>11. StaleExplained'
  BY <1>1, <1>2, <1>3, <1>4 DEF StaleExplained, UrlsExplained, Outdated, OutOfReach, RowScope
<1> QED  BY <1>5, <1>6, <1>7, <1>8, <1>9, <1>10, <1>11

LEMMA EndsHolds == ASSUME IInv, NEW k \in Callers, Ends(k) PROVE IInv'
<1> USE DEF IInv, Types, TypeOK, Rows, Urls
<1>1. /\ UNCHANGED <<row, edit, revisions, cache, misread>>
      /\ \A j \in Callers : url'[j] = None \/ url'[j] = url[j]
      /\ url' \in [Callers -> Urls \union {None}]
  BY DEF Ends
<1>2. Types'
  BY <1>1 DEF NoEdit, Places
<1>3. Locked' /\ Fresh' /\ Determined'
  BY <1>1 DEF Locked, Fresh, Determined, Current, W
<1>4. Swept' /\ UrlsExplained' /\ StaleExplained'
  BY <1>1 DEF Swept, UrlsExplained, StaleExplained, Current, Outdated, OutOfReach, RowScope
<1> QED  BY <1>2, <1>3, <1>4

-----------------------------------------------------------------------------
LEMMA ReadsHolds == ASSUME IInv, NEW r \in Requests, Reads(r) PROVE IInv'
<1> USE DEF IInv, Types, TypeOK, Rows, Urls
<1>1. PICK c \in Connections :
        /\ row[c] # None
        /\ edit' = [edit EXCEPT ![r] = [at |-> "read", conn |-> c, read |-> row[c], new |-> None]]
  BY DEF Reads
<1>2. UNCHANGED <<row, revisions, cache, url, misread>>
  BY DEF Reads
<1>3. edit'[r].at = "read" /\ \A s \in Requests \ {r} : edit'[s] = edit[s]
  BY <1>1
<1>4. Types'
  BY <1>1, <1>2 DEF NoEdit, Places
<1>5. Locked' /\ Fresh' /\ Determined'
  BY <1>2, <1>3 DEF Locked, Fresh, Determined, Current, W
<1>6. Swept' /\ UrlsExplained' /\ StaleExplained'
  BY <1>2, <1>3 DEF Swept, UrlsExplained, StaleExplained, Current, Outdated, OutOfReach, RowScope
<1> QED  BY <1>4, <1>5, <1>6

\* The number that a request gets is above all others.
LEMMA FlushesHolds == ASSUME IInv, NEW r \in Requests, Flushes(r) PROVE IInv'
<1> USE DEF IInv, Types, TypeOK, Rows, Urls
<1>1. /\ edit[r].at = "read" /\ Writers(edit[r].conn) = {} /\ row[edit[r].conn] # None
      /\ revisions' = revisions + 1
      /\ UNCHANGED <<row, cache, url, misread>>
  BY DEF Flushes
<1>2. PICK new \in {Written(r, d) : d \in Databases} \union {None} :
        edit' = [edit EXCEPT ![r].at = "flushed", ![r].new = new]
  BY DEF Flushes
<1>3. edit[r].conn \in Connections /\ edit[r].read \in Rows /\ edit[r] \in
        [at : Places, conn : Connections, read : Rows, new : Rows \union {None}]
  BY <1>1 DEF NoEdit
<1>4. new # None => new.revision = revisions + 1 /\ new.database \in Databases
  BY <1>1, <1>2, <1>3 DEF Written
<1>5. /\ edit'[r].at = "flushed" /\ edit'[r].conn = edit[r].conn
      /\ edit'[r].new = new /\ edit'[r].read = edit[r].read
      /\ \A s \in Requests \ {r} : edit'[s] = edit[s]
  BY <1>2, <1>3
<1>6. Types'
  <2>1. new \in Rows' \union {None}
    BY <1>1, <1>2, <1>3 DEF Written
  <2>2. \A x \in Rows : x \in Rows'
    BY <1>1
  <2>3. edit'[r] \in [at : Places, conn : Connections, read : Rows', new : Rows' \union {None}]
    BY <1>2, <1>3, <2>1, <2>2 DEF Places
  <2>4. edit' \in [Requests -> {NoEdit} \union [at : Places, conn : Connections, read : Rows',
                                                new : Rows' \union {None}]]
    BY <1>2, <2>2, <2>3
  <2>5. url' \in [Callers -> Urls' \union {None}]
    BY <1>1
  <2>6. row' \in [Connections -> Rows' \union {None}]
    BY <1>1, <2>2
  <2> QED  BY <1>1, <2>4, <2>5, <2>6
<1>7. Locked'
  BY <1>1, <1>5 DEF Locked, Writers, W
<1>8. Fresh'
  BY <1>1, <1>3, <1>4, <1>5 DEF Fresh, W
<1>9. Determined'
  BY <1>1 DEF Determined, Current
<1>10. Swept' /\ UrlsExplained' /\ StaleExplained'
  BY <1>1, <1>5 DEF Swept, UrlsExplained, StaleExplained, Current, Outdated, OutOfReach, RowScope
<1> QED  BY <1>6, <1>7, <1>8, <1>9, <1>10

\* Engines of a key go, and the URLs that have it are late.
LEMMA InvalidatesHolds ==
    ASSUME IInv, NEW r \in Requests, edit[r].at \in W, NEW key,
           Invalidates(edit[r].conn, key),
           NEW place \in {"half", "swept"}, Goes(r, place),
           UNCHANGED <<row, revisions, misread>>,
           edit[r].at = "flushed" => key = RowKey(edit[r].conn, edit[r].read.database)
    PROVE  IInv'
<1> USE DEF IInv, Types, TypeOK, Rows, Urls
<1> DEFINE c == edit[r].conn
<1>1. cache' \subseteq cache /\ \A e \in cache' : e.key # key
  BY DEF Invalidates
<1>2. \A k \in Callers :
        /\ url'[k] \in Urls \union {None}
        /\ url'[k] # None => /\ url[k] # None
                             /\ url'[k].conn = url[k].conn /\ url'[k].database = url[k].database
                             /\ url'[k].revision = url[k].revision
                             /\ url[k].late => url'[k].late
                             /\ Misses(url[k], c, key) => url'[k].late
  <2> TAKE k \in Callers
  <2>1. url'[k] = IF Misses(url[k], c, key) THEN [url[k] EXCEPT !.late = TRUE] ELSE url[k]
    BY DEF Invalidates
  <2>2. CASE ~Misses(url[k], c, key)
    BY <2>1, <2>2
  <2>3. CASE Misses(url[k], c, key)
    <3>1. url[k] # None /\ url[k] \in Urls
      BY <2>3 DEF Misses
    <3>2. url'[k] = [url[k] EXCEPT !.late = TRUE]
      BY <2>1, <2>3
    <3> QED  BY <3>1, <3>2
  <2> QED  BY <2>2, <2>3
<1>3. edit[r] \in [at : Places, conn : Connections, read : Rows, new : Rows \union {None}]
  BY DEF W, NoEdit
<1>4. /\ edit'[r].at = place /\ edit'[r].conn = c
      /\ edit'[r].new = edit[r].new /\ edit'[r].read = edit[r].read
      /\ \A s \in Requests \ {r} : edit'[s] = edit[s]
  BY <1>3 DEF Goes
<1>5. Types'
  <2>1. url' \in [Callers -> Urls \union {None}]
    BY <1>2 DEF Invalidates
  <2>2. edit'[r] \in [at : Places, conn : Connections, read : Rows, new : Rows \union {None}]
    BY <1>3 DEF Goes, Places
  <2>3. edit' \in [Requests -> {NoEdit} \union [at : Places, conn : Connections, read : Rows,
                                                new : Rows \union {None}]]
    BY <2>2 DEF Goes
  <2> QED  BY <1>1, <2>1, <2>3
<1>6. Locked'
  BY <1>4 DEF Locked, W
<1>7. Fresh'
  BY <1>1, <1>2, <1>4 DEF Fresh, W
<1>8. Determined'
  BY <1>1, <1>2 DEF Determined, Current
<1>9. Swept'
  <2> SUFFICES ASSUME NEW s \in Requests, edit'[s].at \in {"half", "swept"},
                      edit'[s].read.database = row[edit'[s].conn].database
               PROVE  /\ \A k \in Callers : url'[k] # None /\ url'[k].conn = edit'[s].conn
                                             /\ Current(url'[k]) => url'[k].late
                      /\ \A e \in cache' : e.conn = edit'[s].conn /\ Current(e) =>
                             e.late \/ OutOfReach(e)
    BY DEF Swept, Current, OutOfReach, RowScope
  <2>1. CASE s # r \/ edit[r].at \in {"half", "swept"}
    BY <2>1, <1>1, <1>2, <1>4 DEF Swept, Current
  <2>2. CASE s = r /\ edit[r].at = "flushed"
    <3>1. key = RowKey(c, row[c].database)
      BY <2>2, <1>4
    <3>2. \A k \in Callers : url[k] # None /\ url[k].conn = c /\ Current(url[k]) => Misses(url[k], c, key)
      BY <3>1 DEF Determined, Misses
    <3>3. \A e \in cache' : e.conn = c /\ Current(e) => OutOfReach(e)
      BY <3>1, <1>1, OnlyTheirKeys DEF Determined
    <3> QED  BY <2>2, <3>2, <3>3, <1>2, <1>4 DEF Current
  <2> QED  BY <2>1, <2>2 DEF W
<1>10. UrlsExplained'
  BY <1>2 DEF UrlsExplained, Outdated
<1>11. StaleExplained'
  BY <1>1 DEF StaleExplained, Outdated, OutOfReach, RowScope
<1> QED  BY <1>5, <1>6, <1>7, <1>8, <1>9, <1>10, <1>11

\* What the commit makes outdated was swept, or misread.
LEMMA CommitsHolds == ASSUME IInv, NEW r \in Requests, Commits(r) PROVE IInv'
<1> USE DEF IInv, Types, TypeOK, Rows, Urls
<1> DEFINE c == edit[r].conn
<1>1. /\ edit[r].at = "swept"
      /\ row' = [row EXCEPT ![c] = edit[r].new]
      /\ misread' = IF row[c].database = edit[r].read.database THEN misread
                    ELSE misread \union {<<c, row[c].revision>>}
      /\ edit' = [edit EXCEPT ![r] = NoEdit]
      /\ UNCHANGED <<revisions, cache, url>>
  BY DEF Commits
<1>2. edit[r] \in [at : Places, conn : Connections, read : Rows, new : Rows \union {None}]
  BY <1>1 DEF NoEdit
<1>3. /\ row'[c] = edit[r].new /\ \A d \in Connections \ {c} : row'[d] = row[d]
      /\ edit'[r].at = "none" /\ \A s \in Requests \ {r} : edit'[s] = edit[s]
      /\ row[c] # None
  BY <1>1, <1>2 DEF NoEdit, Locked, W
<1>4. \A s \in Requests \ {r} : edit[s].at \in W => edit[s].conn # c
  BY <1>1 DEF Locked, W
<1>5. \A s \in Requests : edit[s].at \in W => edit[s].conn \in Connections
  BY DEF NoEdit, W
<1>6. Types'
  BY <1>1, <1>2 DEF NoEdit, Places
<1>7. Locked'
  BY <1>3, <1>4, <1>5 DEF Locked, W
<1>8. Fresh'
  BY <1>1, <1>3, <1>4, <1>5 DEF Fresh, W
<1>9. Determined'
  <2>1. \A k \in Callers : url[k] # None /\ url[k].conn = c /\ edit[r].new # None =>
          url[k].revision # edit[r].new.revision
    BY <1>1 DEF Fresh, W
  <2>2. \A e \in cache : e.conn = c /\ edit[r].new # None => e.revision # edit[r].new.revision
    BY <1>1 DEF Fresh, W
  <2> QED  BY <1>1, <1>3, <2>1, <2>2 DEF Determined, Current
<1>10. Swept'
  BY <1>1, <1>3, <1>4, <1>5 DEF Swept, Current, W, OutOfReach, RowScope
<1>11. UrlsExplained'
  <2>1. \A k \in Callers : url[k] # None /\ url[k].conn = c /\ Current(url[k]) =>
          url[k].late \/ <<url[k].conn, url[k].revision>> \in misread'
    BY <1>1 DEF Swept, Current
  <2> QED  BY <1>1, <1>3, <2>1 DEF UrlsExplained, Outdated, Current
<1>12. StaleExplained'
  <2>1. \A e \in cache : e.conn = c /\ Current(e) =>
          OutOfReach(e) \/ e.late \/ <<e.conn, e.revision>> \in misread'
    BY <1>1 DEF Swept, Current
  <2> QED  BY <1>1, <1>3, <2>1 DEF StaleExplained, Outdated, Current, OutOfReach, RowScope
<1> QED  BY <1>6, <1>7, <1>8, <1>9, <1>10, <1>11, <1>12

LEMMA RollsBackHolds == ASSUME IInv, NEW r \in Requests, RollsBack(r) PROVE IInv'
<1> USE DEF IInv, Types, TypeOK, Rows, Urls
<1>1. /\ UNCHANGED <<row, revisions, cache, url, misread>>
      /\ edit' = [edit EXCEPT ![r] = NoEdit]
  BY DEF RollsBack
<1>2. edit'[r].at = "none" /\ \A s \in Requests \ {r} : edit'[s] = edit[s]
  BY <1>1 DEF NoEdit
<1>3. Types'
  BY <1>1 DEF NoEdit, Places
<1>4. Locked' /\ Fresh' /\ Determined'
  BY <1>1, <1>2 DEF Locked, Fresh, Determined, Current, W
<1>5. Swept' /\ UrlsExplained' /\ StaleExplained'
  BY <1>1, <1>2 DEF Swept, UrlsExplained, StaleExplained, Current, Outdated, OutOfReach, RowScope
<1> QED  BY <1>3, <1>4, <1>5

-----------------------------------------------------------------------------
LEMMA NextHolds == IInv /\ [Next]_vars => IInv'
<1> SUFFICES ASSUME IInv, Next PROVE IInv'
  BY StutterHolds
<1>1. CASE \E k \in Callers : Calls(k)
  BY <1>1, ResolvesHolds, FindsHolds, CreatesHolds, EndsHolds DEF Calls
<1>2. ASSUME NEW r \in Requests, InvalidatesOld(r) PROVE IInv'
  <2> DEFINE place == IF edit[r].new = None THEN "swept" ELSE "half"
  <2>1. place \in {"half", "swept"} /\ Goes(r, place)
    BY <1>2 DEF InvalidatesOld
  <2>2. Invalidates(edit[r].conn, RowKey(edit[r].conn, edit[r].read.database))
    BY <1>2 DEF InvalidatesOld
  <2>3. edit[r].at \in W /\ UNCHANGED <<row, revisions, misread>>
    BY <1>2 DEF InvalidatesOld, W
  <2> QED  BY <2>1, <2>2, <2>3, InvalidatesHolds
<1>3. ASSUME NEW r \in Requests, InvalidatesNew(r) PROVE IInv'
  <2>1. edit[r].at = "half" /\ Goes(r, "swept") /\ UNCHANGED <<row, revisions, misread>>
    BY <1>3 DEF InvalidatesNew
  <2>2. Invalidates(edit[r].conn, RowKey(edit[r].conn, edit[r].new.database))
    BY <1>3 DEF InvalidatesNew
  <2> QED  BY <2>1, <2>2, InvalidatesHolds DEF W
<1>4. CASE \E r \in Requests : Edits(r)
  BY <1>2, <1>3, <1>4, ReadsHolds, FlushesHolds, CommitsHolds, RollsBackHolds DEF Edits
<1> QED  BY <1>1, <1>4 DEF Next

\* An engine with old credentials is handed out for one of the named reasons
\* only, whatever callers and overlapping edits do (engine_cache.py,
\* ConnectionService.update and delete).
THEOREM StalenessExplained == Spec => []StaleExplained
<1>1. IInv => StaleExplained
  BY DEF IInv
<1> QED  BY <1>1, InitHolds, NextHolds, PTL DEF Spec

-----------------------------------------------------------------------------
(* The pool of containers *)

\* Clients and the health check come once start() has joined its threads.
Warmed ==
    /\ \A c \in Clients : at[c] # "out" => warming = 0
    /\ check # "rests" \/ stopped => warming = 0

PoolTypes ==
    /\ idle \subseteq Containers /\ busy \subseteq Containers
    /\ background \in Nat /\ warming \in 0..TargetIdle /\ stopped \in BOOLEAN
    /\ at \in [Clients -> ClientPlaces]
    /\ hand \in [Clients -> Containers \union {NoContainer}]
    /\ check \in {"rests", "looks", "destroys", "decides", "creates"}
    /\ listed \subseteq Containers /\ silent \subseteq Containers
    /\ suspects \subseteq Containers /\ dead \subseteq Containers
    /\ snapshot \subseteq Containers /\ abandoned \subseteq Containers
    /\ lost \subseteq Containers
    /\ state \in [Containers -> {"unborn", "up", "down", "gone"}]
    /\ troubles \in Nat

\* Nothing is snapshot before stop(), a check that rests has nobody to destroy, one
\* that does not look has nobody to look at, and who has a container has one.
Shape ==
    /\ PoolTypes /\ Warmed
    /\ stopped \/ snapshot = {}
    /\ check = "rests" => dead = {}
    /\ check # "looks" => suspects = {}
    /\ \A c \in Held : hand[c] \in Containers

\* Only idle, background, replacing and warming are bounded; that clients who
\* create are finitely many is not assumed of Clients.
Counted ==
    /\ IsFiniteSet(idle) /\ IsFiniteSet(Creating)
    /\ spawning = Cardinality(Creating) + background + Replacing
    /\ IdleBounded

Born(k) == k \in Containers /\ state[k] # "unborn"

Users == {d \in Clients : at[d] \in {"uses", "reads"}}

\* Stopped, or docker did not answer for it.
Unfit(k) == state[k] # "up" \/ k \in silent

\* Who has which container.
Owned ==
    /\ busy = {hand[c] : c \in Users}
    /\ OneUserEach
    /\ \A c \in Held : Born(hand[c]) /\ hand[c] \notin snapshot
    /\ \A k \in idle \union suspects \union dead \union snapshot : Born(k)
    /\ \A k \in dead : Unfit(k)
    /\ suspects \union dead \subseteq listed
    /\ NoneForgotten

PoolInv == Shape /\ Counted /\ Owned

-----------------------------------------------------------------------------
\* A client that neither creates nor has a container goes where it does not either.
Quiet == {"out", "sleeps", "woken", "refills"}
QuietMoves == \A c \in Clients : at'[c] = at[c] \/ (at[c] \in Quiet /\ at'[c] \in Quiet)

LEMMA QuietEffect ==
    ASSUME QuietMoves
    PROVE  /\ Creating' = Creating /\ Held' = Held
           /\ Users' = Users
BY DEF QuietMoves, Quiet, Creating, Held, Users

LEMMA GoingEffect ==
    ASSUME Shape, NEW c \in Clients, NEW place, Proceeds(c, place)
    PROVE  at'[c] = place /\ \A d \in Clients \ {c} : at'[d] = at[d]
BY DEF Shape, PoolTypes, Proceeds

\* What docker has after a creation that ended as it should, or failed.
LEMMA NewEffect ==
    ASSUME Shape, NEW k \in Containers, NEW to \in {"up", "down"}, New(k, to)
    PROVE  /\ state[k] = "unborn" /\ state' = [state EXCEPT ![k] = to]
           /\ state' \in [Containers -> {"unborn", "up", "down", "gone"}]
BY DEF New, Shape, PoolTypes

Created == Delivers \/ (CannotStart /\ UNCHANGED <<idle, clientVars>>)

\* A creation changes the state of the container it makes, which the pool has or
\* nobody has.
Makes ==
    /\ state' \in [Containers -> {"unborn", "up", "down", "gone"}]
    /\ troubles' \in Nat /\ lost \subseteq lost' /\ lost' \subseteq Containers
    /\ \A k \in Containers : state'[k] # state[k] =>
            /\ state[k] = "unborn" /\ state'[k] \in {"up", "down"}
            /\ k \in idle' \union lost'

LEMMA LeavesStrayEffect == ASSUME Shape, LeavesStray PROVE Makes
<1>1. PICK k \in Containers : New(k, "down") /\ lost' = lost \union {k}
  BY DEF LeavesStray
<1>2. troubles' \in Nat
  BY DEF LeavesStray, Trouble, Shape, PoolTypes
<1> QED  BY <1>1, <1>2, NewEffect DEF Makes, Shape, PoolTypes

LEMMA CannotStartEffect == ASSUME Shape, CannotStart PROVE Makes
<1>1. CASE Trouble /\ UNCHANGED <<state, lost>>
  BY <1>1 DEF Trouble, Makes, Shape, PoolTypes
<1> QED  BY <1>1, LeavesStrayEffect DEF CannotStart

\* A notify wakes a sleeper at most.
LEMMA DeliversEffect ==
    ASSUME Shape, Created
    PROVE  /\ hand' = hand /\ at' \in [Clients -> ClientPlaces]
           /\ \A c \in Clients : at'[c] = at[c] \/ (at[c] = "sleeps" /\ at'[c] = "woken")
           /\ Makes
           /\ \/ idle' = idle
              \/ ~stopped /\ \E k \in Containers : /\ state[k] = "unborn" /\ state'[k] = "up"
                                                   /\ idle' = idle \union {k}
<1>1. CASE stopped /\ (LeavesStray \/ UNCHANGED dockerVars) /\ UNCHANGED <<idle, clientVars>>
  BY <1>1, LeavesStrayEffect DEF Makes, Shape, PoolTypes, clientVars, dockerVars
<1>2. ASSUME ~stopped, NEW k \in Containers, Starts(k), Stocks(k)
      PROVE  /\ hand' = hand /\ at' \in [Clients -> ClientPlaces]
             /\ \A c \in Clients : at'[c] = at[c] \/ (at[c] = "sleeps" /\ at'[c] = "woken")
             /\ Makes
             /\ state[k] = "unborn" /\ state'[k] = "up"
             /\ idle' = idle \union {k}
  <2>1. /\ state[k] = "unborn" /\ state' = [state EXCEPT ![k] = "up"]
        /\ state' \in [Containers -> {"unborn", "up", "down", "gone"}]
        /\ UNCHANGED <<lost, troubles>>
    BY <1>2, NewEffect DEF Starts
  <2>2. hand' = hand /\ idle' = idle \union {k}
    BY <1>2 DEF Stocks
  <2>3. ASSUME at' = at
        PROVE  /\ at' \in [Clients -> ClientPlaces]
               /\ \A d \in Clients : at'[d] = at[d] \/ (at[d] = "sleeps" /\ at'[d] = "woken")
    BY <2>3 DEF Shape, PoolTypes
  <2>4. ASSUME NEW c \in Sleepers, at' = [at EXCEPT ![c] = "woken"]
        PROVE  /\ at' \in [Clients -> ClientPlaces]
               /\ \A d \in Clients : at'[d] = at[d] \/ (at[d] = "sleeps" /\ at'[d] = "woken")
    BY <2>4 DEF Sleepers, Shape, PoolTypes, ClientPlaces
  <2>5. Makes
    BY <2>1, <2>2 DEF Makes, Shape, PoolTypes
  <2>6. state'[k] = "up"
    BY <2>1 DEF Shape, PoolTypes
  <2> QED  BY <1>2, <2>1, <2>2, <2>3, <2>4, <2>5, <2>6 DEF Stocks
<1>3. CASE CannotStart /\ UNCHANGED <<idle, clientVars>>
  BY <1>3, CannotStartEffect DEF Shape, PoolTypes, clientVars
<1> QED  BY <1>1, <1>2, <1>3 DEF Delivers, Created

\* After a removal docker has the container no more, or it is lost.
LEMMA DestroysEffect ==
    ASSUME Shape, NEW k \in Containers, Destroys(k)
    PROVE  /\ state' \in [Containers -> {"unborn", "up", "down", "gone"}]
           /\ troubles' \in Nat /\ lost \subseteq lost' /\ lost' \subseteq Containers
           /\ \A j \in Containers \ {k} : state'[j] = state[j]
           /\ state'[k] = "gone" \/ k \in lost'
           /\ state[k] # "unborn" => state'[k] # "unborn"
           /\ state'[k] = "up" => state[k] = "up"
<1> USE DEF Shape, PoolTypes
<1>1. CASE state' = [state EXCEPT ![k] = "gone"] /\ UNCHANGED <<lost, troubles>>
  BY <1>1
<1>2. ASSUME Trouble, lost' = lost \union {k}, NEW to \in {state[k], "down"},
             state' = [state EXCEPT ![k] = to]
      PROVE  /\ state' \in [Containers -> {"unborn", "up", "down", "gone"}]
             /\ troubles' \in Nat /\ lost' \subseteq Containers
             /\ \A j \in Containers \ {k} : state'[j] = state[j]
             /\ state[k] # "unborn" => state'[k] # "unborn"
             /\ state'[k] = "up" => state[k] = "up"
  BY <1>2 DEF Trouble
<1>3. state = [state EXCEPT ![k] = state[k]]
  OBVIOUS
<1> QED  BY <1>1, <1>2, <1>3 DEF Destroys

LEMMA StopsEffect ==
    ASSUME Shape, StopsPool
    PROVE  /\ at' \in [Clients -> ClientPlaces]
           /\ \A c \in Clients : at'[c] = at[c] \/ (at[c] = "sleeps" /\ at'[c] = "woken")
BY DEF Shape, PoolTypes, StopsPool, Sleepers, ClientPlaces

-----------------------------------------------------------------------------
LEMMA ShapeStarts == PoolInit => Shape
<1> SUFFICES ASSUME PoolInit PROVE Shape
  OBVIOUS
<1>1. TargetIdle \in 0..TargetIdle
  BY SizesAssumption
<1>2. PoolTypes
  BY <1>1 DEF PoolInit, PoolTypes, ClientPlaces
<1> QED  BY <1>2 DEF PoolInit, Shape, Warmed, Held

LEMMA ShapeOfClients == ASSUME Shape, NEW c \in Clients, Acquire(c) \/ Finish(c) PROVE Shape'
<1> USE DEF Shape, PoolTypes, Warmed, Proceeds, ClientPlaces, Looks, Ready, checkVars, dockerVars, Held
<1>1. CASE TakesIdle(c)
  BY <1>1 DEF TakesIdle
<1>2. CASE StartsCreating(c)
  BY <1>2 DEF StartsCreating
<1>3. CASE Sleeps(c)
  BY <1>3 DEF Sleeps
<1>4. CASE TurnedAway(c)
  BY <1>4 DEF TurnedAway
<1>5. CASE WaitExpires(c)
  BY <1>5 DEF WaitExpires
<1>6. CASE CreatesOwn(c)
  <2>1. PICK k \in Containers : Starts(k) /\ hand' = [hand EXCEPT ![c] = k] /\ busy' = busy \union {k}
    BY <1>6 DEF CreatesOwn
  <2>2. state' \in [Containers -> {"unborn", "up", "down", "gone"}] /\ UNCHANGED <<lost, troubles>>
    BY <2>1, NewEffect DEF Starts
  <2> QED  BY <1>6, <2>1, <2>2 DEF CreatesOwn
<1>7. CASE CreationFails(c)
  BY <1>7, CannotStartEffect DEF CreationFails, Makes
<1>8. CASE Releases(c)
  BY <1>8 DEF Releases
<1>9. CASE DestroysOwn(c)
  BY <1>9, DestroysEffect DEF DestroysOwn
<1>10. CASE Refills(c)
  BY <1>10 DEF Refills
<1>11. CASE CodeEnds(c)
  BY <1>11 DEF CodeEnds
<1> QED  BY <1>1, <1>2, <1>3, <1>4, <1>5, <1>6, <1>7, <1>8, <1>9, <1>10, <1>11 DEF Acquire, Finish

LEMMA ShapeOfCreation ==
    ASSUME Shape, Created
    PROVE  /\ idle' \subseteq Containers /\ state' \in [Containers -> {"unborn", "up", "down", "gone"}]
           /\ troubles' \in Nat /\ lost' \subseteq Containers
           /\ hand' = hand /\ at' \in [Clients -> ClientPlaces]
           /\ \A c \in Clients : at[c] = "out" => at'[c] = "out"
           /\ \A c \in Clients : at'[c] # "out" => at[c] # "out"
           /\ \A c \in Held' : c \in Held
BY DeliversEffect DEF Makes, Held, Shape, PoolTypes

LEMMA ShapeOfThreads == ASSUME Shape, Warms \/ Replenishes PROVE Shape'
<1> USE DEF Shape, PoolTypes, Warmed, checkVars
<1>1. Created
  BY DEF Warms, Replenishes, Created
<1>2. CASE Warms
  <2>1. /\ warming > 0 /\ warming' = warming - 1
        /\ UNCHANGED <<busy, spawning, stopped, background, checkVars, snapshot, abandoned>>
    BY <1>2 DEF Warms
  <2>2. warming' \in 0..TargetIdle
    BY <2>1, SizesAssumption
  <2>4. check = "rests" /\ ~stopped /\ \A c \in Clients : at[c] = "out"
    BY <2>1
  <2> QED  BY <1>1, <2>1, <2>2, <2>4, ShapeOfCreation
<1>3. CASE Replenishes
  BY <1>1, <1>3, ShapeOfCreation DEF Replenishes
<1> QED  BY <1>2, <1>3

LEMMA ShapeOfChecks == ASSUME Shape, BeginsCheck \/ Check PROVE Shape'
<1> USE DEF Shape, PoolTypes, Warmed, Held, clientVars, dockerVars
<1>1. CASE BeginsCheck
  BY <1>1 DEF BeginsCheck, Ready
<1>2. ASSUME NEW k \in Containers, LooksAt(k) PROVE Shape'
  BY <1>2 DEF LooksAt, Trouble
<1>3. ASSUME NEW k \in Containers, DestroysDead(k) PROVE Shape'
  BY <1>3, DestroysEffect DEF DestroysDead
<1>4. CASE EndsLook
  BY <1>4 DEF EndsLook, NextDead, Returns
<1>5. CASE Decides
  BY <1>5 DEF Decides, NextDead, Forgets, Returns
<1>6. CASE Replaces
  <2>1. /\ check = "creates" /\ UNCHANGED <<busy, stopped, warming, background, suspects, snapshot>>
        /\ (NextDead /\ UNCHANGED abandoned) \/ Forgets
        /\ Created
    BY <1>6 DEF Replaces, Created
  <2>2. CASE NextDead /\ UNCHANGED abandoned
    BY <2>1, <2>2, ShapeOfCreation DEF NextDead, Returns
  <2>3. CASE Forgets
    BY <2>1, <2>3, ShapeOfCreation DEF Forgets, Returns
  <2> QED  BY <2>1, <2>2, <2>3
<1> QED  BY <1>1, <1>2, <1>3, <1>4, <1>5, <1>6 DEF Check

LEMMA ShapeOfStop ==
    ASSUME Shape, StopsPool \/ \E k \in Containers : DestroysSnapshot(k) \/ Dies(k)
    PROVE  Shape'
<1> USE DEF Shape, PoolTypes, Warmed, Held, checkVars, clientVars, dockerVars
<1>1. CASE StopsPool
  BY <1>1, StopsEffect DEF StopsPool, Ready
<1>2. ASSUME NEW k \in Containers, DestroysSnapshot(k) PROVE Shape'
  BY <1>2, DestroysEffect DEF DestroysSnapshot
<1>3. ASSUME NEW k \in Containers, Dies(k) PROVE Shape'
  BY <1>3 DEF Dies, Trouble
<1> QED  BY <1>1, <1>2, <1>3

LEMMA ShapeKept == Shape /\ [PoolNext]_poolVars => Shape'
<1> SUFFICES ASSUME Shape, [PoolNext]_poolVars PROVE Shape'
  OBVIOUS
<1>1. CASE UNCHANGED poolVars
  BY <1>1 DEF poolVars, clientVars, checkVars, dockerVars, Shape, PoolTypes, Warmed, Held
<1> QED  BY <1>1, ShapeOfClients, ShapeOfThreads, ShapeOfChecks, ShapeOfStop DEF PoolNext

-----------------------------------------------------------------------------
LEMMA CountedStarts == PoolInit => Counted
<1> SUFFICES ASSUME PoolInit PROVE Counted
  OBVIOUS
<1>1. idle = {} /\ Creating = {} /\ Replacing = 0
  BY DEF PoolInit, Creating, Replacing
<1>2. IsFiniteSet({}) /\ Cardinality({}) = 0
  BY FS_EmptySet
<1> QED  BY <1>1, <1>2, SizesAssumption DEF PoolInit, Counted, IdleBounded

LEMMA NumbersAreNat ==
    ASSUME Shape, Counted
    PROVE  /\ Cardinality(idle) \in Nat /\ Cardinality(Creating) \in Nat
           /\ background \in Nat /\ Replacing \in {0, 1} /\ warming \in Nat /\ TargetIdle \in Nat
BY FS_CardinalityType, SizesAssumption DEF Shape, PoolTypes, Counted, Replacing

\* From the growth of each number to the sums.
LEMMA SumsKept ==
    ASSUME Shape, Counted,
           IsFiniteSet(idle'), IsFiniteSet(Creating'),
           NEW i \in Int, Cardinality(idle') <= Cardinality(idle) + i,
           NEW c \in Int, Cardinality(Creating') = Cardinality(Creating) + c,
           NEW b \in Int, background' = background + b,
           NEW r \in Int, Replacing' = Replacing + r,
           NEW w \in Int, warming' = warming + w,
           spawning' = spawning + c + b + r,
           \/ i + b + r + w <= 0
           \/ Cardinality(idle) + background + Replacing + warming + i + b + r + w <= TargetIdle
    PROVE  Counted'
<1>1. /\ Cardinality(idle) \in Nat /\ Cardinality(Creating) \in Nat
      /\ background \in Nat /\ Replacing \in Nat /\ warming \in Nat /\ TargetIdle \in Nat
  BY NumbersAreNat
<1>2. Cardinality(idle)' \in Nat /\ Cardinality(Creating)' \in Nat
  BY FS_CardinalityType
<1> DEFINE I == Cardinality(idle)
           J == Cardinality(idle)'
           C == Cardinality(Creating)
           D == Cardinality(Creating)'
           R == Replacing
           S == Replacing'
<1>3. /\ I \in Nat /\ J \in Nat /\ C \in Nat /\ D \in Nat /\ R \in Nat
      /\ J <= I + i /\ D = C + c /\ S = R + r
      /\ spawning = C + background + R
      /\ I + background + R + warming <= TargetIdle
      /\ \/ i + b + r + w <= 0
         \/ I + background + R + warming + i + b + r + w <= TargetIdle
  BY <1>1, <1>2 DEF Counted, IdleBounded
<1> HIDE DEF I, J, C, D, R, S
<1>4. spawning' = D + background' + S
  BY <1>1, <1>3
<1>5. J + background' + S + warming' <= TargetIdle
  BY <1>1, <1>3
<1> USE DEF I, J, C, D, R, S
<1> QED  BY <1>4, <1>5 DEF Counted, IdleBounded

LEMMA CountedSame ==
    ASSUME Shape, Counted,
           idle' \subseteq idle, Creating' = Creating,
           Replacing' = Replacing, UNCHANGED <<spawning, background, warming>>
    PROVE  Counted'
<1>1. /\ IsFiniteSet(idle') /\ Cardinality(idle') <= Cardinality(idle)
  BY FS_Subset DEF Counted
<1>2. /\ Cardinality(idle) \in Nat /\ Cardinality(Creating) \in Nat
      /\ background \in Nat /\ Replacing \in Nat /\ warming \in Nat
  BY NumbersAreNat
<1>3. spawning \in Int
  BY <1>2 DEF Counted
<1>4. IsFiniteSet(Creating')
  BY DEF Counted
<1>5. /\ Cardinality(idle') <= Cardinality(idle) + 0
      /\ Cardinality(Creating') = Cardinality(Creating) + 0
      /\ background' = background + 0 /\ Replacing' = Replacing + 0 /\ warming' = warming + 0
      /\ spawning' = spawning + 0 + 0 + 0
  <2>1. Cardinality(idle') \in Nat
    BY <1>1, FS_CardinalityType
  <2> QED  BY <1>1, <1>2, <1>3, <2>1
<1> QED  BY <1>1, <1>4, <1>5, SumsKept

\* A container more, at most.
LEMMA IdleGrows ==
    ASSUME Shape, Counted, Created
    PROVE  /\ IsFiniteSet(idle') /\ Cardinality(idle') <= Cardinality(idle) + 1
           /\ Creating' = Creating
<1>1. QuietMoves
  BY DeliversEffect DEF QuietMoves, Quiet
<1>2. Creating' = Creating
  BY <1>1, QuietEffect
<1>3. idle' = idle \/ \E k \in Containers : idle' = idle \union {k}
  BY DeliversEffect
<1>4. Cardinality(idle) \in Nat
  BY NumbersAreNat
<1>5. CASE idle' = idle
  BY <1>2, <1>4, <1>5 DEF Counted
<1>6. ASSUME NEW k \in Containers, idle' = idle \union {k}
      PROVE  IsFiniteSet(idle') /\ Cardinality(idle') <= Cardinality(idle) + 1
  <2>1. IsFiniteSet(idle)
    BY DEF Counted
  <2>2. /\ IsFiniteSet(idle \union {k})
        /\ Cardinality(idle \union {k}) = IF k \in idle THEN Cardinality(idle) ELSE Cardinality(idle) + 1
    BY <2>1, FS_AddElement
  <2> QED  BY <1>6, <2>2, <1>4
<1> QED  BY <1>2, <1>3, <1>5, <1>6

LEMMA OneCreates ==
    ASSUME Shape, Counted, NEW c \in Clients, at[c] # "creates", Proceeds(c, "creates")
    PROVE  IsFiniteSet(Creating') /\ Cardinality(Creating') = Cardinality(Creating) + 1
<1>1. Creating' = Creating \union {c} /\ c \notin Creating
  BY GoingEffect DEF Creating
<1> QED  BY <1>1, FS_AddElement DEF Counted

LEMMA OneHasCreated ==
    ASSUME Shape, Counted, NEW c \in Clients, at[c] = "creates",
           NEW place \in {"out", "uses"}, Proceeds(c, place)
    PROVE  IsFiniteSet(Creating') /\ Cardinality(Creating') = Cardinality(Creating) - 1
<1>1. Creating' = Creating \ {c} /\ c \in Creating
  BY GoingEffect DEF Creating
<1> QED  BY <1>1, FS_RemoveElement DEF Counted

LEMMA NoneCreates ==
    ASSUME Shape, Counted, NEW c \in Clients, at[c] # "creates", NEW place, place # "creates", Proceeds(c, place)
    PROVE  Creating' = Creating
BY GoingEffect DEF Creating

-----------------------------------------------------------------------------
LEMMA CountedOfClients == ASSUME Shape, Counted, NEW c \in Clients, Acquire(c) \/ Finish(c) PROVE Counted'
<1>0. /\ Cardinality(idle) \in Nat /\ Cardinality(Creating) \in Nat
      /\ background \in Nat /\ Replacing \in Nat /\ warming \in Nat /\ TargetIdle \in Nat
      /\ spawning = Cardinality(Creating) + background + Replacing /\ spawning \in Nat
      /\ IsFiniteSet(idle)
  BY NumbersAreNat DEF Counted
<1>1. CASE TakesIdle(c)
  <2>1. Creating' = Creating
    BY <1>1, NoneCreates DEF TakesIdle, Looks
  <2> QED  BY <1>1, <2>1, CountedSame DEF TakesIdle, Replacing, checkVars
<1>2. CASE StartsCreating(c)
  <2>1. /\ IsFiniteSet(Creating') /\ Cardinality(Creating') = Cardinality(Creating) + 1
    BY <1>2, OneCreates DEF StartsCreating, Looks
  <2>2. /\ Cardinality(idle') <= Cardinality(idle) + 0 /\ IsFiniteSet(idle')
        /\ background' = background + 0 /\ Replacing' = Replacing + 0 /\ warming' = warming + 0
        /\ spawning' = spawning + 1 + 0 + 0
    BY <1>2, <1>0 DEF StartsCreating, Replacing, checkVars
  <2> QED  BY <2>1, <2>2, SumsKept
<1>3. CASE Sleeps(c)
  <2>1. Creating' = Creating
    BY <1>3, NoneCreates DEF Sleeps, Looks
  <2> QED  BY <1>3, <2>1, CountedSame DEF Sleeps, Replacing, checkVars
<1>4. CASE TurnedAway(c)
  <2>1. Creating' = Creating
    BY <1>4, NoneCreates DEF TurnedAway
  <2> QED  BY <1>4, <2>1, CountedSame DEF TurnedAway, Replacing, checkVars
<1>5. CASE WaitExpires(c)
  <2>1. Creating' = Creating
    BY <1>5, NoneCreates DEF WaitExpires
  <2> QED  BY <1>5, <2>1, CountedSame DEF WaitExpires, Replacing, checkVars
<1>6. ASSUME CreatesOwn(c) \/ CreationFails(c) PROVE Counted'
  <2>1. PICK place \in {"out", "uses"} : at[c] = "creates" /\ Proceeds(c, place)
    BY <1>6 DEF CreatesOwn, CreationFails
  <2>2. /\ IsFiniteSet(Creating') /\ Cardinality(Creating') = Cardinality(Creating) - 1
    BY <2>1, OneHasCreated
  <2>3. /\ Cardinality(idle') <= Cardinality(idle) + 0 /\ IsFiniteSet(idle')
        /\ background' = background + 0 /\ Replacing' = Replacing + 0 /\ warming' = warming + 0
        /\ spawning' = spawning + (-1) + 0 + 0
    BY <1>6, <1>0 DEF CreatesOwn, CreationFails, Replacing, checkVars
  <2>4. Cardinality(Creating') = Cardinality(Creating) + (-1)
    BY <2>2, <1>0
  <2> QED  BY <2>2, <2>3, <2>4, SumsKept
<1>7. CASE Releases(c)
  <2>1. Creating' = Creating
    BY <1>7, NoneCreates DEF Releases
  <2> QED  BY <1>7, <2>1, CountedSame DEF Releases, Replacing, checkVars
<1>8. CASE DestroysOwn(c)
  <2>1. Creating' = Creating
    BY <1>8, NoneCreates DEF DestroysOwn
  <2> QED  BY <1>8, <2>1, CountedSame DEF DestroysOwn, Replacing, checkVars
<1>10. CASE CodeEnds(c)
  <2>1. Creating' = Creating
    BY <1>10, NoneCreates DEF CodeEnds
  <2> QED  BY <1>10, <2>1, CountedSame DEF CodeEnds, Replacing, checkVars
<1>9. CASE Refills(c)
  <2>1. Creating' = Creating
    BY <1>9, NoneCreates DEF Refills
  <2>2. CASE ~Deficit
    BY <1>9, <2>1, <2>2, CountedSame DEF Refills, Replacing, checkVars
  <2>3. CASE Deficit
    <3>1. /\ Cardinality(idle') <= Cardinality(idle) + 0 /\ IsFiniteSet(idle')
          /\ background' = background + 1 /\ Replacing' = Replacing + 0 /\ warming' = warming + 0
          /\ spawning' = spawning + 0 + 1 + 0
      BY <1>9, <2>3, <1>0 DEF Refills, Replacing, checkVars
    <3>2. /\ IsFiniteSet(Creating') /\ Cardinality(Creating') = Cardinality(Creating) + 0
      BY <2>1, <1>0 DEF Counted
    <3>3. Cardinality(idle) + spawning < TargetIdle /\ warming = 0
      BY <1>9, <2>3 DEF Refills, Deficit, Shape, Warmed
    <3>4. Cardinality(idle) + background + Replacing + warming + 0 + 1 + 0 + 0 <= TargetIdle
      <4> DEFINE I == Cardinality(idle)
                 C == Cardinality(Creating)
                 R == Replacing
      <4>1. /\ I \in Nat /\ C \in Nat /\ R \in Nat /\ background \in Nat /\ spawning = C + background + R
            /\ I + spawning < TargetIdle /\ warming = 0
        BY <1>0, <3>3
      <4> HIDE DEF I, C, R
      <4>2. I + background + R + warming + 0 + 1 + 0 + 0 <= TargetIdle
        BY <4>1, <1>0
      <4> USE DEF I, R
      <4> QED  BY <4>2
    <3> QED  BY <3>1, <3>2, <3>4, SumsKept
  <2> QED  BY <2>2, <2>3
<1> QED  BY <1>1, <1>2, <1>3, <1>4, <1>5, <1>6, <1>7, <1>8, <1>9, <1>10 DEF Acquire, Finish

LEMMA CountedOfThreads == ASSUME Shape, Counted, Warms \/ Replenishes PROVE Counted'
<1>0. /\ Cardinality(Creating) \in Nat
      /\ background \in Nat /\ Replacing \in Nat /\ warming \in Nat
      /\ spawning = Cardinality(Creating) + background + Replacing /\ spawning \in Nat
  BY NumbersAreNat DEF Counted
<1>1. Created
  BY DEF Warms, Replenishes, Created
<1>2. /\ IsFiniteSet(idle') /\ Cardinality(idle') <= Cardinality(idle) + 1
      /\ IsFiniteSet(Creating') /\ Cardinality(Creating') = Cardinality(Creating) + 0
  BY <1>0, <1>1, IdleGrows DEF Counted
<1>3. Replacing' = Replacing + 0
  BY <1>0 DEF Warms, Replenishes, Replacing, checkVars
<1>4. CASE Warms
  <2>1. /\ background' = background + 0 /\ warming' = warming + (-1)
        /\ spawning' = spawning + 0 + 0 + 0
    BY <1>4, <1>0 DEF Warms
  <2> QED  BY <1>2, <1>3, <2>1, SumsKept
<1>5. CASE Replenishes
  <2>1. /\ background' = background + (-1) /\ warming' = warming + 0
        /\ spawning' = spawning + 0 + (-1) + 0
    BY <1>5, <1>0 DEF Replenishes
  <2> QED  BY <1>2, <1>3, <2>1, SumsKept
<1> QED  BY <1>4, <1>5

LEMMA CountedOfChecks == ASSUME Shape, Counted, BeginsCheck \/ Check PROVE Counted'
<1>0. /\ Cardinality(idle) \in Nat /\ Cardinality(Creating) \in Nat
      /\ background \in Nat /\ Replacing \in Nat /\ warming \in Nat /\ TargetIdle \in Nat
      /\ spawning = Cardinality(Creating) + background + Replacing /\ spawning \in Nat
      /\ IsFiniteSet(idle) /\ IsFiniteSet(Creating)
  BY NumbersAreNat DEF Counted
<1>1. CASE BeginsCheck
  BY <1>1, CountedSame DEF BeginsCheck, Creating, Replacing, clientVars
<1>2. ASSUME NEW k \in Containers, LooksAt(k) PROVE Counted'
  BY <1>2, CountedSame DEF LooksAt, Creating, Replacing, clientVars
<1>3. ASSUME NEW k \in Containers, DestroysDead(k) PROVE Counted'
  BY <1>3, CountedSame DEF DestroysDead, Creating, Replacing, clientVars
<1>4. CASE EndsLook
  BY <1>4, CountedSame DEF EndsLook, NextDead, Returns, Creating, Replacing, clientVars
<1>5. CASE Decides
  <2>1. Creating' = Creating /\ idle' = idle /\ UNCHANGED <<background, warming>> /\ Replacing = 0
    BY <1>5 DEF Decides, Creating, Replacing, clientVars
  <2>2. CASE spawning' = spawning /\ check' # "creates"
    BY <2>1, <2>2, CountedSame DEF Replacing
  <2>3. CASE Deficit /\ check' = "creates" /\ spawning' = spawning + 1
    <3>1. /\ Cardinality(idle') <= Cardinality(idle) + 0 /\ IsFiniteSet(idle')
          /\ background' = background + 0 /\ warming' = warming + 0
          /\ spawning' = spawning + 0 + 0 + 1
          /\ IsFiniteSet(Creating') /\ Cardinality(Creating') = Cardinality(Creating) + 0
      BY <1>0, <2>1, <2>3
    <3>2. Replacing' = Replacing + 1
      BY <2>1, <2>3 DEF Replacing
    <3>3. Cardinality(idle) + spawning < TargetIdle /\ warming = 0
      BY <1>5, <2>3 DEF Decides, Deficit, Shape, Warmed
    <3>4. Cardinality(idle) + background + Replacing + warming + 0 + 0 + 1 + 0 <= TargetIdle
      <4> DEFINE I == Cardinality(idle)
                 C == Cardinality(Creating)
                 R == Replacing
      <4>1. /\ I \in Nat /\ C \in Nat /\ R \in Nat /\ background \in Nat /\ spawning = C + background + R
            /\ I + spawning < TargetIdle /\ warming = 0
        BY <1>0, <3>3
      <4> HIDE DEF I, C, R
      <4>2. I + background + R + warming + 0 + 0 + 1 + 0 <= TargetIdle
        BY <4>1, <1>0
      <4> USE DEF I, R
      <4> QED  BY <4>2
    <3> QED  BY <3>1, <3>2, <3>4, SumsKept
  <2> QED  BY <1>5, <2>2, <2>3 DEF Decides, NextDead, Forgets, Returns
<1>6. CASE Replaces
  <2>1. Created
    BY <1>6 DEF Replaces, Created
  <2>2. /\ IsFiniteSet(idle') /\ Cardinality(idle') <= Cardinality(idle) + 1
        /\ IsFiniteSet(Creating') /\ Cardinality(Creating') = Cardinality(Creating) + 0
    BY <1>0, <2>1, IdleGrows
  <2>3. Replacing' = Replacing + (-1)
    BY <1>6 DEF Replaces, Replacing, NextDead, Forgets, Returns
  <2>4. /\ background' = background + 0 /\ warming' = warming + 0
        /\ spawning' = spawning + 0 + 0 + (-1)
    BY <1>6, <1>0 DEF Replaces
  <2> QED  BY <2>2, <2>3, <2>4, SumsKept
<1> QED  BY <1>1, <1>2, <1>3, <1>4, <1>5, <1>6 DEF Check

LEMMA CountedOfStop ==
    ASSUME Shape, Counted, StopsPool \/ \E k \in Containers : DestroysSnapshot(k) \/ Dies(k)
    PROVE  Counted'
<1>1. CASE StopsPool
  <2>1. QuietMoves
    BY <1>1, StopsEffect DEF QuietMoves, Quiet
  <2>2. Creating' = Creating
    BY <2>1, QuietEffect
  <2> QED  BY <1>1, <2>2, CountedSame DEF StopsPool, Replacing, checkVars
<1>2. ASSUME NEW k \in Containers, DestroysSnapshot(k) \/ Dies(k) PROVE Counted'
  BY <1>2, CountedSame DEF DestroysSnapshot, Dies, Creating, Replacing, clientVars, checkVars
<1> QED  BY <1>1, <1>2

LEMMA CountedKept == Shape /\ Counted /\ [PoolNext]_poolVars => Counted'
<1> SUFFICES ASSUME Shape, Counted, [PoolNext]_poolVars PROVE Counted'
  OBVIOUS
<1>1. CASE UNCHANGED poolVars
  BY <1>1, CountedSame DEF poolVars, clientVars, checkVars, Creating, Replacing
<1> QED  BY <1>1, CountedOfClients, CountedOfThreads, CountedOfChecks, CountedOfStop DEF PoolNext

-----------------------------------------------------------------------------
LEMMA OwnedStarts == PoolInit => Owned
BY DEF PoolInit, Owned, Users, Held, OneUserEach, NoneForgotten, Born, Unfit

LEMMA OwnedSame ==
    ASSUME Owned, Held' = Held, Users' = Users,
           UNCHANGED <<idle, busy, hand, checkVars, snapshot, abandoned, state, lost>>
    PROVE  Owned'
BY DEF Owned, OneUserEach, NoneForgotten, Born, Unfit, checkVars

Keeps == {"uses", "reads", "destroys"}

LEMMA NobodyKeeps ==
    ASSUME Shape, NEW c \in Clients, at[c] \notin Keeps, NEW place, place \notin Keeps, Proceeds(c, place)
    PROVE  Held' = Held /\ Users' = Users
BY GoingEffect DEF Held, Users, Keeps

\* What a creation in the background changes.
LEMMA DeliveredEffect ==
    ASSUME Shape, Owned, Created
    PROVE  /\ Held' = Held /\ Users' = Users /\ hand' = hand
           /\ idle \subseteq idle' /\ lost \subseteq lost'
           /\ \A k \in idle' : k \in idle \/ (k \in Containers /\ state[k] = "unborn")
           /\ \A k \in Containers : state[k] # "unborn" => state'[k] = state[k]
           /\ \A k \in Containers : state'[k] # state[k] => k \in idle' \union lost'
           /\ \A k \in idle' : Born(k)'
<1>1. QuietMoves /\ hand' = hand
  BY DeliversEffect DEF QuietMoves, Quiet
<1>2. Held' = Held /\ Users' = Users
  BY <1>1, QuietEffect
<1>3. Makes
  BY DeliversEffect
<1>4. CASE idle' = idle
  BY <1>1, <1>2, <1>3, <1>4 DEF Owned, Born, Makes
<1>5. ASSUME NEW k \in Containers, state[k] = "unborn", state'[k] = "up", idle' = idle \union {k}
      PROVE  /\ idle \subseteq idle'
             /\ \A j \in idle' : j \in idle \/ (j \in Containers /\ state[j] = "unborn")
             /\ \A j \in idle' : Born(j)'
  BY <1>3, <1>5 DEF Owned, Born, Makes
<1> QED  BY <1>1, <1>2, <1>3, <1>4, <1>5, DeliversEffect DEF Makes

LEMMA OwnedDelivered ==
    ASSUME Shape, Owned, Created,
           UNCHANGED <<busy, suspects, snapshot>>,
           check # "looks" => check' # "looks",
           \/ Forgets /\ suspects = {}
           \/ NextDead /\ suspects = {} /\ UNCHANGED abandoned
           \/ UNCHANGED <<dead, listed, silent, abandoned>>
    PROVE  Owned'
<1>0. /\ dead' \subseteq dead /\ dead \subseteq dead' \union abandoned'
      /\ suspects' \union dead' \subseteq listed'
      /\ \A k \in dead' : k \in silent => k \in silent'
      /\ abandoned \subseteq abandoned'
  BY DEF Forgets, NextDead, Returns, Owned
<1>1. busy' = {hand'[c] : c \in Users'}
  BY DeliveredEffect DEF Owned
<1>2. \A c \in Held' : hand'[c] = hand[c] /\ c \in Held /\ Born(hand[c]) /\ hand[c] \notin snapshot'
  BY DeliveredEffect DEF Owned
<1>3. OneUserEach'
  BY <1>2, DeliveredEffect DEF Owned, OneUserEach, Born
<1>4. \A k : Born(k) => Born(k)' /\ state'[k] = state[k]
  BY DeliveredEffect DEF Born
<1>5. \A c \in Held' : Born(hand[c])' /\ hand'[c] \notin snapshot'
  BY <1>2, <1>4, DeliveredEffect
<1>6. \A k \in idle' \union suspects' \union dead' \union snapshot' : Born(k)'
  BY <1>0, <1>4, DeliveredEffect DEF Owned
<1>7. \A k \in dead' : Unfit(k)'
  BY <1>0, <1>4 DEF Owned, Unfit
<1>8. NoneForgotten'
  <2> SUFFICES ASSUME NEW k \in Containers, state'[k] \in {"up", "down"}
               PROVE  \/ k \in idle' \union snapshot' \union abandoned' \union lost'
                      \/ check' # "looks" /\ k \in dead'
                      \/ \E c \in Held' : hand'[c] = k
    BY DEF NoneForgotten
  <2>1. CASE state'[k] # state[k]
    BY <2>1, DeliveredEffect
  <2>2. CASE state'[k] = state[k]
    <3>1. \/ k \in idle \union snapshot \union abandoned \union lost
          \/ check # "looks" /\ k \in dead
          \/ \E c \in Held : hand[c] = k
      BY <2>2 DEF Owned, NoneForgotten
    <3> QED  BY <3>1, <1>0, DeliveredEffect
  <2> QED  BY <2>1, <2>2
<1> QED  BY <1>0, <1>1, <1>3, <1>5, <1>6, <1>7, <1>8, <1>2 DEF Owned

-----------------------------------------------------------------------------
LEMMA TakingOwned == ASSUME Shape, Owned, NEW c \in Clients, TakesIdle(c) PROVE Owned'
<1> USE DEF Shape, PoolTypes
<1>1. PICK k \in idle :
        /\ idle' = idle \ {k} /\ busy' = busy \union {k} /\ hand' = [hand EXCEPT ![c] = k]
  BY DEF TakesIdle
<1>2. /\ at[c] \in {"out", "woken"} /\ UNCHANGED <<checkVars, snapshot, abandoned, state, lost>>
      /\ Proceeds(c, "uses") /\ snapshot = {}
  BY DEF TakesIdle, Looks, dockerVars
<1>3. /\ hand'[c] = k /\ \A d \in Clients \ {c} : hand'[d] = hand[d]
  BY <1>1
<1>4. /\ Held' = Held \union {c} /\ Users' = Users \union {c} /\ c \notin Held /\ c \notin Users
  BY <1>2, GoingEffect DEF Held, Users
<1>5. Held \subseteq Clients /\ Users \subseteq Clients
  BY DEF Held, Users
<1>6. busy' = {hand'[d] : d \in Users'}
  BY <1>1, <1>3, <1>4, <1>5 DEF Owned
<1>7. OneUserEach'
  BY <1>1, <1>3, <1>4, <1>5 DEF Owned, OneUserEach
<1>8. \A d \in Held' : Born(hand'[d]) /\ hand'[d] \notin snapshot'
  BY <1>1, <1>2, <1>3, <1>4, <1>5 DEF Owned
<1>9. /\ \A j \in idle' \union suspects' \union dead' \union snapshot' : Born(j)
      /\ \A j \in dead' : Unfit(j)'
      /\ suspects' \union dead' \subseteq listed'
  BY <1>1, <1>2 DEF Owned, checkVars, Unfit
<1>10. NoneForgotten'
  BY <1>1, <1>2, <1>3, <1>4, <1>5 DEF Owned, NoneForgotten, checkVars
<1> QED  BY <1>2, <1>6, <1>7, <1>8, <1>9, <1>10 DEF Owned, Born

LEMMA CreatingOwned == ASSUME Shape, Owned, NEW c \in Clients, CreatesOwn(c) PROVE Owned'
<1> USE DEF Shape, PoolTypes
<1>1. PICK k \in Containers :
        /\ state[k] = "unborn" /\ state' = [state EXCEPT ![k] = "up"]
        /\ busy' = busy \union {k} /\ hand' = [hand EXCEPT ![c] = k]
        /\ lost' = lost
  BY NewEffect DEF CreatesOwn, Starts
<1>2. /\ at[c] = "creates" /\ UNCHANGED <<idle, checkVars, snapshot, abandoned>>
      /\ Proceeds(c, "uses")
  BY DEF CreatesOwn
<1>3. /\ hand'[c] = k /\ \A d \in Clients \ {c} : hand'[d] = hand[d]
      /\ state'[k] = "up" /\ \A j \in Containers \ {k} : state'[j] = state[j]
  BY <1>1
<1>4. /\ Held' = Held \union {c} /\ Users' = Users \union {c} /\ c \notin Held /\ c \notin Users
  BY <1>2, GoingEffect DEF Held, Users
<1>5. Held \subseteq Clients /\ Users \subseteq Clients
  BY DEF Held, Users
<1>6. busy' = {hand'[d] : d \in Users'}
  BY <1>1, <1>3, <1>4, <1>5 DEF Owned
<1>7. OneUserEach'
  BY <1>1, <1>2, <1>3, <1>4, <1>5 DEF Owned, OneUserEach, Born
<1>8. \A d \in Held' : Born(hand[d])' /\ hand'[d] \notin snapshot'
  BY <1>1, <1>2, <1>3, <1>4, <1>5 DEF Owned, Born
<1>9. /\ \A j \in idle' \union suspects' \union dead' \union snapshot' : Born(j)'
      /\ \A j \in dead' : Unfit(j)'
      /\ suspects' \union dead' \subseteq listed'
  BY <1>1, <1>2, <1>3 DEF Owned, Born, Unfit, checkVars
<1>10. NoneForgotten'
  BY <1>1, <1>2, <1>3, <1>4, <1>5 DEF Owned, NoneForgotten, checkVars
<1> QED  BY <1>6, <1>7, <1>8, <1>9, <1>10 DEF Owned

LEMMA ReleasingOwned == ASSUME Shape, Owned, NEW c \in Clients, Releases(c) PROVE Owned'
<1>1. /\ at[c] \in {"uses", "reads"} /\ busy' = busy \ {hand[c]} /\ Proceeds(c, "destroys")
      /\ UNCHANGED <<idle, hand, checkVars, snapshot, abandoned, state, lost>>
  BY DEF Releases, dockerVars
<1>2. Held' = Held /\ Users' = Users \ {c} /\ c \in Held /\ Users \subseteq Held
  BY <1>1, GoingEffect DEF Held, Users
<1>3. busy' = {hand'[d] : d \in Users'}
  BY <1>1, <1>2 DEF Owned, OneUserEach
<1> QED  BY <1>1, <1>2, <1>3 DEF Owned, OneUserEach, NoneForgotten, Born, Unfit, checkVars

LEMMA EndingOwned == ASSUME Shape, Owned, NEW c \in Clients, CodeEnds(c) PROVE Owned'
<1>1. /\ at[c] = "uses" /\ state[hand[c]] # "gone" /\ Proceeds(c, "reads")
      /\ state' = [state EXCEPT ![hand[c]] = "down"]
      /\ UNCHANGED <<idle, busy, hand, checkVars, snapshot, abandoned, lost>>
  BY DEF CodeEnds
<1>2. Held' = Held /\ Users' = Users /\ c \in Held
  BY <1>1, GoingEffect DEF Held, Users
<1>3. /\ hand[c] \in Containers
      /\ state'[hand[c]] = "down" /\ \A j \in Containers \ {hand[c]} : state'[j] = state[j]
  BY <1>1, <1>2 DEF Shape, PoolTypes
<1>4. NoneForgotten'
  <2> SUFFICES ASSUME NEW k \in Containers, state'[k] \in {"up", "down"}
               PROVE  \/ k \in idle \union snapshot \union abandoned \union lost
                      \/ check # "looks" /\ k \in dead
                      \/ \E d \in Held : hand[d] = k
    BY <1>1, <1>2 DEF NoneForgotten, checkVars
  <2>1. CASE k = hand[c]
    BY <2>1, <1>2
  <2>2. CASE k # hand[c]
    BY <2>2, <1>3 DEF Owned, NoneForgotten
  <2> QED  BY <2>1, <2>2
<1> QED  BY <1>1, <1>2, <1>3, <1>4 DEF Owned, OneUserEach, Born, Unfit, checkVars

LEMMA DestroyingOwned == ASSUME Shape, Owned, NEW c \in Clients, DestroysOwn(c) PROVE Owned'
<1> USE DEF Shape, PoolTypes
<1>1. /\ at[c] = "destroys" /\ Destroys(hand[c])
      /\ hand' = [hand EXCEPT ![c] = NoContainer]
      /\ Proceeds(c, IF stopped THEN "out" ELSE "refills")
      /\ UNCHANGED <<idle, busy, checkVars, snapshot, abandoned>>
  BY DEF DestroysOwn
<1>2. Held' = Held \ {c} /\ Users' = Users /\ c \in Held /\ Users \subseteq Held \ {c} /\ Held \subseteq Clients
  BY <1>1, GoingEffect DEF Held, Users
<1>9. hand[c] \in Containers
  BY <1>2
<1>3. /\ \A d \in Clients \ {c} : hand'[d] = hand[d]
      /\ \A j \in Containers : state'[j] = state[j] \/ (j = hand[c] /\ (state'[j] = "gone" \/ j \in lost'))
      /\ \A j \in Containers : state[j] # "unborn" => state'[j] # "unborn"
      /\ \A j \in Containers : state'[j] = "up" => state[j] = "up"
      /\ lost \subseteq lost'
  <2>1. \A d \in Clients \ {c} : hand'[d] = hand[d]
    BY <1>1
  <2> HIDE DEF Shape
  <2> QED  BY <2>1, <1>1, <1>9, DestroysEffect
<1>4. busy' = {hand'[d] : d \in Users'}
  BY <1>1, <1>2, <1>3 DEF Owned
<1>5. OneUserEach'
  BY <1>1, <1>2, <1>3 DEF Owned, OneUserEach
<1>6. /\ \A d \in Held' : Born(hand[d])' /\ hand'[d] \notin snapshot'
      /\ \A j \in idle' \union suspects' \union dead' \union snapshot' : Born(j)'
      /\ \A j \in dead' : Unfit(j)'
      /\ suspects' \union dead' \subseteq listed'
  BY <1>1, <1>2, <1>3 DEF Owned, Born, Unfit, checkVars
<1>7. NoneForgotten'
  <2> SUFFICES ASSUME NEW k \in Containers, state'[k] \in {"up", "down"}
               PROVE  \/ k \in idle \union snapshot \union abandoned \union lost'
                      \/ check # "looks" /\ k \in dead
                      \/ \E d \in Held' : hand'[d] = k
    BY <1>1 DEF NoneForgotten, checkVars
  <2>1. CASE k = hand[c]
    BY <2>1, <1>3, <1>9, <1>1, DestroysEffect
  <2>2. CASE k # hand[c]
    <3>1. \/ k \in idle \union snapshot \union abandoned \union lost
          \/ check # "looks" /\ k \in dead
          \/ \E d \in Held : hand[d] = k
      BY <2>2, <1>3 DEF Owned, NoneForgotten
    <3> QED  BY <3>1, <2>2, <1>2, <1>3
  <2> QED  BY <2>1, <2>2
<1> QED  BY <1>4, <1>5, <1>6, <1>7 DEF Owned

LEMMA OwnedOfClients == ASSUME Shape, Owned, NEW c \in Clients, Acquire(c) \/ Finish(c) PROVE Owned'
<1>1. CASE StartsCreating(c)
  <2>1. Held' = Held /\ Users' = Users
    BY <1>1, NobodyKeeps DEF StartsCreating, Looks, Keeps
  <2> QED  BY <1>1, <2>1, OwnedSame DEF StartsCreating, dockerVars
<1>2. CASE Sleeps(c)
  <2>1. Held' = Held /\ Users' = Users
    BY <1>2, NobodyKeeps DEF Sleeps, Looks, Keeps
  <2> QED  BY <1>2, <2>1, OwnedSame DEF Sleeps, dockerVars
<1>3. CASE TurnedAway(c)
  <2>1. Held' = Held /\ Users' = Users
    BY <1>3, NobodyKeeps DEF TurnedAway, Looks, Keeps
  <2> QED  BY <1>3, <2>1, OwnedSame DEF TurnedAway, dockerVars
<1>4. CASE WaitExpires(c)
  <2>1. Held' = Held /\ Users' = Users
    BY <1>4, NobodyKeeps DEF WaitExpires, Keeps
  <2> QED  BY <1>4, <2>1, OwnedSame DEF WaitExpires, dockerVars
<1>5. CASE CreationFails(c)
  <2>1. Held' = Held /\ Users' = Users
    BY <1>5, NobodyKeeps DEF CreationFails, Keeps
  <2>2. UNCHANGED <<idle, busy, hand, checkVars, snapshot, abandoned>>
    BY <1>5 DEF CreationFails
  <2>3. Makes
    BY <1>5, CannotStartEffect DEF CreationFails
  <2> QED  BY <2>1, <2>2, <2>3 DEF Makes, Owned, OneUserEach, NoneForgotten, Born, Unfit, checkVars
<1>6. CASE Refills(c)
  <2>1. Held' = Held /\ Users' = Users
    BY <1>6, NobodyKeeps DEF Refills, Keeps
  <2> QED  BY <1>6, <2>1, OwnedSame DEF Refills, dockerVars
<1> QED  BY <1>1, <1>2, <1>3, <1>4, <1>5, <1>6, TakingOwned, CreatingOwned, EndingOwned,
            ReleasingOwned, DestroyingOwned
            DEF Acquire, Finish

LEMMA OwnedOfThreads == ASSUME Shape, Owned, Warms \/ Replenishes PROVE Owned'
<1>1. /\ Created
      /\ UNCHANGED <<busy, suspects, snapshot, check, dead, listed, silent, abandoned>>
  BY DEF Warms, Replenishes, checkVars, Created
<1> QED  BY <1>1, OwnedDelivered

LEMMA OwnedOfChecks == ASSUME Shape, Owned, BeginsCheck \/ Check PROVE Owned'
<1> USE DEF Owned, OneUserEach, NoneForgotten, Born, Unfit, Held, Users, clientVars, dockerVars
<1>1. CASE BeginsCheck
  BY <1>1 DEF BeginsCheck, Shape
<1>2. ASSUME NEW k \in Containers, LooksAt(k) PROVE Owned'
  BY <1>2 DEF LooksAt
<1>3. ASSUME NEW k \in Containers, DestroysDead(k) PROVE Owned'
  <2>1. /\ check = "destroys" /\ k \in dead /\ check' = "decides" /\ dead' = dead \ {k}
        /\ UNCHANGED <<idle, busy, clientVars, listed, suspects, silent, snapshot, abandoned>>
    BY <1>3 DEF DestroysDead
  <2>2. /\ \A j \in Containers \ {k} : state'[j] = state[j]
        /\ state'[k] = "gone" \/ k \in lost'
        /\ state[k] # "unborn" => state'[k] # "unborn"
        /\ lost \subseteq lost'
    BY <1>3, DestroysEffect DEF DestroysDead
  <2> QED  BY <2>1, <2>2
<1>4. CASE EndsLook
  BY <1>4 DEF EndsLook, NextDead, Returns
<1>5. CASE Decides
  BY <1>5 DEF Decides, NextDead, Forgets, Returns, Shape
<1>6. CASE Replaces
  <2>1. /\ Created
        /\ UNCHANGED <<busy, suspects, snapshot>>
        /\ check' # "looks"
        /\ Forgets \/ (NextDead /\ UNCHANGED abandoned)
        /\ suspects = {}
    BY <1>6 DEF Replaces, NextDead, Forgets, Returns, Created, Shape
  <2> QED  BY <2>1, OwnedDelivered
<1> QED  BY <1>1, <1>2, <1>3, <1>4, <1>5, <1>6 DEF Check

LEMMA OwnedOfStop ==
    ASSUME Shape, Owned, StopsPool \/ \E k \in Containers : DestroysSnapshot(k) \/ Dies(k)
    PROVE  Owned'
<1>1. CASE StopsPool
  <2>1. QuietMoves
    BY <1>1, StopsEffect DEF QuietMoves, Quiet
  <2>2. Held' = Held /\ Users' = Users
    BY <2>1, QuietEffect
  <2>3. /\ snapshot = {} /\ snapshot' = idle /\ idle' = {}
        /\ UNCHANGED <<busy, hand, checkVars, abandoned, state, lost>>
    BY <1>1 DEF StopsPool, Shape, dockerVars
  <2> QED  BY <2>2, <2>3 DEF Owned, OneUserEach, NoneForgotten, Born, Unfit, checkVars
<1>2. ASSUME NEW k \in Containers, DestroysSnapshot(k) PROVE Owned'
  <2>1. /\ k \in snapshot /\ snapshot' = snapshot \ {k}
        /\ UNCHANGED <<idle, busy, clientVars, checkVars, abandoned>>
    BY <1>2 DEF DestroysSnapshot
  <2>2. /\ \A j \in Containers \ {k} : state'[j] = state[j]
        /\ state'[k] = "gone" \/ k \in lost'
        /\ state[k] # "unborn" => state'[k] # "unborn"
        /\ state'[k] = "up" => state[k] = "up"
        /\ lost \subseteq lost'
    BY <1>2, DestroysEffect DEF DestroysSnapshot
  <2> QED  BY <2>1, <2>2 DEF Owned, OneUserEach, NoneForgotten, Born, Unfit, Held, Users, clientVars, checkVars
<1>3. ASSUME NEW k \in Containers, Dies(k) PROVE Owned'
  <2>1. /\ k \in idle /\ state[k] = "up"
        /\ UNCHANGED <<idle, busy, clientVars, checkVars, snapshot, abandoned, lost>>
    BY <1>3 DEF Dies
  <2>2. /\ state'[k] = "down" /\ \A j \in Containers \ {k} : state'[j] = state[j]
    BY <1>3 DEF Dies, Shape, PoolTypes
  <2> QED  BY <2>1, <2>2 DEF Owned, OneUserEach, NoneForgotten, Born, Unfit, Held, Users, clientVars, checkVars
<1> QED  BY <1>1, <1>2, <1>3

LEMMA OwnedKept == Shape /\ Owned /\ [PoolNext]_poolVars => Owned'
<1> SUFFICES ASSUME Shape, Owned, [PoolNext]_poolVars PROVE Owned'
  OBVIOUS
<1>1. CASE UNCHANGED poolVars
  BY <1>1, OwnedSame DEF poolVars, clientVars, checkVars, dockerVars, Held, Users
<1> QED  BY <1>1, OwnedOfClients, OwnedOfThreads, OwnedOfChecks, OwnedOfStop DEF PoolNext

-----------------------------------------------------------------------------
LEMMA PoolInvHolds == PoolSpec => []PoolInv
<1>1. PoolInit => PoolInv
  BY ShapeStarts, CountedStarts, OwnedStarts DEF PoolInv
<1>2. PoolInv /\ [PoolNext]_poolVars => PoolInv'
  BY ShapeKept, CountedKept, OwnedKept DEF PoolInv
<1> QED  BY <1>1, <1>2, PTL DEF PoolSpec

\* Whatever clients, background threads, health check and stop() do, the pool's
\* counters agree with the threads, no more than target_idle containers are
\* stocked, none has two users, and docker has none that nobody looks after
\* (SandboxPool.acquire, release, _healthcheck_once, stop).
THEOREM PoolOwnersAreExact == PoolSpec => []OwnersExact
<1>1. PoolInv => OwnersExact
  <2> SUFFICES ASSUME PoolInv PROVE OwnersExact
    OBVIOUS
  <2>1. Cardinality(Creating) \in Nat /\ background \in Nat /\ Replacing \in Nat
    BY NumbersAreNat DEF PoolInv
  <2>2. spawning \in Nat
    BY <2>1 DEF PoolInv, Counted
  <2>3. PoolTypeOK
    BY <2>2 DEF PoolInv, Shape, PoolTypes, PoolTypeOK
  <2> QED  BY <2>3 DEF PoolInv, Counted, Owned, Users, OwnersExact, CountersExact
<1> QED  BY <1>1, PoolInvHolds, PTL

\* A container is destroyed by the client that has it and is done, by stop() while
\* nobody has it, or by a health check that listed it while it was idle, when it
\* does not run any more or docker did not answer for it: the check looks without
\* the lock, and a client that had its container when the check began keeps it
\* (SandboxPool._healthcheck_once).
THEOREM UsersAreNotRobbed == PoolSpec => OnlyUserDestroys
<1> DEFINE Allowed(k) == \/ \E c \in Clients : at[c] = "destroys" /\ hand[c] = k
                         \/ k \in snapshot /\ ~InUse(k)
                         \/ k \in listed /\ (state[k] = "down" \/ k \in silent)
           Kept == \A k \in Containers : state[k] # "gone" /\ state'[k] = "gone" => Allowed(k)
<1>1. ASSUME PoolInv, PoolNext PROVE Kept
  <2> SUFFICES ASSUME NEW k \in Containers, state[k] # "gone", state'[k] = "gone"
               PROVE  Allowed(k)
    OBVIOUS
  <2>0. Shape /\ Owned
    BY <1>1 DEF PoolInv
  <2> USE DEF clientVars, checkVars, dockerVars
  <2>1. ASSUME NEW c \in Clients, Acquire(c) \/ Finish(c)
        PROVE  Allowed(k)
    <3>1. CASE DestroysOwn(c)
      <4>1. hand[c] \in Containers /\ at[c] = "destroys"
        BY <2>0, <3>1 DEF DestroysOwn, Shape, Held
      <4>2. k = hand[c]
        BY <2>0, <3>1, <4>1, DestroysEffect DEF DestroysOwn
      <4> QED  BY <4>1, <4>2
    <3>2. CASE CreationFails(c)
      BY <2>0, <3>2, CannotStartEffect DEF CreationFails, Makes
    <3>3. CASE CreatesOwn(c)
      <4>1. PICK j \in Containers : Starts(j)
        BY <3>3 DEF CreatesOwn
      <4> QED  BY <2>0, <4>1, NewEffect DEF Starts, Shape, PoolTypes
    <3>4. CASE CodeEnds(c)
      BY <2>0, <3>4 DEF CodeEnds, Shape, PoolTypes
    <3> QED  BY <2>1, <3>1, <3>2, <3>3, <3>4 DEF Acquire, Finish, TakesIdle, StartsCreating, Sleeps, TurnedAway, WaitExpires,
                Releases, Refills
  <2>2. CASE Created
    BY <2>0, <2>2, DeliversEffect DEF Makes
  <2>3. ASSUME NEW j \in Containers, DestroysDead(j) PROVE Allowed(k)
    <3>1. k = j /\ j \in dead
      BY <2>0, <2>3, DestroysEffect DEF DestroysDead
    <3>2. state[k] # "unborn" /\ Unfit(k) /\ k \in listed
      BY <2>0, <3>1 DEF Owned, Born
    <3> QED  BY <2>0, <3>2 DEF Unfit, Shape, PoolTypes
  <2>4. CASE BeginsCheck \/ EndsLook \/ Decides \/ StopsPool \/ \E j \in Containers : LooksAt(j)
    BY <2>4 DEF BeginsCheck, EndsLook, Decides, StopsPool, LooksAt
  <2>5. Warms \/ Replenishes \/ Replaces => Created
    BY DEF Warms, Replenishes, Replaces, Created
  <2>6. ASSUME NEW j \in Containers, DestroysSnapshot(j) PROVE Allowed(k)
    <3>1. k = j /\ j \in snapshot
      BY <2>0, <2>6, DestroysEffect DEF DestroysSnapshot
    <3>2. ~InUse(k)
      BY <2>0, <3>1 DEF Owned, Held, InUse
    <3> QED  BY <3>1, <3>2
  <2>7. ASSUME NEW j \in Containers, Dies(j) PROVE Allowed(k)
    BY <2>0, <2>7 DEF Dies, Shape, PoolTypes
  <2> QED  BY <1>1, <2>1, <2>2, <2>3, <2>4, <2>5, <2>6, <2>7 DEF PoolNext, Check
<1>2. PoolInv /\ [PoolNext]_poolVars => [Kept]_poolVars
  BY <1>1
<1> QED  BY <1>2, PoolInvHolds, PTL DEF PoolSpec, OnlyUserDestroys

-----------------------------------------------------------------------------
(* The cache of extractions *)

Hits == [file : Nodes, late : BOOLEAN, since : Nat]
StoredRows == [file : Nodes, expired : BOOLEAN, late : BOOLEAN]
Saves == [exec : Executions, node : Nodes, at : {"begun", "copied"}, late : BOOLEAN]

ResultTypes ==
    /\ history \in Histories
    /\ over \subseteq Executions
    /\ step \in [Executions -> [Nodes -> {"absent", "waiting", "found", "missed", "hit", "ran"}]]
    /\ result \in [Executions -> [Nodes -> Hits \union {None}]]
    /\ dir \in [Executions -> [Nodes -> Results!Files \union {None}]]
    /\ entry \in [CacheKeys -> [Nodes -> Results!Files \union {None}]]
    /\ stored \in [CacheKeys -> StoredRows \union {None}]
    /\ saves \subseteq Saves
    /\ removals \in Nat
    /\ removal \in Results!Removals \union {None}
    /\ cleared \in [CacheKeys -> Nat]
    /\ \A k \in CacheKeys : cleared[k] <= removals
    /\ \A e \in Executions, n \in Nodes : step[e][n] # "absent" => Results!KeyOf(e, n) \in CacheKeys
    /\ \A e \in Executions, n \in Nodes : step[e][n] \in {"found", "hit"} => result[e][n] \in Hits
    /\ \A s \in saves : Results!SaveKey(s) \in CacheKeys

\* A file that an entry has is of its key, one that an execution has is named
\* after a node that had its key once.
Labelled ==
    /\ \A k \in CacheKeys, n \in Nodes : entry[k][n] # None => entry[k][n].key = k /\ Results!Once(n, k)
    /\ \A e \in Executions, n \in Nodes : dir[e][n] # None => Results!Once(n, dir[e][n].key)

\* What a node finds under its name before it has got or made a file was brought
\* by another node.
Visited(e, n, k) == \E m \in Nodes \ {n} : Results!KeyOf(e, m) = k /\ step[e][m] # "waiting"

Brought ==
    \A e \in Executions, n \in Nodes :
        e \notin over /\ step[e][n] \in {"waiting", "found"} /\ dir[e][n] # None =>
            Visited(e, n, dir[e][n].key)

\* What a save copies is the file of its node, until the execution has ended.
SavesOwn ==
    \A s \in saves : s.at = "begun" =>
        LET k == Results!SaveKey(s)
            file == dir[s.exec][s.node]
        IN  /\ file = None => s.exec \in over
            /\ file # None => file.key = k /\ (k \notin torn => file.born >= cleared[k])

SavesCopied ==
    \A s \in saves :
        LET k == Results!SaveKey(s)
            file == entry[k][s.node]
        IN  s.at = "copied" /\ ~s.late /\ k \notin torn => file # None /\ file.born >= cleared[k]

\* A removal has nobody beside it that it does not tear.
Alone ==
    removal # None =>
        /\ removal.keys \subseteq removal.filter
        /\ \A k \in Results!Concerned \ torn :
            /\ \A e \in Executions, n \in Nodes : Results!At(e, n, "found") => Results!KeyOf(e, n) # k
            /\ \A s \in saves : Results!SaveKey(s) = k =>
                   LET file == dir[s.exec][s.node]
                   IN  s.at = "begun" /\ (file # None => file.born >= removals)
        /\ removal.expiredOnly =>
               \A k \in removal.keys \ torn : stored[k] # None => stored[k].expired

SweptKey(k) == removal # None /\ removal.at = "swept" /\ k \in removal.keys

RowsBacked ==
    \A k \in CacheKeys \ torn : stored[k] # None /\ ~stored[k].late =>
        LET file == entry[k][stored[k].file]
        IN  /\ file # None \/ SweptKey(k)
            /\ file # None => file.born >= cleared[k]

LookupsBacked ==
    \A e \in Executions, n \in Nodes : Results!At(e, n, "found") =>
        LET k == Results!KeyOf(e, n)
            hit == result[e][n]
            file == entry[k][hit.file]
        IN  /\ hit.since <= cleared[k]
            /\ ~hit.late /\ k \notin torn => file # None /\ file.born >= hit.since

ResultInv ==
    /\ ResultTypes /\ Labelled /\ Brought /\ SavesOwn /\ SavesCopied
    /\ Alone /\ RowsBacked /\ LookupsBacked /\ HitsExplained

Steps == {"absent", "waiting", "found", "missed", "hit", "ran"}

-----------------------------------------------------------------------------
LEMMA ConstantsOfResults ==
    /\ None \notin Nodes /\ None \notin CacheKeys /\ None \notin Results!Files /\ None \notin Results!Removals
    /\ \A h \in Histories :
        /\ h.configured \in [Executions -> [Nodes -> CacheKeys \union {None}]]
        /\ h.test \subseteq Executions
        /\ h.earlier \in [CacheKeys -> Nodes \union {None}]
BY ResultsAssumption DEF Results!Constants

LEMMA ResultsStart == Results!Init => ResultInv
<1> SUFFICES ASSUME Results!Init PROVE ResultInv
  OBVIOUS
<1>0. /\ over = {} /\ saves = {} /\ removal = None /\ removals = 0 /\ torn = {}
      /\ step = [e \in Executions |-> Results!Unvisited(e)]
      /\ result = [e \in Executions |-> Results!NoFiles] /\ dir = [e \in Executions |-> Results!NoFiles]
      /\ cleared = [k \in CacheKeys |-> 0]
  BY DEF Results!Init
<1>1. /\ history \in Histories
      /\ history.configured \in [Executions -> [Nodes -> CacheKeys \union {None}]]
      /\ history.earlier \in [CacheKeys -> Nodes \union {None}]
  BY ConstantsOfResults DEF Results!Init
<1>2. \A e \in Executions, n \in Nodes :
        /\ step[e][n] \in {"absent", "waiting"} /\ dir[e][n] = None
        /\ step[e][n] # "absent" => Results!KeyOf(e, n) \in CacheKeys
  BY <1>0, <1>1 DEF Results!Unvisited, Results!NoFiles, Results!KeyOf
<1> DEFINE earlier == history.earlier
<1>3. \A k \in CacheKeys, n \in Nodes :
        entry[k][n] = IF n = earlier[k] THEN [key |-> k, born |-> 0] ELSE None
  BY DEF Results!Init
<1>4. entry \in [CacheKeys -> [Nodes -> Results!Files \union {None}]]
  BY DEF Results!Init, Results!Files
<1>5. \A k \in CacheKeys :
        stored[k] = IF earlier[k] = None THEN None
                    ELSE [file |-> earlier[k], expired |-> FALSE, late |-> FALSE]
  BY DEF Results!Init
<1>6. stored \in [CacheKeys -> StoredRows \union {None}]
  BY <1>1 DEF Results!Init, StoredRows
<1>13. \A n, k : earlier[k] = n => Results!Once(n, k)
  BY DEF Results!Once
<1>14. earlier \in [CacheKeys -> Nodes \union {None}]
  BY <1>1
<1> HIDE DEF earlier
<1>7. ResultTypes
  <2>1. step \in [Executions -> [Nodes -> Steps]]
    BY <1>0 DEF Results!Unvisited, Steps
  <2>2. /\ result \in [Executions -> [Nodes -> Hits \union {None}]]
        /\ dir \in [Executions -> [Nodes -> Results!Files \union {None}]]
    BY <1>0 DEF Results!NoFiles
  <2>3. /\ cleared \in [CacheKeys -> Nat] /\ removals \in Nat
        /\ \A k \in CacheKeys : cleared[k] <= removals
    BY <1>0
  <2>4. /\ over \subseteq Executions /\ saves \subseteq Saves /\ removal \in Results!Removals \union {None}
        /\ \A s \in saves : Results!SaveKey(s) \in CacheKeys
    BY <1>0
  <2>5. \A e \in Executions, n \in Nodes :
          /\ step[e][n] # "absent" => Results!KeyOf(e, n) \in CacheKeys
          /\ step[e][n] \notin {"found", "hit"}
    BY <1>2
  <2> QED  BY <1>1, <1>4, <1>6, <2>1, <2>2, <2>3, <2>4, <2>5 DEF ResultTypes, Steps
<1>8. Labelled
  <2>1. ASSUME NEW k \in CacheKeys, NEW n \in Nodes, entry[k][n] # None
        PROVE  entry[k][n].key = k /\ Results!Once(n, k)
    <3>1. n = earlier[k] /\ entry[k][n] = [key |-> k, born |-> 0]
      BY <2>1, <1>3
    <3> QED  BY <3>1, <1>13
  <2>2. \A e \in Executions, n \in Nodes : dir[e][n] = None
    BY <1>2
  <2> QED  BY <2>1, <2>2 DEF Labelled
<1>9. Brought /\ SavesOwn /\ SavesCopied /\ Alone
  <2>1. \A e \in Executions, n \in Nodes : dir[e][n] = None
    BY <1>2
  <2> QED  BY <1>0, <2>1 DEF Brought, SavesOwn, SavesCopied, Alone
<1>10. LookupsBacked /\ HitsExplained
  BY <1>2 DEF LookupsBacked, HitsExplained, Results!HitsExplained, Results!At
<1>11. RowsBacked
  <2>1. ASSUME NEW k \in CacheKeys, stored[k] # None
        PROVE  entry[k][stored[k].file] # None /\ entry[k][stored[k].file].born = 0
    <3>1. [key |-> k, born |-> 0] \in Results!Files
      BY DEF Results!Files
    <3>2. earlier[k] # None /\ stored[k] = [file |-> earlier[k], expired |-> FALSE, late |-> FALSE]
      BY <2>1, <1>5
    <3>3. earlier[k] \in Nodes
      BY <3>2, <1>14
    <3>4. stored[k].file = earlier[k] /\ stored[k].file \in Nodes
      BY <3>2, <3>3
    <3>5. entry[k][stored[k].file] = [key |-> k, born |-> 0]
      BY <3>4, <1>3
    <3> QED  BY <3>1, <3>5, ConstantsOfResults
  <2> QED  BY <1>0, <2>1 DEF RowsBacked
<1> QED  BY <1>7, <1>8, <1>9, <1>10, <1>11 DEF ResultInv

LEMMA GoesEffect ==
    ASSUME ResultTypes, NEW e \in Executions, NEW n \in Nodes, NEW place \in Steps, Results!Goes(e, n, place)
    PROVE  /\ step' \in [Executions -> [Nodes -> Steps]]
           /\ step'[e][n] = place
           /\ \A f \in Executions, m \in Nodes : f # e \/ m # n => step'[f][m] = step[f][m]
BY DEF ResultTypes, Results!Goes, Steps

\* A node does not wait again for the cache.
Onward == \A e \in Executions \ over', m \in Nodes : step'[e][m] = "waiting" => step[e][m] = "waiting"

VisitedNext(e, n, k) == \E m \in Nodes \ {n} : Results!KeyOf(e, m) = k /\ step'[e][m] # "waiting"

LEMMA KeysStay ==
    ASSUME history' = history
    PROVE  /\ \A e, n : Results!KeyOf(e, n)' = Results!KeyOf(e, n)
           /\ \A n, k : Results!Once(n, k)' = Results!Once(n, k)
           /\ \A s : Results!SaveKey(s)' = Results!SaveKey(s)
BY DEF Results!Once, Results!KeyOf, Results!SaveKey

LEMMA BroughtKept ==
    ASSUME ResultInv, history' = history, over \subseteq over', Onward,
           \A f \in Executions \ over', m \in Nodes :
               step'[f][m] \in {"waiting", "found"} =>
                   /\ step[f][m] \in {"waiting", "found"}
                   /\ dir'[f][m] # None => dir'[f][m] = dir[f][m] \/ VisitedNext(f, m, dir'[f][m].key)
    PROVE  Brought'
<1>1. ASSUME NEW f \in Executions, NEW m \in Nodes, f \notin over',
                    step'[f][m] \in {"waiting", "found"}, dir'[f][m] # None
      PROVE  VisitedNext(f, m, dir'[f][m].key)
  <2>1. CASE dir'[f][m] = dir[f][m]
    <3>1. Visited(f, m, dir[f][m].key)
      BY <1>1, <2>1 DEF ResultInv, Brought
    <3> QED  BY <1>1, <2>1, <3>1 DEF Visited, VisitedNext, Onward
  <2> QED  BY <1>1, <2>1
<1> QED  BY <1>1, KeysStay DEF Brought, Visited, VisitedNext

\* What a node has got is still explained when its execution gets more files.
LEMMA HitStays ==
    ASSUME ResultInv, history' = history, torn \subseteq torn', Onward, Labelled',
           NEW e \in Executions \ over', e \notin over, NEW n \in Nodes,
           step[e][n] = "hit", result'[e][n] = result[e][n],
           \A x \in Nodes : \/ dir'[e][x] = dir[e][x] \/ dir[e][x] = None
                            \/ x # n /\ dir'[e][x] # None
    PROVE  Results!HitExplained(e, n)'
<1> DEFINE key == Results!KeyOf(e, n)
           hit == result[e][n]
           x == hit.file
           late == hit.late \/ key \in torn
           late2 == hit.late \/ key \in torn'
           twin == Visited(e, n, key)
           twin2 == VisitedNext(e, n, key)
<1>1. x \in Nodes
  BY DEF ResultInv, ResultTypes, Hits
<1>2. /\ dir[e][x] = None => late
      /\ dir[e][x] # None /\ dir[e][x].key # key => x # n \/ Results!Once(n, dir[e][x].key)
      /\ dir[e][x] # None /\ dir[e][x].key = key /\ dir[e][x].born < hit.since => late \/ x # n \/ twin
  BY DEF ResultInv, HitsExplained, Results!HitsExplained, Results!HitExplained, Results!At, Visited
<1>3. late => late2
  OBVIOUS
<1>4. twin => twin2
  BY DEF Onward, Visited, VisitedNext
<1>5. dir'[e][x] # None => Results!Once(x, dir'[e][x].key)
  BY <1>1, KeysStay DEF Labelled
<1>6. dir'[e][x] = dir[e][x] \/ dir[e][x] = None \/ (x # n /\ dir'[e][x] # None)
  BY <1>1
<1> HIDE DEF key, hit, late, late2, twin, twin2, x
<1>7. /\ dir'[e][x] = None => late2
      /\ dir'[e][x] # None /\ dir'[e][x].key # key => x # n \/ Results!Once(n, dir'[e][x].key)
      /\ dir'[e][x] # None /\ dir'[e][x].key = key /\ dir'[e][x].born < hit.since => late2 \/ x # n \/ twin2
  BY <1>2, <1>3, <1>4, <1>5, <1>6
<1> USE DEF key, hit, late, late2, twin, twin2, x
<1> QED  BY <1>7, KeysStay DEF Results!HitExplained, VisitedNext

-----------------------------------------------------------------------------
(* A node of an execution *)

LEMMA FindsKeeps == ASSUME ResultInv, NEW e \in Executions, NEW n \in Nodes, Results!Finds(e, n) PROVE ResultInv'
<1> USE DEF ResultInv
<1> DEFINE k == Results!KeyOf(e, n)
           got == [file |-> stored[k].file, late |-> stored[k].late, since |-> cleared[k]]
<1>1. /\ e \notin over /\ step[e][n] = "waiting" /\ stored[k] # None
      /\ Results!Goes(e, n, "found")
      /\ result' = [result EXCEPT ![e][n] = got]
      /\ torn' = IF removal # None /\ k \in Results!Concerned THEN torn \union {k} ELSE torn
      /\ UNCHANGED <<history, over, dir, entry, stored, saves, removal, removals, cleared>>
  BY DEF Results!Finds, Results!Asks, Results!At, Results!Valid, Results!Overlaps
<1>2. k \in CacheKeys
  BY <1>1 DEF ResultTypes
<1>3. /\ step' \in [Executions -> [Nodes -> Steps]] /\ step'[e][n] = "found"
      /\ \A f \in Executions, m \in Nodes : f # e \/ m # n => step'[f][m] = step[f][m]
  BY <1>1, GoesEffect DEF Steps
<1>4. got \in Hits
  BY <1>1, <1>2 DEF ResultTypes, StoredRows, Hits
<1>5. /\ result' \in [Executions -> [Nodes -> Hits \union {None}]] /\ result'[e][n] = got
      /\ \A f \in Executions, m \in Nodes : f # e \/ m # n => result'[f][m] = result[f][m]
  <2>1. result \in [Executions -> [Nodes -> Hits \union {None}]]
    BY DEF ResultTypes
  <2> HIDE DEF got
  <2> QED  BY <1>1, <1>4, <2>1
<1>6. torn \subseteq torn'
  BY <1>1
<1>7. \A f \in Executions, m \in Nodes : Results!KeyOf(f, m)' = Results!KeyOf(f, m)
  BY <1>1 DEF Results!KeyOf
<1>8. Onward
  BY <1>1, <1>3 DEF Onward
<1> HIDE DEF k
<1>9. ResultTypes'
  <2>1. \A f \in Executions, m \in Nodes :
          /\ step'[f][m] # "absent" => Results!KeyOf(f, m) \in CacheKeys
          /\ step'[f][m] \in {"found", "hit"} => result'[f][m] \in Hits
    BY <1>2, <1>3, <1>4, <1>5 DEF ResultTypes, k
  <2> QED  BY <1>1, <1>3, <1>5, <2>1, KeysStay DEF ResultTypes, Steps
<1>10. Labelled'
  BY <1>1 DEF Labelled, Results!Once, Results!KeyOf
<1>11. Brought'
  BY SMTT(40), <1>1, <1>3, <1>8, BroughtKept
<1>12. SavesOwn' /\ SavesCopied'
  BY ZenonT(40), <1>1, <1>6 DEF SavesOwn, SavesCopied, Results!SaveKey, Results!KeyOf
<1>13. Alone'
  <2>1. removal # None => k \notin Results!Concerned \ torn'
    BY <1>1
  <2>2. ASSUME removal # None, NEW c \in Results!Concerned \ torn'
        PROVE  \A f \in Executions, m \in Nodes :
                   f \notin over /\ step'[f][m] = "found" => Results!KeyOf(f, m) # c
    <3>1. c # k
      BY <2>1, <2>2
    <3>2. \A f \in Executions, m \in Nodes : Results!At(f, m, "found") => Results!KeyOf(f, m) # c
      BY <1>6, <2>2 DEF Alone
    <3> QED  BY <1>1, <1>3, <3>1, <3>2 DEF Results!At, k
  <2> QED  BY <1>1, <1>6, <2>2, KeysStay DEF Alone, Results!Concerned, Results!At
<1>14. RowsBacked'
  BY <1>1, <1>6 DEF RowsBacked, SweptKey
<1>15. LookupsBacked'
  <2>1. stored[k] \in StoredRows /\ cleared[k] \in Nat
    BY <1>1, <1>2 DEF ResultTypes
  <2>2. ~got.late /\ k \notin torn' => entry[k][got.file] # None /\ entry[k][got.file].born >= got.since
    <3> SUFFICES ASSUME ~stored[k].late, k \notin torn'
                 PROVE  entry[k][stored[k].file] # None /\ entry[k][stored[k].file].born >= cleared[k]
      OBVIOUS
    <3>1. ~SweptKey(k)
      BY <1>1 DEF SweptKey, Alone, ResultTypes, Results!Removals, Results!Concerned
    <3> QED  BY <1>1, <1>2, <1>6, <3>1 DEF RowsBacked
  <2> QED  BY <1>1, <1>3, <1>5, <1>6, <1>7, <2>1, <2>2 DEF LookupsBacked, Results!At, k
<1>16. HitsExplained'
  <2> SUFFICES ASSUME NEW f \in Executions, NEW m \in Nodes, f \notin over, step'[f][m] = "hit"
               PROVE  Results!HitExplained(f, m)'
    BY <1>1 DEF HitsExplained, Results!HitsExplained, Results!At
  <2>1. step[f][m] = "hit" /\ result'[f][m] = result[f][m]
    BY <1>3, <1>5
  <2> QED  BY <1>1, <1>6, <1>8, <1>10, <2>1, HitStays
<1> QED  BY <1>9, <1>10, <1>11, <1>12, <1>13, <1>14, <1>15, <1>16

\* A node leaves the cache, with the files of the entry or without.
LEMMA LeavingKeeps ==
    ASSUME ResultInv, NEW e \in Executions, NEW n \in Nodes, e \notin over,
           step[e][n] \in {"waiting", "found"},
           NEW place \in {"missed", "hit"}, Results!Goes(e, n, place),
           result' = result \/ result' = [result EXCEPT ![e][n] = None],
           place = "hit" => step[e][n] = "found" /\ result' = result /\ Results!HitExplained(e, n)',
           dir' \in [Executions -> [Nodes -> Results!Files \union {None}]],
           \A f \in Executions \ {e} : dir'[f] = dir[f],
           \A x \in Nodes :
               \/ dir'[e][x] = dir[e][x]
               \/ dir[e][x] = None /\ dir'[e][x] = entry[Results!KeyOf(e, n)][x],
           UNCHANGED <<history, over, entry, stored, saves, removal, removals, cleared, torn>>
    PROVE  ResultInv'
<1> USE DEF ResultInv
<1> DEFINE k == Results!KeyOf(e, n)
<1>1. k \in CacheKeys
  BY DEF ResultTypes
<1>2. /\ step' \in [Executions -> [Nodes -> Steps]] /\ step'[e][n] = place
      /\ \A f \in Executions, m \in Nodes : f # e \/ m # n => step'[f][m] = step[f][m]
  BY GoesEffect DEF Steps
<1>3. /\ result' \in [Executions -> [Nodes -> Hits \union {None}]]
      /\ place = "hit" => result'[e][n] = result[e][n]
      /\ \A f \in Executions, m \in Nodes : f # e \/ m # n => result'[f][m] = result[f][m]
  <2>1. result \in [Executions -> [Nodes -> Hits \union {None}]]
    BY DEF ResultTypes
  <2>2. CASE result' = result
    BY <2>1, <2>2
  <2>3. CASE result' = [result EXCEPT ![e][n] = None] /\ place = "missed"
    BY <2>1, <2>3
  <2> QED  BY <2>2, <2>3
<1>4. Onward
  BY <1>2 DEF Onward
<1> HIDE DEF k
<1>5. \A x \in Nodes : dir'[e][x] = dir[e][x] \/ (dir[e][x] = None /\ dir'[e][x] = entry[k][x])
  BY DEF k
<1>6. ResultTypes'
  <2>1. \A f \in Executions, m \in Nodes :
          /\ step'[f][m] # "absent" => Results!KeyOf(f, m) \in CacheKeys
          /\ step'[f][m] \in {"found", "hit"} => result'[f][m] \in Hits
    BY ZenonT(60), <1>1, <1>2, <1>3 DEF ResultTypes, k
  <2> QED  BY <1>2, <1>3, <2>1, KeysStay DEF ResultTypes, Steps
<1>7. Labelled'
  <2>1. \A f \in Executions, x \in Nodes : dir'[f][x] # None => Results!Once(x, dir'[f][x].key)
    BY <1>1, <1>5 DEF Labelled
  <2> QED  BY <2>1, KeysStay DEF Labelled
<1>8. Brought'
  <2>1. ASSUME NEW f \in Executions \ over', NEW m \in Nodes, step'[f][m] \in {"waiting", "found"}
        PROVE  /\ step[f][m] \in {"waiting", "found"}
               /\ dir'[f][m] # None => dir'[f][m] = dir[f][m] \/ VisitedNext(f, m, dir'[f][m].key)
    <3>1. f # e \/ m # n
      BY <2>1, <1>2
    <3>2. step[f][m] = step'[f][m]
      BY <3>1, <1>2
    <3>3. CASE f # e
      BY <2>1, <3>2, <3>3
    <3>4. CASE f = e /\ dir'[e][m] # dir[e][m] /\ dir'[e][m] # None
      <4>1. dir'[e][m] = entry[k][m] /\ n \in Nodes \ {m}
        BY <3>1, <3>4, <1>5
      <4>2. dir'[e][m].key = k
        BY <4>1, <2>1, <3>4, <1>1 DEF Labelled
      <4>3. step'[e][n] # "waiting"
        BY <1>2
      <4> QED  BY <2>1, <3>2, <3>4, <4>1, <4>2, <4>3 DEF VisitedNext, k
    <3> QED  BY <2>1, <3>2, <3>3, <3>4
  <2> QED  BY <1>4, <2>1, BroughtKept
<1>9. \A s \in saves : s.at = "begun" =>
        \/ dir'[s.exec][s.node] = dir[s.exec][s.node]
        \/ dir[s.exec][s.node] = None /\ s.exec \notin over
  BY <1>5 DEF ResultTypes, Saves
<1>10. \A s \in saves : s.at = "begun" => dir'[s.exec][s.node] = dir[s.exec][s.node]
  BY <1>9 DEF SavesOwn
<1>11. SavesOwn' /\ SavesCopied'
  BY <1>10, KeysStay DEF SavesOwn, SavesCopied
<1>12. Alone'
  <2>1. \A f \in Executions, m \in Nodes : step'[f][m] = "found" => step[f][m] = "found"
    BY <1>2
  <2> QED  BY <1>10, <2>1, KeysStay DEF Alone, Results!Concerned, Results!At
<1>13. RowsBacked'
  BY DEF RowsBacked, SweptKey
<1>14. LookupsBacked'
  <2>1. \A f \in Executions, m \in Nodes :
          step'[f][m] = "found" => step[f][m] = "found" /\ result'[f][m] = result[f][m]
    BY <1>2, <1>3
  <2> QED  BY <2>1, KeysStay DEF LookupsBacked, Results!At
<1>15. HitsExplained'
  <2> SUFFICES ASSUME NEW f \in Executions, NEW m \in Nodes, f \notin over, step'[f][m] = "hit"
               PROVE  Results!HitExplained(f, m)'
    BY DEF HitsExplained, Results!HitsExplained, Results!At
  <2>1. CASE f = e /\ m = n
    BY <2>1, <1>2
  <2>2. CASE f # e \/ m # n
    <3>1. step[f][m] = "hit" /\ result'[f][m] = result[f][m]
      BY <2>2, <1>2, <1>3
    <3>2. \A x \in Nodes : dir'[f][x] = dir[f][x] \/ dir[f][x] = None
      BY <1>5
    <3> QED  BY <1>4, <1>7, <3>1, <3>2, HitStays
  <2> QED  BY <2>1, <2>2
<1> QED  BY <1>6, <1>7, <1>8, <1>11, <1>12, <1>13, <1>14, <1>15

LEMMA GivingUpKeeps ==
    ASSUME ResultInv, NEW e \in Executions, NEW n \in Nodes, Results!Misses(e, n) \/ Results!LookupFails(e, n)
    PROVE  ResultInv'
<1>1. /\ e \notin over /\ step[e][n] \in {"waiting", "found"} /\ Results!Goes(e, n, "missed")
      /\ result' = result \/ result' = [result EXCEPT ![e][n] = None]
      /\ UNCHANGED <<history, over, dir, entry, stored, saves, removal, removals, cleared, torn>>
  BY DEF Results!Misses, Results!LookupFails, Results!Asks, Results!At, Results!Forgets
<1>2. dir' \in [Executions -> [Nodes -> Results!Files \union {None}]]
  BY <1>1 DEF ResultInv, ResultTypes
<1> QED  BY <1>1, <1>2, LeavingKeeps

\* What the copy brings is what the row names, or was there before.
LEMMA CopiesKeeps == ASSUME ResultInv, NEW e \in Executions, NEW n \in Nodes, Results!Copies(e, n) PROVE ResultInv'
<1> USE DEF ResultInv
<1> DEFINE k == Results!KeyOf(e, n)
           hit == result[e][n]
           x == hit.file
<1>1. /\ e \notin over /\ step[e][n] = "found"
      /\ dir' = [dir EXCEPT ![e] = Results!Merged(dir[e], entry[k])]
      /\ \/ Results!Goes(e, n, "missed") /\ result' = [result EXCEPT ![e][n] = None]
         \/ Results!Goes(e, n, "hit") /\ result' = result
      /\ UNCHANGED <<history, over, entry, stored, saves, removal, removals, cleared, torn>>
  BY DEF Results!Copies, Results!At, Results!Forgets
<1>2. k \in CacheKeys /\ hit \in Hits /\ x \in Nodes
  BY <1>1 DEF ResultTypes, Hits
<1>3. /\ dir' \in [Executions -> [Nodes -> Results!Files \union {None}]]
      /\ \A f \in Executions \ {e} : dir'[f] = dir[f]
      /\ \A y \in Nodes : dir'[e][y] = IF dir[e][y] = None THEN entry[k][y] ELSE dir[e][y]
  BY <1>1, <1>2 DEF ResultTypes, Results!Merged
<1>4. ASSUME Results!Goes(e, n, "hit"), result' = result PROVE Results!HitExplained(e, n)'
  <2> DEFINE late == hit.late \/ k \in torn
             twin == VisitedNext(e, n, k)
             file == dir'[e][x]
  <2>1. ~late => entry[k][x] # None /\ entry[k][x].born >= hit.since
    BY <1>1, <1>2 DEF LookupsBacked, Results!At
  <2>2. entry[k][x] # None => entry[k][x].key = k
    BY <1>2 DEF Labelled
  <2>3. dir[e][x] # None => Results!Once(x, dir[e][x].key)
    BY <1>2 DEF Labelled
  <2>4. dir[e][n] # None => VisitedNext(e, n, dir[e][n].key)
    <3>1. \A m \in Nodes \ {n} : step'[e][m] = step[e][m]
      BY <1>4, GoesEffect DEF Steps
    <3> QED  BY <1>1, <3>1 DEF Brought, Visited, VisitedNext
  <2>5. file = IF dir[e][x] = None THEN entry[k][x] ELSE dir[e][x]
    BY <1>2, <1>3
  <2>6. entry[k][x] # None => entry[k][x].born \in Nat
    BY <1>2 DEF ResultTypes, Results!Files
  <2>7. hit.since \in Nat
    BY <1>2 DEF Hits
  <2> HIDE DEF k, hit, x, late, twin, file
  <2>8. file = None => late
    BY <2>1, <2>5
  <2>9. file # None /\ file.key # k => x # n \/ Results!Once(n, file.key)
    BY <2>2, <2>3, <2>5
  <2>10. file # None /\ file.key = k /\ file.born < hit.since => late \/ x # n \/ twin
    <3> SUFFICES ASSUME file # None, file.key = k, file.born < hit.since, x = n PROVE late \/ twin
      OBVIOUS
    <3>1. CASE dir[e][x] = None
      BY <3>1, <2>1, <2>5, <2>6, <2>7
    <3>2. CASE dir[e][x] # None
      BY <3>2, <2>4, <2>5 DEF twin
    <3> QED  BY <3>1, <3>2
  <2>11. result'[e][n] = hit
    BY <1>4 DEF hit
  <2> USE DEF k, x, late, twin, file
  <2> QED  BY <1>1, <2>8, <2>9, <2>10, <2>11, KeysStay DEF Results!HitExplained, VisitedNext
<1> HIDE DEF x, hit
<1>5. \A y \in Nodes : dir'[e][y] = dir[e][y] \/ (dir[e][y] = None /\ dir'[e][y] = entry[k][y])
  BY <1>3
<1>6. CASE Results!Goes(e, n, "missed") /\ result' = [result EXCEPT ![e][n] = None]
  BY <1>1, <1>3, <1>5, <1>6, LeavingKeeps
<1>7. CASE Results!Goes(e, n, "hit") /\ result' = result
  BY <1>1, <1>3, <1>4, <1>5, <1>7, LeavingKeeps
<1> QED  BY <1>1, <1>6, <1>7

LEMMA RunsKeeps == ASSUME ResultInv, NEW e \in Executions, NEW n \in Nodes, Results!Runs(e, n) PROVE ResultInv'
<1> USE DEF ResultInv
<1> DEFINE k == Results!KeyOf(e, n)
           made == [key |-> k, born |-> removals]
           new == [exec |-> e, node |-> n, at |-> "begun", late |-> FALSE]
<1>1. /\ e \notin over /\ step[e][n] = "missed" /\ Results!Goes(e, n, "ran")
      /\ dir' = [dir EXCEPT ![e][n] = made]
      /\ saves' = saves \union {new}
      /\ UNCHANGED <<history, over, result, entry, stored, removal, removals, cleared, torn>>
  BY DEF Results!Runs, Results!At
<1>2. k \in CacheKeys
  BY <1>1 DEF ResultTypes
<1>3. /\ step' \in [Executions -> [Nodes -> Steps]] /\ step'[e][n] = "ran"
      /\ \A f \in Executions, m \in Nodes : f # e \/ m # n => step'[f][m] = step[f][m]
  BY <1>1, GoesEffect DEF Steps
<1>4. made \in Results!Files /\ made # None /\ made.key = k /\ made.born = removals
  BY <1>2, ConstantsOfResults DEF Results!Files, ResultTypes
<1>5. new \in Saves /\ new.exec = e /\ new.node = n /\ new.at = "begun" /\ Results!SaveKey(new) = k
  BY DEF Saves, Results!SaveKey
<1> HIDE DEF new, made
<1>6. /\ dir' \in [Executions -> [Nodes -> Results!Files \union {None}]] /\ dir'[e][n] = made
      /\ \A f \in Executions, m \in Nodes : f # e \/ m # n => dir'[f][m] = dir[f][m]
  <2>1. dir \in [Executions -> [Nodes -> Results!Files \union {None}]]
    BY DEF ResultTypes
  <2> QED  BY <1>1, <1>4, <2>1
<1>7. Results!Once(n, k)
  BY DEF Results!Once
<1>8. cleared[k] <= removals /\ removals \in Nat /\ cleared[k] \in Nat
  BY <1>2 DEF ResultTypes
<1>9. \A s \in saves' : s.exec = e /\ s.node = n => Results!SaveKey(s) = k
  BY DEF Results!SaveKey
<1>18. ASSUME NEW s \in saves', s # new
       PROVE  s \in saves /\ (s.exec # e \/ s.node # n => dir'[s.exec][s.node] = dir[s.exec][s.node])
  BY <1>1, <1>6, <1>18 DEF ResultTypes, Saves
<1>19. \A s : s.exec = e /\ s.node = n => dir'[s.exec][s.node] = made
  BY <1>6
<1> HIDE DEF k
<1>10. ResultTypes'
  <2>1. \A f \in Executions, m \in Nodes :
          /\ step'[f][m] # "absent" => Results!KeyOf(f, m) \in CacheKeys
          /\ step'[f][m] \in {"found", "hit"} => result[f][m] \in Hits
    BY <1>2, <1>3 DEF ResultTypes, k
  <2>2. saves' \subseteq Saves /\ \A s \in saves' : Results!SaveKey(s) \in CacheKeys
    BY <1>1, <1>2, <1>5 DEF ResultTypes
  <2> QED  BY <1>1, <1>3, <1>6, <2>1, <2>2, KeysStay DEF ResultTypes, Steps
<1>11. Labelled'
  <2>1. \A f \in Executions, m \in Nodes : dir'[f][m] # None => Results!Once(m, dir'[f][m].key)
    BY <1>4, <1>6, <1>7 DEF Labelled
  <2> QED  BY <1>1, <2>1, KeysStay DEF Labelled
<1>12. Onward
  BY <1>3 DEF Onward
<1>13. Brought'
  <2>1. \A f \in Executions \ over', m \in Nodes :
          step'[f][m] \in {"waiting", "found"} =>
              step[f][m] \in {"waiting", "found"} /\ dir'[f][m] = dir[f][m]
    BY <1>3, <1>6
  <2> QED  BY <1>1, <1>12, <2>1, BroughtKept
<1>14. SavesOwn'
  <2>1. ASSUME NEW s \in saves', s.at = "begun"
        PROVE  LET c == Results!SaveKey(s)
                   file == dir'[s.exec][s.node]
               IN  /\ file = None => s.exec \in over
                   /\ file # None => file.key = c /\ (c \notin torn => file.born >= cleared[c])
    <3>1. CASE s.exec = e /\ s.node = n
      <4>1. dir'[s.exec][s.node] = made /\ Results!SaveKey(s) = k
        BY <3>1, <1>9, <1>19
      <4> QED  BY <4>1, <1>4, <1>8
    <3>2. CASE s.exec # e \/ s.node # n
      <4>1. s # new
        BY <3>2, <1>5
      <4>2. s \in saves /\ dir'[s.exec][s.node] = dir[s.exec][s.node]
        BY <4>1, <3>2, <1>18
      <4> QED  BY <4>2, <2>1 DEF SavesOwn
    <3> QED  BY <3>1, <3>2
  <2> QED  BY <1>1, <2>1, KeysStay DEF SavesOwn
<1>15. SavesCopied'
  <2>1. \A s \in saves' : s.at = "copied" => s \in saves
    BY <1>1, <1>5
  <2> QED  BY <1>1, <2>1, KeysStay DEF SavesCopied
<1>16. Alone'
  <2>1. ASSUME removal # None, NEW c \in Results!Concerned \ torn, NEW s \in saves', Results!SaveKey(s) = c
        PROVE  s.at = "begun" /\ (dir'[s.exec][s.node] # None => dir'[s.exec][s.node].born >= removals)
    <3>1. s \in saves => s.at = "begun" /\ (dir[s.exec][s.node] # None => dir[s.exec][s.node].born >= removals)
      BY <2>1 DEF Alone
    <3>2. s.at = "begun"
      BY <3>1, <1>1, <1>5
    <3>3. CASE s.exec = e /\ s.node = n
      <4>1. dir'[s.exec][s.node] = made
        BY <3>3, <1>19
      <4> QED  BY <4>1, <3>2, <1>4, <1>8
    <3>4. CASE s.exec # e \/ s.node # n
      <4>1. s # new
        BY <3>4, <1>5
      <4> QED  BY <4>1, <3>1, <3>2, <3>4, <1>18
    <3> QED  BY <3>3, <3>4
  <2>2. \A f \in Executions, m \in Nodes : step'[f][m] = "found" => step[f][m] = "found"
    BY <1>3
  <2> QED  BY <1>1, <2>1, <2>2, KeysStay DEF Alone, Results!Concerned, Results!At
<1>17. RowsBacked' /\ LookupsBacked'
  <2>1. \A f \in Executions, m \in Nodes : step'[f][m] = "found" => step[f][m] = "found"
    BY <1>3
  <2> QED  BY <1>1, <2>1, KeysStay DEF RowsBacked, SweptKey, LookupsBacked, Results!At
<1>20. HitsExplained'
  <2> SUFFICES ASSUME NEW f \in Executions, NEW m \in Nodes, f \notin over, step'[f][m] = "hit"
               PROVE  Results!HitExplained(f, m)'
    BY <1>1 DEF HitsExplained, Results!HitsExplained, Results!At
  <2>1. (f # e \/ m # n) /\ step[f][m] = "hit" /\ result'[f][m] = result[f][m]
    BY <1>1, <1>3
  <2>2. \A x \in Nodes : dir'[f][x] = dir[f][x] \/ (x # m /\ dir'[f][x] # None)
    BY <2>1, <1>4, <1>6
  <2> QED  BY <1>1, <1>11, <1>12, <2>1, <2>2, HitStays
<1> QED  BY <1>10, <1>11, <1>13, <1>14, <1>15, <1>16, <1>17, <1>20

\* An execution that has ended asks for nothing; what it began to save may be gone.
LEMMA EndsKeeps == ASSUME ResultInv, NEW e \in Executions, Results!Ends(e) PROVE ResultInv'
<1> USE DEF ResultInv
<1>1. /\ e \notin over /\ over' = over \union {e}
      /\ dir' = [dir EXCEPT ![e] = dir'[e]] /\ dir'[e] \in {dir[e], Results!NoFiles}
      /\ step' = [step EXCEPT ![e] = Results!Unvisited(e)]
      /\ result' = [result EXCEPT ![e] = Results!NoFiles]
      /\ UNCHANGED <<history, entry, stored, saves, removal, removals, cleared, torn>>
  BY DEF Results!Ends, ResultTypes
<1>2. \A m \in Nodes : Results!KeyOf(e, m) \in CacheKeys \union {None}
  BY ConstantsOfResults DEF ResultTypes, Results!KeyOf
<1>3. /\ step' \in [Executions -> [Nodes -> Steps]]
      /\ \A m \in Nodes : step'[e][m] \in {"absent", "waiting"}
      /\ \A m \in Nodes : step'[e][m] # "absent" => Results!KeyOf(e, m) \in CacheKeys
      /\ \A f \in Executions \ {e} : step'[f] = step[f]
  <2>1. /\ Results!Unvisited(e) \in [Nodes -> Steps]
        /\ \A m \in Nodes : /\ Results!Unvisited(e)[m] \in {"absent", "waiting"}
                            /\ Results!Unvisited(e)[m] # "absent" => Results!KeyOf(e, m) # None
    BY DEF Results!Unvisited, Steps, Results!KeyOf
  <2>2. step \in [Executions -> [Nodes -> Steps]]
    BY DEF ResultTypes, Steps
  <2> QED  BY <1>1, <1>2, <2>1, <2>2
<1>4. /\ dir' \in [Executions -> [Nodes -> Results!Files \union {None}]]
      /\ result' \in [Executions -> [Nodes -> Hits \union {None}]]
      /\ \A f \in Executions \ {e} : dir'[f] = dir[f] /\ result'[f] = result[f]
      /\ \A m \in Nodes : dir'[e][m] = dir[e][m] \/ dir'[e][m] = None
  BY <1>1 DEF ResultTypes, Results!NoFiles
<1>5. \A f \in Executions, m \in Nodes : dir'[f][m] = dir[f][m] \/ (f = e /\ dir'[f][m] = None)
  BY <1>4
<1>6. ResultTypes'
  <2>1. \A f \in Executions, m \in Nodes :
          /\ step'[f][m] # "absent" => Results!KeyOf(f, m) \in CacheKeys
          /\ step'[f][m] \in {"found", "hit"} => result'[f][m] \in Hits
    BY ZenonT(40), <1>3, <1>4 DEF ResultTypes
  <2> QED  BY <1>1, <1>3, <1>4, <2>1, KeysStay DEF ResultTypes, Steps
<1>7. Labelled'
  BY <1>1, <1>5, KeysStay DEF Labelled
<1>8. Onward
  BY <1>1, <1>3 DEF Onward
<1>9. Brought'
  <2>1. \A f \in Executions \ over', m \in Nodes : step'[f][m] = step[f][m] /\ dir'[f][m] = dir[f][m]
    BY <1>1, <1>3, <1>4
  <2> QED  BY <1>1, <1>8, <2>1, BroughtKept
<1>10. \A s \in saves : \/ dir'[s.exec][s.node] = dir[s.exec][s.node]
                        \/ s.exec = e /\ dir'[s.exec][s.node] = None
  BY <1>5 DEF ResultTypes, Saves
<1>11. SavesOwn' /\ SavesCopied'
  BY <1>1, <1>10, KeysStay DEF SavesOwn, SavesCopied
<1>12. \A f \in Executions, m \in Nodes :
         f \notin over' /\ step'[f][m] \in {"found", "hit"} =>
             f # e /\ f \notin over /\ step[f][m] = step'[f][m] /\ result'[f][m] = result[f][m]
  BY <1>1, <1>3, <1>4
<1>13. Alone'
  BY <1>1, <1>10, <1>12, KeysStay DEF Alone, Results!Concerned, Results!At
<1>14. RowsBacked'
  BY <1>1 DEF RowsBacked, SweptKey
<1>15. LookupsBacked'
  BY <1>1, <1>12, KeysStay DEF LookupsBacked, Results!At
<1>16. HitsExplained'
  <2> SUFFICES ASSUME NEW f \in Executions, NEW m \in Nodes, f \notin over', step'[f][m] = "hit"
               PROVE  Results!HitExplained(f, m)'
    BY DEF HitsExplained, Results!HitsExplained, Results!At
  <2>1. f # e /\ f \notin over /\ step[f][m] = "hit" /\ result'[f][m] = result[f][m]
    BY <1>12
  <2>2. \A x \in Nodes : dir'[f][x] = dir[f][x]
    BY <2>1, <1>4
  <2> QED  BY <1>1, <1>7, <1>8, <2>1, <2>2, HitStays
<1> QED  BY <1>6, <1>7, <1>9, <1>11, <1>13, <1>14, <1>15, <1>16

-----------------------------------------------------------------------------
(* Saves and removals *)

LEMMA AsideKeeps ==
    ASSUME ResultInv, UNCHANGED <<history, over, step, result, dir>>, torn \subseteq torn', Labelled'
    PROVE  Brought' /\ HitsExplained'
<1>1. Onward
  BY DEF Onward
<1>2. Brought'
  BY <1>1, BroughtKept
<1>3. HitsExplained'
  <2> SUFFICES ASSUME NEW f \in Executions, NEW m \in Nodes, f \notin over, step[f][m] = "hit"
               PROVE  Results!HitExplained(f, m)'
    BY DEF HitsExplained, Results!HitsExplained, Results!At
  <2> QED  BY <1>1, HitStays
<1> QED  BY <1>2, <1>3

LEMMA CopiesBackKeeps == ASSUME ResultInv, NEW s \in saves, Results!CopiesBack(s) PROVE ResultInv'
<1> USE DEF ResultInv
<1> DEFINE k == Results!SaveKey(s)
           file == dir[s.exec][s.node]
           new == [s EXCEPT !.at = "copied", !.late = file = None]
<1>1. /\ s.at = "begun"
      /\ entry' = IF file = None THEN entry ELSE [entry EXCEPT ![k][s.node] = file]
      /\ saves' = (saves \ {s}) \union {new}
      /\ torn' = IF removal # None /\ k \in Results!Concerned THEN torn \union {k} ELSE torn
      /\ UNCHANGED <<history, over, step, result, dir, stored, removal, removals, cleared>>
  BY DEF Results!CopiesBack, Results!Overlaps
<1>2. s \in Saves /\ k \in CacheKeys /\ s.exec \in Executions /\ s.node \in Nodes
  BY DEF ResultTypes, Saves
<1>3. /\ new \in Saves /\ new.at = "copied" /\ new.node = s.node /\ new.exec = s.exec
      /\ (new.late <=> file = None) /\ Results!SaveKey(new) = k
  BY <1>2 DEF Saves, Results!SaveKey
<1>4. file \in Results!Files \union {None}
  BY <1>2 DEF ResultTypes
<1>5. file # None => file.key = k /\ (k \notin torn => file.born >= cleared[k])
  BY <1>1 DEF SavesOwn
<1>6. Results!Once(s.node, k)
  BY <1>2 DEF Results!Once, Results!SaveKey
<1>7. torn \subseteq torn'
  BY <1>1
<1> HIDE DEF k, file, new
<1>8. /\ entry' \in [CacheKeys -> [Nodes -> Results!Files \union {None}]]
      /\ \A c \in CacheKeys, m \in Nodes :
           entry'[c][m] = IF file # None /\ c = k /\ m = s.node THEN file ELSE entry[c][m]
  <2>1. entry \in [CacheKeys -> [Nodes -> Results!Files \union {None}]]
    BY DEF ResultTypes
  <2> QED  BY <1>1, <1>2, <1>4, <2>1
<1>9. \A t \in saves' : t # new => t \in saves
  BY <1>1
<1>10. ResultTypes'
  <2>1. saves' \subseteq Saves /\ \A t \in saves' : Results!SaveKey(t) \in CacheKeys
    BY <1>2, <1>3, <1>9 DEF ResultTypes
  <2> QED  BY <1>1, <1>8, <2>1, KeysStay DEF ResultTypes
<1>11. Labelled'
  <2>1. \A c \in CacheKeys, m \in Nodes : entry'[c][m] # None => entry'[c][m].key = c /\ Results!Once(m, c)
    BY <1>5, <1>6, <1>8 DEF Labelled
  <2> QED  BY <1>1, <2>1, KeysStay DEF Labelled
<1>12. Brought' /\ HitsExplained'
  BY <1>1, <1>7, <1>11, AsideKeeps
<1>13. SavesOwn'
  <2>1. \A t \in saves' : t.at = "begun" => t \in saves
    BY <1>3, <1>9
  <2> QED  BY <1>1, <1>7, <2>1, KeysStay DEF SavesOwn
<1>14. SavesCopied'
  <2>1. ASSUME NEW t \in saves', t.at = "copied", ~t.late, Results!SaveKey(t) \notin torn'
        PROVE  /\ entry'[Results!SaveKey(t)][t.node] # None
               /\ entry'[Results!SaveKey(t)][t.node].born >= cleared[Results!SaveKey(t)]
    <3> DEFINE c == Results!SaveKey(t)
    <3>1. c \in CacheKeys /\ t.node \in Nodes /\ c \notin torn
      BY <2>1, <1>2, <1>3, <1>7, <1>9 DEF ResultTypes, Saves
    <3>2. t # new => entry[c][t.node] # None /\ entry[c][t.node].born >= cleared[c]
      BY <2>1, <3>1, <1>9 DEF SavesCopied
    <3>3. t = new => c = k /\ t.node = s.node /\ file # None
      BY <2>1, <1>3
    <3> HIDE DEF c
    <3>4. entry'[c][t.node] # None /\ entry'[c][t.node].born >= cleared[c]
      BY <3>1, <3>2, <3>3, <1>5, <1>8
    <3> QED  BY <3>4 DEF c
  <2> QED  BY <1>1, <2>1, KeysStay DEF SavesCopied
<1>15. Alone'
  <2>1. removal # None => k \notin Results!Concerned \ torn'
    BY <1>1
  <2>2. \A t \in saves' : removal # None /\ Results!SaveKey(t) \in Results!Concerned \ torn' => t \in saves
    BY <2>1, <1>3, <1>9
  <2> QED  BY <1>1, <1>7, <2>2, KeysStay DEF Alone, Results!Concerned, Results!At
<1>16. RowsBacked'
  <2>1. ASSUME NEW c \in CacheKeys \ torn', stored[c] # None, ~stored[c].late
        PROVE  LET f == entry'[c][stored[c].file]
               IN  (f # None \/ SweptKey(c)) /\ (f # None => f.born >= cleared[c])
    <3> DEFINE m == stored[c].file
    <3>1. m \in Nodes /\ c \notin torn
      BY <2>1, <1>7 DEF ResultTypes, StoredRows
    <3>2. (entry[c][m] # None \/ SweptKey(c)) /\ (entry[c][m] # None => entry[c][m].born >= cleared[c])
      BY <2>1, <3>1 DEF RowsBacked
    <3> HIDE DEF m
    <3>3. (entry'[c][m] # None \/ SweptKey(c)) /\ (entry'[c][m] # None => entry'[c][m].born >= cleared[c])
      BY <3>1, <3>2, <1>5, <1>8
    <3> QED  BY <3>3 DEF m
  <2> QED  BY <1>1, <2>1 DEF RowsBacked, SweptKey
<1>17. LookupsBacked'
  <2>1. ASSUME NEW e \in Executions, NEW n \in Nodes, Results!At(e, n, "found")
        PROVE  LET c == Results!KeyOf(e, n)
                   hit == result[e][n]
                   f == entry'[c][hit.file]
               IN  /\ hit.since <= cleared[c]
                   /\ ~hit.late /\ c \notin torn' => f # None /\ f.born >= hit.since
    <3> DEFINE c == Results!KeyOf(e, n)
               hit == result[e][n]
               m == hit.file
    <3>1. c \in CacheKeys /\ m \in Nodes /\ hit.since \in Nat /\ cleared[c] \in Nat
      BY <2>1 DEF ResultTypes, Hits, Results!At
    <3>2. /\ hit.since <= cleared[c]
          /\ ~hit.late /\ c \notin torn => entry[c][m] # None /\ entry[c][m].born >= hit.since
      BY <2>1 DEF LookupsBacked
    <3>3. file # None => file.born \in Nat
      BY <1>4 DEF Results!Files
    <3> HIDE DEF c, m, hit
    <3>4. ~hit.late /\ c \notin torn' => entry'[c][m] # None /\ entry'[c][m].born >= hit.since
      <4> SUFFICES ASSUME ~hit.late, c \notin torn' PROVE entry'[c][m] # None /\ entry'[c][m].born >= hit.since
        OBVIOUS
      <4>1. CASE file # None /\ c = k /\ m = s.node
        BY <4>1, <3>1, <3>2, <3>3, <1>5, <1>7, <1>8
      <4>2. CASE ~(file # None /\ c = k /\ m = s.node)
        BY <4>2, <3>1, <3>2, <1>7, <1>8
      <4> QED  BY <4>1, <4>2
    <3> QED  BY <3>2, <3>4 DEF c, m, hit
  <2> QED  BY <1>1, <2>1, KeysStay DEF LookupsBacked, Results!At
<1> QED  BY <1>10, <1>11, <1>12, <1>13, <1>14, <1>15, <1>16, <1>17

LEMMA StoresKeeps == ASSUME ResultInv, NEW s \in saves, Results!Stores(s) PROVE ResultInv'
<1> USE DEF ResultInv
<1> DEFINE k == Results!SaveKey(s)
           row1 == [file |-> s.node, expired |-> FALSE, late |-> s.late]
<1>1. /\ s.at = "copied" /\ stored' = [stored EXCEPT ![k] = row1] /\ saves' = saves \ {s}
      /\ UNCHANGED <<history, over, step, result, dir, entry, removal, removals, cleared, torn>>
  BY DEF Results!Stores
<1>2. k \in CacheKeys /\ row1 \in StoredRows /\ row1.file = s.node /\ row1.late = s.late
  BY DEF ResultTypes, Saves, StoredRows
<1>3. /\ stored' \in [CacheKeys -> StoredRows \union {None}] /\ stored'[k] = row1
      /\ \A c \in CacheKeys \ {k} : stored'[c] = stored[c]
  <2> HIDE DEF row1
  <2> QED  BY <1>1, <1>2 DEF ResultTypes
<1> HIDE DEF row1
<1>4. ResultTypes' /\ Labelled'
  BY <1>1, <1>3, KeysStay DEF ResultTypes, Labelled
<1>5. Brought' /\ HitsExplained'
  BY <1>1, <1>4, AsideKeeps
<1>6. SavesOwn' /\ SavesCopied' /\ LookupsBacked'
  BY <1>1, KeysStay DEF SavesOwn, SavesCopied, LookupsBacked, Results!At
<1>7. Alone'
  <2>1. removal # None => k \notin Results!Concerned \ torn
    BY <1>1 DEF Alone
  <2>2. removal # None /\ removal.expiredOnly =>
          \A c \in removal.keys \ torn : c \in CacheKeys \ {k}
    BY <2>1 DEF Results!Concerned, ResultTypes, Results!Removals
  <2> HIDE DEF k
  <2> QED  BY <1>1, <1>3, <2>2, KeysStay DEF Alone, Results!Concerned, Results!At
<1>8. RowsBacked'
  <2>1. k \notin torn /\ ~s.late => entry[k][s.node] # None /\ entry[k][s.node].born >= cleared[k]
    BY <1>1 DEF SavesCopied
  <2> HIDE DEF k
  <2> QED  BY <1>1, <1>2, <1>3, <2>1 DEF RowsBacked, SweptKey
<1> QED  BY <1>4, <1>5, <1>6, <1>7, <1>8

LEMMA SaveFailsKeeps == ASSUME ResultInv, NEW s \in saves, Results!SaveFails(s) PROVE ResultInv'
<1> USE DEF ResultInv
<1>1. /\ saves' = saves \ {s}
      /\ UNCHANGED <<history, over, step, result, dir, entry, stored, removal, removals, cleared, torn>>
  BY DEF Results!SaveFails
<1>2. ResultTypes' /\ Labelled'
  BY <1>1, KeysStay DEF ResultTypes, Labelled
<1>3. Brought' /\ HitsExplained'
  BY <1>1, <1>2, AsideKeeps
<1>4. SavesOwn' /\ SavesCopied' /\ LookupsBacked' /\ RowsBacked'
  BY <1>1, KeysStay DEF SavesOwn, SavesCopied, LookupsBacked, RowsBacked, SweptKey, Results!At
<1>5. Alone'
  BY <1>1, KeysStay DEF Alone, Results!Concerned, Results!At
<1> QED  BY <1>2, <1>3, <1>4, <1>5

LEMMA ExpiresKeeps == ASSUME ResultInv, NEW k \in CacheKeys, Results!Expires(k) PROVE ResultInv'
<1> USE DEF ResultInv
<1>1. /\ stored[k] # None /\ stored' = [stored EXCEPT ![k].expired = TRUE]
      /\ UNCHANGED <<history, over, step, result, dir, entry, saves, removal, removals, cleared, torn>>
  BY DEF Results!Expires, Results!Valid
<1>2. stored[k] \in StoredRows /\ stored \in [CacheKeys -> StoredRows \union {None}]
  BY <1>1 DEF ResultTypes
<1>3. /\ stored' \in [CacheKeys -> StoredRows \union {None}]
      /\ stored'[k].expired = TRUE /\ stored'[k].file = stored[k].file /\ stored'[k].late = stored[k].late
      /\ \A c \in CacheKeys \ {k} : stored'[c] = stored[c]
  BY <1>1, <1>2 DEF StoredRows
<1>5. ResultTypes' /\ Labelled'
  BY <1>1, <1>3, KeysStay DEF ResultTypes, Labelled
<1>6. Brought' /\ HitsExplained'
  BY <1>1, <1>5, AsideKeeps
<1>7. SavesOwn' /\ SavesCopied' /\ LookupsBacked'
  BY <1>1, KeysStay DEF SavesOwn, SavesCopied, LookupsBacked, Results!At
<1>8. RowsBacked'
  BY <1>1, <1>3 DEF RowsBacked, SweptKey
<1>9. Alone'
  BY <1>1, <1>3, KeysStay DEF Alone, Results!Concerned, Results!At
<1> QED  BY <1>5, <1>6, <1>7, <1>8, <1>9

LEMMA SelectsKeeps ==
    ASSUME ResultInv, removal = None, NEW filter \in SUBSET CacheKeys, NEW expiredOnly \in BOOLEAN,
           Results!Selects(filter, expiredOnly), removals' = removals + 1,
           UNCHANGED <<history, over, step, result, dir, entry, stored, saves, cleared>>
    PROVE  ResultInv'
<1> USE DEF ResultInv
<1> DEFINE keys == {k \in filter : stored[k] # None /\ (expiredOnly => stored[k].expired)}
           begun == [at |-> "selected", filter |-> filter, keys |-> keys, expiredOnly |-> expiredOnly]
           concerned == IF expiredOnly THEN keys ELSE filter
<1>1. /\ removal' = begun
      /\ torn' = torn \union {k \in concerned : Results!UnderWay(k)}
  BY DEF Results!Selects, Results!Concerned
<1>2. /\ begun \in Results!Removals /\ begun.filter = filter /\ begun.keys = keys /\ begun.at = "selected"
      /\ begun.expiredOnly = expiredOnly
  BY DEF Results!Removals
<1>3. keys \subseteq filter /\ \A k \in keys : expiredOnly => stored[k].expired
  OBVIOUS
<1>4. torn \subseteq torn'
  BY <1>1
<1>5. removals \in Nat /\ \A k \in CacheKeys : cleared[k] \in Nat /\ cleared[k] <= removals'
  BY DEF ResultTypes
<1>6. ResultTypes' /\ Labelled'
  <2> HIDE DEF begun
  <2>1. removal' \in Results!Removals
    BY <1>1, <1>2
  <2> QED  BY <1>5, <2>1, KeysStay DEF ResultTypes, Labelled
<1>7. Brought' /\ HitsExplained'
  BY <1>4, <1>6, AsideKeeps
<1>8. SavesOwn' /\ SavesCopied' /\ LookupsBacked'
  BY <1>4, KeysStay DEF SavesOwn, SavesCopied, LookupsBacked, Results!At
<1>9. RowsBacked'
  BY <1>4 DEF RowsBacked, SweptKey
<1>10. Alone'
  <2>1. \A k \in concerned \ torn' :
          /\ \A e \in Executions, n \in Nodes : Results!At(e, n, "found") => Results!KeyOf(e, n) # k
          /\ \A s \in saves : Results!SaveKey(s) # k
    BY <1>1 DEF Results!UnderWay
  <2>2. removal'.expiredOnly = expiredOnly /\ removal'.keys = keys /\ removal'.filter = filter
    BY <1>1, <1>2
  <2>3. Results!Concerned' = concerned
    BY <2>2 DEF Results!Concerned
  <2> HIDE DEF keys, concerned, begun
  <2> QED  BY <1>3, <2>1, <2>2, <2>3, KeysStay DEF Alone, Results!At
<1> QED  BY <1>6, <1>7, <1>8, <1>9, <1>10

LEMMA BeginsKeeps == ASSUME ResultInv, Results!Begins PROVE ResultInv'
<1>1. /\ removal = None /\ removals' = removals + 1
      /\ UNCHANGED <<history, over, step, result, dir, entry, stored, saves, cleared>>
  BY DEF Results!Begins
<1>2. \E filter \in SUBSET CacheKeys, expiredOnly \in BOOLEAN : Results!Selects(filter, expiredOnly)
  BY DEF Results!Begins
<1> QED  BY <1>1, <1>2, SelectsKeeps

LEMMA RemovesFilesKeeps == ASSUME ResultInv, Results!RemovesFiles PROVE ResultInv'
<1> USE DEF ResultInv
<1>1. /\ removal # None /\ removal.at = "selected" /\ removal' = [removal EXCEPT !.at = "swept"]
      /\ entry' = [k \in CacheKeys |-> IF k \in removal.keys THEN Results!NoFiles ELSE entry[k]]
      /\ UNCHANGED <<history, over, step, result, dir, stored, saves, removals, cleared, torn>>
  BY DEF Results!RemovesFiles
<1>2. /\ removal' \in Results!Removals /\ removal'.at = "swept" /\ removal'.keys = removal.keys
      /\ removal'.filter = removal.filter /\ removal'.expiredOnly = removal.expiredOnly
      /\ removal.keys \subseteq CacheKeys
  BY <1>1 DEF ResultTypes, Results!Removals
<1>3. \A k \in CacheKeys, m \in Nodes :
        entry'[k][m] = IF k \in removal.keys THEN None ELSE entry[k][m]
  BY <1>1 DEF Results!NoFiles
<1>4. entry' \in [CacheKeys -> [Nodes -> Results!Files \union {None}]]
  BY <1>1 DEF ResultTypes, Results!NoFiles
<1>5. removal.keys \subseteq Results!Concerned
  BY <1>1 DEF Alone, Results!Concerned
<1>6. ResultTypes'
  BY <1>1, <1>2, <1>4, KeysStay DEF ResultTypes
<1>7. Labelled'
  BY <1>1, <1>3, KeysStay DEF Labelled
<1>8. Brought' /\ HitsExplained'
  BY <1>1, <1>7, AsideKeeps
<1>9. SavesOwn'
  BY <1>1, KeysStay DEF SavesOwn
<1>10. SavesCopied'
  <2>1. ASSUME NEW s \in saves, s.at = "copied", Results!SaveKey(s) \notin torn
        PROVE  entry'[Results!SaveKey(s)][s.node] = entry[Results!SaveKey(s)][s.node]
    <3>1. Results!SaveKey(s) \notin removal.keys
      BY <2>1, <1>1, <1>5 DEF Alone
    <3> QED  BY <3>1, <1>3 DEF ResultTypes, Saves
  <2> QED  BY <1>1, <2>1, KeysStay DEF SavesCopied
<1>11. RowsBacked'
  <2>1. ASSUME NEW k \in CacheKeys \ torn, stored[k] # None, ~stored[k].late
        PROVE  LET file == entry'[k][stored[k].file]
               IN  /\ file # None \/ k \in removal.keys
                   /\ file # None => file.born >= cleared[k]
    BY <2>1, <1>1, <1>3 DEF RowsBacked, SweptKey, ResultTypes, StoredRows
  <2>2. removal' # None
    BY <1>2, ConstantsOfResults
  <2> QED  BY <1>1, <1>2, <2>1, <2>2 DEF RowsBacked, SweptKey
<1>12. LookupsBacked'
  <2>1. ASSUME NEW e \in Executions, NEW n \in Nodes, Results!At(e, n, "found"), Results!KeyOf(e, n) \notin torn
        PROVE  \A m \in Nodes : entry'[Results!KeyOf(e, n)][m] = entry[Results!KeyOf(e, n)][m]
    <3>1. Results!KeyOf(e, n) \notin removal.keys
      BY <2>1, <1>1, <1>5 DEF Alone
    <3> QED  BY <2>1, <3>1, <1>3 DEF ResultTypes, Results!At
  <2>2. \A e \in Executions, n \in Nodes : Results!At(e, n, "found") => result[e][n].file \in Nodes
    BY DEF ResultTypes, Hits, Results!At
  <2> QED  BY <1>1, <2>1, <2>2, KeysStay DEF LookupsBacked, Results!At
<1>13. Alone'
  <2>1. Results!Concerned' = Results!Concerned
    BY <1>2 DEF Results!Concerned
  <2> QED  BY <1>1, <1>2, <2>1, KeysStay DEF Alone, Results!At
<1> QED  BY <1>6, <1>7, <1>8, <1>9, <1>10, <1>11, <1>12, <1>13

LEMMA DeletesRowsKeeps == ASSUME ResultInv, Results!DeletesRows PROVE ResultInv'
<1> USE DEF ResultInv
<1>1. /\ removal # None /\ removal.at = "swept" /\ removal' = None
      /\ stored' = [k \in CacheKeys |-> IF Results!Doomed(k) THEN None ELSE stored[k]]
      /\ cleared' = IF removal.expiredOnly THEN cleared
                    ELSE [k \in CacheKeys |-> IF k \in removal.filter THEN removals ELSE cleared[k]]
      /\ UNCHANGED <<history, over, step, result, dir, entry, saves, removals, torn>>
  BY DEF Results!DeletesRows
<1>2. /\ cleared' \in [CacheKeys -> Nat]
      /\ \A k \in CacheKeys : /\ cleared[k] <= cleared'[k] /\ cleared'[k] <= removals
                              /\ cleared'[k] = removals \/ cleared'[k] = cleared[k]
                              /\ k \notin Results!Concerned \/ removal.expiredOnly => cleared'[k] = cleared[k]
  BY <1>1 DEF ResultTypes, Results!Concerned
<1>3. stored' \in [CacheKeys -> StoredRows \union {None}]
  BY <1>1 DEF ResultTypes
<1>4. removal.keys \subseteq Results!Concerned
  BY <1>1 DEF Alone, Results!Concerned
<1>5. ResultTypes' /\ Labelled'
  BY <1>1, <1>2, <1>3, KeysStay DEF ResultTypes, Labelled
<1>6. Brought' /\ HitsExplained'
  BY <1>1, <1>5, AsideKeeps
<1>7. SavesOwn'
  <2>1. ASSUME NEW s \in saves, s.at = "begun", dir[s.exec][s.node] # None, Results!SaveKey(s) \notin torn
        PROVE  dir[s.exec][s.node].born >= cleared'[Results!SaveKey(s)]
    <3> DEFINE k == Results!SaveKey(s)
    <3>1. k \in CacheKeys /\ dir[s.exec][s.node].born >= cleared[k]
      BY <2>1 DEF SavesOwn, ResultTypes
    <3>2. k \in Results!Concerned => dir[s.exec][s.node].born >= removals
      BY <2>1, <1>1 DEF Alone
    <3> HIDE DEF k
    <3>3. dir[s.exec][s.node].born >= cleared'[k]
      BY <3>1, <3>2, <1>2
    <3> QED  BY <3>3 DEF k
  <2> QED  BY <1>1, <2>1, KeysStay DEF SavesOwn
<1>8. SavesCopied'
  <2>1. ASSUME NEW s \in saves, s.at = "copied", Results!SaveKey(s) \notin torn
        PROVE  cleared'[Results!SaveKey(s)] = cleared[Results!SaveKey(s)]
    BY <2>1, <1>1, <1>2 DEF Alone, ResultTypes
  <2> QED  BY <1>1, <2>1, KeysStay DEF SavesCopied
<1>9. Alone'
  BY <1>1 DEF Alone
<1>10. RowsBacked'
  <2>1. ASSUME NEW k \in CacheKeys \ torn, stored'[k] # None
        PROVE  stored'[k] = stored[k] /\ cleared'[k] = cleared[k] /\ ~SweptKey(k)
    <3>1. stored'[k] = stored[k] /\ ~Results!Doomed(k)
      BY <2>1, <1>1
    <3>2. k \notin removal.filter \/ (removal.expiredOnly /\ ~stored[k].expired)
      BY <2>1, <3>1 DEF Results!Doomed
    <3>3. k \notin removal.keys
      BY <2>1, <3>1, <3>2, <1>1 DEF Alone
    <3>4. cleared'[k] = cleared[k]
      BY <3>2, <1>1
    <3> QED  BY <3>1, <3>3, <3>4 DEF SweptKey
  <2> QED  BY <1>1, <2>1 DEF RowsBacked, SweptKey
<1>11. LookupsBacked'
  <2>1. \A e \in Executions, n \in Nodes : Results!At(e, n, "found") =>
          /\ Results!KeyOf(e, n) \in CacheKeys
          /\ result[e][n].since \in Nat /\ cleared[Results!KeyOf(e, n)] \in Nat
    BY DEF ResultTypes, Hits, Results!At
  <2>2. \A e \in Executions, n \in Nodes : Results!At(e, n, "found") =>
          result[e][n].since <= cleared'[Results!KeyOf(e, n)]
    BY <2>1, <1>2 DEF LookupsBacked
  <2> QED  BY <1>1, <2>2, KeysStay DEF LookupsBacked, Results!At
<1> QED  BY <1>5, <1>6, <1>7, <1>8, <1>9, <1>10, <1>11

LEMMA ResultsKeep == ResultInv /\ [Results!Next]_cacheVars => ResultInv'
<1> SUFFICES ASSUME ResultInv, [Results!Next]_cacheVars PROVE ResultInv'
  OBVIOUS
<1>1. CASE UNCHANGED cacheVars
  <2>1. UNCHANGED <<history, over, step, result, dir, entry, stored, saves, removal, removals, cleared, torn>>
    BY <1>1 DEF cacheVars
  <2>2. ResultTypes' /\ Labelled'
    BY <2>1, KeysStay DEF ResultInv, ResultTypes, Labelled
  <2>3. Brought' /\ HitsExplained'
    BY <2>1, <2>2, AsideKeeps
  <2> QED
    BY <2>1, <2>2, <2>3, KeysStay
    DEF ResultInv, SavesOwn, SavesCopied, Alone, RowsBacked, LookupsBacked, SweptKey, Results!At, Results!Concerned
<1>2. CASE Results!Next
  <2>1. ASSUME NEW e \in Executions, NEW n \in Nodes, Results!Node(e, n) PROVE ResultInv'
    BY <2>1, FindsKeeps, GivingUpKeeps, CopiesKeeps, RunsKeeps DEF Results!Node
  <2>2. ASSUME NEW s \in saves, Results!Save(s) PROVE ResultInv'
    BY <2>2, CopiesBackKeeps, StoresKeeps, SaveFailsKeeps DEF Results!Save
  <2>3. CASE Results!Removal
    BY <2>3, BeginsKeeps, RemovesFilesKeeps, DeletesRowsKeeps DEF Results!Removal
  <2> QED  BY <1>2, <2>1, <2>2, <2>3, EndsKeeps, ExpiresKeeps DEF Results!Next
<1> QED  BY <1>1, <1>2

\* What ExtractCacheService gives a node in place of an extraction is the result
\* of its configuration, and after an invalidation no older one, but for the
\* reasons that HitExplained names: for every number of executions, nodes, keys,
\* removals and edits of the workflow (extract_cache_service.py, dynamic_runner.py).
THEOREM CacheHitsAreExplained == NodesSpec => []HitsExplained
<1>1. NodesInit => ResultInv
  BY ResultsStart DEF NodesInit
<1>2. ResultInv /\ [NodesNext]_<<part, vars, loadVars, job, out, cacheVars>> => ResultInv'
  <2>1. [NodesNext]_<<part, vars, loadVars, job, out, cacheVars>> => [Results!Next]_cacheVars
    BY DEF NodesNext
  <2> QED  BY <2>1, ResultsKeep
<1>3. ResultInv => HitsExplained
  BY DEF ResultInv
<1> QED  BY <1>1, <1>2, <1>3, PTL DEF NodesSpec

-----------------------------------------------------------------------------
(* Loads to a table *)

LoadWorks(a) == pc[a] \notin {"idle", "raised", "error"}
SameKey(q, r) == setup.key[q] = setup.key[r]

\* What the place of an attempt tells of its call; one that has not begun has left no trace.
AttemptFits(a) ==
    /\ pc[a] = "idle" <=> a > current
    /\ a > current =>
         /\ next[a] = 1 /\ ~redone[a] /\ ok[a] = {} /\ failed[a] = {} /\ dropped[a] = {}
         /\ table[a] = Loads!Nothing
    /\ pc[a] \notin {"dlt", "batch", "rows"} => todo[a] = {}
    /\ pc[a] \notin {"rows", "commit"} => wrote[a] = Loads!Nothing
    /\ Loads!Upserts => pc[a] \notin {"dlt", "batch", "commit"}

\* Each row that has been read is in one of the lists or still to be written, and what is
\* reported of an append is in the table or in the open transaction.
ListsFit(a) ==
    LoadWorks(a) =>
        /\ ok[a] \union failed[a] \union dropped[a] \union todo[a] = 1..(next[a] - 1)
        /\ ok[a] \intersect failed[a] = {} /\ todo[a] \intersect (ok[a] \union failed[a]) = {}
        /\ dropped[a] \intersect (ok[a] \union failed[a] \union todo[a]) = {}
        /\ \A r \in dropped[a] :
             \E q \in ok[a] \union failed[a] \union todo[a] : q < r /\ SameKey(q, r)
        /\ Loads!Appends /\ ~redone[a] =>
             \A r \in Loads!Rows : table[a][r] + wrote[a][r] = IF r \in ok[a] THEN 1 ELSE 0

\* What an upsert has inserted it has changed.  A key that it has looked for and not found it
\* has not changed since; without an index nobody has brought it while attempts do not overlap.
UpsertFits(a) ==
    /\ pc[a] # "rows" => changed[a] = {}
    /\ Loads!Upserts => \A r \in Loads!Rows : wrote[a][r] > 0 => r \in changed[a]
    /\ found[a] # "asks" => pc[a] = "rows" /\ todo[a] # {}
    /\ found[a] = "absent" =>
         /\ \A r \in changed[a] : ~SameKey(r, Loads!NextRow(a))
         /\ ~setup.indexed /\ ~overlapped =>
              \A b \in Loads!Attempts, r \in Loads!Rows : table[b][r] > 0 => ~SameKey(r, Loads!NextRow(a))

Resting == {"idle", "raised", "error", "done"}
OneWorks == ~overlapped => \A a \in Loads!Attempts : a # current => pc[a] \in Resting

\* Of the rows with one key there is one in the target and the open transactions together.
Holds(a, r) == table[a][r] > 0 \/ wrote[a][r] > 0
KeysOnce ==
    Loads!Upserts /\ (setup.indexed \/ ~overlapped) =>
        \A b, c \in Loads!Attempts : \A q, r \in Loads!Rows :
            Holds(b, q) /\ Holds(c, r) /\ SameKey(q, r) => b = c /\ q = r

\* The rows of a first attempt are written in their order: what is committed lies before what
\* the open transaction has changed, and that before what is still to be written.
Saved(a) == ok[a] \ changed[a]
LatestInv ==
    Loads!Upserts /\ current = 1 /\ LoadWorks(1) =>
        /\ changed[1] \subseteq ok[1]
        /\ \A r \in ok[1] : \A t \in todo[1] : r < t
        /\ \A r \in Saved(1) : \A t \in changed[1] : r < t
        /\ \A r \in Saved(1) :
             value[setup.key[r]] = r <=> \A q \in Saved(1) : q > r => ~SameKey(q, r)

LoadInv ==
    /\ Loads!TypeOK /\ \A a \in Loads!Attempts : AttemptFits(a) /\ ListsFit(a) /\ UpsertFits(a)
    /\ OneWorks /\ KeysOnce /\ LatestInv

-----------------------------------------------------------------------------
\* A set of natural numbers has a least element, which is what Min chooses.
LEMMA MinIsLeast ==
    ASSUME NEW S \in SUBSET Nat, S # {}
    PROVE  Loads!Min(S) \in S /\ \A y \in S : Loads!Min(S) <= y
<1> DEFINE R == OpToRel(<, Nat)
<1>1. IsWellFoundedOn(R, Nat)
  BY NatLessThanWellFounded
<1>2. PICK x \in S : \A y \in S : ~(<<y, x>> \in R)
  BY <1>1, WFMin
<1>3. \A y \in S : <<y, x>> \notin R => x <= y
  BY DEF OpToRel
<1>4. \E z \in S : \A y \in S : z <= y
  BY <1>2, <1>3
<1> QED  BY <1>4 DEF Loads!Min

\* And a set of rows has a greatest one, which is what Max chooses.
LEMMA LastIsGreatest ==
    ASSUME NEW S \in SUBSET Loads!Rows, S # {}
    PROVE  Loads!Max(S) \in S /\ \A y \in S : Loads!Max(S) >= y
<1>1. N \in Nat /\ \A y \in S : y \in 1..N
  BY LoadsAssumption DEF Loads!Constants, Loads!Rows
<1> DEFINE T == {N - y : y \in S}
<1>2. T \in SUBSET Nat /\ T # {}
  BY <1>1
<1>3. PICK m \in T : \A z \in T : m <= z
  BY <1>2, MinIsLeast
<1>4. PICK x \in S : m = N - x
  BY <1>3
<1>5. \A y \in S : N - x <= N - y
  BY <1>3, <1>4
<1>6. \A y \in S : x >= y
  BY <1>1, <1>5
<1> QED  BY <1>6 DEF Loads!Max

\* What the constants say of a configuration.
LEMMA ConstantsOfLoads ==
    /\ N \in Nat \ {0} /\ ChunkSize \in Nat \ {0} /\ MaxAttempts \in Nat \ {0} /\ MaxFaults \in Nat
    /\ setup \in Setups =>
         /\ setup.strategy \in {"append_fast", "append_safe", "upsert", "composite"}
         /\ setup.bad \subseteq Loads!Rows
BY LoadsAssumption DEF Loads!Constants, Loads!Strategies

LEMMA KeysOfLoads == ASSUME setup' = setup PROVE Loads!Keys' = Loads!Keys
BY DEF Loads!Keys

LEMMA LoadsStart == Loads!Init => LoadInv
<1> SUFFICES ASSUME Loads!Init PROVE LoadInv
  OBVIOUS
<1>1. Loads!TypeOK
  <2>1. value \in [Loads!Keys -> 0..N]
    BY ConstantsOfLoads DEF Loads!Init
  <2>2. Loads!Nothing \in [Loads!Rows -> Nat]
    BY DEF Loads!Nothing
  <2>3. /\ wrote \in [Loads!Attempts -> [Loads!Rows -> Nat]]
        /\ table \in [Loads!Attempts -> [Loads!Rows -> Nat]]
    BY <2>2 DEF Loads!Init
  <2>4. /\ found \in [Loads!Attempts -> {"asks", "there", "absent"}]
        /\ changed \in [Loads!Attempts -> SUBSET Loads!Rows]
        /\ overlapped \in BOOLEAN
    BY DEF Loads!Init
  <2>5. /\ pc \in [Loads!Attempts -> Loads!Places] /\ next \in [Loads!Attempts -> 1..N + 1]
        /\ todo \in [Loads!Attempts -> SUBSET Loads!Rows]
    BY ConstantsOfLoads DEF Loads!Init, Loads!Places
  <2>6. /\ ok \in [Loads!Attempts -> SUBSET Loads!Rows] /\ failed \in [Loads!Attempts -> SUBSET Loads!Rows]
        /\ dropped \in [Loads!Attempts -> SUBSET Loads!Rows] /\ redone \in [Loads!Attempts -> BOOLEAN]
    BY DEF Loads!Init
  <2>7. setup \in Setups /\ current \in Loads!Attempts /\ faults \in 0..MaxFaults
    BY ConstantsOfLoads DEF Loads!Init, Loads!Attempts
  <2> QED  BY <2>1, <2>3, <2>4, <2>5, <2>6, <2>7 DEF Loads!TypeOK
<1>2. ASSUME NEW a \in Loads!Attempts PROVE AttemptFits(a) /\ ListsFit(a) /\ UpsertFits(a)
  <2>1. (pc[a] = IF a = 1 THEN "read" ELSE "idle") /\ current = 1 /\ next[a] = 1 /\ ~redone[a]
        /\ todo[a] = {} /\ ok[a] = {} /\ failed[a] = {} /\ dropped[a] = {}
        /\ wrote[a] = Loads!Nothing /\ table[a] = Loads!Nothing /\ a \in Nat \ {0}
        /\ found[a] = "asks" /\ changed[a] = {}
    BY <1>2, ConstantsOfLoads DEF Loads!Init, Loads!Attempts
  <2>2. \A r \in Loads!Rows : Loads!Nothing[r] = 0
    BY DEF Loads!Nothing
  <2> QED  BY <2>1, <2>2 DEF AttemptFits, ListsFit, UpsertFits
<1>3. KeysOnce /\ OneWorks
  <2>1. \A b \in Loads!Attempts, r \in Loads!Rows : table[b][r] = 0 /\ wrote[b][r] = 0
    BY DEF Loads!Init, Loads!Nothing
  <2>2. \A b \in Loads!Attempts : b # current => pc[b] = "idle"
    BY DEF Loads!Init
  <2> QED  BY <2>1, <2>2 DEF KeysOnce, Holds, OneWorks, Resting
<1>4. LatestInv
  <2>1. 1 \in Loads!Attempts
    BY ConstantsOfLoads DEF Loads!Attempts
  <2>2. ok[1] = {} /\ changed[1] = {} /\ todo[1] = {}
    BY <2>1 DEF Loads!Init
  <2> QED  BY <2>2 DEF LatestInv, Saved
<1> QED  BY <1>1, <1>2, <1>3, <1>4 DEF LoadInv

-----------------------------------------------------------------------------
\* A step of one attempt leaves the others where they are, and what they have inserted.
Alike(a) ==
    /\ setup' = setup /\ current' = current /\ overlapped' = overlapped
    /\ pc[a] \notin Resting
    /\ \A b \in Loads!Attempts \ {a} :
        /\ pc'[b] = pc[b] /\ next'[b] = next[b] /\ todo'[b] = todo[b] /\ wrote'[b] = wrote[b]
        /\ ok'[b] = ok[b] /\ failed'[b] = failed[b] /\ dropped'[b] = dropped[b]
        /\ redone'[b] = redone[b] /\ table'[b] = table[b]
        /\ found'[b] = found[b] /\ changed'[b] = changed[b]

LEMMA OneMoves ==
    ASSUME LoadInv, NEW a \in Loads!Attempts, Alike(a), Loads!TypeOK',
           AttemptFits(a)', ListsFit(a)', UpsertFits(a)', KeysOnce', LatestInv'
    PROVE  LoadInv'
<1>1. ASSUME NEW b \in Loads!Attempts \ {a} PROVE AttemptFits(b)' /\ ListsFit(b)' /\ UpsertFits(b)'
  <2>1. AttemptFits(b) /\ ListsFit(b) /\ UpsertFits(b) /\ OneWorks
    BY DEF LoadInv
  <2>2. AttemptFits(b)'
    BY <2>1 DEF AttemptFits, Alike, Loads!Upserts, Loads!Nothing, Loads!Rows
  <2>3. ListsFit(b)'
    BY <2>1 DEF ListsFit, LoadWorks, SameKey, Alike, Loads!Appends, Loads!Upserts, Loads!Rows
  <2>4. found[b] = "absent" => overlapped
    <3>1. ~overlapped => a = current
      BY <2>1 DEF OneWorks, Alike
    <3>2. ~overlapped => pc[b] \in Resting
      BY <2>1, <3>1 DEF OneWorks
    <3> QED  BY <2>1, <3>2 DEF UpsertFits, Resting
  <2>5. UpsertFits(b)'
    BY <2>1, <2>4 DEF UpsertFits, Alike, SameKey, Loads!Upserts, Loads!NextRow, Loads!Rows
  <2> QED  BY <2>2, <2>3, <2>5
<1>2. OneWorks'
  BY DEF LoadInv, OneWorks, Alike
<1> QED  BY <1>1, <1>2 DEF LoadInv, Loads!Attempts

\* A step that inserts nothing brings no key again.
LEMMA KeysStayOnce ==
    ASSUME LoadInv, setup' = setup, overlapped' = overlapped,
           \A b \in Loads!Attempts, r \in Loads!Rows : Loads!Upserts /\ Holds(b, r)' => Holds(b, r)
    PROVE  KeysOnce'
<1>1. KeysOnce
  BY DEF LoadInv
<1> QED
  BY <1>1 DEF KeysOnce, SameKey, Loads!Upserts, Loads!Rows, Loads!Attempts

\* Who moves has begun; and while there is one attempt it is the first.
LEMMA MoverBegan ==
    ASSUME LoadInv, NEW a \in Loads!Attempts, pc[a] # "idle"
    PROVE  /\ a <= current /\ a \in Nat \ {0} /\ current \in Nat
           /\ current = 1 => a = 1
<1>1. a \in Nat \ {0} /\ current \in Nat \ {0}
  BY ConstantsOfLoads DEF LoadInv, Loads!TypeOK, Loads!Attempts
<1>2. ~(a > current)
  BY DEF LoadInv, AttemptFits
<1> QED  BY <1>1, <1>2

LEMMA FinishesKeeps ==
    ASSUME LoadInv, NEW a \in Loads!Attempts, Loads!Finishes(a)
    PROVE  LoadInv'
<1>1. Loads!TypeOK /\ AttemptFits(a) /\ ListsFit(a) /\ UpsertFits(a) /\ KeysOnce /\ LatestInv
  BY DEF LoadInv
<1>2. /\ pc[a] = "read" /\ pc' = [pc EXCEPT ![a] = "done"]
      /\ UNCHANGED <<setup, current, next, todo, found, changed, wrote, ok, failed, dropped, redone,
                   table, value, overlapped, faults>>
  BY DEF Loads!Finishes, Loads!Goes, Loads!targetVars
<1>3. pc'[a] = "done" /\ \A b \in Loads!Attempts \ {a} : pc'[b] = pc[b]
  BY <1>1, <1>2 DEF Loads!TypeOK
<1>4. Loads!TypeOK'
  BY <1>1, <1>2, KeysOfLoads DEF Loads!TypeOK, Loads!Places, Loads!Rows, Loads!Attempts
<1>5. Alike(a)
  BY <1>2, <1>3 DEF Alike, Resting
<1>6. AttemptFits(a)'
  BY <1>1, <1>2, <1>3 DEF AttemptFits, Loads!Appends, Loads!Upserts, Loads!Nothing, Loads!Rows
<1>7. ListsFit(a)'
  BY <1>1, <1>2, <1>3 DEF ListsFit, LoadWorks, SameKey, Loads!Appends, Loads!Upserts, Loads!Rows
<1>8. KeysOnce'
  BY <1>2, KeysStayOnce DEF Holds
<1>9. LatestInv'
  BY <1>1, <1>2, MoverBegan, LoadWorks(1)' => LoadWorks(1), <1>3
  DEF LatestInv, Saved, SameKey, LoadWorks, Loads!Upserts, Loads!Rows
<1>10. UpsertFits(a)'
  BY <1>1, <1>2, <1>3 DEF UpsertFits, SameKey, Loads!Upserts, Loads!NextRow, Loads!Rows, Loads!Attempts
<1> QED  BY <1>4, <1>5, <1>6, <1>7, <1>8, <1>9, <1>10, OneMoves

LEMMA ReadsKeeps ==
    ASSUME LoadInv, NEW a \in Loads!Attempts, Loads!Reads(a)
    PROVE  LoadInv'
<1>1. Loads!TypeOK /\ AttemptFits(a) /\ ListsFit(a) /\ UpsertFits(a) /\ KeysOnce /\ LatestInv
  BY DEF LoadInv
<1> DEFINE last == Loads!LastOf(a)
           chunk == Loads!Chunk(a)
           kept == Loads!Kept(a)
<1>2. /\ pc[a] = "read" /\ next[a] <= N
      /\ todo' = [todo EXCEPT ![a] = kept]
      /\ dropped' = [dropped EXCEPT ![a] = @ \union (chunk \ kept)]
      /\ next' = [next EXCEPT ![a] = last + 1]
      /\ pc' = [pc EXCEPT ![a] = Loads!Path]
      /\ UNCHANGED <<setup, current, found, changed, wrote, ok, failed, redone, table, value,
                   overlapped, faults>>
  BY DEF Loads!Reads, Loads!Goes, Loads!targetVars
<1>3. next[a] \in 1..N /\ N \in Nat \ {0} /\ ChunkSize \in Nat \ {0}
  BY <1>1, <1>2, ConstantsOfLoads DEF Loads!TypeOK
<1>4. last \in next[a]..N /\ chunk = next[a]..last
  BY <1>3 DEF Loads!LastOf, Loads!Chunk
<1>5. kept \subseteq chunk
  BY DEF Loads!Kept
<1>6. ASSUME NEW r \in chunk \ kept
      PROVE  \E q \in kept : q < r /\ SameKey(q, r)
  <2>1. PICK q \in chunk : setup.unique /\ ~Loads!Composite /\ q < r /\ setup.key[q] = setup.key[r]
    BY <1>6 DEF Loads!Kept, Loads!IsDuplicate
  <2> DEFINE S == {x \in chunk : setup.key[x] = setup.key[r]}
  <2>2. S \in SUBSET Nat /\ S # {}
    BY <1>3, <1>4, <2>1
  <2>3. PICK m \in S : \A x \in S : m <= x
    BY <2>2, MinIsLeast
  <2>4. \A x \in chunk : x < m => setup.key[x] # setup.key[m]
    BY <1>3, <1>4, <2>3
  <2>5. m \in kept
    BY <2>3, <2>4 DEF Loads!Kept, Loads!IsDuplicate
  <2>6. m < r
    BY <1>3, <1>4, <2>1, <2>3
  <2> QED  BY <2>3, <2>5, <2>6 DEF SameKey
<1>7. Loads!Path \in {"dlt", "rows", "batch"} /\ (Loads!Upserts => Loads!Path = "rows")
  BY DEF Loads!Path, Loads!Upserts, Loads!ByDlt, Loads!RowByRow
<1>8. /\ pc'[a] = Loads!Path /\ next'[a] = last + 1 /\ todo'[a] = kept
      /\ dropped'[a] = dropped[a] \union (chunk \ kept)
      /\ todo[a] = {} /\ wrote[a] = Loads!Nothing
  BY <1>1, <1>2 DEF Loads!TypeOK, AttemptFits
<1> HIDE DEF last, chunk, kept
<1>9. Loads!TypeOK'
  <2>1. chunk \subseteq Loads!Rows /\ last + 1 \in 1..N + 1
    BY <1>3, <1>4 DEF Loads!Rows
  <2>2. kept \subseteq Loads!Rows /\ chunk \ kept \subseteq Loads!Rows
    BY <1>5, <2>1
  <2> QED
    BY <1>1, <1>2, <1>7, <2>1, <2>2, KeysOfLoads DEF Loads!TypeOK, Loads!Places, Loads!Rows, Loads!Attempts
<1>10. Alike(a)
  BY <1>1, <1>2 DEF Alike, Resting, Loads!TypeOK
<1>11. AttemptFits(a)'
  BY <1>1, <1>2, <1>7, <1>8, MoverBegan
  DEF AttemptFits, Loads!Appends, Loads!Upserts, Loads!Nothing, Loads!Rows
<1>12. ListsFit(a)'
  <2>1. /\ ok[a] \union failed[a] \union dropped[a] = 1..(next[a] - 1)
        /\ ok[a] \intersect failed[a] = {} /\ dropped[a] \intersect (ok[a] \union failed[a]) = {}
        /\ \A r \in dropped[a] : \E q \in ok[a] \union failed[a] : q < r /\ SameKey(q, r)
        /\ Loads!Appends /\ ~redone[a] =>
             \A r \in Loads!Rows : table[a][r] + wrote[a][r] = IF r \in ok[a] THEN 1 ELSE 0
    BY <1>1, <1>2, <1>8 DEF ListsFit, LoadWorks
  <2>2. 1..last = (1..(next[a] - 1)) \union chunk /\ (1..(next[a] - 1)) \intersect chunk = {}
    BY <1>3, <1>4
  <2> DEFINE old == 1..(next[a] - 1)
             new == 1..last
  <2>3. /\ ok[a] \union failed[a] \union (dropped[a] \union (chunk \ kept)) \union kept = new
        /\ kept \intersect (ok[a] \union failed[a]) = {}
        /\ (dropped[a] \union (chunk \ kept)) \intersect (ok[a] \union failed[a] \union kept) = {}
    <3>1. ok[a] \union failed[a] \union dropped[a] = old /\ dropped[a] \intersect (ok[a] \union failed[a]) = {}
      BY <2>1
    <3>2. new = old \union chunk /\ old \intersect chunk = {}
      BY <2>2
    <3> HIDE DEF old, new
    <3> QED  BY <1>5, <3>1, <3>2
  <2>4. next'[a] - 1 = last
    BY <1>3, <1>4, <1>8
  <2>5. \A r \in dropped[a] \union (chunk \ kept) :
          \E q \in ok[a] \union failed[a] \union kept : q < r /\ SameKey(q, r)
    BY <1>6, <2>1
  <2> QED
    BY <1>2, <1>8, <2>1, <2>3, <2>4, <2>5
    DEF ListsFit, SameKey, Loads!Appends, Loads!Upserts, Loads!Rows
<1>13. KeysOnce'
  BY <1>2, KeysStayOnce DEF Holds
<1>14. LatestInv'
  <2> SUFFICES ASSUME Loads!Upserts, current = 1 PROVE LatestInv'
    BY <1>2 DEF LatestInv, Loads!Upserts
  <2>1. a = 1 /\ LoadWorks(1)
    BY <1>2, MoverBegan DEF LoadWorks
  <2>2. ok[1] \subseteq 1..(next[1] - 1)
    BY <1>1, <2>1 DEF ListsFit
  <2>3. \A r \in ok[1] : \A t \in kept : r < t
    BY <1>3, <1>4, <1>5, <2>1, <2>2
  <2> QED
    BY <1>1, <1>2, <1>8, <2>1, <2>3
    DEF LatestInv, Saved, SameKey, Loads!Upserts, Loads!Rows
<1>15. UpsertFits(a)'
  <2>1. found[a] = "asks" /\ changed[a] = {}
    BY <1>1, <1>2 DEF UpsertFits, Loads!TypeOK
  <2> QED  BY <1>1, <1>2, <2>1 DEF UpsertFits, SameKey, Loads!Upserts, Loads!NextRow, Loads!Rows, Loads!Attempts
<1> QED  BY <1>9, <1>10, <1>11, <1>12, <1>13, <1>14, <1>15, OneMoves

\* What Plus adds.
LEMMA PlusAdds ==
    ASSUME NEW copies \in [Loads!Rows -> Nat], NEW rows
    PROVE  /\ Loads!Plus(copies, rows) \in [Loads!Rows -> Nat]
           /\ \A r \in Loads!Rows : Loads!Plus(copies, rows)[r] = copies[r] + IF r \in rows THEN 1 ELSE 0
BY DEF Loads!Plus

\* dlt and batches are for appends.
LEMMA AppendPlaces ==
    ASSUME LoadInv, NEW a \in Loads!Attempts, pc[a] \in {"dlt", "batch", "commit"}
    PROVE  ~Loads!Upserts /\ Loads!Appends
BY DEF LoadInv, AttemptFits, Loads!Appends

LEMMA DltLoadsKeeps ==
    ASSUME LoadInv, NEW a \in Loads!Attempts, Loads!DltLoads(a)
    PROVE  LoadInv'
<1>1. Loads!TypeOK /\ AttemptFits(a) /\ ListsFit(a) /\ UpsertFits(a)
  BY DEF LoadInv
<1> DEFINE more == Loads!Plus(table[a], todo[a])
<1>2. /\ pc[a] = "dlt" /\ table' = [table EXCEPT ![a] = more]
      /\ ok' = [ok EXCEPT ![a] = @ \union todo[a]]
      /\ todo' = [todo EXCEPT ![a] = {}] /\ pc' = [pc EXCEPT ![a] = "read"]
      /\ UNCHANGED <<setup, current, next, found, changed, wrote, failed, dropped, redone, value,
                   overlapped, faults>>
  BY DEF Loads!DltLoads, Loads!Goes, Loads!targetVars
<1>3. ~Loads!Upserts /\ ~Loads!Upserts'
  BY <1>2, AppendPlaces DEF Loads!Upserts
<1>4. /\ more \in [Loads!Rows -> Nat]
      /\ \A r \in Loads!Rows : more[r] = table[a][r] + IF r \in todo[a] THEN 1 ELSE 0
  <2>1. table[a] \in [Loads!Rows -> Nat]
    BY <1>1 DEF Loads!TypeOK
  <2> QED  BY <2>1, PlusAdds
<1> HIDE DEF more
<1>5. Loads!TypeOK'
  BY <1>1, <1>2, <1>4, KeysOfLoads DEF Loads!TypeOK, Loads!Places, Loads!Rows, Loads!Attempts
<1>6. Alike(a)
  BY <1>1, <1>2 DEF Alike, Resting, Loads!TypeOK
<1>7. /\ pc'[a] = "read" /\ table'[a] = more /\ ok'[a] = ok[a] \union todo[a] /\ todo'[a] = {}
      /\ wrote[a] = Loads!Nothing
  BY <1>1, <1>2 DEF Loads!TypeOK, AttemptFits
<1>8. AttemptFits(a)'
  BY <1>1, <1>2, <1>3, <1>7, MoverBegan DEF AttemptFits, Loads!Nothing, Loads!Rows
<1>9. ListsFit(a)'
  <2>2. LoadWorks(a)
    BY <1>2 DEF LoadWorks
  <2>3. /\ ok'[a] \union failed'[a] \union dropped'[a] \union todo'[a] = 1..(next'[a] - 1)
        /\ ok'[a] \intersect failed'[a] = {} /\ todo'[a] \intersect (ok'[a] \union failed'[a]) = {}
        /\ dropped'[a] \intersect (ok'[a] \union failed'[a] \union todo'[a]) = {}
        /\ \A r \in dropped'[a] :
             \E q \in ok'[a] \union failed'[a] \union todo'[a] : q < r /\ SameKey(q, r)
    BY <1>1, <1>2, <1>7, <2>2 DEF ListsFit
  <2>4. ASSUME ~redone[a], NEW r \in Loads!Rows
        PROVE  table'[a][r] + wrote'[a][r] = IF r \in ok'[a] THEN 1 ELSE 0
    <3>1. table[a][r] + wrote[a][r] = (IF r \in ok[a] THEN 1 ELSE 0) /\ (r \in todo[a] => r \notin ok[a])
      BY <1>1, <1>2, <2>2, <2>4, AppendPlaces DEF ListsFit
    <3>2. table[a][r] \in Nat /\ wrote[a][r] \in Nat
      BY <1>1, <2>4 DEF Loads!TypeOK
    <3> QED  BY <1>2, <1>4, <1>7, <2>4, <3>1, <3>2
  <2> QED
    BY <1>2, <2>3, <2>4 DEF ListsFit, SameKey, Loads!Rows
<1>10. KeysOnce' /\ LatestInv'
  BY <1>3 DEF KeysOnce, LatestInv
<1>11. UpsertFits(a)'
  <2>1. found[a] = "asks" /\ changed[a] = {}
    BY <1>1, <1>2 DEF UpsertFits, Loads!TypeOK
  <2> QED  BY <1>2, <1>3, <2>1 DEF UpsertFits
<1> QED  BY <1>5, <1>6, <1>8, <1>9, <1>10, <1>11, OneMoves

LEMMA DltFailsKeeps ==
    ASSUME LoadInv, NEW a \in Loads!Attempts, Loads!DltFails(a)
    PROVE  LoadInv'
<1>1. Loads!TypeOK /\ AttemptFits(a) /\ ListsFit(a) /\ UpsertFits(a)
  BY DEF LoadInv
<1>2. PICK stays : table' = [table EXCEPT ![a] = Loads!Plus(table[a], stays)]
  BY DEF Loads!DltFails
<1> DEFINE more == Loads!Plus(table[a], stays)
<1>3. /\ pc[a] = "dlt" /\ redone' = [redone EXCEPT ![a] = TRUE] /\ pc' = [pc EXCEPT ![a] = "batch"]
      /\ faults' \in 0..MaxFaults
      /\ UNCHANGED <<setup, current, next, todo, found, changed, wrote, ok, failed, dropped, value,
                   overlapped>>
  BY <1>1, ConstantsOfLoads DEF Loads!DltFails, Loads!Goes, Loads!Fault, Loads!TypeOK
<1>4. ~Loads!Upserts /\ ~Loads!Upserts'
  BY <1>3, AppendPlaces DEF Loads!Upserts
<1>5. more \in [Loads!Rows -> Nat]
  BY <1>1, PlusAdds DEF Loads!TypeOK
<1> HIDE DEF more
<1>6. Loads!TypeOK'
  BY <1>1, <1>2, <1>3, <1>5, KeysOfLoads DEF more, Loads!TypeOK, Loads!Places, Loads!Rows, Loads!Attempts
<1>7. Alike(a)
  BY <1>1, <1>2, <1>3 DEF Alike, Resting, Loads!TypeOK
<1>8. pc'[a] = "batch" /\ redone'[a]
  BY <1>1, <1>3 DEF Loads!TypeOK
<1>9. AttemptFits(a)'
  BY <1>1, <1>3, <1>4, <1>8, MoverBegan DEF AttemptFits, Loads!Nothing, Loads!Rows
<1>10. ListsFit(a)'
  BY <1>1, <1>3, <1>4, <1>8 DEF ListsFit, LoadWorks, SameKey, Loads!Rows
<1>11. KeysOnce' /\ LatestInv'
  BY <1>4 DEF KeysOnce, LatestInv
<1>12. UpsertFits(a)'
  <2>1. found[a] = "asks" /\ changed[a] = {}
    BY <1>1, <1>3 DEF UpsertFits, Loads!TypeOK
  <2> QED  BY <1>3, <1>4, <2>1 DEF UpsertFits
<1> QED  BY <1>6, <1>7, <1>9, <1>10, <1>11, <1>12, OneMoves

LEMMA BatchGoesInKeeps ==
    ASSUME LoadInv, NEW a \in Loads!Attempts, Loads!BatchGoesIn(a)
    PROVE  LoadInv'
<1>1. Loads!TypeOK /\ AttemptFits(a) /\ ListsFit(a) /\ UpsertFits(a)
  BY DEF LoadInv
<1> DEFINE more == Loads!Plus(wrote[a], todo[a])
<1>2. /\ pc[a] = "batch" /\ wrote' = [wrote EXCEPT ![a] = more]
      /\ ok' = [ok EXCEPT ![a] = @ \union todo[a]]
      /\ todo' = [todo EXCEPT ![a] = {}] /\ pc' = [pc EXCEPT ![a] = "commit"]
      /\ UNCHANGED <<setup, current, next, found, changed, failed, dropped, redone, table, value,
                   overlapped, faults>>
  BY DEF Loads!BatchGoesIn, Loads!Goes, Loads!targetVars
<1>3. ~Loads!Upserts /\ ~Loads!Upserts'
  BY <1>2, AppendPlaces DEF Loads!Upserts
<1>4. /\ more \in [Loads!Rows -> Nat]
      /\ \A r \in Loads!Rows : more[r] = wrote[a][r] + IF r \in todo[a] THEN 1 ELSE 0
  <2>1. wrote[a] \in [Loads!Rows -> Nat]
    BY <1>1 DEF Loads!TypeOK
  <2> QED  BY <2>1, PlusAdds
<1> HIDE DEF more
<1>5. Loads!TypeOK'
  BY <1>1, <1>2, <1>4, KeysOfLoads DEF Loads!TypeOK, Loads!Places, Loads!Rows, Loads!Attempts
<1>6. Alike(a)
  BY <1>1, <1>2 DEF Alike, Resting, Loads!TypeOK
<1>7. pc'[a] = "commit" /\ wrote'[a] = more /\ ok'[a] = ok[a] \union todo[a] /\ todo'[a] = {}
  BY <1>1, <1>2 DEF Loads!TypeOK
<1>8. AttemptFits(a)'
  BY <1>1, <1>2, <1>3, <1>7, MoverBegan DEF AttemptFits, Loads!Nothing, Loads!Rows
<1>9. ListsFit(a)'
  <2>2. LoadWorks(a)
    BY <1>2 DEF LoadWorks
  <2>3. /\ ok'[a] \union failed'[a] \union dropped'[a] \union todo'[a] = 1..(next'[a] - 1)
        /\ ok'[a] \intersect failed'[a] = {} /\ todo'[a] \intersect (ok'[a] \union failed'[a]) = {}
        /\ dropped'[a] \intersect (ok'[a] \union failed'[a] \union todo'[a]) = {}
        /\ \A r \in dropped'[a] :
             \E q \in ok'[a] \union failed'[a] \union todo'[a] : q < r /\ SameKey(q, r)
    BY <1>1, <1>2, <1>7, <2>2 DEF ListsFit
  <2>4. ASSUME ~redone[a], NEW r \in Loads!Rows
        PROVE  table'[a][r] + wrote'[a][r] = IF r \in ok'[a] THEN 1 ELSE 0
    <3>1. table[a][r] + wrote[a][r] = (IF r \in ok[a] THEN 1 ELSE 0) /\ (r \in todo[a] => r \notin ok[a])
      BY <1>1, <1>2, <2>2, <2>4, AppendPlaces DEF ListsFit
    <3>2. table[a][r] \in Nat /\ wrote[a][r] \in Nat
      BY <1>1, <2>4 DEF Loads!TypeOK
    <3> QED  BY <1>2, <1>4, <1>7, <2>4, <3>1, <3>2
  <2> QED
    BY <1>2, <2>3, <2>4 DEF ListsFit, SameKey, Loads!Rows
<1>10. KeysOnce' /\ LatestInv'
  BY <1>3 DEF KeysOnce, LatestInv
<1>11. UpsertFits(a)'
  <2>1. found[a] = "asks" /\ changed[a] = {}
    BY <1>1, <1>2 DEF UpsertFits, Loads!TypeOK
  <2> QED  BY <1>2, <1>3, <2>1 DEF UpsertFits
<1> QED  BY <1>5, <1>6, <1>8, <1>9, <1>10, <1>11, OneMoves

LEMMA BatchRefusedKeeps ==
    ASSUME LoadInv, NEW a \in Loads!Attempts, Loads!BatchRefused(a)
    PROVE  LoadInv'
<1>1. Loads!TypeOK /\ AttemptFits(a) /\ ListsFit(a) /\ UpsertFits(a)
  BY DEF LoadInv
<1>2. /\ pc[a] = "batch" /\ pc' = [pc EXCEPT ![a] = "rows"] /\ faults' \in 0..MaxFaults
      /\ UNCHANGED <<setup, current, next, todo, found, changed, wrote, ok, failed, dropped, redone,
                   table, value, overlapped>>
  BY <1>1, ConstantsOfLoads
  DEF Loads!BatchRefused, Loads!AfterRollback, Loads!Goes, Loads!targetVars, Loads!Fault, Loads!TypeOK
<1>3. ~Loads!Upserts /\ ~Loads!Upserts'
  BY <1>2, AppendPlaces DEF Loads!Upserts
<1>4. Loads!TypeOK'
  BY <1>1, <1>2, KeysOfLoads DEF Loads!TypeOK, Loads!Places, Loads!Rows, Loads!Attempts
<1>5. Alike(a) /\ pc'[a] = "rows"
  BY <1>1, <1>2 DEF Alike, Resting, Loads!TypeOK
<1>6. AttemptFits(a)'
  BY <1>1, <1>2, <1>3, <1>5, MoverBegan DEF AttemptFits, Loads!Nothing, Loads!Rows
<1>7. ListsFit(a)'
  BY <1>1, <1>2, <1>3, <1>5 DEF ListsFit, LoadWorks, SameKey, Loads!Appends, Loads!Rows
<1>8. KeysOnce' /\ LatestInv'
  BY <1>3 DEF KeysOnce, LatestInv
<1>9. UpsertFits(a)'
  <2>1. found[a] = "asks" /\ changed[a] = {}
    BY <1>1, <1>2 DEF UpsertFits, Loads!TypeOK
  <2> QED  BY <1>2, <1>3, <2>1 DEF UpsertFits
<1> QED  BY <1>4, <1>5, <1>6, <1>7, <1>8, <1>9, OneMoves

\* The row that an attempt writes next.
LEMMA NextIsLeast ==
    ASSUME LoadInv, NEW a \in Loads!Attempts, todo[a] # {}
    PROVE  /\ Loads!NextRow(a) \in todo[a] /\ todo[a] \subseteq Loads!Rows /\ Loads!Rows \subseteq Nat
           /\ \A t \in todo[a] : Loads!NextRow(a) <= t
<1>1. todo[a] \in SUBSET Nat /\ todo[a] \subseteq Loads!Rows /\ Loads!Rows \subseteq Nat
  BY DEF LoadInv, Loads!TypeOK, Loads!Rows
<1> QED  BY <1>1, MinIsLeast DEF Loads!NextRow

\* What an upsert inserts has a key that is nowhere, where there is an index or no overlap.
LEMMA InsertedIsNew ==
    ASSUME LoadInv, NEW a \in Loads!Attempts, Loads!RowGoesIn(a), Loads!Upserts, Loads!Inserts(a),
           setup.indexed \/ ~overlapped,
           NEW b \in Loads!Attempts, NEW q \in Loads!Rows, Holds(b, q)
    PROVE  ~SameKey(q, Loads!NextRow(a))
<1>1. Loads!TypeOK /\ OneWorks /\ UpsertFits(a) /\ UpsertFits(b) /\ AttemptFits(b)
  BY DEF LoadInv
<1>2. /\ pc[a] = "rows" /\ todo[a] # {} /\ Loads!Answered(a) /\ ~Loads!Refusal(a) /\ ~Loads!Blocked(a)
      /\ ~Loads!Appends
  BY DEF Loads!RowGoesIn, Loads!Appends, Loads!Upserts
<1>3. table[b][q] \in Nat /\ wrote[b][q] \in Nat
  BY <1>1 DEF Loads!TypeOK
<1>4. IF Loads!LooksFirst THEN found[a] = "absent" ELSE ~Loads!Exists(a, Loads!KeyOf(a))
  BY <1>2 DEF Loads!Inserts
<1>5. CASE table[b][q] > 0
  <2>1. Loads!InTable(Loads!KeyOf(a)) \/ ~SameKey(q, Loads!NextRow(a))
    BY <1>5 DEF Loads!InTable, SameKey, Loads!KeyOf
  <2>2. CASE ~Loads!LooksFirst
    BY <1>4, <2>1, <2>2 DEF Loads!Exists
  <2>3. CASE Loads!LooksFirst /\ setup.indexed
    <3>1. ~Loads!Taken(a)
      BY <1>2 DEF Loads!Refusal
    <3> QED  BY <2>1, <2>3, <3>1 DEF Loads!Taken
  <2>4. CASE Loads!LooksFirst /\ ~setup.indexed
    BY <1>1, <1>4, <1>5, <2>4 DEF UpsertFits
  <2> QED  BY <2>2, <2>3, <2>4
<1>6. CASE wrote[b][q] > 0
  <2>1. q \in changed[b]
    BY <1>1, <1>6 DEF UpsertFits
  <2>2. CASE b = a
    <3>1. CASE Loads!LooksFirst
      BY <1>1, <1>4, <2>1, <2>2, <3>1 DEF UpsertFits
    <3>2. CASE ~Loads!LooksFirst
      BY <1>4, <2>1, <2>2, <3>2 DEF Loads!Exists, Loads!Changes, SameKey, Loads!KeyOf
    <3> QED  BY <3>1, <3>2
  <2>3. CASE b # a /\ setup.indexed
    BY <1>2, <2>1, <2>3 DEF Loads!Blocked, Loads!Changes, SameKey, Loads!KeyOf
  <2>4. CASE b # a /\ ~overlapped
    <3>1. a = current /\ pc[b] \in Resting
      BY <1>1, <1>2, <2>4 DEF OneWorks, Resting
    <3>2. changed[b] = {}
      BY <1>1, <3>1 DEF UpsertFits, Resting
    <3> QED  BY <2>1, <3>2
  <2> QED  BY <2>2, <2>3, <2>4
<1> QED  BY <1>5, <1>6 DEF Holds

LEMMA LooksUpKeeps ==
    ASSUME LoadInv, NEW a \in Loads!Attempts, Loads!LooksUp(a)
    PROVE  LoadInv'
<1>1. Loads!TypeOK /\ AttemptFits(a) /\ ListsFit(a) /\ UpsertFits(a) /\ KeysOnce /\ LatestInv
  BY DEF LoadInv
<1> DEFINE answer == IF Loads!Exists(a, Loads!KeyOf(a)) THEN "there" ELSE "absent"
<1>2. /\ pc[a] = "rows" /\ todo[a] # {} /\ found' = [found EXCEPT ![a] = answer]
      /\ UNCHANGED <<setup, current, pc, next, todo, changed, wrote, ok, failed, dropped, redone,
                     table, value, overlapped, faults>>
  BY DEF Loads!LooksUp, Loads!targetVars
<1>3. found'[a] = answer /\ \A b \in Loads!Attempts \ {a} : found'[b] = found[b]
  BY <1>1, <1>2 DEF Loads!TypeOK
<1>4. Loads!TypeOK'
  <2>1. answer \in {"asks", "there", "absent"}
    OBVIOUS
  <2> HIDE DEF answer
  <2> QED  BY <1>1, <1>2, <2>1, KeysOfLoads DEF Loads!TypeOK, Loads!Rows, Loads!Attempts
<1>5. Alike(a)
  BY <1>2, <1>3 DEF Alike, Resting
<1>6. AttemptFits(a)'
  BY <1>1, <1>2 DEF AttemptFits, Loads!Upserts, Loads!Nothing, Loads!Rows
<1>7. ListsFit(a)'
  BY <1>1, <1>2 DEF ListsFit, LoadWorks, SameKey, Loads!Appends, Loads!Upserts, Loads!Rows
<1>8. UpsertFits(a)'
  <2>1. answer = "absent" =>
          /\ \A r \in changed[a] : ~SameKey(r, Loads!NextRow(a))
          /\ \A b \in Loads!Attempts, r \in Loads!Rows : table[b][r] > 0 => ~SameKey(r, Loads!NextRow(a))
    BY DEF Loads!Exists, Loads!Changes, Loads!InTable, Loads!KeyOf, SameKey
  <2> HIDE DEF answer
  <2> QED
    BY <1>1, <1>2, <1>3, <2>1 DEF UpsertFits, SameKey, Loads!Upserts, Loads!NextRow, Loads!Rows, Loads!Attempts
<1>9. KeysOnce'
  BY <1>2, KeysStayOnce DEF Holds
<1>10. LatestInv'
  BY <1>1, <1>2 DEF LatestInv, LoadWorks, Saved, SameKey, Loads!Upserts, Loads!Rows
<1> QED  BY <1>4, <1>5, <1>6, <1>7, <1>8, <1>9, <1>10, OneMoves

LEMMA RowGoesInKeeps ==
    ASSUME LoadInv, NEW a \in Loads!Attempts, Loads!RowGoesIn(a)
    PROVE  LoadInv'
<1>1. Loads!TypeOK /\ AttemptFits(a) /\ ListsFit(a) /\ UpsertFits(a) /\ KeysOnce /\ LatestInv
  BY DEF LoadInv
<1> DEFINE x == Loads!NextRow(a)
           more == IF Loads!Inserts(a) THEN Loads!Plus(wrote[a], {x}) ELSE wrote[a]
           rows == IF Loads!Upserts THEN changed[a] \union {x} ELSE changed[a]
<1>2. /\ pc[a] = "rows" /\ todo[a] # {}
      /\ ok' = [ok EXCEPT ![a] = @ \union {x}] /\ todo' = [todo EXCEPT ![a] = @ \ {x}]
      /\ found' = [found EXCEPT ![a] = "asks"]
      /\ UNCHANGED <<setup, current, pc, next, failed, dropped, redone, table, value, overlapped, faults>>
  BY DEF Loads!RowGoesIn, Loads!Handled, Loads!targetVars
<1>3. /\ x \in todo[a] /\ todo[a] \subseteq Loads!Rows /\ x \in Loads!Rows /\ Loads!Rows \subseteq Nat
      /\ \A t \in todo[a] : x <= t
  BY <1>2, NextIsLeast
<1>4. wrote' = [wrote EXCEPT ![a] = more] /\ changed' = [changed EXCEPT ![a] = rows]
  BY <1>1 DEF Loads!RowGoesIn, Loads!TypeOK
<1>5. /\ more \in [Loads!Rows -> Nat] /\ (Loads!Appends => Loads!Inserts(a))
      /\ \A r \in Loads!Rows : more[r] = wrote[a][r] + IF Loads!Inserts(a) /\ r = x THEN 1 ELSE 0
  <2>1. wrote[a] \in [Loads!Rows -> Nat] /\ (Loads!Appends => Loads!Inserts(a))
    BY <1>1 DEF Loads!TypeOK, Loads!Inserts
  <2>2. CASE Loads!Inserts(a)
    BY <2>1, <2>2, PlusAdds
  <2>3. CASE ~Loads!Inserts(a)
    BY <2>1, <2>3
  <2> QED  BY <2>2, <2>3
<1>6. rows \subseteq changed[a] \union {x} /\ changed[a] \subseteq rows
      /\ (Loads!Upserts => rows = changed[a] \union {x})
  OBVIOUS
<1> HIDE DEF x, more, rows
<1>7. Loads!TypeOK'
  BY <1>1, <1>2, <1>3, <1>4, <1>5, <1>6, KeysOfLoads DEF Loads!TypeOK, Loads!Rows, Loads!Attempts
<1>8. Alike(a)
  BY <1>1, <1>2, <1>4 DEF Alike, Resting, Loads!TypeOK
<1>9. /\ wrote'[a] = more /\ ok'[a] = ok[a] \union {x} /\ todo'[a] = todo[a] \ {x}
      /\ changed'[a] = rows /\ found'[a] = "asks"
      /\ \A b \in Loads!Attempts \ {a} : wrote'[b] = wrote[b]
  BY <1>1, <1>2, <1>4 DEF Loads!TypeOK
<1>10. AttemptFits(a)'
  BY <1>1, <1>2, <1>9, MoverBegan DEF AttemptFits, Loads!Upserts, Loads!Nothing, Loads!Rows
<1>11. ListsFit(a)'
  <2>1. LoadWorks(a)
    BY <1>2 DEF LoadWorks
  <2>2. /\ ok'[a] \union failed'[a] \union dropped'[a] \union todo'[a] = 1..(next'[a] - 1)
        /\ ok'[a] \intersect failed'[a] = {} /\ todo'[a] \intersect (ok'[a] \union failed'[a]) = {}
        /\ dropped'[a] \intersect (ok'[a] \union failed'[a] \union todo'[a]) = {}
        /\ \A r \in dropped'[a] :
             \E q \in ok'[a] \union failed'[a] \union todo'[a] : q < r /\ SameKey(q, r)
    BY <1>1, <1>2, <1>3, <1>9, <2>1 DEF ListsFit
  <2>3. ASSUME Loads!Appends, ~redone[a], NEW r \in Loads!Rows
        PROVE  table'[a][r] + wrote'[a][r] = IF r \in ok'[a] THEN 1 ELSE 0
    <3>1. table[a][r] + wrote[a][r] = (IF r \in ok[a] THEN 1 ELSE 0) /\ x \notin ok[a]
      BY <1>1, <1>3, <2>1, <2>3 DEF ListsFit
    <3>2. table[a][r] \in Nat /\ wrote[a][r] \in Nat
      BY <1>1, <2>3 DEF Loads!TypeOK
    <3> QED  BY <1>2, <1>5, <1>9, <2>3, <3>1, <3>2
  <2> QED
    BY <1>2, <2>2, <2>3 DEF ListsFit, SameKey, Loads!Appends, Loads!Upserts, Loads!Rows
<1>12. UpsertFits(a)'
  <2>1. ASSUME Loads!Upserts, NEW r \in Loads!Rows, wrote'[a][r] > 0 PROVE r \in changed'[a]
    <3>1. wrote[a][r] \in Nat /\ more[r] = wrote[a][r] + IF Loads!Inserts(a) /\ r = x THEN 1 ELSE 0
      BY <1>1, <1>5, <2>1 DEF Loads!TypeOK
    <3>2. wrote[a][r] > 0 \/ r = x
      BY <1>9, <2>1, <3>1
    <3> QED  BY <1>1, <1>6, <1>9, <2>1, <3>2 DEF UpsertFits
  <2> QED  BY <1>2, <1>9, <2>1 DEF UpsertFits, Loads!Upserts, Loads!Rows
<1>13. KeysOnce'
  <2> SUFFICES ASSUME Loads!Upserts, setup.indexed \/ ~overlapped,
                      NEW b \in Loads!Attempts, NEW c \in Loads!Attempts, NEW q \in Loads!Rows, NEW r \in Loads!Rows,
                      Holds(b, q)', Holds(c, r)', SameKey(q, r)
               PROVE  b = c /\ q = r
    BY <1>2 DEF KeysOnce, SameKey, Loads!Upserts, Loads!Rows, Loads!Attempts
  <2>1. ASSUME NEW d \in Loads!Attempts, NEW s \in Loads!Rows, Holds(d, s)'
        PROVE  Holds(d, s) \/ (d = a /\ s = x /\ Loads!Inserts(a))
    <3>1. wrote[d][s] \in Nat /\ (d = a => more[s] = wrote[d][s] + IF Loads!Inserts(a) /\ s = x THEN 1 ELSE 0)
      BY <1>1, <1>5, <2>1 DEF Loads!TypeOK
    <3> QED  BY <1>2, <1>9, <2>1, <3>1 DEF Holds
  <2>2. ASSUME Loads!Inserts(a), NEW d \in Loads!Attempts, NEW s \in Loads!Rows, Holds(d, s)
        PROVE  ~SameKey(s, x)
    BY <2>2, InsertedIsNew DEF x
  <2>3. CASE Holds(b, q) /\ Holds(c, r)
    BY <1>1, <2>3 DEF KeysOnce
  <2>4. CASE ~(Holds(b, q) /\ Holds(c, r))
    BY <2>1, <2>2, <2>4 DEF SameKey
  <2> QED  BY <2>3, <2>4
<1>14. LatestInv'
  <2> SUFFICES ASSUME Loads!Upserts, current = 1
               PROVE  /\ changed'[1] \subseteq ok'[1]
                      /\ \A r \in ok'[1] : \A t \in todo'[1] : r < t
                      /\ \A r \in Saved(1)' : \A t \in changed'[1] : r < t
                      /\ \A r \in Saved(1)' :
                           value[setup.key[r]] = r <=> \A q \in Saved(1)' : q > r => ~SameKey(q, r)
    BY <1>2 DEF LatestInv, Loads!Upserts, SameKey
  <2>1. a = 1 /\ LoadWorks(1)
    BY <1>2, MoverBegan DEF LoadWorks
  <2>2. changed'[1] = changed[1] \union {x}
    BY <1>6, <1>9, <2>1
  <2>3. Saved(1)' = Saved(1)
    BY <1>1, <1>3, <1>9, <2>1, <2>2 DEF Saved, ListsFit
  <2>4. /\ changed[1] \subseteq ok[1]
        /\ \A r \in ok[1] : \A t \in todo[1] : r < t
        /\ \A r \in Saved(1) : \A t \in changed[1] : r < t
        /\ \A r \in Saved(1) : value[setup.key[r]] = r <=> \A q \in Saved(1) : q > r => ~SameKey(q, r)
    BY <1>1, <2>1 DEF LatestInv
  <2>5. \A t \in todo[1] \ {x} : x < t
    BY <1>3, <2>1
  <2>6. Saved(1) \subseteq ok[1]
    BY DEF Saved
  <2> QED  BY <1>3, <1>9, <2>1, <2>2, <2>3, <2>4, <2>5, <2>6
<1> QED  BY <1>7, <1>8, <1>10, <1>11, <1>12, <1>13, <1>14, OneMoves

LEMMA RowRefusedKeeps ==
    ASSUME LoadInv, NEW a \in Loads!Attempts, Loads!RowRefused(a)
    PROVE  LoadInv'
<1>1. Loads!TypeOK /\ AttemptFits(a) /\ ListsFit(a) /\ UpsertFits(a) /\ KeysOnce /\ LatestInv
  BY DEF LoadInv
<1> DEFINE x == Loads!NextRow(a)
<1>2. /\ pc[a] = "rows" /\ todo[a] # {} /\ faults' \in 0..MaxFaults
      /\ failed' = [failed EXCEPT ![a] = @ \union {x}] /\ todo' = [todo EXCEPT ![a] = @ \ {x}]
      /\ found' = [found EXCEPT ![a] = "asks"]
      /\ UNCHANGED <<setup, current, pc, next, changed, wrote, ok, dropped, redone, table, value, overlapped>>
  BY <1>1, ConstantsOfLoads
  DEF Loads!RowRefused, Loads!Refuses, Loads!Handled, Loads!targetVars, Loads!Fault, Loads!TypeOK
<1>3. x \in todo[a] /\ x \in Loads!Rows
  BY <1>2, NextIsLeast
<1> HIDE DEF x
<1>4. Loads!TypeOK'
  BY <1>1, <1>2, <1>3, KeysOfLoads DEF Loads!TypeOK, Loads!Rows, Loads!Attempts
<1>5. Alike(a)
  BY <1>1, <1>2 DEF Alike, Resting, Loads!TypeOK
<1>6. failed'[a] = failed[a] \union {x} /\ todo'[a] = todo[a] \ {x} /\ found'[a] = "asks"
  BY <1>1, <1>2 DEF Loads!TypeOK
<1>7. AttemptFits(a)'
  BY <1>1, <1>2, <1>6, MoverBegan DEF AttemptFits, Loads!Upserts, Loads!Nothing, Loads!Rows
<1>8. ListsFit(a)'
  BY <1>1, <1>2, <1>3, <1>6 DEF ListsFit, LoadWorks, SameKey, Loads!Appends, Loads!Upserts, Loads!Rows
<1>9. UpsertFits(a)'
  BY <1>1, <1>2, <1>6 DEF UpsertFits, Loads!Upserts, Loads!Rows
<1>10. KeysOnce'
  BY <1>2, KeysStayOnce DEF Holds
<1>11. LatestInv'
  <2>1. \A r \in todo'[1] : current = 1 => r \in todo[1]
    BY <1>2, <1>6, MoverBegan
  <2> QED
    BY <1>1, <1>2, <2>1 DEF LatestInv, LoadWorks, Saved, SameKey, Loads!Upserts, Loads!Rows
<1> QED  BY <1>4, <1>5, <1>7, <1>8, <1>9, <1>10, <1>11, OneMoves

-----------------------------------------------------------------------------
\* What a commit does to the target.
LEMMA AppliedFits ==
    ASSUME LoadInv, NEW a \in Loads!Attempts, Loads!Applied(a)
    PROVE  /\ table' \in [Loads!Attempts -> [Loads!Rows -> Nat]]
           /\ value' \in [Loads!Keys -> 0..N]
           /\ \A b \in Loads!Attempts \ {a} : table'[b] = table[b]
           /\ \A r \in Loads!Rows : table'[a][r] = table[a][r] + wrote[a][r]
           /\ \A r \in Loads!Rows :
                IF \E q \in changed[a] : SameKey(q, r)
                  THEN /\ value'[setup.key[r]] \in changed[a]
                       /\ SameKey(value'[setup.key[r]], r)
                       /\ \A q \in changed[a] : SameKey(q, r) => value'[setup.key[r]] >= q
                  ELSE value'[setup.key[r]] = value[setup.key[r]]
<1>1. Loads!TypeOK
  BY DEF LoadInv
<1>2. /\ table \in [Loads!Attempts -> [Loads!Rows -> Nat]] /\ wrote \in [Loads!Attempts -> [Loads!Rows -> Nat]]
      /\ changed[a] \subseteq Loads!Rows /\ value \in [Loads!Keys -> 0..N] /\ Loads!Rows \subseteq 0..N
  BY <1>1, ConstantsOfLoads DEF Loads!TypeOK, Loads!Rows
<1> DEFINE Of(k) == {r \in changed[a] : setup.key[r] = k}
<1>3. /\ table' = [table EXCEPT ![a] = [r \in Loads!Rows |-> table[a][r] + wrote[a][r]]]
      /\ value' = [k \in Loads!Keys |-> IF Loads!Changes(a, k) THEN Loads!Max(Of(k)) ELSE value[k]]
  BY <1>2 DEF Loads!Applied
<1>4. [r \in Loads!Rows |-> table[a][r] + wrote[a][r]] \in [Loads!Rows -> Nat]
  BY <1>2
<1>5. ASSUME NEW k, Loads!Changes(a, k)
      PROVE  Loads!Max(Of(k)) \in Of(k) /\ \A y \in Of(k) : Loads!Max(Of(k)) >= y
  <2>1. Of(k) \in SUBSET Loads!Rows /\ Of(k) # {}
    BY <1>2, <1>5 DEF Loads!Changes
  <2> HIDE DEF Of
  <2> QED  BY <2>1, LastIsGreatest
<1>6. ASSUME NEW r \in Loads!Rows
      PROVE  /\ setup.key[r] \in Loads!Keys
             /\ Loads!Changes(a, setup.key[r]) <=> \E q \in changed[a] : SameKey(q, r)
  BY DEF Loads!Keys, Loads!Changes, SameKey
<1>7. value' \in [Loads!Keys -> 0..N]
  <2>1. ASSUME NEW k \in Loads!Keys PROVE (IF Loads!Changes(a, k) THEN Loads!Max(Of(k)) ELSE value[k]) \in 0..N
    BY <1>2, <1>5
  <2> QED  BY <1>3, <2>1
<1>8. ASSUME NEW r \in Loads!Rows
      PROVE  IF \E q \in changed[a] : SameKey(q, r)
               THEN /\ value'[setup.key[r]] \in changed[a]
                    /\ SameKey(value'[setup.key[r]], r)
                    /\ \A q \in changed[a] : SameKey(q, r) => value'[setup.key[r]] >= q
               ELSE value'[setup.key[r]] = value[setup.key[r]]
  <2>1. value'[setup.key[r]] = IF Loads!Changes(a, setup.key[r])
                                 THEN Loads!Max(Of(setup.key[r])) ELSE value[setup.key[r]]
    BY <1>3, <1>6
  <2>2. CASE Loads!Changes(a, setup.key[r])
    <3>1. /\ value'[setup.key[r]] \in Of(setup.key[r])
          /\ \A y \in Of(setup.key[r]) : value'[setup.key[r]] >= y
      BY <1>5, <2>1, <2>2
    <3> QED  BY <1>6, <2>2, <3>1 DEF SameKey
  <2>3. CASE ~Loads!Changes(a, setup.key[r])
    BY <1>6, <2>1, <2>3
  <2> QED  BY <2>2, <2>3
<1> QED  BY <1>2, <1>3, <1>4, <1>7, <1>8

\* A transaction that ends, whether its rows go into the target or not, brings no key.
LEMMA EndedKeepsKeys ==
    ASSUME LoadInv, NEW a \in Loads!Attempts, Loads!Applied(a) \/ UNCHANGED <<table, value>>,
           wrote' = [wrote EXCEPT ![a] = Loads!Nothing], setup' = setup, overlapped' = overlapped
    PROVE  /\ KeysOnce'
           /\ table' \in [Loads!Attempts -> [Loads!Rows -> Nat]] /\ value' \in [Loads!Keys -> 0..N]
           /\ \A b \in Loads!Attempts \ {a} : table'[b] = table[b]
<1>1. Loads!TypeOK
  BY DEF LoadInv
<1>2. /\ table' \in [Loads!Attempts -> [Loads!Rows -> Nat]] /\ value' \in [Loads!Keys -> 0..N]
      /\ \A b \in Loads!Attempts \ {a} : table'[b] = table[b]
      /\ \A r \in Loads!Rows : table'[a][r] = table[a][r] + wrote[a][r] \/ table'[a][r] = table[a][r]
  BY <1>1, AppliedFits DEF Loads!TypeOK
<1>3. ASSUME NEW b \in Loads!Attempts, NEW r \in Loads!Rows, Holds(b, r)' PROVE Holds(b, r)
  <2>1. table[b][r] \in Nat /\ wrote[b][r] \in Nat
    BY <1>1 DEF Loads!TypeOK
  <2>2. wrote'[b][r] = wrote[b][r] \/ wrote'[b][r] = 0
    BY <1>1 DEF Loads!TypeOK, Loads!Nothing
  <2>3. table'[b][r] = table[b][r] + wrote[b][r] \/ table'[b][r] = table[b][r]
    BY <1>2
  <2> QED  BY <1>3, <2>1, <2>2, <2>3 DEF Holds
<1> QED  BY <1>2, <1>3, KeysStayOnce

LEMMA CommitsKeeps ==
    ASSUME LoadInv, NEW a \in Loads!Attempts, Loads!Commits(a)
    PROVE  LoadInv'
<1>1. Loads!TypeOK /\ AttemptFits(a) /\ ListsFit(a) /\ UpsertFits(a) /\ LatestInv
  BY DEF LoadInv
<1>2. /\ pc[a] \in {"commit", "rows"} /\ todo[a] = {} /\ Loads!Applied(a)
      /\ wrote' = [wrote EXCEPT ![a] = Loads!Nothing] /\ pc' = [pc EXCEPT ![a] = "read"]
      /\ changed' = [changed EXCEPT ![a] = {}]
      /\ UNCHANGED <<setup, current, next, todo, found, ok, failed, dropped, redone, overlapped, faults>>
  BY <1>1 DEF Loads!Commits, Loads!Goes, Loads!CanCommit, AttemptFits
<1>3. /\ table' \in [Loads!Attempts -> [Loads!Rows -> Nat]] /\ value' \in [Loads!Keys -> 0..N]
      /\ KeysOnce'
      /\ \A b \in Loads!Attempts \ {a} : table'[b] = table[b]
      /\ \A r \in Loads!Rows : table'[a][r] = table[a][r] + wrote[a][r]
  BY <1>2, AppliedFits, EndedKeepsKeys
<1>4. Loads!Nothing \in [Loads!Rows -> Nat] /\ \A r \in Loads!Rows : Loads!Nothing[r] = 0
  BY DEF Loads!Nothing
<1>5. Loads!TypeOK'
  BY <1>1, <1>2, <1>3, <1>4, KeysOfLoads DEF Loads!TypeOK, Loads!Places, Loads!Rows, Loads!Attempts
<1>6. Alike(a) /\ pc'[a] = "read" /\ wrote'[a] = Loads!Nothing /\ changed'[a] = {}
  BY <1>1, <1>2, <1>3 DEF Alike, Resting, Loads!TypeOK
<1>7. AttemptFits(a)'
  BY <1>1, <1>2, <1>6, MoverBegan DEF AttemptFits, Loads!Upserts, Loads!Nothing, Loads!Rows
<1>8. ListsFit(a)'
  <2>1. LoadWorks(a)
    BY <1>2 DEF LoadWorks
  <2>2. ASSUME Loads!Appends, ~redone[a], NEW r \in Loads!Rows
        PROVE  table'[a][r] + wrote'[a][r] = IF r \in ok[a] THEN 1 ELSE 0
    <3>1. table[a][r] + wrote[a][r] = (IF r \in ok[a] THEN 1 ELSE 0)
      BY <1>1, <2>1, <2>2 DEF ListsFit
    <3>2. table[a][r] \in Nat /\ wrote[a][r] \in Nat
      BY <1>1, <2>2 DEF Loads!TypeOK
    <3> QED  BY <1>3, <1>4, <1>6, <2>2, <3>1, <3>2
  <2> QED
    BY <1>1, <1>2, <2>1, <2>2 DEF ListsFit, SameKey, Loads!Appends, Loads!Upserts, Loads!Rows
<1>9. UpsertFits(a)'
  <2>1. found'[a] = "asks"
    BY <1>1, <1>2 DEF UpsertFits, Loads!TypeOK
  <2>2. \A r \in Loads!Rows : wrote'[a][r] = 0
    BY <1>4, <1>6
  <2> QED  BY <1>6, <2>1, <2>2 DEF UpsertFits, Loads!Rows
<1>10. LatestInv'
  <2> SUFFICES ASSUME Loads!Upserts, current = 1
               PROVE  /\ changed'[1] \subseteq ok[1]
                      /\ \A r \in ok[1] : \A t \in todo[1] : r < t
                      /\ \A r \in Saved(1)' : \A t \in changed'[1] : r < t
                      /\ \A r \in Saved(1)' :
                           value'[setup.key[r]] = r <=> \A q \in Saved(1)' : q > r => ~SameKey(q, r)
    BY <1>2 DEF LatestInv, Loads!Upserts, SameKey
  <2>1. a = 1 /\ LoadWorks(1)
    BY <1>2, MoverBegan DEF LoadWorks
  <2>2. changed'[1] = {} /\ Saved(1)' = ok[1]
    BY <1>2, <1>6, <2>1 DEF Saved
  <2> DEFINE done == Saved(1)
             new == changed[1]
  <2>3. /\ new \subseteq ok[1] /\ ok[1] = done \union new /\ done \intersect new = {}
        /\ \A r \in done : \A t \in new : r < t
        /\ \A r \in done : value[setup.key[r]] = r <=> \A q \in done : q > r => ~SameKey(q, r)
    BY <1>1, <2>1 DEF LatestInv, Saved
  <2>4. ok[1] \subseteq Loads!Rows /\ Loads!Rows \subseteq Nat
    BY <1>1, <2>1 DEF Loads!TypeOK, Loads!Rows
  <2>5. \A r \in Loads!Rows :
          IF \E q \in new : SameKey(q, r)
            THEN /\ value'[setup.key[r]] \in new /\ SameKey(value'[setup.key[r]], r)
                 /\ \A q \in new : SameKey(q, r) => value'[setup.key[r]] >= q
            ELSE value'[setup.key[r]] = value[setup.key[r]]
    BY <1>2, <2>1, AppliedFits
  <2> HIDE DEF done, new
  <2>6. ASSUME NEW r \in ok[1]
        PROVE  value'[setup.key[r]] = r <=> \A q \in ok[1] : q > r => ~SameKey(q, r)
    <3> DEFINE last == value'[setup.key[r]]
    <3>1. CASE r \in new
      <4>1. \A q \in ok[1] : q > r => q \in new
        <5>1. r \in Nat /\ ok[1] \subseteq Nat /\ done \subseteq ok[1]
          BY <2>3, <2>4
        <5>2. \A q \in done : q < r
          BY <2>3, <3>1
        <5> QED  BY <2>3, <5>1, <5>2
      <4>2. SameKey(r, r)
        BY DEF SameKey
      <4>3. last \in new /\ SameKey(last, r) /\ \A q \in new : SameKey(q, r) => last >= q
        BY <2>4, <2>5, <3>1, <4>2
      <4> HIDE DEF last
      <4>4. last \in Nat /\ r \in Nat /\ last \in ok[1] /\ last >= r /\ ok[1] \subseteq Nat
        BY <2>3, <2>4, <3>1, <4>2, <4>3
      <4>5. last = r => \A q \in ok[1] : q > r => ~SameKey(q, r)
        BY <4>1, <4>3, <4>4
      <4>6. last > r \/ last = r
        BY <4>4
      <4>7. last # r => \E q \in ok[1] : q > r /\ SameKey(q, r)
        BY <4>3, <4>4, <4>6
      <4> QED  BY <4>5, <4>7 DEF last
    <3>2. CASE r \in done /\ \E q \in new : SameKey(q, r)
      <4>1. PICK q \in new : SameKey(q, r)
        BY <3>2
      <4>2. q \in ok[1] /\ r < q /\ q \in Nat /\ r \in Nat
        BY <2>3, <2>4, <3>2
      <4>3. q > r /\ r \notin new
        BY <2>3, <3>2, <4>2
      <4>4. last \in new
        BY <2>4, <2>5, <4>1
      <4> QED  BY <4>1, <4>2, <4>3, <4>4
    <3>3. CASE r \in done /\ ~\E q \in new : SameKey(q, r)
      <4>1. last = value[setup.key[r]]
        BY <2>3, <2>4, <2>5, <3>3
      <4> QED  BY <2>3, <3>3, <4>1
    <3> QED  BY <2>3, <3>1, <3>2, <3>3
  <2> QED  BY <1>2, <2>1, <2>2, <2>6
<1> QED  BY <1>3, <1>5, <1>6, <1>7, <1>8, <1>9, <1>10, OneMoves

LEMMA RaisesKeeps ==
    ASSUME LoadInv, NEW a \in Loads!Attempts, pc[a] \in {"batch", "rows", "commit"},
           Loads!Raises(a), Loads!Applied(a) \/ UNCHANGED <<table, value>>, faults' \in 0..MaxFaults
    PROVE  LoadInv'
<1>1. Loads!TypeOK
  BY DEF LoadInv
<1>2. PICK to \in {"error", "raised"} :
      /\ wrote' = [wrote EXCEPT ![a] = Loads!Nothing] /\ todo' = [todo EXCEPT ![a] = {}]
      /\ found' = [found EXCEPT ![a] = "asks"] /\ changed' = [changed EXCEPT ![a] = {}]
      /\ ok' = [ok EXCEPT ![a] = {}] /\ failed' = [failed EXCEPT ![a] = {}]
      /\ pc' = [pc EXCEPT ![a] = to]
      /\ UNCHANGED <<setup, current, next, dropped, redone, overlapped>>
  BY DEF Loads!Raises, Loads!Goes
<1>3. /\ table' \in [Loads!Attempts -> [Loads!Rows -> Nat]] /\ value' \in [Loads!Keys -> 0..N]
      /\ KeysOnce' /\ \A b \in Loads!Attempts \ {a} : table'[b] = table[b]
  BY <1>2, EndedKeepsKeys
<1>4. Loads!Nothing \in [Loads!Rows -> Nat]
  BY DEF Loads!Nothing
<1>5. Loads!TypeOK'
  BY <1>1, <1>2, <1>3, <1>4, KeysOfLoads DEF Loads!TypeOK, Loads!Places, Loads!Rows, Loads!Attempts
<1>6. /\ Alike(a) /\ pc'[a] = to /\ wrote'[a] = Loads!Nothing /\ todo'[a] = {}
      /\ found'[a] = "asks" /\ changed'[a] = {}
  BY <1>1, <1>2, <1>3 DEF Alike, Resting, Loads!TypeOK
<1>7. AttemptFits(a)'
  BY <1>2, <1>6, MoverBegan DEF AttemptFits, Loads!Nothing, Loads!Rows
<1>8. ListsFit(a)'
  BY <1>6 DEF ListsFit, LoadWorks
<1>9. UpsertFits(a)'
  BY <1>6 DEF UpsertFits, Loads!Nothing
<1>10. LatestInv'
  BY <1>2, <1>6, MoverBegan DEF LatestInv, LoadWorks
<1> QED  BY <1>3, <1>5, <1>6, <1>7, <1>8, <1>9, <1>10, OneMoves

LEMMA RetriesKeeps ==
    ASSUME LoadInv, current < MaxAttempts, Loads!StartsAgain, faults' \in 0..MaxFaults,
           \/ pc[current] = "raised" /\ overlapped' = overlapped
           \/ overlapped'
    PROVE  LoadInv'
<1>1. Loads!TypeOK /\ KeysOnce /\ OneWorks
  BY DEF LoadInv
<1> DEFINE a == current + 1
<1>2. /\ current' = a /\ pc' = [pc EXCEPT ![a] = "read"]
      /\ UNCHANGED <<setup, next, todo, found, changed, wrote, ok, failed, dropped, redone, table, value>>
  BY DEF Loads!StartsAgain, Loads!Goes, Loads!targetVars
<1>3. current \in Nat \ {0} /\ a \in Loads!Attempts /\ current < a
      /\ \A b \in Loads!Attempts : b > a <=> b > current /\ b # a
  BY <1>1, ConstantsOfLoads DEF Loads!TypeOK, Loads!Attempts
<1>4. /\ AttemptFits(a) /\ UpsertFits(a) /\ pc[a] = "idle" /\ pc'[a] = "read"
      /\ \A b \in Loads!Attempts \ {a} : pc'[b] = pc[b]
  BY <1>1, <1>2, <1>3 DEF LoadInv, Loads!TypeOK, AttemptFits
<1>5. overlapped' \in BOOLEAN /\ (~overlapped' => ~overlapped /\ pc[current] = "raised")
  BY <1>1 DEF Loads!TypeOK
<1> HIDE DEF a
<1>6. Loads!TypeOK'
  BY <1>1, <1>2, <1>3, <1>5, KeysOfLoads DEF Loads!TypeOK, Loads!Places, Loads!Rows, Loads!Attempts
<1>7. ASSUME NEW b \in Loads!Attempts PROVE AttemptFits(b)'
  <2>1. AttemptFits(b)
    BY DEF LoadInv
  <2> QED
    BY <1>2, <1>3, <1>4, <2>1 DEF AttemptFits, Loads!Upserts, Loads!Nothing, Loads!Rows
<1>8. ASSUME NEW b \in Loads!Attempts PROVE ListsFit(b)'
  <2>1. CASE b = a
    <3>1. \A r \in Loads!Rows : Loads!Nothing[r] = 0
      BY DEF Loads!Nothing
    <3>2. /\ next[a] = 1 /\ ok[a] = {} /\ failed[a] = {} /\ dropped[a] = {} /\ todo[a] = {}
          /\ wrote[a] = Loads!Nothing /\ table[a] = Loads!Nothing
      BY <1>3, <1>4 DEF AttemptFits
    <3> QED
      BY <1>2, <2>1, <3>1, <3>2 DEF ListsFit, Loads!Appends, Loads!Upserts, Loads!Rows
  <2>2. CASE b # a
    <3>1. ListsFit(b)
      BY DEF LoadInv
    <3> QED
      BY <1>2, <1>4, <2>2, <3>1 DEF ListsFit, LoadWorks, SameKey, Loads!Appends, Loads!Upserts, Loads!Rows
  <2> QED  BY <2>1, <2>2
<1>9. ASSUME NEW b \in Loads!Attempts PROVE UpsertFits(b)'
  <2>1. UpsertFits(b)
    BY DEF LoadInv
  <2>2. b = a => found[b] = "asks" /\ changed[b] = {}
    BY <1>1, <1>3, <1>4 DEF UpsertFits, Loads!TypeOK
  <2>3. \A r \in Loads!Rows : Loads!Nothing[r] = 0
    BY DEF Loads!Nothing
  <2>4. b = a => \A r \in Loads!Rows : wrote[b][r] = 0
    BY <1>3, <1>4, <2>3 DEF AttemptFits
  <2> QED
    BY <1>2, <1>4, <1>5, <2>1, <2>2, <2>4
    DEF UpsertFits, SameKey, Loads!Upserts, Loads!NextRow, Loads!Rows, Loads!Attempts
<1>10. OneWorks'
  BY <1>1, <1>2, <1>4, <1>5 DEF OneWorks, Resting, Loads!Attempts
<1>11. KeysOnce'
  BY <1>1, <1>2, <1>5 DEF KeysOnce, Holds, SameKey, Loads!Upserts, Loads!Rows, Loads!Attempts
<1>12. LatestInv'
  BY <1>2, <1>3 DEF LatestInv
<1> QED  BY <1>6, <1>7, <1>8, <1>9, <1>10, <1>11, <1>12 DEF LoadInv, Loads!Attempts

\* Every step keeps the invariant.
LEMMA LoadsKeep == LoadInv /\ [Loads!Next]_loadVars => LoadInv'
<1> SUFFICES ASSUME LoadInv, [Loads!Next]_loadVars PROVE LoadInv'
  OBVIOUS
<1>1. ASSUME NEW a \in Loads!Attempts, Loads!Step(a) PROVE LoadInv'
  <2>1. CASE Loads!RowRefusedRaises(a)
    <3>1. faults' \in 0..MaxFaults
      BY <2>1, ConstantsOfLoads
      DEF Loads!RowRefusedRaises, Loads!Refuses, Loads!Fault, LoadInv, Loads!TypeOK
    <3> QED  BY <2>1, <3>1, RaisesKeeps DEF Loads!RowRefusedRaises, Loads!targetVars
  <2>2. CASE Loads!ConnectionBreaks(a)
    <3>1. faults' \in 0..MaxFaults
      BY <2>2, ConstantsOfLoads DEF Loads!ConnectionBreaks, Loads!Fault, LoadInv, Loads!TypeOK
    <3> QED  BY <2>2, <3>1, RaisesKeeps DEF Loads!ConnectionBreaks, Loads!targetVars
  <2> QED
    BY <1>1, <2>1, <2>2, ReadsKeeps, FinishesKeeps, DltLoadsKeeps, DltFailsKeeps, BatchGoesInKeeps,
       BatchRefusedKeeps, LooksUpKeeps, RowGoesInKeeps, RowRefusedKeeps, CommitsKeeps
    DEF Loads!Step
<1>2. ASSUME Loads!RetriesFailed \/ Loads!RetriesExpired PROVE LoadInv'
  <2>1. faults' \in 0..MaxFaults
    BY <1>2, ConstantsOfLoads
    DEF Loads!RetriesFailed, Loads!RetriesExpired, Loads!Fault, LoadInv, Loads!TypeOK
  <2> QED  BY <1>2, <2>1, RetriesKeeps DEF Loads!RetriesFailed, Loads!RetriesExpired
<1>3. CASE UNCHANGED loadVars
  <2>1. Loads!TypeOK'
    BY <1>3 DEF loadVars, LoadInv, Loads!TypeOK, Loads!Rows, Loads!Attempts, Loads!Keys
  <2>2. ASSUME NEW a \in Loads!Attempts PROVE AttemptFits(a)' /\ ListsFit(a)' /\ UpsertFits(a)'
    <3>1. AttemptFits(a) /\ ListsFit(a) /\ UpsertFits(a)
      BY DEF LoadInv
    <3>2. AttemptFits(a)'
      BY <1>3, <3>1 DEF loadVars, AttemptFits, Loads!Appends, Loads!Upserts, Loads!Nothing, Loads!Rows
    <3>3. ListsFit(a)'
      BY <1>3, <3>1 DEF loadVars, ListsFit, LoadWorks, SameKey, Loads!Appends, Loads!Upserts, Loads!Rows
    <3>4. UpsertFits(a)'
      BY <1>3, <3>1
      DEF loadVars, UpsertFits, SameKey, Loads!Upserts, Loads!NextRow, Loads!Rows, Loads!Attempts
    <3> QED  BY <3>2, <3>3, <3>4
  <2>3. KeysOnce' /\ OneWorks'
    BY <1>3
    DEF loadVars, LoadInv, KeysOnce, Holds, OneWorks, SameKey, Loads!Upserts, Loads!Rows, Loads!Attempts
  <2>4. LatestInv'
    BY <1>3
    DEF loadVars, LoadInv, LatestInv, LoadWorks, Saved, SameKey, Loads!Upserts, Loads!Rows
  <2> QED  BY <2>1, <2>2, <2>3, <2>4 DEF LoadInv, Loads!Attempts
<1> QED  BY <1>1, <1>2, <1>3 DEF Loads!Next

LEMMA LoadInvHolds == NodesSpec => []LoadInv
<1>1. NodesInit => LoadInv
  BY LoadsStart DEF NodesInit
<1>2. LoadInv /\ [NodesNext]_<<part, vars, loadVars, job, out, cacheVars>> => LoadInv'
  <2>1. [NodesNext]_<<part, vars, loadVars, job, out, cacheVars>> => [Loads!Next]_loadVars
    BY DEF NodesNext
  <2> QED  BY <2>1, LoadsKeep
<1> QED  BY <1>1, <1>2, PTL DEF NodesSpec

\* The report of an attempt has each row it read in one list, and what it appended is what it
\* reports, for any rows, chunks, configurations, retries and faults (load_service.py, insert).
THEOREM LoadReportsAreExact == NodesSpec => []ReportExact
<1>1. LoadInv => ReportExact
  <2> SUFFICES ASSUME LoadInv PROVE Loads!ReportExact
    BY DEF ReportExact
  <2>1. \A a \in Loads!Attempts : Loads!Between(a) =>
          ListsFit(a) /\ LoadWorks(a) /\ todo[a] = {} /\ wrote[a] = Loads!Nothing
    BY DEF LoadInv, AttemptFits, LoadWorks, Loads!Between
  <2>2. Loads!EachRowAccounted
    BY <2>1 DEF Loads!EachRowAccounted, ListsFit, SameKey
  <2>3. Loads!AppendsAsReported
    <3> SUFFICES ASSUME Loads!Appends, NEW a \in Loads!Attempts, Loads!Between(a), ~redone[a],
                        NEW r \in Loads!Rows
                 PROVE  table[a][r] = IF r \in ok[a] THEN 1 ELSE 0
      BY DEF Loads!AppendsAsReported
    <3>1. table[a][r] \in Nat /\ wrote[a][r] = 0
      BY <2>1 DEF LoadInv, Loads!TypeOK, Loads!Nothing
    <3>2. table[a][r] + wrote[a][r] = IF r \in ok[a] THEN 1 ELSE 0
      BY <2>1 DEF ListsFit
    <3> QED  BY <3>1, <3>2
  <2> QED  BY <2>2, <2>3 DEF LoadInv, Loads!ReportExact
<1> QED  BY <1>1, LoadInvHolds, PTL

\* However often an upsert is repeated, overtaken or cut off, there is one row for a key, unless
\* the target has no unique index and attempts overlapped; where nothing was repeated it is the
\* last reported one (load_service.py, _upsert_via_sqlalchemy, _upsert_with_returning).
THEOREM UpsertsKeepTheLast == NodesSpec => []UpsertKeepsLast
<1>1. LoadInv => UpsertKeepsLast
  <2> SUFFICES ASSUME LoadInv, Loads!Upserts PROVE Loads!UpsertKeepsLast
    BY DEF UpsertKeepsLast, Loads!UpsertKeepsLast
  <2>1. ASSUME setup.indexed \/ ~overlapped, NEW k PROVE Cardinality(Loads!Copies(k)) <= 1
    <3> DEFINE C == Loads!Copies(k)
    <3>1. \A x, y \in C : x = y
      <4> SUFFICES ASSUME NEW x \in C, NEW y \in C PROVE x = y
        OBVIOUS
      <4>1. /\ x = <<x[1], x[2]>> /\ y = <<y[1], y[2]>>
            /\ x[1] \in Loads!Attempts /\ y[1] \in Loads!Attempts
            /\ x[2] \in Loads!Rows /\ y[2] \in Loads!Rows /\ SameKey(x[2], y[2])
            /\ Holds(x[1], x[2]) /\ Holds(y[1], y[2])
        BY DEF Loads!Copies, SameKey, Holds
      <4>2. x[1] = y[1] /\ x[2] = y[2]
        BY <2>1, <4>1 DEF LoadInv, KeysOnce
      <4> QED  BY <4>1, <4>2
    <3> HIDE DEF C
    <3>2. CASE C = {}
      <4>1. Cardinality(C) <= 1
        BY <3>2, FS_EmptySet
      <4> QED  BY <4>1 DEF C
    <3>3. CASE C # {}
      <4>0. PICK x \in C : TRUE
        BY <3>3
      <4>1. C = {x}
        BY <3>1, <4>0
      <4>2. Cardinality({x}) = 1
        BY FS_Singleton
      <4>3. Cardinality(C) <= 1
        BY <4>1, <4>2
      <4> QED  BY <4>3 DEF C
    <3> QED  BY <3>2, <3>3
  <2>2. ASSUME current = 1, Loads!Between(1), NEW r \in ok[1]
        PROVE  value[setup.key[r]] = r <=> \A q \in ok[1] : q > r => setup.key[q] # setup.key[r]
    <3>1. 1 \in Loads!Attempts
      BY ConstantsOfLoads DEF Loads!Attempts
    <3>2. LoadWorks(1) /\ changed[1] = {}
      BY <2>2, <3>1 DEF LoadInv, UpsertFits, LoadWorks, Loads!Between
    <3>3. Saved(1) = ok[1]
      BY <3>2 DEF Saved
    <3> QED  BY <2>2, <3>2, <3>3 DEF LoadInv, LatestInv, SameKey
  <2>3. \A S : Loads!Cardinality(S) = Cardinality(S)
    BY DEF Loads!Cardinality, Cardinality
  <2>4. setup.indexed \/ ~overlapped => Loads!OneRowEach
    BY <2>1, <2>3 DEF Loads!OneRowEach
  <2> QED  BY <2>2, <2>4 DEF Loads!UpsertKeepsLast
<1> QED  BY <1>1, LoadInvHolds, PTL

-----------------------------------------------------------------------------
(* Rows that are routed *)

Truths == BOOLEAN \union {Null}

LEMMA NullIsNoTruth == Null # TRUE /\ Null # FALSE /\ Null \notin Values
BY JobsAssumption DEF Tables!Shapes

\* The three-valued connectives.
LEMMA Connectives ==
    ASSUME NEW truths \in SUBSET Truths
    PROVE  /\ Tables!Conj(truths) \in Truths
           /\ Tables!Conj(truths) = TRUE <=> truths \subseteq {TRUE}
           /\ Tables!Conj(truths) = FALSE <=> FALSE \in truths
           /\ Tables!Conj(truths) = Null => Null \in truths
           /\ Tables!Disj(truths) \in Truths
           /\ Tables!Disj(truths) = TRUE <=> TRUE \in truths
           /\ Tables!Disj(truths) = FALSE <=> truths \subseteq {FALSE}
           /\ Tables!Disj(truths) = Null => Null \in truths
<1>1. ASSUME NEW ts \in SUBSET Truths
      PROVE  /\ Tables!Conj(ts) \in Truths
             /\ Tables!Conj(ts) = TRUE <=> ts \subseteq {TRUE}
             /\ Tables!Conj(ts) = FALSE <=> FALSE \in ts
             /\ Tables!Conj(ts) = Null => Null \in ts
  <2>1. CASE FALSE \in ts
    BY <2>1, NullIsNoTruth DEF Tables!Conj, Truths
  <2>2. CASE FALSE \notin ts /\ Null \in ts
    BY <2>2, NullIsNoTruth DEF Tables!Conj, Truths
  <2>3. CASE FALSE \notin ts /\ Null \notin ts
    <3>1. ts \subseteq {TRUE}
      BY <2>3 DEF Truths
    <3>2. Tables!Conj(ts) = TRUE
      BY <2>3 DEF Tables!Conj
    <3> QED  BY <2>3, <3>1, <3>2, NullIsNoTruth DEF Truths
  <2> QED  BY <2>1, <2>2, <2>3
<1> DEFINE negs == {Tables!Neg(t) : t \in truths}
<1>2. Tables!Neg(TRUE) = FALSE /\ Tables!Neg(FALSE) = TRUE /\ Tables!Neg(Null) = Null
  BY NullIsNoTruth DEF Tables!Neg
<1>3. negs \in SUBSET Truths
  BY <1>2 DEF Truths
<1>4. /\ FALSE \in negs <=> TRUE \in truths
      /\ Null \in negs <=> Null \in truths
      /\ negs \subseteq {TRUE} <=> truths \subseteq {FALSE}
  BY <1>2, NullIsNoTruth DEF Truths
<1>5. Tables!Disj(truths) = Tables!Neg(Tables!Conj(negs))
  BY DEF Tables!Disj
<1> HIDE DEF negs
<1>6. /\ Tables!Conj(negs) \in Truths
      /\ Tables!Conj(negs) = TRUE <=> negs \subseteq {TRUE}
      /\ Tables!Conj(negs) = FALSE <=> FALSE \in negs
      /\ Tables!Conj(negs) = Null => Null \in negs
  BY <1>1, <1>3
<1>7. /\ Tables!Disj(truths) \in Truths
      /\ Tables!Disj(truths) = TRUE <=> TRUE \in truths
      /\ Tables!Disj(truths) = FALSE <=> truths \subseteq {FALSE}
      /\ Tables!Disj(truths) = Null => Null \in truths
  <2>1. CASE Tables!Conj(negs) = TRUE
    BY <1>2, <1>4, <1>5, <1>6, <2>1, NullIsNoTruth DEF Truths
  <2>2. CASE Tables!Conj(negs) = FALSE
    BY <1>2, <1>4, <1>5, <1>6, <2>2, NullIsNoTruth DEF Truths
  <2>3. CASE Tables!Conj(negs) = Null
    BY <1>2, <1>4, <1>5, <1>6, <2>3, NullIsNoTruth DEF Truths
  <2> QED  BY <1>6, <2>1, <2>2, <2>3 DEF Truths
<1> QED  BY <1>1, <1>7

LEMMA Equality ==
    ASSUME NEW x \in Tables!Cells, NEW y \in Tables!Cells
    PROVE  /\ Tables!Equal(x, y) \in Truths
           /\ Tables!Equal(x, y) = TRUE <=> x = y /\ x # Null
           /\ Tables!Equal(x, y) = FALSE <=> x # y /\ x # Null /\ y # Null
           /\ Tables!Equal(x, y) = Null <=> x = Null \/ y = Null
<1>1. CASE Null \in {x, y}
  BY <1>1, NullIsNoTruth DEF Tables!Equal, Tables!Compared, Truths
<1>2. CASE Null \notin {x, y} /\ x = y
  BY <1>2, NullIsNoTruth DEF Tables!Equal, Tables!Compared, Truths
<1>3. CASE Null \notin {x, y} /\ x # y
  BY <1>3, NullIsNoTruth DEF Tables!Equal, Tables!Compared, Truths
<1> QED  BY <1>1, <1>2, <1>3

WellFormed(c, x) ==
    /\ c.op \in Tables!Operators /\ c.arg \in Tables!Cells /\ c.list \subseteq Tables!Cells
    /\ x \in Tables!Cells
\* what a clause says with a value, apart from how it treats letters
ClauseFits(c, x, truth) ==
    /\ truth \in Truths
    /\ truth = Null => c.op \notin Tables!NullTests /\ Null \in Tables!Arguments(c) \union {x}
\* what the mode for records makes of it
PassFits(c, x, truth) ==
    /\ truth = TRUE => Tables!Passes(c, x) = TRUE
    /\ truth = FALSE => Tables!Passes(c, x) = FALSE

LEMMA Listed ==
    ASSUME NEW x \in Tables!Cells, NEW list \in SUBSET Tables!Cells
    PROVE  LET some == Tables!Disj({Tables!Equal(x, a) : a \in list})
           IN  /\ some \in Truths
               /\ some = TRUE => x \in list
               /\ some = FALSE => x \notin list
               /\ some = Null => Null \in list \union {x}
<1> DEFINE truths == {Tables!Equal(x, a) : a \in list}
           some == Tables!Disj(truths)
<1>1. truths \in SUBSET Truths
  BY ZenonT(40), Equality
<1>2. TRUE \in truths => x \in list
  BY Equality
<1>3. truths \subseteq {FALSE} => x \notin list
  <2>1. SUFFICES ASSUME x \in list, truths \subseteq {FALSE} PROVE FALSE
    OBVIOUS
  <2>2. Tables!Equal(x, x) \in truths
    BY <2>1
  <2>3. Tables!Equal(x, x) = FALSE
    BY <2>1, <2>2
  <2> QED  BY <2>3, Equality
<1>4. Null \in truths => Null \in list \union {x}
  BY Equality
<1> HIDE DEF truths
<1>5. /\ some \in Truths
      /\ some = TRUE <=> TRUE \in truths
      /\ some = FALSE <=> truths \subseteq {FALSE}
      /\ some = Null => Null \in truths
  BY <1>1, Connectives
<1> QED  BY <1>2, <1>3, <1>4, <1>5 DEF truths

\* One condition: what each of the three readings makes of a value.
LEMMA Clauses ==
    ASSUME NEW c, NEW x, WellFormed(c, x), NEW b \in BOOLEAN
    PROVE  /\ ClauseFits(c, x, Tables!Clause(c, x, b))
           /\ PassFits(c, x, Tables!Clause(c, x, TRUE))
           /\ Tables!Clause(c, x, FALSE) = TRUE => Tables!Clause(c, x, TRUE) = TRUE
           /\ c.op \notin Tables!TextSearch => Tables!Clause(c, x, FALSE) = Tables!Clause(c, x, TRUE)
<1> USE NullIsNoTruth
<1> DEFINE equal == Tables!Equal(x, c.arg)
           some == Tables!Disj({Tables!Equal(x, a) : a \in c.list})
<1>0. c.arg \in Tables!Cells /\ x \in Tables!Cells /\ c.list \in SUBSET Tables!Cells
  BY DEF WellFormed
<1>1. /\ equal \in Truths
      /\ equal = TRUE <=> x = c.arg /\ x # Null
      /\ equal = FALSE <=> x # c.arg /\ x # Null /\ c.arg # Null
      /\ equal = Null <=> x = Null \/ c.arg = Null
  BY <1>0, Equality
<1>2. /\ some \in Truths
      /\ some = TRUE => x \in c.list
      /\ some = FALSE => x \notin c.list
      /\ some = Null => Null \in c.list \union {x}
  BY <1>0, Listed
<1> HIDE DEF equal, some
<1>3. CASE c.op = "eq"
  <2>1. Tables!Clause(c, x, b) = equal /\ Tables!Clause(c, x, FALSE) = equal /\ Tables!Clause(c, x, TRUE) = equal
    BY <1>3 DEF Tables!Clause, Tables!TextSearch, equal
  <2>2. Tables!Passes(c, x) = (x # Null /\ x = c.arg)
    BY <1>3 DEF Tables!Passes, Tables!TextSearch
  <2> QED  BY <1>1, <1>3, <2>1, <2>2
             DEF ClauseFits, PassFits, Tables!Arguments, Tables!NullTests, Truths
<1>4. CASE c.op = "ne"
  <2>1. Tables!Clause(c, x, b) = Tables!Neg(equal) /\ Tables!Clause(c, x, FALSE) = Tables!Neg(equal)
        /\ Tables!Clause(c, x, TRUE) = Tables!Neg(equal)
    BY <1>4 DEF Tables!Clause, Tables!TextSearch, equal
  <2>2. Tables!Passes(c, x) = (x # Null /\ x # c.arg)
    BY <1>4 DEF Tables!Passes, Tables!TextSearch
  <2> QED  BY <1>1, <1>4, <2>1, <2>2
             DEF ClauseFits, PassFits, Tables!Arguments, Tables!NullTests, Truths, Tables!Neg
<1>5. CASE c.op = "gt"
  <2>1. /\ Tables!Clause(c, x, b) = Tables!Compared(x, c.arg, x > c.arg)
        /\ Tables!Clause(c, x, FALSE) = Tables!Compared(x, c.arg, x > c.arg)
        /\ Tables!Clause(c, x, TRUE) = Tables!Compared(x, c.arg, x > c.arg)
    BY <1>5 DEF Tables!Clause, Tables!TextSearch
  <2>2. Tables!Passes(c, x) = (x # Null /\ c.arg # Null /\ x > c.arg)
    BY <1>5 DEF Tables!Passes, Tables!TextSearch
  <2>3. CASE Null \in {x, c.arg}
    BY <1>5, <2>1, <2>3
       DEF ClauseFits, PassFits, Tables!Arguments, Tables!NullTests, Truths, Tables!Compared
  <2>4. CASE Null \notin {x, c.arg}
    <3>1. x \in Int /\ c.arg \in Int
      BY <1>0, <2>4, JobsAssumption DEF Tables!Shapes, Tables!Cells
    <3>2. Tables!Clause(c, x, b) = (x > c.arg) /\ Tables!Clause(c, x, FALSE) = (x > c.arg)
          /\ Tables!Clause(c, x, TRUE) = (x > c.arg)
      BY <2>1, <2>4 DEF Tables!Compared
    <3> DEFINE holds == x > c.arg
    <3>3. holds \in BOOLEAN
      BY <3>1
    <3>4. /\ Tables!Clause(c, x, b) = holds /\ Tables!Clause(c, x, FALSE) = holds
          /\ Tables!Clause(c, x, TRUE) = holds
      BY <3>2
    <3>5. Tables!Passes(c, x) = holds
      BY <2>2, <2>4, <3>3
    <3> HIDE DEF holds
    <3> QED  BY <3>3, <3>4, <3>5 DEF ClauseFits, PassFits, Truths
  <2> QED  BY <2>3, <2>4
<1>6. CASE c.op \in Tables!NullTests
  <2>1. /\ c.op = "is_null" => Tables!Clause(c, x, b) = (x = Null)
                               /\ Tables!Clause(c, x, FALSE) = (x = Null)
                               /\ Tables!Clause(c, x, TRUE) = (x = Null)
        /\ c.op = "is_not_null" => Tables!Clause(c, x, b) = (x # Null)
                               /\ Tables!Clause(c, x, FALSE) = (x # Null)
                               /\ Tables!Clause(c, x, TRUE) = (x # Null)
    BY <1>6 DEF Tables!Clause, Tables!TextSearch, Tables!NullTests
  <2>2. /\ c.op = "is_null" => Tables!Passes(c, x) = (x = Null)
        /\ c.op = "is_not_null" => Tables!Passes(c, x) = (x # Null)
    BY <1>6 DEF Tables!Passes, Tables!TextSearch, Tables!NullTests
  <2> QED  BY <1>6, <2>1, <2>2 DEF ClauseFits, PassFits, Tables!NullTests, Truths
<1>7. CASE c.op = "in"
  <2>1. Tables!Clause(c, x, b) = some /\ Tables!Clause(c, x, FALSE) = some /\ Tables!Clause(c, x, TRUE) = some
    BY <1>7 DEF Tables!Clause, Tables!TextSearch, some
  <2>2. Tables!Passes(c, x) = (x \in c.list)
    BY <1>7 DEF Tables!Passes, Tables!TextSearch
  <2>3. some = TRUE => Tables!Passes(c, x) = TRUE
    BY <1>2, <2>2
  <2>4. ASSUME some = FALSE PROVE Tables!Passes(c, x) = FALSE
    <3>1. (x \in c.list) = FALSE
      BY <1>2, <2>4
    <3> QED  BY <2>2, <3>1
  <2>5. some = Null => c.op \notin Tables!NullTests /\ Null \in Tables!Arguments(c) \union {x}
    BY <1>2, <1>7 DEF Tables!Arguments, Tables!NullTests
  <2> QED  BY <1>2, <2>1, <2>3, <2>4, <2>5 DEF ClauseFits, PassFits
<1>8. CASE c.op = "not_in"
  <2>1. Tables!Clause(c, x, b) = Tables!Neg(some) /\ Tables!Clause(c, x, FALSE) = Tables!Neg(some)
        /\ Tables!Clause(c, x, TRUE) = Tables!Neg(some)
    BY <1>8 DEF Tables!Clause, Tables!TextSearch, some
  <2>2. Tables!Passes(c, x) = (x \notin c.list)
    BY <1>8 DEF Tables!Passes, Tables!TextSearch
  <2> QED  BY <1>2, <1>8, <2>1, <2>2
             DEF ClauseFits, PassFits, Tables!Arguments, Tables!NullTests, Truths, Tables!Neg
<1>9. CASE c.op \in Tables!TextSearch
  <2>1. /\ Tables!Clause(c, x, FALSE) = IF x = Null THEN Null ELSE x = c.arg
        /\ Tables!Clause(c, x, TRUE) = IF x = Null THEN Null ELSE Tables!Similar(x, c.arg)
    BY <1>9 DEF Tables!Clause, Tables!TextSearch
  <2>2. Tables!Passes(c, x) = (x # Null /\ Tables!Similar(x, c.arg))
    BY <1>9 DEF Tables!Passes, Tables!TextSearch
  <2>3. Tables!Similar(x, c.arg) \in BOOLEAN /\ (x # Null /\ x = c.arg => Tables!Similar(x, c.arg))
    BY DEF Tables!Similar
  <2>4. c.arg = Null => ~Tables!Similar(x, c.arg)
    BY DEF Tables!Similar
  <2>5. Tables!Clause(c, x, b) = Tables!Clause(c, x, FALSE) \/ Tables!Clause(c, x, b) = Tables!Clause(c, x, TRUE)
    OBVIOUS
  <2>6. CASE x = Null
    <3>1. Tables!Clause(c, x, b) = Null /\ Tables!Clause(c, x, FALSE) = Null
          /\ Tables!Clause(c, x, TRUE) = Null
      BY <2>1, <2>5, <2>6
    <3>2. c.op \notin Tables!NullTests
      BY <1>9 DEF Tables!TextSearch, Tables!NullTests
    <3> QED  BY <1>9, <2>6, <3>1, <3>2 DEF ClauseFits, PassFits, Truths
  <2>7. CASE x # Null
    <3> DEFINE similar == Tables!Similar(x, c.arg)
               same == x = c.arg
    <3>1. Tables!Clause(c, x, FALSE) = same /\ Tables!Clause(c, x, TRUE) = similar
      BY <2>1, <2>7
    <3>2. Tables!Passes(c, x) = similar
      BY <2>2, <2>3, <2>7
    <3>3. similar \in BOOLEAN /\ same \in BOOLEAN /\ (same => similar)
      BY <2>3, <2>7
    <3> HIDE DEF similar, same
    <3>4. Tables!Clause(c, x, b) \in BOOLEAN
      BY <2>5, <3>1, <3>3
    <3>5. Tables!Clause(c, x, b) # Null
      BY <3>4
    <3> QED  BY <1>9, <3>1, <3>2, <3>3, <3>4, <3>5 DEF ClauseFits, PassFits, Truths
  <2> QED  BY <2>6, <2>7
<1> QED  BY <1>3, <1>4, <1>5, <1>6, <1>7, <1>8, <1>9 DEF WellFormed, Tables!Operators, Tables!NullTests

\* All conditions of the job: what the readings make of a row.
RowReads(line) ==
    /\ \A b \in BOOLEAN : Tables!Where(line, b) \in Truths
    /\ \A b \in BOOLEAN : Tables!Where(line, b) = Null =>
         \E c \in job.conditions : /\ c.op \notin Tables!NullTests
                                   /\ Null \in Tables!Arguments(c) \union {line[c.field]}
    /\ Tables!Where(line, TRUE) = TRUE => Tables!Gate(line) = "true"
    /\ Tables!Where(line, TRUE) = FALSE => Tables!Gate(line) = "false"
    /\ Tables!Where(line, FALSE) = TRUE => Tables!Where(line, TRUE) = TRUE
    /\ (\A c \in job.conditions : c.op \notin Tables!TextSearch) =>
         Tables!Where(line, FALSE) = Tables!Where(line, TRUE)

LEMMA Wheres ==
    ASSUME NEW line, job.logic \in {"AND", "OR"},
           \A c \in job.conditions : WellFormed(c, line[c.field])
    PROVE  RowReads(line)
<1> DEFINE truths(b) == {Tables!Clause(c, line[c.field], b) : c \in job.conditions}
           passes == {Tables!Passes(c, line[c.field]) : c \in job.conditions}
<1>1. \A c \in job.conditions : \A b \in BOOLEAN : ClauseFits(c, line[c.field], Tables!Clause(c, line[c.field], b))
  BY Clauses
<1>2. \A c \in job.conditions : PassFits(c, line[c.field], Tables!Clause(c, line[c.field], TRUE))
  BY Clauses
<1>3. \A c \in job.conditions :
        /\ Tables!Clause(c, line[c.field], FALSE) = TRUE => Tables!Clause(c, line[c.field], TRUE) = TRUE
        /\ c.op \notin Tables!TextSearch =>
             Tables!Clause(c, line[c.field], FALSE) = Tables!Clause(c, line[c.field], TRUE)
  BY Clauses
<1>4. \A b \in BOOLEAN : truths(b) \in SUBSET Truths
  BY <1>1 DEF ClauseFits
<1>5. \A b \in BOOLEAN : Tables!Where(line, b) =
        IF truths(b) = {} THEN TRUE
        ELSE IF job.logic = "AND" THEN Tables!Conj(truths(b)) ELSE Tables!Disj(truths(b))
  BY DEF Tables!Where
<1>6. Tables!Gate(line) =
        IF passes = {} \/ (IF job.logic = "AND" THEN FALSE \notin passes ELSE TRUE \in passes)
        THEN "true" ELSE "false"
  BY DEF Tables!Gate
<1>7. ASSUME NEW b \in BOOLEAN
      PROVE  /\ Tables!Conj(truths(b)) \in Truths
             /\ Tables!Conj(truths(b)) = TRUE <=> truths(b) \subseteq {TRUE}
             /\ Tables!Conj(truths(b)) = FALSE <=> FALSE \in truths(b)
             /\ Tables!Conj(truths(b)) = Null => Null \in truths(b)
             /\ Tables!Disj(truths(b)) \in Truths
             /\ Tables!Disj(truths(b)) = TRUE <=> TRUE \in truths(b)
             /\ Tables!Disj(truths(b)) = FALSE <=> truths(b) \subseteq {FALSE}
             /\ Tables!Disj(truths(b)) = Null => Null \in truths(b)
  <2> HIDE DEF truths
  <2> QED  BY <1>4, Connectives
<1>8. ASSUME NEW b \in BOOLEAN
      PROVE  /\ Tables!Where(line, b) \in Truths
             /\ Tables!Where(line, b) = Null => Null \in truths(b)
  <2> HIDE DEF truths
  <2>1. CASE truths(b) = {}
    BY <1>5, <2>1, NullIsNoTruth DEF Truths
  <2>2. CASE truths(b) # {}
    BY <1>5, <1>7, <2>2
  <2> QED  BY <2>1, <2>2
<1>9. ASSUME NEW b \in BOOLEAN, Tables!Where(line, b) = Null
      PROVE  \E c \in job.conditions : /\ c.op \notin Tables!NullTests
                                       /\ Null \in Tables!Arguments(c) \union {line[c.field]}
  <2>1. PICK c \in job.conditions : Tables!Clause(c, line[c.field], b) = Null
    BY <1>8, <1>9
  <2> QED  BY <1>1, <2>1 DEF ClauseFits
<1>10. /\ truths(TRUE) \subseteq {TRUE} => FALSE \notin passes
       /\ FALSE \in truths(TRUE) => FALSE \in passes
       /\ TRUE \in truths(TRUE) => TRUE \in passes
       /\ truths(TRUE) \subseteq {FALSE} => TRUE \notin passes
       /\ passes = {} <=> truths(TRUE) = {}
  <2>1. truths(TRUE) \subseteq {TRUE} => FALSE \notin passes
    <3>1. SUFFICES ASSUME truths(TRUE) \subseteq {TRUE}, NEW c \in job.conditions,
                          Tables!Passes(c, line[c.field]) = FALSE
                   PROVE  FALSE
      OBVIOUS
    <3>2. Tables!Clause(c, line[c.field], TRUE) = TRUE
      BY <3>1
    <3> QED  BY <1>2, <3>1, <3>2 DEF PassFits
  <2>2. FALSE \in truths(TRUE) => FALSE \in passes
    BY <1>2 DEF PassFits
  <2>3. TRUE \in truths(TRUE) => TRUE \in passes
    BY <1>2 DEF PassFits
  <2>4. truths(TRUE) \subseteq {FALSE} => TRUE \notin passes
    <3>1. SUFFICES ASSUME truths(TRUE) \subseteq {FALSE}, NEW c \in job.conditions,
                          Tables!Passes(c, line[c.field]) = TRUE
                   PROVE  FALSE
      OBVIOUS
    <3>2. Tables!Clause(c, line[c.field], TRUE) = FALSE
      BY <3>1
    <3> QED  BY <1>2, <3>1, <3>2 DEF PassFits
  <2>5. passes = {} <=> truths(TRUE) = {}
    OBVIOUS
  <2> QED  BY <2>1, <2>2, <2>3, <2>4, <2>5
<1>11. /\ Tables!Where(line, TRUE) = TRUE => Tables!Gate(line) = "true"
       /\ Tables!Where(line, TRUE) = FALSE => Tables!Gate(line) = "false"
  <2> HIDE DEF truths, passes
  <2>1. CASE truths(TRUE) = {}
    BY <1>5, <1>6, <1>10, <2>1
  <2>2. CASE truths(TRUE) # {} /\ job.logic = "AND"
    BY <1>5, <1>6, <1>7, <1>10, <2>2
  <2>3. CASE truths(TRUE) # {} /\ job.logic = "OR"
    BY <1>5, <1>6, <1>7, <1>10, <2>3
  <2> QED  BY <2>1, <2>2, <2>3
<1>12. /\ truths(FALSE) \subseteq {TRUE} => truths(TRUE) \subseteq {TRUE}
       /\ TRUE \in truths(FALSE) => TRUE \in truths(TRUE)
       /\ truths(FALSE) = {} <=> truths(TRUE) = {}
  <2>1. truths(FALSE) \subseteq {TRUE} => truths(TRUE) \subseteq {TRUE}
    <3>1. SUFFICES ASSUME truths(FALSE) \subseteq {TRUE}, NEW c \in job.conditions
                   PROVE  Tables!Clause(c, line[c.field], TRUE) = TRUE
      OBVIOUS
    <3>2. Tables!Clause(c, line[c.field], FALSE) = TRUE
      BY <3>1
    <3> QED  BY <1>3, <3>2
  <2>2. TRUE \in truths(FALSE) => TRUE \in truths(TRUE)
    BY <1>3
  <2>3. truths(FALSE) = {} <=> truths(TRUE) = {}
    OBVIOUS
  <2> QED  BY <2>1, <2>2, <2>3
<1>13. Tables!Where(line, FALSE) = TRUE => Tables!Where(line, TRUE) = TRUE
  <2> HIDE DEF truths
  <2>1. CASE truths(TRUE) = {}
    BY <1>5, <2>1
  <2>2. CASE truths(TRUE) # {} /\ job.logic = "AND"
    BY <1>5, <1>7, <1>12, <2>2
  <2>3. CASE truths(TRUE) # {} /\ job.logic = "OR"
    BY <1>5, <1>7, <1>12, <2>3
  <2> QED  BY <2>1, <2>2, <2>3
<1>14. ASSUME \A c \in job.conditions : c.op \notin Tables!TextSearch
       PROVE  Tables!Where(line, FALSE) = Tables!Where(line, TRUE)
  <2>1. truths(FALSE) = truths(TRUE)
    BY <1>3, <1>14
  <2>2. \A b \in BOOLEAN : Tables!Where(line, b) =
          IF truths(TRUE) = {} THEN TRUE
          ELSE IF job.logic = "AND" THEN Tables!Conj(truths(TRUE)) ELSE Tables!Disj(truths(TRUE))
    <3>1. \A b \in BOOLEAN : truths(b) = truths(TRUE)
      BY <2>1
    <3> HIDE DEF truths
    <3> QED  BY <1>5, <3>1
  <2>3. FALSE \in BOOLEAN /\ TRUE \in BOOLEAN
    OBVIOUS
  <2> HIDE DEF truths
  <2> DEFINE same == IF truths(TRUE) = {} THEN TRUE
                     ELSE IF job.logic = "AND" THEN Tables!Conj(truths(TRUE))
                     ELSE Tables!Disj(truths(TRUE))
  <2>4. \A b \in BOOLEAN : Tables!Where(line, b) = same
    BY <2>2
  <2> HIDE DEF same
  <2> QED  BY <2>3, <2>4, Zenon
<1> QED  BY <1>8, <1>9, <1>11, <1>13, <1>14 DEF RowReads

\* The branches of an if_node joined again: a union that only hears branches with rows.
LEMMA BranchesJoined ==
    ASSUME NEW t, NEW f, NEW keys,
           NEW merged \in Tables!Unions(Tables!Arriving(1, t) \o Tables!Arriving(2, f), keys, None)
    PROVE  merged = IF t = {} \/ f = {} THEN Raised ELSE t \union f
<1> DEFINE sources == Tables!Arriving(1, t) \o Tables!Arriving(2, f)
           one == [handle |-> 1, rows |-> t]
           two == [handle |-> 2, rows |-> f]
           handles == Tables!Handles(sources)
           rows == Tables!RowsIn(sources)
<1>1. merged = IF Tables!Cardinality(handles) < 2 THEN Raised ELSE rows
  BY DEF Tables!Unions
<1>2. \A S : Tables!Cardinality(S) = Cardinality(S)
  BY DEF Tables!Cardinality, Cardinality
<1>3. Cardinality({}) = 0 /\ Cardinality({1}) = 1 /\ Cardinality({2}) = 1 /\ Cardinality({1, 2}) = 2
  <2>1. Cardinality({}) = 0 /\ Cardinality({1}) = 1 /\ Cardinality({2}) = 1
    BY FS_EmptySet, FS_Singleton
  <2>2. Cardinality({1} \union {2}) = Cardinality({1}) + 1
    <3>1. IsFiniteSet({1})
      BY FS_Singleton
    <3>2. Cardinality({1} \union {2}) = IF 2 \in {1} THEN Cardinality({1}) ELSE Cardinality({1}) + 1
      BY <3>1, FS_AddElement
    <3> QED  BY <3>2
  <2>3. {1} \union {2} = {1, 2}
    OBVIOUS
  <2> QED  BY <2>1, <2>2, <2>3
<1> HIDE DEF one, two
<1>4. /\ t = {} /\ f = {} => sources = << >>
      /\ t # {} /\ f = {} => sources = <<one>>
      /\ t = {} /\ f # {} => sources = <<two>>
      /\ t # {} /\ f # {} => sources = <<one>> \o <<two>>
  <2>1. t # {} => Tables!Arriving(1, t) = <<one>>
    BY DEF Tables!Arriving, one
  <2>2. f # {} => Tables!Arriving(2, f) = <<two>>
    BY DEF Tables!Arriving, two
  <2>3. (t = {} => Tables!Arriving(1, t) = << >>) /\ (f = {} => Tables!Arriving(2, f) = << >>)
    BY DEF Tables!Arriving
  <2>4. << >> \o << >> = << >> /\ <<one>> \o << >> = <<one>> /\ << >> \o <<two>> = <<two>>
    OBVIOUS
  <2> QED  BY <2>1, <2>2, <2>3, <2>4
<1>5. handles = {sources[k].handle : k \in DOMAIN sources}
  BY DEF Tables!Handles, Tables!Range
<1>6. one.handle = 1 /\ one.rows = t /\ two.handle = 2 /\ two.rows = f
  BY DEF one, two
<1> HIDE DEF sources, handles
<1>7. t = {} \/ f = {} => Cardinality(handles) < 2
  <2>1. CASE t = {} /\ f = {}
    <3>1. DOMAIN sources = {}
      BY <1>4, <2>1
    <3>2. handles = {}
      BY <1>5, <3>1
    <3> QED  BY <1>3, <3>2
  <2>2. CASE t # {} /\ f = {}
    <3>1. DOMAIN sources = {1} /\ sources[1] = one
      BY <1>4, <2>2
    <3>2. handles = {1}
      BY <1>5, <1>6, <3>1
    <3> QED  BY <1>3, <3>2
  <2>3. CASE t = {} /\ f # {}
    <3>1. DOMAIN sources = {1} /\ sources[1] = two
      BY <1>4, <2>3
    <3>2. handles = {2}
      BY <1>5, <1>6, <3>1
    <3> QED  BY <1>3, <3>2
  <2> QED  BY <2>1, <2>2, <2>3
<1>8. ASSUME t # {}, f # {}
      PROVE  Cardinality(handles) = 2 /\ rows = t \union f
  <2>1. DOMAIN sources = {1, 2} /\ sources[1] = one /\ sources[2] = two
    <3>1. sources = <<one>> \o <<two>>
      BY <1>4, <1>8
    <3> QED  BY <3>1
  <2>2. handles = {1, 2}
    BY <1>5, <1>6, <2>1
  <2>3. Tables!SourceOf(sources, 1) = 1 /\ Tables!SourceOf(sources, 2) = 2
    BY <1>6, <2>1 DEF Tables!SourceOf
  <2>4. rows = t \union f
    BY <1>6, <2>1, <2>2, <2>3 DEF Tables!RowsIn, handles
  <2> QED  BY <1>3, <2>2, <2>4
<1> HIDE DEF rows
<1> QED  BY <1>1, <1>2, <1>7, <1>8

\* What the nodes with conditions make of a job.
LEMMA ConditionsRoute ==
    ASSUME job \in Jobs, job.node = "conditions", out \in Tables!Conditioned
    PROVE  /\ Tables!ConditionsRouted
           /\ \A i \in Tables!Ids(job.table) : \A h \in DOMAIN out.branch :
                i \in out.branch[h] => out.gate[i] = h
<1> DEFINE ids == DOMAIN job.table
           Truth(i, b) == Tables!Where(job.table[i], b)
           fine == {i \in ids : Truth(i, TRUE) = TRUE}
           wrong == {i \in ids : Truth(i, TRUE) = FALSE}
           kept == {i \in ids : Truth(i, FALSE) = TRUE}
           bad == {i \in ids : Truth(i, FALSE) = FALSE}
           blank == {i \in ids : Tables!ComparesNull(i)}
<1> USE DEF Tables!Ids
<1>1. job.logic \in {"AND", "OR"}
  BY JobsAssumption DEF Tables!Shapes
<1>2. \A i \in ids : \A c \in job.conditions : WellFormed(c, job.table[i][c.field])
  BY JobsAssumption DEF Tables!Shapes, WellFormed
<1>3. ASSUME NEW i \in ids
      PROVE  /\ \A b \in BOOLEAN : Truth(i, b) \in Truths
             /\ \A b \in BOOLEAN : Truth(i, b) = Null => i \in blank
             /\ Truth(i, TRUE) = TRUE => Tables!Gate(job.table[i]) = "true"
             /\ Truth(i, TRUE) = FALSE => Tables!Gate(job.table[i]) = "false"
             /\ Truth(i, FALSE) = TRUE => Truth(i, TRUE) = TRUE
             /\ (\A c \in job.conditions : c.op \notin Tables!TextSearch) => Truth(i, FALSE) = Truth(i, TRUE)
  <2> DEFINE line == job.table[i]
  <2>1. \A c \in job.conditions : WellFormed(c, line[c.field])
    BY <1>2
  <2>2. i \in blank <=> \E c \in job.conditions :
          c.op \notin Tables!NullTests /\ Null \in Tables!Arguments(c) \union {line[c.field]}
    BY DEF Tables!ComparesNull
  <2> HIDE DEF line, blank
  <2>3. RowReads(line)
    BY <1>1, <2>1, Wheres
  <2>4. \A b \in BOOLEAN : Tables!Where(line, b) = Null => i \in blank
    BY <2>2, <2>3 DEF RowReads
  <2> QED  BY <2>3, <2>4 DEF RowReads, line
<1>4. /\ Tables!Kept(TRUE) = fine /\ Tables!Violating(TRUE) = wrong
      /\ Tables!Kept(FALSE) = kept /\ Tables!Violating(FALSE) = bad
  BY DEF Tables!Kept, Tables!Violating
<1>5. /\ Tables!Branch = [true |-> fine, false |-> wrong]
      /\ Tables!Branch.true = fine /\ Tables!Branch.false = wrong
      /\ DOMAIN Tables!Branch = {"true", "false"}
      /\ Tables!Branch["true"] = fine /\ Tables!Branch["false"] = wrong
  BY <1>4 DEF Tables!Branch
<1>6. PICK merged \in Tables!Unions(Tables!FromBranches, [i \in ids |-> job.table[i].key], None) :
        out = [branch |-> Tables!Branch, active |-> Tables!ActiveHandles, merged |-> merged,
               gate |-> [i \in ids |-> Tables!Gate(job.table[i])],
               filter |-> Tables!Filter, ifElse |-> Tables!IfElse,
               drop |-> Tables!Asserted("drop"), abort |-> Tables!Asserted("abort")]
  BY DEF Tables!Conditioned
<1>7. /\ out.branch = Tables!Branch /\ out.active = Tables!ActiveHandles /\ out.merged = merged
      /\ out.gate = [i \in ids |-> Tables!Gate(job.table[i])]
      /\ out.filter = Tables!Filter /\ out.ifElse = Tables!IfElse
      /\ out.drop = Tables!Asserted("drop") /\ out.abort = Tables!Asserted("abort")
  BY <1>6
<1>8. merged = IF fine = {} \/ wrong = {} THEN Raised ELSE fine \union wrong
  <2> HIDE DEF fine, wrong
  <2> QED  BY <1>5, <1>6, BranchesJoined DEF Tables!FromBranches
<1>9. fine \intersect wrong = {}
  BY NullIsNoTruth
<1>10. ids \ (fine \union wrong) \subseteq blank
  <2> HIDE DEF blank
  <2>1. ASSUME NEW i \in ids, Truth(i, TRUE) # TRUE, Truth(i, TRUE) # FALSE PROVE i \in blank
    BY <1>3, <2>1 DEF Truths
  <2> QED  BY <2>1
<1>11. kept \subseteq fine /\ ((\A c \in job.conditions : c.op \notin Tables!TextSearch) => kept = fine)
  BY <1>3
<1>12. ids \ (kept \union bad) \subseteq blank
  <2> HIDE DEF blank
  <2>1. ASSUME NEW i \in ids, Truth(i, FALSE) # TRUE, Truth(i, FALSE) # FALSE PROVE i \in blank
    BY <1>3, <2>1 DEF Truths
  <2> QED  BY <2>1
<1>13. ASSUME NEW i \in ids, NEW h \in DOMAIN out.branch, i \in out.branch[h]
       PROVE  out.gate[i] = h
  <2>1. out.gate[i] = Tables!Gate(job.table[i])
    BY <1>7
  <2>2. h \in {"true", "false"} /\ i \in Tables!Branch[h]
    BY <1>5, <1>7, <1>13
  <2>3. CASE h = "true"
    BY <1>3, <1>5, <2>1, <2>2, <2>3
  <2>4. CASE h = "false"
    BY <1>3, <1>5, <2>1, <2>2, <2>4
  <2> QED  BY <2>2, <2>3, <2>4
<1> HIDE DEF ids, fine, wrong, kept, bad, blank
<1>14. ASSUME Tables!Filter # Raised
       PROVE  /\ Tables!Filter = kept
              /\ Tables!Asserted("abort") # Raised => bad = {} /\ Tables!Asserted("drop") = kept
              /\ Tables!IfElse = "true" => kept # {}
  <2>1. job.conditions # {}
    BY <1>14 DEF Tables!Filter
  <2>2. Tables!Filter = kept
    BY <1>4, <2>1 DEF Tables!Filter
  <2>3. Tables!Asserted("abort") # Raised => bad = {}
    BY <1>4 DEF Tables!Asserted
  <2>4. Tables!Asserted("drop") = kept
    BY <1>4, <2>1 DEF Tables!Asserted
  <2>5. Tables!IfElse = "true" => kept # {}
    BY <1>4, JobsAssumption DEF Tables!IfElse, Tables!Shapes
  <2> QED  BY <2>2, <2>3, <2>4, <2>5
<1>15. ASSUME Tables!Filter # Raised
       PROVE  /\ out.filter \subseteq fine
              /\ (\A c \in job.conditions : c.op \notin Tables!TextSearch) => out.filter = fine
              /\ out.abort # Raised => ids \ out.drop \subseteq blank
              /\ out.ifElse = "true" => "true" \in out.active
  <2>1. out.filter = kept
    BY <1>7, <1>14, <1>15
  <2>2. out.abort # Raised => ids \ out.drop \subseteq blank
    BY <1>7, <1>12, <1>14, <1>15
  <2>3. out.ifElse = "true" => "true" \in out.active
    <3>1. out.ifElse = "true" => fine # {}
      BY <1>7, <1>11, <1>14, <1>15
    <3> QED  BY <1>5, <1>7, <3>1 DEF Tables!ActiveHandles
  <2> QED  BY <1>11, <2>1, <2>2, <2>3
<1>16. Tables!ConditionsRouted
  <2>1. out.branch.true = fine /\ out.branch.false = wrong
    BY <1>5, <1>7
  <2>2. blank = {i \in Tables!Ids(job.table) : Tables!ComparesNull(i)} /\ ids = Tables!Ids(job.table)
    BY DEF blank, ids
  <2>3. out.merged = IF fine = {} \/ wrong = {} THEN Raised ELSE fine \union wrong
    BY <1>7, <1>8
  <2>4. out.filter # Raised => Tables!Filter # Raised
    BY <1>7
  <2> HIDE DEF Tables!Ids
  <2> QED  BY <1>9, <1>10, <1>15, <2>1, <2>2, <2>3, <2>4 DEF Tables!ConditionsRouted
<1>17. \A i \in DOMAIN job.table : \A h \in DOMAIN out.branch : i \in out.branch[h] => out.gate[i] = h
  BY <1>13 DEF ids
<1> QED  BY <1>16, <1>17

\* A switch whose labels have a table each: the branch of a label is what its case wrote.
LEMMA SwitchRoutes ==
    ASSUME job \in Jobs, job.node = "switch", out \in Tables!Switched, Tables!OwnTables
    PROVE  /\ Tables!SwitchRouted
           /\ \A i \in Tables!Ids(job.column) : out.gate[i] \in Tables!Holders(i)
<1> DEFINE cases == job.cases
           n == Len(cases)
           assigned == UNION {c.values : c \in Tables!Range(cases)}
           default == [label |-> Tables!Default,
                       rows |-> {i \in Tables!Ids(job.column) : Tables!Unassigned(job.column[i], assigned)}]
           named == [k \in DOMAIN cases |->
                        [label |-> cases[k].label, rows |-> Tables!Matching(cases[k].values)]]
           writes == Append(named, default)
           labels == {w.label : w \in Tables!Range(writes)}
           TableOf(l) == writes[Tables!Max({k \in DOMAIN writes :
                                              Cleaned[writes[k].label] = Cleaned[l]})].rows
           CountOf(l) == Tables!Cardinality(writes[Tables!Max({k \in DOMAIN writes :
                                                                  writes[k].label = l})].rows)
<1> USE DEF Tables!Ids
<1>1. out = [branch |-> [l \in labels |-> TableOf(l)], counts |-> [l \in labels |-> CountOf(l)],
             gate |-> [i \in DOMAIN job.column |-> Tables!SwitchGate(job.column[i])]]
  BY ZenonT(40) DEF Tables!Switched
<1>2. /\ out.branch = [l \in labels |-> TableOf(l)] /\ out.counts = [l \in labels |-> CountOf(l)]
      /\ out.gate = [i \in DOMAIN job.column |-> Tables!SwitchGate(job.column[i])]
  BY Zenon, <1>1
<1>3. cases \in Seq(Tables!Range(cases)) /\ n \in Nat /\ DOMAIN cases = 1..n
  BY JobsAssumption DEF Tables!Shapes
<1>4. /\ DOMAIN writes = 1..(n + 1)
      /\ \A k \in 1..n : writes[k] = [label |-> cases[k].label, rows |-> Tables!Matching(cases[k].values)]
      /\ writes[n + 1] = default
  <2>1. named \in Seq(Tables!Range(named)) /\ Len(named) = n
    BY SMTT(30), <1>3 DEF Tables!Range
  <2> HIDE DEF named, default
  <2>2. /\ DOMAIN writes = 1..(n + 1) /\ \A k \in 1..n : writes[k] = named[k]
        /\ writes[n + 1] = default
    BY <1>3, <2>1
  <2> QED  BY <1>3, <2>2 DEF named
<1>5. /\ \A k \in 1..n : /\ writes[k].label = cases[k].label
                         /\ writes[k].rows = Tables!Matching(cases[k].values)
      /\ writes[n + 1].label = Tables!Default
      /\ writes[n + 1].rows = {i \in DOMAIN job.column : job.column[i] \notin assigned}
  BY <1>4 DEF Tables!Unassigned
<1> HIDE DEF writes
<1>6. \A j, k \in 1..(n + 1) : Cleaned[writes[j].label] = Cleaned[writes[k].label] => j = k
  <2>1. \A j, k \in 1..n : Cleaned[cases[j].label] = Cleaned[cases[k].label] => j = k
    BY <1>3 DEF Tables!OwnTables, Tables!IsInjective
  <2>2. \A k \in 1..n : Cleaned[cases[k].label] # Cleaned[Tables!Default]
    BY <1>3 DEF Tables!OwnTables, Tables!Range
  <2>3. ASSUME NEW j \in 1..(n + 1), NEW k \in 1..(n + 1),
               Cleaned[writes[j].label] = Cleaned[writes[k].label]
        PROVE  j = k
    <3> HIDE DEF n
    <3>1. (j \in 1..n \/ j = n + 1) /\ (k \in 1..n \/ k = n + 1)
      BY <1>3
    <3>2. CASE j \in 1..n /\ k \in 1..n
      BY <1>5, <2>1, <2>3, <3>2
    <3>3. CASE j \in 1..n /\ k = n + 1
      BY <1>5, <2>2, <2>3, <3>3
    <3>4. CASE j = n + 1 /\ k \in 1..n
      BY <1>5, <2>2, <2>3, <3>4
    <3> QED  BY <3>1, <3>2, <3>3, <3>4
  <2> QED  BY <2>3
<1>7. ASSUME NEW k \in 1..(n + 1)
      PROVE  /\ writes[k].label \in labels
             /\ out.branch[writes[k].label] = writes[k].rows
             /\ out.counts[writes[k].label] = Tables!Cardinality(writes[k].rows)
  <2>1. writes[k].label \in labels
    BY <1>4 DEF Tables!Range
  <2>2. /\ {j \in DOMAIN writes : Cleaned[writes[j].label] = Cleaned[writes[k].label]} = {k}
        /\ {j \in DOMAIN writes : writes[j].label = writes[k].label} = {k}
    BY <1>4, <1>6
  <2>3. Tables!Max({k}) = k
    BY <1>3 DEF Tables!Max
  <2>4. TableOf(writes[k].label) = writes[k].rows
        /\ CountOf(writes[k].label) = Tables!Cardinality(writes[k].rows)
    BY <2>2, <2>3
  <2> HIDE DEF TableOf, CountOf, labels
  <2> QED  BY <1>2, <2>1, <2>4
<1>8. Tables!Labels = {writes[k].label : k \in 1..(n + 1)}
  <2>1. Tables!Labels = {Tables!Default} \union {cases[k].label : k \in 1..n}
    BY <1>3 DEF Tables!Labels, Tables!Range
  <2> QED  BY <1>3, <1>5, <2>1
<1>9. ASSUME NEW i \in DOMAIN job.column
      PROVE  /\ \A k \in 1..n : i \in out.branch[cases[k].label] <=> job.column[i] \in cases[k].values
             /\ i \in out.branch[Tables!Default] <=> \A k \in 1..n : job.column[i] \notin cases[k].values
  <2>1. ASSUME NEW k \in 1..n
        PROVE  i \in out.branch[cases[k].label] <=> job.column[i] \in cases[k].values
    BY <1>3, <1>5, <1>7 DEF Tables!Matching
  <2>2. i \in out.branch[Tables!Default] <=> job.column[i] \notin assigned
    BY <1>3, <1>5, <1>7
  <2>3. job.column[i] \in assigned <=> \E k \in 1..n : job.column[i] \in cases[k].values
    BY <1>3 DEF Tables!Range
  <2> QED  BY <2>1, <2>2, <2>3
<1>10. \A l \in Tables!Labels : out.counts[l] = Tables!Cardinality(out.branch[l])
  BY <1>7, <1>8
<1> HIDE DEF cases, n, assigned, labels, TableOf, CountOf
<1>11. ASSUME NEW i \in DOMAIN job.column
       PROVE  LET fitting == {c \in Tables!Range(cases) : job.column[i] \in c.values}
              IN  /\ Tables!Holders(i) = IF fitting = {} THEN {Tables!Default}
                                         ELSE {c.label : c \in fitting}
                  /\ out.gate[i] \in Tables!Holders(i)
  <2> DEFINE fitting == {c \in Tables!Range(cases) : job.column[i] \in c.values}
             places == {k \in 1..n : job.column[i] \in cases[k].values}
  <2>1. fitting = {cases[k] : k \in places}
    BY <1>3 DEF Tables!Range
  <2>2. Tables!Labels = {Tables!Default} \union {cases[k].label : k \in 1..n}
    BY <1>3 DEF Tables!Labels, Tables!Range, cases
  <2>3. Tables!Holders(i) = {l \in Tables!Labels : i \in out.branch[l]}
    BY DEF Tables!Holders
  <2>4. CASE places = {}
    <3>1. fitting = {}
      BY <2>1, <2>4
    <3>2. Tables!Holders(i) = {Tables!Default}
      BY <1>9, <2>2, <2>3, <2>4
    <3>3. {k \in DOMAIN job.cases : job.column[i] \in job.cases[k].values} = {}
      BY <1>3, <2>4 DEF cases
    <3>4. out.gate[i] = Tables!Default
      BY <1>2, <3>3 DEF Tables!SwitchGate
    <3> QED  BY <3>1, <3>2, <3>4
  <2>5. CASE places # {}
    <3>1. fitting # {}
      BY <2>1, <2>5
    <3>2. i \notin out.branch[Tables!Default]
      BY <1>9, <2>5
    <3>3. Tables!Holders(i) = {cases[k].label : k \in places}
      BY <1>9, <2>2, <2>3, <3>2
    <3>4. {c.label : c \in fitting} = {cases[k].label : k \in places}
      BY <2>1
    <3>5. {k \in DOMAIN job.cases : job.column[i] \in job.cases[k].values} = places
      BY <1>3 DEF cases
    <3>6. out.gate[i] = cases[Tables!Min(places)].label
      BY <1>2, <2>5, <3>5 DEF Tables!SwitchGate, cases
    <3>7. Tables!Min(places) \in places
      <4>1. Tables!Min(places) = Loads!Min(places)
        BY DEF Tables!Min, Loads!Min
      <4>2. places \in SUBSET Nat
        BY <1>3
      <4> HIDE DEF places
      <4> QED  BY <2>5, <4>1, <4>2, MinIsLeast
    <3> QED  BY <3>1, <3>3, <3>4, <3>6, <3>7
  <2> QED  BY <2>4, <2>5
<1>12. ASSUME NEW i \in DOMAIN job.column
       PROVE  LET fitting == {c \in Tables!Range(cases) : job.column[i] \in c.values}
              IN  IF Tables!Cardinality(fitting) > 1 THEN Tables!Holders(i) = {c.label : c \in fitting}
                  ELSE Tables!Cardinality(Tables!Holders(i)) = 1
  <2> DEFINE fitting == {c \in Tables!Range(cases) : job.column[i] \in c.values}
  <2>1. \A S : Tables!Cardinality(S) = Cardinality(S)
    BY DEF Tables!Cardinality, Cardinality
  <2>2. IsFiniteSet(fitting)
    <3>1. IsFiniteSet({cases[k] : k \in 1..n})
      <4> DEFINE f == [k \in 1..n |-> cases[k]]
                 T == {cases[k] : k \in 1..n}
      <4>1. f \in Surjection(1..n, T)
        BY DEF Surjection
      <4>2. IsFiniteSet(1..n)
        BY <1>3, FS_Interval
      <4> HIDE DEF f, T
      <4> QED  BY <4>1, <4>2, FS_Surjection DEF T
    <3>2. fitting \subseteq {cases[k] : k \in 1..n}
      BY <1>3 DEF Tables!Range
    <3> QED  BY <3>1, <3>2, FS_Subset
  <2>3. Tables!Holders(i) = IF fitting = {} THEN {Tables!Default} ELSE {c.label : c \in fitting}
    BY <1>11
  <2> HIDE DEF fitting
  <2>4. Cardinality(fitting) \in Nat /\ (Cardinality(fitting) = 0 <=> fitting = {})
    BY <2>2, FS_CardinalityType, FS_EmptySet
  <2>5. CASE Cardinality(fitting) > 1
    BY <2>1, <2>3, <2>4, <2>5 DEF fitting
  <2>6. CASE fitting = {}
    <3>1. Cardinality(Tables!Holders(i)) = 1
      BY <2>3, <2>6, FS_Singleton
    <3> QED  BY <2>1, <2>4, <2>6, <3>1 DEF fitting
  <2>7. CASE Cardinality(fitting) = 1
    <3>1. PICK c : fitting = {c}
      BY <2>2, <2>7, FS_Singleton
    <3>2. Tables!Holders(i) = {c.label}
      BY <2>3, <3>1
    <3>3. Cardinality(Tables!Holders(i)) = 1
      BY <3>2, FS_Singleton
    <3> QED  BY <2>1, <2>7, <3>3 DEF fitting
  <2> QED  BY <2>4, <2>5, <2>6, <2>7
<1>13. Tables!SwitchRouted
  BY <1>10, <1>12 DEF Tables!SwitchRouted, cases
<1> QED  BY <1>11, <1>13

-----------------------------------------------------------------------------
(* Sums over finite sets, and what else is shown by removing one element.   *)

\* Induction over the subsets of a finite set, for a set of subsets: what fails for a
\* set fails for one with an element less.
LEMMA Shrinking ==
    ASSUME NEW S, IsFiniteSet(S), NEW Q, {} \in Q,
           \A T \in SUBSET S : T # {} /\ (\A x \in T : T \ {x} \in Q) => T \in Q
    PROVE  SUBSET S \subseteq Q
<1> DEFINE Bad == (SUBSET S) \ Q
<1>1. SUFFICES ASSUME Bad # {} PROVE FALSE
  OBVIOUS
<1>2. Bad \subseteq FiniteSubsetsOf(S)
  BY FS_FiniteSubsetsOfFinite
<1>3. PICK T \in Bad : \A U \in Bad : ~(<<U, T>> \in StrictSubsetOrdering(S))
  <2> HIDE DEF Bad
  <2> QED  BY <1>1, <1>2, FS_StrictSubsetOrderingWellFounded, WFMin
<1>4. ASSUME NEW x \in T  PROVE T \ {x} \in Q
  <2>1. T \in SUBSET S /\ T \ {x} \in SUBSET S /\ T \ {x} # T
    BY <1>3, <1>4
  <2>2. <<T \ {x}, T>> \in StrictSubsetOrdering(S)
    BY <2>1 DEF StrictSubsetOrdering
  <2>3. T \ {x} \notin Bad
    BY <1>3, <2>2
  <2> QED  BY <2>1, <2>3
<1> QED  BY <1>3, <1>4

\* Induction over the natural numbers, for a set of them.
LEMMA Counting ==
    ASSUME NEW Q, 0 \in Q, \A n \in Nat : n \in Q => n + 1 \in Q
    PROVE  Nat \subseteq Q
<1> DEFINE R == OpToRel(<, Nat)
           Bad == Nat \ Q
<1>1. SUFFICES ASSUME Bad # {} PROVE FALSE
  OBVIOUS
<1>2. IsWellFoundedOn(R, Nat) /\ Bad \subseteq Nat
  BY NatLessThanWellFounded
<1>3. PICK n \in Bad : \A m \in Bad : ~(<<m, n>> \in R)
  <2> HIDE DEF R, Bad
  <2> QED  BY <1>1, <1>2, WFMin
<1>4. n \in Nat /\ n # 0
  BY <1>3
<1>5. n - 1 \in Nat /\ n - 1 < n /\ (n - 1) + 1 = n
  BY <1>4
<1>6. <<n - 1, n>> \in R
  BY <1>4, <1>5 DEF OpToRel
<1>7. n - 1 \in Q
  BY <1>3, <1>5, <1>6
<1> HIDE DEF R
<1> QED  BY <1>3, <1>5, <1>7

\* The tables count their rows as the facts about finite sets do.
LEMMA CountsAgree == \A S : Tables!Cardinality(S) = Cardinality(S)
BY DEF Tables!Cardinality, Cardinality

LEMMA InSequence == ASSUME NEW T, NEW s \in Seq(T), NEW i \in DOMAIN s PROVE s[i] \in T
OBVIOUS

-----------------------------------------------------------------------------
Sum(f, S) == Tables!SumFunctionOnSet(f, S)

\* The function that the fold is defined by.
Pick(s) == CHOOSE x \in s : TRUE
SumStep(f, sums, s) == IF s = {} THEN 0 ELSE f[Pick(s)] + sums[s \ {Pick(s)}]
Sums(f, S) == CHOOSE sums : sums = [s \in SUBSET S |-> SumStep(f, sums, s)]

LEMMA SumIsFold == ASSUME NEW f, NEW S PROVE Sum(f, S) = Sums(f, S)[S]
BY DEF Sum, Tables!SumFunctionOnSet, Tables!FoldFunctionOnSet, Tables!MapThenFoldSet, Sums, SumStep, Pick

LEMMA SumsExist ==
    ASSUME NEW S, IsFiniteSet(S), NEW f
    PROVE  \A s \in SUBSET S : Sums(f, S)[s] = SumStep(f, Sums(f, S), s)
<1> DEFINE Solves(g, n) == \A s \in SUBSET S : Cardinality(s) <= n => g[s] = SumStep(f, g, s)
           Q == {n \in Nat : \E g : Solves(g, n)}
<1>1. \A s \in SUBSET S : /\ IsFiniteSet(s) /\ Cardinality(s) \in Nat /\ Cardinality(s) <= Cardinality(S)
                          /\ Cardinality(s) = 0 <=> s = {}
  BY FS_Subset, FS_CardinalityType, FS_EmptySet
<1>2. \A s \in SUBSET S : s # {} => /\ Pick(s) \in s /\ s \ {Pick(s)} \in SUBSET S
                                    /\ Cardinality(s \ {Pick(s)}) = Cardinality(s) - 1
  <2>1. ASSUME NEW s \in SUBSET S, s # {}  PROVE Pick(s) \in s
    BY <2>1 DEF Pick
  <2> QED  BY <1>1, <2>1, FS_RemoveElement
<1>3. 0 \in Q
  <2>1. Solves([s \in SUBSET S |-> 0], 0)
    BY <1>1 DEF SumStep
  <2> QED  BY <2>1
<1>4. ASSUME NEW n \in Nat, n \in Q  PROVE n + 1 \in Q
  <2>1. PICK g : Solves(g, n)
    BY <1>4
  <2> DEFINE h == [s \in SUBSET S |-> IF Cardinality(s) <= n THEN g[s] ELSE SumStep(f, g, s)]
  <2>2. \A s \in SUBSET S : Cardinality(s) <= n + 1 => h[s] = SumStep(f, g, s)
    BY <2>1
  <2>3. \A s \in SUBSET S : Cardinality(s) <= n + 1 => SumStep(f, g, s) = SumStep(f, h, s)
    <3>1. ASSUME NEW s \in SUBSET S, Cardinality(s) <= n + 1, s # {}
          PROVE  h[s \ {Pick(s)}] = g[s \ {Pick(s)}]
      BY <1>1, <1>2, <3>1
    <3> HIDE DEF h
    <3> QED  BY <3>1 DEF SumStep
  <2>4. Solves(h, n + 1)
    <3> HIDE DEF h
    <3> QED  BY <2>2, <2>3
  <2> HIDE DEF Solves
  <2> QED  BY <2>4
<1>5. Cardinality(S) \in Nat /\ Cardinality(S) \in Q
  <2>1. Nat \subseteq Q
    <3> HIDE DEF Q
    <3> QED  BY <1>3, <1>4, Counting
  <2> QED  BY <2>1, FS_CardinalityType
<1>6. PICK g : Solves(g, Cardinality(S))
  BY <1>5
<1> DEFINE h == [s \in SUBSET S |-> g[s]]
<1>7. \A s \in SUBSET S : g[s] = SumStep(f, g, s) /\ SumStep(f, g, s) = SumStep(f, h, s)
  BY <1>1, <1>2, <1>6 DEF SumStep
<1>8. h = [s \in SUBSET S |-> SumStep(f, h, s)]
  BY <1>7
<1> HIDE DEF h
<1>9. Sums(f, S) = [s \in SUBSET S |-> SumStep(f, Sums(f, S), s)]
  BY <1>8 DEF Sums
<1> DEFINE k == Sums(f, S)
<1> HIDE DEF k
<1>10. k = [s \in SUBSET S |-> SumStep(f, k, s)]
  BY <1>9 DEF k
<1>11. \A s \in SUBSET S : k[s] = SumStep(f, k, s)
  BY <1>10
<1> QED  BY <1>11 DEF k

LEMMA SumOfNothing == ASSUME NEW f PROVE Sum(f, {}) = 0
<1>1. Sums(f, {})[{}] = SumStep(f, Sums(f, {}), {})
  BY SumsExist, FS_EmptySet
<1> QED  BY <1>1, SumIsFold DEF SumStep

\* The sum over a subset is the one that the sums over the whole set have for it.
LEMMA SumsOfSubset ==
    ASSUME NEW S, IsFiniteSet(S), NEW f, NEW T \in SUBSET S
    PROVE  Sums(f, S)[T] = Sum(f, T)
<1> DEFINE Q == {s \in SUBSET T : Sums(f, S)[s] = Sums(f, T)[s]}
<1>1. IsFiniteSet(T)
  BY FS_Subset
<1>2. \A s \in SUBSET T : /\ Sums(f, S)[s] = SumStep(f, Sums(f, S), s)
                          /\ Sums(f, T)[s] = SumStep(f, Sums(f, T), s)
  BY <1>1, SumsExist
<1>3. {} \in Q
  BY <1>2 DEF SumStep
<1>4. ASSUME NEW s \in SUBSET T, s # {}, \A x \in s : s \ {x} \in Q  PROVE s \in Q
  <2>1. Pick(s) \in s
    BY <1>4 DEF Pick
  <2>2. Sums(f, S)[s \ {Pick(s)}] = Sums(f, T)[s \ {Pick(s)}]
    BY <1>4, <2>1
  <2> QED  BY <1>2, <2>2 DEF SumStep
<1>5. SUBSET T \subseteq Q
  <2> HIDE DEF Q
  <2> QED  BY <1>1, <1>3, <1>4, Shrinking
<1> QED  BY <1>5, SumIsFold

LEMMA SumUnfolds ==
    ASSUME NEW S, IsFiniteSet(S), NEW f, S # {}
    PROVE  Pick(S) \in S /\ Sum(f, S) = f[Pick(S)] + Sum(f, S \ {Pick(S)})
<1>1. Pick(S) \in S
  BY DEF Pick
<1>2. Sums(f, S)[S] = SumStep(f, Sums(f, S), S)
  BY SumsExist
<1>3. Sums(f, S)[S \ {Pick(S)}] = Sum(f, S \ {Pick(S)})
  BY SumsOfSubset
<1> QED  BY <1>1, <1>2, <1>3, SumIsFold DEF SumStep

LEMMA SumIsInt ==
    ASSUME NEW S, IsFiniteSet(S), NEW f, \A x \in S : f[x] \in Int
    PROVE  \A T \in SUBSET S : Sum(f, T) \in Int
<1> DEFINE Q == {T \in SUBSET S : Sum(f, T) \in Int}
<1>1. {} \in Q
  BY SumOfNothing
<1>2. ASSUME NEW T \in SUBSET S, T # {}, \A x \in T : T \ {x} \in Q  PROVE T \in Q
  <2>1. Pick(T) \in T /\ Sum(f, T) = f[Pick(T)] + Sum(f, T \ {Pick(T)})
    BY <1>2, FS_Subset, SumUnfolds
  <2> QED  BY <1>2, <2>1
<1>3. SUBSET S \subseteq Q
  <2> HIDE DEF Q
  <2> QED  BY <1>1, <1>2, Shrinking
<1> QED  BY <1>3

\* Any element can be taken out of the sum, not only the one that the fold takes.
LEMMA SumTakesOut ==
    ASSUME NEW S, IsFiniteSet(S), NEW f, \A x \in S : f[x] \in Int
    PROVE  \A T \in SUBSET S : \A x \in T : Sum(f, T) = f[x] + Sum(f, T \ {x})
<1> DEFINE Q == {T \in SUBSET S : \A x \in T : Sum(f, T) = f[x] + Sum(f, T \ {x})}
<1>1. {} \in Q
  OBVIOUS
<1>2. ASSUME NEW T \in SUBSET S, T # {}, \A x \in T : T \ {x} \in Q  PROVE T \in Q
  <2> DEFINE p == Pick(T)
  <2>1. p \in T /\ Sum(f, T) = f[p] + Sum(f, T \ {p})
    BY <1>2, FS_Subset, SumUnfolds
  <2> HIDE DEF p
  <2>2. ASSUME NEW x \in T, x # p  PROVE Sum(f, T) = f[x] + Sum(f, T \ {x})
    <3>1. Sum(f, T \ {p}) = f[x] + Sum(f, (T \ {p}) \ {x})
      BY <1>2, <2>1, <2>2
    <3>2. Sum(f, T \ {x}) = f[p] + Sum(f, (T \ {x}) \ {p})
      BY <1>2, <2>1, <2>2
    <3> DEFINE rest == Sum(f, (T \ {p}) \ {x})
    <3>3. (T \ {p}) \ {x} = (T \ {x}) \ {p}
      OBVIOUS
    <3>4. rest \in Int /\ f[x] \in Int /\ f[p] \in Int
      BY <2>1, SumIsInt
    <3>5. Sum(f, T \ {p}) = f[x] + rest /\ Sum(f, T \ {x}) = f[p] + rest
      BY <3>1, <3>2, <3>3
    <3> HIDE DEF rest
    <3> QED  BY <2>1, <3>4, <3>5
  <2> QED  BY <2>1, <2>2
<1>3. SUBSET S \subseteq Q
  <2> HIDE DEF Q
  <2> QED  BY <1>1, <1>2, Shrinking
<1> QED  BY <1>3

\* Two functions that are equal on a set have the same sum, and pointwise sums add up.
LEMMA SumsAdd ==
    ASSUME NEW S, IsFiniteSet(S), NEW f, NEW g, NEW h,
           \A x \in S : f[x] \in Int /\ g[x] \in Int /\ h[x] = f[x] + g[x]
    PROVE  Sum(h, S) = Sum(f, S) + Sum(g, S)
<1> DEFINE Q == {T \in SUBSET S : Sum(h, T) = Sum(f, T) + Sum(g, T)}
<1>1. {} \in Q
  BY SumOfNothing
<1>2. ASSUME NEW T \in SUBSET S, T # {}, \A x \in T : T \ {x} \in Q  PROVE T \in Q
  <2>1. PICK x \in T : TRUE
    BY <1>2
  <2>2. Sum(h, T) = h[x] + Sum(h, T \ {x})
    BY SumTakesOut
  <2>3. Sum(f, T) = f[x] + Sum(f, T \ {x}) /\ Sum(g, T) = g[x] + Sum(g, T \ {x})
    BY SumTakesOut
  <2>4. Sum(f, T \ {x}) \in Int /\ Sum(g, T \ {x}) \in Int /\ f[x] \in Int /\ g[x] \in Int
    BY SumIsInt
  <2>5. Sum(h, T \ {x}) = Sum(f, T \ {x}) + Sum(g, T \ {x})
    BY <1>2
  <2> QED  BY <2>2, <2>3, <2>4, <2>5
<1>3. SUBSET S \subseteq Q
  <2> HIDE DEF Q
  <2> QED  BY <1>1, <1>2, Shrinking
<1> QED  BY <1>3

\* Where a function is zero it adds nothing.
LEMMA SumOfSubset ==
    ASSUME NEW S, IsFiniteSet(S), NEW R \in SUBSET S, NEW f, NEW g,
           \A x \in R : f[x] \in Int /\ g[x] = f[x], \A x \in S \ R : g[x] = 0
    PROVE  Sum(g, S) = Sum(f, R)
<1> DEFINE Q == {T \in SUBSET S : Sum(g, T) = Sum(f, T \cap R)}
<1>0. \A x \in S : g[x] \in Int
  OBVIOUS
<1>1. {} \in Q
  <2>1. {} \cap R = {}
    OBVIOUS
  <2> QED  BY <2>1, SumOfNothing
<1>2. ASSUME NEW T \in SUBSET S, T # {}, \A x \in T : T \ {x} \in Q  PROVE T \in Q
  <2>1. PICK x \in T : TRUE
    BY <1>2
  <2>2. Sum(g, T) = g[x] + Sum(g, T \ {x}) /\ Sum(g, T \ {x}) \in Int
    BY <1>0, SumTakesOut, SumIsInt
  <2>3. Sum(g, T \ {x}) = Sum(f, (T \ {x}) \cap R)
    BY <1>2
  <2>4. CASE x \in R
    <3>1. Sum(f, T \cap R) = f[x] + Sum(f, (T \cap R) \ {x})
      <4>1. IsFiniteSet(R) /\ T \cap R \in SUBSET R /\ x \in T \cap R
        BY <2>4, FS_Subset
      <4> QED  BY <4>1, SumTakesOut
    <3>2. (T \cap R) \ {x} = (T \ {x}) \cap R
      OBVIOUS
    <3> QED  BY <2>2, <2>3, <2>4, <3>1, <3>2
  <2>5. CASE x \notin R
    <3>1. (T \ {x}) \cap R = T \cap R
      BY <2>5
    <3>2. g[x] = 0 /\ Sum(g, T \ {x}) = Sum(f, T \cap R)
      BY <2>3, <2>5, <3>1
    <3> QED  BY <2>2, <3>2
  <2> QED  BY <2>4, <2>5
<1>3. SUBSET S \subseteq Q
  <2> HIDE DEF Q
  <2> QED  BY <1>1, <1>2, Shrinking
<1>4. S \cap R = R
  OBVIOUS
<1> QED  BY <1>3, <1>4

\* A set has as many elements as ones add up to.
LEMMA SumOfOnes ==
    ASSUME NEW S, IsFiniteSet(S)
    PROVE  Sum([x \in S |-> 1], S) = Cardinality(S)
<1> DEFINE f == [x \in S |-> 1]
           Q == {T \in SUBSET S : Sum(f, T) = Cardinality(T)}
<1>0. \A x \in S : f[x] = 1
  OBVIOUS
<1> HIDE DEF f
<1>1. {} \in Q
  BY SumOfNothing, FS_EmptySet
<1>2. ASSUME NEW T \in SUBSET S, T # {}, \A x \in T : T \ {x} \in Q  PROVE T \in Q
  <2>1. PICK x \in T : TRUE
    BY <1>2
  <2>2. Sum(f, T) = 1 + Sum(f, T \ {x})
    BY <1>0, SumTakesOut
  <2>3. Cardinality(T \ {x}) = Cardinality(T) - 1 /\ Cardinality(T) \in Nat
    <3>1. IsFiniteSet(T)
      BY FS_Subset
    <3> QED  BY <3>1, FS_RemoveElement, FS_CardinalityType
  <2> QED  BY <1>2, <2>2, <2>3
<1>3. SUBSET S \subseteq Q
  <2> HIDE DEF Q
  <2> QED  BY <1>1, <1>2, Shrinking
<1> QED  BY <1>3 DEF f

\* The values of rows, spread over columns, add up to the same, but for the rows in no column.
LEMMA ColumnsAddUp ==
    ASSUME NEW R, IsFiniteSet(R), NEW C, IsFiniteSet(C), NEW k, NEW v, \A i \in R : v[i] \in Int
    PROVE  Sum(v, R) = Sum(v, {i \in R : k[i] \notin C})
             + Sum([c \in C |-> Sum([i \in R |-> IF k[i] = c THEN v[i] ELSE 0], R)], C)
<1> DEFINE Column(c) == [i \in R |-> IF k[i] = c THEN v[i] ELSE 0]
           All(T) == [c \in C |-> Sum(Column(c), T)]
           Left(T) == {i \in T : k[i] \notin C}
           Q == {T \in SUBSET R : Sum(v, T) = Sum(v, Left(T)) + Sum(All(T), C)}
<1>1. \A c \in C : \A i \in R : Column(c)[i] = (IF k[i] = c THEN v[i] ELSE 0) /\ Column(c)[i] \in Int
  OBVIOUS
<1> HIDE DEF Column
<1>2. \A T \in SUBSET R : \A c \in C : Sum(Column(c), T) \in Int
  BY <1>1, SumIsInt
<1>3. \A T \in SUBSET R : Sum(All(T), C) \in Int
  <2>1. ASSUME NEW T \in SUBSET R  PROVE Sum(All(T), C) \in Int
    <3>1. \A c \in C : All(T)[c] \in Int
      BY <1>2
    <3> HIDE DEF All
    <3> QED  BY <3>1, SumIsInt
  <2> QED  BY <2>1
<1>4. {} \in Q
  <2>1. Left({}) = {}
    OBVIOUS
  <2>2. Sum(All({}), C) = 0
    <3>1. \A c \in C : All({})[c] = 0
      BY SumOfNothing
    <3> HIDE DEF All
    <3>2. Sum(All({}), C) = Sum(All({}), {})
      BY <3>1, SumOfSubset
    <3> QED  BY <3>2, SumOfNothing
  <2> HIDE DEF Left, All
  <2> QED  BY <2>1, <2>2, SumOfNothing
<1>5. ASSUME NEW T \in SUBSET R, T # {}, \A x \in T : T \ {x} \in Q  PROVE T \in Q
  <2>1. PICK x \in T : TRUE
    BY <1>5
  <2> DEFINE U == T \ {x}
             one == [c \in C |-> Column(c)[x]]
  <2>2. Sum(v, T) = v[x] + Sum(v, U) /\ Sum(v, U) \in Int /\ v[x] \in Int
    BY SumTakesOut, SumIsInt
  <2>3. Sum(v, U) = Sum(v, Left(U)) + Sum(All(U), C)
    BY <1>5
  <2>4. Sum(All(T), C) = Sum(one, C) + Sum(All(U), C)
    <3>1. \A c \in C : Sum(Column(c), T) = Column(c)[x] + Sum(Column(c), U)
      BY <1>1, SumTakesOut
    <3>2. \A c \in C : one[c] \in Int /\ All(U)[c] \in Int /\ All(T)[c] = one[c] + All(U)[c]
      BY <1>1, <1>2, <3>1
    <3> HIDE DEF one, All
    <3> QED  BY <3>2, SumsAdd
  <2>5. Left(T) \in SUBSET R /\ Sum(v, Left(U)) \in Int /\ Sum(v, Left(T)) \in Int /\ Sum(All(U), C) \in Int
    BY <1>3, SumIsInt
  <2>6. CASE k[x] \in C
    <3>1. Left(T) = Left(U)
      BY <2>6
    <3>2. Sum(one, C) = v[x]
      <4>1. \A c \in C \ {k[x]} : one[c] = 0
        BY <1>1
      <4>2. one[k[x]] = v[x]
        BY <1>1, <2>6
      <4> DEFINE d == k[x]
      <4> HIDE DEF one, d
      <4>3. d \in C /\ one[d] = v[x] /\ \A c \in C \ {d} : one[c] = 0
        BY <2>6, <4>1, <4>2 DEF d
      <4>4. {d} \in SUBSET C /\ {d} \ {d} = {} /\ d \in {d}
        BY <4>3
      <4>5. \A c \in C : one[c] \in Int
        BY <2>2, <4>3
      <4>6. Sum(one, C) = Sum(one, {d})
        BY <4>3, <4>4, <4>5, SumOfSubset
      <4>7. Sum(one, {d}) = one[d] + Sum(one, {})
        <5>1. Sum(one, {d}) = one[d] + Sum(one, {d} \ {d})
          BY <4>4, <4>5, SumTakesOut
        <5> QED  BY <4>4, <5>1
      <4> QED  BY <2>2, <4>3, <4>6, <4>7, SumOfNothing
    <3> HIDE DEF Left, All, U, one
    <3> QED  BY <2>2, <2>3, <2>4, <2>5, <3>1, <3>2
  <2>7. CASE k[x] \notin C
    <3>1. Left(T) \ {x} = Left(U) /\ x \in Left(T)
      BY <2>1, <2>7
    <3>2. Sum(v, Left(T)) = v[x] + Sum(v, Left(U))
      BY <2>5, <3>1, SumTakesOut
    <3>3. Sum(one, C) = 0
      <4>1. \A c \in C : one[c] = 0
        BY <1>1, <2>7
      <4> HIDE DEF one
      <4>2. Sum(one, C) = Sum(one, {})
        BY <4>1, SumOfSubset
      <4> QED  BY <4>2, SumOfNothing
    <3> HIDE DEF Left, All, U, one
    <3> QED  BY <2>2, <2>3, <2>4, <2>5, <3>2, <3>3
  <2> QED  BY <2>6, <2>7
<1>6. SUBSET R \subseteq Q
  <2> HIDE DEF Q
  <2> QED  BY <1>4, <1>5, Shrinking
<1> QED  BY <1>6 DEF Column

-----------------------------------------------------------------------------
(* Pivots                                                                   *)

LEMMA NullIsNoNumber == Null \notin Int /\ Null \notin Values /\ Values \subseteq Int
BY JobsAssumption DEF Tables!Shapes

\* Of a table, its rows are finitely many.
LEMMA TableIsFinite ==
    ASSUME NEW s, NEW T, s \in Seq(T)
    PROVE  /\ IsFiniteSet(DOMAIN s) /\ DOMAIN s = 1..Len(s) /\ Len(s) \in Nat
           /\ Cardinality(DOMAIN s) = Len(s)
<1>1. DOMAIN s = 1..Len(s) /\ Len(s) \in Nat
  OBVIOUS
<1> QED  BY <1>1, FS_Interval

\* The SUM of a column, NULL counted as zero.
LEMMA AddedAddsUp ==
    ASSUME NEW D, IsFiniteSet(D), NEW values, DOMAIN values = D,
           \A i \in D : values[i] \in Int \union {Null}
    PROVE  Tables!OrZero(Tables!Added(values)) = Sum([i \in D |-> Tables!OrZero(values[i])], D)
<1> DEFINE known == {i \in D : values[i] # Null}
           v == [i \in D |-> Tables!OrZero(values[i])]
<1>1. \A i \in known : values[i] \in Int /\ v[i] = values[i]
  BY DEF Tables!OrZero
<1>2. \A i \in D \ known : v[i] = 0
  BY DEF Tables!OrZero
<1>3. known \in SUBSET D
  OBVIOUS
<1>4. Tables!Added(values) = IF known = {} THEN Null ELSE Sum(values, known)
  BY DEF Tables!Added, Sum
<1> HIDE DEF v, known
<1>5. Sum(v, D) = Sum(values, known)
  BY <1>1, <1>2, <1>3, SumOfSubset
<1>6. Sum(values, known) \in Int
  BY <1>1, <1>3, FS_Subset, SumIsInt
<1>7. CASE known = {}
  BY <1>4, <1>5, <1>7, SumOfNothing DEF Tables!OrZero, v
<1>8. CASE known # {}
  BY <1>4, <1>5, <1>6, <1>8, NullIsNoNumber DEF Tables!OrZero, v
<1> QED  BY <1>7, <1>8

\* The columns of a pivot and the rows without one add up to the aggregate.
LEMMA PivotsAdd ==
    ASSUME job \in Jobs, job.node = "pivot", out \in Tables!Totalled
    PROVE  Tables!PivotAdds
<1> DEFINE t == job.table
           C == Tables!PivotValues
<1>1. t \in Seq([key : Tables!Cells, pivot : Tables!Cells, val : Tables!Cells])
  BY JobsAssumption DEF Tables!Shapes
<1>2. IsFiniteSet(Tables!Ids(t)) /\ \A i \in Tables!Ids(t) : t[i].val \in Int \union {Null}
  <2> DEFINE Row == [key : Tables!Cells, pivot : Tables!Cells, val : Tables!Cells]
  <2>1. ASSUME NEW i \in DOMAIN t  PROVE t[i].val \in Tables!Cells
    <3>1. t[i] \in Row
      <4> HIDE DEF Row, t
      <4> QED  BY <1>1, <2>1, InSequence DEF Row
    <3> QED  BY <3>1
  <2>2. IsFiniteSet(DOMAIN t)
    BY <1>1, TableIsFinite
  <2> QED  BY <2>1, <2>2, NullIsNoNumber DEF Tables!Ids, Tables!Cells
<1>3. IsFiniteSet(C) /\ \A i \in Tables!Ids(t) : t[i].pivot \in C <=> t[i].pivot # Null
  <2> DEFINE all == {r.pivot : r \in Tables!Range(t)}
             f == [i \in Tables!Ids(t) |-> t[i].pivot]
  <2>1. all = {t[i].pivot : i \in Tables!Ids(t)}
    BY DEF Tables!Range, Tables!Ids
  <2>2. f \in Surjection(Tables!Ids(t), all)
    BY <2>1 DEF Surjection
  <2>3. IsFiniteSet(all)
    BY <1>2, <2>2, FS_Surjection
  <2>4. C \in SUBSET all /\ C = all \ {Null}
    BY DEF Tables!PivotValues
  <2> QED  BY <2>1, <2>3, <2>4, FS_Subset
<1>4. out = [aggregated |-> Tables!Aggregated, pivoted |-> Tables!Pivoted]
  BY DEF Tables!Totalled
<1> SUFFICES ASSUME out.pivoted # Raised, NEW g \in DOMAIN out.aggregated
             PROVE  LET cells == out.pivoted[g]
                        left == {i \in Tables!Ids(t) : t[i].key = g /\ t[i].pivot = Null}
                    IN  /\ out.aggregated[g].count = Cardinality(left)
                             + Sum([c \in DOMAIN cells |-> cells[c].count], DOMAIN cells)
                        /\ Tables!OrZero(out.aggregated[g].sum) =
                             Sum([i \in left |-> Tables!OrZero(t[i].val)], left)
                             + Sum([c \in DOMAIN cells |-> Tables!OrZero(cells[c].sum)], DOMAIN cells)
  BY CountsAgree DEF Tables!PivotAdds, Sum
<1> DEFINE R == Tables!Rows(g)
           k == [i \in R |-> t[i].pivot]
           Column(v, c) == [i \in R |-> IF k[i] = c THEN v[i] ELSE 0]
           left == {i \in R : k[i] \notin C}
<1>5. R = {i \in Tables!Ids(t) : t[i].key = g} /\ IsFiniteSet(R) /\ R \in SUBSET Tables!Ids(t)
  BY <1>2, FS_Subset DEF Tables!Rows
<1>6. left = {i \in Tables!Ids(t) : t[i].key = g /\ t[i].pivot = Null} /\ IsFiniteSet(left) /\ left \in SUBSET R
  BY <1>3, <1>5, FS_Subset
<1>7. /\ out.pivoted[g] = [c \in C |-> Tables!PivotCell(g, c)]
      /\ out.aggregated[g].count = Cardinality(R)
      /\ out.aggregated[g].sum = Tables!Added([i \in R |-> t[i].val])
  <2>1. g \in Tables!Groups /\ out.pivoted = [h \in Tables!Groups |-> [c \in C |-> Tables!PivotCell(h, c)]]
    BY <1>4 DEF Tables!Pivoted, Tables!Aggregated
  <2>2. out.aggregated[g] = [sum |-> Tables!Added([i \in R |-> t[i].val]), count |-> Cardinality(R)]
    BY <1>4, <2>1, CountsAgree DEF Tables!Aggregated
  <2>3. out.pivoted[g] = [c \in C |-> Tables!PivotCell(g, c)]
    BY <2>1
  <2> QED  BY <2>2, <2>3
\* counts
<1>8. out.aggregated[g].count = Cardinality(left) + Sum([c \in C |-> Tables!PivotCell(g, c).count], C)
  <2> DEFINE ones == [i \in R |-> 1]
  <2>1. Sum(ones, R) = Cardinality(R)
    BY <1>5, SumOfOnes
  <2>2. Sum(ones, left) = Cardinality(left)
    <3>1. \A i \in left : ones[i] \in Int /\ [j \in left |-> 1][i] = ones[i]
      BY <1>6
    <3>2. Sum([j \in left |-> 1], left) = Sum(ones, left)
      <4> DEFINE a == [j \in left |-> 1]
      <4> HIDE DEF ones, left, a
      <4>1. \A i \in left : ones[i] \in Int /\ a[i] = ones[i]
        BY <3>1 DEF a
      <4>2. Sum(a, left) = Sum(ones, left)
        BY <1>6, <4>1, SumOfSubset
      <4> QED  BY <4>2 DEF a
    <3> HIDE DEF left
    <3> QED  BY <1>6, <3>2, SumOfOnes
  <2>3. ASSUME NEW c \in C  PROVE Sum(Column(ones, c), R) = Tables!PivotCell(g, c).count
    <3> DEFINE D == {i \in R : k[i] = c}
               a == [i \in D |-> 1]
               b == Column(ones, c)
    <3>1. Tables!PivotCell(g, c).count = Cardinality(D)
      <4>1. D = {i \in R : t[i].pivot = c}
        OBVIOUS
      <4>2. Tables!PivotCell(g, c).count = Cardinality({i \in R : t[i].pivot = c})
        BY CountsAgree DEF Tables!PivotCell
      <4> QED  BY <4>1, <4>2
    <3>2. /\ D \in SUBSET R /\ IsFiniteSet(D)
          /\ \A i \in D : a[i] \in Int /\ b[i] = a[i]
          /\ \A i \in R \ D : b[i] = 0
      <4>1. D \in SUBSET R
        OBVIOUS
      <4>2. IsFiniteSet(D)
        <5> HIDE DEF D, R
        <5> QED  BY <1>5, <4>1, FS_Subset
      <4>3. \A i \in D : a[i] \in Int /\ b[i] = a[i]
        OBVIOUS
      <4>4. \A i \in R \ D : b[i] = 0
        OBVIOUS
      <4> QED  BY <4>1, <4>2, <4>3, <4>4
    <3>3. Sum(a, D) = Cardinality(D)
      <4> HIDE DEF D
      <4> QED  BY <3>2, SumOfOnes
    <3> HIDE DEF a, b, D
    <3>4. Sum(b, R) = Sum(a, D)
      BY <1>5, <3>2, SumOfSubset
    <3> QED  BY <3>1, <3>3, <3>4 DEF b
  <2>4. \A i \in R : ones[i] \in Int
    OBVIOUS
  <2>5. Sum(ones, R) = Sum(ones, left) + Sum([c \in C |-> Sum(Column(ones, c), R)], C)
    <3> HIDE DEF ones, k, R
    <3> QED  BY <1>3, <1>5, <2>4, ColumnsAddUp
  <2>6. [c \in C |-> Sum(Column(ones, c), R)] = [c \in C |-> Tables!PivotCell(g, c).count]
    <3> HIDE DEF ones, k, R, Column, C
    <3> QED  BY <2>3
  <2> QED  BY <1>7, <2>1, <2>2, <2>5, <2>6
\* sums
<1>9. Tables!OrZero(out.aggregated[g].sum) =
        Sum([i \in left |-> Tables!OrZero(t[i].val)], left)
          + Sum([c \in C |-> Tables!OrZero(Tables!PivotCell(g, c).sum)], C)
  <2> DEFINE v == [i \in R |-> Tables!OrZero(t[i].val)]
  <2>1. \A i \in R : v[i] = Tables!OrZero(t[i].val) /\ v[i] \in Int
    BY <1>2, <1>5 DEF Tables!OrZero
  <2>2. Tables!OrZero(out.aggregated[g].sum) = Sum(v, R)
    <3> DEFINE values == [i \in R |-> t[i].val]
    <3>1. DOMAIN values = R /\ \A i \in R : values[i] \in Int \union {Null}
      BY <1>2, <1>5
    <3>2. v = [i \in R |-> Tables!OrZero(values[i])]
      OBVIOUS
    <3>3. out.aggregated[g].sum = Tables!Added(values)
      BY <1>7
    <3> HIDE DEF values, v, R
    <3> QED  BY <1>5, <3>1, <3>2, <3>3, AddedAddsUp
  <2>3. Sum([i \in left |-> Tables!OrZero(t[i].val)], left) = Sum(v, left)
    <3> DEFINE a == [i \in left |-> Tables!OrZero(t[i].val)]
    <3>1. \A i \in left : v[i] \in Int /\ a[i] = v[i]
      BY <1>6, <2>1
    <3> HIDE DEF a, v, left
    <3>2. Sum(a, left) = Sum(v, left)
      BY <1>6, <3>1, SumOfSubset
    <3> QED  BY <3>2 DEF a
  <2>4. ASSUME NEW c \in C  PROVE Sum(Column(v, c), R) = Tables!OrZero(Tables!PivotCell(g, c).sum)
    <3> DEFINE values == [i \in R |-> IF t[i].pivot = c THEN t[i].val ELSE 0]
    <3>1. DOMAIN values = R /\ \A i \in R : values[i] \in Int \union {Null}
      BY <1>2, <1>5
    <3>2. Tables!PivotCell(g, c).sum = Tables!Added(values)
      BY DEF Tables!PivotCell
    <3>3. Column(v, c) = [i \in R |-> Tables!OrZero(values[i])]
      BY <2>1, NullIsNoNumber DEF Tables!OrZero
    <3> HIDE DEF values, v, R, k, Column
    <3> QED  BY <1>5, <3>1, <3>2, <3>3, AddedAddsUp
  <2>5. Sum(v, R) = Sum(v, left) + Sum([c \in C |-> Sum(Column(v, c), R)], C)
    <3> HIDE DEF v, k, R
    <3> QED  BY <1>3, <1>5, <2>1, ColumnsAddUp
  <2>6. [c \in C |-> Sum(Column(v, c), R)] = [c \in C |-> Tables!OrZero(Tables!PivotCell(g, c).sum)]
    <3> HIDE DEF v, k, R, Column, C
    <3> QED  BY <2>4
  <2> QED  BY <2>2, <2>3, <2>5, <2>6
<1>10. DOMAIN out.pivoted[g] = C /\ \A c \in C : out.pivoted[g][c] = Tables!PivotCell(g, c)
  BY <1>7
<1> DEFINE cells == out.pivoted[g]
<1>11. /\ [c \in DOMAIN cells |-> cells[c].count] = [c \in C |-> Tables!PivotCell(g, c).count]
       /\ [c \in DOMAIN cells |-> Tables!OrZero(cells[c].sum)]
            = [c \in C |-> Tables!OrZero(Tables!PivotCell(g, c).sum)]
  BY <1>10
<1> HIDE DEF cells, left, C
<1> QED  BY <1>6, <1>8, <1>9, <1>10, <1>11 DEF cells

-----------------------------------------------------------------------------
(* Rows that are numbered in groups                                         *)

GroupOf(group, r) == {s \in DOMAIN group : group[s] = group[r]}

\* The rows of a group have the numbers from one to how many they are, each once, by the order.
LEMMA GroupIsNumbered ==
    ASSUME NEW group, IsFiniteSet(DOMAIN group), NEW before,
           NEW number \in Tables!Numberings(group, before),
           NEW r \in DOMAIN group
    PROVE  LET rows == GroupOf(group, r)
           IN  /\ IsFiniteSet(rows) /\ \A s \in rows : number[s] \in 1..Cardinality(rows)
               /\ \A n \in 1..Cardinality(rows) : \E s \in rows : number[s] = n
               /\ \A s, t \in rows : s # t => number[s] # number[t]
               /\ \A s, t \in rows : s # t /\ <<s, t>> \in before => number[s] < number[t]
<1> DEFINE rows == GroupOf(group, r)
<1>0. \A s : s \in rows <=> s \in DOMAIN group /\ group[s] = group[r]
  BY DEF GroupOf
<1> HIDE DEF rows
<1>1. IsFiniteSet(rows) /\ r \in rows
  <2>1. rows \in SUBSET DOMAIN group
    BY <1>0
  <2> QED  BY <1>0, <2>1, FS_Subset
<1> DEFINE n == Cardinality(rows)
           f == [s \in rows |-> number[s]]
<1>2. n \in Nat /\ IsFiniteSet(1..n) /\ Cardinality(1..n) = n
  BY <1>1, FS_CardinalityType, FS_Interval
<1>3. \A t \in rows : /\ number[t] \in 1..n
                      /\ \A s \in rows \ {t} : /\ number[s] # number[t]
                                               /\ <<s, t>> \in before => number[s] < number[t]
  <2>1. ASSUME NEW t \in rows
        PROVE  /\ number[t] \in 1..n
               /\ \A s \in rows \ {t} : /\ number[s] # number[t]
                                        /\ <<s, t>> \in before => number[s] < number[t]
    <3>1. t \in DOMAIN group /\ {s \in DOMAIN group : group[s] = group[t]} = rows
      BY <1>0, <2>1
    <3>2. /\ number[t] \in 1..Tables!Cardinality({s \in DOMAIN group : group[s] = group[t]})
          /\ \A s \in {s \in DOMAIN group : group[s] = group[t]} \ {t} :
                number[s] # number[t] /\ (<<s, t>> \in before => number[s] < number[t])
      BY <3>1 DEF Tables!Numberings
    <3> HIDE DEF n
    <3> QED  BY <3>1, <3>2, CountsAgree DEF n
  <2> QED  BY <2>1
<1>3a. n = Cardinality(rows)
  OBVIOUS
<1> HIDE DEF n
<1>4. f \in Injection(rows, 1..n)
  BY <1>3 DEF Injection, IsInjective
<1>5. f \in Surjection(rows, 1..n)
  <2> HIDE DEF f
  <2> QED  BY <1>2, <1>3a, <1>4, FS_Injection
<1>6. \A t \in 1..n : \E s \in rows : number[s] = t
  <2>1. \A s \in rows : f[s] = number[s]
    OBVIOUS
  <2> HIDE DEF f
  <2>2. \A t \in 1..n : \E s \in rows : f[s] = t
    BY <1>5 DEF Surjection
  <2> QED  BY <2>1, <2>2
<1> QED  BY <1>1, <1>3, <1>6 DEF n, rows

\* One row of each group is kept, and no row of the group comes before it.
LEMMA OneIsKept ==
    ASSUME NEW group, IsFiniteSet(DOMAIN group), NEW before,
           NEW kept \in Tables!OnePerGroup(group, before)
    PROVE  /\ kept \subseteq DOMAIN group
           /\ \A r \in DOMAIN group : \E s \in kept :
                /\ {t \in kept : group[t] = group[r]} = {s}
                /\ \A t \in DOMAIN group : group[t] = group[r] /\ <<t, s>> \in before => t = s
<1>1. PICK number \in Tables!Numberings(group, before) : kept = {r \in DOMAIN group : number[r] = 1}
  BY DEF Tables!OnePerGroup
<1>2. ASSUME NEW r \in DOMAIN group
      PROVE  \E s \in kept :
                /\ {t \in kept : group[t] = group[r]} = {s}
                /\ \A t \in DOMAIN group : group[t] = group[r] /\ <<t, s>> \in before => t = s
  <2> DEFINE rows == GroupOf(group, r)
  <2>0. \A s : s \in rows <=> s \in DOMAIN group /\ group[s] = group[r]
    BY DEF GroupOf
  <2>1. /\ IsFiniteSet(rows) /\ \A s \in rows : number[s] \in 1..Cardinality(rows)
        /\ \A n \in 1..Cardinality(rows) : \E s \in rows : number[s] = n
        /\ \A s, t \in rows : s # t => number[s] # number[t]
        /\ \A s, t \in rows : s # t /\ <<s, t>> \in before => number[s] < number[t]
    BY <1>1, GroupIsNumbered
  <2>2. r \in rows
    BY <2>0
  <2>3. 1 \in 1..Cardinality(rows)
    <3> HIDE DEF rows
    <3> QED  BY <2>1, <2>2, FS_CardinalityType, FS_EmptySet
  <2>4. PICK s \in rows : number[s] = 1
    <3> HIDE DEF rows
    <3> QED  BY <2>1, <2>3
  <2>5. s \in kept /\ {t \in kept : group[t] = group[r]} = {s}
    <3> HIDE DEF rows
    <3> QED  BY <1>1, <2>0, <2>1, <2>4
  <2>6. ASSUME NEW t \in DOMAIN group, group[t] = group[r], <<t, s>> \in before, t # s  PROVE FALSE
    <3>1. t \in rows
      BY <2>0, <2>6
    <3>2. number[t] \in 1..Cardinality(rows) /\ number[t] < 1
      <4> HIDE DEF rows
      <4> QED  BY <2>1, <2>4, <2>6, <3>1
    <3> QED  BY <3>2
  <2> QED  BY <2>5, <2>6
<1> QED  BY <1>1, <1>2

-----------------------------------------------------------------------------
(* Joins and lookups                                                        *)

LEMMA NoneIsNoRow == None \notin Nat
BY JobsAssumption DEF Tables!Shapes

LEMMA MatchesAre ==
    ASSUME NEW left, NEW right
    PROVE  /\ \A p \in Tables!Matches(left, right) : p = <<p[1], p[2]>>
           /\ \A i, j : <<i, j>> \in Tables!Matches(left, right) <=>
                i \in DOMAIN left /\ j \in DOMAIN right /\ left[i] = right[j] /\ left[i] # Null
<1>1. ASSUME NEW x, NEW y  PROVE Tables!Equal(x, y) = TRUE <=> x = y /\ x # Null
  <2>1. CASE Null \in {x, y}
    BY <2>1, NullIsNoTruth DEF Tables!Equal, Tables!Compared
  <2>2. CASE Null \notin {x, y}
    BY <2>2, NullIsNoTruth, Zenon DEF Tables!Equal, Tables!Compared
  <2> QED  BY <2>1, <2>2
<1> DEFINE A == DOMAIN left
           B == DOMAIN right
<1>2. \A p : p \in Tables!Matches(left, right) <=>
        p \in A \X B /\ left[p[1]] = right[p[2]] /\ left[p[1]] # Null
  <2>1. ASSUME NEW p
        PROVE  p \in Tables!Matches(left, right) <=>
                 p \in A \X B /\ Tables!Equal(left[p[1]], right[p[2]]) = TRUE
    BY DEF Tables!Matches, Tables!Ids
  <2>2. ASSUME NEW p
        PROVE  Tables!Equal(left[p[1]], right[p[2]]) = TRUE <=> left[p[1]] = right[p[2]] /\ left[p[1]] # Null
    BY <1>1
  <2> QED  BY <2>1, <2>2
<1> HIDE DEF A, B
<1>3. \A p : p \in A \X B => p = <<p[1], p[2]>>
  OBVIOUS
<1>4. \A i, j : <<i, j>> \in A \X B <=> i \in A /\ j \in B
  OBVIOUS
<1>5. \A i, j : <<i, j>>[1] = i /\ <<i, j>>[2] = j
  OBVIOUS
<1>6. \A p \in Tables!Matches(left, right) : p = <<p[1], p[2]>>
  BY <1>2, <1>3
<1>7. \A i, j : <<i, j>> \in Tables!Matches(left, right) <=>
        i \in A /\ j \in B /\ left[i] = right[j] /\ left[i] # Null
  <2> SUFFICES ASSUME NEW i, NEW j
               PROVE  <<i, j>> \in Tables!Matches(left, right) <=>
                        i \in A /\ j \in B /\ left[i] = right[j] /\ left[i] # Null
    OBVIOUS
  <2> DEFINE p == <<i, j>>
  <2>1. p[1] = i /\ p[2] = j /\ (p \in A \X B <=> i \in A /\ j \in B)
    OBVIOUS
  <2> HIDE DEF p
  <2>2. p \in Tables!Matches(left, right) <=> i \in A /\ j \in B /\ left[i] = right[j] /\ left[i] # Null
    BY <1>2, <2>1
  <2> QED  BY <2>2 DEF p
<1> QED  BY <1>6, <1>7 DEF A, B

\* Which rows a join pairs.
LEMMA PairsAre ==
    ASSUME NEW left \in Seq(Tables!Cells), NEW right, NEW type, DOMAIN right \subseteq Nat,
           \A j \in DOMAIN right : right[j] \in Tables!Cells
    PROVE  LET pairs == Tables!Pairs(left, right, type)
           IN  /\ \A p \in pairs : p = <<p[1], p[2]>>
               /\ \A i, j : i # None /\ j # None =>
                    (<<i, j>> \in pairs <=> /\ i \in DOMAIN left /\ j \in DOMAIN right
                                            /\ left[i] = right[j] /\ left[i] # Null)
               /\ \A i : <<i, None>> \in pairs <=>
                    /\ type \in {"left", "full"} /\ i \in DOMAIN left
                    /\ \A j \in DOMAIN right : left[i] # right[j] \/ left[i] = Null
               /\ \A j : <<None, j>> \in pairs <=>
                    /\ type \in {"right", "full"} /\ j \in DOMAIN right
                    /\ \A i \in DOMAIN left : left[i] # right[j] \/ left[i] = Null
<1> DEFINE matched == Tables!Matches(left, right)
           lefts == {i \in DOMAIN left : \A p \in matched : p[1] # i}
           rights == {j \in DOMAIN right : \A p \in matched : p[2] # j}
           onlyLeft == IF type \in {"left", "full"} THEN {<<i, None>> : i \in lefts} ELSE {}
           onlyRight == IF type \in {"right", "full"} THEN {<<None, j>> : j \in rights} ELSE {}
<1>1. Tables!Pairs(left, right, type) = matched \union onlyLeft \union onlyRight
  <2>1. \A p : p \in Tables!Pairs(left, right, type) <=>
          \/ p \in matched
          \/ type \in {"left", "full"} /\ \E i \in DOMAIN left : (\A q \in matched : q[1] # i) /\ p = <<i, None>>
          \/ type \in {"right", "full"} /\ \E j \in DOMAIN right : (\A q \in matched : q[2] # j) /\ p = <<None, j>>
    BY DEF Tables!Pairs, Tables!Ids
  <2> HIDE DEF matched
  <2> QED  BY <2>1
<1>2. /\ \A p \in matched : p = <<p[1], p[2]>>
      /\ \A i, j : <<i, j>> \in matched <=>
           i \in DOMAIN left /\ j \in DOMAIN right /\ left[i] = right[j] /\ left[i] # Null
  BY MatchesAre
<1>3. (\A i \in DOMAIN left : i # None) /\ \A j \in DOMAIN right : j # None
  BY NoneIsNoRow
<1> HIDE DEF matched
<1>4. /\ \A i : i \in lefts <=> i \in DOMAIN left /\ \A j : <<i, j>> \notin matched
      /\ \A j : j \in rights <=> j \in DOMAIN right /\ \A i : <<i, j>> \notin matched
  <2>1. ASSUME NEW i  PROVE (\A p \in matched : p[1] # i) <=> \A j : <<i, j>> \notin matched
    BY <1>2
  <2>2. ASSUME NEW j  PROVE (\A p \in matched : p[2] # j) <=> \A i : <<i, j>> \notin matched
    BY <1>2
  <2> QED  BY <2>1, <2>2
<1> HIDE DEF lefts, rights
<1>8. \A p \in onlyLeft \union onlyRight : p = <<p[1], p[2]>>
  OBVIOUS
<1>9. /\ \A i, j : <<i, j>> \in onlyLeft <=> type \in {"left", "full"} /\ i \in lefts /\ j = None
      /\ \A i, j : <<i, j>> \in onlyRight <=> type \in {"right", "full"} /\ j \in rights /\ i = None
  OBVIOUS
<1> HIDE DEF onlyLeft, onlyRight
<1>10. /\ \A i : i \in lefts <=>
             i \in DOMAIN left /\ \A j \in DOMAIN right : left[i] # right[j] \/ left[i] = Null
       /\ \A j : j \in rights <=>
             j \in DOMAIN right /\ \A i \in DOMAIN left : left[i] # right[j] \/ left[i] = Null
  <2>1. ASSUME NEW i  PROVE (\A j : <<i, j>> \notin matched) <=>
          i \notin DOMAIN left \/ \A j \in DOMAIN right : left[i] # right[j] \/ left[i] = Null
    BY <1>2
  <2>2. ASSUME NEW j  PROVE (\A i : <<i, j>> \notin matched) <=>
          j \notin DOMAIN right \/ \A i \in DOMAIN left : left[i] # right[j] \/ left[i] = Null
    BY <1>2
  <2> QED  BY <1>4, <2>1, <2>2
<1>11. \A i, j : i # None /\ j # None =>
          (<<i, j>> \in Tables!Pairs(left, right, type) <=>
             i \in DOMAIN left /\ j \in DOMAIN right /\ left[i] = right[j] /\ left[i] # Null)
  BY <1>1, <1>2, <1>9
<1>12. \A i : <<i, None>> \in Tables!Pairs(left, right, type) <=>
          type \in {"left", "full"} /\ i \in lefts
  BY <1>1, <1>2, <1>3, <1>4, <1>9
<1>13. \A j : <<None, j>> \in Tables!Pairs(left, right, type) <=>
          type \in {"right", "full"} /\ j \in rights
  BY <1>1, <1>2, <1>3, <1>4, <1>9
<1>14. \A p \in Tables!Pairs(left, right, type) : p = <<p[1], p[2]>>
  BY <1>1, <1>2, <1>8
<1> QED  BY <1>10, <1>11, <1>12, <1>13, <1>14

\* A joined row has the key of its match, and a full join leaves no match out.
LEMMA JoinsMatch ==
    ASSUME job \in Jobs, job.node = "join", out \in Tables!Joined
    PROVE  Tables!JoinMatched
<1> DEFINE pairs == Tables!Pairs(job.left, job.right, job.type)
<1>1. job.left \in Seq(Tables!Cells) /\ job.right \in Seq(Tables!Cells)
  BY JobsAssumption DEF Tables!Shapes
<1>2. out = [pairs |-> pairs, key |-> [p \in pairs |-> IF p[1] = None THEN Null ELSE job.left[p[1]]]]
  BY DEF Tables!Joined
<1>3. out.pairs = pairs /\ out.key = [p \in pairs |-> IF p[1] = None THEN Null ELSE job.left[p[1]]]
  BY <1>2
<1>4. DOMAIN job.right \subseteq Nat /\ \A j \in DOMAIN job.right : job.right[j] \in Tables!Cells
  BY <1>1, InSequence
<1>5. /\ \A p \in pairs : p = <<p[1], p[2]>>
      /\ \A i, j : i # None /\ j # None =>
           (<<i, j>> \in pairs <=> /\ i \in DOMAIN job.left /\ j \in DOMAIN job.right
                                   /\ job.left[i] = job.right[j] /\ job.left[i] # Null)
      /\ \A i : <<i, None>> \in pairs <=>
           /\ job.type \in {"left", "full"} /\ i \in DOMAIN job.left
           /\ \A j \in DOMAIN job.right : job.left[i] # job.right[j] \/ job.left[i] = Null
      /\ \A j : <<None, j>> \in pairs <=>
           /\ job.type \in {"right", "full"} /\ j \in DOMAIN job.right
           /\ \A i \in DOMAIN job.left : job.left[i] # job.right[j] \/ job.left[i] = Null
  BY <1>1, <1>4, PairsAre
<1>6. DOMAIN job.left \subseteq Nat /\ None \notin DOMAIN job.left /\ None \notin DOMAIN job.right
  BY <1>1, <1>4, NoneIsNoRow
<1> HIDE DEF pairs
<1>7. ASSUME NEW p \in pairs, p[1] # None, p[2] # None  PROVE out.key[p] = job.right[p[2]]
  <2>1. out.key[p] = job.left[p[1]]
    BY <1>3, <1>7
  <2>2. <<p[1], p[2]>> \in pairs
    BY <1>5, <1>7
  <2> QED  BY <1>5, <1>7, <2>1, <2>2
<1>8. \A p \in pairs : out.key[p] = Null => p[1] = None \/ job.left[p[1]] = Null
  BY <1>3
<1>9. ASSUME NEW j \in DOMAIN job.right, job.type \in {"right", "full"}
      PROVE  \E p \in pairs : p[2] = j
  <2>1. CASE \E i \in DOMAIN job.left : job.left[i] = job.right[j] /\ job.left[i] # Null
    <3>1. PICK i \in DOMAIN job.left : job.left[i] = job.right[j] /\ job.left[i] # Null
      BY <2>1
    <3>2. <<i, j>> \in pairs
      BY <1>5, <1>6, <1>9, <3>1
    <3> QED  BY <3>2
  <2>2. CASE ~\E i \in DOMAIN job.left : job.left[i] = job.right[j] /\ job.left[i] # Null
    <3>1. <<None, j>> \in pairs
      BY <1>5, <1>9, <2>2
    <3> QED  BY <3>1
  <2> QED  BY <2>1, <2>2
<1>10. \A i \in DOMAIN job.left, j \in DOMAIN job.right :
         <<i, None>> \in pairs => job.left[i] # job.right[j] \/ job.left[i] = Null
  BY <1>5
<1> QED  BY <1>3, <1>7, <1>8, <1>9, <1>10 DEF Tables!JoinMatched, Tables!Ids

\* Which rows the ORDER BY of a deduplication puts before which.
LEMMA OrderingIs ==
    ASSUME NEW t, NEW ordered, NEW keep, NEW i \in DOMAIN t, NEW j \in DOMAIN t
    PROVE  <<i, j>> \in Tables!Ordering(t, ordered, keep) <=>
             /\ ordered /\ t[i].val # Null
             /\ \/ t[j].val = Null
                \/ keep = "first" /\ t[i].val < t[j].val
                \/ keep = "last" /\ t[i].val > t[j].val
BY DEF Tables!Ordering, Tables!Ids

\* A lookup in a dictionary that was deduplicated finds one entry, the first or the last by
\* the order; in the dictionary as it is, every entry of the key.
LEMMA LookupsMatch ==
    ASSUME job \in Jobs, job.node = "lookup", out \in Tables!LookedUp
    PROVE  Tables!LookupMatched
<1> DEFINE primary == job.primary
           dictionary == job.dictionary
           group == Tables!Keys(dictionary, DOMAIN dictionary)
           Comes(i, j) == /\ job.ordered /\ dictionary[i].val # Null
                          /\ \/ dictionary[j].val = Null
                             \/ job.keep = "first" /\ dictionary[i].val < dictionary[j].val
                             \/ job.keep = "last" /\ dictionary[i].val > dictionary[j].val
           before == Tables!Ordering(dictionary, job.ordered, job.keep)
           Keys(rows) == Tables!Keys(dictionary, rows)
<1>1. /\ primary \in Seq(Tables!Cells) /\ dictionary \in Seq([key : Tables!Cells, val : Tables!Cells])
      /\ job.keep \in {"first", "last"}
  BY JobsAssumption DEF Tables!Shapes
<1>2. \A i \in DOMAIN dictionary : dictionary[i].key \in Tables!Cells /\ dictionary[i].val \in Tables!Cells
  <2>1. ASSUME NEW i \in DOMAIN dictionary
        PROVE  dictionary[i] \in [key : Tables!Cells, val : Tables!Cells]
    <3> HIDE DEF dictionary
    <3> QED  BY <1>1, <2>1, InSequence
  <2> QED  BY <2>1
<1>3. /\ DOMAIN primary \subseteq Nat /\ DOMAIN dictionary \subseteq Nat
      /\ IsFiniteSet(DOMAIN dictionary)
  <2> HIDE DEF primary, dictionary
  <2> QED  BY <1>1, TableIsFinite
<1>4. PICK rows \in Tables!OnePerGroup(group, before) :
        out = [rows |-> rows, plain |-> Tables!Pairs(primary, Keys(DOMAIN dictionary), "left"),
               single |-> Tables!Pairs(primary, Keys(rows), "left")]
  BY DEF Tables!LookedUp, Tables!Deduplicated, Tables!Ids
<1>5. /\ out.plain = Tables!Pairs(primary, Keys(DOMAIN dictionary), "left")
      /\ out.single = Tables!Pairs(primary, Keys(rows), "left")
  BY <1>4
<1>5a. \A agreeing : DOMAIN Keys(agreeing) = agreeing /\ \A j \in agreeing : Keys(agreeing)[j] = dictionary[j].key
  BY DEF Tables!Keys
<1>6. /\ rows \subseteq DOMAIN dictionary
      /\ \A r \in DOMAIN dictionary : \E s \in rows :
           /\ {t \in rows : group[t] = group[r]} = {s}
           /\ \A t \in DOMAIN dictionary : group[t] = group[r] /\ <<t, s>> \in before => t = s
  <2>1. DOMAIN group = DOMAIN dictionary
    BY <1>5a
  <2> HIDE DEF group, before
  <2> QED  BY <1>3, <1>4, <2>1, OneIsKept
<1>7. ASSUME NEW r \in DOMAIN dictionary
      PROVE  \E s \in rows : /\ dictionary[s].key = dictionary[r].key
                             /\ \A t \in rows : dictionary[t].key = dictionary[r].key => t = s
  <2>1. PICK s \in rows : {t \in rows : group[t] = group[r]} = {s}
    BY <1>6
  <2>2. \A t \in rows : group[t] = dictionary[t].key
    BY <1>5a, <1>6
  <2>3. group[r] = dictionary[r].key
    BY <1>5a
  <2> HIDE DEF group
  <2> QED  BY <2>1, <2>2, <2>3
<1>8. ASSUME NEW s \in rows, NEW t \in DOMAIN dictionary, dictionary[t].key = dictionary[s].key, t # s
      PROVE  ~Comes(t, s)
  <2>1. s \in DOMAIN dictionary
    BY <1>6
  <2>2. PICK u \in rows : /\ {v \in rows : group[v] = group[s]} = {u}
                          /\ \A v \in DOMAIN dictionary : group[v] = group[s] /\ <<v, u>> \in before => v = u
    BY <1>6, <2>1
  <2>3. u = s
    <3> HIDE DEF group
    <3> QED  BY <2>2
  <2>4. group[t] = group[s]
    BY <1>5a, <1>8, <2>1
  <2>5. <<t, s>> \notin before
    <3> HIDE DEF group, before
    <3> QED  BY <1>8, <2>2, <2>3, <2>4
  <2>6. <<t, s>> \in before <=> Comes(t, s)
    <3> HIDE DEF dictionary
    <3> QED  BY <2>1, OrderingIs
  <2> HIDE DEF Comes, before
  <2> QED  BY <2>5, <2>6
\* what both lookups pair
<1>9. ASSUME NEW agreeing \in SUBSET DOMAIN dictionary, NEW pairs, pairs = Tables!Pairs(primary, Keys(agreeing), "left")
      PROVE  /\ \A p \in pairs : p = <<p[1], p[2]>>
             /\ \A i, j : i # None /\ j # None =>
                  (<<i, j>> \in pairs <=> /\ i \in DOMAIN primary /\ j \in agreeing
                                          /\ primary[i] = dictionary[j].key /\ primary[i] # Null)
             /\ \A i : <<i, None>> \in pairs <=>
                  /\ i \in DOMAIN primary
                  /\ \A j \in agreeing : primary[i] # dictionary[j].key \/ primary[i] = Null
  <2> DEFINE keys == Keys(agreeing)
  <2>1. DOMAIN keys = agreeing /\ \A j \in agreeing : keys[j] = dictionary[j].key
    BY <1>5a
  <2>2. DOMAIN keys \subseteq Nat /\ \A j \in DOMAIN keys : keys[j] \in Tables!Cells
    BY <1>2, <1>3, <2>1
  <2>3. pairs = Tables!Pairs(primary, keys, "left") /\ "left" \in {"left", "full"}
    BY <1>9
  <2> HIDE DEF keys, primary, dictionary
  <2>4. /\ \A p \in pairs : p = <<p[1], p[2]>>
        /\ \A i, j : i # None /\ j # None =>
             (<<i, j>> \in pairs <=> /\ i \in DOMAIN primary /\ j \in DOMAIN keys
                                     /\ primary[i] = keys[j] /\ primary[i] # Null)
        /\ \A i : <<i, None>> \in pairs <=>
             /\ "left" \in {"left", "full"} /\ i \in DOMAIN primary
             /\ \A j \in DOMAIN keys : primary[i] # keys[j] \/ primary[i] = Null
    BY <1>1, <2>2, <2>3, PairsAre
  <2> QED  BY <2>1, <2>3, <2>4
<1>10. None \notin DOMAIN primary /\ None \notin DOMAIN dictionary /\ None \notin rows
  BY <1>3, <1>6, NoneIsNoRow
<1> HIDE DEF Comes, before, group, Keys
<1> DEFINE Entries(i) == {j \in DOMAIN dictionary : dictionary[j].key = primary[i] /\ primary[i] # Null}
           Using(pairs, i) == {p \in pairs : p[1] = i}
<1>11. ASSUME NEW i \in DOMAIN primary, NEW agreeing \in SUBSET DOMAIN dictionary, NEW pairs,
              pairs = Tables!Pairs(primary, Keys(agreeing), "left")
       PROVE  Using(pairs, i) = IF Entries(i) \cap agreeing = {} THEN {<<i, None>>}
                                ELSE {<<i, j>> : j \in Entries(i) \cap agreeing}
  <2>1. /\ \A p \in pairs : p = <<p[1], p[2]>>
        /\ \A j : j # None => (<<i, j>> \in pairs <=> j \in Entries(i) \cap agreeing)
        /\ <<i, None>> \in pairs <=> Entries(i) \cap agreeing = {}
    <3>1. \A j : j \in Entries(i) \cap agreeing <=> j \in agreeing /\ primary[i] = dictionary[j].key /\ primary[i] # Null
      OBVIOUS
    <3> HIDE DEF primary, dictionary, Entries
    <3> QED  BY <1>9, <1>10, <1>11, <3>1
  <2>2. None \notin Entries(i) \cap agreeing
    BY <1>10
  <2> DEFINE E == Entries(i) \cap agreeing
  <2> HIDE DEF E, Entries
  <2>3. \A p : p \in Using(pairs, i) <=> p \in pairs /\ p[1] = i
    OBVIOUS
  <2>4. \A p : p \in Using(pairs, i) <=> p = <<i, p[2]>> /\ p \in pairs
    BY <2>1, <2>3
  <2>5. CASE E = {}
    <3>1. \A p : p \in Using(pairs, i) <=> p = <<i, None>>
      BY <2>1, <2>4, <2>5 DEF E
    <3> HIDE DEF Using
    <3> QED  BY <2>5, <3>1 DEF E
  <2>6. CASE E # {}
    <3>1. \A p : p \in Using(pairs, i) <=> \E j \in E : p = <<i, j>>
      BY <2>1, <2>2, <2>4, <2>6 DEF E
    <3> HIDE DEF Using
    <3> QED  BY <2>6, <3>1 DEF E
  <2> QED  BY <2>5, <2>6
<1> SUFFICES ASSUME NEW i \in DOMAIN primary
             PROVE  /\ Cardinality(Using(out.single, i)) = 1
                    /\ Cardinality(Using(out.plain, i)) > 1 <=> Cardinality(Entries(i)) > 1
                    /\ \A p, q \in out.single \union out.plain : p[1] = i /\ q[1] = i =>
                         (job.ordered /\ p \in out.single /\ p[2] # None /\ dictionary[q[2]].val # Null =>
                            /\ dictionary[p[2]].val # Null
                            /\ IF job.keep = "first" THEN dictionary[p[2]].val <= dictionary[q[2]].val
                               ELSE dictionary[p[2]].val >= dictionary[q[2]].val)
  BY CountsAgree DEF Tables!LookupMatched, Tables!Uses, Tables!Ids
<1>12. Using(out.single, i) = IF Entries(i) \cap rows = {} THEN {<<i, None>>}
                              ELSE {<<i, j>> : j \in Entries(i) \cap rows}
  BY <1>5, <1>6, <1>11
<1>13. Using(out.plain, i) = IF Entries(i) = {} THEN {<<i, None>>} ELSE {<<i, j>> : j \in Entries(i)}
  <2>1. Entries(i) \cap DOMAIN dictionary = Entries(i)
    OBVIOUS
  <2> HIDE DEF Entries, Using
  <2> QED  BY ZenonT(40), <1>5, <1>11, <2>1
<1>14. \E x : Using(out.single, i) = {<<i, x>>}
  <2>1. CASE Entries(i) = {}
    BY <1>12, <2>1
  <2>2. CASE Entries(i) # {}
    <3>1. PICK r \in DOMAIN dictionary : dictionary[r].key = primary[i] /\ primary[i] # Null
      BY <2>2
    <3>2. PICK s \in rows : /\ dictionary[s].key = primary[i]
                            /\ \A t \in rows : dictionary[t].key = primary[i] => t = s
      BY <1>7, <3>1
    <3>3. Entries(i) \cap rows = {s}
      BY <1>6, <3>1, <3>2
    <3> HIDE DEF Entries, Using
    <3>4. Using(out.single, i) = {<<i, s>>}
      BY <1>12, <3>3
    <3> QED  BY <3>4
  <2> QED  BY <2>1, <2>2
<1>15. Cardinality(Using(out.single, i)) = 1
  BY <1>14, FS_Singleton
<1>16. Cardinality(Using(out.plain, i)) > 1 <=> Cardinality(Entries(i)) > 1
  <2>1. CASE Entries(i) = {}
    <3>1. Cardinality(Using(out.plain, i)) = 1 /\ Cardinality(Entries(i)) = 0
      BY <1>13, <2>1, FS_Singleton, FS_EmptySet
    <3> QED  BY <3>1
  <2>2. CASE Entries(i) # {}
    <3> DEFINE f == [j \in Entries(i) |-> <<i, j>>]
               E == Entries(i)
    <3>1. IsFiniteSet(E)
      BY <1>3, FS_Subset
    <3>2. Using(out.plain, i) = {<<i, j>> : j \in E}
      BY <1>13, <2>2
    <3> HIDE DEF Using, E
    <3>3. f \in Bijection(E, {<<i, j>> : j \in E})
      BY DEF Bijection, Injection, Surjection, IsInjective, E
    <3>4. Cardinality({<<i, j>> : j \in E}) = Cardinality(E)
      <4> DEFINE T == {<<i, j>> : j \in E}
      <4> HIDE DEF T, f
      <4>1. ExistsBijection(E, T)
        BY <3>3 DEF ExistsBijection, T
      <4>2. Cardinality(T) = Cardinality(E)
        BY <3>1, <4>1, FS_Bijection
      <4> QED  BY <4>2 DEF T
    <3> QED  BY <3>2, <3>4 DEF E
  <2> QED  BY <2>1, <2>2
<1>17. ASSUME NEW p \in out.single, NEW q \in out.single \union out.plain, p[1] = i, q[1] = i,
              job.ordered, p[2] # None, dictionary[q[2]].val # Null
       PROVE  /\ dictionary[p[2]].val # Null
              /\ IF job.keep = "first" THEN dictionary[p[2]].val <= dictionary[q[2]].val
                 ELSE dictionary[p[2]].val >= dictionary[q[2]].val
  <2>1. p[2] \in Entries(i) \cap rows
    <3>1. p \in Using(out.single, i)
      BY <1>17
    <3> HIDE DEF Using, Entries
    <3>2. CASE Entries(i) \cap rows = {}
      BY <1>12, <1>17, <3>1, <3>2
    <3>3. CASE Entries(i) \cap rows # {}
      BY <1>12, <3>1, <3>3
    <3> QED  BY <3>2, <3>3
  <2>2. q[2] \in Entries(i)
    <3>1. q \in Using(out.single, i) \/ q \in Using(out.plain, i)
      BY <1>17
    <3> HIDE DEF Using, Entries
    <3>2. CASE q \in Using(out.single, i)
      BY <1>12, <2>1, <3>2
    <3>3. CASE q \in Using(out.plain, i)
      BY <1>13, <2>1, <3>3
    <3> QED  BY <3>1, <3>2, <3>3
  <2> DEFINE s == p[2]
             t == q[2]
             used == dictionary[s].val
             other == dictionary[t].val
  <2>3. /\ s \in rows /\ t \in DOMAIN dictionary /\ dictionary[t].key = dictionary[s].key
        /\ used \in Tables!Cells /\ other \in Tables!Cells
    BY <1>2, <2>1, <2>2
  <2>4. other \in Int /\ (used # Null => used \in Int)
    BY <1>17, <2>3, NullIsNoNumber DEF Tables!Cells
  <2>5. CASE s = t
    BY <1>17, <2>4, <2>5
  <2>6. CASE s # t
    <3>1. ~Comes(t, s)
      <4> HIDE DEF s, t
      <4> QED  BY <1>8, <2>3, <2>6
    <3> HIDE DEF s, t, dictionary
    <3>2. /\ used # Null
          /\ ~(job.keep = "first" /\ other < used) /\ ~(job.keep = "last" /\ other > used)
      BY <1>17, <3>1 DEF Comes, s, t
    <3> HIDE DEF used, other
    <3>3. IF job.keep = "first" THEN used <= other ELSE used >= other
      BY <1>1, <2>4, <3>2
    <3> QED  BY <3>2, <3>3 DEF used, other, s, t
  <2> QED  BY <2>5, <2>6
<1> QED  BY <1>15, <1>16, <1>17

-----------------------------------------------------------------------------
(* Unions                                                                   *)

\* The first source of its handle.
Heard(sources, k) == k \in DOMAIN sources /\ \A m \in 1..(k - 1) : sources[m].handle # sources[k].handle

\* Every handle has one source that is heard, and that is the one a union takes.
LEMMA SourcesHeard ==
    ASSUME NEW sources, NEW n \in Nat, DOMAIN sources = 1..n
    PROVE  /\ Tables!Handles(sources) = {sources[k].handle : k \in 1..n}
           /\ \A h \in Tables!Handles(sources) :
                /\ Heard(sources, Tables!SourceOf(sources, h))
                /\ sources[Tables!SourceOf(sources, h)].handle = h
           /\ \A k : Heard(sources, k) => /\ sources[k].handle \in Tables!Handles(sources)
                                          /\ Tables!SourceOf(sources, sources[k].handle) = k
<1>1. Tables!Handles(sources) = {sources[k].handle : k \in 1..n}
  BY DEF Tables!Handles, Tables!Range
<1> DEFINE First(k, h) == sources[k].handle = h /\ \A m \in 1..(k - 1) : sources[m].handle # h
<1>2. ASSUME NEW h \in Tables!Handles(sources)
      PROVE  \E k \in 1..n : First(k, h)
  <2> DEFINE S == {k \in 1..n : sources[k].handle = h}
  <2>1. S \in SUBSET Nat /\ S # {}
    BY <1>1
  <2>2. PICK k \in S : \A m \in S : k <= m
    <3> HIDE DEF S
    <3> QED  BY <2>1, MinIsLeast
  <2>3. \A m \in 1..(k - 1) : m \in 1..n /\ m < k
    OBVIOUS
  <2>4. \A m \in 1..(k - 1) : sources[m].handle # h
    BY <2>2, <2>3
  <2> QED  BY <2>2, <2>4
<1>3. \A h : \A j, k \in 1..n : First(j, h) /\ First(k, h) => j = k
  <2> SUFFICES ASSUME NEW h, NEW j \in 1..n, NEW k \in 1..n, First(j, h), First(k, h)
               PROVE  j = k
    OBVIOUS
  <2>1. ~(j < k) /\ ~(k < j)
    <3>1. j < k => j \in 1..(k - 1)
      OBVIOUS
    <3>2. k < j => k \in 1..(j - 1)
      OBVIOUS
    <3> QED  BY <3>1, <3>2
  <2> QED  BY <2>1
<1>4. \A h : Tables!SourceOf(sources, h) = CHOOSE k \in 1..n : First(k, h)
  BY DEF Tables!SourceOf
<1>5. \A k : Heard(sources, k) <=> k \in 1..n /\ First(k, sources[k].handle)
  BY DEF Heard
<1> HIDE DEF First
<1>6. ASSUME NEW h \in Tables!Handles(sources)
      PROVE  /\ Tables!SourceOf(sources, h) \in 1..n
             /\ First(Tables!SourceOf(sources, h), h)
  BY <1>2, <1>4
<1>7. ASSUME NEW h \in Tables!Handles(sources)
      PROVE  sources[Tables!SourceOf(sources, h)].handle = h
  BY <1>6 DEF First
<1>8. ASSUME NEW k, Heard(sources, k)
      PROVE  /\ sources[k].handle \in Tables!Handles(sources)
             /\ Tables!SourceOf(sources, sources[k].handle) = k
  <2>1. k \in 1..n /\ sources[k].handle \in Tables!Handles(sources)
    BY <1>1, <1>5, <1>8
  <2> QED  BY <1>3, <1>5, <1>6, <1>8, <2>1
<1> QED  BY <1>1, <1>5, <1>6, <1>7, <1>8

\* A handle has a lower rank than every greater one.
LEMMA RanksFollow ==
    ASSUME NEW handles \in SUBSET Nat, IsFiniteSet(handles), NEW g \in handles, NEW h \in handles
    PROVE  g < h <=> Tables!Rank(handles, g) < Tables!Rank(handles, h)
<1> DEFINE Low(x) == {y \in handles : y <= x}
<1>1. \A x \in handles : /\ Tables!Rank(handles, x) = Cardinality(Low(x))
                         /\ IsFiniteSet(Low(x)) /\ Cardinality(Low(x)) \in Nat
  <2>1. ASSUME NEW x \in handles  PROVE IsFiniteSet(Low(x)) /\ Cardinality(Low(x)) \in Nat
    BY FS_Subset, FS_CardinalityType
  <2>2. ASSUME NEW x \in handles  PROVE Tables!Rank(handles, x) = Cardinality(Low(x))
    BY CountsAgree DEF Tables!Rank
  <2> QED  BY <2>1, <2>2
<1>1a. \A x \in handles : x \in Nat
  OBVIOUS
<1>2. ASSUME NEW x \in handles, NEW y \in handles, x < y  PROVE Cardinality(Low(x)) < Cardinality(Low(y))
  <2>1. Low(x) \in SUBSET Low(y) /\ y \in Low(y) /\ y \notin Low(x)
    <3>1. \A z \in handles : z <= x => z <= y
      BY <1>1a, <1>2
    <3>2. ~(y <= x) /\ y <= y
      BY <1>1a, <1>2
    <3> QED  BY <3>1, <3>2
  <2> HIDE DEF Low
  <2>2. Cardinality(Low(x)) <= Cardinality(Low(y)) /\ Cardinality(Low(x)) # Cardinality(Low(y))
    BY <1>1, <2>1, FS_Subset
  <2> QED  BY <1>1, <2>2
<1>2a. /\ g \in Nat /\ h \in Nat
       /\ Cardinality(Low(g)) \in Nat /\ Cardinality(Low(h)) \in Nat
       /\ g < h => Cardinality(Low(g)) < Cardinality(Low(h))
       /\ h < g => Cardinality(Low(h)) < Cardinality(Low(g))
  BY <1>1, <1>1a, <1>2
<1> HIDE DEF Low
<1>3. g < h <=> Cardinality(Low(g)) < Cardinality(Low(h))
  <2>1. CASE g = h
    BY <1>2a, <2>1
  <2>2. CASE g # h
    BY <1>2a, <2>2
  <2> QED  BY <2>1, <2>2
<1> QED  BY <1>1, <1>3

\* A union hears one source of each handle, and keeps of each key a row of the handle that has
\* priority.
LEMMA UnionsMatch ==
    ASSUME job \in Jobs, job.node = "union", out \in Tables!United
    PROVE  Tables!UnionMatched
<1> DEFINE sources == job.sources
           inputs == Tables!Inputs
           n == Len(sources)
           handles == Tables!Handles(inputs)
           heard == {k \in DOMAIN sources : Heard(inputs, k)}
           all == UNION {Tables!RowsOf(k) : k \in heard}
           HandleOf(r) == sources[r[1]].handle
<1>1. sources \in Seq([handle : Nat, keys : Seq(Tables!Cells)])
  BY JobsAssumption DEF Tables!Shapes
<1>2. /\ n \in Nat /\ DOMAIN sources = 1..n
      /\ \A k \in 1..n : sources[k].handle \in Nat /\ sources[k].keys \in Seq(Tables!Cells)
  <2>1. ASSUME NEW k \in DOMAIN sources  PROVE sources[k] \in [handle : Nat, keys : Seq(Tables!Cells)]
    <3> HIDE DEF sources
    <3> QED  BY <1>1, <2>1, InSequence
  <2>2. n \in Nat /\ DOMAIN sources = 1..n
    <3> HIDE DEF sources
    <3> QED  BY <1>1
  <2> HIDE DEF n
  <2> QED  BY <2>1, <2>2
<1>3. /\ DOMAIN inputs = 1..n
      /\ \A k \in 1..n : inputs[k].handle = sources[k].handle /\ inputs[k].rows = Tables!RowsOf(k)
  <2> HIDE DEF n
  <2> QED  BY <1>2 DEF Tables!Inputs
<1> HIDE DEF sources, inputs, n
<1>4. /\ handles = {inputs[k].handle : k \in 1..n}
      /\ \A h \in handles : /\ Heard(inputs, Tables!SourceOf(inputs, h))
                            /\ inputs[Tables!SourceOf(inputs, h)].handle = h
      /\ \A k : Heard(inputs, k) => /\ inputs[k].handle \in handles
                                    /\ Tables!SourceOf(inputs, inputs[k].handle) = k
  BY <1>2, <1>3, SourcesHeard
<1>5. handles \in SUBSET Nat /\ IsFiniteSet(handles)
  <2> DEFINE f == [k \in 1..n |-> inputs[k].handle]
             T == {inputs[k].handle : k \in 1..n}
  <2>1. f \in Surjection(1..n, T)
    BY DEF Surjection
  <2>2. IsFiniteSet(1..n)
    <3>1. n \in Int
      BY <1>2
    <3> QED  BY <3>1, FS_Interval
  <2>3. IsFiniteSet(T)
    <3> HIDE DEF f, T
    <3> QED  BY <2>1, <2>2, FS_Surjection
  <2> QED  BY <1>2, <1>3, <1>4, <2>3
<1>6. \A k : k \in heard <=> /\ k \in 1..n
                             /\ \A m \in 1..(k - 1) : sources[m].handle # sources[k].handle
  <2>1. ASSUME NEW k \in 1..n  PROVE \A m \in 1..(k - 1) : m \in 1..n
    BY <1>2
  <2> QED  BY <1>2, <1>3, <2>1 DEF Heard
<1>7. /\ \A r : r \in all <=> \E k \in heard : r \in Tables!RowsOf(k)
      /\ \A k : \A r \in Tables!RowsOf(k) : r = <<k, r[2]>> /\ r[1] = k /\ r[2] \in DOMAIN sources[k].keys
  BY DEF Tables!RowsOf, Tables!Ids, sources
<1>8. /\ Tables!RowsIn(inputs) = all
      /\ \A h \in handles : Tables!SourceOf(inputs, h) \in heard
  <2>1. \A h \in handles : Tables!SourceOf(inputs, h) \in heard
    BY <1>2, <1>3, <1>4 DEF Heard
  <2>2. \A h \in handles : inputs[Tables!SourceOf(inputs, h)].rows = Tables!RowsOf(Tables!SourceOf(inputs, h))
    BY <1>3, <1>6, <2>1
  <2>3. \A k \in heard : inputs[k].handle \in handles /\ Tables!SourceOf(inputs, inputs[k].handle) = k
    BY <1>4
  <2>4. {inputs[Tables!SourceOf(inputs, h)].rows : h \in handles} = {Tables!RowsOf(k) : k \in heard}
    <3> HIDE DEF handles, heard
    <3> QED  BY <2>1, <2>2, <2>3
  <2> HIDE DEF heard
  <2> QED  BY <2>1, <2>4 DEF Tables!RowsIn
<1>9. ASSUME NEW r \in all
      PROVE  /\ r[1] \in heard /\ r \in Tables!RowsOf(r[1]) /\ HandleOf(r) \in handles
             /\ Tables!RankOf(inputs, r) = Tables!Rank(handles, HandleOf(r))
  <2>1. r[1] \in heard /\ r \in Tables!RowsOf(r[1])
    BY <1>7
  <2>2. HandleOf(r) = inputs[r[1]].handle /\ HandleOf(r) \in handles
        /\ Tables!SourceOf(inputs, HandleOf(r)) = r[1]
    BY <1>3, <1>4, <1>6, <2>1
  <2>3. ASSUME NEW h \in handles
        PROVE  r \in inputs[Tables!SourceOf(inputs, h)].rows <=> h = HandleOf(r)
    <3> DEFINE k == Tables!SourceOf(inputs, h)
    <3>1. k \in heard /\ inputs[k].handle = h /\ inputs[k].rows = Tables!RowsOf(k)
      BY <1>3, <1>4, <1>6, <1>8
    <3> HIDE DEF k, heard, handles
    <3>2. r \in Tables!RowsOf(k) <=> k = r[1]
      BY <1>7, <2>1
    <3> QED  BY <2>2, <3>1, <3>2 DEF k
  <2> DEFINE c == CHOOSE h \in handles : r \in inputs[Tables!SourceOf(inputs, h)].rows
  <2>4. c = HandleOf(r)
    <3> HIDE DEF handles, HandleOf
    <3> QED  BY <2>2, <2>3
  <2>5. Tables!RankOf(inputs, r) = Tables!Rank(handles, c)
    BY DEF Tables!RankOf
  <2> HIDE DEF c
  <2> QED  BY <2>1, <2>2, <2>4, <2>5
<1>10. IsFiniteSet(all)
  <2>1. IsFiniteSet(heard)
    <3>1. heard \in SUBSET (1..n)
      BY <1>2
    <3>2. IsFiniteSet(1..n)
      <4>1. n \in Int
        BY <1>2
      <4> QED  BY <4>1, FS_Interval
    <3> HIDE DEF heard
    <3> QED  BY <3>1, <3>2, FS_Subset
  <2> DEFINE Of == {Tables!RowsOf(k) : k \in heard}
             f == [k \in heard |-> Tables!RowsOf(k)]
  <2>2. f \in Surjection(heard, Of)
    BY DEF Surjection
  <2>3. IsFiniteSet(Of)
    <3> HIDE DEF f, Of
    <3> QED  BY <2>1, <2>2, FS_Surjection
  <2>4. ASSUME NEW k \in heard  PROVE IsFiniteSet(Tables!RowsOf(k))
    <3> DEFINE D == DOMAIN sources[k].keys
               g == [i \in D |-> <<k, i>>]
    <3>1. IsFiniteSet(D)
      BY <1>2, <1>6, TableIsFinite
    <3>2. Tables!RowsOf(k) = {<<k, i>> : i \in D}
      BY DEF Tables!RowsOf, Tables!Ids, sources
    <3> HIDE DEF D
    <3>3. g \in Surjection(D, Tables!RowsOf(k))
      BY <3>2 DEF Surjection
    <3> HIDE DEF g
    <3> QED  BY <3>1, <3>3, FS_Surjection
  <2>5. \A T \in Of : IsFiniteSet(T)
    BY <2>4
  <2> HIDE DEF Of
  <2>6. IsFiniteSet(UNION Of)
    BY <2>3, <2>5, FS_UNION
  <2> QED  BY <2>6 DEF Of
<1> HIDE DEF handles, heard, all
<1>11. PICK rows \in Tables!Unions(inputs, Tables!InputKeys, job.priority) : out = [rows |-> rows]
  BY DEF Tables!United, inputs
<1>12. out.rows = rows
  BY <1>11
<1>13. SUFFICES ASSUME rows # Raised
                PROVE  IF job.priority = None THEN rows = all
                       ELSE \A r \in all : \E s \in rows :
                              /\ {t \in rows : Tables!KeyOf(t) = Tables!KeyOf(r)} = {s}
                              /\ job.priority = "input_first" => HandleOf(s) <= HandleOf(r)
                              /\ job.priority = "input_last" => HandleOf(s) >= HandleOf(r)
  <2>1. heard = {k \in DOMAIN sources : ~\E m \in 1..(k - 1) : sources[m].handle = sources[k].handle}
    BY <1>2, <1>6
  <2>2. all = UNION {Tables!RowsOf(k) : k \in heard}
    BY DEF all
  <2> QED  BY <1>12, <2>1, <2>2 DEF Tables!UnionMatched, sources
<1> DEFINE group == [r \in all |-> Tables!InputKeys[r]]
           before == Tables!Preferred(inputs, job.priority)
<1>14. rows = IF job.priority = None THEN all ELSE rows
  BY <1>8, <1>11, <1>13 DEF Tables!Unions
<1>15. CASE job.priority = None
  BY <1>14, <1>15
<1>16. CASE job.priority # None
  <2>1. rows \in Tables!OnePerGroup(group, before)
    BY <1>8, <1>11, <1>13, <1>16 DEF Tables!Unions
  <2>2. DOMAIN group = all /\ \A r \in all : group[r] = Tables!KeyOf(r)
    <3>1. \A r \in all : r \in UNION {Tables!RowsOf(k) : k \in DOMAIN sources}
      BY <1>2, <1>6, <1>7
    <3> QED  BY <3>1 DEF Tables!InputKeys, sources
  <2> HIDE DEF group, before
  <2> SUFFICES ASSUME NEW r \in all
               PROVE  \E s \in rows :
                        /\ {t \in rows : Tables!KeyOf(t) = Tables!KeyOf(r)} = {s}
                        /\ job.priority = "input_first" => HandleOf(s) <= HandleOf(r)
                        /\ job.priority = "input_last" => HandleOf(s) >= HandleOf(r)
    BY <1>16
  <2>3. rows \subseteq all
    BY <1>10, <2>1, <2>2, OneIsKept
  <2>4. PICK s \in rows :
          /\ {t \in rows : group[t] = group[r]} = {s}
          /\ \A t \in all : group[t] = group[r] /\ <<t, s>> \in before => t = s
    BY <1>10, <2>1, <2>2, OneIsKept
  <2>5. {t \in rows : Tables!KeyOf(t) = Tables!KeyOf(r)} = {s}
    BY <2>2, <2>3, <2>4
  <2>6. <<r, s>> \in before => r = s
    BY <2>4
  <2>7. s \in all
    BY <2>3
  <2>8. <<r, s>> \in before <=>
          \/ job.priority = "input_first" /\ Tables!RankOf(inputs, r) < Tables!RankOf(inputs, s)
          \/ job.priority = "input_last" /\ Tables!RankOf(inputs, r) > Tables!RankOf(inputs, s)
    BY <1>8, <2>7 DEF Tables!Preferred, before
  <2>9. /\ HandleOf(r) \in handles /\ Tables!RankOf(inputs, r) = Tables!Rank(handles, HandleOf(r))
        /\ HandleOf(s) \in handles /\ Tables!RankOf(inputs, s) = Tables!Rank(handles, HandleOf(s))
    BY <1>9, <2>7
  <2> HIDE DEF HandleOf
  <2>10. /\ HandleOf(r) < HandleOf(s) <=> Tables!RankOf(inputs, r) < Tables!RankOf(inputs, s)
         /\ HandleOf(s) < HandleOf(r) <=> Tables!RankOf(inputs, s) < Tables!RankOf(inputs, r)
    <3> DEFINE g == HandleOf(r)
               h == HandleOf(s)
    <3> HIDE DEF g, h
    <3>1. g \in handles /\ h \in handles
      BY <2>9 DEF g, h
    <3>2. /\ g < h <=> Tables!Rank(handles, g) < Tables!Rank(handles, h)
          /\ h < g <=> Tables!Rank(handles, h) < Tables!Rank(handles, g)
      BY <1>5, <3>1, RanksFollow
    <3> QED  BY <2>9, <3>2 DEF g, h
  <2>11. HandleOf(r) \in Nat /\ HandleOf(s) \in Nat
    BY <1>5, <2>9
  <2>12. /\ job.priority = "input_first" => ~(HandleOf(r) < HandleOf(s))
         /\ job.priority = "input_last" => ~(HandleOf(s) < HandleOf(r))
    <3>1. CASE r = s
      BY <2>11, <3>1
    <3>2. CASE r # s
      <4>1. /\ job.priority = "input_first" => ~(Tables!RankOf(inputs, r) < Tables!RankOf(inputs, s))
            /\ job.priority = "input_last" => ~(Tables!RankOf(inputs, r) > Tables!RankOf(inputs, s))
        BY <2>6, <2>8, <3>2
      <4> QED  BY <2>10, <4>1
    <3> QED  BY <3>1, <3>2
  <2> QED  BY <2>5, <2>11, <2>12
<1> QED  BY <1>15, <1>16

-----------------------------------------------------------------------------
(* Numbers of records                                                       *)

\* A set of integers that is finite and not empty has a greatest element, which Max chooses.
LEMMA MaxIsGreatest ==
    ASSUME NEW S \in SUBSET Int, IsFiniteSet(S), S # {}
    PROVE  Tables!Max(S) \in S /\ \A y \in S : Tables!Max(S) >= y
<1> DEFINE Q == {T \in SUBSET S : T = {} \/ \E x \in T : \A y \in T : x >= y}
<1>1. {} \in Q
  OBVIOUS
<1>2. ASSUME NEW T \in SUBSET S, T # {}, \A x \in T : T \ {x} \in Q  PROVE T \in Q
  <2>1. PICK x \in T : TRUE
    BY <1>2
  <2>2. T \ {x} = {} \/ \E z \in T \ {x} : \A y \in T \ {x} : z >= y
    BY <1>2
  <2>3. CASE T \ {x} = {}
    <3>1. \A y \in T : y = x
      BY <2>3
    <3>2. x \in Int
      OBVIOUS
    <3>3. \A y \in T : x >= y
      BY <3>1, <3>2
    <3> QED  BY <3>3
  <2>4. CASE \E z \in T \ {x} : \A y \in T \ {x} : z >= y
    <3>1. PICK z \in T \ {x} : \A y \in T \ {x} : z >= y
      BY <2>4
    <3>2. \A y \in T : y \in Int
      OBVIOUS
    <3>3. CASE z >= x
      <4>1. \A y \in T : z >= y
        BY <3>1, <3>3
      <4> QED  BY <4>1
    <3>4. CASE ~(z >= x)
      <4>1. \A y \in T : x >= y
        BY <3>1, <3>2, <3>4
      <4> QED  BY <4>1
    <3> QED  BY <3>3, <3>4
  <2> QED  BY <2>2, <2>3, <2>4
<1>3. SUBSET S \subseteq Q
  <2> HIDE DEF Q
  <2> QED  BY <1>1, <1>2, Shrinking
<1>4. \E x \in S : \A y \in S : x >= y
  BY <1>3
<1> QED  BY <1>4 DEF Tables!Max

\* The numbers of a batch are a sequence of integers from the start on.
LEMMA BatchIsNumbered ==
    ASSUME NEW group, NEW n \in Nat, DOMAIN group = 1..n, NEW start \in Int,
           NEW ids \in Tables!Numbered(group, start)
    PROVE  /\ ids \in Seq(Int) /\ DOMAIN ids = 1..n
           /\ \A i \in 1..n : ids[i] >= start
           /\ (\A i, j \in 1..n : group[i] = group[j]) =>
                 Tables!Range(ids) = start..(start + n - 1)
<1>1. PICK number \in Tables!Numberings(group, Tables!Unordered) :
        ids = [r \in DOMAIN group |-> number[r] + Tables!Offset(start)]
  BY DEF Tables!Numbered
<1>2. IsFiniteSet(DOMAIN group)
  <2>1. n \in Int
    OBVIOUS
  <2> QED  BY <2>1, FS_Interval
<1>3. ASSUME NEW r \in 1..n
      PROVE  LET rows == GroupOf(group, r)
             IN  /\ IsFiniteSet(rows) /\ \A s \in rows : number[s] \in 1..Cardinality(rows)
                 /\ \A m \in 1..Cardinality(rows) : \E s \in rows : number[s] = m
  BY <1>1, <1>2, GroupIsNumbered
<1>4. ASSUME NEW r \in 1..n  PROVE number[r] \in Nat /\ number[r] >= 1
  <2> DEFINE rows == GroupOf(group, r)
             m == Cardinality(rows)
  <2>1. r \in rows
    BY DEF GroupOf
  <2>2. number[r] \in 1..m
    BY <1>3, <2>1
  <2> HIDE DEF m
  <2> QED  BY <2>2
<1>5. DOMAIN ids = 1..n /\ \A i \in 1..n : ids[i] = number[i] + (start - 1)
  BY <1>1 DEF Tables!Offset
<1>6. \A i \in 1..n : ids[i] \in Int /\ ids[i] >= start
  BY <1>4, <1>5
<1>7. ids \in Seq(Int)
  <2>1. ids = [i \in 1..n |-> ids[i]]
    BY <1>1, <1>5
  <2>2. ids \in [1..n -> Int]
    BY <1>6, <2>1
  <2> QED  BY <2>2
<1>8. ASSUME \A i, j \in 1..n : group[i] = group[j]
      PROVE  {ids[i] : i \in 1..n} = start..(start + n - 1)
  <2>1. CASE n = 0
    BY <2>1
  <2>2. CASE n # 0
    <3>1. 1 \in 1..n
      BY <2>2
    <3> DEFINE rows == GroupOf(group, 1)
    <3>2. rows = 1..n
      BY <1>8, <3>1 DEF GroupOf
    <3>3. Cardinality(rows) = n
      <4>1. n \in Int /\ 1 \in Int /\ ~(1 > n) /\ n - 1 + 1 = n
        BY <2>2
      <4>2. Cardinality(1..n) = n
        BY <4>1, FS_Interval
      <4> QED  BY <3>2, <4>2
    <3>4. /\ \A s \in 1..n : number[s] \in 1..n
          /\ \A m \in 1..n : \E s \in 1..n : number[s] = m
      BY <1>3, <3>1, <3>2, <3>3
    <3>5. \A i \in 1..n : ids[i] \in start..(start + n - 1)
      <4>1. ASSUME NEW i \in 1..n  PROVE ids[i] \in start..(start + n - 1)
        <5>1. number[i] \in 1..n /\ ids[i] = number[i] + (start - 1)
          BY <1>5, <3>4
        <5> QED  BY <5>1
      <4> QED  BY <4>1
    <3>6. ASSUME NEW x \in start..(start + n - 1)
          PROVE  \E i \in 1..n : ids[i] = x
      <4>1. x - start + 1 \in 1..n
        OBVIOUS
      <4>2. PICK i \in 1..n : number[i] = x - start + 1
        BY <3>4, <4>1
      <4>3. ids[i] = x
        BY <1>5, <4>2
      <4> QED  BY <4>3
    <3> QED  BY <3>5, <3>6
  <2> QED  BY <2>1, <2>2
<1>9. Tables!Range(ids) = {ids[i] : i \in 1..n}
  BY <1>5 DEF Tables!Range
<1> QED  BY <1>5, <1>6, <1>7, <1>8, <1>9

\* Two batches have no number twice and, without partitions, none missing.
LEMMA BatchesFollow ==
    ASSUME job \in Jobs, job.node = "record_id", out \in Tables!Recorded
    PROVE  Tables!NumbersFollow
<1> DEFINE m == Len(job.first)
           n == Len(job.second)
           start == job.start
           offset == job.offset
<1>1. /\ start \in Int /\ offset \in Int /\ m \in Nat /\ n \in Nat
      /\ DOMAIN job.first = 1..m /\ DOMAIN job.second = 1..n
      /\ job.first = << >> <=> m = 0
  <2>1. job.first \in Seq(Tables!Cells) /\ job.second \in Seq(Tables!Cells) /\ start \in Int /\ offset \in Int
    BY JobsAssumption DEF Tables!Shapes
  <2> QED  BY <2>1
<1>2. Raised \notin Seq(Int)
  BY JobsAssumption DEF Tables!Shapes
<1> HIDE DEF m, n
<1>3. CASE start < 1
  BY <1>3 DEF Tables!Recorded, Tables!NumbersFollow
<1>4. CASE ~(start < 1)
  <2>1. PICK ids \in Tables!Numbered(Tables!Partition, start) : \E later \in Tables!Linked(ids) :
          out = [first |-> ids, second |-> later]
    BY <1>4 DEF Tables!Recorded
  <2>2. PICK later \in Tables!Linked(ids) : out = [first |-> ids, second |-> later]
    BY <2>1
  <2>3. out.first = ids /\ out.second = later
    BY <2>2
  <2>4. DOMAIN Tables!Partition = 1..m
        /\ (~job.partitioned => \A i, j \in 1..m : Tables!Partition[i] = Tables!Partition[j])
    BY <1>1 DEF Tables!Partition, Tables!Ids
  <2>5. /\ ids \in Seq(Int) /\ DOMAIN ids = 1..m
        /\ \A i \in 1..m : ids[i] >= start
        /\ ~job.partitioned => Tables!Range(ids) = start..(start + m - 1)
    BY <1>1, <2>1, <2>4, BatchIsNumbered
  <2> DEFINE used == Tables!Range(ids)
             top == Tables!Max(used)
  <2>6. used = {ids[i] : i \in 1..m}
    BY <2>5 DEF Tables!Range
  <2>7. ids = << >> <=> m = 0
    BY <1>1, <2>5
  <2>8. CASE m = 0
    BY <1>1, <2>2, <2>3, <2>7, <2>8 DEF Tables!Linked, Tables!NumbersFollow
  <2>9. CASE m # 0
    <3>1. top \in used /\ \A y \in used : top >= y
      <4>1. IsFiniteSet(1..m)
        <5>1. m \in Int
          BY <1>1
        <5> QED  BY <5>1, FS_Interval
      <4>2. ids \in Surjection(1..m, used)
        <5>1. ids \in [1..m -> used]
          BY <2>5, <2>6
        <5> QED  BY <2>6, <5>1 DEF Surjection
      <4>3. used \in SUBSET Int /\ used # {}
        <5>1. 1 \in 1..m /\ \A i \in 1..m : ids[i] \in Int
          BY <1>1, <2>5, <2>9
        <5> QED  BY <2>6, <5>1
      <4>4. IsFiniteSet(used)
        BY <4>1, <4>2, FS_Surjection
      <4> HIDE DEF used
      <4> QED  BY <4>3, <4>4, MaxIsGreatest
    <3> HIDE DEF used
    <3>2. \A y \in used : y \in Int /\ y >= start
      BY <1>1, <2>5, <2>6
    <3> HIDE DEF top
    <3>3. top \in Int /\ top >= start
      BY <3>1, <3>2
    <3>4. CASE top + offset < 1
      <4>1. offset < 0
        BY <1>1, <1>4, <3>3, <3>4
      <4>2. later = Raised
        BY <2>2, <3>4 DEF Tables!Linked, top, used
      <4> QED  BY <2>3, <4>1, <4>2 DEF Tables!NumbersFollow
    <3>5. CASE ~(top + offset < 1)
      <4> DEFINE group == [i \in Tables!Ids(job.second) |-> None]
                 begin == top + offset
      <4>1. later \in Tables!Numbered(group, begin)
        BY <2>2, <2>7, <2>9, <3>5 DEF Tables!Linked, top, used
      <4>2. DOMAIN group = 1..n /\ \A i, j \in 1..n : group[i] = group[j]
        BY <1>1 DEF Tables!Ids
      <4>3. begin \in Int
        BY <1>1, <3>3
      <4> HIDE DEF group, begin
      <4>4. /\ later \in Seq(Int) /\ DOMAIN later = 1..n
            /\ \A i \in 1..n : later[i] >= begin
            /\ Tables!Range(later) = begin..(begin + n - 1)
        <5>1. n \in Nat /\ DOMAIN group = 1..n /\ begin \in Int /\ later \in Tables!Numbered(group, begin)
          BY <1>1, <4>1, <4>2, <4>3
        <5>2. /\ later \in Seq(Int) /\ DOMAIN later = 1..n
              /\ \A i \in 1..n : later[i] >= begin
          BY <5>1, BatchIsNumbered
        <5>3. Tables!Range(later) = begin..(begin + n - 1)
          BY <4>2, <5>1, BatchIsNumbered
        <5> QED  BY <5>2, <5>3
      <4>5. out.first # Raised /\ out.second # Raised
        BY <1>2, <2>3, <2>5, <4>4
      <4>6. Tables!Range(out.second) = begin..(begin + n - 1) /\ Tables!Range(out.first) = used
        BY <2>3, <4>4 DEF used
      <4>7. ASSUME offset = 1
            PROVE  /\ used \intersect (begin..(begin + n - 1)) = {}
                   /\ ~job.partitioned => used \union (begin..(begin + n - 1)) = start..(start + (m + n) - 1)
        <5>1. begin = top + 1
          BY <4>7 DEF begin
        <5>2. used \intersect (begin..(begin + n - 1)) = {}
          BY <1>1, <3>1, <3>2, <3>3, <5>1
        <5>3. ASSUME ~job.partitioned
              PROVE  used \union (begin..(begin + n - 1)) = start..(start + (m + n) - 1)
          <6>1. used = start..(start + m - 1)
            BY <2>5, <5>3 DEF used
          <6>2. top = start + m - 1
            <7>1. start + m - 1 \in used
              BY <1>1, <2>9, <6>1
            <7> QED  BY <1>1, <3>1, <3>3, <6>1, <7>1
          <6> QED  BY <1>1, <5>1, <6>1, <6>2
        <5> QED  BY <5>2, <5>3
      <4> QED  BY <4>5, <4>6, <4>7 DEF Tables!NumbersFollow, m, n
    <3> QED  BY <3>4, <3>5
  <2> QED  BY <2>8, <2>9
<1> QED  BY <1>3, <1>4

-----------------------------------------------------------------------------
(* What the nodes answer                                                    *)

\* What an answer was computed from stays as it was.
LEMMA JobStays ==
    ASSUME job' = job
    PROVE  /\ Tables!Conditioned' = Tables!Conditioned /\ Tables!Switched' = Tables!Switched
           /\ Tables!Joined' = Tables!Joined /\ Tables!LookedUp' = Tables!LookedUp
           /\ Tables!United' = Tables!United /\ Tables!Totalled' = Tables!Totalled
           /\ Tables!Recorded' = Tables!Recorded
<1> USE DEF Tables!Ids
<1>1. Tables!Kept(TRUE)' = Tables!Kept(TRUE) /\ Tables!Violating(TRUE)' = Tables!Violating(TRUE)
  BY DEF Tables!Kept, Tables!Violating, Tables!Where, Tables!Clause
<1>2. Tables!Kept(FALSE)' = Tables!Kept(FALSE) /\ Tables!Violating(FALSE)' = Tables!Violating(FALSE)
  BY DEF Tables!Kept, Tables!Violating, Tables!Where, Tables!Clause
<1>3. Tables!Branch' = Tables!Branch
  BY <1>1 DEF Tables!Branch
<1>4. Tables!ActiveHandles' = Tables!ActiveHandles /\ Tables!FromBranches' = Tables!FromBranches
  BY <1>3 DEF Tables!ActiveHandles, Tables!FromBranches
<1>5. [i \in DOMAIN job.table |-> Tables!Gate(job.table[i])]' = [i \in DOMAIN job.table |-> Tables!Gate(job.table[i])]
  BY DEF Tables!Gate
<1>6. Tables!Filter' = Tables!Filter /\ Tables!IfElse' = Tables!IfElse
  BY <1>2 DEF Tables!Filter, Tables!IfElse
<1>7. Tables!Asserted("drop")' = Tables!Asserted("drop") /\ Tables!Asserted("abort")' = Tables!Asserted("abort")
  BY <1>2 DEF Tables!Asserted
<1>8. Tables!Conditioned' = Tables!Conditioned
  BY <1>3, <1>4, <1>5, <1>6, <1>7 DEF Tables!Conditioned
<1>9. Tables!Switched' = Tables!Switched
  BY DEF Tables!Switched, Tables!SwitchGate, Tables!Matching
<1>10. Tables!Joined' = Tables!Joined
  BY DEF Tables!Joined
<1>11. Tables!LookedUp' = Tables!LookedUp
  BY DEF Tables!LookedUp
<1>12. Tables!United' = Tables!United
  <2>1. Tables!Inputs' = Tables!Inputs /\ Tables!InputKeys' = Tables!InputKeys
    BY DEF Tables!Inputs, Tables!InputKeys, Tables!RowsOf, Tables!KeyOf
  <2> QED  BY <2>1 DEF Tables!United
<1>13. Tables!Totalled' = Tables!Totalled
  <2>1. Tables!PivotValues' = Tables!PivotValues /\ Tables!Groups' = Tables!Groups
    BY DEF Tables!PivotValues, Tables!Groups
  <2>2. Tables!Aggregated' = Tables!Aggregated /\ Tables!Pivoted' = Tables!Pivoted
    BY <2>1 DEF Tables!Aggregated, Tables!Pivoted, Tables!PivotCell, Tables!Rows
  <2> QED  BY <2>2 DEF Tables!Totalled
<1>14. Tables!Recorded' = Tables!Recorded
  BY DEF Tables!Recorded, Tables!Partition, Tables!Linked
<1> QED  BY <1>8, <1>9, <1>10, <1>11, <1>12, <1>13, <1>14

\* What a node answers is one of the results that its job has.
AnswersKnown ==
    part = "table" =>
        /\ job \in Jobs
        /\ Tables!Did("conditions") => out \in Tables!Conditioned
        /\ Tables!Did("switch") => out \in Tables!Switched
        /\ Tables!Did("join") => out \in Tables!Joined
        /\ Tables!Did("lookup") => out \in Tables!LookedUp
        /\ Tables!Did("union") => out \in Tables!United
        /\ Tables!Did("pivot") => out \in Tables!Totalled
        /\ Tables!Did("record_id") => out \in Tables!Recorded

LEMMA AnswersAreKnown == NodesSpec => []AnswersKnown
<1>1. NodesInit => AnswersKnown
  BY DEF NodesInit, AnswersKnown, Tables!Init, Tables!Did
<1>2. AnswersKnown /\ [NodesNext]_<<part, vars, loadVars, job, out, cacheVars>> => AnswersKnown'
  <2> SUFFICES ASSUME AnswersKnown, [NodesNext]_<<part, vars, loadVars, job, out, cacheVars>>,
                      part' = "table"
               PROVE  AnswersKnown'
    BY DEF AnswersKnown
  <2>1. part = "table" /\ job' = job
    BY DEF NodesNext, Tables!Next, Tables!Answers, Tables!Conditions, Tables!Switch, Tables!Join,
           Tables!Lookup, Tables!Union, Tables!Pivot, Tables!RecordId
  <2>2. /\ Tables!Conditioned' = Tables!Conditioned /\ Tables!Switched' = Tables!Switched
        /\ Tables!Joined' = Tables!Joined /\ Tables!LookedUp' = Tables!LookedUp
        /\ Tables!United' = Tables!United /\ Tables!Totalled' = Tables!Totalled
        /\ Tables!Recorded' = Tables!Recorded
    BY <2>1, JobStays
  <2>3. CASE out' = out
    BY <2>1, <2>2, <2>3 DEF AnswersKnown, Tables!Did
  <2>4. CASE out' # out
    <3>1. Tables!Next
      BY <2>1, <2>4 DEF NodesNext
    <3>2. /\ job.node = "conditions" => out' \in Tables!Conditioned
          /\ job.node = "switch" => out' \in Tables!Switched
          /\ job.node = "join" => out' \in Tables!Joined
          /\ job.node = "lookup" => out' \in Tables!LookedUp
          /\ job.node = "union" => out' \in Tables!United
          /\ job.node = "pivot" => out' \in Tables!Totalled
          /\ job.node = "record_id" => out' \in Tables!Recorded
      BY <3>1 DEF Tables!Next, Tables!Answers, Tables!Conditions, Tables!Switch, Tables!Join,
                  Tables!Lookup, Tables!Union, Tables!Pivot, Tables!RecordId
    <3> QED  BY <2>1, <2>2, <3>2 DEF AnswersKnown, Tables!Did
  <2> QED  BY <2>3, <2>4
<1> QED  BY <1>1, <1>2, PTL DEF NodesSpec

\* For any texts, tables, conditions, cases and labels: a row takes one branch of a condition, or
\* none if it compares a NULL, and a record opens the gate of the branch that the row would take
\* (NodeTables).
THEOREM RoutesAreExact == NodesSpec => []RoutedExact
<1>1. AnswersKnown => RoutedExact
  <2> SUFFICES ASSUME AnswersKnown, part = "table" PROVE Tables!RoutedExact
    BY DEF RoutedExact
  <2>1. ASSUME Tables!Did("conditions")
        PROVE  /\ Tables!ConditionsRouted
               /\ \A i \in Tables!Ids(job.table) : \A h \in DOMAIN out.branch :
                    i \in out.branch[h] => out.gate[i] = h
    BY <2>1, ConditionsRoute DEF AnswersKnown, Tables!Did
  <2>2. ASSUME Tables!Did("switch"), Tables!OwnTables
        PROVE  /\ Tables!SwitchRouted
               /\ \A i \in Tables!Ids(job.column) : out.gate[i] \in Tables!Holders(i)
    BY <2>2, SwitchRoutes DEF AnswersKnown, Tables!Did
  <2> QED  BY <2>1, <2>2 DEF Tables!RoutedExact
<1> QED  BY <1>1, AnswersAreKnown, PTL

\* For any tables, keys, orders, handles and numbers: joins and lookups find each match, a union
\* keeps the rows of the input that has priority, the columns of a pivot add up to the aggregate,
\* and linked batches of numbers follow each other (NodeTables).
THEOREM RowsAreMatched == NodesSpec => []RowsMatched
<1>1. AnswersKnown => RowsMatched
  <2> SUFFICES ASSUME AnswersKnown, part = "table" PROVE Tables!RowsMatched
    BY DEF RowsMatched
  <2>1. ASSUME Tables!Did("join")  PROVE Tables!JoinMatched
    BY <2>1, JoinsMatch DEF AnswersKnown, Tables!Did
  <2>2. ASSUME Tables!Did("lookup")  PROVE Tables!LookupMatched
    BY <2>2, LookupsMatch DEF AnswersKnown, Tables!Did
  <2>3. ASSUME Tables!Did("union")  PROVE Tables!UnionMatched
    BY <2>3, UnionsMatch DEF AnswersKnown, Tables!Did
  <2>4. ASSUME Tables!Did("pivot")  PROVE Tables!PivotAdds
    BY <2>4, PivotsAdd DEF AnswersKnown, Tables!Did
  <2>5. ASSUME Tables!Did("record_id")  PROVE Tables!NumbersFollow
    BY <2>5, BatchesFollow DEF AnswersKnown, Tables!Did
  <2> QED  BY <2>1, <2>2, <2>3, <2>4, <2>5 DEF Tables!RowsMatched
<1> QED  BY <1>1, AnswersAreKnown, PTL
=============================================================================
