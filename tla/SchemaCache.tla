---------------------------- MODULE SchemaCache ----------------------------
(***************************************************************************)
(* The schema cache of eventParser (binlog.go): tableMap, tableNameMap and *)
(* tableSchemaMap. TABLE_MAP events and the refresh after an ALTER TABLE   *)
(* query fill it, a ROTATE flushes part of it, and parseRowsEvent reads it *)
(* to name the columns of each row. The master is the environment: it     *)
(* runs DML and DDL, assigns table ids, and may restart, while the dump    *)
(* goroutine reads its binlog with any lag. Column c of table t is named   *)
(* <<t, c>>: ALTERs add or drop the last column, so a name keeps its       *)
(* position across versions and only a width tells versions apart.        *)
(***************************************************************************)
EXTENDS Naturals, Sequences, TLC

CONSTANTS
    Tables,       \* the tables db.table, model values
    MaxCols,      \* the widest a table may be
    MaxId,        \* the master assigns table ids 1..MaxId
    MaxLog,       \* the number of events the master writes
    DdlKinds,     \* the DDL the master runs: "add", "drop_column", "drop_table"
    Resets,       \* TRUE \in Resets: a ROTATE may come from a master restart
    PartialFetch, \* TRUE: a column query may end early without an error
    FetchPanic,   \* TRUE: reading a column row may panic (recovered)
    MaxFailures   \* failed column queries, each retried

ASSUME DdlKinds \subseteq {"add", "drop_column", "drop_table"}
ASSUME Resets \subseteq BOOLEAN /\ PartialFetch \in BOOLEAN /\ FetchPanic \in BOOLEAN

Ids == 1..MaxId
Columns(t, n) == [c \in 1..n |-> <<t, c>>]

VARIABLES
    mNcols,         \* master: the current width of each table, 0 once dropped
    mShare,         \* master: the table id of each table's open share, 0 if none
    mNextId,        \* master: the next table id
    log,            \* master: the binlog written so far
    read,           \* dump: the number of events parsed
    pc,             \* dump: "read", "fetch" (in GetTableSchema) or "panic"
    pending,        \* dump: the arguments of the running GetTableSchema
    tableMap,       \* table id -> the last TABLE_MAP's table and width
    tableNameMap,   \* table -> table id
    tableSchemaMap, \* table id -> the cached column list
    decoded,        \* the rows parseRowsEvent returned: table, width, names
    failures

master == <<mNcols, mShare, mNextId, log>>
cache == <<tableMap, tableNameMap, tableSchemaMap>>
vars == <<master, read, pc, pending, cache, decoded, failures>>

-----------------------------------------------------------------------------
(* The master. A statement's TABLE_MAP and ROWS are written together at    *)
(* commit. A table keeps its id while its share is open; DDL closes the    *)
(* share, and a restart closes all of them and starts the ids again.       *)

Dml(t) ==
    /\ mNcols[t] > 0
    /\ Len(log) + 2 <= MaxLog
    /\ mShare[t] # 0 \/ mNextId <= MaxId
    /\ LET id == IF mShare[t] # 0 THEN mShare[t] ELSE mNextId
       IN  /\ log' = log \o << [kind |-> "TABLE_MAP", id |-> id, tbl |-> t, ncols |-> mNcols[t]],
                               [kind |-> "ROWS", id |-> id] >>
           /\ mShare' = [mShare EXCEPT ![t] = id]
           /\ mNextId' = IF mShare[t] # 0 THEN mNextId ELSE mNextId + 1
    /\ UNCHANGED mNcols

Width(t, kind) ==
    CASE kind = "add"         -> mNcols[t] + 1
      [] kind = "drop_column" -> mNcols[t] - 1
      [] kind = "drop_table"  -> 0

Ddl(t, kind) ==
    /\ mNcols[t] > 0
    /\ Len(log) < MaxLog
    /\ Width(t, kind) \in IF kind = "drop_table" THEN {0} ELSE 1..MaxCols
    /\ mNcols' = [mNcols EXCEPT ![t] = Width(t, kind)]
    /\ mShare' = [mShare EXCEPT ![t] = 0]
    /\ log' = Append(log, [kind |-> "QUERY", tbl |-> t, alter |-> kind # "drop_table"])
    /\ UNCHANGED mNextId

MasterRotate(reset) ==
    /\ Len(log) < MaxLog
    /\ log' = Append(log, [kind |-> "ROTATE"])
    /\ mShare' = IF reset THEN [t \in Tables |-> 0] ELSE mShare
    /\ mNextId' = IF reset THEN 1 ELSE mNextId
    /\ UNCHANGED mNcols

Master ==
    /\ \/ \E t \in Tables : Dml(t)
       \/ \E t \in Tables, kind \in DdlKinds : Ddl(t, kind)
       \/ \E reset \in Resets : MasterRotate(reset)
    /\ UNCHANGED <<read, pc, pending, cache, decoded, failures>>


-----------------------------------------------------------------------------
(* The dump goroutine: parseEvent and the ALTER refresh of DumpBinlog.     *)

Ev == log[read + 1]
Ready == pc = "read" /\ read < Len(log)
Cached(id) == IF id \in DOMAIN tableSchemaMap THEN tableSchemaMap[id] ELSE << >>

\* GetTableId: the id tableNameMap holds for the table, 0 if none.
GetTableId(t) == IF t \in DOMAIN tableNameMap THEN tableNameMap[t] ELSE 0

\* GetQueryTableName: the table of an "ALTER TABLE" query, none otherwise.
GetQueryTableName(q) == IF q.alter THEN {q.tbl} ELSE {}

\* A variant that asks tableNameMap whether the table is known, instead of
\* asking tableSchemaMap whether the id is.
ReadTableMapByName ==
    /\ Ready
    /\ Ev.kind = "TABLE_MAP"
    /\ read' = read + 1
    /\ tableMap' = (Ev.id :> [tbl |-> Ev.tbl, ncols |-> Ev.ncols]) @@ tableMap
    /\ IF Ev.tbl \in DOMAIN tableNameMap
         THEN UNCHANGED <<pc, pending>>
         ELSE pc' = "fetch" /\ pending' = [id |-> Ev.id, tbl |-> Ev.tbl]
    /\ UNCHANGED <<master, tableNameMap, tableSchemaMap, decoded, failures>>

\* parseEvent, TABLE_MAP_EVENT: cache the map, and fetch the schema only
\* when the id has none cached.
ReadTableMap ==
    /\ Ready
    /\ Ev.kind = "TABLE_MAP"
    /\ read' = read + 1
    /\ tableMap' = (Ev.id :> [tbl |-> Ev.tbl, ncols |-> Ev.ncols]) @@ tableMap
    /\ IF Ev.id \in DOMAIN tableSchemaMap
         THEN UNCHANGED <<pc, pending>>
         ELSE pc' = "fetch" /\ pending' = [id |-> Ev.id, tbl |-> Ev.tbl]
    /\ UNCHANGED <<master, tableNameMap, tableSchemaMap, decoded, failures>>

\* parseRowsEvent and parseEventRow: column i is named tableSchemaMap[id][i]
\* for i below the TABLE_MAP's width; past the cached list the index panics.
ReadRows ==
    /\ Ready
    /\ Ev.kind = "ROWS"
    /\ LET map == tableMap[Ev.id]
           schema == Cached(Ev.id)
       IN  IF map.ncols <= Len(schema)
             THEN /\ decoded' = decoded \cup
                       {[tbl |-> map.tbl, ncols |-> map.ncols, names |-> SubSeq(schema, 1, map.ncols)]}
                  /\ read' = read + 1
                  /\ UNCHANGED pc
             ELSE /\ pc' = "panic"
                  /\ UNCHANGED <<decoded, read>>
    /\ UNCHANGED <<master, pending, cache, failures>>

\* DumpBinlog on a QUERY event: an ALTER TABLE of a table tableNameMap knows
\* re-reads the schema under the id it knows.
ReadQuery ==
    /\ Ready
    /\ Ev.kind = "QUERY"
    /\ read' = read + 1
    /\ IF \E t \in GetQueryTableName(Ev) : GetTableId(t) > 0
         THEN pc' = "fetch" /\ pending' = [id |-> GetTableId(Ev.tbl), tbl |-> Ev.tbl]
         ELSE UNCHANGED <<pc, pending>>
    /\ UNCHANGED <<master, cache, decoded, failures>>

\* parseEvent, ROTATE_EVENT: tableSchemaMap is flushed; tableMap and
\* tableNameMap are kept.
ReadRotate ==
    /\ Ready
    /\ Ev.kind = "ROTATE"
    /\ read' = read + 1
    /\ tableSchemaMap' = [id \in {} |-> << >>]
    /\ UNCHANGED <<master, pc, pending, tableMap, tableNameMap, decoded, failures>>

\* The column query may stop early when rows.Next fails mid-result; the code
\* takes that for the end of the result.
FetchLengths(n) == IF PartialFetch THEN 0..n ELSE {n}

\* A variant that files the columns under the table name, the key of
\* tableNameMap, instead of under the table id.
GetTableSchemaByNameKeyedByName ==
    /\ pc = "fetch"
    /\ tableSchemaMap' = (pending.tbl :> Cached(pending.id) \o Columns(pending.tbl, mNcols[pending.tbl]))
                            @@ tableSchemaMap
    /\ tableNameMap' = (pending.tbl :> pending.id) @@ tableNameMap
    /\ pc' = "read"
    /\ UNCHANGED <<master, read, pending, tableMap, decoded, failures>>

\* GetTableSchemaByName succeeding: tableNameMap is set, and the master's
\* current columns are appended to whatever the id has cached. An empty
\* result appends nothing and leaves the id uncached.
GetTableSchemaByName ==
    /\ pc = "fetch"
    /\ \E k \in FetchLengths(mNcols[pending.tbl]) :
         tableSchemaMap' =
           IF k = 0 THEN tableSchemaMap
           ELSE (pending.id :> Cached(pending.id) \o SubSeq(Columns(pending.tbl, mNcols[pending.tbl]), 1, k))
                  @@ tableSchemaMap
    /\ tableNameMap' = (pending.tbl :> pending.id) @@ tableNameMap
    /\ pc' = "read"
    /\ UNCHANGED <<master, read, pending, tableMap, decoded, failures>>

\* Where a failed GetTableSchemaByName stops: a failed query before the
\* loop (0 columns appended), or a panic in the loop after k columns were
\* appended (dest[i].([]byte) of a NULL, COLUMN_TYPE[0:4] of "int"), which
\* its deferred recover turns into an error.
FailPoints(n) == IF FetchPanic THEN 0..(n - 1) ELSE {0}

\* GetTableSchema: a failed GetTableSchemaByName returns an error after
\* tableNameMap was set and any columns already appended, and the loop
\* retries it under connLock.
GetTableSchemaRetry ==
    /\ pc = "fetch"
    /\ failures < MaxFailures
    /\ failures' = failures + 1
    /\ tableNameMap' = (pending.tbl :> pending.id) @@ tableNameMap
    /\ \E k \in FailPoints(mNcols[pending.tbl]) :
         tableSchemaMap' =
           IF k = 0 THEN tableSchemaMap
           ELSE (pending.id :> Cached(pending.id) \o SubSeq(Columns(pending.tbl, mNcols[pending.tbl]), 1, k))
                  @@ tableSchemaMap
    /\ UNCHANGED <<master, read, pc, pending, tableMap, decoded>>

Dump ==
    \/ ReadTableMap
    \/ ReadRows
    \/ ReadQuery
    \/ ReadRotate
    \/ GetTableSchemaByName
    \/ GetTableSchemaRetry

Init ==
    /\ mNcols \in [Tables -> 1..MaxCols]
    /\ mShare = [t \in Tables |-> 0]
    /\ mNextId = 1
    /\ log = << >>
    /\ read = 0
    /\ pc = "read"
    /\ pending = [id |-> 0, tbl |-> CHOOSE t \in Tables : TRUE]
    /\ tableMap = [id \in {} |-> [tbl |-> pending.tbl, ncols |-> 0]]
    /\ tableNameMap = [t \in {} |-> 0]
    /\ tableSchemaMap = [id \in {} |-> << >>]
    /\ decoded = {}
    /\ failures = 0

Next == Master \/ Dump

Spec == Init /\ [][Next]_vars /\ WF_vars(Dump)

-----------------------------------------------------------------------------
TypeOK ==
    /\ mNcols \in [Tables -> 0..MaxCols]
    /\ mShare \in [Tables -> {0} \cup Ids]
    /\ read \in 0..Len(log)
    /\ pc \in {"read", "fetch", "panic"}
    /\ DOMAIN tableMap \subseteq Ids
    /\ DOMAIN tableNameMap \subseteq Tables
    /\ DOMAIN tableSchemaMap \subseteq Ids
    /\ failures \in 0..MaxFailures

\* Every row parseRowsEvent returns names its columns after the table and
\* width of its own TABLE_MAP, and decoding never indexes past the cached
\* column list. This is about the cache as a whole: the lag between the
\* master and the dump, the ALTER refresh that appends, the ROTATE flush
\* that leaves tableNameMap behind, and ids the master reuses.
RowsNamed ==
    /\ pc # "panic"
    /\ \A r \in decoded : r.names = Columns(r.tbl, r.ncols)

=============================================================================
