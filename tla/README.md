# TLA+ models of Bubod's MySQL replication core

Bubod is a binlog replication agent. It connects to a MySQL master as a pseudo-slave, decodes
the binlog events it receives, and hands them to a sink callback. This directory holds TLA+
models of its core (`src/Bubod/mysql`), the TLC configurations that check them, and
`PROJECT.json`, which records:
- the source lines each definition models (`map`);
- each run, and the mutant that shows each checked property can fail;
- the findings and the hazards of the code.

## The system

| Part | Code | Role |
|---|---|---|
| Replication controller | `binlog.go` `StartDumpBinlog`, `startConnAndDumpBinlog` | A goroutine that loops: open a connection, read the connection id, resolve the start position (`SHOW MASTER STATUS` when no file name is given), negotiate checksums, run `DumpBinlog`, close, record the status, KILL the connection id, and reconnect after 2 s. |
| Dump session | `binlog.go` `DumpBinlog` | Sends `COM_BINLOG_DUMP(file, pos)` and reads packets. For each event it calls `parseEvent`, applies the filters (`replicateDoDb`, `eventDo`) and the maximum-position check, then the sink callback, then stores the event's (file, LogPos) as the resume position. |
| Control API | `Stop`, `Start`, `Close`, `KillDump` | Called from other goroutines. They write `dumpBinLogStatus` (0 pause, 1 run, 2 close, 3 kill); `Close` and `KillDump` also close and nil `mysqlConn`. |
| Event dispatch | `parseEvent`, `event_rotate.go` | Per event kind: `ROTATE` moves the parser's file and position, `TABLE_MAP` caches the table map and fetches the schema, `ROWS` decodes row images, GTID-like kinds are dropped. |
| Row decoder | `event_rows.go`, `event_tablemap.go` | `parseRowsEvent` loops over row images; `parseEventRow` reads a NULL bitmap and then each column by its type and metadata. |
| Schema client and cache | `binlog.go` `GetTableSchema*`, `GetTableId`, `GetQueryTableName`, `KillConnect` | A second connection used for `information_schema` lookups and KILL. The parser caches `tableMap` (id to TABLE_MAP), `tableNameMap` (table to id) and `tableSchemaMap` (id to columns). |
| Checkpoint writer | `lib/sync.go` | A goroutine that persists `file:pos` once a second: truncate the file, then write. |
| Configuration | `config/config.go` | An ini-file reader. |

The dump goroutine and the control API share `parser.dumpBinLogStatus` and
`This.mysqlConn`. The goroutine re-reads both between its steps, without the lock the
control API takes. The master is the other party: after a `COM_BINLOG_DUMP` it sends:
1. an artificial `ROTATE` with LogPos 0;
2. the file's `FORMAT_DESCRIPTION` with LogPos 0, when the position is past 4;
3. then the events.

The master follows each `ROTATE` into the next file and blocks at the end of the log. A bad
position gets one error packet, and then the connection is closed.

## Modules

- **`SinkStream`**: the abstract promise to the sink. It has two variables:
  - `stream`: the events owed;
  - `out`: the events delivered.

  Its only action appends the next owed event, so the sink sees a prefix of the owed stream,
  in order, each event once.
- **`BinlogDump`**: the controller, the dump session and the control API, with the master
  and the network as its environment.
  - **State.** `pc` is the goroutine's place in `StartDumpBinlog`, `startConnAndDumpBinlog`
    and `DumpBinlog`. The other variables are:
    - the code's variables: `dumpBinLogStatus`, `Status`, `mysqlConn`,
      `connectionId`, `binlogFileName`, `binlogPosition`;
    - `tableMap`, the tables with a TableMapEvent cached;
    - `dumpConn`, the receiver of the running `DumpBinlog`;
    - `connOpen`, the sockets that are open;
    - `srv`, the master's dump thread;
    - `delivered`, the callback's history;
    - `checkpoint`, `StartDumpBinlog`'s arguments.
  - **Actions.** There is one action per step or branch of the code: `OpenConn`, `OpenFail`,
    `GetConnectionId`, `GetMasterFilePosition`, `ChecksumEnabled`, `SendBinlogDump`,
    `DumpLoopHead`, `ReadFail`, `ReadErrorPacket`, `ReadPurgedPacket`, `ReadRowsWithoutMap`,
    `ReadEventParseError`, `ReadEventDropped`, `ReadEventAtMax`, `ReadEventDelivered`,
    `Cleanup`, `NilConnPanic`, `QueryPanic` and `ClosedConnPanic`. Beside them are the control calls `Stop`,
    `Start`, `Close` and `KillDump`, and the environment's `NetworkFailure` and
    `MasterPurge`.
  - **Closed sockets.** A bootstrap query on a socket the network or the master closed fails
    in `Prepare`: `GetConnectionId` returns to the loop (`binlog.go:729-733`), or, when its
    `Prepare` got through, panics on nil rows (739); `GetMasterFilePosition` and
    `ChecksumEnabled` panic on the nil `stmt` (`ClosedConnPanic`). Only an open socket lets a
    bootstrap step succeed.
  - **Master.** A request for a purged file gets the "Could not find first log" error;
    `ReadPurgedPacket` breaks out of `DumpBinlog` without setting the status, as the code
    does, so the goroutine reconnects to the purged file. `MasterPurge` removes the oldest
    file, never the active one or one a dump thread is reading, and counts as one of the
    `MaxFailures`.
  - **Failed table maps.** `UnknownTypeTables` are tables with a JSON column. Their
    TABLE_MAP is cached half-parsed and `parseEvent` returns an error (`TableMapFails`,
    `binlog.go:146-154`), so the dump retries at that TABLE_MAP forever.
  - **Data abstraction.** An event is `[kind, db, tbl]`. Event k of a file starts at offset
    3+k and has LogPos 4+k. File names are `1..N`, and `NoFile` stands for `""`.
  - **Connection ids.** They are recycled (`FreshConns`) once nothing can name them, so
    reconnect loops are finite cycles and not artifacts of a bound.
  - **Refinement.** `SinkRefinement` is `SinkStream` instantiated with
    - `stream <- OwedStream` (the events owed to a dump started from `checkpoint`: those that
      pass the filters, lie before the maximum in log order, and lie at or after the start
      point);
    - `out <- SinkOut` (the delivered binlog events).
- **`RowDecoder`**: `parseColumnMetadata`, `parseRowsEvent` and `parseEventRow` over one
  ROWS event.
  - **Constants.** `Table` gives each column's type and its declared attributes (length,
    precision, fsp, ENUM/SET members, ...). `Event` gives the ROWS event's type, the format
    description's post-header length, the table id, flags, the v2 extra data and the
    columns present in each image.
  - **Metadata.** `ParseColumnMetadata` is `parseColumnMetadata` as a RECURSIVE operator
    over the metadata block MySQL writes for `Table` (`MetaBlock`). It keeps the code's
    arithmetic: STRING's `(b<<8)+c` in uint8, the ENUM/SET rewrite of the real type, BIT's
    byte count modulo 256. The decode actions read their metadata from its result.
  - **Initial state.** The event's bytes are built by MySQL's own encoding: the post-header
    (`RowsHeader`) and then the chosen row values (`Encode`, `EncodeRow`). They can be cut
    short by `Cuts` bytes (below).
  - **Actions.** `ReadRowsHeader` reads the table id (4 or 6 bytes), the flags, skips the v2
    extra data as `extraDataLength/8` bytes, reads the column count and the present bitmaps,
    and ignores the bitmaps, as the code does. Then there is one action per column type
    (`DecodeTiny`, `DecodeInteger` for SHORT, LONG and LONGLONG, ..., `DecodeDatetime2`),
    plus the NULL bitmap, end of row, end of event, and `ReadPastImage` for a read past the
    end of the event.
  - **Arithmetic.** The code's own arithmetic is used throughout: int8 wrap-around,
    `ParseInt(.., 2, 10)` saturation, `read_binary_slice`, `time.Date` normalisation, and the
    padding tests.
  - **Expected values.** `Expected` is the reading spec.md 4.4 gives for each stored value.
  - **Text abstraction.** A text is the sequence of its decimal fields, so separators are
    left out.
  - **Short reads.** A read past the end of the event does what the code does for each type:
    - an error is returned for TINY, YEAR, VARCHAR, BIT and unsigned INT24;
    - a panic for DATE and TIME (`data[k]` of a short slice);
    - zeros and no error for signed INT24, TIME2, DATETIME2 and ENUM, whose read errors the
      code drops.
  - **Cut events.** `Cuts = {0, 4}` stands for the `binlog_checksum` flag set although the
    master sends no checksum: `checksum_enabled` sets it for any non-empty `BINLOG_CHECKSUM`,
    `NONE` included (`binlog.go:676-678`). `parseEvent` then strips 4 real bytes
    (`binlog.go:61-62`).
- **`SchemaCache`**: the three caches of `eventParser`, with the master as environment.
  - **Master.** `Dml` writes a TABLE_MAP and its ROWS under the table's open share id (a
    fresh id when none is open); `Ddl` adds or drops a column or drops the table and closes
    the share; `MasterRotate(reset)` writes a ROTATE, and a reset (a restart) closes every
    share and starts ids at 1 again. Column c of table t is named `<<t, c>>`.
  - **Dump.** `ReadTableMap` (fetch when the id has no cached columns), `ReadRows`
    (`parseEventRow` indexes the cached list, and panics past its end), `ReadQuery` (the ALTER
    refresh of `DumpBinlog` through `GetQueryTableName` and `GetTableId`), `ReadRotate` (flushes
    `tableSchemaMap` only), `GetTableSchemaByName` (sets `tableNameMap`, appends the master's
    current columns; an empty result caches nothing; with `PartialFetch` a result may stop
    early) and `GetTableSchemaRetry` (the retry loop of `GetTableSchema`; with `FetchPanic` the
    failed attempt may have appended its first columns before a recovered panic).
- **`Checkpoint`**: `InstantSync` and `SyncBinlogFilenamePos` beside the dump, with crashes.
  - **Dump side.** `Deliver` and `StorePosition` are the callback storing the event's file
    name and then its position into `dumpConfig` (outside `src/`, from spec.md). The dump
    hands owed events in order, as `SinkRefinement` shows of `BinlogDump`.
  - **Writer.** `InstantSync` and `InstantSyncPosition` read the two fields one after the
    other with no lock (a callback step may fall between them) and test
    them against `SyncPos` (never assigned in `src/`) and `CheckBinlogFilePos`;
    `OpenTruncate` empties the file; `WriteString` writes it; `WriteStringFails` returns
    with the file empty.
  - **Crash.** The process restarts from the file: from the position it holds, or, when it is
    empty, from `SHOW MASTER STATUS` (`binlog.go:758-770`), the master's end.

`MC_BinlogDump` gives the binlog: two files, with
- `FDE, TABLE_MAP(d1.t1), ROWS(d1.t1), XID, QUERY(d2), ROTATE` in the first;
- `FDE, TABLE_MAP(d2.t2), ROWS(d2.t2), XID` in the second.

`safety` uses `MCBinlogJson`, which appends `TABLE_MAP(d2.t3)` of a JSON table to the
second file, and adds a start point just before it. It subscribes row changes only
(`QUERY`, `TABLE_MAP`, `ROWS`): a subscribed XID or ROTATE sets the resume position wrongly
(`binlog.go:569-570`), and the hazards list what TLC finds then.

It also gives the subscriptions, checkpoints and failure kinds. `MC_RowDecoder` gives the
tables and the values of their columns.

## Runs

| Run | Expect | What it shows |
|---|---|---|
| `safety` | pass | For a row-change subscription with no maximum, whatever happens, the callback's events are a prefix of the owed stream (`SinkRefinement`). The master never streams past an owed event that was not delivered (`NoEventSkipped`). `Close` ends the goroutine unless a later command overrides it (`CloseTerminates`). Several things happen here: reconnects after network, open and query failures; the master purging the oldest file; two racing control calls; ROWS of an undecodable table; the TABLE_MAP of a table with a JSON column. The checkpoints are the first event, a mid-transaction position, no file name, the end of the second file's transaction, and a configured position 0, which the master refuses with an error packet (`ReadErrorPacket`), so the dump retries it without end. |
| `progress` | pass | For a row-change subscription, every owed event is eventually delivered (`Progress`) in every behaviour where the dump goroutine does not panic. This holds with dropped connections and failed opens, with pauses that are later resumed, and with a maximum position in the last file or none. A connection dropped under a bootstrap query panics the goroutine (`ClosedConnPanic`), which is why the property assumes no panic. |
| `xid_stop` | violation | With XID subscribed and no maximum, the dump closes at the first XID. |
| `close_race` | violation | `Close` during the bootstrap panics the dump goroutine. |
| `resume_crash` | violation | A restart between a TABLE_MAP and its ROWS dereferences a nil table map. |
| `rows` | pass | An UPDATE_ROWS_EVENTv2 with a six-byte table id and two row images over 22 columns decodes to the table id and the stored values (`RowValues`), each value in its Go type's range (`TypeOK`). The 22 columns give a three-byte NULL bitmap and cover every modelled type: VARCHAR 255/256, BIT(9) and BIT(1), a negative int8, a tinyint(1) bool, SHORT, unsigned LONG, LONGLONG -1, STRING, SET, BLOB, NEWDECIMAL(8,1), DATETIME on a leap day, and one-digit months, days, minutes and seconds. The hours are two-digit and the tinyint(1) holds 0 or 1: a one-digit hour and a tinyint(1) holding 2 decode wrongly, and are `rows_values` cases. Each event is also decoded cut by 4 bytes (a checksum stripped that was never sent), which reaches the short-read paths; `RowValues` constrains only the whole event. |
| `schema` | pass | With the dump lagging behind a master that only adds columns and rotates without restarting, and column queries that fail before their loop or return every column, every decoded row is named with its own table's columns at its TABLE_MAP's width, and nothing panics (`RowsNamed`). The ALTER refresh doubles a cached list, but under an id this master never reuses. Drops (`schema_drop`), restarts (`Resets`), truncated fetches (`PartialFetch`) and fetches that panic midway (`FetchPanic`) each break it. |
| `schema_drop` | violation | A table dropped or narrowed before the lagging dump reads its TABLE_MAP leaves too few columns cached, and the ROWS event panics. |
| `conn_leak` | violation | A bootstrap query that fails after the dump connection is opened (`binlog.go:743-750`) returns without closing it; the next attempt overwrites `mysqlConn`, and one socket leaks per failed attempt (`NoLeakedConn`). |
| `checkpoint` | pass | Despite failed writes and crashes, the file comes to hold `dumpConfig`'s position again and again (`KeepsUp`). |
| `ckpt_truncate` | violation | A crash between `O_TRUNC` and `WriteString` leaves the file empty, and the restart resumes at the master's end, past undelivered events (`NoSkip`). |
| `rows_values` | violation | The trace's final state shows each decoder disagreement with spec.md at once: a tinyint(1) holding 2 (an int8, not a bool), signed INT24, BIT(10), YEAR 0, TIME 09:10:05 (read 9:010:05), the DATETIME2 zero date, NEWDECIMAL's dropped compact group (123.45 reads 0.45), its negative groups (-1.5 reads -1.-251), and DATETIME2(3)'s fraction bytes, which the TINY after it reads; the two bytes left over are read as a second row's NULL bitmap, and that row ends short. |

Every property of a passing run has a mutant in `PROJECT.json`. A mutant is a plausible bug in
the mapped code, and TLC finds it violating the property. Each violation run comes with a
finding in `PROJECT.json`.

### Bounds

BinlogDump uses:
- `MaxFailures = 2`: a failure during bootstrap, then one during streaming;
- `MaxCalls = 2`: e.g. Stop then Start, or Close then Start;
- `MaxConn = 6` connection ids, recycled.

The binlog has 10 events in 2 files, which covers each case:
- a rotate between files;
- a transaction split by a reconnect;
- a DDL in another database;
- a max position inside the last file.

The state spaces are 7k to 155k states, and each run finishes in under a minute.
RowDecoder uses two rows over 22 columns, so the row loop, the third bitmap byte and every
column type's branch occur. Three columns may be NULL, one in each byte of the NULL bitmap; the values sit at the boundaries each type's code treats
specially (wrap-around, padding, a second length byte, a leap day).

SchemaCache uses two tables of at most 2 columns, 3 table ids and 7 binlog events: enough for
two DMLs of each table, an ALTER between them, a ROTATE, and the dump lagging by any amount.
Checkpoint uses five owed events over two files, two crashes and one failed write, so a crash
can hit each writer step and a restart can follow a failed write.

### Fairness

`Spec` has weak fairness on the dump goroutine's steps only. The goroutine is a dedicated loop
that only ever sleeps for bounded times, so the Go scheduler runs it. The control API and
network failures come from the environment and owe nothing. `Progress` assumes that no `Close`
or `KillDump` is called, that any `Stop` is eventually followed by `Start`, and that the
goroutine never panics (a drop during the bootstrap queries does panic it). Deadlock
checking is off: the goroutine may legitimately return or panic, or block in `readPacket` at
the end of the log, and decoding an event ends.

In `Checkpoint`, the writer's steps are weakly fair: `InstantSync` is an endless loop with a
one-second sleep. The callback is weakly fair because the dump delivers owed events
(`Progress`). Crashes and write failures owe nothing. Deadlock is checked there: the writer
loop is always enabled. `SchemaCache` has weak fairness on the dump; its deadlock checking is
off because the master stops at `MaxLog` events.

## Not modelled

- **Row decoder types not modelled:** FLOAT and DOUBLE (a reinterpretation of IEEE bits,
  beyond TLC's integers) and TIMESTAMP and TIMESTAMP2 (`time.Unix` in the local time zone).
  JSON and GEOMETRY are unknown to `parseColumnMetadata`, which returns an error; RowDecoder
  does not decode them, and BinlogDump models what follows (`UnknownTypeTables`). A NULL bitmap cut short is not modelled: no whole event produces one.
- **MINIMAL row images and long v2 extra data.** The code ignores the present bitmaps and
  skips `extraDataLength/8` bytes. Both break `RowValues` under the rows configuration with
  the event changed (see the hazards at `event_rows.go:127` and `:175`); the runs keep the
  server defaults (FULL images, MySQL 5.7's empty extra data) so the types are reached.
- **`event_header.go`** beyond the header layout: event-type name tables and formatting.
- **SchemaCache cases with no run of their own.** A master restart (`Resets`), a truncated
  column query (`PartialFetch`) and a panic in the column loop after some columns were
  appended (`FetchPanic`, which the retry appends to again) each break `RowsNamed` (see the
  hazards). Their configurations are not kept as separate runs.
- **Cases of BinlogDump with no run of their own.** A maximum in an earlier file with the rest
  of it filtered lets later files through (`binlog.go:560`); a subscribed XID or ROTATE
  breaks `NoEventSkipped` or `Progress` (`binlog.go:569-570`). The hazards give the
  configurations under which TLC finds each.
- **A CHAR over 255 bytes** has a two-byte length that `STRING` reads as one byte (see the
  hazard at `event_rows.go:366`).
- **Schema-client cases the row decoder never meets:** ENUM and SET of two bytes, where
  `bytesToUint16` of a short read may panic, and VAR_STRING, whose metadata is parsed like
  VARCHAR's but whose value is decoded as a BLOB. No modelled table has them.
- **The ZooKeeper publish** in `SyncBinlogFilenamePos`: nothing in `src/` reads it back.
- **The purged-log disagreement has no run.** spec.md 4.5 says the "Could not find first
  log" error closes the dump permanently. The code breaks out of `DumpBinlog` and reconnects
  to the purged file every two seconds, forever. `safety` checks only that nothing is skipped
  on the way, and every run slot already holds a question of its own.
- **The watchdog** `checkDumpConnection`: dead code, since its caller is commented out.
- **Configuration loading** (`config.go`): pure parsing, and nothing in `src/` calls it.
  Read by hand, it drops the last line when the file lacks a trailing newline, and panics on a
  key before any section or a line without `=`.
- **The process around the core:** the sinks, `DumpConfig`, `CheckBinlogFilePos` and
  ZooKeeper are not in `src/`. The callback and the position check are modelled from spec.md.
