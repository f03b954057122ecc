----------------------------- MODULE BinlogDump -----------------------------
(***************************************************************************)
(* The replication controller and dump session of Bubod                   *)
(* (src/Bubod/mysql/binlog.go): the goroutine running StartDumpBinlog /   *)
(* startConnAndDumpBinlog / DumpBinlog, the event dispatch of parseEvent, *)
(* the control API Stop / Start / Close / KillDump called from other      *)
(* goroutines, and the master's side of COM_BINLOG_DUMP as environment.   *)
(*                                                                         *)
(* Data is abstracted: a binlog is a sequence of files, each a sequence   *)
(* of events [kind, db, tbl]; event k of a file starts at offset 3+k and  *)
(* ends (its header's LogPos) at 4+k, so offset 4 is the first event and  *)
(* every offset in 4..Len(file)+4 is an event boundary.  File names are   *)
(* 1..Len(Binlog) ordered as the master names them; NoFile is "".         *)
(***************************************************************************)
EXTENDS Naturals, Sequences, SequencesExt, FiniteSets

CONSTANTS
    Binlog,        \* the master's binlog files, Seq(Seq([kind, db, tbl]))
    Subscribed,    \* parser.eventDo: the event kinds the sink asked for
    DoDb,          \* parser.replicateDoDb: {} means every database
    StartPoints,   \* checkpoints <<file, pos>> the agent may start from
    MaxPoints,     \* maxima <<file, pos>> it may be given (<<NoFile, 0>>: none)
    NoDb,          \* the empty SchemaName of events that carry none
    NoTable,       \* table of events that name no table
    UndecodableTables, \* tables whose row images parseRowsEvent fails on
    UnknownTypeTables, \* tables with a column type (JSON) the TABLE_MAP
                       \* metadata parser does not know
    Failures,      \* failure kinds the environment may inject
    MaxFailures,   \* bound: injected failures in one behaviour
    MaxConn,       \* bound: connection ids the model tells apart
    MaxCalls       \* bound: control API calls in one behaviour

NoFile == 0
NoConn == 0

\* Event kinds.  The GTID-like kinds are those parseEvent answers with a
\* nil event (HEARTBEAT, IGNORABLE, GTID, ANONYMOUS_GTID, PREVIOUS_GTIDS);
\* XID stands for every kind handled by the default branch.
Kinds == {"FORMAT_DESCRIPTION", "QUERY", "ROTATE", "TABLE_MAP", "ROWS",
          "XID", "GTID"}
SilentKinds == {"GTID"}

Files == 1..Len(Binlog)
LastFile == Len(Binlog)
EndOf(f) == Len(Binlog[f]) + 4

ASSUME /\ \A f \in Files : Binlog[f][1].kind = "FORMAT_DESCRIPTION"
       /\ \A f \in Files \ {LastFile} : Last(Binlog[f]).kind = "ROTATE"
       /\ Subscribed \subseteq Kinds
       /\ UndecodableTables \cup UnknownTypeTables
             \subseteq {ev.tbl : ev \in UNION {ToSet(Binlog[f]) : f \in Files}}
       /\ Failures \subseteq {"net", "open", "query", "purge"}
       \* a configured start position is not validated: it may lie before 4
       /\ \A sp \in StartPoints :
             \/ sp[1] = 0
             \/ sp[1] \in Files /\ sp[2] \in 0..EndOf(sp[1])
       /\ MaxConn >= MaxFailures + 4

VARIABLES
    pc,               \* where the dump goroutine is
    dumpBinLogStatus, \* parser.dumpBinLogStatus: 0 stop, 1 run, 2 close, 3 kill
    Status,           \* BinlogDump.Status
    mysqlConn,        \* BinlogDump.mysqlConn (NoConn = nil)
    dumpConn,         \* receiver mc of the running DumpBinlog
    connOpen,         \* connections whose socket is open
    connectionId,     \* parser.connectionId (NoConn = "")
    binlogFileName,   \* parser.binlogFileName
    binlogPosition,   \* parser.binlogPosition
    tableMap,         \* tables with an entry in parser.tableMap
    srv,              \* the master's dump thread for the current request
    purged,           \* how many of the oldest files the master has purged
    delivered,        \* event ids handed to the sink callback, in order
    failures,         \* failures injected so far
    calls,            \* control API calls so far
    lastCmd,          \* the latest control API call
    checkpoint        \* StartDumpBinlog's arguments <<filename, position,
                      \* maxFileName, maxPosition>>

vars == <<pc, dumpBinLogStatus, Status, mysqlConn, dumpConn, connOpen,
          connectionId, binlogFileName, binlogPosition, tableMap,
          srv, purged, delivered, failures, calls, lastCmd, checkpoint>>

Arguments == {<<sp[1], sp[2], mp[1], mp[2]>> : sp \in StartPoints, mp \in MaxPoints}
\* parser.maxBinlogFileName and parser.maxBinlogPosition, set from the
\* arguments by StartDumpBinlog.
MaxFile == checkpoint[3]
MaxPos == checkpoint[4]

PCs == {"loop", "open", "connid", "masterpos", "checksum", "dump",
        "dumploop", "read", "cleanup", "exited", "crashed"}
Phases == {"none", "rotate", "fde", "events", "badpos", "nofile", "closed"}
Conns == 0..MaxConn
Positions == 0..(4 + Max({Len(Binlog[f]) : f \in Files}))
EventIds == (Files \X Positions)

-----------------------------------------------------------------------------
(* The master (environment).  On COM_BINLOG_DUMP(file, pos) it sends an    *)
(* artificial ROTATE(file, pos) with LogPos 0, then, when pos > 4, the     *)
(* file's FORMAT_DESCRIPTION with LogPos 0, then the events from pos on,   *)
(* following each ROTATE into the next file, and blocks at the end of the  *)
(* log.  An empty file name means the first log not purged; a purged file *)
(* gets the "Could not find first log file name" error packet and an      *)
(* impossible position another error packet, after which the master       *)
(* closes the connection.                                                 *)

Request(c, f, p) ==
    LET g == IF f = NoFile THEN purged + 1 ELSE f IN
    CASE g <= purged -> [conn |-> c, file |-> g, next |-> 0, phase |-> "nofile"]
      [] p < 4 \/ p > EndOf(g) -> [conn |-> c, file |-> g, next |-> 0, phase |-> "badpos"]
      [] OTHER -> [conn |-> c, file |-> g, next |-> p - 3, phase |-> "rotate"]

HasPacket(s) ==
    \/ s.phase \in {"rotate", "fde"}
    \/ s.phase = "events" /\ s.next <= Len(Binlog[s.file])

\* The event the master sends next; id <<f, 0>> marks an artificial event.
Packet(s) ==
    CASE s.phase = "rotate" ->
            [kind |-> "ROTATE", db |-> NoDb, tbl |-> NoTable, logpos |-> 0,
             id |-> <<s.file, 0>>, rotFile |-> s.file, rotPos |-> s.next + 3]
      [] s.phase = "fde" ->
            [kind |-> "FORMAT_DESCRIPTION", db |-> NoDb, tbl |-> NoTable,
             logpos |-> 0, id |-> <<s.file, 0>>, rotFile |-> s.file,
             rotPos |-> 4]
      [] OTHER ->
            LET ev == Binlog[s.file][s.next] IN
            [kind |-> ev.kind, db |-> ev.db, tbl |-> ev.tbl,
             logpos |-> s.next + 4, id |-> <<s.file, s.next>>,
             rotFile |-> s.file + 1, rotPos |-> 4]

Advance(s) ==
    CASE s.phase = "rotate" ->
            [s EXCEPT !.phase = IF s.next > 1 THEN "fde" ELSE "events"]
      [] s.phase = "fde" -> [s EXCEPT !.phase = "events"]
      [] OTHER ->
            IF Binlog[s.file][s.next].kind = "ROTATE" /\ s.file < LastFile
            THEN [s EXCEPT !.file = s.file + 1, !.next = 1]
            ELSE [s EXCEPT !.next = s.next + 1]

-----------------------------------------------------------------------------
(* The parser.  parseEvent gives each kind its own BinlogFileName: ROTATE  *)
(* the new file (after moving the parser there), QUERY, TABLE_MAP and ROWS *)
(* the parser's current file, FORMAT_DESCRIPTION and the default branch    *)
(* none at all.  SchemaName is empty for ROTATE, FORMAT_DESCRIPTION, XID.  *)

RotatedFile(e) == IF e.kind = "ROTATE" THEN e.rotFile ELSE binlogFileName
RotatedPos(e)  == IF e.kind = "ROTATE" THEN e.rotPos ELSE binlogPosition

EventFileName(e) ==
    IF e.kind \in {"FORMAT_DESCRIPTION", "XID"} THEN NoFile ELSE RotatedFile(e)

EventSchema(e) ==
    IF e.kind \in {"QUERY", "TABLE_MAP", "ROWS"} THEN e.db ELSE NoDb

\* A ROWS event whose table id has no TableMapEvent dereferences nil.
RowsWithoutMap(e) == e.kind = "ROWS" /\ e.tbl \notin tableMap

\* parseRowsEvent returns an error for the row images (RowDecoder's
\* "short" ending), and parseEvent passes it on with the event.
RowsUndecodable(e) ==
    e.kind = "ROWS" /\ e.tbl \in tableMap /\ e.tbl \in UndecodableTables

\* parseColumnMetadata returns "Unknown FieldType" for the table's JSON
\* column; parseTableMapEvent passes the error on, and parseEvent has
\* already cached the half-parsed TableMapEvent when it returns it.
TableMapFails(e) == e.kind = "TABLE_MAP" /\ e.tbl \in UnknownTypeTables

ParseFails(e) == RowsWithoutMap(e) \/ RowsUndecodable(e) \/ TableMapFails(e)

\* DumpBinlog's filters: nil event, replicateDoDb, eventDo.
Kept(e) ==
    /\ e.kind \notin SilentKinds
    /\ DoDb = {} \/ EventSchema(e) \in DoDb
    /\ e.kind \in Subscribed


\* The maximum-position check of DumpBinlog.
AtMax(e) == EventFileName(e) = MaxFile /\ e.logpos >= MaxPos

-----------------------------------------------------------------------------
CanFail(kind) == kind \in Failures /\ failures < MaxFailures

parserVars == <<connectionId, binlogFileName, binlogPosition, tableMap>>
connVars   == <<mysqlConn, dumpConn, connOpen>>
ctlVars    == <<dumpBinLogStatus, Status, calls, lastCmd, checkpoint>>
masterVars == <<srv, purged>>

\* A dump-goroutine step that only moves on to label l.
Goto(l) ==
    /\ pc' = l
    /\ UNCHANGED <<parserVars, connVars, ctlVars, masterVars, delivered, failures>>

\* A dump-goroutine step to label l that uses up one injected failure.
FailTo(kind, l) ==
    /\ CanFail(kind)
    /\ failures' = failures + 1
    /\ pc' = l
    /\ UNCHANGED <<parserVars, connVars, ctlVars, masterVars, delivered>>

Init ==
    /\ pc = "loop"
    /\ dumpBinLogStatus = 1
    /\ Status = "starting"
    /\ mysqlConn = NoConn /\ dumpConn = NoConn
    /\ connOpen = {}
    /\ connectionId = NoConn
    /\ checkpoint \in Arguments
    /\ binlogFileName = checkpoint[1] /\ binlogPosition = checkpoint[2]
    /\ tableMap = {}
    /\ srv = [conn |-> NoConn, file |-> 1, next |-> 0, phase |-> "none"]
    /\ purged = 0
    /\ delivered = <<>>
    /\ failures = 0 /\ calls = 0 /\ lastCmd = "none"

\* Mutant: the loop head checks only for kill.
LoopHeadIgnoresClose ==
    /\ pc = "loop"
    /\ Goto(IF dumpBinLogStatus = 3 THEN "exited" ELSE "open")

\* StartDumpBinlog's loop head: leave on kill or close, else reconnect.
LoopHead ==
    /\ pc = "loop"
    /\ Goto(IF dumpBinLogStatus \in {2, 3} THEN "exited" ELSE "open")

\* The master never reuses a connection id the client may still name; ids
\* of connections long gone are recycled to keep the model finite.
FreshConns ==
    (1..MaxConn) \ (connOpen \cup {connectionId, mysqlConn, dumpConn, srv.conn})

\* startConnAndDumpBinlog step 1: open the dump connection.
OpenConn ==
    /\ pc = "open"
    /\ LET c == Min(FreshConns) IN
       /\ mysqlConn' = c
       /\ connOpen' = connOpen \cup {c}
    /\ pc' = "connid"
    /\ UNCHANGED <<dumpConn, parserVars, ctlVars, masterVars, delivered, failures>>

\* Mutant: a failed open ends the goroutine instead of retrying.
OpenFailGiveUp == pc = "open" /\ FailTo("open", "exited")

\* Open fails: sleep, return, sleep, loop.
OpenFail == pc = "open" /\ FailTo("open", "loop")

\* Bootstrap steps that call a method on This.mysqlConn.
UsesConn ==
    \/ pc \in {"connid", "checksum", "dump"}
    \/ pc = "masterpos" /\ binlogFileName = NoFile

\* Close or KillDump set This.mysqlConn to nil: the method call panics and
\* nothing on the dump goroutine recovers.
NilConnPanic == UsesConn /\ mysqlConn = NoConn /\ Goto("crashed")

\* A bootstrap query fails: stmt.Query returns nil rows and the next use of
\* rows (or the deferred rows.Close) panics.
QueryPanic ==
    /\ UsesConn /\ pc # "dump" /\ mysqlConn \in connOpen
    /\ FailTo("query", "crashed")

\* The socket of This.mysqlConn was closed under a bootstrap query (by the
\* network, or by the master): Prepare fails, stmt is nil and stmt.Query
\* panics; in step 2, a Prepare that got through leaves rows nil and
\* rows.Next panics.
ClosedConnPanic ==
    /\ UsesConn /\ pc # "dump"
    /\ mysqlConn # NoConn /\ mysqlConn \notin connOpen
    /\ Goto("crashed")

\* Step 2: SELECT connection_id().  A failed Prepare (injected, or on a
\* closed socket) or an empty id returns without closing the new connection.
GetConnectionId ==
    /\ pc = "connid"
    /\ mysqlConn # NoConn
    /\ \/ /\ mysqlConn \in connOpen
          /\ connectionId' = mysqlConn
          /\ pc' = "masterpos"
          /\ UNCHANGED <<binlogFileName, binlogPosition, tableMap, connVars,
                         ctlVars, masterVars, delivered, failures>>
       \/ FailTo("query", "loop")
       \/ mysqlConn \notin connOpen /\ Goto("loop")

\* Step 3: without a file name, SHOW MASTER STATUS gives the master's
\* current end of log (a failed query is QueryPanic or ClosedConnPanic).
GetMasterFilePosition ==
    /\ pc = "masterpos"
    /\ \/ binlogFileName # NoFile /\ Goto("checksum")
       \/ /\ binlogFileName = NoFile /\ mysqlConn \in connOpen
          /\ binlogFileName' = LastFile
          /\ binlogPosition' = EndOf(LastFile)
          /\ pc' = "checksum"
          /\ UNCHANGED <<connectionId, tableMap, connVars, ctlVars, masterVars,
                         delivered, failures>>

\* Step 4: checksum negotiation (its flag is not modelled here); on a closed
\* socket it is ClosedConnPanic.
ChecksumEnabled == pc = "checksum" /\ mysqlConn \in connOpen /\ Goto("dump")

\* Step 5, DumpBinlog: send COM_BINLOG_DUMP from the parser's position; a
\* write on a closed socket returns at once.
SendBinlogDump ==
    /\ pc = "dump"
    /\ mysqlConn # NoConn
    /\ dumpConn' = mysqlConn
    /\ IF mysqlConn \in connOpen
       THEN /\ srv' = Request(mysqlConn, binlogFileName, binlogPosition)
            /\ pc' = "dumploop"
       ELSE /\ pc' = "cleanup"
            /\ UNCHANGED srv
    /\ UNCHANGED <<purged, mysqlConn, connOpen, parserVars, ctlVars,
                   delivered, failures>>

\* DumpBinlog's loop head: spin while stopped, leave on close.
DumpLoopHead ==
    /\ pc = "dumploop"
    /\ Goto(CASE dumpBinLogStatus = 0 -> "dumploop"
              [] dumpBinLogStatus = 2 -> "cleanup"
              [] OTHER -> "read")

\* readPacket fails: the socket was closed under it.
ReadFail == pc = "read" /\ dumpConn \notin connOpen /\ Goto("cleanup")

\* An error packet other than "Could not find first log file": reported,
\* and the loop goes on; the master then closes the connection.
ReadErrorPacket ==
    /\ pc = "read"
    /\ dumpConn \in connOpen
    /\ srv.conn = dumpConn /\ srv.phase = "badpos"
    /\ srv' = [srv EXCEPT !.phase = "closed"]
    /\ connOpen' = connOpen \ {dumpConn}
    /\ pc' = "dumploop"
    /\ UNCHANGED <<purged, mysqlConn, dumpConn, parserVars, ctlVars,
                   delivered, failures>>

\* Mutant: on the purge error, restart from the master's current log.
ReadPurgedPacketRestart ==
    /\ pc = "read"
    /\ dumpConn \in connOpen
    /\ srv.conn = dumpConn /\ srv.phase = "nofile"
    /\ srv' = [srv EXCEPT !.phase = "closed"]
    /\ connOpen' = connOpen \ {dumpConn}
    /\ binlogFileName' = NoFile
    /\ pc' = "cleanup"
    /\ UNCHANGED <<purged, mysqlConn, dumpConn, connectionId, binlogPosition,
                   tableMap, ctlVars, delivered, failures>>

\* "Could not find first log file name in binary log index file": reported
\* with "close" on the result channel, and the loop breaks; DumpBinlog
\* returns without setting dumpBinLogStatus, and the master closes the
\* connection.  The parser keeps the purged file name.
ReadPurgedPacket ==
    /\ pc = "read"
    /\ dumpConn \in connOpen
    /\ srv.conn = dumpConn /\ srv.phase = "nofile"
    /\ srv' = [srv EXCEPT !.phase = "closed"]
    /\ connOpen' = connOpen \ {dumpConn}
    /\ pc' = "cleanup"
    /\ UNCHANGED <<purged, mysqlConn, dumpConn, parserVars, ctlVars,
                   delivered, failures>>

EventReady ==
    /\ pc = "read"
    /\ dumpConn \in connOpen
    /\ srv.conn = dumpConn /\ HasPacket(srv)

\* The parser's own updates for an event: ROTATE moves it to the new file,
\* TABLE_MAP caches the table.
ParserUpdate(e) ==
    /\ binlogFileName' = RotatedFile(e)
    /\ binlogPosition' = RotatedPos(e)
    /\ tableMap' = IF e.kind = "TABLE_MAP" THEN tableMap \cup {e.tbl}
                   ELSE tableMap

\* readPacket returns an event: parseEvent, the filters, the maximum check
\* and the callback, as DumpBinlog runs them.  A ROWS event without its
\* TABLE_MAP dereferences nil in parseEventRow.
ReadRowsWithoutMap ==
    /\ EventReady /\ RowsWithoutMap(Packet(srv))
    /\ pc' = "crashed"
    /\ UNCHANGED <<parserVars, connVars, ctlVars, masterVars, delivered, failures>>

\* parseEvent fails: DumpBinlog returns the error before any filter, and
\* the position stays before the event.  A failed TABLE_MAP stays cached.
ReadEventParseError ==
    /\ EventReady
    /\ LET e == Packet(srv) IN
       /\ RowsUndecodable(e) \/ TableMapFails(e)
       /\ tableMap' = IF TableMapFails(e) THEN tableMap \cup {e.tbl} ELSE tableMap
    /\ pc' = "cleanup"
    /\ UNCHANGED <<connectionId, binlogFileName, binlogPosition, connVars,
                   ctlVars, masterVars, delivered, failures>>

\* An event that the filters drop: only the parser's own updates remain.
ReadEventDropped ==
    /\ EventReady
    /\ LET e == Packet(srv) IN
       ~ParseFails(e) /\ ~Kept(e) /\ ParserUpdate(e)
    /\ srv' = Advance(srv)
    /\ pc' = "dumploop"
    /\ UNCHANGED <<purged, connectionId, connVars, ctlVars, delivered, failures>>

\* A kept event at or past the maximum: close the dump.
ReadEventAtMax ==
    /\ EventReady
    /\ LET e == Packet(srv) IN
       ~ParseFails(e) /\ Kept(e) /\ AtMax(e) /\ ParserUpdate(e)
    /\ srv' = Advance(srv)
    /\ dumpBinLogStatus' = 2
    /\ pc' = "cleanup"
    /\ UNCHANGED <<purged, connectionId, connVars, Status, calls, lastCmd, checkpoint, delivered,
                   failures>>

\* Mutant: the position never set.
SetPositionUnchanged(e) == UNCHANGED <<binlogFileName, binlogPosition>>

\* After the callback the parser's position becomes the event's
\* BinlogFileName and header LogPos.
SetPosition(e) ==
    binlogFileName' = EventFileName(e) /\ binlogPosition' = e.logpos

\* A kept event: the callback runs, then the position is set.
ReadEventDelivered ==
    /\ EventReady
    /\ LET e == Packet(srv) IN
       /\ ~ParseFails(e) /\ Kept(e) /\ ~AtMax(e)
       /\ delivered' = Append(delivered, e.id)
       /\ SetPosition(e)
       /\ tableMap' = IF e.kind = "TABLE_MAP" THEN tableMap \cup {e.tbl}
                      ELSE tableMap
    /\ srv' = Advance(srv)
    /\ pc' = "dumploop"
    /\ UNCHANGED <<purged, connectionId, connVars, ctlVars, failures>>

\* KillConnect(id) over the schema session: the master drops connection
\* id, after the sockets in drop are closed; a failed KILL drops nothing.
KillConnect(id, drop) ==
    \/ /\ connOpen' = (connOpen \ drop) \ {id}
       /\ UNCHANGED failures
    \/ /\ CanFail("query")
       /\ failures' = failures + 1
       /\ connOpen' = connOpen \ drop

\* Steps 6 and 7 after DumpBinlog returns: close the dump connection,
\* record the reason, kill the connection id on the master.
\* Mutant: the default branch records an error status.
StopReasonError ==
    CASE dumpBinLogStatus = 3 -> Status
      [] dumpBinLogStatus = 2 -> "close"
      [] OTHER -> "error"

\* The status switch after DumpBinlog returns.
StopReason ==
    CASE dumpBinLogStatus = 3 -> Status
      [] dumpBinLogStatus = 2 -> "close"
      [] OTHER -> "stop"

Cleanup ==
    /\ pc = "cleanup"
    /\ Status' = StopReason
    /\ mysqlConn' = NoConn
    /\ KillConnect(connectionId, {mysqlConn})
    /\ pc' = "loop"
    /\ UNCHANGED <<dumpBinLogStatus, calls, lastCmd, checkpoint, dumpConn,
                   parserVars, masterVars, delivered>>

-----------------------------------------------------------------------------
(* The control API, called from other goroutines.  Close and KillDump run *)
(* under BinlogDump.connLock; with no connection their nil call panics    *)
(* after the status is set, and their deferred recover swallows it.       *)

Command(name, status) ==
    /\ calls < MaxCalls
    /\ calls' = calls + 1
    /\ lastCmd' = name
    /\ dumpBinLogStatus' = status
    /\ UNCHANGED checkpoint

Stop ==
    /\ Command("Stop", 0)
    /\ UNCHANGED <<pc, Status, parserVars, connVars, masterVars, delivered, failures>>

Start ==
    /\ Command("Start", 1)
    /\ UNCHANGED <<pc, Status, parserVars, connVars, masterVars, delivered, failures>>

Close ==
    /\ Command("Close", 2)
    /\ connOpen' = connOpen \ {mysqlConn}
    /\ mysqlConn' = NoConn
    /\ UNCHANGED <<pc, Status, dumpConn, parserVars, masterVars, delivered,
                   failures>>

\* KillDump KILLs the dump connection id first, then closes the socket.
KillDump ==
    /\ Command("KillDump", 3)
    /\ KillConnect(connectionId, {mysqlConn})
    /\ mysqlConn' = NoConn
    /\ UNCHANGED <<pc, Status, dumpConn, parserVars, masterVars, delivered>>

\* The network or the master drops an open connection.
NetworkFailure ==
    /\ CanFail("net")
    /\ \E c \in connOpen : connOpen' = connOpen \ {c}
    /\ failures' = failures + 1
    /\ UNCHANGED <<pc, mysqlConn, dumpConn, parserVars, ctlVars, masterVars,
                   delivered>>

\* PURGE BINARY LOGS on the master removes its oldest file; it never
\* removes the active (last) log or a file a dump thread is reading.
MasterPurge ==
    /\ CanFail("purge")
    /\ purged + 1 < LastFile
    /\ ~(srv.conn \in connOpen /\ srv.phase \in {"rotate", "fde", "events"}
         /\ srv.file = purged + 1)
    /\ purged' = purged + 1
    /\ failures' = failures + 1
    /\ UNCHANGED <<pc, connVars, parserVars, ctlVars, srv, delivered>>

DumpGoroutine ==
    \/ LoopHead \/ OpenConn \/ OpenFail \/ NilConnPanic \/ QueryPanic \/ ClosedConnPanic
    \/ GetConnectionId \/ GetMasterFilePosition \/ ChecksumEnabled
    \/ SendBinlogDump \/ DumpLoopHead \/ ReadFail \/ ReadErrorPacket \/ ReadPurgedPacket
    \/ ReadRowsWithoutMap \/ ReadEventParseError \/ ReadEventDropped \/ ReadEventAtMax
    \/ ReadEventDelivered \/ Cleanup

Next ==
    \/ DumpGoroutine
    \/ Stop \/ Start \/ Close \/ KillDump
    \/ NetworkFailure \/ MasterPurge

\* The dump goroutine is always runnable when it has a step; the control
\* API and the network are the environment and owe nothing.  Behaviours
\* may end: the goroutine returns or panics, or blocks in readPacket at the
\* end of the log.
Spec == Init /\ [][Next]_vars /\ WF_vars(DumpGoroutine)
-----------------------------------------------------------------------------
(* Properties.                                                            *)

TypeOK ==
    /\ pc \in PCs
    /\ dumpBinLogStatus \in 0..3 /\ checkpoint \in Arguments
    /\ Status \in {"starting", "stop", "close"}
    /\ mysqlConn \in Conns /\ dumpConn \in Conns
    /\ connOpen \subseteq 1..MaxConn
    /\ connectionId \in Conns
    /\ binlogFileName \in {NoFile} \cup Files
    /\ binlogPosition \in Positions
    /\ tableMap \subseteq UNION {{e.tbl : e \in ToSet(Binlog[f])} : f \in Files}
    /\ srv \in [conn : Conns, file : Files, next : Positions, phase : Phases]
    /\ purged \in 0..(LastFile - 1)
    /\ delivered \in Seq(EventIds)
    /\ failures \in 0..MaxFailures /\ calls \in 0..MaxCalls

\* Log order of events and of positions (file name first, then offset).
Before(f, k, g, j) == f < g \/ (f = g /\ k < j)

\* Where a dump from checkpoint cp starts: the given position, or the
\* master's end of log when no file name is given (spec.md 4.6 step 3,
\* scenario 1).
StartPoint(cp) ==
    IF cp[1] = NoFile THEN <<LastFile, EndOf(LastFile)>> ELSE cp

\* spec.md 4.5 and 4.8: an event is owed to the sink of a dump started
\* from cp when it passes the database filter and the subscription, ends
\* before the maximum and starts at or after the start point.
OwedFrom(cp, f, k) ==
    LET ev == Binlog[f][k]
        sp == StartPoint(cp) IN
    /\ ev.kind \in Subscribed \ SilentKinds
    /\ DoDb = {} \/ (ev.kind \in {"QUERY", "TABLE_MAP", "ROWS"} /\ ev.db \in DoDb)
    /\ cp[3] = NoFile \/ Before(f, k + 4, cp[3], cp[4])
    /\ ~Before(f, k + 3, sp[1], sp[2])

Owed(f, k) == OwedFrom(checkpoint, f, k)

LogIds == FlattenSeq([f \in Files |-> [k \in 1..Len(Binlog[f]) |-> <<f, k>>]])
OwedStreamFrom(cp) == SelectSeq(LogIds, LAMBDA id : OwedFrom(cp, id[1], id[2]))
OwedStream == OwedStreamFrom(checkpoint)
IsLogEvent(id) == id[2] # 0
SinkOut == SelectSeq(delivered, IsLogEvent)

\* The master never streams past an owed event the sink has not received:
\* whatever position the parser resumes from after a disconnect, a ROTATE,
\* a pause or a kill, every owed event before the master's current send
\* point has been delivered.
NoEventSkipped ==
    srv.phase \in {"rotate", "fde", "events"} =>
        \A id \in ToSet(LogIds) :
            (Before(id[1], id[2], srv.file, srv.next) /\ Owed(id[1], id[2]))
                => id \in ToSet(delivered)

\* Refinement: the binlog events the callback sees are the owed stream, in
\* order, each once (spec.md 4.5, 5: exactly one writer of the position).
Sink == INSTANCE SinkStream WITH stream <- OwedStream, out <- SinkOut
SinkRefinement == Sink!Spec

\* The core never ends the process (spec.md 7, 8): no control call racing
\* the bootstrap of startConnAndDumpBinlog, and no event, makes the dump
\* goroutine panic without a recover.
NoCrash == pc # "crashed"

\* spec.md 4.6 step 6: every bootstrap attempt ends by closing its dump
\* session. So a socket the client holds open is always the one in
\* This.mysqlConn, the one Close, KillDump and the cleanup can reach: no
\* failed attempt leaves a connection open that nothing will ever close.
NoLeakedConn == connOpen \subseteq {mysqlConn}

\* Close takes effect: once Close is the latest command the dump goroutine
\* ends, unless a later command overrides it.
CloseTerminates ==
    (lastCmd = "Close") ~> (pc \in {"exited", "crashed"} \/ lastCmd # "Close")

\* Progress: without Close or KillDump, with any Stop eventually followed
\* by Start, and as long as the dump goroutine does not panic (a socket
\* dropped under a bootstrap query does panic: ClosedConnPanic, QueryPanic),
\* the reconnects after dropped dump connections, failed opens and empty
\* connection ids never keep an owed event from the sink.
Progress ==
    ([](lastCmd \in {"none", "Stop", "Start"}) /\ <>[](lastCmd # "Stop")
       /\ [](pc # "crashed"))
        => <>(SinkOut = OwedStream)
=============================================================================
