--------------------------- MODULE MC_BinlogDump ---------------------------
(***************************************************************************)
(* Model-checking instance of BinlogDump: two binlog files, two tables in *)
(* two databases, one transaction per file and a DDL statement.           *)
(***************************************************************************)
EXTENDS BinlogDump

CONSTANTS d1, d2, t1, t2, t3

Ev(kind, db, tbl) == [kind |-> kind, db |-> db, tbl |-> tbl]

\* mysql-bin.000001: FDE, TABLE_MAP(d1.t1), WRITE_ROWS(d1.t1), XID,
\* QUERY on d2, ROTATE; mysql-bin.000002: FDE, TABLE_MAP(d2.t2),
\* UPDATE_ROWS(d2.t2), XID.
MCBinlog ==
    << << Ev("FORMAT_DESCRIPTION", NoDb, NoTable), Ev("TABLE_MAP", d1, t1),
          Ev("ROWS", d1, t1), Ev("XID", NoDb, NoTable), Ev("QUERY", d2, NoTable),
          Ev("ROTATE", NoDb, NoTable) >>,
       << Ev("FORMAT_DESCRIPTION", NoDb, NoTable), Ev("TABLE_MAP", d2, t2),
          Ev("ROWS", d2, t2), Ev("XID", NoDb, NoTable) >> >>

\* The same log while the master is writing a transaction on d2.t3, a
\* table with a JSON column: mysql-bin.000002 ends with its TABLE_MAP.
MCBinlogJson == [MCBinlog EXCEPT ![2] = Append(@, Ev("TABLE_MAP", d2, t3))]

\* The subscription a row-change consumer uses.
RowSubscription == {"QUERY", "TABLE_MAP", "ROWS"}
\* Subscriptions that add transaction commits, or ROTATE events.
XidSubscription == RowSubscription \cup {"XID"}
RotateSubscription == RowSubscription \cup {"ROTATE"}

\* Checkpoints to start from: the first event, between a TABLE_MAP and its
\* ROWS (the position saved after a delivered TABLE_MAP), and no file
\* name (start at the master's current position).
AnyStart == {<<1, 4>>, <<1, 6>>, <<NoFile, 4>>}
\* Checkpoints at a statement boundary: the first event and a TABLE_MAP.
CleanStart == {<<1, 4>>, <<1, 5>>}
FirstEvent == {<<1, 4>>}
MidTransaction == {<<1, 6>>}
\* AnyStart, the end of the XID before d2.t3's TABLE_MAP in MCBinlogJson,
\* and a configured start "mysql-bin.000001:0", which the master refuses
\* (a position below 4).
JsonStart == AnyStart \cup {<<2, 8>>, <<1, 0>>}

\* Maxima: none, a position inside the last file, and one past the end
\* of the first file.
NoMax == {<<NoFile, 0>>}
LastFileMax == {<<2, 7>>}
AnyMax == NoMax \cup LastFileMax
FirstFileEndMax == {<<1, 10>>}

AllFailures == {"net", "open", "query", "purge"}
\* Failures the dump loop recovers from by reconnecting.
TransientFailures == {"net", "open"}
=============================================================================
