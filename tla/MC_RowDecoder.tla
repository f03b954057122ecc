---------------------------- MODULE MC_RowDecoder ----------------------------
(* Tables for checking RowDecoder: each is a TableMap (column types and    *)
(* metadata) with its schema flags, and the values each column may hold.   *)
EXTENDS RowDecoder

Col(t) == [type |-> t, unsigned |-> FALSE, isBool |-> FALSE, maxLength |-> 0,
           size |-> 1, enumValues |-> <<>>, setValues |-> <<>>, bits |-> 0,
           fsp |-> 0, lengthSize |-> 0, precision |-> 0, decimals |-> 0]

\* Twenty-one columns (a three-byte NULL bitmap) at the boundaries the
\* code tests: a tinyint(1) bool, a negative int8, an unsigned INT24 with a
\* high low byte, VARCHAR(255) with a 1-byte length and VARCHAR(256) with 2,
\* BIT(9) across two bytes and BIT(1), negative SHORT and LONGLONG, an
\* unsigned LONG above 2^16, CHAR(10), a SET of two members, a BLOB with a
\* 2-byte length, DECIMAL(8,1) with a 4-byte integral group, DATETIME, and
\* dates and times with one-digit month, day, minute and second fields (the
\* hours are two-digit: a one-digit TIME hour is a ValuesTable case).
RowsTable ==
    << [Col("TINY") EXCEPT !.isBool = TRUE], Col("TINY"),
       [Col("INT24") EXCEPT !.unsigned = TRUE], Col("YEAR"),
       [Col("VARCHAR") EXCEPT !.maxLength = 255],
       [Col("VARCHAR") EXCEPT !.maxLength = 256],
       [Col("ENUM") EXCEPT !.enumValues = <<"a", "b">>],
       [Col("BIT") EXCEPT !.bits = 9], [Col("BIT") EXCEPT !.bits = 1],
       Col("SHORT"), [Col("LONG") EXCEPT !.unsigned = TRUE], Col("LONGLONG"),
       [Col("STRING") EXCEPT !.maxLength = 10],
       [Col("SET") EXCEPT !.setValues = <<"x", "y", "z">>],
       [Col("BLOB") EXCEPT !.lengthSize = 2],
       [Col("NEWDECIMAL") EXCEPT !.precision = 8, !.decimals = 1],
       Col("DATETIME"), Col("DATE"), Col("TIME"), Col("TIME2"), Col("DATETIME2") >>
RowsDomain ==
    << {0, 1}, {-1}, {65791}, {2024}, {<<>>}, {<<7, 8>>}, {2},
       {300}, {1}, {-2}, {70000}, {-1}, {<<1, 2>>}, {5}, {<<9>>},
       {<<FALSE, 1234567, 5>>}, {<<2024, 2, 29, 13, 7, 5>>}, {<<2024, 1, 5>>}, {<<12, 9, 59>>}, {<<23, 59, 9>>},
       {<<2024, 2, 29, 13, 7, 5>>} >>
RowsNullable == {1, 12, 20}

\* One row of the values MySQL stores and the code reads differently: a
\* tinyint(1) holding 2, DECIMAL(5,2) 123.45, DECIMAL(8,1) -1.5, a signed
\* INT24 above 127, BIT(10) above 511, the zero YEAR, a TIME with hour 9
\* and minute 10, DATETIME2's zero date, and a DATETIME2(3) before a TINY.
ValuesTable ==
    << [Col("TINY") EXCEPT !.isBool = TRUE],
       [Col("NEWDECIMAL") EXCEPT !.precision = 5, !.decimals = 2],
       [Col("NEWDECIMAL") EXCEPT !.precision = 8, !.decimals = 1], Col("INT24"),
       [Col("BIT") EXCEPT !.bits = 10], Col("YEAR"), Col("TIME"),
       Col("DATETIME2"), [Col("DATETIME2") EXCEPT !.fsp = 3], Col("TINY") >>
ValuesDomain ==
    << {2}, {<<FALSE, 123, 45>>}, {<<TRUE, 1, 5>>}, {300}, {600}, {0},
       {<<9, 10, 5>>}, {<<0, 0, 0, 0, 0, 0>>}, {<<2024, 2, 29, 13, 10, 5>>}, {3} >>

\* The same columns with a DATE last, so that an event cut by 4 bytes
\* reads past its end.
RowsDateTable == RowsTable \o << Col("DATE") >>
RowsDateDomain == RowsDomain \o << {<<1999, 12, 31>>} >>

NoneNullable == {}

\* An UPDATE (v2, MySQL 5.6 and later) whose images carry every column
\* (binlog_row_image = FULL), its table id above 2^16 in 6 bytes.
UpdateEvent ==
    [type |-> "UPDATE_ROWS_EVENTv2", postHeaderLen |-> 8, tableId |-> 70000,
     flags |-> 1, extraData |-> << >>, present1 |-> Cols, present2 |-> Cols]
\* A WRITE of v1 (MySQL 5.1 to 5.5) with a 4-byte table id.
WriteEventV1 ==
    [type |-> "WRITE_ROWS_EVENTv1", postHeaderLen |-> 6, tableId |-> 42,
     flags |-> 1, extraData |-> << >>, present1 |-> Cols, present2 |-> {}]
====
