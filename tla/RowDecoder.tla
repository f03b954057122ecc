------------------------------ MODULE RowDecoder ------------------------------
(***************************************************************************)
(* The row-image decoder of Bubod: parseRowsEvent's loop over row images  *)
(* and parseEventRow's loop over columns (src/Bubod/mysql/event_rows.go). *)
(* A row image is built from chosen column values by MySQL's own encoding *)
(* (the reference, Encode below); the decoder consumes it byte by byte    *)
(* with the code's arithmetic, and the properties compare what it yields  *)
(* with the reference reading of the same values (Expected below).        *)
(*                                                                         *)
(* The decoder dispatches, as the code does, on the column metadata that  *)
(* parseColumnMetadata (event_tablemap.go) extracts from the TABLE_MAP    *)
(* block MySQL writes for the table (MetaBytes below).                    *)
(*                                                                         *)
(* Bytes are naturals 0..255 kept in sequences: TLC's integers have 32    *)
(* bits, so a 40-bit DATETIME2 word is read bit by bit from its bytes.    *)
(***************************************************************************)
EXTENDS Integers, Sequences, SequencesExt, Bitwise, TLC

CONSTANTS
    Table,     \* the columns as MySQL defines them: [type, maxLength, size,
               \*   bits, fsp, lengthSize, precision, decimals] and the
               \*   schema client's [unsigned, isBool, enumValues, setValues]
    Domain,    \* Domain[c]: the values column c may hold in the model
    Nullable,  \* the columns that may be NULL
    Event,     \* the ROWS event: [type, postHeaderLen (the FDE's entry for the
               \*   type), tableId, flags, extraData (v2's extra-data block),
               \*   present1, present2 (the columns its images carry)]
    NRows,     \* row images in one ROWS event
    Cuts,      \* bytes parseEvent strips from the event end that were no
               \*   checksum: 0, or 4 when parser.binlog_checksum is set while
               \*   the master sends none (binlog.go:61-62, 676-678)
    Null       \* SQL NULL, Go's nil

N == Len(Table)
Cols == 1..N

-----------------------------------------------------------------------------
(* Numbers on the wire.                                                    *)

LE(s) == FoldRight(LAMBDA b, acc : b + 256 * acc, s, 0)
BE(s) == FoldLeft(LAMBDA acc, b : 256 * acc + b, 0, s)
\* For 0 <= v < 2^31, so bytes past the fourth are 0.
BytesLE(v, n) == [k \in 1..n |-> IF k > 4 THEN 0 ELSE (v \div 2^(8 * (k - 1))) % 256]
BytesBE(v, n) == Reverse(BytesLE(v, n))
\* Two's complement, without forming 2^(8n): a negative v is the bitwise
\* complement of -v - 1.
EncodeInt(v, n) == IF v >= 0 THEN BytesLE(v, n)
                   ELSE [k \in 1..n |-> 255 - BytesLE(-v - 1, n)[k]]
\* The LE bytes of LE(s) * m + a, carried byte by byte (s long enough).
MulAdd(s, m, a) ==
    FoldLeft(LAMBDA acc, b : [out |-> Append(acc.out, (b * m + acc.carry) % 256),
                              carry |-> (b * m + acc.carry) \div 256],
             [out |-> << >>, carry |-> a], s).out

\* Bits MSB first, and back to bytes.
Bits(v, n) == [k \in 1..n |-> (v \div 2^(n - k)) % 2]
BitsToBytes(b) ==
    [k \in 1..(Len(b) \div 8) |->
        FoldLeft(LAMBDA acc, x : 2 * acc + x, 0, SubSeq(b, 8 * k - 7, 8 * k))]
BitOf(s, j) == (s[j \div 8 + 1] \div 2^(7 - (j % 8))) % 2

\* Decimal text of strconv.Itoa, and its value.
RECURSIVE Digits(_)
Digits(n) == IF n < 10 THEN <<n>> ELSE Append(Digits(n \div 10), n % 10)
NumOf(t) == FoldLeft(LAMBDA acc, d : 10 * acc + d, 0, t)
\* The digits of x, zero-padded to at least w.
Padded(x, w) == LET d == Digits(x) IN [k \in 1..(w - Len(d)) |-> 0] \o d
\* strconv.Itoa and fmt's %0*d, whose width counts the sign.
Itoa(x) == IF x < 0 THEN <<"-">> \o Digits(-x) ELSE Digits(x)
Fmt0(x, w) == IF x < 0 THEN <<"-">> \o Padded(-x, w - 1) ELSE Padded(x, w)

-----------------------------------------------------------------------------
(* The TABLE_MAP event as MySQL writes it: one type byte per column, ENUM  *)
(* and SET sent as STRING with the real type in the metadata, and each     *)
(* column's metadata bytes (save_field_metadata) in one block.             *)

TypeCode == [ENUM |-> 247, SET |-> 248, STRING |-> 254]
WireType(c) == IF c.type \in {"ENUM", "SET"} THEN "STRING" ELSE c.type
MetaBytes(c) ==
    CASE c.type = "VARCHAR" -> BytesLE(c.maxLength, 2)
      [] c.type = "STRING" ->
            << 254 ^^ ((c.maxLength & 768) \div 16), c.maxLength % 256 >>
      [] c.type \in {"ENUM", "SET"} -> << TypeCode[c.type], c.size >>
      [] c.type = "BLOB" -> << c.lengthSize >>
      [] c.type = "NEWDECIMAL" -> << c.precision, c.decimals >>
      [] c.type = "BIT" -> << c.bits % 8, c.bits \div 8 >>
      [] c.type \in {"TIME2", "DATETIME2", "TIMESTAMP2"} -> << c.fsp >>
      [] OTHER -> << >>

\* parseTableMapEvent: a ColumnType per type byte, then the metadata block.
ColumnTypes == [i \in Cols |-> WireType(Table[i])]
MetaBlock == FlattenSeq([i \in Cols |-> MetaBytes(Table[i])])

NoMeta(t) == [column_type |-> t, max_length |-> 0, length_size |-> 0,
              precision |-> 0, decimals |-> 0, size |-> 0, bits |-> 0,
              bytes |-> 0, fsp |-> 0]

\* parseColumnMetadata's step for one column of type t whose metadata
\* starts at data[pos]: its ColumnType and the bytes it consumed. STRING's
\* (b << 8) + c is computed in uint8, where b << 8 is 0; BIT's bits and
\* bits + 7 are uint8 too.
ColumnMeta(t, data, pos) ==
    LET z == NoMeta(t)
        b == data[pos]
        c == data[pos + 1]
        metadata == (b * 256 + c) % 256
        bits == (c * 8 + b) % 256 IN
    CASE t = "STRING" /\ b \in {TypeCode.ENUM, TypeCode.SET} ->
            << [z EXCEPT !.column_type = IF b = TypeCode.ENUM THEN "ENUM" ELSE "SET",
                         !.size = metadata & 255], 2 >>
      [] t = "STRING" ->
            << [z EXCEPT !.max_length = ((shiftR(metadata, 4) & 768) ^^ 768)
                                         + (metadata & 255)], 2 >>
      [] t \in {"VARCHAR", "VAR_STRING", "DECIMAL"} ->
            << [z EXCEPT !.max_length = LE(SubSeq(data, pos, pos + 1))], 2 >>
      [] t \in {"BLOB", "GEOMETRY", "DOUBLE", "FLOAT", "TINY_BLOB",
                "MEDIUM_BLOB", "LONG_BLOB"} -> << [z EXCEPT !.length_size = b], 1 >>
      [] t = "NEWDECIMAL" -> << [z EXCEPT !.precision = b, !.decimals = c], 2 >>
      [] t = "BIT" -> << [z EXCEPT !.bits = bits, !.bytes = ((bits + 7) % 256) \div 8], 2 >>
      [] t \in {"TIMESTAMP2", "DATETIME2", "TIME2"} -> << [z EXCEPT !.fsp = b], 1 >>
      [] t \in {"DATE", "DATETIME", "TIMESTAMP", "TIME", "TINY", "SHORT", "INT24",
                "LONG", "LONGLONG", "NULL", "YEAR", "NEWDATE"} -> << z, 0 >>

RECURSIVE ParseColumnMetadata(_, _, _)
ParseColumnMetadata(types, data, pos) ==
    IF types = << >> THEN << >>
    ELSE LET m == ColumnMeta(Head(types), data, pos) IN
         << m[1] >> \o ParseColumnMetadata(Tail(types), data, pos + m[2])

\* tableMap.columnMetaData, which parseEventRow switches on.
ColumnMetaData == ParseColumnMetadata(ColumnTypes, MetaBlock, 1)

-----------------------------------------------------------------------------
(* The reference: MySQL's row-image encoding of a value v of column c, and *)
(* the value the spec (section 4.4) says the decoder yields for it.        *)

Frac(c) == [k \in 1..((c.fsp + 1) \div 2) |-> 0]

\* DECIMAL(p, d) as decimal2bin stores <<negative, integer part, fraction
\* digits>>: groups of 9 digits in 4 big-endian bytes, the leftover digits
\* of each side in CompressedBytes[digits + 1] bytes, every byte inverted
\* when negative, and the top bit of the first byte flipped.
CompressedBytes == <<0, 1, 1, 2, 2, 3, 3, 4, 4, 4>>
EncodeDecimal(c, v) ==
    LET intg == c.precision - c.decimals
        intg0 == intg \div 9
        frac0 == c.decimals \div 9
        fx == c.decimals % 9
        raw == BytesBE((v[2] \div 10^(9 * intg0)) % 10^(intg % 9),
                       CompressedBytes[(intg % 9) + 1])
               \o FlattenSeq([g \in 1..intg0 |->
                      BytesBE((v[2] \div 10^(9 * (intg0 - g))) % 10^9, 4)])
               \o FlattenSeq([g \in 1..frac0 |->
                      BytesBE((v[3] \div 10^(9 * (frac0 - g) + fx)) % 10^9, 4)])
               \o BytesBE(v[3] % 10^fx, CompressedBytes[fx + 1])
        signed == IF v[1] THEN [k \in DOMAIN raw |-> 255 - raw[k]] ELSE raw IN
    [signed EXCEPT ![1] = @ ^^ 128]
DecimalText(c, v) ==
    (IF v[1] THEN <<"-">> ELSE << >>) \o Digits(v[2]) \o <<".">>
    \o Padded(v[3], c.decimals)
SetMembers(c, v) ==
    {c.setValues[i] : i \in {i \in 1..Len(c.setValues) : (v \div 2^(i - 1)) % 2 = 1}}
Encode(c, v) ==
    CASE c.type = "TINY"  -> <<v % 256>>
      [] c.type = "SHORT" -> EncodeInt(v, 2)
      [] c.type = "INT24" -> BytesLE(v % 2^24, 3)
      [] c.type = "LONG" -> EncodeInt(v, 4)
      [] c.type = "LONGLONG" -> EncodeInt(v, 8)
      [] c.type = "NEWDECIMAL" -> EncodeDecimal(c, v)
      [] c.type = "STRING" ->
            BytesLE(Len(v), IF c.maxLength > 255 THEN 2 ELSE 1) \o v
      [] c.type = "BLOB"  -> BytesLE(Len(v), c.lengthSize) \o v
      [] c.type = "SET"   -> BytesLE(v, c.size)
      [] c.type = "YEAR"  -> <<IF v = 0 THEN 0 ELSE v - 1900>>
      [] c.type = "VARCHAR" ->
            BytesLE(Len(v), IF c.maxLength > 255 THEN 2 ELSE 1) \o v
      [] c.type = "ENUM"  -> BytesLE(v, c.size)
      [] c.type = "BIT"   -> BytesBE(v, (c.bits + 7) \div 8)
      [] c.type = "DATETIME" ->
            MulAdd(MulAdd(BytesLE(v[1] * 10000 + v[2] * 100 + v[3], 8), 1000, 0),
                   1000, v[4] * 10000 + v[5] * 100 + v[6])
      [] c.type = "DATE"  -> BytesLE(v[1] * 512 + v[2] * 32 + v[3], 3)
      [] c.type = "TIME"  -> BytesLE(v[1] * 10000 + v[2] * 100 + v[3], 3)
      [] c.type = "TIME2" ->
            BitsToBytes(<<1, 0>> \o Bits(v[1], 10) \o Bits(v[2], 6)
                        \o Bits(v[3], 6)) \o Frac(c)
      [] c.type = "DATETIME2" ->
            BitsToBytes(<<1>> \o Bits(v[1] * 13 + v[2], 17) \o Bits(v[3], 5)
                        \o Bits(v[4], 5) \o Bits(v[5], 6) \o Bits(v[6], 6))
            \o Frac(c)

Texts(s) == [text |-> s]
Expected(c, v) ==
    CASE v = Null -> Null
      [] c.type = "TINY" -> IF c.isBool THEN v # 0 ELSE v
      [] c.type = "YEAR" -> IF v = 0 THEN Null ELSE Texts(<<Digits(v)>>)
      [] c.type = "ENUM" -> IF v = 0 THEN "" ELSE c.enumValues[v]
      [] c.type = "SET" -> SetMembers(c, v)
      [] c.type = "NEWDECIMAL" -> Texts(DecimalText(c, v))
      [] c.type \in {"DATE", "TIME", "TIME2"} ->
            IF c.type # "TIME2" /\ v = <<0, 0, 0>> THEN Null
            ELSE Texts(<<Padded(v[1], IF c.type = "DATE" THEN 4 ELSE 2),
                         Padded(v[2], 2), Padded(v[3], 2)>>)
      [] OTHER -> v

\* A bitmap of (n + 7) / 8 bytes with bit j - 1 set for each j in js.
Bitmap(n, js) ==
    [k \in 1..((n + 7) \div 8) |->
        FoldLeft(LAMBDA acc, i : acc + (IF 8 * (k - 1) + i \in js THEN 2^(i - 1) ELSE 0),
                 0, <<1, 2, 3, 4, 5, 6, 7, 8>>)]

\* The bytes of one row image over the present columns P: a NULL bitmap
\* with one bit per present column, then the non-NULL present columns.
EncodeRow(row, P) ==
    LET ps == SelectSeq([c \in Cols |-> c], LAMBDA c : c \in P) IN
    Bitmap(Len(ps), {j \in 1..Len(ps) : row[ps[j]] = Null})
    \o FlattenSeq([j \in 1..Len(ps) |-> IF row[ps[j]] = Null THEN <<>>
                                        ELSE Encode(Table[ps[j]], row[ps[j]])])

\* The ROWS event after its common header (Rows_log_event): the table id
\* in 4 bytes when the post-header is 6 long, else 6; flags; for v2 the
\* extra-data length, which counts its own 2 bytes, and the block; the
\* column count (one byte below 251); the present bitmaps; the images, an
\* UPDATE's alternating before (present1) and after (present2).
V2Types == {"WRITE_ROWS_EVENTv2", "UPDATE_ROWS_EVENTv2", "DELETE_ROWS_EVENTv2"}
UpdateTypes == {"UPDATE_ROWS_EVENTv1", "UPDATE_ROWS_EVENTv2"}
PresentOf(r) == IF Event.type \in UpdateTypes /\ r % 2 = 0 THEN Event.present2
                ELSE Event.present1
RowsHeader ==
    BytesLE(Event.tableId, IF Event.postHeaderLen = 6 THEN 4 ELSE 6)
    \o BytesLE(Event.flags, 2)
    \o (IF Event.type \in V2Types
        THEN BytesLE(Len(Event.extraData) + 2, 2) \o Event.extraData ELSE << >>)
    \o << N >> \o Bitmap(N, Event.present1)
    \o (IF Event.type \in UpdateTypes THEN Bitmap(N, Event.present2) ELSE << >>)

RECURSIVE RowChoices(_)
RowChoices(k) ==
    IF k = 0 THEN {<<>>}
    ELSE {Append(r, v) : r \in RowChoices(k - 1),
                         v \in Domain[k] \cup (IF k \in Nullable THEN {Null}
                                               ELSE {})}
-----------------------------------------------------------------------------
(* The code's arithmetic.                                                  *)

Int8(b) == IF b >= 128 THEN b - 256 ELSE b
\* binary.Read of a signed little-endian (big-endian) integer of Len(s) bytes.
SignedLE(s) == IF s[Len(s)] >= 128 THEN -LE([k \in DOMAIN s |-> 255 - s[k]]) - 1
               ELSE LE(s)
SignedBE(s) == SignedLE(Reverse(s))
\* t / k and t % k for the non-negative t whose LE bytes are s.
DivModLE(s, k) ==
    FoldLeft(LAMBDA acc, b : << acc[1] * 256 + (acc[2] * 256 + b) \div k,
                                (acc[2] * 256 + b) % k >>, << 0, 0 >>, Reverse(s))
Wrap8(n) == ((n + 128) % 256) - 128

\* parseEventRow's NULL bitmap: one bit per column of the table map,
\* whatever the present bitmaps say.
BitmapSize == (N + 7) \div 8

\* readLengthEncodedInt (not in the repository): MySQL's length-encoded
\* integer, one byte below 251, else a prefix byte and 2, 3 or 8 bytes.
LengthEncodedInt(s) ==
    CASE s[1] < 251 -> [value |-> s[1], size |-> 1]
      [] s[1] = 251 -> [value |-> 0, size |-> 1]
      [] s[1] = 252 -> [value |-> LE(SubSeq(s, 2, 3)), size |-> 3]
      [] s[1] = 253 -> [value |-> LE(SubSeq(s, 2, 4)), size |-> 4]
      [] s[1] = 254 -> [value |-> LE(SubSeq(s, 2, 9)), size |-> 9]

\* Bitfield.isSet: bit i (from 0) of the bitmap, LSB first in each byte.
IsSet(bm, i) == (bm[i \div 8 + 1] \div 2^(i % 8)) % 2 = 1

\* INT24: unsigned is a 3-byte little-endian read; signed adds three int8
\* values in int8 arithmetic, where b << 8 and c << 16 are 0.
Int24ValueSwapped(c, b) ==
    IF ~c.unsigned THEN LE(b)
    ELSE Wrap8(Wrap8(Int8(b[1]) + Wrap8(Int8(b[2]) * 2^8)) + Wrap8(Int8(b[3]) * 2^16))
Int24Value(c, b) ==
    IF c.unsigned THEN LE(b)
    ELSE Wrap8(Wrap8(Int8(b[1]) + Wrap8(Int8(b[2]) * 2^8)) + Wrap8(Int8(b[3]) * 2^16))

\* VARCHAR: a 2-byte length when max_length > 255, else 1 byte.
VarcharPrefixAtLeast(m) == IF m.max_length >= 255 THEN 2 ELSE 1
VarcharPrefix(m) == IF m.max_length > 255 THEN 2 ELSE 1

\* BIT: the significant bits of each byte, high byte first, as a string of
\* '0'/'1', then strconv.ParseInt(resp, 2, 10), which saturates at 2^9 - 1.
BitString(m, b) ==
    LET nb == m.bytes
        End(k) == IF k > 1 THEN 8 ELSE IF nb = 1 THEN m.bits
                  ELSE IF m.bits % 8 = 0 THEN 8 ELSE m.bits % 8 IN
    FlattenSeq([k \in 1..nb |-> [j \in 1..End(k) |-> (b[k] \div 2^(End(k) - j)) % 2]])
ParseInt10(t) ==
    LET v == FoldLeft(LAMBDA acc, x : 2 * acc + x, 0, t) IN
    IF v > 2^9 - 1 THEN 2^9 - 1 ELSE v

\* The zero padding of DATE (x >= 10) and of TIME, TIME2 (x > 10).
PadDate(x) == IF x >= 10 THEN Digits(x) ELSE <<0>> \o Digits(x)
PadTime(x) == IF x > 10 THEN Digits(x) ELSE <<0>> \o Digits(x)

\* read_binary_slice(binary, start, size, data_length) over the bytes s of
\* the data_length-bit word: size bits from bit start (0 = most significant).
\* TIME2's uint64 subtraction of 0x1000000 only changes bits above the 24
\* it reads.
ReadBinarySlice(s, start, size) ==
    FoldLeft(LAMBDA acc, j : 2 * acc + BitOf(s, j), 0, [k \in 1..size |-> start + k - 1])

\* time.Date's normalisation of month 0 and day 0 (the cases DATETIME2 can
\* hold besides valid dates): both step back into the previous month/year.
Leap(y) == y % 4 = 0 /\ (y % 100 # 0 \/ y % 400 = 0)
DaysIn(y, m) ==
    CASE m = 2 -> IF Leap(y) THEN 29 ELSE 28
      [] m \in {4, 6, 9, 11} -> 30
      [] OTHER -> 31
GoDate(y, m, d, h, mi, s) ==
    LET y1 == IF m = 0 THEN y - 1 ELSE y
        m1 == IF m = 0 THEN 12 ELSE m
        y2 == IF d = 0 /\ m1 = 1 THEN y1 - 1 ELSE y1
        m2 == IF d = 0 THEN (IF m1 = 1 THEN 12 ELSE m1 - 1) ELSE m1 IN
    <<y2, m2, IF d = 0 THEN DaysIn(y2, m2) ELSE d, h, mi, s>>

\* NEWDECIMAL: the compact integral group, the integral groups, and as
\* many fractional groups again (the loop bound is uncomp_integral), then
\* the compact fractional group. The first byte, read to take the sign and
\* unread with its top bit flipped, is the first of these.
DecimalGroups(m) ==
    LET integral == m.precision - m.decimals
        ui == integral \div 9 IN
    [size |-> CompressedBytes[(integral - 9 * ui) + 1], ui |-> ui,
     cf |-> m.decimals % 9, fsize |-> CompressedBytes[(m.decimals % 9) + 1]]
DecimalWidth(m) ==
    LET g == DecimalGroups(m) IN
    IF g.size + 8 * g.ui + g.fsize = 0 THEN 1 ELSE g.size + 8 * g.ui + g.fsize

\* The length prefix of VARCHAR, STRING (always one byte) and BLOB.
LengthPrefix(m) ==
    CASE m.column_type = "VARCHAR" -> VarcharPrefix(m)
      [] m.column_type = "STRING" -> 1
      [] m.column_type = "BLOB" -> m.length_size

\* The bytes parseEventRow reads for a column of metadata m from the rest s
\* of the event.
Width(m, s) ==
    CASE m.column_type \in {"TINY", "YEAR"} -> 1
      [] m.column_type \in {"INT24", "DATE", "TIME", "TIME2"} -> 3
      [] m.column_type = "SHORT" -> 2
      [] m.column_type = "LONG" -> 4
      [] m.column_type = "DATETIME2" -> 5
      [] m.column_type \in {"LONGLONG", "DATETIME"} -> 8
      [] m.column_type \in {"ENUM", "SET"} -> m.size
      [] m.column_type = "BIT" -> m.bytes
      [] m.column_type = "NEWDECIMAL" -> DecimalWidth(m)
      [] m.column_type \in {"VARCHAR", "STRING", "BLOB"} ->
            LET p == LengthPrefix(m) IN
            p + (IF Len(s) >= p THEN LE(SubSeq(s, 1, p)) ELSE 0)

\* The bytes whose absence is an error: STRING's and BLOB's payload is
\* taken with buf.Next, which returns what is left.
Need(m, s) == IF m.column_type \in {"STRING", "BLOB"} THEN LengthPrefix(m)
              ELSE Width(m, s)

\* The reads whose error the code drops: binary.Read of INT24's, TIME2's
\* and DATETIME2's parts, ENUM's and SET's ReadByte, and NEWDECIMAL's
\* reads, whose results are never checked. Past the end they yield 0.
IgnoresReadError(m, c) ==
    \/ m.column_type \in {"TIME2", "DATETIME2", "ENUM", "SET", "NEWDECIMAL"}
    \/ m.column_type = "INT24" /\ ~c.unsigned

-----------------------------------------------------------------------------
VARIABLES
    image,    \* the row values the event was written from
    tableId,  \* event.tableId as parseRowsEvent reads it
    cut,      \* the bytes parseEvent stripped that were no checksum
    buf,      \* the bytes of the event not read yet
    rows,     \* event.rows: the decoded rows
    cur,      \* the row being decoded: column -> value
    nulls,    \* the columns the current NULL bitmap marks
    col,      \* the loop index i of parseEventRow (from 1)
    status    \* "header" | "row" | "cols" | "done" | "short" | "panic"

vars == <<image, tableId, cut, buf, rows, cur, nulls, col, status>>

EmptyRow == [c \in {} |-> Null]

\* The metadata and the schema entry of column col.
Meta == ColumnMetaData[col]
Schema == Table[col]

Init ==
    /\ image \in [1..NRows -> RowChoices(N)]
    /\ cut \in Cuts
    /\ LET full == RowsHeader
                   \o FlattenSeq([r \in 1..NRows |-> EncodeRow(image[r], PresentOf(r))]) IN
       buf = SubSeq(full, 1, Len(full) - cut)
    /\ tableId = 0 /\ rows = <<>> /\ cur = EmptyRow /\ nulls = {} /\ col = 1
    /\ status = "header"

\* parseRowsEvent's post-header: the table id in 4 bytes when the FDE gives
\* the type a 6-byte post-header, else 6; flags; for v2 the extra-data
\* length and a skip of extraDataLength/8 bytes; the column count; present
\* bitmap 1 and, for UPDATE, 2, whose contents are never used.
ReadRowsHeader ==
    /\ status = "header"
    /\ LET idSize == IF Event.postHeaderLen = 6 THEN 4 ELSE 6
           afterFlags == SubSeq(buf, idSize + 3, Len(buf))
           extra == IF Event.type \in V2Types
                    THEN 2 + LE(SubSeq(afterFlags, 1, 2)) \div 8 ELSE 0
           body == SubSeq(afterFlags, extra + 1, Len(afterFlags))
           cc == LengthEncodedInt(body)
           bitmaps == IF Event.type \in UpdateTypes THEN 2 ELSE 1 IN
       /\ tableId' = LE(SubSeq(buf, 1, idSize))
       /\ buf' = SubSeq(body, cc.size + bitmaps * ((cc.value + 7) \div 8) + 1, Len(body))
    /\ status' = "row"
    /\ UNCHANGED <<image, cut, rows, cur, nulls, col>>

\* parseRowsEvent: while bytes remain, parse one more row image.
ReadNullBitmap ==
    /\ status = "row" /\ buf # <<>>
    /\ nulls' = {c \in Cols : IsSet(SubSeq(buf, 1, BitmapSize), c - 1)}
    /\ buf' = SubSeq(buf, BitmapSize + 1, Len(buf))
    /\ cur' = EmptyRow /\ col' = 1 /\ status' = "cols"
    /\ UNCHANGED <<image, tableId, cut, rows>>

RowsDone == status = "row" /\ buf = <<>> /\ status' = "done"
            /\ UNCHANGED <<image, tableId, cut, buf, rows, cur, nulls, col>>

EndRow ==
    /\ status = "cols" /\ col > N
    /\ rows' = Append(rows, cur) /\ status' = "row"
    /\ UNCHANGED <<image, tableId, cut, buf, cur, nulls, col>>

\* Column col is decoded from the next w bytes as value v (absent: no key).
Column(w, v, present) ==
    /\ buf' = SubSeq(buf, w + 1, Len(buf))
    /\ cur' = IF present THEN (col :> v) @@ cur ELSE cur
    /\ col' = col + 1
    /\ UNCHANGED <<image, tableId, cut, rows, nulls, status>>

At(type) ==
    /\ status = "cols" /\ col <= N /\ col \notin nulls /\ Meta.column_type = type
    /\ Len(buf) >= Need(Meta, buf) \/ IgnoresReadError(Meta, Schema)

\* The next n bytes, zero past the end of the event.
Take(n) == LET s == SubSeq(buf, 1, Min({n, Len(buf)})) IN
           s \o [k \in 1..(n - Len(s)) |-> 0]

DecodeNull ==
    /\ status = "cols" /\ col <= N /\ col \in nulls
    /\ Column(0, Null, TRUE)

\* The event ends inside column col and the read's error is returned, or,
\* for DATE and TIME, data[k] of the short buf.Next(3) panics.
ReadPastImage ==
    /\ status = "cols" /\ col <= N /\ col \notin nulls
    /\ Len(buf) < Need(Meta, buf) /\ ~IgnoresReadError(Meta, Schema)
    /\ status' = IF Meta.column_type \in {"DATE", "TIME"} THEN "panic" ELSE "short"
    /\ UNCHANGED <<image, tableId, cut, buf, rows, cur, nulls, col>>

DecodeTiny ==
    /\ At("TINY")
    /\ LET c == Schema
           b == Take(1)[1] IN
       Column(1, IF c.isBool /\ b \in {0, 1} THEN b = 1
                 ELSE IF c.unsigned THEN b ELSE Int8(b), TRUE)

\* SHORT, LONG and LONGLONG: binary.Read of a little-endian integer of the
\* width, unsigned or signed as the schema says.
IntWidth == [SHORT |-> 2, LONG |-> 4, LONGLONG |-> 8]
DecodeInteger ==
    \E t \in DOMAIN IntWidth :
        /\ At(t)
        /\ LET s == Take(IntWidth[t]) IN
           Column(IntWidth[t], IF Schema.unsigned THEN LE(s) ELSE SignedLE(s), TRUE)

DecodeInt24 == At("INT24") /\ Column(3, Int24Value(Schema, Take(3)), TRUE)

DecodeYear ==
    /\ At("YEAR")
    /\ Column(1, Texts(<<Digits(Take(1)[1] + 1900)>>), Take(1)[1] # 0)

DecodeVarchar ==
    /\ At("VARCHAR")
    /\ LET p == VarcharPrefix(Meta)
           w == Width(Meta, buf) IN
       Column(w, SubSeq(buf, p + 1, Min({w, Len(buf)})), TRUE)

\* STRING and BLOB: the length (one byte for STRING, length_size bytes for
\* BLOB), then buf.Next(length), cut short without error at the event end.
DecodeString ==
    \E t \in {"STRING", "BLOB"} :
        /\ At(t)
        /\ LET w == Width(Meta, buf) IN
           Column(w, SubSeq(buf, LengthPrefix(Meta) + 1, Min({w, Len(buf)})), TRUE)

\* enum_values[index-1]: an index outside 1..len panics, unrecovered.
DecodeEnum ==
    /\ At("ENUM")
    /\ LET index == LE(Take(Meta.size)) IN
       IF index \in 1..Len(Schema.enumValues)
       THEN Column(Meta.size, Schema.enumValues[index], TRUE)
       ELSE status' = "panic" /\ UNCHANGED <<image, tableId, cut, buf, rows, cur, nulls, col>>

\* SET: the members whose bit is set in the size-byte bitmap. The code
\* collects them in a map and lists its keys in Go's random map order; the
\* model keeps the set, which is what the properties compare.
DecodeSet ==
    /\ At("SET")
    /\ LET index == IF Meta.size \in 1..4 THEN LE(Take(Meta.size)) ELSE 0 IN
       Column(Meta.size, {Schema.setValues[i] : i \in {i \in DOMAIN Schema.setValues :
                                                       (index & 2^(i - 1)) > 0}}, TRUE)

\* NEWDECIMAL, as the code prints it: the sign from the first byte, the
\* compact integral group read as an int32 (binary.Read fails, leaving 0,
\* unless it is 4 bytes), the full groups with %09d, a point, as many
\* full groups again, and the compact fractional group; every group is
\* XORed with the mask as a Go int.
DecodeNewdecimal ==
    /\ At("NEWDECIMAL")
    /\ LET g == DecimalGroups(Meta)
           w == DecimalWidth(Meta)
           b0 == Take(w)
           neg == b0[1] < 128
           s == [b0 EXCEPT ![1] = @ ^^ 128]
           Mask(x) == IF neg THEN -x - 1 ELSE x
           Group(off) == Fmt0(Mask(BE(SubSeq(s, off + 1, off + 4))), 9)
           lead == IF g.size = 0 THEN << >>
                   ELSE Itoa(Mask(IF g.size = 4 THEN SignedBE(SubSeq(s, 1, 4)) ELSE 0))
           ints == FlattenSeq([k \in 1..g.ui |-> Group(g.size + 4 * (k - 1))])
           fracs == FlattenSeq([k \in 1..g.ui |-> Group(g.size + 4 * (g.ui + k - 1))])
           last == g.size + 8 * g.ui
           tail == IF g.fsize = 0 THEN << >>
                   ELSE Fmt0(Mask(BE(SubSeq(s, last + 1, last + g.fsize))), g.cf) IN
       Column(w, Texts((IF neg THEN <<"-">> ELSE << >>) \o lead \o ints \o <<".">>
                       \o fracs \o tail), TRUE)

DecodeBit ==
    /\ At("BIT")
    /\ Column(Meta.bytes, ParseInt10(BitString(Meta, Take(Meta.bytes))), TRUE)

DecodeDate ==
    /\ At("DATE")
    /\ LET t == LE(Take(3)) IN
       Column(3, IF t = 0 THEN Null
                 ELSE Texts(<<Digits((t \div 512) % 2^15), PadDate((t \div 32) % 16),
                              PadDate(t % 32)>>), TRUE)

DecodeTime ==
    /\ At("TIME")
    /\ LET t == LE(Take(3)) IN
       Column(3, IF t = 0 THEN Null
                 ELSE Texts(<<Digits(t \div 10000), PadTime((t % 10000) \div 100),
                              PadTime(t % 100)>>), TRUE)

\* DATETIME: an int64 holding YYYYMMDDHHMMSS, split by / and % and passed
\* to time.Date.
DecodeDatetime ==
    /\ At("DATETIME")
    /\ LET dm == DivModLE(Take(8), 1000000)
           d == dm[1]
           hms == dm[2] IN
       Column(8, GoDate(d \div 10000, (d % 10000) \div 100, d % 100,
                        hms \div 10000, (hms % 10000) \div 100, hms % 100), TRUE)

\* TIME2 and DATETIME2 read 3 and 5 bytes whatever the fractional precision.
\* read_datetime2's 4-byte binary.Read consumes a short tail and yields 0.
DecodeTime2 ==
    /\ At("TIME2")
    /\ LET s == Take(3) IN
       Column(3, Texts(<<Digits(ReadBinarySlice(s, 2, 10)),
                         PadTime(ReadBinarySlice(s, 12, 6)),
                         PadTime(ReadBinarySlice(s, 18, 6))>>), TRUE)

DecodeDatetime2 ==
    /\ At("DATETIME2")
    /\ LET s == IF Len(buf) >= 4 THEN Take(5) ELSE Take(0) \o <<0, 0, 0, 0, 0>>
           ym == ReadBinarySlice(s, 1, 17) IN
       Column(5, GoDate(ym \div 13, ym % 13, ReadBinarySlice(s, 18, 5),
                        ReadBinarySlice(s, 23, 5), ReadBinarySlice(s, 28, 6),
                        ReadBinarySlice(s, 34, 6)), TRUE)

Next ==
    \/ ReadRowsHeader \/ ReadNullBitmap \/ RowsDone \/ EndRow \/ DecodeNull \/ ReadPastImage
    \/ DecodeTiny \/ DecodeInt24 \/ DecodeYear \/ DecodeVarchar \/ DecodeEnum
    \/ DecodeBit \/ DecodeDate \/ DecodeTime \/ DecodeTime2 \/ DecodeDatetime2
    \/ DecodeInteger \/ DecodeString \/ DecodeSet \/ DecodeNewdecimal
    \/ DecodeDatetime

\* Decoding is one sequential call: it ends (done, short or panic).
Spec == Init /\ [][Next]_vars
-----------------------------------------------------------------------------
(* Properties.                                                            *)

CellOK(t, c, x) ==
    \/ x = Null
    \/ t = "TINY" /\ c.isBool
    \/ t = "TINY" /\ x \in (IF c.unsigned THEN 0..255 ELSE -128..127)
    \/ t = "SHORT" /\ x \in (IF c.unsigned THEN 0..65535 ELSE -32768..32767)
    \/ t = "INT24" /\ x \in (IF c.unsigned THEN 0..(2^24 - 1) ELSE -(2^23)..(2^23 - 1))
    \/ t = "BIT" /\ x \in 0..(2^c.bits - 1)
    \/ t \notin {"TINY", "SHORT", "INT24", "BIT"}

\* Each decoded value lies in the range of its column's Go type.
TypeOK ==
    /\ status \in {"header", "row", "cols", "done", "short", "panic"} /\ cut \in Cuts
    /\ tableId \in Nat
    /\ buf \in Seq(0..255) /\ col \in 1..(N + 1) /\ nulls \subseteq Cols
    /\ DOMAIN cur \subseteq Cols
    /\ \A c \in DOMAIN cur : CellOK(ColumnMetaData[c].column_type, Table[c], cur[c])

ExpectedRows ==
    [r \in 1..NRows |-> [c \in PresentOf(r) |-> Expected(Table[c], image[r][c])]]

\* The event's table id, and one row per row image written, with the
\* columns the image carries, each value the one MySQL stored in the
\* layout of spec.md 4.4.
Decoded == tableId = Event.tableId /\ rows = ExpectedRows

\* spec.md 4.4 and 8: parseRowsEvent, given a whole event (nothing stripped
\* but a real checksum), ends without
\* error or panic and returns exactly the rows that were written: every
\* column written present, integers of their full width, YEAR 0 as
\* NULL, DATETIME2's zero date as year 0 month 0, dates and times as
\* YYYY-MM-DD and HH:MM:SS.
RowValues ==
    cut = 0 /\ status \in {"done", "short", "panic"} => status = "done" /\ Decoded

====
