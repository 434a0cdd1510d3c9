------------------------------- MODULE GetData -------------------------------
(***************************************************************************)
(* SQLGetData: one column of the current row, read in as many parts as the  *)
(* application has buffers for (results.cc, utility.cc); and the output     *)
(* parameters of a procedure that are read the same way, as streams         *)
(* (execute.cc, desc.cc, my_prepared_stmt.cc).                              *)
(*                                                                         *)
(* STMT::getdata is the only memory between two calls: which column, and    *)
(* how far. Several conversions share it, each with a position of its own.  *)
(* What an application receives is modelled by the units of the converted   *)
(* value (bytes, digits, wide characters), numbered from 1.                 *)
(*                                                                         *)
(* (Its state names and its specification's, ReadInit, ReadNext and so on,  *)
(* differ from those of Rowset: ResultProofs extends both.)                 *)
(***************************************************************************)
EXTENDS Integers, FiniteSets, Sequences

CONSTANTS
    Kinds,       \* the kind of each column: "text", "blob", "bit"
    Values,      \* the values a column of each kind may hold
    BufLens,     \* buffer lengths, in units of the target
    BoundLen,    \* the length of the buffer a column is bound to
    MaxLengths,  \* values of SQL_ATTR_MAX_LENGTH, 0 for no limit
    ParamTypes,  \* parameters of a procedure: "in", "out", "stream"
    Streamed     \* the values an output parameter may hold

ASSUME KindsAssumption == Kinds \in Seq({"text", "blob", "bit"})
ASSUME ParamTypesAssumption == ParamTypes \in Seq({"in", "out", "stream"})
ASSUME LensAssumption ==
    BufLens \subseteq Nat /\ BoundLen \in Nat /\ MaxLengths \subseteq Nat

(* A value is a sequence of characters: "n" takes one byte and one wide     *)
(* character, "p" four bytes and a surrogate pair.  A BIT is not empty.     *)
Null  == <<"null">>
Texts == Seq({"n", "p"})
ASSUME ValuesAssumption ==
    /\ \A kind \in {"text", "blob", "bit"} :
          Values[kind] \subseteq Texts \cup {Null}
    /\ <<>> \notin Values["bit"]
    /\ Streamed \subseteq Texts

VARIABLES
    options,   \* SQL_ATTR_MAX_LENGTH, and the last column bound to a buffer
    row,       \* STMT::current_values: the values, <<>> when there is none
    getdata,   \* STMT::getdata
    pending,   \* STMT::out_params_state is OPS_STREAMS_PENDING
    outs,      \* the values of the output parameters, as result columns
    current_param,  \* STMT::current_param
    conv,      \* the conversion this column is read with
    got,       \* the units received of this column, in order
    last,      \* what the last call answered
    slips      \* what has gone wrong in this reading

readVars == <<options, row, getdata, pending, outs, current_param, conv, got,
          last, slips>>

streams == <<pending, outs, current_param>>

None     == -1                   \* ~0L, and NULL for a pointer
Nowhere  == -2                   \* the column a NULL pointer points into
Bookmark == -1                   \* column 0 of the application
Columns  == 0..(Len(Kinds) - 1)  \* counted from 0, like getdata.column
Stray    == 0                    \* a unit that is no part of the value
Min2(a, b) == IF a < b THEN a ELSE b
Run(from, n) == [i \in 1..n |-> from + i - 1]

(* The bytes and the wide characters of the first i characters.             *)
Pairs(v, i) == Cardinality({j \in 1..i : v[j] = "p"})
Wide(v, i)  == i + Pairs(v, i)
Bytes(v, i) == i + 3 * Pairs(v, i)
Size(v)     == Bytes(v, Len(v))

(* "Apply max length to source data, if one was specified."                 *)
Limited(n) == IF options.max = 0 THEN n ELSE Min2(n, options.max)
HexSize(v) == IF options.max = 0 THEN Size(v)
              ELSE Min2(Size(v), (options.max + 1) \div 2)
(* (Variant: no place for the terminator.)                                 *)
HexRoomShort(cb) == IF options.max = 0 THEN cb ELSE Min2(cb, options.max)
HexRoom(cb) == IF options.max = 0 THEN cb ELSE Min2(cb, options.max + 1)

(* The characters that lie wholly within the limit.                         *)
Whole(v) == CHOOSE i \in 0..Len(v) :
              /\ Bytes(v, i) <= Limited(Size(v))
              /\ \A j \in (i + 1)..Len(v) : Bytes(v, j) > Limited(Size(v))
CutsChar(v) == Bytes(v, Whole(v)) < Limited(Size(v))

(* What the whole of a value comes to.                                      *)
Total(c, v) ==
    CASE c = "wide"           -> Wide(v, Whole(v))
      [] c \in {"hex", "whex"} -> 2 * HexSize(v)
      [] c = "stream"         -> Size(v)
      [] OTHER                -> Limited(Size(v))

Start == [column |-> Bookmark, source |-> None, of |-> Nowhere,
          dst_bytes |-> None, dst_offset |-> None, src_offset |-> None,
          latest |-> 0]
ResetGetdata(g) == Start

(* One call: the position it leaves, the units it delivers, the length it   *)
(* reports and the code it returns.                                         *)
Chunk(g, units, avail, ret) ==
    [getdata |-> g, units |-> units, avail |-> avail, ret |-> ret]
EndOfData(g) == Chunk(g, <<>>, None, "nodata")
From(g) == IF g.source = None THEN 0 ELSE g.source

(* "If we've already retrieved everything", and whether this call does not.  *)
(* (Variant: off by one.)                                                   *)
Exhausted(g, rest) == g.source # None /\ rest = 0
TruncatedAtEnd(rest, cb) == rest >= cb
Truncated(rest, cb) == rest > cb

(* SQL_C_BINARY. As many bytes as the buffer takes.                         *)
CopyBinary(g, v, cb) ==
    LET rest == Limited(Size(v)) - From(g)
        n    == Min2(cb, rest)
    IN IF Exhausted(g, rest)
       THEN EndOfData(g)
       ELSE Chunk([g EXCEPT !.source = From(g) + n], Run(From(g) + 1, n), rest,
                  IF Truncated(rest, cb) THEN "info" ELSE "success")

(* SQL_C_CHAR. One byte of the buffer is for the terminator; a call that     *)
(* only asks for the length leaves no position behind.                      *)
CopyAnsi(g, v, cb) ==
    IF cb = 0 /\ g.source = None
    THEN Chunk(g, <<>>, Size(v), "info")
    ELSE CopyBinary(g, v, IF cb = 0 THEN 0 ELSE cb - 1)

(* SQL_C_WCHAR. The first call counts the whole value (dst_bytes). Of a      *)
(* surrogate pair for which only one place is left, the second half waits   *)
(* in `latest`; `source` then steps over the pair only after the first call.*)
(* (Variant: never.)                                                       *)
StepsOverNever(first) == FALSE
StepsOver(first) == ~first
CopyWide(g, v, cb) ==
    LET first == g.dst_bytes = None
        left  == IF g.latest = 0 THEN 0 ELSE 1
        room  == IF cb > left THEN cb - 1 - left ELSE 0
        rest  == Wide(v, Whole(v)) - Wide(v, From(g))
        n     == Min2(room, rest)
        fits  == CHOOSE i \in From(g)..Whole(v) :
                   /\ Wide(v, i) - Wide(v, From(g)) \in {n - 1, n}
                   /\ \A j \in (i + 1)..Whole(v) :
                        Wide(v, j) - Wide(v, From(g)) > n
        split == Wide(v, fits) - Wide(v, From(g)) < n
        over  == split /\ StepsOver(first)
        used  == left + (IF over THEN n + 1 ELSE rest)
        dst   == IF cb > 0 /\ first THEN used ELSE g.dst_bytes
        at    == IF cb > 0 /\ first THEN 0 ELSE g.dst_offset
        next  == at + Min2(IF cb = 0 THEN 0 ELSE cb - 1, used)
        moved == [g EXCEPT !.source = IF over THEN fits + 1 ELSE fits,
                           !.latest = IF split THEN Wide(v, From(g)) + n + 1
                                      ELSE 0]
    IN IF ~first /\ g.dst_offset >= g.dst_bytes
       THEN EndOfData(g)
       ELSE IF left = 1 /\ cb <= 1       \* memcpy() to no buffer
       THEN Chunk(g, <<>>, None, "crash")
       ELSE IF CutsChar(v)               \* an incomplete character
       THEN Chunk(moved, <<>>, None, "error")
       ELSE Chunk([moved EXCEPT !.dst_bytes = dst, !.dst_offset = next],
                  (IF left = 1 THEN <<g.latest>> ELSE <<>>)
                    \o Run(Wide(v, From(g)) + 1, n),
                  IF cb = 0 THEN used ELSE dst - at,
                  IF cb = 0 \/ dst > next THEN "info" ELSE "success")

(* BLOB to SQL_C_CHAR and SQL_C_WCHAR: two digits for each byte. `width` is  *)
(* sizeof(T), the size of a digit in the application's buffer.              *)
AllReceived(offset, rest, width) == offset * width >= rest
CopyBinhex(g, v, cb, width) ==
    LET offset == IF g.src_offset = None THEN 0 ELSE g.src_offset
        rest   == HexSize(v) - offset
        n      == Min2(rest, IF HexRoom(cb) = 0 THEN 0
                             ELSE (HexRoom(cb) - 1) \div 2)
    IN IF g.src_offset # None /\ g.src_offset >= HexSize(v)
       THEN EndOfData(g)
       ELSE Chunk([g EXCEPT !.src_offset = offset + n],
                  Run(2 * offset + 1, 2 * n), 2 * rest,
                  IF AllReceived(offset + n, rest, width) THEN "success"
                  ELSE "info")

(* BIT to SQL_C_CHAR and SQL_C_WCHAR: a digit, if it fits with its end.      *)
CopyBit(g, v, cb) ==
    IF Exhausted(g, Limited(Size(v)) - From(g))
    THEN EndOfData(g)
    ELSE Chunk([g EXCEPT !.source = From(g) + 1],
               IF cb < 2 THEN <<>> ELSE <<From(g) + 1>>, 1, "success")

(* A streamed output parameter: mysql_stmt_fetch_column() from src_offset.   *)
FetchChunk(g, v, cb) ==
    LET rest == Size(v) - g.src_offset
        n    == Min2(cb, rest)
    IN IF rest = 0
       THEN Chunk(g, <<>>, Size(v), "nodata")
       ELSE Chunk([g EXCEPT !.src_offset = @ + n], Run(g.src_offset + 1, n),
                  rest, IF rest > cb THEN "info" ELSE "success")

Convert(c, g, v, cb) ==
    IF v = Null
    THEN Chunk(g, <<>>, None, "success")
    ELSE CASE c = "binary" -> CopyBinary(g, v, cb)
           [] c = "ansi"   -> CopyAnsi(g, v, cb)
           [] c = "wide"   -> CopyWide(g, v, cb)
           [] c = "hex"    -> CopyBinhex(g, v, cb, 1)
           [] c = "whex"   -> CopyBinhex(g, v, cb, 2)
           [] c = "bit"    -> CopyBit(g, v, cb)
           [] c = "stream" -> FetchChunk(g, v, cb)

Conversions(kind) ==
    CASE kind = "text" -> {"binary", "ansi", "wide"}
      [] kind = "blob" -> {"binary", "hex", "whex"}
      [] kind = "bit"  -> {"binary", "bit"}

(* The value `source` points into, once it points somewhere.                *)
Owned(g, c) ==
    [g EXCEPT !.of = IF g.source = None THEN Nowhere
                     ELSE IF @ = Nowhere THEN c ELSE @]

-----------------------------------------------------------------------------

Rows == {r \in [1..Len(Kinds) -> UNION {Values[k] : k \in DOMAIN Values}] :
           \A i \in 1..Len(Kinds) : r[i] \in Values[Kinds[i]]}

OutParams == {p \in 0..(Len(ParamTypes) - 1) : ParamTypes[p + 1] # "in"}
StreamParams == {p \in OutParams : ParamTypes[p + 1] = "stream"}

Unread == [ret |-> "none", avail |-> None, room |-> 0, had |-> 0]

ReadInit ==
    /\ options \in [max : MaxLengths, bound : Columns \cup {None}]
    /\ row = <<>>
    /\ getdata = Start
    /\ pending = FALSE
    /\ outs = <<>>
    /\ current_param = None
    /\ conv = "none"
    /\ got = <<>>
    /\ last = Unread
    /\ slips = {}

Running == last.ret # "crash"

(* The application has what it had of the row, and begins on another one.    *)
Forget ==
    /\ conv' = "none"
    /\ got' = <<>>
    /\ last' = Unread
    /\ slips' = {}

(* SQLFetch: a new row. Each bound column is delivered by the same functions *)
(* from a fresh position; the last one's stays behind, with no column.      *)
BoundPositions(r) ==
    IF options.bound = None
    THEN {ResetGetdata(getdata)}
    ELSE {Owned(Convert(c, ResetGetdata(getdata), r[options.bound + 1],
                        BoundLen).getdata, options.bound) :
            c \in Conversions(Kinds[options.bound + 1])}

Fetch ==
    /\ Running /\ ~pending
    /\ row' \in Rows
    /\ getdata' \in BoundPositions(row')
    /\ Forget
    /\ UNCHANGED <<options, streams>>

(* SQLSetPos(SQL_POSITION): another row of the rowset becomes current.       *)
SetPos ==
    /\ Running /\ ~pending /\ row # <<>>
    /\ row' \in Rows
    /\ getdata' = ResetGetdata(getdata)
    /\ Forget
    /\ UNCHANGED <<options, streams>>

(* The position a call starts from: "New column. Reset old offset".          *)
PositionFor(c) ==
    IF c # getdata.column THEN [ResetGetdata(getdata) EXCEPT !.column = c]
    ELSE getdata

(* What has gone wrong in this call: the first part of a text ended within a *)
(* surrogate pair, the limit cuts a character, a bit had no room.            *)
SlipsOf(cv, g, chunk, cb) ==
    {s \in {"split", "cut", "short"} :
       \/ s = "split" /\ cv = "wide" /\ g.dst_bytes = None
            /\ chunk.getdata.latest # 0
       \/ s = "cut" /\ chunk.ret = "error"
       \/ s = "short" /\ cv = "bit" /\ cb < 2}

(* One call that delivers a part, for column c read with conversion cv.      *)
Deliver(c, cv, v, cb) ==
    LET g     == PositionFor(c)
        chunk == Convert(cv, g, v, cb)
        begun == IF c = getdata.column THEN got ELSE <<>>
        known == IF c = getdata.column THEN slips ELSE {}
    IN /\ getdata' = Owned(chunk.getdata, c)
       /\ conv' = cv
       /\ got' = begun \o chunk.units
       /\ last' = [ret |-> chunk.ret, avail |-> chunk.avail, room |-> cb,
                   had |-> Len(begun)]
       /\ slips' = known \cup SlipsOf(cv, g, chunk, cb)
       /\ UNCHANGED <<options, row, streams>>

(* SQLGetData on a column of the row. The application stays with the target  *)
(* type it began a column with.                                             *)
GetColumn(c, cv, cb) ==
    /\ Running /\ ~pending /\ row # <<>>
    /\ cv \in Conversions(Kinds[c + 1])
    /\ c = getdata.column => cv = conv
    /\ Deliver(c, cv, row[c + 1], cb)

(* SQLGetData on column 0, the bookmark (SQL_C_VARBOOKMARK): the number of   *)
(* the row, here one digit, into a buffer of the eight bytes it requires.   *)
(* The column "no column" is told by is this one, so a position a bound     *)
(* column left is taken for its own; and its value is a temporary of the    *)
(* call, so a second call may find its own position elsewhere.              *)
GetBookmark ==
    /\ Running /\ ~pending /\ row # <<>>
    /\ PositionFor(Bookmark).of \in {Nowhere, Bookmark}
    /\ Deliver(Bookmark, "binary", <<"n">>, 8)

GetBookmarkAstray ==
    /\ Running /\ ~pending /\ row # <<>>
    /\ PositionFor(Bookmark).of # Nowhere
    /\ conv' = "binary"
    /\ \E ret \in {"success", "info", "nodata"} :
         /\ last' = [ret |-> ret, avail |-> None, room |-> 8, had |-> Len(got)]
         /\ got' = IF ret = "nodata" THEN got ELSE <<Stray>>
    /\ slips' = slips \cup {"stray"}
    /\ UNCHANGED <<options, row, getdata, streams>>

(* A procedure is called: its output parameters arrive as one row, and the   *)
(* statement waits for the streams among them to be read. The position is   *)
(* what delivering the ordinary ones left.                                  *)
Call ==
    /\ Running /\ ~pending
    /\ StreamParams # {}
    /\ outs' \in [1..Cardinality(OutParams) -> Streamed]
    /\ pending' = TRUE
    /\ current_param' = None
    /\ getdata' \in {ResetGetdata(getdata)} \cup
          {Owned(CopyAnsi(ResetGetdata(getdata), outs'[i], BoundLen).getdata,
                 i - 1) : i \in {j \in 1..Cardinality(OutParams) :
                                   OutParams # StreamParams}}
    /\ row' = <<>>
    /\ Forget
    /\ UNCHANGED options

(* The result column of parameter p, counted on from the column of the       *)
(* parameter before: the output parameters between them, and itself.        *)
(* (Variant: only the streams are counted.)                                *)
ColumnAmongStreams(p) ==
    getdata.column
      + Cardinality({i \in StreamParams : current_param < i /\ i <= p})
ColumnOf(p) ==
    getdata.column
      + Cardinality({i \in OutParams : current_param < i /\ i <= p})

(* SQLParamData between the streams: the next one, or the end of them.       *)
NextStream ==
    /\ Running /\ pending
    /\ \E p \in StreamParams :
         /\ current_param < p
         /\ \A q \in StreamParams : current_param < q => p <= q
         /\ current_param' = p
         /\ getdata' = [ResetGetdata(getdata)
                          EXCEPT !.column = ColumnOf(p), !.src_offset = 0]
    /\ Forget
    /\ UNCHANGED <<options, row, pending, outs>>

NoMoreStreams ==
    /\ Running /\ pending
    /\ \A q \in StreamParams : q <= current_param
    /\ pending' = FALSE
    /\ outs' = <<>>
    /\ UNCHANGED <<options, row, getdata, current_param, conv, got, last,
                   slips>>

(* SQLGetData on the stream whose turn it is; any other parameter, and any   *)
(* target but SQL_C_BINARY, is refused and nothing changes. The column is   *)
(* the one SQLParamData left in getdata.                                    *)
GetStream(cb) ==
    /\ Running /\ pending /\ current_param # None
    /\ Deliver(getdata.column, "stream", outs[getdata.column + 1], cb)

(* The statement is closed before its streams are read.                      *)
Close ==
    /\ Running
    /\ row # <<>> \/ pending
    /\ row' = <<>> /\ outs' = <<>> /\ pending' = FALSE
    /\ Forget
    /\ UNCHANGED <<options, getdata, current_param>>

ReadNext ==
    \/ Fetch \/ SetPos \/ Close
    \/ \E c \in Columns, cb \in BufLens :
         \E cv \in Conversions(Kinds[c + 1]) : GetColumn(c, cv, cb)
    \/ GetBookmark \/ GetBookmarkAstray
    \/ Call \/ NextStream \/ NoMoreStreams
    \/ \E cb \in BufLens : GetStream(cb)

ReadSpec == ReadInit /\ [][ReadNext]_readVars

-----------------------------------------------------------------------------

LastColumn == IF Len(Kinds) > Cardinality(OutParams) THEN Len(Kinds) - 1
              ELSE Cardinality(OutParams) - 1
Positions == [column : -1..LastColumn,
              source : Int, of : Int, dst_bytes : Int, dst_offset : Int,
              src_offset : Int, latest : Nat]

(* The type invariant.                                                      *)
ReadTypeOK ==
    /\ options \in [max : MaxLengths, bound : Columns \cup {None}]
    /\ row \in Rows \cup {<<>>}
    /\ getdata \in Positions
    /\ pending \in BOOLEAN
    /\ pending => outs \in [1..Cardinality(OutParams) -> Streamed]
    /\ current_param \in StreamParams \cup {None}
    /\ conv \in (UNION {Conversions(Kinds[i]) : i \in 1..Len(Kinds)})
                \cup {"none", "binary", "stream"}
    /\ got \in Seq(Nat)
    /\ last \in [ret : {"none", "success", "info", "nodata", "error", "crash"},
                 avail : Nat \cup {None}, room : Nat, had : Nat]
    /\ slips \subseteq {"split", "cut", "short", "stray"}

(* The value being read, and what the whole of it comes to.                  *)
Reading == conv # "none"
Value ==
    IF conv = "stream" THEN outs[getdata.column + 1]
    ELSE IF getdata.column = Bookmark THEN <<"n">>
    ELSE row[getdata.column + 1]
ReadingValue ==
    Reading /\ "stray" \notin slips /\ (conv = "stream" => pending)
      /\ Value # Null
AllUnits == Total(conv, Value)

(* The parts of a value, put together, are the value from its beginning: no  *)
(* byte, digit or half of a pair is lost, repeated or taken from another    *)
(* column, whatever else was read in between. (Not after the first part of a *)
(* text ended within a surrogate pair: copy_wchar_result, utility.cc:610.)  *)
ChunksJoin ==
    ReadingValue /\ slips \cap {"split", "short"} = {} =>
        Len(got) <= AllUnits /\ got = Run(1, Len(got))

(* SQL_NO_DATA is answered only when everything has been delivered, by any   *)
(* of the conversions.                                                      *)
NoDataMeansAll ==
    ReadingValue /\ last.ret = "nodata" /\ slips \cap {"split", "short"} = {}
        => Len(got) = AllUnits

(* The length a call reports is what was left of the value before it, so an  *)
(* application that adds them up or allocates by them is right. (A bit is    *)
(* always one; the last answer for a stream is the length of all of it.)    *)
IndicatorTruthful ==
    ReadingValue /\ last.avail # None /\ conv # "bit"
      /\ slips \cap {"split"} = {}
      /\ (conv = "ansi" => options.max = 0)
        => last.avail = IF conv = "stream" /\ last.ret = "nodata" THEN AllUnits
                        ELSE AllUnits - last.had

(* The position of a column that is being read lies in the value of that     *)
(* column: none is carried over from the column read or bound before.       *)
SourceInValue ==
    getdata.column # Bookmark /\ getdata.source # None =>
        getdata.of = getdata.column

(* While streams are read, the result column in getdata is the one that      *)
(* belongs to the parameter whose turn it is: two counters that move apart  *)
(* at every parameter that is not a stream (desc_find_outstream_rec).       *)
StreamColumnRight ==
    pending /\ current_param # None =>
        getdata.column + 1 =
            Cardinality({i \in OutParams : i <= current_param})

(* An application that reads in a loop gets on: a call that says there is    *)
(* more and had room for a unit has delivered one. (With a limit of one byte *)
(* no digit of a BLOB ever fits: utility.cc:709.)                           *)
RoomFor(cv, cb) ==
    \/ cv \in {"binary", "stream", "bit"} /\ cb >= 1
    \/ cv \in {"ansi", "wide"} /\ cb >= 2
    \/ cv \in {"hex", "whex"} /\ cb >= 3 /\ options.max # 1
LoopsGetOn ==
    last.ret = "info" /\ RoomFor(conv, last.room) /\ "stray" \notin slips =>
        Len(got) > last.had

(* An application that reads in parts until SQL_NO_DATA has the value, and   *)
(* has it once.                                                             *)
ReadsWhole == ChunksJoin /\ NoDataMeansAll

(* The answers by which it decides whether to call again, and with what      *)
(* buffer.                                                                  *)
CallsTruthful == IndicatorTruthful /\ LoopsGetOn

(* The position the driver keeps between two calls is one in the value that  *)
(* the next call is for: a column's, or a streamed parameter's.             *)
PositionSound == ReadTypeOK /\ SourceInValue /\ StreamColumnRight

(* What the readings that keep the promise implement. The digits of a BLOB,  *)
(* the bits and the NULLs do not; nor does a bookmark.                      *)
Promised ==
    /\ Reading /\ last.ret \notin {"none", "crash"} /\ slips = {}
    /\ getdata.column # Bookmark
    /\ conv \in {"binary", "ansi", "wide", "stream"}
    /\ conv = "stream" => pending
    /\ Value # Null
T == INSTANCE Transfer WITH
        Nothing <- Bookmark,
        what    <- IF Promised THEN getdata.column ELSE Bookmark,
        total   <- IF Promised THEN AllUnits ELSE 0,
        sent    <- IF Promised THEN Len(got) ELSE 0,
        answer  <- IF Promised THEN last.ret ELSE "none"

(* A reading by bytes, characters or wide characters, and a stream, is the   *)
(* abstract transfer: SQL_SUCCESS with the last part and not before,        *)
(* SQL_NO_DATA after it, no part twice.                                     *)
ImplementsTransfer == T!Spec

(* "All data is received when offset is not before the end of the source":   *)
(* SQL_SUCCESS for the digits of a BLOB says that all have been delivered.  *)
SuccessMeansAll ==
    ReadingValue /\ last.ret = "success" /\ conv \in {"hex", "whex"} =>
        Len(got) = AllUnits

(* The position in getdata is never one of another column's, the bookmark    *)
(* being a column too ("New column. Reset old offset").                     *)
SourceInOwnValue ==
    Reading /\ getdata.source # None => getdata.of = getdata.column
=============================================================================
