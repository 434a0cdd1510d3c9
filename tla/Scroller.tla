------------------------------ MODULE Scroller ------------------------------
(***************************************************************************)
(* The prefetching scroller (my_stmt.cc, execute.cc, results.cc): with      *)
(* PREFETCH=n the driver reads the result of a SELECT in windows.  It       *)
(* writes a LIMIT clause of its own over the application's and executes the *)
(* query again, with another offset, whenever the rows of a window are used *)
(* up, in the middle of a rowset if need be.                                *)
(*                                                                         *)
(* A row is its number in the table; the windows, the application's LIMIT   *)
(* and SQL_ATTR_MAX_ROWS are numbers of rows.  A fetch takes several steps, *)
(* because each query for a window meets the table as it then is.           *)
(***************************************************************************)
EXTENDS Integers, FiniteSets, Sequences

CONSTANTS
    Tables,      \* numbers of rows the table can have
    Limits,      \* LIMIT clauses of the application's query
    MaxRows,     \* values of SQL_ATTR_MAX_ROWS, 0 for no limit
    Prefetches,  \* values of the option PREFETCH
    ArraySizes,  \* rowset sizes
    Positions,   \* row numbers of SQL_FETCH_ABSOLUTE
    Mishaps,     \* what happens besides fetching forward
    MaxMishaps,  \* bound: kinds of these in one execution
    MaxOffset,   \* bound: offset up to which the application goes on
    MaxFetched   \* bound: rows it reads before it goes back once more

LimitForms == {"none", "count", "comma", "offset"}

ASSUME SizesAssumption ==
    /\ Tables \subseteq Nat /\ MaxRows \subseteq Nat
    /\ Prefetches \subseteq Nat \ {0} /\ ArraySizes \subseteq Nat \ {0}
    /\ Positions \subseteq Nat \ {0}
    /\ MaxMishaps \in Nat /\ MaxOffset \in Nat /\ MaxFetched \in Nat
ASSUME LimitsAssumption ==
    Limits \subseteq [form : LimitForms, first : Nat, second : Nat]
ASSUME MishapsAssumption ==
    Mishaps \subseteq {"refused", "lost", "changes", "scrolled"}

VARIABLES
    table,       \* how many rows the table has
    query,       \* LIMIT and SQL_ATTR_MAX_ROWS of the executed query
    scroller,    \* STMT::scroller; offset and count as written in the text
    window,      \* the rows in the client library: where they begin, how many
    data_cursor, \* MYSQL_RES::data_cursor: rows of the window passed
    end_of_set,  \* STMT::end_of_set, a place in the window it was taken in
    array_size,  \* SQL_DESC_ARRAY_SIZE of the ARD
    current_row, \* STMT::current_row
    rows_found_in_set,  \* STMT::rows_found_in_set
    call,        \* what the statement is doing
    res,         \* what the last fetch returned
    rowset,      \* the rows it put into the application's buffers
    fetched,     \* how many rows this execution has delivered
    positioned,  \* the row of the rowset SQLSetPos went to, and what it read
    mishaps      \* the kinds of Mishaps met in this execution

vars == <<table, query, scroller, window, data_cursor, end_of_set, array_size,
          current_row, rows_found_in_set, call, res, rowset, fetched,
          positioned, mishaps>>

Freed   == -1                    \* a place in a window no longer there
Nowhere == [of |-> 0, row |-> 0] \* SQLSetPos has not been called

Min2(a, b) == IF a < b THEN a ELSE b

-----------------------------------------------------------------------------
(***************************************************************************)
(* The LIMIT clause                                                        *)
(***************************************************************************)

(* get_limit_numbers: of two numbers the first is taken for the offset,     *)
(* whatever stands between them; no LIMIT reads as no offset and no rows.   *)
OffsetOf(l)   == IF l.form \in {"comma", "offset"} THEN l.first ELSE 0
RowCountOf(l) == CASE l.form = "none"  -> 0
                   [] l.form = "count" -> l.first
                   [] OTHER            -> l.second

(* What the clause means to the server.                                    *)
MeantOffset(l) == CASE l.form = "comma"  -> l.first
                    [] l.form = "offset" -> l.second
                    [] OTHER             -> 0
MeantCount(l)  == IF l.form = "comma" THEN l.second ELSE l.first

(* How many rows the result has: as many as the table has behind the        *)
(* offset, and no more than LIMIT and SQL_ATTR_MAX_ROWS allow.              *)
Allowed(q, n) ==
    LET limited == IF q.limit.form = "none" THEN n
                   ELSE Min2(n, MeantCount(q.limit))
    IN  IF q.max = 0 THEN limited ELSE Min2(limited, q.max)
Behind(offset) == IF offset < table THEN table - offset ELSE 0
ResultRows == Allowed(query, Behind(MeantOffset(query.limit)))

(* The rows a window of the query finds in the table now.                   *)
Answer(sc) == [from |-> sc.offset, len |-> Min2(sc.count, Behind(sc.offset))]

-----------------------------------------------------------------------------
(***************************************************************************)
(* The scroller                                                            *)
(***************************************************************************)

(* The window is a whole number of rowsets, if SQL_ATTR_MAX_ROWS permits.   *)
WholeRowsets(selected, app_fetchs) ==
    IF app_fetchs > 1 /\ selected % app_fetchs > 0
    THEN app_fetchs * ((selected \div app_fetchs) + 1)
    ELSE IF app_fetchs > selected THEN app_fetchs ELSE selected
calc_prefetch_number(selected, app_fetchs, max_rows) ==
    LET result == WholeRowsets(selected, app_fetchs)
    IN  IF max_rows > 0 THEN Min2(max_rows, result) ELSE result

(* The smaller of LIMIT and SQL_ATTR_MAX_ROWS.                              *)
TotalRows(l, max_rows) ==
    CASE l.form = "none" -> max_rows
      [] max_rows = 0    -> RowCountOf(l)
      [] OTHER           -> Min2(RowCountOf(l), max_rows)

scroller_create(l, max_rows, rows) ==
    LET total == TotalRows(l, max_rows)
        count == IF l.form = "none" THEN rows ELSE Min2(rows, total)
    IN  [row_count |-> count, total_rows |-> total,
         start_offset |-> OffsetOf(l), next_offset |-> OffsetOf(l),
         offset |-> OffsetOf(l), count |-> count]

(* Writes the offset of the next window and goes on behind that window.     *)
scroller_move(sc) ==
    [sc EXCEPT !.offset = sc.next_offset,
               !.next_offset = sc.next_offset + sc.row_count]

(* scroller_prefetch: the window that reaches the limit is the last, and    *)
(* has only the rows that are left.  (Variants: the offset it began with is *)
(* forgotten; there is never less than nothing left; the last window is as  *)
(* long as the others.)                                                     *)
AtLimit(sc) ==
    /\ sc.total_rows > 0
    /\ sc.next_offset >= sc.total_rows + sc.start_offset
LeftFromZero(sc) ==
    sc.total_rows - (sc.next_offset - sc.row_count)
Left(sc) ==
    sc.total_rows - (sc.next_offset - sc.row_count - sc.start_offset)
NothingLeft(sc) == AtLimit(sc) /\ Left(sc) <= 0
SameCount(sc) == sc
LastCount(sc) == IF AtLimit(sc) THEN [sc EXCEPT !.count = Left(sc)] ELSE sc

(* num_rows: the end of the present window, counted as the scroller does.   *)
num_rows ==
    window.len + IF scroller.next_offset > 0
                 THEN scroller.next_offset - scroller.row_count ELSE 0

(* while (cur_row > (max_row = scroller_move(this))): the moves it takes;   *)
(* windows without rows never get there.                                    *)
NeverReached(cur) == scroller.row_count = 0 /\ cur > scroller.next_offset
MovesTo(cur) ==
    LET end(k) == scroller.next_offset + k * scroller.row_count
        k == CHOOSE n \in 1..(cur + 1) :
               cur <= end(n) /\ \A m \in 1..(n - 1) : cur > end(m)
    IN  [scroller EXCEPT !.offset = end(k - 1), !.next_offset = end(k)]

-----------------------------------------------------------------------------
(***************************************************************************)
(* Executing                                                               *)
(***************************************************************************)

NoQuery == [limit |-> [form |-> "none", first |-> 0, second |-> 0],
            max |-> 0]

Init ==
    /\ table \in Tables
    /\ query = NoQuery
    /\ scroller = scroller_create(NoQuery.limit, 0, 0)
    /\ window = [from |-> 0, len |-> 0]
    /\ data_cursor = 0
    /\ end_of_set = Freed
    /\ array_size \in ArraySizes
    /\ current_row = 0
    /\ rows_found_in_set = 0
    /\ call = "closed"
    /\ res = "none"
    /\ rowset = <<>>
    /\ fetched = 0
    /\ positioned = Nowhere
    /\ mishaps = {}

Meet(mishap) ==
    /\ mishap \in Mishaps
    /\ mishaps' = mishaps \cup {mishap}
    /\ Cardinality(mishaps') <= MaxMishaps

(* SQLExecute of a SELECT with a forward-only cursor: the first window.     *)
Execute(limit, max_rows, prefetch) ==
    LET rows == calc_prefetch_number(prefetch, array_size, max_rows)
        sc   == scroller_move(scroller_create(limit, max_rows, rows))
    IN  /\ call \in {"closed", "idle"}
        /\ "lost" \notin mishaps
        /\ query' = [limit |-> limit, max |-> max_rows]
        /\ scroller' = sc
        /\ window' = Answer(sc)
        /\ data_cursor' = 0
        /\ end_of_set' = Freed
        /\ current_row' = 0
        /\ rows_found_in_set' = 0
        /\ call' = "idle"
        /\ res' = "none"
        /\ rowset' = <<>>
        /\ fetched' = 0
        /\ positioned' = Nowhere
        /\ mishaps' = {}
        /\ UNCHANGED <<table, array_size>>

(* Between two fetches the application may change the size of the rowset.   *)
SetArraySize(n) ==
    /\ call = "idle"
    /\ array_size' = n
    /\ UNCHANGED <<table, query, scroller, window, data_cursor, end_of_set,
                   current_row, rows_found_in_set, call, res, rowset, fetched,
                   positioned, mishaps>>

(* Other sessions insert into the table, or delete from it.                 *)
Change(n) ==
    /\ call # "closed"
    /\ n # table
    /\ Meet("changes")
    /\ table' = n
    /\ UNCHANGED <<query, scroller, window, data_cursor, end_of_set,
                   array_size, current_row, rows_found_in_set, call, res,
                   rowset, fetched, positioned>>

-----------------------------------------------------------------------------
(***************************************************************************)
(* Fetching                                                                *)
(***************************************************************************)

(* The fetch goes on at row cur of the result: behind the last rowset where *)
(* that ended, else by number.  (Variant: always by number.)                *)
SeekByNumber(cur, old_end, win) == Min2(cur, win.len)
Seek(cur, old_end, win) ==
    IF cur # 0 /\ cur = current_row + rows_found_in_set
    THEN old_end ELSE Min2(cur, win.len)

Begin(cur, old_end, win) ==
    /\ data_cursor' = Seek(cur, old_end, win)
    /\ end_of_set' = old_end
    /\ window' = win
    /\ current_row' = cur
    /\ rowset' = <<>>
    /\ positioned' = Nowhere
    /\ call' = "fetching"
    /\ UNCHANGED <<table, query, array_size, rows_found_in_set, res, fetched>>

(* The call ends before any row is read.                                    *)
Refuse(code) ==
    /\ res' = code
    /\ rowset' = <<>>
    /\ positioned' = Nowhere
    /\ UNCHANGED <<table, query, data_cursor, array_size, current_row,
                   rows_found_in_set, fetched>>

(* A query fails: the server refuses it, or the connection is lost, and     *)
(* then for good.                                                          *)
QueryFails ==
    \/ "lost" \in mishaps /\ UNCHANGED mishaps
    \/ "lost" \notin mishaps /\ (Meet("refused") \/ Meet("lost"))

QueryWorks == "lost" \notin mishaps

(* Whether the row to go on at lies outside of the window.                  *)
Beyond(cur) == cur > num_rows

(* compute_cur_row with the row number already worked out.                  *)
GoTo(cur) ==
    \/ /\ ~Beyond(cur)
       /\ Begin(cur, end_of_set, window)
       /\ UNCHANGED scroller
    \/ /\ Beyond(cur)
       /\ NeverReached(cur)
       /\ call' = "hung"
       /\ UNCHANGED <<scroller, window, end_of_set>>
       /\ Refuse("none")
    \/ /\ Beyond(cur)
       /\ ~NeverReached(cur)
       /\ LET sc == MovesTo(cur) IN
          \/ /\ NothingLeft(sc)
             /\ scroller' = sc
             /\ UNCHANGED <<window, end_of_set, call>>
             /\ Refuse("nodata")
          \/ /\ ~NothingLeft(sc)
             /\ scroller' = LastCount(sc)
             /\ \/ QueryWorks /\ Begin(cur, Freed, Answer(scroller'))
                \/ /\ ~QueryWorks \/ "refused" \in Mishaps
                   /\ UNCHANGED <<window, end_of_set, call>>
                   /\ Refuse("error")

(* SQLFetch, or SQLFetchScroll(SQL_FETCH_NEXT): behind the last rowset.     *)
NextRow == current_row + rows_found_in_set
FetchNext ==
    /\ call = "idle"
    /\ scroller.next_offset <= MaxOffset
    /\ GoTo(NextRow)
    /\ UNCHANGED mishaps

(* SQLFetchScroll(SQL_FETCH_ABSOLUTE), which the option SAFE allows for a   *)
(* forward-only cursor.                                                     *)
FetchAbsolute(irow) ==
    /\ call = "idle"
    /\ scroller.next_offset <= MaxOffset
    /\ fetched <= MaxFetched
    /\ Meet("scrolled")
    /\ GoTo(irow - 1)

(* The loop over the rowset: a row of the window.                           *)
ReadRow ==
    /\ call = "fetching"
    /\ Len(rowset) < array_size
    /\ data_cursor # Freed
    /\ data_cursor < window.len
    /\ rowset' = Append(rowset, window.from + data_cursor + 1)
    /\ fetched' = fetched + 1
    /\ data_cursor' = data_cursor + 1
    /\ UNCHANGED <<table, query, scroller, window, end_of_set, array_size,
                   current_row, rows_found_in_set, call, res, positioned,
                   mishaps>>

(* What the fetch ends with: the saved position, and the return code, which *)
(* knows of a lost connection but of no other failure.  Where the client    *)
(* library is put back to (save_position) is of no consequence: every call  *)
(* seeks first.  (Variant: the position is saved only after full rowsets.)  *)
SaveFull(found, cursor) ==
    end_of_set' = IF found = array_size THEN cursor ELSE end_of_set
SavePosition(found, cursor) == end_of_set' = cursor
Return(found, cursor, disconnected) ==
    /\ rows_found_in_set' = found
    /\ SavePosition(found, cursor)
    /\ res' = IF found = array_size THEN "success"
              ELSE IF disconnected THEN "error"
              ELSE IF found = 0 THEN "nodata" ELSE "success"
    /\ call' = "idle"

(* The rowset is full.                                                     *)
Full ==
    /\ call = "fetching"
    /\ Len(rowset) = array_size
    /\ Return(Len(rowset), data_cursor, "lost" \in mishaps)
    /\ UNCHANGED <<table, query, scroller, window, data_cursor, array_size,
                   current_row, rowset, fetched, positioned, mishaps>>

(* The window is used up and the rowset is not full.                        *)
UsedUp ==
    /\ call = "fetching"
    /\ Len(rowset) < array_size
    /\ data_cursor = window.len
    /\ UNCHANGED <<table, query, array_size, current_row, positioned>>

(* The limit is reached: no further query.                                  *)
EndAtLimit ==
    LET sc == scroller_move(scroller) IN
    /\ UsedUp
    /\ NothingLeft(sc)
    /\ scroller' = sc
    /\ Return(Len(rowset), data_cursor, "lost" \in mishaps)
    /\ UNCHANGED <<window, data_cursor, rowset, fetched, mishaps>>

(* The query for the next window fails; what is in the window stays.        *)
WindowFails ==
    LET sc == scroller_move(scroller) IN
    /\ UsedUp
    /\ ~NothingLeft(sc)
    /\ scroller' = LastCount(sc)
    /\ QueryFails
    /\ Return(Len(rowset), data_cursor, "lost" \in mishaps')
    /\ UNCHANGED <<window, data_cursor, rowset, fetched>>

(* The next window comes.  Unless it is empty its first row is read at once.*)
NextWindow ==
    LET sc == LastCount(scroller_move(scroller)) IN
    /\ UsedUp
    /\ ~NothingLeft(scroller_move(scroller))
    /\ QueryWorks
    /\ scroller' = sc
    /\ window' = Answer(sc)
    /\ IF Answer(sc).len = 0
       THEN /\ data_cursor' = 0
            /\ Return(Len(rowset), 0, FALSE)
            /\ UNCHANGED <<rowset, fetched>>
       ELSE /\ data_cursor' = 1
            /\ end_of_set' = Freed
            /\ rowset' = Append(rowset, sc.offset + 1)
            /\ fetched' = fetched + 1
            /\ UNCHANGED <<rows_found_in_set, call, res>>
    /\ UNCHANGED mishaps

(* SQLSetPos(SQL_POSITION) to a row of the rowset.  The client library is   *)
(* sought by the number of the row in the result, though it only has the    *)
(* window.                                                                  *)
CursorRow(irow) == current_row + irow - 1
SetPos(irow) ==
    /\ call = "idle"
    /\ irow \in 1..rows_found_in_set
    /\ irow <= num_rows
    /\ LET row == CursorRow(irow) IN
       /\ data_cursor' = Min2(row, window.len)
       /\ positioned' = [of |-> irow,
                         row |-> IF row \in 0..(window.len - 1)
                                 THEN window.from + row + 1 ELSE 0]
    /\ UNCHANGED <<table, query, scroller, window, end_of_set, array_size,
                   current_row, rows_found_in_set, call, res, rowset, fetched,
                   mishaps>>

Next ==
    \/ \E l \in Limits, m \in MaxRows, p \in Prefetches : Execute(l, m, p)
    \/ \E n \in ArraySizes : SetArraySize(n)
    \/ \E n \in Tables : Change(n)
    \/ FetchNext
    \/ \E irow \in Positions : FetchAbsolute(irow)
    \/ ReadRow \/ Full \/ EndAtLimit \/ WindowFails \/ NextWindow
    \/ \E irow \in ArraySizes : SetPos(irow)

Spec == Init /\ [][Next]_vars

-----------------------------------------------------------------------------
(***************************************************************************)
(* Properties                                                              *)
(***************************************************************************)

(* The numbers have the types the driver declares for them: in particular   *)
(* the count written for the last window is never negative, and the client  *)
(* library is inside of its window or at its end.                           *)
TypeOK ==
    /\ table \in Nat
    /\ query.limit \in [form : LimitForms, first : Nat, second : Nat]
    /\ query.max \in Nat
    /\ scroller \in [row_count : Nat, total_rows : Nat, start_offset : Nat,
                     next_offset : Nat, offset : Nat, count : Nat]
    /\ window \in [from : Nat, len : Nat]
    /\ data_cursor \in {Freed} \cup 0..window.len
    /\ end_of_set \in {Freed} \cup 0..window.len
    /\ array_size \in Nat \ {0}
    /\ current_row \in Nat
    /\ rows_found_in_set \in Nat
    /\ call \in {"closed", "idle", "fetching", "hung"}
    /\ res \in {"none", "success", "nodata", "error"}
    /\ rowset \in Seq(Nat)
    /\ fetched \in Nat
    /\ positioned \in [of : Nat, row : Nat]
    /\ mishaps \in SUBSET {"refused", "lost", "changes", "scrolled"}

(* The rows a fetch delivers are the next rows of the result, across the    *)
(* borders of windows, whatever the sizes of windows and rowsets: none is   *)
(* skipped and none comes twice.  (A window whose query failed is not asked *)
(* for again, and a table that changes moves under the offsets.)            *)
RowsInOrder ==
    mishaps \subseteq {"lost"} =>
        \A k \in DOMAIN rowset :
            rowset[k] = MeantOffset(query.limit) + fetched - Len(rowset) + k

(* SQL_NO_DATA means that the application has had the whole result; a lost  *)
(* connection is an error and not the end.                                  *)
NoDataMeansEnd ==
    (res = "nodata" /\ mishaps \subseteq {"lost"}) => fetched = ResultRows

(* An application that fetches forward never gets more rows than its LIMIT  *)
(* or SQL_ATTR_MAX_ROWS allow, though neither is in the query any more and  *)
(* even if the table grows meanwhile.                                       *)
WithinLimits ==
    ("scrolled" \notin mishaps /\ call # "closed") =>
        /\ query.limit.form # "none" => fetched <= MeantCount(query.limit)
        /\ query.max # 0 => fetched <= query.max

(* However the application moves, no window reaches beyond the limit of the *)
(* query ("scroller initialization makes impossible row_count to be > stmt's*)
(* max_rows", my_stmt.cc).                                                  *)
WindowInLimit ==
    scroller.total_rows > 0 =>
        window.from + window.len <=
            scroller.start_offset + scroller.total_rows

(* The limits of a result hold, for what the application gets and for what  *)
(* the driver reads.                                                        *)
LimitsKept == WithinLimits /\ WindowInLimit

(* The saved end of the last rowset is a place in the present window when   *)
(* the next fetch goes on from it, not in one already freed.                *)
NeverReadsFreed ==
    call = "fetching" => data_cursor # Freed

(* Fetching forward never enters the loop that moves the window until it    *)
(* reaches the row, which with empty windows (LIMIT 0) has no end.          *)
ForwardFetchesReturn ==
    call = "hung" => "scrolled" \in mishaps

(* SQLSetPos(SQL_POSITION, i) reads the i-th row of the rowset, as long as  *)
(* the rowset is in the first window.  PositionReadsItsRow asks it of every *)
(* window, which the code does not achieve.                                 *)
PositionInFirstWindow ==
    (mishaps = {} /\ window.from = scroller.start_offset
                  /\ positioned # Nowhere) =>
        positioned.row = rowset[positioned.of]

PositionReadsItsRow ==
    (mishaps = {} /\ positioned # Nowhere) =>
        positioned.row = rowset[positioned.of]

(* The places the driver keeps, in the window and of the window, are good   *)
(* when they are used.                                                      *)
WindowsSound ==
    /\ TypeOK /\ NeverReadsFreed
    /\ ForwardFetchesReturn /\ PositionInFirstWindow
=============================================================================
