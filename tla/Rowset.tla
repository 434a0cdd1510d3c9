------------------------------- MODULE Rowset -------------------------------
(***************************************************************************)
(* Fetching rowsets from a result that the client library has buffered, and*)
(* changing rows of the rowset with SQLSetPos: STMT::compute_cur_row,      *)
(* my_SQLExtendedFetch, set_current_cursor_data and my_SQLSetPos, for a    *)
(* static cursor of the text protocol without the LIMIT scroller.          *)
(*                                                                         *)
(* The driver keeps row numbers (current_row, cursor_row) and, to save the *)
(* client library from walking its list of rows, raw pointers into that    *)
(* list (data_cursor inside MYSQL_RES, end_of_set in STMT).  The model has *)
(* both, as a row is read through the pointer and reported by the number.  *)
(***************************************************************************)
EXTENDS Integers

CONSTANTS
    MaxRows,         \* rows of a result (a bound for TLC)
    ArraySizes,      \* values of SQL_ATTR_ROW_ARRAY_SIZE
    Offsets,         \* values of FetchOffset
    Outcomes,        \* what converting a row into the buffers may return:
                     \* "ok", "info" (say, a truncation) or "error"
    EmptySetPos,     \* does the application call SQLSetPos(0, SQL_DELETE or
                     \* SQL_UPDATE) when the last fetch found no rows?
    NoRow, Freed     \* null, and a pointer into a result that was freed

ASSUME RowsetAssumption ==
    /\ MaxRows \in Nat
    /\ ArraySizes \subseteq Nat \ {0} /\ 1 \in ArraySizes
    /\ Offsets \subseteq Int
    /\ Outcomes \subseteq {"ok", "info", "error"}
    /\ EmptySetPos \in BOOLEAN
    /\ NoRow \notin Int /\ Freed \notin Int /\ NoRow # Freed

VARIABLES
    open,                \* STMT::result # NULL
    n,                   \* num_rows(stmt)
    outcome,             \* what fill_fetch_buffers returns for each row
    array_size,          \* ard->array_size
    current_row,         \* first row of the rowset, -1 before the first row
    rows_found_in_set,
    end_of_set,          \* pointer to the row after the rowset
    data_cursor,         \* MYSQL_RES::data_cursor
    cursor_row,          \* the row SQLSetPos last moved to
    current_values,      \* the row SQLGetData reads
    rowset,              \* the rows in the application's buffers
    res,                 \* the return code of the last fetch
    changed,             \* <<row meant, row changed>> of the last SQLSetPos
    call                 \* "NEXT", "SCROLL" (another fetch) or "OTHER"

result == <<open, n, outcome>>

cursor == <<current_row, rows_found_in_set, end_of_set, data_cursor,
            cursor_row, current_values>>

vars == <<open, n, outcome, array_size, current_row, rows_found_in_set,
          end_of_set, data_cursor, cursor_row, current_values, rowset, res,
          changed, call>>

Smaller(a, b) == IF a < b THEN a ELSE b

(* data_seek: the list of rows ends in a null pointer.                     *)
Ptr(row) == IF row < n THEN row ELSE NoRow

Init ==
    /\ open = FALSE /\ n = 0 /\ outcome = <<>>
    /\ array_size = 1
    /\ current_row = 0 /\ rows_found_in_set = 0
    /\ end_of_set = NoRow /\ data_cursor = NoRow /\ cursor_row = 0
    /\ current_values = NoRow
    /\ rowset = <<>> /\ res = "SUCCESS" /\ changed = {} /\ call = "OTHER"

(* SQLSetStmtAttr(SQL_ATTR_ROW_ARRAY_SIZE), allowed at any time.           *)
SetArraySize(size) ==
    /\ array_size' = size
    /\ call' = "OTHER"
    /\ UNCHANGED <<result, cursor, rowset, res, changed>>

(* (Variant of the next: the row numbers survive into the next result.)    *)
KeepPosition(row) == row

(* my_SQLFreeStmtExtended resets the row numbers, not end_of_set, which    *)
(* goes on pointing into the result that is freed here.                    *)
ResetPosition(row) == 0

FreeResult ==
    /\ current_row' = ResetPosition(current_row)
    /\ rows_found_in_set' = ResetPosition(rows_found_in_set)
    /\ cursor_row' = -1
    /\ current_values' = NoRow
    /\ end_of_set' = IF end_of_set = NoRow THEN NoRow ELSE Freed
    /\ rowset' = <<>> /\ res' = "SUCCESS" /\ changed' = {} /\ call' = "OTHER"
    /\ UNCHANGED array_size

(* SQLExecute or SQLExecDirect of a query that returns rows: any earlier   *)
(* result is freed first.                                                  *)
Execute(rows, f) ==
    /\ FreeResult
    /\ open' = TRUE
    /\ n' = rows /\ outcome' = f
    /\ data_cursor' = IF rows > 0 THEN 0 ELSE NoRow

SQLCloseCursor ==
    /\ open
    /\ FreeResult
    /\ open' = FALSE /\ n' = 0 /\ outcome' = <<>>
    /\ data_cursor' = NoRow

-----------------------------------------------------------------------------
(* The row after the rowset.  (Variant: by the size asked for instead of   *)
(* the rows found.)                                                        *)
NextByArraySize ==
    IF current_row < 0 THEN 0 ELSE current_row + array_size

NextRow == IF current_row < 0 THEN 0 ELSE current_row + rows_found_in_set

(* The row a fetch asks for.                                               *)
compute_cur_row(type, irow) ==
    CASE type = "NEXT"  -> NextRow
      [] type = "PRIOR" -> IF current_row <= 0 THEN -1
                           ELSE current_row - array_size
      [] type = "FIRST" -> 0
      [] type = "LAST"  -> n - array_size
      [] type = "ABSOLUTE" ->
           IF irow >= 0 THEN irow - 1
           ELSE IF n + irow < 0 /\ -irow <= array_size THEN 0
           ELSE n + irow
      [] type = "RELATIVE" ->
           IF current_row > 0 /\ current_row + irow < 0 /\ -irow <= array_size
           THEN 0 ELSE current_row + irow
      [] type = "BOOKMARK" ->
           IF irow < 0 /\ -irow <= array_size THEN 0 ELSE irow

(* stmt->current_values = 0 at the start of a fetch.                       *)
ClearValues(row) == NoRow

FetchCall(type) == IF type = "NEXT" THEN "NEXT" ELSE "SCROLL"

(* The target is before the first row.                                     *)
FetchBefore(type, irow) ==
    /\ open
    /\ compute_cur_row(type, irow) < 0
    /\ current_row' = -1 /\ rows_found_in_set' = 0
    /\ data_cursor' = Ptr(0)
    /\ current_values' = ClearValues(current_values)
    /\ rowset' = <<>> /\ res' = "NO_DATA" /\ changed' = {}
    /\ call' = FetchCall(type)
    /\ UNCHANGED <<result, array_size, end_of_set, cursor_row>>

(* Where the client library reads from: a fetch that continues after the   *)
(* last rowset takes the saved pointer instead of walking the list.        *)
(* (Variant: also at row 0, before there is a rowset.)                     *)
SeekPtrAtZero(cur) ==
    IF cur = current_row + rows_found_in_set THEN end_of_set ELSE Ptr(cur)

SeekPtr(cur) ==
    IF cur # 0 /\ cur = current_row + rows_found_in_set THEN end_of_set
                                                       ELSE Ptr(cur)

(* k rows read through pointer p: fetch_row stops at the null pointer.     *)
Read(p, k) ==
    IF p = NoRow THEN <<>>
    ELSE IF p = Freed THEN [i \in 1..k |-> Freed]
    ELSE [i \in 1..Smaller(k, n - p) |-> p + i - 1]

RowsRead(p, k) == IF p = NoRow THEN 0
                  ELSE IF p = Freed THEN k ELSE Smaller(k, n - p)

Advance(p, k) == IF p \in {NoRow, Freed} THEN p ELSE Ptr(p + k)

RowOutcome(p) == IF p = Freed THEN "ok" ELSE outcome[p]

(* (Variant of the next: the last row decides.)                            *)
LastRowDecides(rows, k) ==
    IF k = 0 \/ RowOutcome(rows[k]) = "ok" THEN "SUCCESS"
    ELSE IF k = 1 /\ RowOutcome(rows[1]) = "error" THEN "ERROR"
    ELSE "SUCCESS_WITH_INFO"

(* What the loop over the rows makes of their outcomes: from the second row*)
(* on, anything but success all along ends as SQL_SUCCESS_WITH_INFO.       *)
FetchResult(rows, k) ==
    IF \A i \in 1..k : RowOutcome(rows[i]) = "ok" THEN "SUCCESS"
    ELSE IF k = 1 /\ RowOutcome(rows[1]) = "error" THEN "ERROR"
    ELSE "SUCCESS_WITH_INFO"

(* Past the last row means at its end.                                     *)
Target(type, irow) == Smaller(compute_cur_row(type, irow), n)

(* (Variant of the next: end_of_set is the position read from.)            *)
SavedPosition(p, k) == p

EndOfSet(p, k) == Advance(p, k)

(* The target is in the result, or just past its last row: the rows are    *)
(* read, current_values is left at the last of them, and, unless the fetch *)
(* failed, the client library is put back at the first and end_of_set      *)
(* remembers where it had come to.                                         *)
FetchRows(type, irow) ==
    /\ open
    /\ compute_cur_row(type, irow) >= 0
    /\ LET cur   == Target(type, irow)
           asked == Smaller(n - cur, array_size)
           from  == SeekPtr(cur)
           rows  == Read(from, asked)
           k     == RowsRead(from, asked)
           rc    == FetchResult(rows, k)
       IN  /\ current_row' = cur
           /\ rows_found_in_set' = k
           /\ rowset' = rows
           /\ current_values' = IF k = 0 THEN ClearValues(current_values)
                                ELSE rows[k]
           /\ res' = IF k = 0 THEN "NO_DATA" ELSE rc
           /\ end_of_set' = IF asked = 0 \/ rc = "ERROR" THEN end_of_set
                            ELSE EndOfSet(from, k)
           /\ data_cursor' = IF rc = "ERROR" THEN Advance(from, k) ELSE from
    /\ changed' = {} /\ call' = FetchCall(type)
    /\ UNCHANGED <<result, array_size, cursor_row>>

-----------------------------------------------------------------------------
(* SQLSetPos.  irow counts from 1 within the rowset; the row is addressed  *)
(* as current_row + irow - 1.  (Variant: as if irow counted from 0.)       *)
RowPosFromZero(irow) == current_row + irow

RowPos(irow) == current_row + irow - 1

SetPosPosition(irow) ==
    /\ open
    /\ irow \in 1..rows_found_in_set /\ irow <= n
    /\ cursor_row' = RowPos(irow)
    /\ data_cursor' = Ptr(RowPos(irow))
    /\ current_values' = Ptr(RowPos(irow))
    /\ changed' = {} /\ call' = "OTHER"
    /\ UNCHANGED <<result, array_size, current_row, rows_found_in_set,
                   end_of_set, rowset, res>>

(* The walk from the first row to the row of a given number.               *)
Walk(row) == IF row < 0 THEN Ptr(0) ELSE Ptr(row)

(* set_current_cursor_data: no seek when SQLSetPos was last at that row    *)
(* number, wherever a fetch has moved the client library since.            *)
set_current_cursor_data(row) ==
    IF cursor_row = row THEN data_cursor ELSE Walk(row)

(* The rowset rows a call concerns: with irow = 0 all of them, and the loop*)
(* is entered once before its end is looked at.                            *)
Span(irow) == IF irow # 0 THEN {irow}
              ELSE {1} \cup 1..rows_found_in_set

(* The row the application means: the one its buffers show in place i.     *)
Meant(i) == IF i <= rows_found_in_set THEN rowset[i] ELSE NoRow

(* One statement per row of rows, in rising order.  Only the first of them *)
(* can find cursor_row at its own number.                                  *)
ChangeRows(irow, rows) ==
    /\ open /\ n > 0
    /\ irow <= rows_found_in_set /\ irow <= n
    /\ rows_found_in_set = 0 => EmptySetPos /\ res = "NO_DATA"
    /\ LET hit(i) == IF \A j \in rows : i <= j
                     THEN set_current_cursor_data(RowPos(i))
                     ELSE Walk(RowPos(i))
       IN  \E last \in rows :
             /\ \A i \in rows : i <= last
             /\ changed' = {<<Meant(i), hit(i)>> : i \in rows}
             /\ cursor_row' = RowPos(last)
             /\ data_cursor' = hit(last)
    /\ call' = "OTHER"
    /\ UNCHANGED <<result, array_size, current_row, rows_found_in_set,
                   end_of_set, current_values, rowset, res>>

(* SQL_DELETE goes through all rows, even after one the server refuses.    *)
SetPosDelete(irow) == ChangeRows(irow, Span(irow))

(* SQL_UPDATE skips a row whose columns are all ignored, and stops at the  *)
(* first statement that the server refuses.                                *)
SetPosUpdate(irow) ==
    \E rows \in SUBSET Span(irow) : ChangeRows(irow, rows)

(* SQL_REFRESH fetches a rowset from row irow of the result.               *)
SetPosRefresh(irow) ==
    /\ irow \in 0..n
    /\ FetchRows("ABSOLUTE", irow) \/ FetchBefore("ABSOLUTE", irow)

Next ==
    \/ \E rows \in 0..MaxRows : \E f \in [0..rows - 1 -> Outcomes] :
          Execute(rows, f)
    \/ SQLCloseCursor
    \/ \E size \in ArraySizes : SetArraySize(size)
    \/ \E type \in {"NEXT", "PRIOR", "FIRST", "LAST"} :
          FetchRows(type, 0) \/ FetchBefore(type, 0)
    \/ \E type \in {"ABSOLUTE", "RELATIVE", "BOOKMARK"}, irow \in Offsets :
          FetchRows(type, irow) \/ FetchBefore(type, irow)
    \/ \E irow \in 1..MaxRows : SetPosPosition(irow)
    \/ \E irow \in 0..MaxRows : SetPosDelete(irow) \/ SetPosUpdate(irow)
    \/ \E irow \in 0..MaxRows : SetPosRefresh(irow)

Spec == Init /\ [][Next]_vars

-----------------------------------------------------------------------------
(* The types of the variables; in particular the row numbers and pointers  *)
(* stay within the result whatever the offsets.                            *)
TypeOK ==
    /\ open \in BOOLEAN
    /\ n \in Nat
    /\ open => outcome \in [0..n - 1 -> Outcomes]
    /\ ~open => n = 0
    /\ array_size \in ArraySizes
    /\ current_row \in -1..n
    /\ rows_found_in_set \in Nat
    /\ end_of_set \in (0..n - 1) \cup {NoRow, Freed}
    /\ data_cursor \in (0..n - 1) \cup {NoRow, Freed}
    /\ cursor_row \in Int
    /\ res \in {"SUCCESS", "SUCCESS_WITH_INFO", "ERROR", "NO_DATA"}
    /\ call \in {"NEXT", "SCROLL", "OTHER"}

(* The rows in the application's buffers are the ones the row numbers say: *)
(* SQLFetch "fetches the next rowset of data from the result set"          *)
(* (results.cc), though it reads them through a saved pointer.  And        *)
(* SQL_NO_DATA is only returned outside the result, never in front of rows.*)
RowsetIsWindow ==
    /\ rowset = [i \in 1..rows_found_in_set |-> current_row + i - 1]
    /\ res = "NO_DATA" => current_row \in {-1, n}

(* end_of_set, when the next fetch would use it, points just after the     *)
(* rowset of the present result.                                           *)
EndOfSetCurrent ==
    rows_found_in_set > 0 /\ current_row >= 0 =>
        end_of_set = Ptr(current_row + rows_found_in_set)

(* SQLGetData reads a row that is in the application's rowset.             *)
CurrentValuesInRowset ==
    current_values # NoRow =>
        \E i \in 1..rows_found_in_set : rowset[i] = current_values

(* SQL_SUCCESS is returned exactly if none of the rows in the rowset was   *)
(* truncated or failed: the one return code stands for all of them.        *)
ReturnCodeTruthful ==
    rows_found_in_set > 0 =>
        (res = "SUCCESS" <=>
            \A i \in 1..rows_found_in_set : RowOutcome(rowset[i]) = "ok")

(* What a fetch tells beside the rows: its return code, and the row that    *)
(* SQLGetData then reads; and the row numbers stay within the result.       *)
AnswersTruthful == TypeOK /\ ReturnCodeTruthful /\ CurrentValuesInRowset

(* A positioned change of the first row of the rowset, which is every      *)
(* positioned change when rowsets have one row, hits that row, whatever    *)
(* fetches and SQLSetPos calls have moved the client library before.       *)
FirstRowHit == \A c \in changed : c[1] = current_row => c[2] = c[1]

(* A positioned change hits the row the application pointed at:            *)
(* set_current_cursor_data "positions the data cursor to appropriate row"  *)
(* (cursor.cc).                                                            *)
ChangesHitTheirRow == \A c \in changed : c[2] = c[1]

(* With irow = 0 SQLSetPos works on "all rows in the current rowset"       *)
(* (cursor.cc, setpos_delete_std), never on a row that is not in it.       *)
ChangesInRowset ==
    \A c \in changed :
        \E i \in 1..rows_found_in_set : rowset[i] = c[2]

(* Rowset implements the cursor an application sees.                       *)
AppCursor == INSTANCE Cursor WITH start <- current_row,
                                  found <- rows_found_in_set

ImplementsCursor == AppCursor!CSpec
=============================================================================
