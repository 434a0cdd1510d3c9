---------------------------- MODULE ResultProofs ----------------------------
(***************************************************************************)
(* Theorems about how results reach the application: the rowsets that      *)
(* fetching delivers, of results of any length, any rowset sizes and any   *)
(* offsets; and what SQLGetData delivers, of values of any length, through *)
(* buffers of any length, by every conversion and in any order of calls.   *)
(***************************************************************************)
EXTENDS Rowset, GetData, FiniteSetTheorems, WellFoundedInduction, TLAPS

(* Where the row numbers can be when the last fetch found nothing.         *)
RowNumbers ==
    /\ rows_found_in_set = 0 => current_row \in {-1, 0, n}
    /\ rows_found_in_set > 0 => /\ current_row >= 0
                                /\ current_row + rows_found_in_set <= n

RInv == TypeOK /\ RowNumbers /\ RowsetIsWindow /\ EndOfSetCurrent

LEMMA RInit == Init => RInv
<1> SUFFICES ASSUME Init PROVE RInv
  OBVIOUS
<1>1. TypeOK
  <2>1. open \in BOOLEAN /\ ~open
    BY DEF Init
  <2>2. /\ n = 0 /\ array_size \in ArraySizes
        /\ end_of_set = NoRow /\ data_cursor = NoRow
        /\ res \in {"SUCCESS", "SUCCESS_WITH_INFO", "ERROR", "NO_DATA"}
        /\ call \in {"NEXT", "SCROLL", "OTHER"}
    BY RowsetAssumption DEF Init
  <2>3. current_row = 0 /\ rows_found_in_set = 0 /\ cursor_row = 0
    BY DEF Init
  <2> QED
    BY <2>1, <2>2, <2>3 DEF TypeOK
<1>2. RowsetIsWindow
  BY DEF Init, RowsetIsWindow
<1>3. RowNumbers /\ EndOfSetCurrent
  BY DEF Init, RowNumbers, EndOfSetCurrent
<1> QED
  BY <1>1, <1>2, <1>3 DEF RInv

(* A fetch type and offset that the application may use.                   *)
FetchArgs(type, irow) ==
    \/ type \in {"NEXT", "PRIOR", "FIRST", "LAST"} /\ irow = 0
    \/ type \in {"ABSOLUTE", "RELATIVE", "BOOKMARK"} /\ irow \in Int

LEMMA TargetIsRow ==
    ASSUME TypeOK, NEW type, NEW irow, FetchArgs(type, irow)
    PROVE  /\ compute_cur_row(type, irow) \in Int
           /\ compute_cur_row(type, irow) >= 0 => Target(type, irow) \in 0..n
<1>1. array_size \in Nat \ {0} /\ n \in Nat /\ current_row \in -1..n
      /\ rows_found_in_set \in Nat
  BY RowsetAssumption DEF TypeOK
<1>2. NextRow \in Int
  BY <1>1 DEF NextRow
<1>3. compute_cur_row(type, irow) \in Int
  BY <1>1, <1>2 DEF FetchArgs, compute_cur_row
<1> QED
  BY <1>1, <1>3 DEF Target, Smaller

(* The pointer a fetch reads through is the row it asks for.               *)
LEMMA SeekIsExact ==
    ASSUME RInv, NEW cur \in 0..n, cur < n
    PROVE  SeekPtr(cur) = cur
<1>1. CASE cur # 0 /\ cur = current_row + rows_found_in_set
  <2>1. rows_found_in_set > 0 /\ current_row >= 0
    BY <1>1 DEF RInv, TypeOK, RowNumbers
  <2>2. end_of_set = Ptr(cur)
    BY <1>1, <2>1 DEF RInv, EndOfSetCurrent
  <2> QED
    BY <1>1, <2>2 DEF SeekPtr, Ptr
<1>2. CASE ~(cur # 0 /\ cur = current_row + rows_found_in_set)
  BY <1>2 DEF SeekPtr, Ptr
<1> QED
  BY <1>1, <1>2

(* What a fetch that finds its target in the result leaves behind.         *)
LEMMA FetchRowsEffect ==
    ASSUME RInv, "error" \notin Outcomes, NEW type, NEW irow,
           FetchArgs(type, irow), FetchRows(type, irow)
    PROVE  LET cur == Target(type, irow)
               k   == Smaller(n - cur, array_size)
           IN  /\ cur \in 0..n /\ k \in Nat /\ cur + k <= n
               /\ k = 0 <=> cur = n
               /\ current_row' = cur
               /\ rows_found_in_set' = k
               /\ rowset' = [i \in 1..k |-> cur + i - 1]
               /\ k > 0 => end_of_set' = Ptr(cur + k)
               /\ end_of_set' \in (0..n - 1) \cup {NoRow, Freed}
               /\ data_cursor' \in (0..n - 1) \cup {NoRow, Freed}
               /\ res' \in {"SUCCESS", "SUCCESS_WITH_INFO", "NO_DATA"}
               /\ res' = "NO_DATA" => cur = n
<1> DEFINE cur  == Target(type, irow)
           k    == Smaller(n - cur, array_size)
           from == SeekPtr(cur)
           rows == Read(from, k)
           m    == RowsRead(from, k)
           rc   == FetchResult(rows, m)
<1> USE RowsetAssumption
<1>1. /\ array_size \in Nat \ {0} /\ n \in Nat /\ cur \in 0..n
      /\ end_of_set \in (0..n - 1) \cup {NoRow, Freed} /\ open
      /\ outcome \in [0..n - 1 -> Outcomes]
  BY TargetIsRow DEF RInv, TypeOK, FetchRows
<1>2. k \in Nat /\ cur + k <= n /\ (k = 0 <=> cur = n)
  BY <1>1 DEF Smaller
<1>3. /\ current_row' = cur /\ rows_found_in_set' = m /\ rowset' = rows
      /\ res' = IF m = 0 THEN "NO_DATA" ELSE rc
      /\ end_of_set' = IF k = 0 \/ rc = "ERROR" THEN end_of_set
                       ELSE EndOfSet(from, m)
      /\ data_cursor' = IF rc = "ERROR" THEN Advance(from, m) ELSE from
  BY DEF FetchRows
<1>4. CASE cur < n
  <2>1. from = cur /\ cur \notin {NoRow, Freed}
    BY <1>1, <1>4, SeekIsExact
  <2>2. Smaller(k, n - cur) = k /\ k > 0
    BY <1>1, <1>2, <1>4 DEF Smaller
  <2>3. m = k /\ rows = [i \in 1..k |-> cur + i - 1]
    BY <2>1, <2>2 DEF RowsRead, Read
  <2>4. \A i \in 1..k : RowOutcome(rows[i]) \in Outcomes
    BY <1>1, <1>2, <2>3 DEF RowOutcome
  <2>5. rc \in {"SUCCESS", "SUCCESS_WITH_INFO"}
    BY <2>2, <2>3, <2>4 DEF FetchResult
  <2>6. end_of_set' = Ptr(cur + k)
    BY <1>3, <2>1, <2>2, <2>3, <2>5 DEF EndOfSet, Advance
  <2>7. end_of_set' \in (0..n - 1) \cup {NoRow, Freed}
    BY <1>1, <1>2, <2>6 DEF Ptr
  <2>8. data_cursor' \in (0..n - 1) \cup {NoRow, Freed}
    <3> HIDE DEF cur, from, rc, m
    <3>1. data_cursor' = cur
      BY <1>3, <2>1, <2>5
    <3> QED
      BY <1>1, <1>4, <3>1
  <2> HIDE DEF cur, k, m, rc, rows, from
  <2>9. res' = rc /\ rc # "NO_DATA"
    BY <1>3, <2>2, <2>3, <2>5
  <2>10. /\ cur \in 0..n /\ k \in Nat /\ cur + k <= n /\ (k = 0 <=> cur = n)
         /\ current_row' = cur /\ rows_found_in_set' = k
         /\ rowset' = [i \in 1..k |-> cur + i - 1]
    BY <1>1, <1>2, <1>3, <2>3
  <2>11. res' \in {"SUCCESS", "SUCCESS_WITH_INFO", "NO_DATA"}
         /\ (res' = "NO_DATA" => cur = n)
    BY <2>5, <2>9
  <2> QED
    BY <2>6, <2>7, <2>8, <2>10, <2>11 DEF cur, k
<1>5. CASE cur = n
  <2>1. k = 0 /\ from \in (0..n - 1) \cup {NoRow, Freed}
    BY <1>1, <1>2, <1>5 DEF SeekPtr, Ptr
  <2>2. m = 0 /\ rows = [i \in 1..0 |-> cur + i - 1]
    <3>1. CASE from = NoRow
      BY <3>1 DEF RowsRead, Read
    <3>2. CASE from = Freed
      BY <2>1, <3>2 DEF RowsRead, Read
    <3>3. CASE from \in 0..n - 1
      <4>1. Smaller(k, n - from) = 0 /\ from \notin {NoRow, Freed}
        BY <1>1, <2>1, <3>3 DEF Smaller
      <4>2. m = 0
        BY <4>1 DEF RowsRead
      <4>3. rows = [i \in 1..0 |-> from + i - 1]
        BY <4>1 DEF Read
      <4> QED
        BY <4>2, <4>3
    <3> QED
      BY <2>1, <3>1, <3>2, <3>3
  <2>3. rc = "SUCCESS"
    BY <2>2 DEF FetchResult
  <2> HIDE DEF cur, k, m, rc, rows, from
  <2>4. /\ cur \in 0..n /\ k \in Nat /\ cur + k <= n /\ (k = 0 <=> cur = n)
        /\ current_row' = cur /\ rows_found_in_set' = k
        /\ rowset' = [i \in 1..k |-> cur + i - 1]
    BY <1>1, <1>2, <1>3, <2>1, <2>2
  <2>5. end_of_set' = end_of_set /\ data_cursor' = from /\ res' = "NO_DATA"
    BY <1>3, <2>1, <2>2, <2>3
  <2>6. /\ k > 0 => end_of_set' = Ptr(cur + k)
        /\ end_of_set' \in (0..n - 1) \cup {NoRow, Freed}
        /\ data_cursor' \in (0..n - 1) \cup {NoRow, Freed}
        /\ res' \in {"SUCCESS", "SUCCESS_WITH_INFO", "NO_DATA"}
        /\ res' = "NO_DATA" => cur = n
    BY <1>1, <1>5, <2>1, <2>5
  <2> QED
    BY <2>4, <2>6 DEF cur, k
<1> QED
  BY <1>1, <1>4, <1>5

(* What a step leaves alone when it only moves the client library.         *)
Moves == /\ UNCHANGED <<open, n, outcome, current_row, rows_found_in_set,
                        end_of_set, rowset, res>>
         /\ array_size' \in ArraySizes
         /\ data_cursor' \in (0..n - 1) \cup {NoRow, Freed}
         /\ cursor_row' \in Int
         /\ call' = "OTHER"

LEMMA SetPosMoves ==
    ASSUME RInv, NEW irow \in Nat,
           SetPosPosition(irow) \/ SetPosDelete(irow) \/ SetPosUpdate(irow)
    PROVE  Moves
<1> USE RowsetAssumption
<1>0. /\ TypeOK /\ n \in Nat /\ current_row \in -1..n
      /\ array_size \in ArraySizes /\ rows_found_in_set \in Nat
      /\ data_cursor \in (0..n - 1) \cup {NoRow, Freed}
  BY DEF RInv, TypeOK
<1>1. \A i \in Nat : /\ RowPos(i) \in Int
                     /\ Walk(RowPos(i)) \in (0..n - 1) \cup {NoRow, Freed}
  BY <1>0 DEF RowPos, Walk, Ptr
<1>2. CASE SetPosPosition(irow)
  <2>1. Ptr(RowPos(irow)) \in (0..n - 1) \cup {NoRow, Freed}
    BY <1>0, <1>2 DEF SetPosPosition, RowPos, Ptr, RInv, RowNumbers
  <2> QED
    BY <1>0, <1>1, <1>2, <2>1 DEF SetPosPosition, Moves, result
<1>3. ASSUME NEW rows \in SUBSET Nat, ChangeRows(irow, rows) PROVE Moves
  <2>1. PICK final \in rows :
          /\ cursor_row' = RowPos(final)
          /\ \/ data_cursor' = set_current_cursor_data(RowPos(final))
             \/ data_cursor' = Walk(RowPos(final))
    BY <1>3 DEF ChangeRows
  <2>2. data_cursor' \in (0..n - 1) \cup {NoRow, Freed}
    BY <1>0, <1>1, <2>1 DEF set_current_cursor_data
  <2>3. cursor_row' \in Int
    BY <1>1, <2>1
  <2> QED
    BY <1>0, <1>3, <2>2, <2>3 DEF ChangeRows, Moves, result
<1>4. Span(irow) \in SUBSET Nat
  BY <1>0 DEF Span
<1> QED
  BY <1>2, <1>3, <1>4 DEF SetPosDelete, SetPosUpdate

(* The steps of Rowset, with the arguments they can have.                  *)
LEMMA NextCases ==
    ASSUME TypeOK, Next
    PROVE  \/ \E rows \in Nat : \E f \in [0..rows - 1 -> Outcomes] :
                 Execute(rows, f)
           \/ SQLCloseCursor
           \/ \E size \in ArraySizes : SetArraySize(size)
           \/ \E type, irow : /\ FetchArgs(type, irow)
                              /\ \/ FetchRows(type, irow)
                                 \/ FetchBefore(type, irow)
           \/ \E irow \in Nat : \/ SetPosPosition(irow) \/ SetPosDelete(irow)
                                \/ SetPosUpdate(irow)
<1> USE RowsetAssumption
<1>1. ASSUME NEW irow \in 0..MaxRows, SetPosRefresh(irow)
      PROVE  /\ FetchArgs("ABSOLUTE", irow)
             /\ FetchRows("ABSOLUTE", irow) \/ FetchBefore("ABSOLUTE", irow)
  BY <1>1 DEF SetPosRefresh, FetchArgs
<1>2. ASSUME NEW type \in {"ABSOLUTE", "RELATIVE", "BOOKMARK"},
             NEW irow \in Offsets
      PROVE  FetchArgs(type, irow)
  BY DEF FetchArgs
<1>3. ASSUME NEW type \in {"NEXT", "PRIOR", "FIRST", "LAST"}
      PROVE  FetchArgs(type, 0)
  BY DEF FetchArgs
<1>4. 0..MaxRows \subseteq Nat /\ 1..MaxRows \subseteq Nat
  OBVIOUS
<1> QED
  BY <1>1, <1>2, <1>3, <1>4 DEF Next

LEMMA RStep ==
    ASSUME "error" \notin Outcomes
    PROVE  RInv /\ [Next]_vars => RInv'
<1> SUFFICES ASSUME RInv, [Next]_vars PROVE RInv'
  OBVIOUS
<1> USE RowsetAssumption
<1>0. TypeOK /\ RowNumbers /\ RowsetIsWindow /\ EndOfSetCurrent
  BY DEF RInv
<1>1. ASSUME NEW rows \in Nat, NEW f \in [0..rows - 1 -> Outcomes],
             Execute(rows, f)
      PROVE  RInv'
  <2>1. /\ open' = TRUE /\ n' = rows /\ outcome' = f /\ current_row' = 0
        /\ rows_found_in_set' = 0 /\ cursor_row' = -1 /\ rowset' = <<>>
        /\ res' = "SUCCESS" /\ call' = "OTHER" /\ array_size' = array_size
        /\ end_of_set' \in {NoRow, Freed}
        /\ data_cursor' \in (0..rows - 1) \cup {NoRow, Freed}
    BY <1>1 DEF Execute, FreeResult, ResetPosition
  <2>2. TypeOK'
    BY <1>0, <2>1 DEF TypeOK
  <2>3. RowsetIsWindow'
    BY <2>1 DEF RowsetIsWindow
  <2> QED
    BY <2>1, <2>2, <2>3 DEF RInv, RowNumbers, EndOfSetCurrent
<1>2. CASE SQLCloseCursor
  <2>1. /\ open' = FALSE /\ n' = 0 /\ current_row' = 0
        /\ rows_found_in_set' = 0 /\ cursor_row' = -1 /\ rowset' = <<>>
        /\ res' = "SUCCESS" /\ call' = "OTHER" /\ array_size' = array_size
        /\ end_of_set' \in {NoRow, Freed} /\ data_cursor' = NoRow
    BY <1>2 DEF SQLCloseCursor, FreeResult, ResetPosition
  <2>2. TypeOK'
    <3>1. open' \in BOOLEAN /\ ~open'
      BY <2>1
    <3>2. array_size' \in ArraySizes
      BY <1>0, <2>1 DEF TypeOK
    <3> QED
      BY <2>1, <3>1, <3>2 DEF TypeOK
  <2>3. RowsetIsWindow'
    BY <2>1 DEF RowsetIsWindow
  <2> QED
    BY <2>1, <2>2, <2>3 DEF RInv, RowNumbers, EndOfSetCurrent
<1>3. ASSUME Moves PROVE RInv'
  <2>1. TypeOK'
    BY <1>0, <1>3 DEF Moves, TypeOK
  <2> QED
    BY <1>0, <1>3, <2>1 DEF Moves, RInv, RowNumbers, RowsetIsWindow,
       EndOfSetCurrent, Ptr
<1>4. ASSUME NEW size \in ArraySizes, SetArraySize(size) PROVE RInv'
  <2>1. Moves
    BY <1>0, <1>4 DEF SetArraySize, Moves, result, cursor, TypeOK
  <2> QED
    BY <1>3, <2>1
<1>5. ASSUME NEW type, NEW irow, FetchArgs(type, irow), FetchRows(type, irow)
      PROVE  RInv'
  <2> DEFINE cur == Target(type, irow)
             k   == Smaller(n - cur, array_size)
  <2>1. /\ cur \in 0..n /\ k \in Nat /\ cur + k <= n
        /\ k = 0 <=> cur = n
        /\ current_row' = cur
        /\ rows_found_in_set' = k
        /\ rowset' = [i \in 1..k |-> cur + i - 1]
        /\ k > 0 => end_of_set' = Ptr(cur + k)
        /\ end_of_set' \in (0..n - 1) \cup {NoRow, Freed}
        /\ data_cursor' \in (0..n - 1) \cup {NoRow, Freed}
        /\ res' \in {"SUCCESS", "SUCCESS_WITH_INFO", "NO_DATA"}
        /\ res' = "NO_DATA" => cur = n
    BY <1>5, FetchRowsEffect
  <2>2. /\ UNCHANGED <<open, n, outcome, array_size, cursor_row>>
        /\ call' \in {"NEXT", "SCROLL"}
    BY <1>5 DEF FetchRows, FetchCall, result
  <2> HIDE DEF cur, k
  <2>3. TypeOK'
    BY <1>0, <2>1, <2>2 DEF TypeOK
  <2>4. RowNumbers'
    BY <1>0, <2>1, <2>2 DEF RowNumbers, TypeOK
  <2>5. RowsetIsWindow'
    BY <1>0, <2>1, <2>2 DEF RowsetIsWindow
  <2>6. EndOfSetCurrent'
    BY <1>0, <2>1, <2>2 DEF EndOfSetCurrent, Ptr
  <2> QED
    BY <2>3, <2>4, <2>5, <2>6 DEF RInv
<1>6. ASSUME NEW type, NEW irow, FetchBefore(type, irow) PROVE RInv'
  <2>1. /\ UNCHANGED <<open, n, outcome, array_size, end_of_set, cursor_row>>
        /\ current_row' = -1 /\ rows_found_in_set' = 0 /\ rowset' = <<>>
        /\ res' = "NO_DATA" /\ call' \in {"NEXT", "SCROLL"}
        /\ data_cursor' = Ptr(0)
    BY <1>6 DEF FetchBefore, FetchCall, result
  <2>2. Ptr(0) \in (0..n - 1) \cup {NoRow, Freed}
    BY <1>0 DEF Ptr, TypeOK
  <2>3. TypeOK'
    BY <1>0, <2>1, <2>2 DEF TypeOK
  <2>4. RowsetIsWindow'
    BY <2>1 DEF RowsetIsWindow
  <2> QED
    BY <2>1, <2>3, <2>4 DEF RInv, RowNumbers, EndOfSetCurrent
<1>7. ASSUME NEW irow \in Nat,
             SetPosPosition(irow) \/ SetPosDelete(irow) \/ SetPosUpdate(irow)
      PROVE  RInv'
  BY <1>3, <1>7, SetPosMoves
<1>8. CASE UNCHANGED vars
  BY <1>0, <1>8 DEF vars, RInv, TypeOK, RowNumbers, RowsetIsWindow,
     EndOfSetCurrent, Ptr
<1>9. CASE Next
  BY <1>0, <1>1, <1>2, <1>4, <1>5, <1>6, <1>7, <1>9, NextCases
<1> QED
  BY <1>8, <1>9

(* When no row fails to convert, a fetch hands over exactly the rows its   *)
(* row numbers name, though it reads them through saved pointers.          *)
THEOREM RowsetsAreWindows ==
    ASSUME "error" \notin Outcomes PROVE Spec => []RowsetIsWindow
<1>1. RInv => RowsetIsWindow
  BY DEF RInv
<1> QED
  BY <1>1, RInit, RStep, PTL DEF Spec

(* ... because end_of_set points just after the rowset of the present      *)
(* result whenever the next fetch would use it.                            *)
THEOREM EndOfSetIsCurrent ==
    ASSUME "error" \notin Outcomes PROVE Spec => []EndOfSetCurrent
<1>1. RInv => EndOfSetCurrent
  BY DEF RInv
<1> QED
  BY <1>1, RInit, RStep, PTL DEF Spec

(* What a fetch tells: SQLGetData reads the last row it delivered, the     *)
(* client library is back at the first, the return code speaks for all.    *)
LEMMA FetchRowsAnswer ==
    ASSUME RInv, "error" \notin Outcomes, NEW type, NEW irow,
           FetchArgs(type, irow), FetchRows(type, irow)
    PROVE  /\ changed' = {}
           /\ rows_found_in_set' = 0 => current_values' = NoRow
           /\ rows_found_in_set' > 0 =>
                /\ current_values' = rowset'[rows_found_in_set']
                /\ data_cursor' = current_row'
                /\ res' = "SUCCESS" <=>
                     \A i \in 1..rows_found_in_set' :
                         RowOutcome(rowset'[i]) = "ok"
<1> DEFINE cur  == Target(type, irow)
           k    == Smaller(n - cur, array_size)
           from == SeekPtr(cur)
           rows == Read(from, k)
           m    == RowsRead(from, k)
           rc   == FetchResult(rows, m)
<1>1. /\ changed' = {} /\ rows_found_in_set' = m /\ rowset' = rows
      /\ current_values' = IF m = 0 THEN NoRow ELSE rows[m]
      /\ res' = IF m = 0 THEN "NO_DATA" ELSE rc
      /\ data_cursor' = IF rc = "ERROR" THEN Advance(from, m) ELSE from
  BY DEF FetchRows, ClearValues
<1>2. /\ cur \in 0..n /\ k \in Nat /\ (k = 0 <=> cur = n)
      /\ current_row' = cur /\ rows_found_in_set' = k
      /\ res' \in {"SUCCESS", "SUCCESS_WITH_INFO", "NO_DATA"}
  BY FetchRowsEffect
<1>3. n \in Nat
  BY DEF RInv, TypeOK
<1>4. rc = "SUCCESS" <=> \A i \in 1..m : RowOutcome(rows[i]) = "ok"
  BY DEF FetchResult
<1>5. ASSUME k > 0 PROVE from = cur
  BY <1>2, <1>3, <1>5, SeekIsExact
<1> HIDE DEF cur, k, from, rows, m, rc
<1>6. ASSUME m > 0
      PROVE  /\ current_values' = rows[m] /\ res' = rc
             /\ data_cursor' = current_row'
  <2>1. m # 0 /\ k > 0
    BY <1>1, <1>2, <1>6
  <2>2. res' = rc /\ rc # "ERROR"
    BY <1>1, <1>2, <2>1
  <2> QED
    BY <1>1, <1>2, <1>5, <2>1, <2>2
<1> QED
  BY <1>1, <1>4, <1>6

(* SQLSetPos and the client library agree about the row they were last     *)
(* moved to, when that is the first of the rowset.                         *)
Positioned ==
    rows_found_in_set > 0 /\ cursor_row = current_row =>
        data_cursor = current_row

(* What the application is told, over and above the rows.                  *)
Told == ReturnCodeTruthful /\ CurrentValuesInRowset /\ Positioned
          /\ FirstRowHit

LEMMA ToldInit == Init => Told
<1> SUFFICES ASSUME Init PROVE Told
  OBVIOUS
<1>1. rows_found_in_set = 0 /\ current_values = NoRow /\ changed = {}
  BY DEF Init
<1> QED
  BY <1>1 DEF Told, ReturnCodeTruthful, CurrentValuesInRowset, Positioned,
     FirstRowHit

(* Without rows in the rowset there is nothing to be wrong about.          *)
LEMMA ToldEmpty ==
    ASSUME rows_found_in_set' = 0, current_values' = NoRow, changed' = {}
    PROVE  Told'
BY DEF Told, ReturnCodeTruthful, CurrentValuesInRowset, Positioned,
   FirstRowHit

LEMMA ToldFetch ==
    ASSUME RInv, RInv', "error" \notin Outcomes, NEW type, NEW irow,
           FetchArgs(type, irow), FetchRows(type, irow)
    PROVE  Told'
<1>1. /\ changed' = {} /\ rows_found_in_set' \in Nat
      /\ rows_found_in_set' = 0 => current_values' = NoRow
  BY FetchRowsAnswer DEF RInv, TypeOK
<1>2. CASE rows_found_in_set' = 0
  BY <1>1, <1>2, ToldEmpty
<1>3. CASE rows_found_in_set' > 0
  <2>1. /\ current_values' = rowset'[rows_found_in_set']
        /\ data_cursor' = current_row'
        /\ res' = "SUCCESS" <=>
             \A i \in 1..rows_found_in_set' : RowOutcome(rowset'[i]) = "ok"
    BY <1>3, FetchRowsAnswer
  <2>2. outcome' = outcome
    BY DEF FetchRows, result
  <2>3. ReturnCodeTruthful'
    BY <2>1, <2>2 DEF ReturnCodeTruthful, RowOutcome
  <2>4. CurrentValuesInRowset'
    BY <1>1, <1>3, <2>1 DEF CurrentValuesInRowset
  <2> QED
    BY <1>1, <2>1, <2>3, <2>4 DEF Told, Positioned, FirstRowHit
<1> QED
  BY <1>1, <1>2, <1>3

(* Row 1 of the rowset is its lowest, so a change of it is the one that    *)
(* may find SQLSetPos already there.                                       *)
LEMMA ToldChange ==
    ASSUME RInv, Told, NEW irow \in Nat, NEW rows \in SUBSET (Nat \ {0}),
           ChangeRows(irow, rows)
    PROVE  Told'
<1> USE RowsetAssumption
<1> DEFINE hit(i) == IF \A j \in rows : i <= j
                     THEN set_current_cursor_data(RowPos(i))
                     ELSE Walk(RowPos(i))
<1>1. /\ UNCHANGED <<outcome, current_row, rows_found_in_set, current_values,
                     rowset, res>>
      /\ changed' = {<<Meant(i), hit(i)>> : i \in rows}
  BY DEF ChangeRows, result
<1>2. PICK final \in rows : /\ cursor_row' = RowPos(final)
                           /\ data_cursor' = hit(final)
  BY DEF ChangeRows
<1>3. /\ n \in Nat /\ current_row \in -1..n /\ rows_found_in_set \in Nat
      /\ RowNumbers /\ RowsetIsWindow
  BY DEF RInv, TypeOK
<1>4. ASSUME rows_found_in_set > 0, 1 \in rows PROVE hit(1) = current_row
  <2>1. RowPos(1) = current_row /\ current_row \in 0..(n - 1)
    BY <1>3, <1>4 DEF RowPos, RowNumbers
  <2>2. \A j \in rows : 1 <= j
    OBVIOUS
  <2>3. Walk(RowPos(1)) = current_row
    BY <1>3, <2>1 DEF Walk, Ptr
  <2>4. set_current_cursor_data(RowPos(1)) = current_row
    BY <1>4, <2>1, <2>3 DEF set_current_cursor_data, Told, Positioned
  <2> QED
    BY <2>2, <2>4
<1> HIDE DEF hit
<1>5. Positioned'
  <2> SUFFICES ASSUME rows_found_in_set > 0, RowPos(final) = current_row
               PROVE  hit(final) = current_row
    BY <1>1, <1>2 DEF Positioned
  <2>1. final = 1
    BY <1>3 DEF RowPos
  <2> QED
    BY <1>4, <2>1
<1>6. FirstRowHit'
  <2> SUFFICES ASSUME NEW c \in changed', c[1] = current_row
               PROVE  c[2] = current_row
    BY <1>1 DEF FirstRowHit
  <2>1. PICK i \in rows : c = <<Meant(i), hit(i)>>
    BY <1>1
  <2>2. Meant(i) = current_row /\ c[2] = hit(i) /\ current_row # NoRow
    BY <1>3, <2>1
  <2>3. i <= rows_found_in_set
    BY <2>2 DEF Meant
  <2>4. rowset[i] = current_row
    BY <2>2, <2>3 DEF Meant
  <2>5. rowset[i] = current_row + i - 1
    BY <1>3, <2>3 DEF RowsetIsWindow
  <2>6. i = 1
    BY <1>3, <2>4, <2>5
  <2> QED
    BY <1>3, <1>4, <2>2, <2>3, <2>6
<1>7. ReturnCodeTruthful' /\ CurrentValuesInRowset'
  BY <1>1 DEF Told, ReturnCodeTruthful, CurrentValuesInRowset, RowOutcome
<1> QED
  BY <1>5, <1>6, <1>7 DEF Told

LEMMA ToldPosition ==
    ASSUME RInv, Told, NEW irow \in Nat, SetPosPosition(irow)
    PROVE  Told'
<1>1. /\ UNCHANGED <<outcome, current_row, rows_found_in_set, rowset, res>>
      /\ cursor_row' = RowPos(irow) /\ data_cursor' = Ptr(RowPos(irow))
      /\ current_values' = Ptr(RowPos(irow)) /\ changed' = {}
      /\ irow \in 1..rows_found_in_set
  BY DEF SetPosPosition, result
<1>2. /\ n \in Nat /\ current_row \in -1..n /\ rows_found_in_set \in Nat
      /\ RowNumbers /\ RowsetIsWindow
  BY DEF RInv, TypeOK
<1>3. Ptr(RowPos(irow)) = current_row + irow - 1
      /\ RowPos(irow) = current_row + irow - 1
  <2>1. current_row + irow - 1 < n
    BY <1>1, <1>2 DEF RowNumbers
  <2> QED
    BY <2>1 DEF Ptr, RowPos
<1>4. rowset[irow] = current_row + irow - 1
  BY <1>1, <1>2 DEF RowsetIsWindow
<1>5. CurrentValuesInRowset'
  BY <1>1, <1>3, <1>4 DEF CurrentValuesInRowset
<1>6. ReturnCodeTruthful'
  BY <1>1 DEF Told, ReturnCodeTruthful, RowOutcome
<1>7. Positioned' /\ FirstRowHit'
  BY <1>1, <1>3 DEF Positioned, FirstRowHit
<1> QED
  BY <1>5, <1>6, <1>7 DEF Told

LEMMA ToldStep ==
    ASSUME "error" \notin Outcomes
    PROVE  RInv /\ RInv' /\ Told /\ [Next]_vars => Told'
<1> SUFFICES ASSUME RInv, RInv', Told, [Next]_vars PROVE Told'
  OBVIOUS
<1>1. ASSUME NEW rows \in Nat, NEW f, Execute(rows, f) PROVE Told'
  BY <1>1, ToldEmpty DEF Execute, FreeResult, ResetPosition
<1>2. CASE SQLCloseCursor
  BY <1>2, ToldEmpty DEF SQLCloseCursor, FreeResult, ResetPosition
<1>3. ASSUME UNCHANGED <<outcome, current_row, rows_found_in_set,
                         data_cursor, cursor_row, current_values, rowset,
                         res, changed>>
      PROVE  Told'
  BY <1>3 DEF Told, ReturnCodeTruthful, CurrentValuesInRowset, Positioned,
     FirstRowHit, RowOutcome
<1>4. ASSUME NEW size \in ArraySizes, SetArraySize(size) PROVE Told'
  BY <1>3, <1>4 DEF SetArraySize, result, cursor
<1>5. ASSUME NEW type, NEW irow, FetchBefore(type, irow) PROVE Told'
  BY <1>5, ToldEmpty DEF FetchBefore, ClearValues
<1>6. ASSUME NEW irow \in Nat, SetPosDelete(irow) \/ SetPosUpdate(irow)
      PROVE  Told'
  <2>1. Span(irow) \in SUBSET (Nat \ {0})
    BY DEF Span, RInv, TypeOK
  <2> QED
    BY <1>6, <2>1, ToldChange DEF SetPosDelete, SetPosUpdate
<1>7. CASE UNCHANGED vars
  BY <1>3, <1>7 DEF vars
<1>8. CASE Next
  <2>1. TypeOK
    BY DEF RInv
  <2> QED
    BY <1>1, <1>2, <1>4, <1>5, <1>6, <1>8, <2>1, NextCases, ToldFetch,
       ToldPosition
<1> QED
  BY <1>7, <1>8

(* When no row fails to convert: SQL_SUCCESS stands for every row of the   *)
(* rowset, SQLGetData reads one of its rows, and every number the driver   *)
(* keeps lies in the result.                                               *)
THEOREM RowsetAnswers ==
    ASSUME "error" \notin Outcomes PROVE Spec => []AnswersTruthful
<1>1. RInv /\ Told => AnswersTruthful
  BY DEF RInv, Told, AnswersTruthful
<1> QED
  BY <1>1, RInit, RStep, ToldInit, ToldStep, PTL DEF Spec

(* When no row fails to convert, a positioned change of the first row of   *)
(* the rowset hits it, though set_current_cursor_data takes the client     *)
(* library's word for where it is.                                         *)
THEOREM RowsetChangesFirst ==
    ASSUME "error" \notin Outcomes PROVE Spec => []FirstRowHit
<1>1. Told => FirstRowHit
  BY DEF Told
<1> QED
  BY <1>1, RInit, RStep, ToldInit, ToldStep, PTL DEF Spec

LEMMA CursorStep ==
    ASSUME "error" \notin Outcomes, RInv, RInv', Next
    PROVE  AppCursor!CStep
<1> USE RowsetAssumption
<1>0. TypeOK /\ RowNumbers /\ RowsetIsWindow
  BY DEF RInv
<1>1. ASSUME NEW rows \in Nat, NEW f, Execute(rows, f)
      PROVE  AppCursor!COpen
  BY <1>1 DEF Execute, FreeResult, ResetPosition, AppCursor!COpen
<1>2. ASSUME SQLCloseCursor PROVE AppCursor!CClose
  <2>1. open' = FALSE /\ n' = 0
    BY <1>2 DEF SQLCloseCursor
  <2>2. /\ current_row' = 0 /\ rows_found_in_set' = 0 /\ rowset' = <<>>
        /\ call' = "OTHER"
    BY <1>2 DEF SQLCloseCursor, FreeResult, ResetPosition
  <2> QED
    BY Zenon, <2>1, <2>2 DEF AppCursor!CClose
<1>3. ASSUME Moves PROVE AppCursor!COther
  BY <1>3 DEF Moves, AppCursor!COther
<1>4. ASSUME NEW size \in ArraySizes, SetArraySize(size)
      PROVE  AppCursor!COther
  BY <1>4 DEF SetArraySize, result, cursor, AppCursor!COther
<1>5. ASSUME NEW type, NEW irow, FetchArgs(type, irow), FetchRows(type, irow)
      PROVE  AppCursor!CNext(array_size) \/ AppCursor!CScroll(array_size)
  <2> DEFINE cur == Target(type, irow)
             k   == Smaller(n - cur, array_size)
  <2>1. /\ cur \in 0..n /\ current_row' = cur /\ rows_found_in_set' = k
        /\ rowset' = [i \in 1..k |-> cur + i - 1]
    BY <1>5, FetchRowsEffect
  <2>2. open /\ UNCHANGED <<open, n>> /\ call' = FetchCall(type)
    BY <1>5 DEF FetchRows, result
  <2>3. AppCursor!Min2(n - cur, array_size) = k
    BY DEF AppCursor!Min2, Smaller
  <2> HIDE DEF k
  <2>4. AppCursor!Deliver(cur, array_size)
    BY <2>1, <2>3 DEF AppCursor!Deliver, AppCursor!Window
  <2>5. CASE type = "NEXT"
    <3>1. cur = IF current_row < 0 THEN 0
                ELSE current_row + rows_found_in_set
      BY <1>0, <2>5 DEF Target, compute_cur_row, NextRow, Smaller, TypeOK,
         RowNumbers
    <3> QED
      BY <2>2, <2>4, <2>5, <3>1 DEF AppCursor!CNext, FetchCall
  <2>6. CASE type # "NEXT"
    BY <2>1, <2>2, <2>4, <2>6 DEF AppCursor!CScroll, FetchCall
  <2> QED
    BY <2>5, <2>6
<1>6. ASSUME NEW type, NEW irow, FetchArgs(type, irow), FetchBefore(type, irow)
      PROVE  AppCursor!CBefore
  <2>1. type # "NEXT"
    BY <1>0, <1>6 DEF FetchBefore, compute_cur_row, NextRow, TypeOK
  <2> QED
    BY <1>6, <2>1 DEF FetchBefore, FetchCall, result, AppCursor!CBefore
<1>7. ASSUME NEW irow \in Nat,
             SetPosPosition(irow) \/ SetPosDelete(irow) \/ SetPosUpdate(irow)
      PROVE  AppCursor!COther
  BY <1>3, <1>7, SetPosMoves
<1>8. array_size \in ArraySizes
  BY <1>0 DEF TypeOK
<1> QED
  BY <1>0, <1>1, <1>2, <1>4, <1>5, <1>6, <1>7, <1>8, NextCases
     DEF AppCursor!CStep

(* When no row fails to convert, the driver implements the cursor that an  *)
(* application sees: SQL_FETCH_NEXT hands over the rows that follow the    *)
(* previous rowset, whatever array sizes, scrolling and SQLSetPos calls    *)
(* came in between.                                                        *)
THEOREM RowsetImplementsCursor ==
    ASSUME "error" \notin Outcomes PROVE Spec => ImplementsCursor
<1>1. Init => AppCursor!CInit
  BY DEF Init, AppCursor!CInit
<1>2. ASSUME RInv, RInv', [Next]_vars
      PROVE  [AppCursor!CStep]_AppCursor!cvars
  <2>1. CASE Next
    BY <1>2, <2>1, CursorStep
  <2>2. CASE UNCHANGED vars
    BY <2>2 DEF vars, AppCursor!cvars
  <2> QED
    BY <1>2, <2>1, <2>2
<1> QED
  BY <1>1, <1>2, RInit, RStep, PTL
     DEF Spec, ImplementsCursor, AppCursor!CSpec

(***************************************************************************)
(* SQLGetData.  The position a conversion keeps, as the number of units it *)
(* has delivered.                                                          *)
(***************************************************************************)
ByBytes == {"binary", "ansi", "bit"}
ByDigits == {"hex", "whex"}
AnyConversion == ByBytes \cup ByDigits \cup {"wide", "stream"}

Offset(g) == IF g.src_offset = None THEN 0 ELSE g.src_offset

Have(cv, g) ==
    CASE cv = "wide"     -> IF g.dst_bytes = None THEN 0 ELSE g.dst_offset
      [] cv \in ByDigits -> 2 * Offset(g)
      [] cv = "stream"   -> g.src_offset
      [] cv \in ByBytes  -> From(g)

(* Where the position of a text read as wide characters can be: before the *)
(* first call that was given a buffer, and after it, when one half of a    *)
(* pair may wait.  With a pair that was split by the first part (broken)   *)
(* the two positions no longer agree.                                      *)
WaitingHalf(g) == IF g.latest = 0 THEN 0 ELSE 1

WideBegun(g, v, broken) ==
    /\ ~CutsChar(v)
    /\ g.source \in 0..Whole(v)
    /\ g.dst_bytes = Wide(v, Whole(v)) /\ g.dst_offset \in Nat
    /\ Wide(v, g.source) <= g.dst_offset + WaitingHalf(g)
    /\ ~broken => /\ Wide(v, g.source) = g.dst_offset + WaitingHalf(g)
                  /\ g.latest # 0 => g.latest = g.dst_offset + 1
                  /\ g.dst_offset <= g.dst_bytes

WideUnbegun(g, v) ==
    /\ g.dst_bytes = None /\ g.dst_offset = None
    /\ g.source = None \/ g.source \in 0..Whole(v)
    /\ ~CutsChar(v) => g.source \in {None, 0} /\ g.latest = 0

Placed(cv, g, v, broken) ==
    CASE cv \in ByBytes  -> g.source = None
                              \/ g.source \in 0..Limited(Size(v))
      [] cv \in ByDigits -> g.src_offset = None
                              \/ g.src_offset \in 0..HexSize(v)
      [] cv = "stream"   -> g.src_offset \in 0..Size(v)
      [] cv = "wide"     -> WideUnbegun(g, v) \/ WideBegun(g, v, broken)

(* A call from here finds that everything has been delivered.              *)
AtEnd(cv, g, v) ==
    CASE cv \in ByBytes  -> g.source # None /\ g.source = Limited(Size(v))
      [] cv \in ByDigits -> g.src_offset # None /\ g.src_offset >= HexSize(v)
      [] cv = "stream"   -> g.src_offset = Size(v)
      [] cv = "wide"     -> g.dst_bytes # None /\ g.dst_offset >= g.dst_bytes

Unsound == {"split", "short", "stray"}

(* One call: where it leaves the position, what it delivers, and that its   *)
(* answer is true.  `whole`: no pair was split by the first part.          *)
PositionT == [column : Int, source : Int, of : Int, dst_bytes : Int,
              dst_offset : Int, src_offset : Int, latest : Nat]
Kept == {"binary", "ansi", "wide", "stream"}

Splits(cv, g, after) ==
    cv = "wide" /\ g.dst_bytes = None /\ after.latest # 0

Leaves(cv, g, v, ch, broken) ==
    /\ ch.getdata \in PositionT
    /\ ch.getdata.column = g.column /\ ch.getdata.of = g.of
    /\ Placed(cv, ch.getdata, v, broken \/ Splits(cv, g, ch.getdata))
    /\ ch.ret = "nodata" => ch.getdata = g
    /\ ch.units \in Seq(Nat)
    /\ ch.avail \in Nat \cup {None}
    /\ ch.ret \in {"success", "info", "nodata", "error", "crash"}
    /\ ch.ret = "error" => cv = "wide"

Joins(cv, g, v, cb, ch) ==
    ~(cv = "bit" /\ cb < 2) =>
        /\ Have(cv, ch.getdata) \in Have(cv, g)..Total(cv, v)
        /\ ch.units =
             Run(Have(cv, g) + 1, Have(cv, ch.getdata) - Have(cv, g))

Tells(cv, g, v, ch) ==
    /\ ch.ret = "nodata" => Have(cv, g) = Total(cv, v)
    /\ ch.avail # None /\ cv # "bit" /\ (cv = "ansi" => options.max = 0) =>
         ch.avail = IF cv = "stream" /\ ch.ret = "nodata" THEN Total(cv, v)
                    ELSE Total(cv, v) - Have(cv, g)
    /\ cv \in Kept =>
         /\ ch.ret \in {"success", "nodata"} => AtEnd(cv, ch.getdata, v)
         /\ ch.ret = "success" => Have(cv, ch.getdata) = Total(cv, v)
         /\ ch.ret = "info" => Have(cv, ch.getdata) < Total(cv, v)
                                 \/ Total(cv, v) = 0

GetsOn(cv, g, v, cb, ch) ==
    /\ ch.ret = "info" /\ RoomFor(cv, cb) => Len(ch.units) > 0
    /\ AtEnd(cv, g, v) => ch.ret = "nodata"

Faithful(cv, g, v, cb, ch, broken) ==
    /\ Leaves(cv, g, v, ch, broken)
    /\ GetsOn(cv, g, v, cb, ch)
    /\ ~broken /\ ~Splits(cv, g, ch.getdata) =>
         /\ Have(cv, g) \in Nat
         /\ Joins(cv, g, v, cb, ch)
         /\ Tells(cv, g, v, ch)

(* What the driver keeps of value v, read with conversion cv, and what the *)
(* application has of it.                                                  *)
Held(cv, v) ==
    /\ Placed(cv, getdata, v, "split" \in slips)
    /\ slips \cap Unsound = {} => got = Run(1, Have(cv, getdata))

Fresh(g) == /\ g.source = None /\ g.dst_bytes = None /\ g.dst_offset = None
            /\ g.src_offset = None /\ g.latest = 0

OwnerKnown == getdata.of = Nowhere <=> getdata.source = None

ColumnHeld ==
    row # <<>> /\ getdata.column \in Columns =>
        /\ conv \in Conversions(Kinds[getdata.column + 1])
        /\ "stray" \notin slips
        /\ conv # "bit" => "short" \notin slips
        /\ IF row[getdata.column + 1] = Null THEN Fresh(getdata)
           ELSE Held(conv, row[getdata.column + 1])

BookmarkHeld ==
    row # <<>> /\ getdata.column = Bookmark =>
        /\ slips \subseteq {"stray"}
        /\ getdata.of \in {Nowhere, Bookmark} => Held("binary", <<"n">>)

StreamHeld ==
    pending => /\ conv \in {"none", "stream"} /\ slips = {}
               /\ getdata.column + 1 =
                    Cardinality({i \in OutParams : i <= current_param})
               /\ current_param # None =>
                    Held("stream", outs[getdata.column + 1])

OneAtATime ==
    /\ pending => row = <<>>
    /\ row # <<>> => getdata.column \in Columns \cup {Bookmark}
    /\ conv = "stream" => row = <<>>
    /\ last.ret = "none" <=> conv = "none"
    /\ conv = "none" => got = <<>> /\ slips = {}

(* While the promise is kept, only an answer that there is more leaves     *)
(* something to deliver.                                                   *)
EndTold == Promised => last.ret = "info" \/ AtEnd(conv, getdata, Value)

GInv == /\ ReadTypeOK /\ OneAtATime /\ OwnerKnown
        /\ SourceInValue /\ ColumnHeld /\ BookmarkHeld /\ StreamHeld
        /\ ReadsWhole /\ CallsTruthful /\ EndTold

(***************************************************************************)
(* Lengths.  The characters that are pairs are counted: no more than all,  *)
(* and each at most once.                                                  *)
(***************************************************************************)
LEMMA PairsCount ==
    ASSUME NEW v, NEW i \in Nat
    PROVE  Pairs(v, i) \in 0..i
<1>1. IsFiniteSet(1..i) /\ Cardinality(1..i) = i
  <2>1. (0 + 1 > i) => i = 0
    OBVIOUS
  <2> QED
    BY <2>1, FS_Interval
<1>2. {j \in 1..i : v[j] = "p"} \in SUBSET (1..i)
  OBVIOUS
<1>3. /\ IsFiniteSet({j \in 1..i : v[j] = "p"})
      /\ Cardinality({j \in 1..i : v[j] = "p"}) <= i
  BY <1>1, <1>2, FS_Subset, Zenon
<1>4. Cardinality({j \in 1..i : v[j] = "p"}) \in Nat
  BY <1>3, FS_CardinalityType
<1> QED
  BY <1>3, <1>4 DEF Pairs

LEMMA PairsGrow ==
    ASSUME NEW v, NEW i \in Nat, NEW k \in Nat, i <= k
    PROVE  Pairs(v, i) <= Pairs(v, k)
<1>1. IsFiniteSet({j \in 1..k : v[j] = "p"})
  <2>1. IsFiniteSet(1..k)
    BY FS_Interval
  <2>2. {j \in 1..k : v[j] = "p"} \in SUBSET (1..k)
    OBVIOUS
  <2> QED
    BY <2>1, <2>2, FS_Subset, Zenon
<1>2. {j \in 1..i : v[j] = "p"} \in SUBSET {j \in 1..k : v[j] = "p"}
  OBVIOUS
<1>3. Cardinality({j \in 1..i : v[j] = "p"})
        <= Cardinality({j \in 1..k : v[j] = "p"})
  BY <1>1, <1>2, FS_Subset, Zenon
<1> QED
  BY <1>3 DEF Pairs

LEMMA PairsStep ==
    ASSUME NEW v, NEW i \in Nat
    PROVE  Pairs(v, i + 1) \in {Pairs(v, i), Pairs(v, i) + 1}
<1> DEFINE S == {j \in 1..i : v[j] = "p"}
           S1 == {j \in 1..(i + 1) : v[j] = "p"}
<1>1. IsFiniteSet(S)
  <2>1. IsFiniteSet(1..i)
    BY FS_Interval
  <2>2. S \in SUBSET (1..i)
    OBVIOUS
  <2> QED
    BY <2>1, <2>2, FS_Subset, Zenon
<1>2. Cardinality(S \cup {i + 1}) \in {Cardinality(S), Cardinality(S) + 1}
  <2>1. Cardinality(S \cup {i + 1}) =
          IF (i + 1) \in S THEN Cardinality(S) ELSE Cardinality(S) + 1
    BY <1>1, FS_AddElement, Zenon
  <2> QED
    BY <2>1
<1>3. S1 = S \/ S1 = S \cup {i + 1}
  <2>1. CASE v[i + 1] = "p"
    BY <2>1
  <2>2. CASE v[i + 1] # "p"
    BY <2>2
  <2> QED
    BY <2>1, <2>2
<1>4. Cardinality(S1) \in {Cardinality(S), Cardinality(S) + 1}
  <2> HIDE DEF S, S1
  <2> QED
    BY <1>2, <1>3
<1> QED
  BY <1>4 DEF Pairs

LEMMA WideGrows ==
    ASSUME NEW v, NEW i \in Nat, NEW k \in Nat, i <= k
    PROVE  /\ Wide(v, i) \in Nat /\ Wide(v, i) >= i /\ Wide(v, 0) = 0
           /\ Wide(v, k) - Wide(v, i) >= k - i
           /\ Wide(v, i + 1) - Wide(v, i) \in {1, 2}
<1>1. /\ Pairs(v, i) \in 0..i /\ Pairs(v, k) \in 0..k
      /\ Pairs(v, 0) \in 0..0 /\ Pairs(v, i) <= Pairs(v, k)
      /\ Pairs(v, i + 1) \in {Pairs(v, i), Pairs(v, i) + 1}
  BY PairsCount, PairsGrow, PairsStep
<1> QED
  BY <1>1 DEF Wide

LEMMA BytesGrow ==
    ASSUME NEW v, NEW i \in Nat
    PROVE  Bytes(v, i) \in Nat /\ Bytes(v, i) >= i /\ Bytes(v, 0) = 0
<1>1. Pairs(v, i) \in 0..i /\ Pairs(v, 0) \in 0..0
  BY PairsCount
<1> QED
  BY <1>1 DEF Bytes

LEMMA TextSize ==
    ASSUME NEW v \in Texts
    PROVE  Len(v) \in Nat /\ Size(v) \in Nat /\ (v # <<>> => Size(v) >= 1)
<1>1. Len(v) \in Nat /\ (v # <<>> => Len(v) >= 1)
  BY DEF Texts
<1> QED
  BY <1>1, BytesGrow DEF Size

LEMMA LimitedIn ==
    ASSUME options.max \in Nat, NEW k \in Nat
    PROVE  Limited(k) \in 0..k /\ (k >= 1 => Limited(k) >= 1)
  BY DEF Limited, Min2

LEMMA HexSizeIn ==
    ASSUME options.max \in Nat, NEW v, Size(v) \in Nat
    PROVE  HexSize(v) \in 0..Size(v)
<1>1. (options.max + 1) \div 2 \in Nat
  OBVIOUS
<1> QED
  BY <1>1 DEF HexSize, Min2

LEMMA Greatest ==
    ASSUME NEW m \in Nat, NEW S \in SUBSET (0..m), NEW z \in S
    PROVE  \E x \in S : \A y \in S : y <= x
<1> DEFINE D == {m - x : x \in S}
<1>1. D \subseteq Nat /\ D # {}
  <2>1. m - z \in D
    OBVIOUS
  <2>2. \A x \in 0..m : m - x \in Nat
    OBVIOUS
  <2>3. D \subseteq Nat
    BY <2>2, Zenon
  <2> QED
    BY <2>1, <2>3
<1>2. PICK d \in D : \A e \in D : <<e, d>> \notin OpToRel(<, Nat)
  <2> HIDE DEF D
  <2> QED
    BY <1>1, WFMin, NatLessThanWellFounded, Zenon
<1>3. \A e \in D : d <= e
  <2> HIDE DEF D
  <2>1. \A e \in D : ~(e < d)
    BY <1>1, <1>2 DEF OpToRel
  <2> QED
    BY <1>1, <2>1
<1>4. PICK x \in S : d = m - x
  OBVIOUS
<1>5. ASSUME NEW y \in S PROVE y <= x
  <2>1. m - y \in D
    OBVIOUS
  <2>2. d <= m - y
    BY <1>3, <2>1
  <2> HIDE DEF D
  <2> QED
    BY <1>4, <2>2
<1> QED
  BY <1>5

(* The characters within the limit are a beginning of the text.            *)
LEMMA WholeIn ==
    ASSUME options.max \in Nat, NEW v \in Texts
    PROVE  /\ Whole(v) \in 0..Len(v)
           /\ Bytes(v, Whole(v)) <= Limited(Size(v))
<1> DEFINE S == {i \in 0..Len(v) : Bytes(v, i) <= Limited(Size(v))}
<1>1. Len(v) \in Nat /\ Limited(Size(v)) \in Nat
  BY TextSize, LimitedIn
<1>2. 0 \in S
  BY <1>1, BytesGrow
<1>3. PICK i \in S : \A k \in S : k <= i
  <2>1. S \in SUBSET (0..Len(v))
    OBVIOUS
  <2> HIDE DEF S
  <2> QED
    BY <1>1, <1>2, <2>1, Greatest
<1>4. \A k \in (i + 1)..Len(v) : Bytes(v, k) > Limited(Size(v))
  <2> SUFFICES ASSUME NEW k \in (i + 1)..Len(v)
               PROVE  Bytes(v, k) > Limited(Size(v))
    OBVIOUS
  <2>1. k \in 0..Len(v) /\ ~(k <= i)
    BY <1>1
  <2>2. k \notin S
    BY <1>3, <2>1
  <2>3. Bytes(v, k) \in Nat
    BY <2>1, BytesGrow
  <2> QED
    BY <1>1, <2>1, <2>2, <2>3
<1>5. \E k \in 0..Len(v) :
         /\ Bytes(v, k) <= Limited(Size(v))
         /\ \A j \in (k + 1)..Len(v) : Bytes(v, j) > Limited(Size(v))
  BY <1>3, <1>4
<1> QED
  BY <1>5 DEF Whole

(* As many characters as there is room for, from one on: they fill it, or  *)
(* all but one place, and the next one is a pair.                          *)
Fitting(v, a, w, k, i) ==
    /\ Wide(v, i) - Wide(v, a) \in {k - 1, k}
    /\ \A j \in (i + 1)..w : Wide(v, j) - Wide(v, a) > k

LEMMA FittingExists ==
    ASSUME NEW v, NEW w \in Nat, NEW a \in 0..w, NEW k \in Nat,
           k <= Wide(v, w) - Wide(v, a)
    PROVE  \E i \in a..w : Fitting(v, a, w, k, i)
<1> DEFINE S == {i \in a..w : Wide(v, i) - Wide(v, a) <= k}
<1>0. \A i \in 0..w : /\ Wide(v, i) \in Nat
                      /\ Wide(v, i + 1) - Wide(v, i) \in {1, 2}
  BY WideGrows
<1>1. a \in S
  BY <1>0
<1>2. PICK i \in S : \A j \in S : j <= i
  <2>1. S \in SUBSET (0..w)
    OBVIOUS
  <2> HIDE DEF S
  <2> QED
    BY <1>1, <2>1, Greatest
<1>3. \A j \in (i + 1)..w : Wide(v, j) - Wide(v, a) > k
  <2> SUFFICES ASSUME NEW j \in (i + 1)..w
               PROVE  Wide(v, j) - Wide(v, a) > k
    OBVIOUS
  <2>1. j \in a..w /\ ~(j <= i)
    OBVIOUS
  <2>2. j \notin S
    BY <1>2, <2>1
  <2>3. Wide(v, j) \in Nat /\ Wide(v, a) \in Nat
    BY <1>0, <2>1
  <2> QED
    BY <2>1, <2>2, <2>3
<1>4. Wide(v, i) - Wide(v, a) \in {k - 1, k}
  <2>1. Wide(v, i) \in Nat /\ Wide(v, a) \in Nat /\ i \in a..w
        /\ Wide(v, i) - Wide(v, a) <= k
    BY <1>0
  <2>2. CASE i = w
    BY <2>1, <2>2
  <2>3. CASE i # w
    <3>1. i + 1 \in (i + 1)..w
      BY <2>1, <2>3
    <3>2. Wide(v, i + 1) - Wide(v, a) > k
      BY <1>3, <3>1
    <3>3. Wide(v, i + 1) - Wide(v, i) \in {1, 2} /\ Wide(v, i + 1) \in Nat
      BY <1>0, <2>1, <3>1
    <3> HIDE DEF S
    <3> QED
      BY <2>1, <3>2, <3>3
  <2> QED
    BY <2>2, <2>3
<1> QED
  BY <1>3, <1>4 DEF Fitting

LEMMA FittingFacts ==
    ASSUME NEW v, NEW w \in Nat, NEW a \in 0..w, NEW k \in Nat,
           k <= Wide(v, w) - Wide(v, a),
           NEW i \in a..w, Fitting(v, a, w, k, i)
    PROVE  /\ Wide(v, i) = Wide(v, a) + k
              \/ /\ Wide(v, i) = Wide(v, a) + k - 1
                 /\ i + 1 \in a..w
                 /\ Wide(v, i + 1) = Wide(v, a) + k + 1
                 /\ k < Wide(v, w) - Wide(v, a)
           /\ k = 0 => i = a
<1>1. /\ Wide(v, i) \in Nat /\ Wide(v, a) \in Nat /\ Wide(v, w) \in Nat
      /\ Wide(v, i + 1) \in Nat
      /\ Wide(v, i + 1) - Wide(v, i) \in {1, 2}
      /\ Wide(v, i) - Wide(v, a) >= i - a
  BY WideGrows
<1>2. k = 0 => i = a
  BY <1>1 DEF Fitting
<1>3. ASSUME Wide(v, i) # Wide(v, a) + k
      PROVE  /\ Wide(v, i) = Wide(v, a) + k - 1 /\ i + 1 \in a..w
             /\ Wide(v, i + 1) = Wide(v, a) + k + 1
             /\ k < Wide(v, w) - Wide(v, a)
  <2>1. Wide(v, i) = Wide(v, a) + k - 1
    BY <1>1, <1>3 DEF Fitting
  <2>2. i # w
    BY <1>1, <2>1
  <2>3. i + 1 \in (i + 1)..w /\ i + 1 \in a..w
    BY <2>2
  <2>4. Wide(v, i + 1) - Wide(v, a) > k
    BY <2>3 DEF Fitting
  <2>5. Wide(v, w) - Wide(v, i + 1) >= w - (i + 1)
    BY <2>3, WideGrows
  <2> QED
    BY <1>1, <2>1, <2>3, <2>4, <2>5
<1> QED
  BY <1>2, <1>3

(***************************************************************************)
(* Runs of units.                                                          *)
(***************************************************************************)
LEMMA RunIs ==
    ASSUME NEW a \in Nat, NEW k \in Nat
    PROVE  /\ Run(a, k) \in Seq(Nat) /\ Len(Run(a, k)) = k
           /\ Run(a, 0) = <<>>
           /\ \A i \in 1..k : Run(a, k)[i] = a + i - 1
<1>1. Run(a, k) \in Seq(Nat) /\ Len(Run(a, k)) = k
  BY DEF Run
<1>2. Run(a, 0) = <<>>
  BY DEF Run
<1>3. \A i \in 1..k : Run(a, k)[i] = a + i - 1
  BY DEF Run
<1> QED
  BY <1>1, <1>2, <1>3

LEMMA Concatenates ==
    ASSUME NEW s \in Seq(Nat), NEW t \in Seq(Nat), NEW u \in Seq(Nat),
           Len(u) = Len(s) + Len(t),
           \A i \in 1..Len(s) : u[i] = s[i],
           \A i \in 1..Len(t) : u[Len(s) + i] = t[i]
    PROVE  s \o t = u
<1>1. s \o t \in Seq(Nat) /\ Len(s \o t) = Len(u)
  OBVIOUS
<1>2. ASSUME NEW i \in 1..Len(u) PROVE (s \o t)[i] = u[i]
  <2>1. i <= Len(s) \/ i > Len(s)
    OBVIOUS
  <2>2. CASE i <= Len(s)
    BY <2>2
  <2>3. CASE i > Len(s)
    <3>1. i - Len(s) \in 1..Len(t) /\ Len(s) + (i - Len(s)) = i
      BY <2>3
    <3>2. u[i] = t[i - Len(s)]
      BY <3>1
    <3>3. (s \o t)[i] = t[i - Len(s)]
      BY <2>3
    <3> QED
      BY <3>2, <3>3, Zenon
  <2> QED
    BY <2>1, <2>2, <2>3, Zenon
<1>3. PICK w : w = s \o t
  OBVIOUS
<1>4. w \in Seq(Nat) /\ Len(w) = Len(u)
  BY <1>1, <1>3, Zenon
<1>5. \A i \in 1..Len(u) : w[i] = u[i]
  BY <1>2, <1>3, Zenon
<1>6. w \in [1..Len(w) -> Nat] /\ u \in [1..Len(u) -> Nat]
  BY <1>4
<1>7. w = u
  BY <1>4, <1>5, <1>6
<1> QED
  BY <1>3, <1>7, Zenon

LEMMA RunJoins ==
    ASSUME NEW a \in Nat, NEW k \in Nat
    PROVE  Run(1, a) \o Run(a + 1, k) = Run(1, a + k)
<1>0. 1 \in Nat /\ a + 1 \in Nat /\ a + k \in Nat
  OBVIOUS
<1>1. /\ Run(1, a) \in Seq(Nat) /\ Len(Run(1, a)) = a
      /\ \A i \in 1..a : Run(1, a)[i] = 1 + i - 1
  BY <1>0, RunIs, Zenon
<1>2. /\ Run(a + 1, k) \in Seq(Nat) /\ Len(Run(a + 1, k)) = k
      /\ \A i \in 1..k : Run(a + 1, k)[i] = a + 1 + i - 1
  BY <1>0, RunIs, Zenon
<1>3. /\ Run(1, a + k) \in Seq(Nat) /\ Len(Run(1, a + k)) = a + k
      /\ \A i \in 1..(a + k) : Run(1, a + k)[i] = 1 + i - 1
  BY <1>0, RunIs, Zenon
<1>4. \A i \in 1..Len(Run(1, a)) : Run(1, a + k)[i] = Run(1, a)[i]
  BY <1>1, <1>3
<1>5. \A i \in 1..Len(Run(a + 1, k)) :
         Run(1, a + k)[Len(Run(1, a)) + i] = Run(a + 1, k)[i]
  <2> SUFFICES ASSUME NEW i \in 1..k
               PROVE  Run(1, a + k)[a + i] = Run(a + 1, k)[i]
    BY <1>1, <1>2
  <2>1. a + i \in 1..(a + k) /\ 1 + (a + i) - 1 = a + 1 + i - 1
    OBVIOUS
  <2> QED
    BY <1>2, <1>3, <2>1, Zenon
<1>6. Len(Run(1, a + k)) = Len(Run(1, a)) + Len(Run(a + 1, k))
  BY <1>1, <1>2, <1>3
<1> QED
  BY <1>1, <1>2, <1>3, <1>4, <1>5, <1>6, Concatenates, Zenon

LEMMA RunHead ==
    ASSUME NEW a \in Nat, NEW k \in Nat
    PROVE  <<a>> \o Run(a + 1, k) = Run(a, k + 1)
<1>0. a + 1 \in Nat /\ k + 1 \in Nat /\ k + 1 = 1 + k
  OBVIOUS
<1>1. <<a>> \in Seq(Nat) /\ Len(<<a>>) = 1 /\ <<a>>[1] = a
  OBVIOUS
<1>2. /\ Run(a + 1, k) \in Seq(Nat) /\ Len(Run(a + 1, k)) = k
      /\ \A i \in 1..k : Run(a + 1, k)[i] = a + 1 + i - 1
  BY <1>0, RunIs, Zenon
<1>3. /\ Run(a, k + 1) \in Seq(Nat) /\ Len(Run(a, k + 1)) = k + 1
      /\ \A i \in 1..(k + 1) : Run(a, k + 1)[i] = a + i - 1
  BY <1>0, RunIs, Zenon
<1>4. \A i \in 1..Len(<<a>>) : Run(a, k + 1)[i] = <<a>>[i]
  BY <1>1, <1>3
<1>5. \A i \in 1..Len(Run(a + 1, k)) :
         Run(a, k + 1)[Len(<<a>>) + i] = Run(a + 1, k)[i]
  BY <1>1, <1>2, <1>3
<1>6. Len(Run(a, k + 1)) = Len(<<a>>) + Len(Run(a + 1, k))
  BY <1>1, <1>2, <1>3
<1> QED
  BY <1>0, <1>1, <1>2, <1>3, <1>4, <1>5, <1>6, Concatenates, Zenon

(***************************************************************************)
(* What the notions above come to for each kind of conversion.             *)
(***************************************************************************)
LEMMA BytesCase ==
    ASSUME NEW cv \in ByBytes, NEW g, NEW v, NEW broken
    PROVE  /\ Have(cv, g) = From(g)
           /\ Total(cv, v) = Limited(Size(v))
           /\ Placed(cv, g, v, broken)
                <=> g.source = None \/ g.source \in 0..Limited(Size(v))
           /\ AtEnd(cv, g, v)
                <=> g.source # None /\ g.source = Limited(Size(v))
           /\ cv # "wide" /\ cv # "stream"
<1>1. cv \in {"binary", "ansi", "bit"}
  BY DEF ByBytes
<1> QED
  BY <1>1 DEF Have, Total, Placed, AtEnd, ByDigits, ByBytes

LEMMA DigitsCase ==
    ASSUME NEW cv \in ByDigits, NEW g, NEW v, NEW broken
    PROVE  /\ Have(cv, g) = 2 * Offset(g)
           /\ Total(cv, v) = 2 * HexSize(v)
           /\ Placed(cv, g, v, broken)
                <=> g.src_offset = None \/ g.src_offset \in 0..HexSize(v)
           /\ AtEnd(cv, g, v)
                <=> g.src_offset # None /\ g.src_offset >= HexSize(v)
           /\ cv \notin Kept /\ cv # "bit"
<1>1. cv \in {"hex", "whex"}
  BY DEF ByDigits
<1> QED
  BY <1>1 DEF Have, Total, Placed, AtEnd, ByDigits, ByBytes, Kept

LEMMA StreamCase ==
    ASSUME NEW g, NEW v, NEW broken
    PROVE  /\ Have("stream", g) = g.src_offset
           /\ Total("stream", v) = Size(v)
           /\ Placed("stream", g, v, broken) <=> g.src_offset \in 0..Size(v)
           /\ AtEnd("stream", g, v) <=> g.src_offset = Size(v)
  BY DEF Have, Total, Placed, AtEnd, ByDigits, ByBytes

LEMMA WideCase ==
    ASSUME NEW g, NEW v, NEW broken
    PROVE  /\ Have("wide", g) =
                IF g.dst_bytes = None THEN 0 ELSE g.dst_offset
           /\ Total("wide", v) = Wide(v, Whole(v))
           /\ Placed("wide", g, v, broken)
                <=> WideUnbegun(g, v) \/ WideBegun(g, v, broken)
           /\ AtEnd("wide", g, v)
                <=> g.dst_bytes # None /\ g.dst_offset >= g.dst_bytes
  BY DEF Have, Total, Placed, AtEnd, ByDigits, ByBytes

(* What is changed of a position.                                          *)
LEMMA PositionSet ==
    ASSUME NEW g \in PositionT, NEW x \in Int
    PROVE  /\ [g EXCEPT !.source = x] \in PositionT
           /\ [g EXCEPT !.source = x].source = x
           /\ [g EXCEPT !.source = x].column = g.column
           /\ [g EXCEPT !.source = x].of = g.of
           /\ [g EXCEPT !.source = x].latest = g.latest
           /\ [g EXCEPT !.src_offset = x] \in PositionT
           /\ [g EXCEPT !.src_offset = x].src_offset = x
           /\ [g EXCEPT !.src_offset = x].column = g.column
           /\ [g EXCEPT !.src_offset = x].of = g.of
           /\ [g EXCEPT !.src_offset = x].latest = g.latest
  BY DEF PositionT

LEMMA NoUnits ==
    <<>> \in Seq(Nat) /\ Len(<<>>) = 0 /\ \A a \in Nat : Run(a + 1, 0) = <<>>
<1>1. \A a \in Nat : Run(a + 1, 0) = <<>>
  <2> TAKE a \in Nat
  <2>1. a + 1 \in Nat /\ 0 \in Nat
    OBVIOUS
  <2> QED
    BY <2>1, RunIs, Zenon
<1> QED
  BY <1>1

(***************************************************************************)
(* The bytes of a value, as many as there is room for.                     *)
(***************************************************************************)
LEMMA BinaryFaithful ==
    ASSUME options.max \in Nat, NEW v \in Texts, NEW g \in PositionT,
           NEW cv \in {"binary", "ansi"}, NEW cb \in Nat, NEW room \in Nat,
           RoomFor(cv, cb) => room >= 1,
           NEW broken \in BOOLEAN, Placed(cv, g, v, broken)
    PROVE  Faithful(cv, g, v, cb, CopyBinary(g, v, room), broken)
<1> DEFINE L     == Limited(Size(v))
           f     == From(g)
           k     == Min2(room, L - f)
           after == [g EXCEPT !.source = f + k]
           ch    == CopyBinary(g, v, room)
<1>0. cv \in ByBytes /\ cv \in {"binary", "ansi"} /\ cv # "bit"
  BY DEF ByBytes
<1>1. L \in Nat /\ f \in 0..L /\ g.source \in Int
      /\ (g.source # None => f = g.source) /\ (g.source = None => f = 0)
      /\ f # None /\ L # None
  <2>1. L \in Nat
    BY TextSize, LimitedIn
  <2>2. g.source = None \/ g.source \in 0..L
    BY <1>0, BytesCase
  <2>3. g.source \in Int
    BY DEF PositionT
  <2> HIDE DEF L
  <2> QED
    BY <2>1, <2>2, <2>3 DEF From, None
<1> HIDE DEF L, f
<1>2. k \in 0..(L - f) /\ (room >= L - f => k = L - f)
      /\ (room < L - f => k = room) /\ f + k \in Int
  BY <1>1 DEF Min2
<1> HIDE DEF k
<1>3. /\ after \in PositionT /\ after.source = f + k
      /\ after.column = g.column /\ after.of = g.of
  BY <1>2, PositionSet, Zenon
<1> HIDE DEF after
<1>4. From(after) = f + k
  BY <1>1, <1>2, <1>3 DEF From, None
<1>5. /\ Have(cv, g) = f /\ Have(cv, after) = f + k /\ Total(cv, v) = L
      /\ AtEnd(cv, g, v) <=> g.source # None /\ g.source = L
      /\ AtEnd(cv, after, v) <=> f + k = L
      /\ Placed(cv, after, v, broken)
      /\ Placed(cv, g, v, broken)
      /\ ~Splits(cv, g, after) /\ ~Splits(cv, g, g)
  <2>1. /\ Have(cv, g) = f /\ Have(cv, after) = f + k /\ Total(cv, v) = L
        /\ AtEnd(cv, g, v) <=> g.source # None /\ g.source = L
    BY <1>0, <1>4, BytesCase DEF L, f
  <2>2. AtEnd(cv, after, v) <=> f + k # None /\ f + k = L
    BY <1>0, <1>3, BytesCase DEF L
  <2>3. f + k # None /\ f + k \in 0..L
    BY <1>1, <1>2 DEF None
  <2>4. Placed(cv, after, v, broken)
    BY <1>0, <1>3, <2>3, BytesCase DEF L
  <2>5. ~Splits(cv, g, after) /\ ~Splits(cv, g, g)
    BY <1>0 DEF Splits
  <2> QED
    BY <2>1, <2>2, <2>3, <2>4, <2>5
<1>6. CASE Exhausted(g, L - f)
  <2>1. ch = Chunk(g, <<>>, None, "nodata")
    <3>1. Exhausted(g, Limited(Size(v)) - From(g))
      BY <1>6 DEF L, f
    <3> QED
      BY <3>1 DEF CopyBinary, EndOfData
  <2>2. ch.getdata = g /\ ch.units = <<>> /\ ch.avail = None
        /\ ch.ret = "nodata"
    BY <2>1 DEF Chunk
  <2> HIDE DEF ch
  <2>3. g.source # None /\ g.source = L /\ f = L
    BY <1>1, <1>6 DEF Exhausted
  <2>4. f - f = 0 /\ f \in f..L /\ f \in Nat
    BY <1>1
  <2>5. Run(f + 1, f - f) = <<>>
    BY <2>4, NoUnits
  <2>6. Leaves(cv, g, v, ch, broken)
    BY <1>5, <2>2, NoUnits DEF Leaves
  <2>7. Joins(cv, g, v, cb, ch)
    BY <1>5, <2>2, <2>4, <2>5 DEF Joins
  <2>8. Tells(cv, g, v, ch) /\ GetsOn(cv, g, v, cb, ch)
    BY <1>5, <2>2, <2>3 DEF Tells, GetsOn
  <2>9. Have(cv, g) \in Nat
    BY <1>5, <2>4
  <2> QED
    BY <2>6, <2>7, <2>8, <2>9, Zenon DEF Faithful, ch
<1>7. CASE ~Exhausted(g, L - f)
  <2>1. ch = Chunk(after, Run(f + 1, k), L - f,
                   IF Truncated(L - f, room) THEN "info" ELSE "success")
    BY <1>7 DEF CopyBinary, L, f, k, after
  <2>2. ch.getdata = after /\ ch.units = Run(f + 1, k) /\ ch.avail = L - f
        /\ ch.ret = IF L - f > room THEN "info" ELSE "success"
    BY <2>1 DEF Truncated, Chunk
  <2> HIDE DEF ch
  <2>3. Run(f + 1, k) \in Seq(Nat) /\ Len(Run(f + 1, k)) = k
    <3>1. f + 1 \in Nat /\ k \in Nat
      BY <1>1, <1>2
    <3> QED
      BY <3>1, RunIs, Zenon
  <2>4. g.source = None \/ g.source # L
    BY <1>1, <1>7 DEF Exhausted
  <2>5. Leaves(cv, g, v, ch, broken)
    BY <1>1, <1>3, <1>5, <2>2, <2>3 DEF Leaves
  <2>6. Joins(cv, g, v, cb, ch)
    <3>1. f + k \in f..L /\ (f + k) - f = k
      BY <1>1, <1>2
    <3> QED
      BY <1>5, <2>2, <3>1 DEF Joins
  <2>7. Tells(cv, g, v, ch)
    BY <1>0, <1>1, <1>2, <1>5, <2>2 DEF Tells
  <2>8. GetsOn(cv, g, v, cb, ch)
    BY <1>1, <1>2, <1>5, <2>2, <2>3, <2>4 DEF GetsOn
  <2>9. Have(cv, g) \in Nat
    BY <1>1, <1>5
  <2> QED
    BY <2>5, <2>6, <2>7, <2>8, <2>9, Zenon DEF Faithful, ch
<1> QED
  BY <1>6, <1>7

LEMMA AnsiFaithful ==
    ASSUME options.max \in Nat, NEW v \in Texts, NEW g \in PositionT,
           NEW cb \in Nat, NEW broken \in BOOLEAN,
           Placed("ansi", g, v, broken)
    PROVE  Faithful("ansi", g, v, cb, CopyAnsi(g, v, cb), broken)
<1> DEFINE ch   == CopyAnsi(g, v, cb)
           room == IF cb = 0 THEN 0 ELSE cb - 1
<1>1. CASE cb = 0 /\ g.source = None
  <2>1. /\ ch.getdata = g /\ ch.units = <<>> /\ ch.avail = Size(v)
        /\ ch.ret = "info"
    BY <1>1 DEF CopyAnsi, Chunk
  <2> HIDE DEF ch
  <2>2. /\ Size(v) \in Nat /\ Limited(Size(v)) \in Nat
        /\ options.max = 0 => Limited(Size(v)) = Size(v)
    BY TextSize, LimitedIn DEF Limited
  <2>3. /\ Have("ansi", g) = 0 /\ Total("ansi", v) = Limited(Size(v))
        /\ ~AtEnd("ansi", g, v)
    <3>1. "ansi" \in ByBytes
      BY DEF ByBytes
    <3>2. From(g) = 0
      BY <1>1 DEF From
    <3> QED
      BY <1>1, <3>1, <3>2, BytesCase
  <2>4. ~Splits("ansi", g, g)
    BY DEF Splits
  <2>5. Leaves("ansi", g, v, ch, broken)
    BY <2>1, <2>2, <2>4, NoUnits DEF Leaves
  <2>6. Joins("ansi", g, v, cb, ch)
    <3>1. Run(0 + 1, 0 - 0) = <<>>
      BY NoUnits
    <3> QED
      BY <2>1, <2>2, <2>3, <3>1 DEF Joins
  <2>7. Tells("ansi", g, v, ch)
    BY <2>1, <2>2, <2>3 DEF Tells
  <2>8. GetsOn("ansi", g, v, cb, ch)
    BY <1>1, <2>1, <2>3 DEF GetsOn, RoomFor
  <2>9. Have("ansi", g) \in Nat
    BY <2>3
  <2> QED
    BY <2>5, <2>6, <2>7, <2>8, <2>9, Zenon DEF Faithful, ch
<1>2. CASE ~(cb = 0 /\ g.source = None)
  <2>1. ch = CopyBinary(g, v, room)
    BY <1>2 DEF CopyAnsi
  <2>2. room \in Nat /\ (RoomFor("ansi", cb) => room >= 1)
    BY DEF RoomFor
  <2> HIDE DEF ch, room
  <2>3. Faithful("ansi", g, v, cb, CopyBinary(g, v, room), broken)
    BY <2>2, BinaryFaithful
  <2> QED
    BY <2>1, <2>3, Zenon DEF ch
<1> QED
  BY <1>1, <1>2

(* A BIT is never empty, so a digit is there until it has been asked for.  *)
LEMMA BitFaithful ==
    ASSUME options.max \in Nat, NEW v \in Texts, v # <<>>,
           NEW g \in PositionT, NEW cb \in Nat, NEW broken \in BOOLEAN,
           Placed("bit", g, v, broken)
    PROVE  Faithful("bit", g, v, cb, CopyBit(g, v, cb), broken)
<1> DEFINE L     == Limited(Size(v))
           f     == From(g)
           after == [g EXCEPT !.source = f + 1]
           ch    == CopyBit(g, v, cb)
<1>0. "bit" \in ByBytes /\ "bit" \notin Kept
  BY DEF ByBytes, Kept
<1>1. /\ L \in Nat /\ L >= 1 /\ f \in 0..L
      /\ g.source # None => f = g.source
      /\ g.source = None => f = 0
  <2>1. L \in Nat /\ L >= 1
    BY TextSize, LimitedIn
  <2>2. g.source = None \/ g.source \in 0..L
    BY <1>0, BytesCase
  <2> HIDE DEF L
  <2> QED
    BY <2>1, <2>2 DEF From, None
<1> HIDE DEF L, f
<1>2. /\ Have("bit", g) = f /\ Total("bit", v) = L
      /\ AtEnd("bit", g, v) <=> g.source # None /\ g.source = L
      /\ \A p : ~Splits("bit", g, p)
  BY <1>0, BytesCase DEF L, f, Splits
<1>3. CASE Exhausted(g, L - f)
  <2>1. /\ ch.getdata = g /\ ch.units = <<>> /\ ch.avail = None
        /\ ch.ret = "nodata"
    <3>1. Exhausted(g, Limited(Size(v)) - From(g))
      BY <1>3 DEF L, f
    <3> QED
      BY <3>1 DEF CopyBit, EndOfData, Chunk
  <2> HIDE DEF ch
  <2>2. g.source # None /\ g.source = L /\ f = L
    BY <1>1, <1>3 DEF Exhausted
  <2>3. f - f = 0 /\ f \in f..L /\ Run(f + 1, f - f) = <<>>
    BY <1>1, NoUnits
  <2>4. Leaves("bit", g, v, ch, broken)
    BY <1>2, <2>1, NoUnits DEF Leaves
  <2>5. Joins("bit", g, v, cb, ch)
    BY <1>2, <2>1, <2>3 DEF Joins
  <2>6. Tells("bit", g, v, ch) /\ GetsOn("bit", g, v, cb, ch)
    BY <1>0, <1>2, <2>1, <2>2 DEF Tells, GetsOn
  <2>7. Have("bit", g) \in Nat
    BY <1>1, <1>2
  <2> QED
    BY <2>4, <2>5, <2>6, <2>7, Zenon DEF Faithful, ch
<1>4. CASE ~Exhausted(g, L - f)
  <2>1. /\ ch.getdata = after /\ ch.avail = 1 /\ ch.ret = "success"
        /\ ch.units = IF cb < 2 THEN <<>> ELSE <<f + 1>>
    <3>1. ~Exhausted(g, Limited(Size(v)) - From(g))
      BY <1>4 DEF L, f
    <3> QED
      BY <3>1 DEF CopyBit, Chunk, f
  <2>2. f + 1 \in 1..L /\ (g.source = None \/ g.source # L)
        /\ f + 1 \in Nat /\ f + 1 \in Int /\ f + 1 # None
    BY <1>1, <1>4 DEF Exhausted, None
  <2>3. /\ after \in PositionT /\ after.source = f + 1
        /\ after.column = g.column /\ after.of = g.of
    BY <2>2, PositionSet, Zenon
  <2> HIDE DEF ch, after
  <2>4. Placed("bit", after, v, broken) /\ Have("bit", after) = f + 1
    <3>1. From(after) = f + 1
      BY <2>2, <2>3 DEF From
    <3>2. after.source \in 0..L
      BY <1>1, <2>2, <2>3
    <3>3. Placed("bit", after, v, broken) /\ Have("bit", after) = From(after)
      BY <1>0, <3>2, BytesCase, Zenon DEF L
    <3> QED
      BY <3>1, <3>3, Zenon
  <2>5. ch.units \in Seq(Nat)
    BY <2>1, <2>2
  <2>6. Leaves("bit", g, v, ch, broken)
    BY <1>2, <2>1, <2>3, <2>4, <2>5 DEF Leaves
  <2>7. Joins("bit", g, v, cb, ch)
    <3>1. Run(f + 1, 1) = <<f + 1>>
      <4>1. Run(f + 1, 0 + 1) = <<f + 1>> \o Run(f + 1 + 1, 0)
        BY <2>2, RunHead
      <4>2. Run(f + 1 + 1, 0) = <<>>
        BY <2>2, NoUnits
      <4> QED
        BY <2>2, <4>1, <4>2
    <3>2. (f + 1) - f = 1 /\ f + 1 \in f..L
      BY <1>1, <2>2
    <3> QED
      BY <1>2, <2>1, <2>4, <3>1, <3>2 DEF Joins
  <2>8. Tells("bit", g, v, ch) /\ GetsOn("bit", g, v, cb, ch)
    BY <1>0, <1>2, <2>1, <2>2 DEF Tells, GetsOn
  <2>9. Have("bit", g) \in Nat
    BY <1>1, <1>2
  <2> QED
    BY <2>6, <2>7, <2>8, <2>9, Zenon DEF Faithful, ch
<1> QED
  BY <1>3, <1>4

(***************************************************************************)
(* The bytes of a streamed parameter.                                      *)
(***************************************************************************)
LEMMA StreamFaithful ==
    ASSUME NEW v \in Texts, NEW g \in PositionT, NEW cb \in Nat,
           NEW broken \in BOOLEAN, Placed("stream", g, v, broken)
    PROVE  Faithful("stream", g, v, cb, FetchChunk(g, v, cb), broken)
<1> DEFINE L     == Size(v)
           f     == g.src_offset
           k     == Min2(cb, L - f)
           after == [g EXCEPT !.src_offset = f + k]
           ch    == FetchChunk(g, v, cb)
<1>1. L \in Nat /\ f \in 0..L
  BY TextSize, StreamCase
<1>2. k \in 0..(L - f) /\ f + k \in Int /\ k \in Nat /\ f + 1 \in Nat
      /\ (cb >= L - f => k = L - f) /\ (cb < L - f => k = cb)
  <2> HIDE DEF L, f
  <2> QED
    BY <1>1 DEF Min2
<1>3. /\ Have("stream", g) = f /\ Total("stream", v) = L
      /\ AtEnd("stream", g, v) <=> f = L
      /\ \A p : ~Splits("stream", g, p)
  BY StreamCase DEF Splits
<1> HIDE DEF L, k
<1>4. CASE L - f = 0
  <2>1. /\ ch.getdata = g /\ ch.units = <<>> /\ ch.avail = L
        /\ ch.ret = "nodata"
    BY <1>4 DEF FetchChunk, Chunk, L
  <2> HIDE DEF ch, f
  <2>2. f = L /\ f - f = 0 /\ f \in f..L /\ Run(f + 1, f - f) = <<>>
    BY <1>1, <1>4, NoUnits
  <2>3. Leaves("stream", g, v, ch, broken)
    BY <1>1, <1>3, <2>1, NoUnits DEF Leaves
  <2>4. Joins("stream", g, v, cb, ch)
    BY <1>3, <2>1, <2>2 DEF Joins
  <2>5. Tells("stream", g, v, ch) /\ GetsOn("stream", g, v, cb, ch)
    BY <1>3, <2>1, <2>2 DEF Tells, GetsOn
  <2>6. Have("stream", g) \in Nat
    BY <1>1, <1>3
  <2> QED
    BY <2>3, <2>4, <2>5, <2>6, Zenon DEF Faithful, ch
<1>5. CASE L - f # 0
  <2>1. /\ ch.getdata = after /\ ch.units = Run(f + 1, k)
        /\ ch.avail = L - f
        /\ ch.ret = IF L - f > cb THEN "info" ELSE "success"
    BY <1>5 DEF FetchChunk, Chunk, L, k
  <2> HIDE DEF f
  <2>2. /\ after \in PositionT /\ after.src_offset = f + k
        /\ after.column = g.column /\ after.of = g.of
    BY <1>2, PositionSet
  <2> HIDE DEF ch, after
  <2>3. /\ Run(f + 1, k) \in Seq(Nat) /\ Len(Run(f + 1, k)) = k
    BY <1>2, RunIs, Zenon
  <2>4. f + k \in 0..L /\ f + k \in f..L /\ (f + k) - f = k /\ f # L
    BY <1>1, <1>2, <1>5
  <2>5. /\ Placed("stream", after, v, broken) /\ Have("stream", after) = f + k
        /\ AtEnd("stream", after, v) <=> f + k = L
    BY <2>2, <2>4, StreamCase DEF L
  <2>6. Leaves("stream", g, v, ch, broken)
    BY <1>1, <1>3, <2>1, <2>2, <2>3, <2>5 DEF Leaves
  <2>7. Joins("stream", g, v, cb, ch)
    BY <1>3, <2>1, <2>4, <2>5 DEF Joins
  <2>8. Tells("stream", g, v, ch)
    BY <1>1, <1>2, <1>3, <2>1, <2>4, <2>5 DEF Tells
  <2>9. GetsOn("stream", g, v, cb, ch)
    BY <1>1, <1>2, <1>3, <2>1, <2>3, <2>4 DEF GetsOn, RoomFor
  <2>10. Have("stream", g) \in Nat
    BY <1>1, <1>3
  <2> QED
    BY <2>6, <2>7, <2>8, <2>9, <2>10, Zenon DEF Faithful, ch
<1> QED
  BY <1>4, <1>5

(***************************************************************************)
(* The digits of a BLOB. `width` decides only when SQL_SUCCESS is told.    *)
(***************************************************************************)
LEMMA DigitsFaithful ==
    ASSUME options.max \in Nat, NEW v \in Texts, NEW g \in PositionT,
           NEW cv \in ByDigits, NEW cb \in Nat, NEW width \in {1, 2},
           NEW broken \in BOOLEAN, Placed(cv, g, v, broken)
    PROVE  Faithful(cv, g, v, cb, CopyBinhex(g, v, cb, width), broken)
<1> DEFINE L     == HexSize(v)
           f     == Offset(g)
           room  == IF HexRoom(cb) = 0 THEN 0 ELSE (HexRoom(cb) - 1) \div 2
           k     == Min2(L - f, room)
           after == [g EXCEPT !.src_offset = f + k]
           ch    == CopyBinhex(g, v, cb, width)
<1>0. cv \in {"hex", "whex"} /\ cv \notin Kept /\ cv # "bit" /\ cv # "stream"
  BY DEF ByDigits, Kept
<1>1. /\ L \in Nat /\ f \in 0..L
      /\ g.src_offset # None => f = g.src_offset
      /\ g.src_offset = None => f = 0
  <2>1. L \in Nat
    BY TextSize, HexSizeIn
  <2>2. g.src_offset = None \/ g.src_offset \in 0..L
    BY DigitsCase
  <2> HIDE DEF L
  <2> QED
    BY <2>1, <2>2 DEF Offset, None
<1>2. room \in Nat /\ (RoomFor(cv, cb) => room >= 1)
  <2>1. HexRoom(cb) \in Nat
        /\ (cb >= 3 /\ options.max # 1 => HexRoom(cb) >= 3)
    BY DEF HexRoom, Min2
  <2>2. RoomFor(cv, cb) => cb >= 3 /\ options.max # 1
    BY <1>0 DEF RoomFor
  <2> QED
    BY <2>1, <2>2
<1> HIDE DEF L, f, room
<1>3. k \in Nat /\ k \in 0..(L - f) /\ f + k \in Int
      /\ (L - f >= 1 /\ room >= 1 => k >= 1)
  BY <1>1, <1>2 DEF Min2
<1>4. /\ Have(cv, g) = 2 * f /\ Total(cv, v) = 2 * L
      /\ AtEnd(cv, g, v) <=> g.src_offset # None /\ g.src_offset >= L
      /\ \A p : ~Splits(cv, g, p)
  BY <1>0, DigitsCase DEF L, f, Splits
<1>5. CASE g.src_offset # None /\ g.src_offset >= L
  <2>1. /\ ch.getdata = g /\ ch.units = <<>> /\ ch.avail = None
        /\ ch.ret = "nodata"
    BY <1>5 DEF CopyBinhex, EndOfData, Chunk, L
  <2> HIDE DEF ch
  <2>2. f = L /\ 2 * f - 2 * f = 0 /\ 2 * f \in Nat /\ 2 * f \in 2 * f .. 2 * L
    BY <1>1, <1>5
  <2>3. Run(2 * f + 1, 2 * f - 2 * f) = <<>>
    BY <2>2, NoUnits
  <2>4. Leaves(cv, g, v, ch, broken)
    BY <1>4, <2>1, NoUnits DEF Leaves
  <2>5. Joins(cv, g, v, cb, ch)
    BY <1>4, <2>1, <2>2, <2>3 DEF Joins
  <2>6. Tells(cv, g, v, ch) /\ GetsOn(cv, g, v, cb, ch)
    BY <1>0, <1>4, <2>1, <2>2 DEF Tells, GetsOn
  <2>7. Have(cv, g) \in Nat
    BY <1>4, <2>2
  <2> QED
    BY <2>4, <2>5, <2>6, <2>7, Zenon DEF Faithful, ch
<1>6. CASE ~(g.src_offset # None /\ g.src_offset >= L)
  <2>1. /\ ch.getdata = after /\ ch.units = Run(2 * f + 1, 2 * k)
        /\ ch.avail = 2 * (L - f)
        /\ ch.ret = IF AllReceived(f + k, L - f, width) THEN "success"
                    ELSE "info"
    BY <1>6 DEF CopyBinhex, Chunk, L, k, f, room, Offset
  <2> HIDE DEF k
  <2>2. /\ after \in PositionT /\ after.src_offset = f + k
        /\ after.column = g.column /\ after.of = g.of
    BY <1>3, PositionSet, Zenon
  <2> HIDE DEF ch, after
  <2>3. f + k # None /\ f + k \in 0..L /\ Offset(after) = f + k
    BY <1>1, <1>3, <2>2 DEF Offset, None
  <2>4. /\ Placed(cv, after, v, broken) /\ Have(cv, after) = 2 * (f + k)
    BY <2>2, <2>3, DigitsCase DEF L
  <2>5. 2 * f \in Nat /\ 2 * k \in Nat /\ 2 * f + 1 \in Nat
        /\ 2 * (f + k) \in 2 * f .. 2 * L /\ 2 * (f + k) - 2 * f = 2 * k
        /\ 2 * (L - f) \in Nat
    BY <1>1, <1>3
  <2>6. /\ Run(2 * f + 1, 2 * k) \in Seq(Nat)
        /\ Len(Run(2 * f + 1, 2 * k)) = 2 * k
    BY <2>5, RunIs, Zenon
  <2>7. Leaves(cv, g, v, ch, broken)
    BY <1>4, <2>1, <2>2, <2>4, <2>5, <2>6 DEF Leaves
  <2>8. Joins(cv, g, v, cb, ch)
    BY <1>4, <2>1, <2>4, <2>5 DEF Joins
  <2>9. Tells(cv, g, v, ch)
    <3>1. ch.ret # "nodata" /\ ch.avail = 2 * L - 2 * f
      BY <1>1, <2>1
    <3> QED
      BY <1>0, <1>4, <3>1 DEF Tells
  <2>10. GetsOn(cv, g, v, cb, ch)
    <3>1. ASSUME ch.ret = "info" PROVE L - f >= 1
      <4>1. ~AllReceived(f + k, L - f, width)
        BY <2>1, <3>1
      <4>2. (f + k) * width >= 0
        BY <1>1, <1>3
      <4>3. (f + k) * width \in Int
        BY <1>1, <1>3
      <4> QED
        BY <1>1, <4>1, <4>2, <4>3 DEF AllReceived
    <3>2. ch.ret = "info" /\ RoomFor(cv, cb) => Len(ch.units) > 0
      BY <1>2, <1>3, <2>1, <2>6, <3>1
    <3>3. ~AtEnd(cv, g, v)
      BY <1>4, <1>6
    <3> QED
      BY <3>2, <3>3 DEF GetsOn
  <2>11. Have(cv, g) \in Nat
    BY <1>4, <2>5
  <2> QED
    BY <2>7, <2>8, <2>9, <2>10, <2>11, Zenon DEF Faithful, ch
<1> QED
  BY <1>5, <1>6

(***************************************************************************)
(* The wide characters of a text.                                          *)
(***************************************************************************)
(* The parts of CopyWide, by name: what is left of the text, how much of it *)
(* this call takes, the character it comes to, and where that leaves the   *)
(* application's buffer.                                                   *)
WideRoom(g, cb) ==
    IF cb > WaitingHalf(g) THEN cb - 1 - WaitingHalf(g) ELSE 0
WideRest(g, v)  == Wide(v, Whole(v)) - Wide(v, From(g))
Taken(g, v, cb) == Min2(WideRoom(g, cb), WideRest(g, v))
Fits(g, v, cb)  ==
    CHOOSE i \in From(g)..Whole(v) :
       /\ Wide(v, i) - Wide(v, From(g)) \in {Taken(g, v, cb) - 1,
                                            Taken(g, v, cb)}
       /\ \A j \in (i + 1)..Whole(v) :
            Wide(v, j) - Wide(v, From(g)) > Taken(g, v, cb)
EndsInPair(g, v, cb) ==
    Wide(v, Fits(g, v, cb)) - Wide(v, From(g)) < Taken(g, v, cb)
Over(g, v, cb)  == EndsInPair(g, v, cb) /\ ~(g.dst_bytes = None)
Used(g, v, cb)  ==
    WaitingHalf(g) + (IF Over(g, v, cb) THEN Taken(g, v, cb) + 1
                      ELSE WideRest(g, v))
Whole16(g, v, cb) ==
    IF cb > 0 /\ g.dst_bytes = None THEN Used(g, v, cb) ELSE g.dst_bytes
At(g, cb)       == IF cb > 0 /\ g.dst_bytes = None THEN 0 ELSE g.dst_offset
NextAt(g, v, cb) ==
    At(g, cb) + Min2(IF cb = 0 THEN 0 ELSE cb - 1, Used(g, v, cb))
NextSource(g, v, cb) ==
    IF Over(g, v, cb) THEN Fits(g, v, cb) + 1 ELSE Fits(g, v, cb)
NextHalf(g, v, cb) ==
    IF EndsInPair(g, v, cb) THEN Wide(v, From(g)) + Taken(g, v, cb) + 1
    ELSE 0

Moved(g, s, half) == [g EXCEPT !.source = s, !.latest = half]
MovedTo(g, s, half, d, o) ==
    [Moved(g, s, half) EXCEPT !.dst_bytes = d, !.dst_offset = o]

LEMMA MovedIs ==
    ASSUME NEW g \in PositionT, NEW s \in Int, NEW half \in Nat
    PROVE  /\ Moved(g, s, half) \in PositionT
           /\ Moved(g, s, half).source = s /\ Moved(g, s, half).latest = half
           /\ Moved(g, s, half).dst_bytes = g.dst_bytes
           /\ Moved(g, s, half).dst_offset = g.dst_offset
           /\ Moved(g, s, half).column = g.column
           /\ Moved(g, s, half).of = g.of
  BY DEF Moved, PositionT

LEMMA MovedToIs ==
    ASSUME NEW g \in PositionT, NEW s \in Int, NEW half \in Nat,
           NEW d \in Int, NEW o \in Int
    PROVE  /\ MovedTo(g, s, half, d, o) \in PositionT
           /\ MovedTo(g, s, half, d, o).source = s
           /\ MovedTo(g, s, half, d, o).latest = half
           /\ MovedTo(g, s, half, d, o).dst_bytes = d
           /\ MovedTo(g, s, half, d, o).dst_offset = o
           /\ MovedTo(g, s, half, d, o).column = g.column
           /\ MovedTo(g, s, half, d, o).of = g.of
<1> DEFINE p == Moved(g, s, half)
<1>1. /\ p \in PositionT /\ p.source = s /\ p.latest = half
      /\ p.column = g.column /\ p.of = g.of
  BY MovedIs
<1>2. MovedTo(g, s, half, d, o) = [p EXCEPT !.dst_bytes = d, !.dst_offset = o]
  BY Zenon DEF MovedTo
<1> HIDE DEF p
<1>3. /\ [p EXCEPT !.dst_bytes = d, !.dst_offset = o] \in PositionT
      /\ [p EXCEPT !.dst_bytes = d, !.dst_offset = o].source = s
      /\ [p EXCEPT !.dst_bytes = d, !.dst_offset = o].latest = half
      /\ [p EXCEPT !.dst_bytes = d, !.dst_offset = o].dst_bytes = d
      /\ [p EXCEPT !.dst_bytes = d, !.dst_offset = o].dst_offset = o
      /\ [p EXCEPT !.dst_bytes = d, !.dst_offset = o].column = g.column
      /\ [p EXCEPT !.dst_bytes = d, !.dst_offset = o].of = g.of
  BY <1>1 DEF PositionT
<1> QED
  BY <1>2, <1>3, Zenon

(* What copy_wchar_result does, by its cases.                              *)
LEMMA WideSteps ==
    ASSUME NEW g, NEW v, NEW cb
    PROVE  CopyWide(g, v, cb) =
             IF ~(g.dst_bytes = None) /\ g.dst_offset >= g.dst_bytes
             THEN EndOfData(g)
             ELSE IF WaitingHalf(g) = 1 /\ cb <= 1
             THEN Chunk(g, <<>>, None, "crash")
             ELSE IF CutsChar(v)
             THEN Chunk(Moved(g, NextSource(g, v, cb), NextHalf(g, v, cb)),
                        <<>>, None, "error")
             ELSE Chunk(MovedTo(g, NextSource(g, v, cb), NextHalf(g, v, cb),
                                Whole16(g, v, cb), NextAt(g, v, cb)),
                   (IF WaitingHalf(g) = 1 THEN <<g.latest>> ELSE <<>>)
                     \o Run(Wide(v, From(g)) + 1, Taken(g, v, cb)),
                   IF cb = 0 THEN Used(g, v, cb)
                   ELSE Whole16(g, v, cb) - At(g, cb),
                   IF cb = 0 \/ Whole16(g, v, cb) > NextAt(g, v, cb)
                   THEN "info" ELSE "success")
  BY Zenon DEF CopyWide, StepsOver, WaitingHalf, WideRoom, WideRest, Taken,
     Fits, EndsInPair, Over, Used, Whole16, At, NextAt, NextSource, NextHalf,
     Moved, MovedTo

LEMMA FitsIs ==
    ASSUME NEW g, NEW v, NEW cb, Whole(v) \in Nat, From(g) \in 0..Whole(v),
           Taken(g, v, cb) \in Nat, Taken(g, v, cb) <= WideRest(g, v)
    PROVE  /\ Fits(g, v, cb) \in From(g)..Whole(v)
           /\ Fitting(v, From(g), Whole(v), Taken(g, v, cb), Fits(g, v, cb))
<1>1. \E i \in From(g)..Whole(v) :
         Fitting(v, From(g), Whole(v), Taken(g, v, cb), i)
  BY FittingExists DEF WideRest
<1> QED
  BY <1>1, Zenon DEF Fits, Fitting

(* The numbers of a call, whatever the position it starts from.            *)
LEMMA WideNumbers ==
    ASSUME options.max \in Nat, NEW v \in Texts, NEW g \in PositionT,
           NEW cb \in Nat, NEW broken \in BOOLEAN,
           Placed("wide", g, v, broken)
    PROVE  /\ Whole(v) \in Nat /\ From(g) \in 0..Whole(v)
           /\ WaitingHalf(g) \in {0, 1} /\ WideRoom(g, cb) \in Nat
           /\ Wide(v, From(g)) \in Nat /\ Wide(v, Whole(v)) \in Nat
           /\ WideRest(g, v) \in Nat /\ Taken(g, v, cb) \in Nat
           /\ Taken(g, v, cb) <= WideRest(g, v)
           /\ Taken(g, v, cb) <= WideRoom(g, cb)
           /\ \/ Taken(g, v, cb) = WideRest(g, v)
              \/ Taken(g, v, cb) = WideRoom(g, cb)
           /\ Fits(g, v, cb) \in From(g)..Whole(v)
           /\ Fitting(v, From(g), Whole(v), Taken(g, v, cb), Fits(g, v, cb))
<1>1. Whole(v) \in 0..Len(v) /\ Len(v) \in Nat
  BY WholeIn, TextSize
<1>2. From(g) \in 0..Whole(v)
  <2>1. g.source = None \/ g.source \in 0..Whole(v)
    BY WideCase DEF WideUnbegun, WideBegun
  <2> QED
    BY <1>1, <2>1 DEF From
<1>3. /\ Wide(v, From(g)) \in Nat /\ Wide(v, Whole(v)) \in Nat
      /\ Wide(v, Whole(v)) - Wide(v, From(g)) >= Whole(v) - From(g)
  BY <1>1, <1>2, WideGrows
<1>4. WideRest(g, v) \in Nat
  BY <1>1, <1>2, <1>3 DEF WideRest
<1>5. WaitingHalf(g) \in {0, 1} /\ WideRoom(g, cb) \in Nat
  BY DEF WaitingHalf, WideRoom
<1>6. /\ Taken(g, v, cb) \in Nat /\ Taken(g, v, cb) <= WideRest(g, v)
      /\ Taken(g, v, cb) <= WideRoom(g, cb)
      /\ \/ Taken(g, v, cb) = WideRest(g, v)
         \/ Taken(g, v, cb) = WideRoom(g, cb)
  BY <1>4, <1>5 DEF Taken, Min2
<1>7. /\ Fits(g, v, cb) \in From(g)..Whole(v)
      /\ Fitting(v, From(g), Whole(v), Taken(g, v, cb), Fits(g, v, cb))
  BY <1>1, <1>2, <1>6, FitsIs
<1> QED
  BY <1>1, <1>2, <1>3, <1>4, <1>5, <1>6, <1>7

(* Where a call leaves `source`, and whether half of a pair waits.         *)
LEMMA WideMoves ==
    ASSUME options.max \in Nat, NEW v \in Texts, NEW g \in PositionT,
           NEW cb \in Nat, NEW broken \in BOOLEAN,
           Placed("wide", g, v, broken)
    PROVE  /\ NextSource(g, v, cb) \in 0..Whole(v)
           /\ EndsInPair(g, v, cb) \in BOOLEAN
           /\ Over(g, v, cb) <=> EndsInPair(g, v, cb) /\ g.dst_bytes # None
           /\ Taken(g, v, cb) = 0 =>
                NextSource(g, v, cb) = From(g) /\ ~EndsInPair(g, v, cb)
           /\ EndsInPair(g, v, cb) =>
                /\ NextHalf(g, v, cb) = Wide(v, From(g)) + Taken(g, v, cb) + 1
                /\ Taken(g, v, cb) = WideRoom(g, cb)
                /\ Wide(v, From(g)) + Taken(g, v, cb) < Wide(v, Whole(v))
                /\ Wide(v, NextSource(g, v, cb)) =
                     IF Over(g, v, cb)
                     THEN Wide(v, From(g)) + Taken(g, v, cb) + 1
                     ELSE Wide(v, From(g)) + Taken(g, v, cb) - 1
           /\ ~EndsInPair(g, v, cb) =>
                /\ NextHalf(g, v, cb) = 0
                /\ Wide(v, NextSource(g, v, cb)) =
                     Wide(v, From(g)) + Taken(g, v, cb)
           /\ NextHalf(g, v, cb) \in Nat
<1> DEFINE a == From(g)  w == Whole(v)  k == Taken(g, v, cb)
           i == Fits(g, v, cb)  W == Wide(v, Whole(v))
<1>1. /\ w \in Nat /\ a \in 0..w /\ Wide(v, a) \in Nat /\ W \in Nat
      /\ k \in Nat /\ k <= W - Wide(v, a) /\ i \in a..w
      /\ k = W - Wide(v, a) \/ k = WideRoom(g, cb)
  BY WideNumbers DEF WideRest
<1>2. /\ \/ Wide(v, i) = Wide(v, a) + k
         \/ /\ Wide(v, i) = Wide(v, a) + k - 1
            /\ i + 1 \in a..w
            /\ Wide(v, i + 1) = Wide(v, a) + k + 1
            /\ k < W - Wide(v, a)
      /\ k = 0 => i = a
  <2>1. Fitting(v, a, w, k, i)
    BY WideNumbers
  <2>2. k <= Wide(v, w) - Wide(v, a)
    BY <1>1
  <2> HIDE DEF i, k
  <2> QED
    BY <1>1, <2>1, <2>2, FittingFacts
<1>3. EndsInPair(g, v, cb) <=> Wide(v, i) - Wide(v, a) < k
  BY DEF EndsInPair
<1>4. EndsInPair(g, v, cb) \in BOOLEAN
  BY DEF EndsInPair
<1>5. /\ Over(g, v, cb) <=> EndsInPair(g, v, cb) /\ g.dst_bytes # None
      /\ NextSource(g, v, cb) = IF Over(g, v, cb) THEN i + 1 ELSE i
      /\ NextHalf(g, v, cb) =
           IF EndsInPair(g, v, cb) THEN Wide(v, a) + k + 1 ELSE 0
  BY Zenon DEF Over, NextSource, NextHalf
<1> HIDE DEF a, w, k, i, W
<1>6. CASE EndsInPair(g, v, cb)
  <2>1. /\ Wide(v, i) = Wide(v, a) + k - 1 /\ i + 1 \in a..w
        /\ Wide(v, i + 1) = Wide(v, a) + k + 1 /\ k < W - Wide(v, a)
    BY <1>1, <1>2, <1>3, <1>6
  <2>2. k # 0
    <3>1. i = a => Wide(v, i) = Wide(v, a)
      OBVIOUS
    <3> QED
      BY <1>1, <1>2, <2>1, <3>1
  <2>3. /\ NextSource(g, v, cb) \in 0..w
        /\ Wide(v, NextSource(g, v, cb)) = IF Over(g, v, cb)
             THEN Wide(v, a) + k + 1 ELSE Wide(v, a) + k - 1
    <3>1. CASE Over(g, v, cb)
      BY <1>1, <1>5, <2>1, <3>1
    <3>2. CASE ~Over(g, v, cb)
      BY <1>1, <1>5, <2>1, <3>2
    <3> QED
      BY <3>1, <3>2
  <2>4. /\ k = WideRoom(g, cb) /\ Wide(v, a) + k < W
        /\ NextHalf(g, v, cb) = Wide(v, a) + k + 1
        /\ NextHalf(g, v, cb) \in Nat
    BY <1>1, <1>5, <1>6, <2>1
  <2> QED
    BY <1>4, <1>5, <1>6, <2>2, <2>3, <2>4 DEF a, w, k, W
<1>7. CASE ~EndsInPair(g, v, cb)
  <2>1. /\ NextSource(g, v, cb) = i /\ NextHalf(g, v, cb) = 0
        /\ i \in 0..w
    BY <1>1, <1>5, <1>7
  <2>2. Wide(v, i) = Wide(v, a) + k
    BY <1>1, <1>2, <1>3, <1>7
  <2> QED
    BY <1>2, <1>4, <1>5, <1>7, <2>1, <2>2 DEF a, w, k, W
<1> QED
  BY <1>6, <1>7

(* After everything has been delivered.                                    *)
LEMMA WideEnds ==
    ASSUME NEW v \in Texts, NEW g \in PositionT, NEW cb \in Nat,
           NEW broken \in BOOLEAN, Placed("wide", g, v, broken),
           AtEnd("wide", g, v)
    PROVE  Faithful("wide", g, v, cb, CopyWide(g, v, cb), broken)
<1> DEFINE ch == CopyWide(g, v, cb)
<1>1. g.dst_bytes # None /\ g.dst_offset >= g.dst_bytes
  BY WideCase
<1>2. /\ ch.getdata = g /\ ch.units = <<>> /\ ch.avail = None
      /\ ch.ret = "nodata"
  <2>1. ch = EndOfData(g)
    BY <1>1, WideSteps
  <2> HIDE DEF ch
  <2> QED
    BY <2>1 DEF EndOfData, Chunk
<1> HIDE DEF ch
<1>3. WideBegun(g, v, broken)
  BY <1>1, WideCase DEF WideUnbegun
<1>4. ~Splits("wide", g, g)
  BY <1>1 DEF Splits
<1>5. Leaves("wide", g, v, ch, broken)
  <2>1. (broken \/ Splits("wide", g, g)) = broken
    BY <1>4
  <2>2. Placed("wide", g, v, broken \/ Splits("wide", g, g))
    BY <2>1, Zenon
  <2> QED
    BY <1>2, <2>2, NoUnits DEF Leaves
<1>6. GetsOn("wide", g, v, cb, ch)
  BY <1>2 DEF GetsOn
<1>7. ASSUME ~broken
      PROVE  /\ Have("wide", g) \in Nat
             /\ Joins("wide", g, v, cb, ch) /\ Tells("wide", g, v, ch)
  <2>1. /\ g.dst_offset \in Nat /\ g.dst_bytes = Wide(v, Whole(v))
        /\ g.dst_offset <= g.dst_bytes /\ g.dst_bytes \in Int
    BY <1>3, <1>7 DEF WideBegun, PositionT
  <2>2. g.dst_offset = Wide(v, Whole(v))
    BY <1>1, <2>1
  <2>3. /\ Have("wide", g) = g.dst_offset /\ Have("wide", g) \in Nat
        /\ Total("wide", v) = g.dst_offset
    BY <1>1, <2>1, <2>2, WideCase
  <2>4. g.dst_offset - g.dst_offset = 0 /\ Run(g.dst_offset + 1, 0) = <<>>
        /\ g.dst_offset \in g.dst_offset..g.dst_offset
    BY <2>1, NoUnits
  <2>5. Joins("wide", g, v, cb, ch)
    BY <1>2, <2>3, <2>4 DEF Joins
  <2>6. Tells("wide", g, v, ch)
    BY <1>2, <2>3 DEF Tells
  <2> QED
    BY <2>3, <2>5, <2>6
<1> QED
  BY <1>5, <1>6, <1>7, Zenon DEF Faithful, ch

(* No buffer for the half of a pair that waits, or a character that the    *)
(* limit cuts.                                                             *)
LEMMA WideFails ==
    ASSUME options.max \in Nat, NEW v \in Texts, NEW g \in PositionT,
           NEW cb \in Nat, NEW broken \in BOOLEAN,
           Placed("wide", g, v, broken), ~AtEnd("wide", g, v),
           (WaitingHalf(g) = 1 /\ cb <= 1) \/ CutsChar(v)
    PROVE  Faithful("wide", g, v, cb, CopyWide(g, v, cb), broken)
<1> DEFINE ch    == CopyWide(g, v, cb)
           moved == Moved(g, NextSource(g, v, cb), NextHalf(g, v, cb))
<1>0. ~(~(g.dst_bytes = None) /\ g.dst_offset >= g.dst_bytes)
  BY WideCase
<1>1. \/ /\ ch.getdata = g /\ ch.ret = "crash"
         /\ ch.units = <<>> /\ ch.avail = None
      \/ /\ ch.getdata = moved /\ ch.ret = "error" /\ CutsChar(v)
         /\ ch.units = <<>> /\ ch.avail = None
  <2>1. \/ ch = Chunk(g, <<>>, None, "crash")
        \/ ch = Chunk(moved, <<>>, None, "error") /\ CutsChar(v)
    BY <1>0, WideSteps, Zenon
  <2> HIDE DEF ch, moved
  <2> QED
    BY <2>1 DEF Chunk
<1>2. /\ NextSource(g, v, cb) \in 0..Whole(v) /\ NextHalf(g, v, cb) \in Nat
      /\ Whole(v) \in Nat /\ Wide(v, Whole(v)) \in Nat
  BY WideMoves, WideNumbers
<1>3. /\ moved \in PositionT /\ moved.source = NextSource(g, v, cb)
      /\ moved.dst_bytes = g.dst_bytes /\ moved.dst_offset = g.dst_offset
      /\ moved.column = g.column /\ moved.of = g.of
  <2>1. NextSource(g, v, cb) \in Int
    BY <1>2
  <2> QED
    BY <1>2, <2>1, MovedIs
<1> HIDE DEF ch, moved
<1>4. CutsChar(v) => WideUnbegun(g, v) /\ WideUnbegun(moved, v)
  BY <1>2, <1>3, WideCase DEF WideBegun, WideUnbegun
<1>5. /\ ch.getdata \in PositionT /\ ch.getdata.column = g.column
      /\ ch.getdata.of = g.of
      /\ ch.getdata.dst_bytes = g.dst_bytes
      /\ ch.getdata.dst_offset = g.dst_offset
  BY <1>1, <1>3
<1>6. \A b \in BOOLEAN : (broken => b) => Placed("wide", ch.getdata, v, b)
  <2> SUFFICES ASSUME NEW b \in BOOLEAN, broken => b
               PROVE  Placed("wide", ch.getdata, v, b)
    OBVIOUS
  <2>1. CASE CutsChar(v)
    BY <1>1, <1>4, <2>1, WideCase
  <2>2. CASE ~CutsChar(v)
    <3>1. ch.getdata = g
      BY <1>1, <2>2
    <3>2. WideUnbegun(g, v) \/ WideBegun(g, v, broken)
      BY WideCase
    <3>3. WideBegun(g, v, broken) => WideBegun(g, v, b)
      BY DEF WideBegun
    <3> QED
      BY <3>1, <3>2, <3>3, WideCase
  <2> QED
    BY <2>1, <2>2
<1>7. Leaves("wide", g, v, ch, broken)
  <2>1. Placed("wide", ch.getdata, v,
               broken \/ Splits("wide", g, ch.getdata))
    <3>1. (broken \/ Splits("wide", g, ch.getdata)) \in BOOLEAN
      BY DEF Splits
    <3> QED
      BY <1>6, <3>1
  <2>2. /\ ch.units \in Seq(Nat) /\ ch.avail \in Nat \cup {None}
        /\ ch.ret \in {"success", "info", "nodata", "error", "crash"}
        /\ ch.ret # "nodata"
    BY <1>1, NoUnits
  <2> QED
    BY <1>5, <2>1, <2>2 DEF Leaves
<1>8. GetsOn("wide", g, v, cb, ch)
  BY <1>1 DEF GetsOn
<1>9. ASSUME ~broken
      PROVE  /\ Have("wide", g) \in Nat
             /\ Joins("wide", g, v, cb, ch) /\ Tells("wide", g, v, ch)
  <2>1. /\ Have("wide", g) \in 0..Wide(v, Whole(v))
        /\ Have("wide", ch.getdata) = Have("wide", g)
        /\ Total("wide", v) = Wide(v, Whole(v))
    <3>1. WideUnbegun(g, v) \/ WideBegun(g, v, broken)
      BY WideCase
    <3>2. g.dst_bytes = None \/ g.dst_offset \in 0..Wide(v, Whole(v))
      BY <1>9, <3>1 DEF WideUnbegun, WideBegun
    <3> QED
      BY <1>2, <1>5, <3>2, WideCase
  <2> DEFINE a == Have("wide", g)
  <2> HIDE DEF a
  <2>2. a \in Nat /\ a - a = 0 /\ Run(a + 1, 0) = <<>>
        /\ a \in a..Wide(v, Whole(v))
    BY <1>2, <2>1, NoUnits DEF a
  <2>3. Joins("wide", g, v, cb, ch)
    BY <1>1, <2>1, <2>2 DEF Joins, a
  <2>4. Tells("wide", g, v, ch)
    BY <1>1 DEF Tells
  <2> QED
    BY <2>2, <2>3, <2>4 DEF a
<1> QED
  BY <1>7, <1>8, <1>9, Zenon DEF Faithful, ch

(* A call that delivers: what it answers, by the numbers.                  *)
LEMMA WideChunk ==
    ASSUME NEW g, NEW v, NEW cb, ~AtEnd("wide", g, v),
           ~(WaitingHalf(g) = 1 /\ cb <= 1), ~CutsChar(v)
    PROVE  /\ CopyWide(g, v, cb).getdata =
                MovedTo(g, NextSource(g, v, cb), NextHalf(g, v, cb),
                        Whole16(g, v, cb), NextAt(g, v, cb))
           /\ CopyWide(g, v, cb).units =
                (IF WaitingHalf(g) = 1 THEN <<g.latest>> ELSE <<>>)
                  \o Run(Wide(v, From(g)) + 1, Taken(g, v, cb))
           /\ CopyWide(g, v, cb).avail = IF cb = 0 THEN Used(g, v, cb)
                ELSE Whole16(g, v, cb) - At(g, cb)
           /\ CopyWide(g, v, cb).ret =
                IF cb = 0 \/ Whole16(g, v, cb) > NextAt(g, v, cb)
                THEN "info" ELSE "success"
<1> DEFINE ch == CopyWide(g, v, cb)
           p  == MovedTo(g, NextSource(g, v, cb), NextHalf(g, v, cb),
                         Whole16(g, v, cb), NextAt(g, v, cb))
           u  == (IF WaitingHalf(g) = 1 THEN <<g.latest>> ELSE <<>>)
                   \o Run(Wide(v, From(g)) + 1, Taken(g, v, cb))
           l  == IF cb = 0 THEN Used(g, v, cb)
                 ELSE Whole16(g, v, cb) - At(g, cb)
           r  == IF cb = 0 \/ Whole16(g, v, cb) > NextAt(g, v, cb)
                 THEN "info" ELSE "success"
<1>0. ~(~(g.dst_bytes = None) /\ g.dst_offset >= g.dst_bytes)
  BY WideCase
<1>1. ch = Chunk(p, u, l, r)
  BY <1>0, WideSteps, Zenon
<1> HIDE DEF ch, p, u, l, r
<1>2. ch.getdata = p /\ ch.units = u /\ ch.avail = l /\ ch.ret = r
  BY <1>1 DEF Chunk
<1> QED
  BY <1>2, Zenon DEF ch, p, u, l, r

(* The units of such a call: the half that waits comes before the others.  *)
LEMMA WideUnits ==
    ASSUME NEW a \in Nat, NEW k \in Nat, NEW half \in Nat
    PROVE  /\ Run(a + 1, k) \in Seq(Nat) /\ Len(Run(a + 1, k)) = k
           /\ <<>> \o Run(a + 1, k) = Run(a + 1, k)
           /\ <<half>> \o Run(a + 1, k) \in Seq(Nat)
           /\ Len(<<half>> \o Run(a + 1, k)) = 1 + k
           /\ <<a>> \o Run(a + 1, k) = Run(a, 1 + k)
<1> DEFINE u == Run(a + 1, k)
<1>1. u \in Seq(Nat) /\ Len(u) = k
  <2>1. a + 1 \in Nat
    OBVIOUS
  <2> QED
    BY <2>1, RunIs, Zenon
<1>2. <<a>> \o u = Run(a, 1 + k)
  <2>1. k + 1 = 1 + k
    OBVIOUS
  <2> QED
    BY <2>1, RunHead, Zenon
<1> HIDE DEF u
<1>3. <<>> \o u = u
  BY <1>1
<1>4. <<half>> \o u \in Seq(Nat) /\ Len(<<half>> \o u) = 1 + k
  BY <1>1
<1> QED
  BY <1>1, <1>2, <1>3, <1>4, Zenon DEF u

(* The first call that is given a buffer, or only asks for the length.     *)
LEMMA WideBegins ==
    ASSUME options.max \in Nat, NEW v \in Texts, NEW g \in PositionT,
           NEW cb \in Nat, NEW broken \in BOOLEAN,
           Placed("wide", g, v, broken), ~AtEnd("wide", g, v),
           ~CutsChar(v), WideUnbegun(g, v)
    PROVE  Faithful("wide", g, v, cb, CopyWide(g, v, cb), broken)
<1> DEFINE W     == Wide(v, Whole(v))
           k     == Taken(g, v, cb)
           o     == NextAt(g, v, cb)
           dst   == Whole16(g, v, cb)
           half  == NextHalf(g, v, cb)
           s     == NextSource(g, v, cb)
           after == MovedTo(g, s, half, dst, o)
           ch    == CopyWide(g, v, cb)
<1>1. /\ g.dst_bytes = None /\ g.dst_offset = None /\ g.latest = 0
      /\ WaitingHalf(g) = 0 /\ From(g) = 0
  BY DEF WideUnbegun, WaitingHalf, From, None
<1>2. /\ Whole(v) \in Nat /\ W \in Nat /\ Wide(v, 0) = 0 /\ k \in 0..W
      /\ WideRest(g, v) = W /\ (k = W \/ k = WideRoom(g, cb))
      /\ k <= WideRoom(g, cb)
      /\ WideRoom(g, cb) = IF cb > 0 THEN cb - 1 ELSE 0
  <2>1. /\ Whole(v) \in Nat /\ W \in Nat /\ Wide(v, 0) = 0
    BY WideNumbers, WideGrows
  <2>2. WideRest(g, v) = W
    BY <1>1, <2>1 DEF WideRest
  <2>3. WideRoom(g, cb) = IF cb > 0 THEN cb - 1 ELSE 0
    BY <1>1 DEF WideRoom
  <2>4. k \in Nat /\ k <= W /\ (k = W \/ k = WideRoom(g, cb))
        /\ k <= WideRoom(g, cb)
    BY <2>2, WideNumbers
  <2> HIDE DEF k, W
  <2> QED
    BY <2>1, <2>2, <2>3, <2>4
<1>3. ~Over(g, v, cb)
  BY <1>1, WideMoves
<1>4. Used(g, v, cb) = W
  BY <1>1, <1>2, <1>3 DEF Used
<1>5. /\ cb > 0 => dst = W /\ o = k /\ At(g, cb) = 0
      /\ cb = 0 => dst = None /\ o = None /\ k = 0
  <2>1. CASE cb > 0
    <3>1. dst = W /\ At(g, cb) = 0
      BY <1>1, <1>4, <2>1 DEF Whole16, At
    <3>2. o = 0 + Min2(cb - 1, W)
      BY <1>4, <2>1, <3>1 DEF NextAt
    <3> HIDE DEF o, k, W, dst
    <3> QED
      BY <1>2, <2>1, <3>1, <3>2 DEF Min2
  <2>2. CASE cb = 0
    <3>1. dst = None /\ At(g, cb) = None
      BY <1>1, <2>2 DEF Whole16, At
    <3>2. o = None + Min2(0, W)
      BY <1>4, <2>2, <3>1 DEF NextAt
    <3> HIDE DEF o, k, W, dst
    <3> QED
      BY <1>2, <2>2, <3>1, <3>2 DEF Min2, None
  <2> QED
    BY <2>1, <2>2
<1>6. /\ s \in 0..Whole(v) /\ half \in Nat
      /\ k = 0 => s = 0 /\ half = 0
      /\ half = 0 => Wide(v, s) = k
      /\ half # 0 => Wide(v, s) = k - 1 /\ k < W
  <2>1. /\ s \in 0..Whole(v) /\ half \in Nat
        /\ k = 0 => s = 0 /\ ~EndsInPair(g, v, cb)
        /\ EndsInPair(g, v, cb) =>
             /\ half = Wide(v, 0) + k + 1 /\ Wide(v, 0) + k < W
             /\ Wide(v, s) = Wide(v, 0) + k - 1
        /\ ~EndsInPair(g, v, cb) => half = 0 /\ Wide(v, s) = Wide(v, 0) + k
    BY <1>1, <1>3, WideMoves
  <2> HIDE DEF s, half, k, W
  <2> QED
    BY <1>2, <2>1
<1>7. /\ ch.getdata = after
      /\ ch.units = Run(1, k)
      /\ ch.avail = W
      /\ ch.ret = IF cb = 0 \/ dst > o THEN "info" ELSE "success"
  <2>1. /\ ch.getdata = after
        /\ ch.units = (IF WaitingHalf(g) = 1 THEN <<g.latest>> ELSE <<>>)
                        \o Run(Wide(v, From(g)) + 1, k)
        /\ ch.avail = IF cb = 0 THEN Used(g, v, cb) ELSE dst - At(g, cb)
        /\ ch.ret = IF cb = 0 \/ dst > o THEN "info" ELSE "success"
    <3>1. ~(WaitingHalf(g) = 1 /\ cb <= 1)
      BY <1>1
    <3> QED
      BY <3>1, WideChunk, Zenon
  <2> HIDE DEF ch, after, k, o, dst, W
  <2>2. ch.units = Run(1, k)
    <3>1. ch.units = <<>> \o Run(0 + 1, k) /\ 0 + 1 = 1
      BY <1>1, <1>2, <2>1
    <3>2. Run(1, k) \in Seq(Nat)
      <4>1. 1 \in Nat /\ k \in Nat
        BY <1>2
      <4> QED
        BY <4>1, RunIs, Zenon
    <3> QED
      BY <3>1, <3>2
  <2>3. ch.avail = W
    BY <1>2, <1>4, <1>5, <2>1
  <2> QED
    BY <2>1, <2>2, <2>3
<1> HIDE DEF W, k, o, dst, half, s, ch
<1>8. /\ after \in PositionT /\ after.source = s /\ after.latest = half
      /\ after.dst_bytes = dst /\ after.dst_offset = o
      /\ after.column = g.column /\ after.of = g.of
  <2>1. s \in Int /\ dst \in Int /\ o \in Int /\ half \in Nat
    BY <1>2, <1>5, <1>6 DEF None
  <2> QED
    BY <2>1, MovedToIs
<1> HIDE DEF after
<1>9. Splits("wide", g, after) <=> half # 0
  BY <1>1, <1>8 DEF Splits
<1>10. Run(1, k) \in Seq(Nat) /\ Len(Run(1, k)) = k
  <2>1. 1 \in Nat /\ k \in Nat
    BY <1>2
  <2> QED
    BY <2>1, RunIs, Zenon
<1>11. cb = 0 => WideUnbegun(after, v)
  BY <1>1, <1>2, <1>5, <1>6, <1>8 DEF WideUnbegun
<1>12. cb > 0 => WideBegun(after, v, broken \/ Splits("wide", g, after))
  <2> SUFFICES ASSUME cb > 0
               PROVE  WideBegun(after, v, broken \/ Splits("wide", g, after))
    OBVIOUS
  <2>1. /\ after.source \in 0..Whole(v) /\ after.dst_bytes = W
        /\ after.dst_offset = k /\ k \in Nat /\ k <= W
    BY <1>2, <1>5, <1>6, <1>8
  <2>2. CASE half = 0
    <3>1. WaitingHalf(after) = 0 /\ after.latest = 0 /\ Wide(v, s) = k
      BY <1>6, <1>8, <2>2 DEF WaitingHalf
    <3> QED
      BY <1>8, <2>1, <3>1 DEF WideBegun, W
  <2>3. CASE half # 0
    <3>1. WaitingHalf(after) = 1 /\ Wide(v, s) = k - 1
      BY <1>6, <1>8, <2>3 DEF WaitingHalf
    <3>2. broken \/ Splits("wide", g, after)
      BY <1>9, <2>3
    <3> QED
      BY <1>8, <2>1, <3>1, <3>2 DEF WideBegun, W
  <2> QED
    BY <2>2, <2>3
<1>13. Leaves("wide", g, v, ch, broken)
  <2>1. Placed("wide", after, v, broken \/ Splits("wide", g, after))
    <3>1. cb = 0 \/ cb > 0
      OBVIOUS
    <3> QED
      BY <1>11, <1>12, <3>1, WideCase
  <2> QED
    BY <1>2, <1>7, <1>8, <1>10, <2>1 DEF Leaves
<1>14. GetsOn("wide", g, v, cb, ch)
  <2>1. RoomFor("wide", cb) => cb >= 2
    BY DEF RoomFor
  <2> QED
    BY <1>2, <1>5, <1>7, <1>10, <2>1 DEF GetsOn
<1>15. /\ Have("wide", g) = 0 /\ Have("wide", after) = k
       /\ Total("wide", v) = W
       /\ AtEnd("wide", after, v) <=> cb > 0 /\ k >= W
  <2>1. dst = None <=> cb = 0
    BY <1>2, <1>5 DEF None
  <2> QED
    BY <1>1, <1>2, <1>5, <1>8, <2>1, WideCase DEF W
<1>16. Joins("wide", g, v, cb, ch)
  <2>1. k \in 0..W /\ k - 0 = k /\ 0 + 1 = 1
    BY <1>2
  <2> QED
    BY <1>7, <1>15, <2>1 DEF Joins
<1>17. Tells("wide", g, v, ch)
  BY <1>2, <1>5, <1>7, <1>15 DEF Tells
<1> QED
  BY <1>13, <1>14, <1>15, <1>16, <1>17 DEF Faithful, ch

(* A later call: the half that waits comes first.                          *)
LEMMA WideGoesOn ==
    ASSUME options.max \in Nat, NEW v \in Texts, NEW g \in PositionT,
           NEW cb \in Nat, NEW broken \in BOOLEAN,
           Placed("wide", g, v, broken), ~AtEnd("wide", g, v),
           ~(WaitingHalf(g) = 1 /\ cb <= 1), WideBegun(g, v, broken)
    PROVE  Faithful("wide", g, v, cb, CopyWide(g, v, cb), broken)
<1> DEFINE W     == Wide(v, Whole(v))
           a     == Wide(v, From(g))
           left  == WaitingHalf(g)
           k     == Taken(g, v, cb)
           o     == g.dst_offset
           next  == NextAt(g, v, cb)
           half  == NextHalf(g, v, cb)
           s     == NextSource(g, v, cb)
           dst   == Whole16(g, v, cb)
           after == MovedTo(g, s, half, dst, next)
           ch    == CopyWide(g, v, cb)
<1>1. /\ Whole(v) \in Nat /\ W \in Nat /\ a \in Nat /\ left \in {0, 1}
      /\ k \in Nat /\ k <= W - a /\ k <= WideRoom(g, cb)
      /\ k = W - a \/ k = WideRoom(g, cb)
      /\ WideRest(g, v) = W - a
  BY WideNumbers DEF WideRest
<1>2. /\ g.dst_bytes = W /\ o \in Nat /\ g.dst_bytes # None /\ o < W
      /\ g.source \in 0..Whole(v) /\ From(g) = g.source
      /\ a <= o + left
      /\ ~broken => a = o + left /\ (left = 1 => g.latest = o + 1)
      /\ ~CutsChar(v)
  <2>1. /\ g.dst_bytes = W /\ o \in Nat /\ g.source \in 0..Whole(v)
        /\ ~CutsChar(v)
    BY DEF WideBegun
  <2>2. From(g) = g.source
    BY <1>1, <2>1 DEF From, None
  <2>3. /\ a <= o + left
        /\ ~broken => a = o + left /\ (left = 1 => g.latest = o + 1)
    BY <2>2 DEF WideBegun, WaitingHalf
  <2>4. g.dst_bytes # None
    BY <1>1, <2>1 DEF None
  <2>5. o < W
    <3>1. ~(o >= g.dst_bytes)
      BY <2>4, WideCase
    <3> HIDE DEF o, W
    <3> QED
      BY <1>1, <2>1, <3>1
  <2> QED
    BY <2>1, <2>2, <2>3, <2>4, <2>5
<1>3. WideRoom(g, cb) = (IF cb > left THEN cb - 1 - left ELSE 0)
      /\ (left = 1 => cb >= 2)
  BY DEF WideRoom
<1>4. dst = W /\ At(g, cb) = o
  BY <1>2 DEF Whole16, At
<1>5. /\ s \in 0..Whole(v) /\ half \in Nat
      /\ half # 0 => /\ half = a + k + 1 /\ Wide(v, s) = a + k + 1
                     /\ k = WideRoom(g, cb) /\ a + k < W
                     /\ Over(g, v, cb)
      /\ half = 0 => Wide(v, s) = a + k /\ ~Over(g, v, cb)
      /\ k = 0 => half = 0
  <2>1. /\ s \in 0..Whole(v) /\ half \in Nat
        /\ Over(g, v, cb) <=> EndsInPair(g, v, cb)
        /\ k = 0 => ~EndsInPair(g, v, cb)
        /\ EndsInPair(g, v, cb) =>
             /\ half = a + k + 1 /\ k = WideRoom(g, cb) /\ a + k < W
             /\ Over(g, v, cb) => Wide(v, s) = a + k + 1
        /\ ~EndsInPair(g, v, cb) => half = 0 /\ Wide(v, s) = a + k
    BY <1>2, WideMoves
  <2> HIDE DEF s, half, k, a, W
  <2> QED
    BY <1>1, <2>1
<1>6. Used(g, v, cb) = left + (IF half # 0 THEN k + 1 ELSE W - a)
  BY <1>1, <1>5 DEF Used
<1>7. next = o + left + k
  <2>1. next = o + Min2(IF cb = 0 THEN 0 ELSE cb - 1, Used(g, v, cb))
    BY <1>4 DEF NextAt
  <2> HIDE DEF next, o, k, W, left, half, a
  <2>2. CASE half # 0
    <3>1. k = cb - 1 - left /\ cb > left
      BY <1>1, <1>3, <1>5, <2>2
    <3> QED
      BY <1>1, <1>2, <1>6, <2>1, <2>2, <3>1 DEF Min2
  <2>3. CASE half = 0
    BY <1>1, <1>2, <1>3, <1>6, <2>1, <2>3 DEF Min2
  <2> QED
    BY <2>2, <2>3
<1>8. /\ ch.getdata = after
      /\ ch.units = (IF left = 1 THEN <<g.latest>> ELSE <<>>) \o Run(a + 1, k)
      /\ ch.avail = IF cb = 0 THEN Used(g, v, cb) ELSE dst - At(g, cb)
      /\ ch.ret = IF cb = 0 \/ dst > next THEN "info" ELSE "success"
  BY <1>2, WideChunk, Zenon
<1> HIDE DEF W, a, left, k, o, next, half, s, dst, ch
<1>9. /\ after \in PositionT /\ after.source = s /\ after.latest = half
      /\ after.dst_bytes = dst /\ after.dst_offset = next
      /\ after.column = g.column /\ after.of = g.of
  <2>1. s \in Int /\ dst \in Int /\ next \in Int /\ half \in Nat
    BY <1>1, <1>2, <1>4, <1>5, <1>7
  <2> QED
    BY <2>1, MovedToIs
<1> HIDE DEF after
<1>10. ~Splits("wide", g, after)
  BY <1>2 DEF Splits
<1>11. /\ ch.units \in Seq(Nat) /\ Len(ch.units) = left + k
       /\ left = 0 => ch.units = Run(a + 1, k)
       /\ left = 1 /\ g.latest = a => ch.units = Run(a, 1 + k)
  <2> DEFINE u == Run(a + 1, k)
  <2>1. g.latest \in Nat /\ a \in Nat /\ k \in Nat /\ left \in {0, 1}
    BY <1>1 DEF PositionT
  <2>2. /\ u \in Seq(Nat) /\ Len(u) = k /\ <<>> \o u = u
        /\ <<g.latest>> \o u \in Seq(Nat) /\ Len(<<g.latest>> \o u) = 1 + k
        /\ <<a>> \o u = Run(a, 1 + k)
    BY <2>1, WideUnits, Zenon
  <2>3. ch.units = (IF left = 1 THEN <<g.latest>> ELSE <<>>) \o u
    BY <1>8, Zenon
  <2> HIDE DEF u
  <2>4. CASE left = 0
    <3>1. ch.units = u
      BY <2>2, <2>3, <2>4
    <3> QED
      BY <2>2, <2>4, <3>1 DEF u
  <2>5. CASE left = 1
    <3>1. ch.units = <<g.latest>> \o u
      BY <2>3, <2>5
    <3>2. g.latest = a => ch.units = Run(a, 1 + k)
      BY <2>2, <3>1, Zenon
    <3> QED
      BY <2>2, <2>5, <3>1, <3>2
  <2> QED
    BY <2>1, <2>4, <2>5
<1>12. WideBegun(after, v, broken)
  <2>1. /\ ~CutsChar(v) /\ after.source \in 0..Whole(v)
        /\ after.dst_bytes = W /\ after.dst_offset = next /\ next \in Nat
    BY <1>1, <1>2, <1>4, <1>5, <1>7, <1>9
  <2>2. WaitingHalf(after) = IF half = 0 THEN 0 ELSE 1
    BY <1>9 DEF WaitingHalf
  <2>3. Wide(v, after.source) <= next + WaitingHalf(after)
    BY <1>1, <1>2, <1>5, <1>7, <1>9, <2>2
  <2>4. ~broken => /\ Wide(v, after.source) = next + WaitingHalf(after)
                   /\ after.latest # 0 => after.latest = next + 1
                   /\ next <= W
    BY <1>1, <1>2, <1>5, <1>7, <1>9, <2>2
  <2> QED
    BY <2>1, <2>3, <2>4 DEF WideBegun, W
<1>13. ch.avail \in Nat
  BY <1>1, <1>2, <1>4, <1>5, <1>6, <1>8
<1>14. Leaves("wide", g, v, ch, broken)
  <2>1. Placed("wide", after, v, broken \/ Splits("wide", g, after))
    <3>1. (broken \/ Splits("wide", g, after)) = broken
      BY <1>10
    <3>2. Placed("wide", after, v, broken)
      BY <1>12, WideCase
    <3> QED
      BY <3>1, <3>2, Zenon
  <2> QED
    BY <1>8, <1>9, <1>11, <1>13, <2>1 DEF Leaves
<1>15. GetsOn("wide", g, v, cb, ch)
  <2>1. RoomFor("wide", cb) => cb >= 2
    BY DEF RoomFor
  <2>2. cb >= 2 => left + k > 0
    BY <1>1, <1>2, <1>3
  <2> QED
    BY <1>1, <1>8, <1>11, <2>1, <2>2 DEF GetsOn
<1>16. ASSUME ~broken
       PROVE  /\ Have("wide", g) \in Nat
              /\ Joins("wide", g, v, cb, ch) /\ Tells("wide", g, v, ch)
  <2>1. /\ Have("wide", g) = o /\ Have("wide", after) = next
        /\ Total("wide", v) = W
        /\ AtEnd("wide", after, v) <=> next >= W
    BY <1>1, <1>2, <1>4, <1>9, WideCase DEF o, W
  <2>2. /\ a = o + left /\ next <= W
        /\ left = 1 => g.latest = a
    BY <1>1, <1>2, <1>5, <1>7, <1>16
  <2>3. ch.units = Run(o + 1, next - o) /\ next \in o..W
    <3>1. CASE left = 0
      <4>1. next - o = k /\ a = o
        BY <1>1, <1>2, <1>7, <2>2, <3>1
      <4> QED
        BY <1>1, <1>2, <1>7, <1>11, <2>2, <3>1, <4>1
    <3>2. CASE left = 1
      <4>1. next - o = 1 + k /\ a = o + 1
        BY <1>1, <1>2, <1>7, <2>2, <3>2
      <4> QED
        BY <1>1, <1>2, <1>7, <1>11, <2>2, <3>2, <4>1
    <3> QED
      BY <1>1, <3>1, <3>2
  <2>4. Joins("wide", g, v, cb, ch)
    BY <1>8, <2>1, <2>3 DEF Joins
  <2>5. ch.avail = W - o
    <3>1. cb = 0 => half = 0 /\ left = 0
      BY <1>1, <1>3, <1>5
    <3> QED
      BY <1>1, <1>2, <1>4, <1>6, <1>8, <2>2, <3>1
  <2>6. Tells("wide", g, v, ch)
    <3>1. ch.ret = "info" => next < W
      BY <1>1, <1>2, <1>3, <1>4, <1>7, <1>8, <2>2
    <3>2. ch.ret = "success" => next = W
      BY <1>4, <1>8, <2>2, <1>1, <1>2, <1>7
    <3>3. ch.ret # "nodata"
      BY <1>8
    <3> QED
      BY <1>1, <1>2, <1>8, <2>1, <2>5, <3>1, <3>2, <3>3 DEF Tells
  <2> QED
    BY <1>2, <2>1, <2>4, <2>6
<1> QED
  BY <1>10, <1>14, <1>15, <1>16 DEF Faithful, ch

LEMMA WideFaithful ==
    ASSUME options.max \in Nat, NEW v \in Texts, NEW g \in PositionT,
           NEW cb \in Nat, NEW broken \in BOOLEAN,
           Placed("wide", g, v, broken)
    PROVE  Faithful("wide", g, v, cb, CopyWide(g, v, cb), broken)
<1>1. WideUnbegun(g, v) \/ WideBegun(g, v, broken)
  BY WideCase
<1>2. CASE AtEnd("wide", g, v)
  BY <1>2, WideEnds
<1>3. CASE /\ ~AtEnd("wide", g, v)
           /\ (WaitingHalf(g) = 1 /\ cb <= 1) \/ CutsChar(v)
  BY <1>3, WideFails
<1>4. CASE /\ ~AtEnd("wide", g, v) /\ WideBegun(g, v, broken)
           /\ ~(WaitingHalf(g) = 1 /\ cb <= 1)
  BY <1>4, WideGoesOn
<1>5. CASE /\ ~AtEnd("wide", g, v) /\ WideUnbegun(g, v) /\ ~CutsChar(v)
  BY <1>5, WideBegins
<1> QED
  BY <1>1, <1>2, <1>3, <1>4, <1>5 DEF WideBegun

(***************************************************************************)
(* Any conversion.                                                         *)
(***************************************************************************)
LEMMA NullIsNoText == Null \notin Texts
<1> SUFFICES ASSUME Null \in Texts PROVE FALSE
  OBVIOUS
<1>1. Len(Null) = 1 /\ Null[1] = "null"
  BY DEF Null
<1>2. \A i \in 1..Len(Null) : Null[i] \in {"n", "p"}
  BY DEF Texts
<1> QED
  BY <1>1, <1>2

LEMMA ConvertFaithful ==
    ASSUME options.max \in Nat, NEW cv \in AnyConversion,
           NEW v \in Texts, cv = "bit" => v # <<>>,
           NEW g \in PositionT, NEW cb \in Nat, NEW broken \in BOOLEAN,
           Placed(cv, g, v, broken)
    PROVE  Faithful(cv, g, v, cb, Convert(cv, g, v, cb), broken)
<1>1. v # Null
  BY NullIsNoText
<1>2. CASE cv = "binary"
  <2>1. Convert(cv, g, v, cb) = CopyBinary(g, v, cb)
    BY <1>1, <1>2 DEF Convert
  <2>2. RoomFor(cv, cb) => cb >= 1
    BY <1>2 DEF RoomFor
  <2>3. Faithful(cv, g, v, cb, CopyBinary(g, v, cb), broken)
    BY <1>2, <2>2, BinaryFaithful
  <2> QED
    BY <2>1, <2>3, Zenon
<1>3. CASE cv = "ansi"
  <2>1. Convert(cv, g, v, cb) = CopyAnsi(g, v, cb)
    BY <1>1, <1>3 DEF Convert
  <2>2. Faithful("ansi", g, v, cb, CopyAnsi(g, v, cb), broken)
    BY <1>3, AnsiFaithful
  <2> QED
    BY <1>3, <2>1, <2>2, Zenon
<1>4. CASE cv = "wide"
  <2>1. Convert(cv, g, v, cb) = CopyWide(g, v, cb)
    BY <1>1, <1>4 DEF Convert
  <2>2. Faithful("wide", g, v, cb, CopyWide(g, v, cb), broken)
    BY <1>4, WideFaithful
  <2> QED
    BY <1>4, <2>1, <2>2, Zenon
<1>5. CASE cv = "bit"
  <2>1. Convert(cv, g, v, cb) = CopyBit(g, v, cb)
    BY <1>1, <1>5 DEF Convert
  <2>2. Faithful("bit", g, v, cb, CopyBit(g, v, cb), broken)
    BY <1>5, BitFaithful
  <2> QED
    BY <1>5, <2>1, <2>2, Zenon
<1>6. CASE cv = "stream"
  <2>1. Convert(cv, g, v, cb) = FetchChunk(g, v, cb)
    BY <1>1, <1>6 DEF Convert
  <2>2. Faithful("stream", g, v, cb, FetchChunk(g, v, cb), broken)
    BY <1>6, StreamFaithful
  <2> QED
    BY <1>6, <2>1, <2>2, Zenon
<1>7. CASE cv \in ByDigits
  <2>1. PICK width \in {1, 2} :
          Convert(cv, g, v, cb) = CopyBinhex(g, v, cb, width)
    <3>1. cv \in {"hex", "whex"}
      BY <1>7 DEF ByDigits
    <3> QED
      BY <1>1, <3>1 DEF Convert
  <2>2. Faithful(cv, g, v, cb, CopyBinhex(g, v, cb, width), broken)
    BY <1>7, DigitsFaithful
  <2> QED
    BY <2>1, <2>2, Zenon
<1> QED
  BY <1>2, <1>3, <1>4, <1>5, <1>6, <1>7 DEF AnyConversion, ByBytes

(* The owner of a position says nothing of where it is.                    *)
LEMMA SamePlace ==
    ASSUME NEW p, NEW q, NEW cv \in AnyConversion, NEW v, NEW b,
           p.source = q.source, p.dst_bytes = q.dst_bytes,
           p.dst_offset = q.dst_offset, p.src_offset = q.src_offset,
           p.latest = q.latest
    PROVE  /\ Have(cv, p) = Have(cv, q)
           /\ Placed(cv, p, v, b) <=> Placed(cv, q, v, b)
           /\ AtEnd(cv, p, v) <=> AtEnd(cv, q, v)
<1>1. CASE cv \in ByBytes
  <2>1. From(p) = From(q)
    BY DEF From
  <2> QED
    BY <1>1, <2>1, BytesCase
<1>2. CASE cv \in ByDigits
  <2>1. Offset(p) = Offset(q)
    BY DEF Offset
  <2> QED
    BY <1>2, <2>1, DigitsCase
<1>3. CASE cv = "stream"
  BY <1>3, StreamCase
<1>4. CASE cv = "wide"
  <2>1. WaitingHalf(p) = WaitingHalf(q)
    BY DEF WaitingHalf
  <2>2. WideUnbegun(p, v) <=> WideUnbegun(q, v)
    BY DEF WideUnbegun
  <2>3. WideBegun(p, v, b) <=> WideBegun(q, v, b)
    BY <2>1 DEF WideBegun
  <2> QED
    BY <1>4, <2>2, <2>3, WideCase
<1> QED
  BY <1>1, <1>2, <1>3, <1>4 DEF AnyConversion

LEMMA OwnedIs ==
    ASSUME NEW p \in PositionT, NEW c \in Int
    PROVE  /\ Owned(p, c) \in PositionT /\ Owned(p, c).column = p.column
           /\ Owned(p, c).source = p.source
           /\ Owned(p, c).dst_bytes = p.dst_bytes
           /\ Owned(p, c).dst_offset = p.dst_offset
           /\ Owned(p, c).src_offset = p.src_offset
           /\ Owned(p, c).latest = p.latest
           /\ Owned(p, c).of = IF p.source = None THEN Nowhere
                               ELSE IF p.of = Nowhere THEN c ELSE p.of
<1> DEFINE o == IF p.source = None THEN Nowhere
                ELSE IF p.of = Nowhere THEN c ELSE p.of
<1>1. Owned(p, c) = [p EXCEPT !.of = o]
  BY Zenon DEF Owned
<1>2. o \in Int
  BY DEF PositionT, Nowhere
<1> HIDE DEF o
<1>3. /\ [p EXCEPT !.of = o] \in PositionT
      /\ [p EXCEPT !.of = o].of = o
      /\ [p EXCEPT !.of = o].column = p.column
      /\ [p EXCEPT !.of = o].source = p.source
      /\ [p EXCEPT !.of = o].dst_bytes = p.dst_bytes
      /\ [p EXCEPT !.of = o].dst_offset = p.dst_offset
      /\ [p EXCEPT !.of = o].src_offset = p.src_offset
      /\ [p EXCEPT !.of = o].latest = p.latest
  BY <1>2 DEF PositionT
<1> QED
  BY <1>1, <1>3, Zenon DEF o

(* From a fresh position any column can be read.                           *)
LEMMA FreshPlaced ==
    ASSUME NEW g, Fresh(g), NEW cv \in AnyConversion, cv # "stream", NEW v,
           NEW b
    PROVE  Placed(cv, g, v, b) /\ Have(cv, g) = 0
<1>1. CASE cv \in ByBytes
  BY <1>1, BytesCase DEF Fresh, From
<1>2. CASE cv \in ByDigits
  BY <1>2, DigitsCase DEF Fresh, Offset
<1>3. CASE cv = "wide"
  BY <1>3, WideCase DEF Fresh, WideUnbegun
<1> QED
  BY <1>1, <1>2, <1>3 DEF AnyConversion

(***************************************************************************)
(* A call of SQLGetData, on the bookmark, a column or a stream: what it    *)
(* does to what is held of the value.                                      *)
(***************************************************************************)
BegunOf(c) == IF c = getdata.column THEN got ELSE <<>>
KnownOf(c) == IF c = getdata.column THEN slips ELSE {}
Slips == {"split", "cut", "short", "stray"}

(* Before the call, and what it leaves.                                    *)
Ready(c, cv, v) ==
    /\ PositionFor(c) \in PositionT
    /\ BegunOf(c) \in Seq(Nat) /\ KnownOf(c) \subseteq Slips
    /\ Placed(cv, PositionFor(c), v, "split" \in KnownOf(c))
    /\ KnownOf(c) \cap Unsound = {} =>
         BegunOf(c) = Run(1, Have(cv, PositionFor(c)))
    /\ cv # "bit" => "short" \notin KnownOf(c)

Left(c, cv, v) ==
    /\ getdata' \in PositionT /\ getdata'.column = PositionFor(c).column
    /\ getdata'.of = IF getdata'.source = None THEN Nowhere
                     ELSE IF PositionFor(c).of = Nowhere THEN c
                     ELSE PositionFor(c).of
    /\ Placed(cv, getdata', v, "split" \in slips')
    /\ slips' \cap Unsound = {} => got' = Run(1, Have(cv, getdata'))
    /\ got' \in Seq(Nat)
    /\ slips' \subseteq Slips
    /\ slips' \subseteq KnownOf(c) \cup {"split", "cut", "short"}
    /\ cv # "bit" => "short" \notin slips'
    /\ cv # "wide" /\ cv # "bit" => slips' = KnownOf(c)

Answered(c, cv, v, cb) ==
    /\ last' \in [ret : {"none", "success", "info", "nodata", "error",
                         "crash"},
                  avail : Nat \cup {None}, room : Nat, had : Nat]
    /\ last'.ret # "none" /\ last'.room = cb /\ last'.had = Len(BegunOf(c))
    /\ slips' \cap Unsound = {} =>
         Len(got') <= Total(cv, v) /\ got' = Run(1, Len(got'))
    /\ slips' \cap Unsound = {} /\ last'.ret = "nodata" =>
         Len(got') = Total(cv, v)
    /\ {"split", "stray"} \cap slips' = {} /\ last'.avail # None
         /\ cv # "bit" /\ (cv = "ansi" => options.max = 0) =>
         last'.avail = IF cv = "stream" /\ last'.ret = "nodata"
                       THEN Total(cv, v) ELSE Total(cv, v) - last'.had
    /\ last'.ret = "info" /\ RoomFor(cv, cb) => Len(got') > last'.had

KeepsPromise(c, cv, v) ==
    slips' = {} /\ cv \in Kept /\ last'.ret # "crash" =>
        /\ last'.ret \in {"success", "info", "nodata"}
        /\ Len(BegunOf(c)) <= Len(got') /\ Len(got') <= Total(cv, v)
        /\ last'.ret = "success" => Len(got') = Total(cv, v)
        /\ last'.ret = "info" => Len(got') < Total(cv, v)
                                  \/ Total(cv, v) = 0
        /\ last'.ret = "nodata" => /\ Len(got') = Total(cv, v)
                                   /\ Len(BegunOf(c)) = Total(cv, v)
        /\ last'.ret # "info" => AtEnd(cv, getdata', v)
        /\ AtEnd(cv, PositionFor(c), v) => last'.ret = "nodata"

LEMMA DeliverIs ==
    ASSUME options.max \in Nat, NEW c \in Int, NEW cv \in AnyConversion,
           NEW v \in Texts, cv = "bit" => v # <<>>, NEW cb \in Nat,
           Ready(c, cv, v), Deliver(c, cv, v, cb)
    PROVE  Left(c, cv, v) /\ Answered(c, cv, v, cb) /\ KeepsPromise(c, cv, v)
<1> DEFINE g     == PositionFor(c)
           begun == BegunOf(c)
           known == KnownOf(c)
           ch    == Convert(cv, g, v, cb)
           split == Splits(cv, g, ch.getdata)
           b     == "split" \in known
<1>1. /\ getdata' = Owned(ch.getdata, c) /\ got' = begun \o ch.units
      /\ last' = [ret |-> ch.ret, avail |-> ch.avail, room |-> cb,
                  had |-> Len(begun)]
      /\ slips' = known \cup SlipsOf(cv, g, ch, cb)
  BY Zenon DEF Deliver, BegunOf, KnownOf
<1>2. /\ g \in PositionT /\ begun \in Seq(Nat) /\ known \subseteq Slips
      /\ Placed(cv, g, v, b)
      /\ known \cap Unsound = {} => begun = Run(1, Have(cv, g))
      /\ cv # "bit" => "short" \notin known
  BY DEF Ready
<1>3. b \in BOOLEAN
  OBVIOUS
<1>4. Faithful(cv, g, v, cb, ch, b)
  BY <1>2, <1>3, ConvertFaithful
<1> HIDE DEF g, begun, known, ch
<1>5. Leaves(cv, g, v, ch, b) /\ GetsOn(cv, g, v, cb, ch)
  BY <1>4 DEF Faithful
<1>6. ~b /\ ~split => /\ Have(cv, g) \in Nat
                      /\ Joins(cv, g, v, cb, ch) /\ Tells(cv, g, v, ch)
  BY <1>4 DEF Faithful
<1>7. /\ "split" \in slips' <=> b \/ split
      /\ "stray" \in slips' <=> "stray" \in known
      /\ "short" \in slips' <=> "short" \in known \/ (cv = "bit" /\ cb < 2)
      /\ "cut" \in slips' <=> "cut" \in known \/ ch.ret = "error"
      /\ slips' \subseteq known \cup {"split", "cut", "short"}
      /\ known \subseteq slips'
  BY <1>1 DEF SlipsOf, Splits
<1>8. /\ ch.getdata \in PositionT
      /\ ch.getdata.column = g.column /\ ch.getdata.of = g.of
      /\ Placed(cv, ch.getdata, v, b \/ split)
      /\ ch.ret = "nodata" => ch.getdata = g
      /\ ch.units \in Seq(Nat) /\ ch.avail \in Nat \cup {None}
      /\ ch.ret \in {"success", "info", "nodata", "error", "crash"}
      /\ ch.ret = "error" => cv = "wide"
  BY <1>5 DEF Leaves
<1>9. /\ getdata' \in PositionT /\ getdata'.column = g.column
      /\ getdata'.source = ch.getdata.source
      /\ getdata'.dst_bytes = ch.getdata.dst_bytes
      /\ getdata'.dst_offset = ch.getdata.dst_offset
      /\ getdata'.src_offset = ch.getdata.src_offset
      /\ getdata'.latest = ch.getdata.latest
      /\ getdata'.of = IF getdata'.source = None THEN Nowhere
                       ELSE IF g.of = Nowhere THEN c ELSE g.of
  <2> DEFINE p == ch.getdata
  <2>1. p \in PositionT /\ c \in Int
    BY <1>8
  <2>2. getdata' = Owned(p, c)
    BY <1>1
  <2> HIDE DEF p
  <2>3. getdata' \in PositionT /\ getdata'.column = p.column
        /\ getdata'.source = p.source /\ getdata'.dst_bytes = p.dst_bytes
        /\ getdata'.dst_offset = p.dst_offset
        /\ getdata'.src_offset = p.src_offset /\ getdata'.latest = p.latest
        /\ getdata'.of = IF p.source = None THEN Nowhere
                         ELSE IF p.of = Nowhere THEN c ELSE p.of
    BY <2>1, <2>2, OwnedIs
  <2> QED
    BY <1>8, <2>3 DEF p
<1>10. /\ Have(cv, getdata') = Have(cv, ch.getdata)
       /\ Placed(cv, getdata', v, "split" \in slips')
       /\ AtEnd(cv, getdata', v) <=> AtEnd(cv, ch.getdata, v)
  <2>1. /\ Have(cv, getdata') = Have(cv, ch.getdata)
        /\ Placed(cv, getdata', v, b \/ split)
             <=> Placed(cv, ch.getdata, v, b \/ split)
        /\ AtEnd(cv, getdata', v) <=> AtEnd(cv, ch.getdata, v)
    BY <1>9, SamePlace, Zenon
  <2>2. ("split" \in slips') = (b \/ split)
    BY <1>7
  <2> QED
    BY <1>8, <2>1, <2>2, Zenon
<1>11. got' \in Seq(Nat) /\ Len(begun) \in Nat
       /\ Len(got') = Len(begun) + Len(ch.units) /\ Len(ch.units) \in Nat
  BY <1>1, <1>2, <1>8
(* Nothing has gone wrong: the units join.                                 *)
<1>12. ASSUME slips' \cap Unsound = {}
       PROVE  /\ ~b /\ ~split /\ ~(cv = "bit" /\ cb < 2)
              /\ Have(cv, g) \in Nat /\ Len(begun) = Have(cv, g)
              /\ Have(cv, getdata') \in Have(cv, g)..Total(cv, v)
              /\ got' = Run(1, Have(cv, getdata'))
              /\ Len(got') = Have(cv, getdata')
  <2>1. ~b /\ ~split /\ ~(cv = "bit" /\ cb < 2) /\ known \cap Unsound = {}
    BY <1>7, <1>12 DEF Unsound
  <2> DEFINE a == Have(cv, g)
             d == Have(cv, ch.getdata) - Have(cv, g)
  <2>2. /\ a \in Nat /\ begun = Run(1, a)
        /\ Have(cv, ch.getdata) \in a..Total(cv, v)
        /\ ch.units = Run(a + 1, d)
    BY <1>2, <1>6, <2>1 DEF Joins
  <2>3. d \in Nat /\ a + d = Have(cv, getdata')
    BY <1>10, <2>2
  <2>4. got' = Run(1, a + d)
    <3> HIDE DEF a, d
    <3>1. got' = Run(1, a) \o Run(a + 1, d)
      BY <1>1, <2>2, Zenon
    <3> QED
      BY <2>2, <2>3, <3>1, RunJoins, Zenon
  <2>5. Len(begun) = a /\ Len(got') = a + d
    <3> HIDE DEF a, d
    <3>1. 1 \in Nat /\ a \in Nat /\ a + d \in Nat
      BY <2>2, <2>3
    <3> QED
      BY <2>2, <2>4, <3>1, RunIs, Zenon
  <2> HIDE DEF d
  <2> QED
    BY <1>10, <2>1, <2>2, <2>3, <2>4, <2>5
<1>13. Left(c, cv, v)
  <2>1. /\ slips' \subseteq Slips
        /\ cv # "bit" => "short" \notin slips'
    BY <1>2, <1>7 DEF Slips
  <2>2. cv # "wide" /\ cv # "bit" => slips' = known
    BY <1>7, <1>8 DEF Splits
  <2> QED
    BY <1>7, <1>9, <1>10, <1>11, <1>12, <2>1, <2>2 DEF Left, g, known
<1>14. Answered(c, cv, v, cb)
  <2>1. /\ last'.ret = ch.ret /\ last'.avail = ch.avail
        /\ last'.room = cb /\ last'.had = Len(begun)
        /\ last' \in [ret : {"none", "success", "info", "nodata", "error",
                             "crash"},
                      avail : Nat \cup {None}, room : Nat, had : Nat]
    BY <1>1, <1>8, <1>11
  <2>2. slips' \cap Unsound = {} =>
          Len(got') <= Total(cv, v) /\ got' = Run(1, Len(got'))
    BY <1>12
  <2>3. ASSUME slips' \cap Unsound = {}, ch.ret = "nodata"
        PROVE  Len(got') = Total(cv, v)
    <3>1. Have(cv, g) = Total(cv, v)
      BY <1>6, <1>12, <2>3 DEF Tells
    <3>2. Have(cv, getdata') = Have(cv, g)
      BY <1>8, <1>10, <2>3
    <3> QED
      BY <1>12, <2>3, <3>1, <3>2
  <2>4. ASSUME {"split", "stray"} \cap slips' = {}, ch.avail # None,
               cv # "bit", cv = "ansi" => options.max = 0
        PROVE  ch.avail = IF cv = "stream" /\ ch.ret = "nodata"
                          THEN Total(cv, v) ELSE Total(cv, v) - Len(begun)
    <3>1. slips' \cap Unsound = {}
      BY <1>2, <1>7, <2>4 DEF Unsound
    <3>2. ~b /\ ~split /\ Len(begun) = Have(cv, g)
      BY <1>12, <3>1
    <3> QED
      BY <1>6, <2>4, <3>2 DEF Tells
  <2>5. ch.ret = "info" /\ RoomFor(cv, cb) => Len(got') > Len(begun)
    BY <1>5, <1>11 DEF GetsOn
  <2> QED
    BY <1>8, <2>1, <2>2, <2>3, <2>4, <2>5 DEF Answered, begun
<1>15. KeepsPromise(c, cv, v)
  <2> SUFFICES ASSUME slips' = {}, cv \in Kept, last'.ret # "crash"
               PROVE
        /\ last'.ret \in {"success", "info", "nodata"}
        /\ Len(begun) <= Len(got') /\ Len(got') <= Total(cv, v)
        /\ last'.ret = "success" => Len(got') = Total(cv, v)
        /\ last'.ret = "info" => Len(got') < Total(cv, v)
                                  \/ Total(cv, v) = 0
        /\ last'.ret = "nodata" => /\ Len(got') = Total(cv, v)
                                   /\ Len(begun) = Total(cv, v)
        /\ last'.ret # "info" => AtEnd(cv, getdata', v)
        /\ AtEnd(cv, g, v) => last'.ret = "nodata"
    BY DEF KeepsPromise, begun, g
  <2>1. last'.ret = ch.ret
    BY <1>1
  <2>2. slips' \cap Unsound = {} /\ "cut" \notin slips'
    OBVIOUS
  <2>3. ch.ret \in {"success", "info", "nodata"}
    BY <1>7, <1>8, <2>1, <2>2
  <2>4. /\ Have(cv, g) \in Nat /\ Len(begun) = Have(cv, g)
        /\ Have(cv, getdata') \in Have(cv, g)..Total(cv, v)
        /\ Len(got') = Have(cv, getdata')
        /\ Tells(cv, g, v, ch)
    BY <1>6, <1>12, <2>2
  <2>5. /\ ch.ret \in {"success", "nodata"} => AtEnd(cv, getdata', v)
        /\ ch.ret = "success" => Have(cv, getdata') = Total(cv, v)
        /\ ch.ret = "info" => Have(cv, getdata') < Total(cv, v)
                                \/ Total(cv, v) = 0
        /\ ch.ret = "nodata" => Have(cv, g) = Total(cv, v)
                                 /\ Have(cv, getdata') = Have(cv, g)
    BY <1>8, <1>10, <2>4 DEF Tells
  <2>6. AtEnd(cv, g, v) => ch.ret = "nodata"
    BY <1>5 DEF GetsOn
  <2> QED
    BY <2>1, <2>3, <2>4, <2>5, <2>6
<1> QED
  BY <1>13, <1>14, <1>15

(* The limit does not change, so a position means the same afterwards.     *)
LEMMA LimitsStay ==
    ASSUME options' = options, NEW cv, NEW v
    PROVE  /\ Limited(Size(v))' = Limited(Size(v))
           /\ HexSize(v)' = HexSize(v) /\ Whole(v)' = Whole(v)
           /\ CutsChar(v)' = CutsChar(v) /\ Total(cv, v)' = Total(cv, v)
<1>1. Limited(Size(v))' = Limited(Size(v))
  BY DEF Limited
<1>2. HexSize(v)' = HexSize(v)
  BY DEF HexSize
<1>3. Whole(v)' = Whole(v)
  BY <1>1, Zenon DEF Whole
<1>4. CutsChar(v)' = CutsChar(v)
  BY <1>1, <1>3, Zenon DEF CutsChar
<1>5. Total(cv, v)' = Total(cv, v)
  BY <1>1, <1>2, <1>3 DEF Total
<1> QED
  BY <1>1, <1>2, <1>3, <1>4, <1>5

LEMMA PlacesStay ==
    ASSUME options' = options, NEW cv \in AnyConversion, NEW v, NEW p, NEW b
    PROVE  /\ Placed(cv, p, v, b)' <=> Placed(cv, p, v, b)
           /\ AtEnd(cv, p, v)' <=> AtEnd(cv, p, v)
<1>1. /\ Limited(Size(v))' = Limited(Size(v))
      /\ HexSize(v)' = HexSize(v) /\ Whole(v)' = Whole(v)
      /\ CutsChar(v)' = CutsChar(v)
  BY LimitsStay
<1>2. WideUnbegun(p, v)' <=> WideUnbegun(p, v)
  BY <1>1 DEF WideUnbegun
<1>3. WideBegun(p, v, b)' <=> WideBegun(p, v, b)
  BY <1>1 DEF WideBegun
<1> QED
  BY <1>1, <1>2, <1>3 DEF Placed, AtEnd

LEMMA HeldAfter ==
    ASSUME options' = options, NEW cv \in AnyConversion, NEW v,
           Placed(cv, getdata', v, "split" \in slips'),
           slips' \cap Unsound = {} => got' = Run(1, Have(cv, getdata'))
    PROVE  Held(cv, v)'
<1>1. PICK p : p = getdata'
  OBVIOUS
<1>2. PICK b : b = ("split" \in slips')
  OBVIOUS
<1>3. Placed(cv, p, v, b)'
  BY <1>1, <1>2, PlacesStay
<1>4. Placed(cv, getdata, v, "split" \in slips)'
  BY <1>1, <1>2, <1>3
<1>5. (slips \cap Unsound = {} => got = Run(1, Have(cv, getdata)))'
  OBVIOUS
<1> QED
  BY <1>4, <1>5 DEF Held

(***************************************************************************)
(* The types of what is read.                                              *)
(***************************************************************************)
LEMMA ColumnsAre ==
    /\ Len(Kinds) \in Nat /\ Columns \subseteq Nat
    /\ Cardinality(OutParams) \in Nat /\ IsFiniteSet(OutParams)
    /\ LastColumn \in Int
    /\ \A c \in Columns : c \in -1..LastColumn /\ c + 1 \in 1..Len(Kinds)
                            /\ c # Bookmark /\ c # Nowhere /\ c # None
    /\ \A c \in 0..(Cardinality(OutParams) - 1) : c \in -1..LastColumn
    /\ Bookmark \in -1..LastColumn /\ Bookmark \in Int
    /\ OutParams \subseteq Nat /\ StreamParams \subseteq OutParams
<1>1. Len(Kinds) \in Nat /\ Len(ParamTypes) \in Nat
  BY KindsAssumption, ParamTypesAssumption
<1>2. IsFiniteSet(OutParams)
  <2>1. IsFiniteSet(0..(Len(ParamTypes) - 1))
    BY <1>1, FS_Interval
  <2>2. OutParams \in SUBSET (0..(Len(ParamTypes) - 1))
    BY DEF OutParams
  <2> QED
    BY <2>1, <2>2, FS_Subset
<1>3. Cardinality(OutParams) \in Nat
  BY <1>2, FS_CardinalityType
<1>4. Columns \subseteq Nat
      /\ \A c \in Columns : /\ c + 1 \in 1..Len(Kinds)
                            /\ c # Bookmark /\ c # Nowhere /\ c # None
  BY <1>1 DEF Columns, Bookmark, Nowhere, None
<1>5. /\ LastColumn \in Int /\ LastColumn >= Len(Kinds) - 1
      /\ LastColumn >= Cardinality(OutParams) - 1
  BY <1>1, <1>3 DEF LastColumn
<1>6. OutParams \subseteq Nat /\ StreamParams \subseteq OutParams
  BY <1>1 DEF OutParams, StreamParams
<1>7. \A c \in Columns : c \in -1..LastColumn
  BY <1>1, <1>5 DEF Columns
<1>8. \A c \in 0..(Cardinality(OutParams) - 1) : c \in -1..LastColumn
  BY <1>3, <1>5
<1>9. Bookmark \in -1..LastColumn /\ Bookmark \in Int
  BY <1>1, <1>5 DEF Bookmark
<1> QED
  BY <1>1, <1>2, <1>3, <1>4, <1>5, <1>6, <1>7, <1>8, <1>9

LEMMA ConversionsAre ==
    ASSUME NEW kind \in {"text", "blob", "bit"}, NEW cv \in Conversions(kind)
    PROVE  /\ cv \in AnyConversion /\ cv # "stream" /\ cv # "none"
           /\ cv = "bit" => kind = "bit"
  BY DEF Conversions, AnyConversion, ByBytes, ByDigits

(* A value of a row.                                                       *)
LEMMA RowValue ==
    ASSUME NEW r \in Rows, NEW c \in Columns
    PROVE  /\ Kinds[c + 1] \in {"text", "blob", "bit"}
           /\ r[c + 1] \in Texts \cup {Null}
           /\ Kinds[c + 1] = "bit" => r[c + 1] # <<>>
<1>1. c + 1 \in 1..Len(Kinds)
  BY ColumnsAre
<1>2. Kinds[c + 1] \in {"text", "blob", "bit"}
  BY <1>1, KindsAssumption
<1>3. r[c + 1] \in Values[Kinds[c + 1]]
  BY <1>1 DEF Rows
<1>4. Values[Kinds[c + 1]] \subseteq Texts \cup {Null}
  BY <1>2, ValuesAssumption
<1>5. Kinds[c + 1] = "bit" => r[c + 1] # <<>>
  <2> SUFFICES ASSUME Kinds[c + 1] = "bit", r[c + 1] = <<>> PROVE FALSE
    OBVIOUS
  <2>1. <<>> \in Values["bit"]
    BY <1>3
  <2> QED
    BY <2>1, ValuesAssumption
<1> QED
  BY <1>2, <1>3, <1>4, <1>5

LEMMA StartIs ==
    /\ Start \in PositionT /\ Fresh(Start) /\ Start.of = Nowhere
    /\ Start.column = Bookmark /\ Start.source = None
    /\ \A g : ResetGetdata(g) = Start
  BY DEF Start, PositionT, Fresh, ResetGetdata, None, Nowhere, Bookmark

LEMMA OneDigit == <<"n">> \in Texts /\ <<"n">> # <<>> /\ <<"n">> # Null
<1>1. <<"n">> \in Texts /\ <<"n">> # <<>>
  BY DEF Texts
<1> QED
  BY <1>1, NullIsNoText

(* Where a call starts from.                                               *)
LEMMA PositionForIs ==
    ASSUME getdata \in PositionT, NEW c \in Int
    PROVE  /\ PositionFor(c) \in PositionT /\ PositionFor(c).column = c
           /\ c = getdata.column => PositionFor(c) = getdata
           /\ c # getdata.column =>
                Fresh(PositionFor(c)) /\ PositionFor(c).of = Nowhere
<1> DEFINE p == [ResetGetdata(getdata) EXCEPT !.column = c]
<1>1. /\ p \in PositionT /\ p.column = c /\ Fresh(p) /\ p.of = Nowhere
  BY DEF ResetGetdata, Start, PositionT, Fresh, None, Nowhere, Bookmark
<1>2. /\ c # getdata.column => PositionFor(c) = p
      /\ c = getdata.column => PositionFor(c) = getdata
  BY Zenon DEF PositionFor
<1> HIDE DEF p
<1> QED
  BY <1>1, <1>2

(***************************************************************************)
(* The invariant holds at first, and every step keeps it.                  *)
(***************************************************************************)
LEMMA ReadTypes ==
    ASSUME ReadTypeOK
    PROVE  /\ options.max \in Nat /\ options.bound \in Columns \cup {None}
           /\ row \in Rows \cup {<<>>} /\ getdata \in PositionT
           /\ getdata.column \in -1..LastColumn
           /\ got \in Seq(Nat) /\ slips \subseteq Slips
           /\ pending \in BOOLEAN
<1>1. options.max \in Nat /\ options.bound \in Columns \cup {None}
  BY LensAssumption DEF ReadTypeOK
<1>2. getdata \in PositionT /\ getdata.column \in -1..LastColumn
  BY ColumnsAre DEF ReadTypeOK, Positions, PositionT
<1>3. row \in Rows \cup {<<>>} /\ got \in Seq(Nat) /\ pending \in BOOLEAN
      /\ slips \subseteq Slips
  BY DEF ReadTypeOK, Slips
<1> QED
  BY <1>1, <1>2, <1>3

(* No part has been read: nothing can be said falsely.                     *)
Untold == conv = "none" /\ got = <<>> /\ last = Unread /\ slips = {}

LEMMA UntoldIsTrue ==
    ASSUME Untold
    PROVE  /\ ReadsWhole /\ CallsTruthful /\ EndTold
           /\ got \in Seq(Nat) /\ slips \subseteq Slips
           /\ slips \cap Unsound = {} /\ got = Run(1, 0)
           /\ last \in [ret : {"none", "success", "info", "nodata", "error",
                               "crash"},
                        avail : Nat \cup {None}, room : Nat, had : Nat]
           /\ last.ret = "none"
<1>1. ~Reading /\ ~ReadingValue
  BY DEF Untold, Reading, ReadingValue
<1>2. ReadsWhole
  BY <1>1 DEF ReadsWhole, ChunksJoin, NoDataMeansAll
<1>3. last.ret = "none" /\ last.ret # "info"
  BY DEF Untold, Unread
<1>4. CallsTruthful
  BY <1>1, <1>3 DEF CallsTruthful, IndicatorTruthful, LoopsGetOn
<1>5. EndTold
  BY <1>1 DEF EndTold, Promised
<1>6. last \in [ret : {"none", "success", "info", "nodata", "error",
                       "crash"},
                avail : Nat \cup {None}, room : Nat, had : Nat]
  BY DEF Untold, Unread
<1>7. Run(1, 0) = <<>>
  <2>1. 1 \in Nat /\ 0 \in Nat
    OBVIOUS
  <2> QED
    BY <2>1, RunIs, Zenon
<1>8. /\ got \in Seq(Nat) /\ slips \subseteq Slips
      /\ slips \cap Unsound = {} /\ got = Run(1, 0)
  BY <1>7 DEF Untold
<1> QED
  BY <1>2, <1>3, <1>4, <1>5, <1>6, <1>8

(* At a new row the position is a fresh one, or that of a bound column.    *)
NewRow ==
    /\ getdata \in PositionT /\ getdata.column = Bookmark
    /\ getdata.of = Nowhere <=> getdata.source = None
    /\ getdata.of # Bookmark

NothingRead ==
    /\ NewRow /\ Untold
    /\ options \in [max : MaxLengths, bound : Columns \cup {None}]
    /\ row \in Rows \cup {<<>>} /\ pending = FALSE
    /\ current_param \in StreamParams \cup {None}

LEMMA NewRowHolds == NothingRead => GInv
<1> SUFFICES ASSUME NothingRead PROVE GInv
  OBVIOUS
<1>0. /\ NewRow /\ Untold
      /\ options \in [max : MaxLengths, bound : Columns \cup {None}]
      /\ row \in Rows \cup {<<>>} /\ pending = FALSE
      /\ current_param \in StreamParams \cup {None}
  BY DEF NothingRead
<1>1. /\ ReadsWhole /\ CallsTruthful /\ EndTold
      /\ got \in Seq(Nat) /\ slips \subseteq Slips
      /\ slips \cap Unsound = {} /\ got = Run(1, 0)
      /\ last \in [ret : {"none", "success", "info", "nodata", "error",
                          "crash"},
                   avail : Nat \cup {None}, room : Nat, had : Nat]
      /\ last.ret = "none"
  BY <1>0, UntoldIsTrue
<1>2. ReadTypeOK
  <2>1. getdata \in Positions
    BY <1>0, ColumnsAre DEF NewRow, PositionT, Positions
  <2>2. conv \in (UNION {Conversions(Kinds[i]) : i \in 1..Len(Kinds)})
                \cup {"none", "binary", "stream"}
    <3>1. conv \in {"none", "binary", "stream"}
      BY <1>0 DEF Untold
    <3> QED
      BY <3>1, Zenon
  <2> QED
    BY <1>0, <1>1, <2>1, <2>2 DEF ReadTypeOK, Slips
<1>3. OneAtATime
  BY <1>0, <1>1 DEF OneAtATime, NewRow, Untold
<1>4. OwnerKnown /\ SourceInValue
  BY <1>0 DEF OwnerKnown, SourceInValue, NewRow
<1>5. ColumnHeld
  BY <1>0, ColumnsAre DEF ColumnHeld, NewRow
<1>6. BookmarkHeld
  <2> SUFFICES ASSUME getdata.of \in {Nowhere, Bookmark}
               PROVE  Held("binary", <<"n">>)
    BY <1>0 DEF BookmarkHeld, Untold
  <2>1. getdata.source = None
    BY <1>0 DEF NewRow
  <2>2. "binary" \in ByBytes
    BY DEF ByBytes
  <2>3. /\ Placed("binary", getdata, <<"n">>, "split" \in slips)
        /\ Have("binary", getdata) = 0
    BY <2>1, <2>2, BytesCase DEF From
  <2> QED
    BY <1>1, <2>3 DEF Held
<1>7. StreamHeld
  BY <1>0 DEF StreamHeld
<1> QED
  BY <1>1, <1>2, <1>3, <1>4, <1>5, <1>6, <1>7 DEF GInv

LEMMA GInit == ReadInit => GInv
<1> SUFFICES ASSUME ReadInit PROVE GInv
  OBVIOUS
<1>1. NewRow
  BY StartIs DEF ReadInit, NewRow, Nowhere, Bookmark
<1>2. Untold
  BY DEF ReadInit, Untold
<1> QED
  BY <1>1, <1>2, NewRowHolds DEF ReadInit, NothingRead

(* The position that delivering a value to a bound buffer leaves.          *)
LEMMA FromStart ==
    ASSUME options.max \in Nat, NEW cv \in AnyConversion, cv # "stream",
           NEW v \in Texts \cup {Null}, cv = "bit" => v # <<>>, NEW c \in Nat,
           NEW p, p = Owned(Convert(cv, Start, v, BoundLen).getdata, c)
    PROVE  /\ p \in PositionT /\ p.column = Bookmark
           /\ p.of = Nowhere <=> p.source = None
           /\ p.of # Bookmark
<1> DEFINE q == Convert(cv, Start, v, BoundLen).getdata
<1>1. q \in PositionT /\ q.column = Bookmark /\ q.of = Nowhere
  <2>1. CASE v = Null
    <3>1. q = Start
      BY <2>1 DEF Convert, Chunk
    <3> QED
      BY <3>1, StartIs
  <2>2. CASE v \in Texts
    <3>1. Placed(cv, Start, v, FALSE)
      BY StartIs, FreshPlaced
    <3>2. BoundLen \in Nat
      BY LensAssumption
    <3>3. Faithful(cv, Start, v, BoundLen, Convert(cv, Start, v, BoundLen),
                   FALSE)
      BY <2>2, <3>1, <3>2, StartIs, ConvertFaithful
    <3> QED
      BY <3>3, StartIs DEF Faithful, Leaves
  <2> QED
    BY <2>1, <2>2
<1>2. p = Owned(q, c)
  OBVIOUS
<1> HIDE DEF q
<1>3. /\ Owned(q, c) \in PositionT /\ Owned(q, c).column = q.column
      /\ Owned(q, c).source = q.source
      /\ Owned(q, c).of = IF q.source = None THEN Nowhere
                          ELSE IF q.of = Nowhere THEN c ELSE q.of
  <2>1. c \in Int
    OBVIOUS
  <2> QED
    BY <1>1, <2>1, OwnedIs
<1> QED
  BY <1>1, <1>2, <1>3 DEF Nowhere, Bookmark

LEMMA BoundIs ==
    ASSUME ReadTypeOK, NEW r \in Rows, NEW p \in BoundPositions(r)
    PROVE  /\ p \in PositionT /\ p.column = Bookmark
           /\ p.of = Nowhere <=> p.source = None
           /\ p.of # Bookmark
<1>0. options.max \in Nat /\ options.bound \in Columns \cup {None}
  BY ReadTypes
<1>1. CASE options.bound = None
  <2>1. p = Start
    BY <1>1, StartIs DEF BoundPositions
  <2> QED
    BY <2>1, StartIs DEF Nowhere, Bookmark
<1>2. CASE options.bound # None
  <2> DEFINE c == options.bound
             v == r[c + 1]
  <2>1. PICK cv \in Conversions(Kinds[c + 1]) :
          p = Owned(Convert(cv, Start, v, BoundLen).getdata, c)
    BY <1>2, Zenon DEF BoundPositions, ResetGetdata
  <2>2. c \in Columns /\ c \in Nat
    <3>1. c \in Columns
      BY <1>0, <1>2
    <3>2. Columns \subseteq Nat
      BY ColumnsAre
    <3> HIDE DEF c
    <3> QED
      BY <3>1, <3>2, Zenon
  <2>3. /\ Kinds[c + 1] \in {"text", "blob", "bit"}
        /\ v \in Texts \cup {Null}
        /\ Kinds[c + 1] = "bit" => v # <<>>
    BY <2>2, RowValue
  <2>4. /\ cv \in AnyConversion /\ cv # "stream"
        /\ cv = "bit" => v # <<>>
    BY <2>3, ConversionsAre
  <2> HIDE DEF c, v
  <2> QED
    BY <1>0, <2>1, <2>2, <2>3, <2>4, FromStart
<1> QED
  BY <1>1, <1>2

LEMMA FetchKeeps ==
    ASSUME GInv, Fetch \/ SetPos
    PROVE  GInv'
<1>1. /\ ReadTypeOK /\ pending = FALSE
  BY DEF GInv, Fetch, SetPos, ReadTypeOK
<1>2. /\ row' \in Rows /\ options' = options /\ pending' = FALSE
      /\ current_param' = current_param /\ Untold'
  BY <1>1 DEF Fetch, SetPos, Forget, Untold, streams
<1>3. NewRow'
  <2>1. PICK p : p = getdata'
    OBVIOUS
  <2>2. /\ p \in PositionT /\ p.column = Bookmark
        /\ p.of = Nowhere <=> p.source = None
        /\ p.of # Bookmark
    <3>1. CASE Fetch
      <4>1. PICK r \in Rows : r = row' /\ p \in BoundPositions(r)
        BY <2>1, <3>1 DEF Fetch
      <4> QED
        BY <1>1, <4>1, BoundIs
    <3>2. CASE SetPos
      <4>1. p = Start
        BY <2>1, <3>2, StartIs DEF SetPos
      <4> QED
        BY <4>1, StartIs DEF Nowhere, Bookmark
    <3> QED
      BY <3>1, <3>2
  <2> QED
    BY <2>1, <2>2 DEF NewRow
<1>4. /\ options' \in [max : MaxLengths, bound : Columns \cup {None}]
      /\ row' \in Rows \cup {<<>>}
      /\ current_param' \in StreamParams \cup {None}
  BY <1>1, <1>2 DEF ReadTypeOK
<1>5. (NothingRead => GInv)'
  BY NewRowHolds, PTL
<1>6. NothingRead'
  BY <1>2, <1>3, <1>4 DEF NothingRead
<1> QED
  BY <1>5, <1>6

(* Nothing is read of the row, if there is one, or of the stream whose turn *)
(* it is.                                                                  *)
RowGone ==
    /\ Untold /\ row = <<>>
    /\ options \in [max : MaxLengths, bound : Columns \cup {None}]
    /\ getdata \in PositionT /\ getdata.column \in -1..LastColumn
    /\ OwnerKnown /\ SourceInValue
    /\ pending \in BOOLEAN
    /\ pending => outs \in [1..Cardinality(OutParams) -> Streamed]
    /\ current_param \in StreamParams \cup {None}
    /\ StreamHeld

LEMMA RowGoneHolds == RowGone => GInv
<1> SUFFICES ASSUME RowGone PROVE GInv
  OBVIOUS
<1>0. /\ Untold /\ row = <<>>
      /\ options \in [max : MaxLengths, bound : Columns \cup {None}]
      /\ getdata \in PositionT /\ getdata.column \in -1..LastColumn
      /\ OwnerKnown /\ SourceInValue
      /\ pending \in BOOLEAN
      /\ pending => outs \in [1..Cardinality(OutParams) -> Streamed]
      /\ current_param \in StreamParams \cup {None}
      /\ StreamHeld
  BY DEF RowGone
<1>1. /\ ReadsWhole /\ CallsTruthful /\ EndTold
      /\ got \in Seq(Nat) /\ slips \subseteq Slips
      /\ last \in [ret : {"none", "success", "info", "nodata", "error",
                          "crash"},
                   avail : Nat \cup {None}, room : Nat, had : Nat]
      /\ last.ret = "none"
  BY <1>0, UntoldIsTrue
<1>2. ReadTypeOK
  <2>1. getdata \in Positions
    BY <1>0 DEF PositionT, Positions
  <2>2. conv \in (UNION {Conversions(Kinds[i]) : i \in 1..Len(Kinds)})
                \cup {"none", "binary", "stream"}
    <3>1. conv \in {"none", "binary", "stream"}
      BY <1>0 DEF Untold
    <3> QED
      BY <3>1, Zenon
  <2> QED
    BY <1>0, <1>1, <2>1, <2>2 DEF ReadTypeOK, Slips
<1>3. OneAtATime
  BY <1>0, <1>1 DEF OneAtATime, Untold
<1>4. ColumnHeld /\ BookmarkHeld
  BY <1>0 DEF ColumnHeld, BookmarkHeld
<1> QED
  BY <1>0, <1>1, <1>2, <1>3, <1>4 DEF GInv

LEMMA CloseKeeps ==
    ASSUME GInv, Close
    PROVE  GInv'
<1>1. /\ ReadTypeOK /\ OwnerKnown /\ SourceInValue
  BY DEF GInv
<1>2. /\ options' = options /\ getdata' = getdata /\ row' = <<>>
      /\ pending' = FALSE /\ current_param' = current_param /\ Untold'
  BY DEF Close, Forget, Untold
<1>3. /\ getdata \in PositionT /\ getdata.column \in -1..LastColumn
  BY <1>1, ReadTypes
<1>4. /\ options \in [max : MaxLengths, bound : Columns \cup {None}]
      /\ current_param \in StreamParams \cup {None}
  BY <1>1 DEF ReadTypeOK
<1>5. OwnerKnown' /\ SourceInValue' /\ StreamHeld'
  BY <1>1, <1>2 DEF OwnerKnown, SourceInValue, StreamHeld
<1>6. RowGone'
  BY <1>2, <1>3, <1>4, <1>5 DEF RowGone
<1>7. (RowGone => GInv)'
  BY RowGoneHolds, PTL
<1> QED
  BY <1>6, <1>7

(* The output parameters up to the one whose turn it is.                   *)
UpTo(p) == {i \in OutParams : i <= p}

LEMMA UpToIs ==
    ASSUME NEW p \in OutParams
    PROVE  Cardinality(UpTo(p)) \in 1..Cardinality(OutParams)
<1>1. IsFiniteSet(OutParams) /\ Cardinality(OutParams) \in Nat
      /\ OutParams \subseteq Nat
  BY ColumnsAre
<1>2. UpTo(p) \in SUBSET OutParams /\ p \in UpTo(p)
  BY <1>1 DEF UpTo
<1>3. /\ IsFiniteSet(UpTo(p))
      /\ Cardinality(UpTo(p)) <= Cardinality(OutParams)
  BY <1>1, <1>2, FS_Subset, Zenon
<1>4. Cardinality(UpTo(p)) \in Nat
  BY <1>3, FS_CardinalityType
<1>5. Cardinality(UpTo(p)) # 0
  <2>1. UpTo(p) # {}
    BY <1>2
  <2> QED
    BY <1>3, <2>1, FS_EmptySet, Zenon
<1> QED
  BY <1>1, <1>3, <1>4, <1>5

LEMMA UpToNone ==
    /\ UpTo(None) = {} /\ Cardinality(UpTo(None)) = 0
<1>1. OutParams \subseteq Nat
  BY ColumnsAre
<1>2. \A i \in Nat : ~(i <= None)
  BY DEF None
<1>3. UpTo(None) = {}
  BY <1>1, <1>2, Zenon DEF UpTo
<1> QED
  BY <1>3, FS_EmptySet

(* Counted on from the parameter before.                                   *)
LEMMA UpToNext ==
    ASSUME NEW p \in OutParams, NEW q \in OutParams \cup {None}, q < p
    PROVE  Cardinality(UpTo(p)) =
             Cardinality(UpTo(q))
               + Cardinality({i \in OutParams : q < i /\ i <= p})
<1> DEFINE Between == {i \in OutParams : q < i /\ i <= p}
<1>1. IsFiniteSet(OutParams) /\ OutParams \subseteq Nat
  BY ColumnsAre
<1>2. p \in Int /\ q \in Int
  BY <1>1 DEF None
<1>3. /\ UpTo(p) = UpTo(q) \cup Between
      /\ UpTo(q) \cap Between = {}
      /\ UpTo(q) \in SUBSET OutParams /\ Between \in SUBSET OutParams
  <2>1. /\ UpTo(q) \in SUBSET OutParams /\ Between \in SUBSET OutParams
    BY DEF UpTo
  <2>2. \A i \in OutParams : i \in Int
    BY <1>1
  <2>3. \A i \in Int : i <= p <=> i <= q \/ (q < i /\ i <= p)
    BY <1>2
  <2>4. \A i \in Int : ~(i <= q /\ q < i)
    BY <1>2
  <2>5. UpTo(p) = UpTo(q) \cup Between
    BY <2>2, <2>3, Zenon DEF UpTo
  <2>6. UpTo(q) \cap Between = {}
    BY <2>2, <2>4, Zenon DEF UpTo
  <2> QED
    BY <2>1, <2>5, <2>6
<1>4. IsFiniteSet(UpTo(q)) /\ IsFiniteSet(Between)
  BY <1>1, <1>3, FS_Subset, Zenon
<1>5. Cardinality(UpTo(q)) \in Nat /\ Cardinality(Between) \in Nat
  BY <1>4, FS_CardinalityType
<1> HIDE DEF Between
<1>6. Cardinality(UpTo(q) \cup Between) =
        Cardinality(UpTo(q)) + Cardinality(Between)
          - Cardinality(UpTo(q) \cap Between)
  BY <1>4, FS_Union, Zenon
<1>7. Cardinality(UpTo(q) \cap Between) = 0
  BY <1>3, FS_EmptySet
<1>8. Cardinality(UpTo(p)) = Cardinality(UpTo(q)) + Cardinality(Between)
  BY <1>3, <1>5, <1>6, <1>7
<1> QED
  BY <1>8 DEF Between

LEMMA CallKeeps ==
    ASSUME GInv, Call
    PROVE  GInv'
<1>1. ReadTypeOK
  BY DEF GInv
<1>2. /\ options' = options /\ row' = <<>> /\ pending' = TRUE
      /\ outs' \in [1..Cardinality(OutParams) -> Streamed]
      /\ current_param' = None /\ Untold'
  BY DEF Call, Forget, Untold
<1>3. options.max \in Nat
  BY <1>1, ReadTypes
<1>4. PICK p : p = getdata'
  OBVIOUS
<1>5. /\ p \in PositionT /\ p.column = Bookmark
      /\ p.of = Nowhere <=> p.source = None
  <2>1. CASE p = Start
    BY <2>1, StartIs
  <2>2. CASE p # Start
    <3>1. PICK i \in 1..Cardinality(OutParams) :
            p = Owned(CopyAnsi(Start, outs'[i], BoundLen).getdata, i - 1)
      BY <1>4, <2>2, Zenon DEF Call, ResetGetdata
    <3>2. i - 1 \in Nat
      BY ColumnsAre
    <3>3. PICK v : v = outs'[i]
      OBVIOUS
    <3>4. v \in Texts /\ v # Null
      BY <1>2, <3>3, ValuesAssumption, NullIsNoText
    <3>5. Convert("ansi", Start, v, BoundLen) = CopyAnsi(Start, v, BoundLen)
      BY <3>4 DEF Convert
    <3>6. p = Owned(Convert("ansi", Start, v, BoundLen).getdata, i - 1)
      BY <3>1, <3>3, <3>5, Zenon
    <3>7. "ansi" \in AnyConversion
      BY DEF AnyConversion, ByBytes
    <3> QED
      BY <1>3, <3>2, <3>4, <3>6, <3>7, FromStart
  <2> QED
    BY <2>1, <2>2
<1>6. p.column \in -1..LastColumn
  BY <1>5, ColumnsAre
<1>7. OwnerKnown' /\ SourceInValue'
  BY <1>4, <1>5 DEF OwnerKnown, SourceInValue
<1>8. StreamHeld'
  <2>1. p.column + 1 = Cardinality(UpTo(None))
    BY <1>5, UpToNone DEF Bookmark
  <2>2. conv' = "none" /\ slips' = {}
    BY <1>2 DEF Untold
  <2> QED
    BY <1>2, <1>4, <2>1, <2>2 DEF StreamHeld, UpTo
<1>9. /\ options' \in [max : MaxLengths, bound : Columns \cup {None}]
      /\ current_param' \in StreamParams \cup {None}
  BY <1>1, <1>2 DEF ReadTypeOK
<1>10. RowGone'
  BY <1>2, <1>4, <1>5, <1>6, <1>7, <1>8, <1>9 DEF RowGone
<1>11. (RowGone => GInv)'
  BY RowGoneHolds, PTL
<1> QED
  BY <1>10, <1>11

LEMMA NextStreamKeeps ==
    ASSUME GInv, NextStream
    PROVE  GInv'
<1>1. ReadTypeOK /\ StreamHeld /\ OneAtATime
  BY DEF GInv
<1>2. /\ options' = options /\ row' = row /\ pending' = pending
      /\ outs' = outs /\ pending = TRUE /\ Untold'
  BY <1>1 DEF NextStream, Forget, Untold, ReadTypeOK
<1>3. PICK p \in StreamParams :
        /\ current_param < p /\ current_param' = p
        /\ getdata' = [ResetGetdata(getdata)
                         EXCEPT !.column = ColumnOf(p), !.src_offset = 0]
  BY DEF NextStream
<1>4. /\ row = <<>> /\ getdata.column \in Int
      /\ outs \in [1..Cardinality(OutParams) -> Streamed]
      /\ current_param \in StreamParams \cup {None}
      /\ options \in [max : MaxLengths, bound : Columns \cup {None}]
  BY <1>1, <1>2, ReadTypes DEF OneAtATime, ReadTypeOK, PositionT
<1>5. p \in OutParams /\ current_param \in OutParams \cup {None}
  BY <1>4, ColumnsAre
<1>6. PICK k : k = ColumnOf(p)
  OBVIOUS
<1>7. k + 1 = Cardinality(UpTo(p)) /\ k \in Int
  <2>1. getdata.column + 1 = Cardinality(UpTo(current_param))
    BY <1>1, <1>2 DEF StreamHeld, UpTo
  <2>2. Cardinality(UpTo(p)) =
          Cardinality(UpTo(current_param))
            + Cardinality({i \in OutParams : current_param < i /\ i <= p})
    BY <1>3, <1>5, UpToNext
  <2>3. Cardinality(UpTo(p)) \in Nat
    BY <1>5, UpToIs, ColumnsAre
  <2>4. k = getdata.column
              + Cardinality({i \in OutParams : current_param < i /\ i <= p})
    BY <1>6, Zenon DEF ColumnOf
  <2>5. IsFiniteSet({i \in OutParams : current_param < i /\ i <= p})
    <3>1. IsFiniteSet(OutParams)
      BY ColumnsAre
    <3>2. {i \in OutParams : current_param < i /\ i <= p} \in
             SUBSET OutParams
      OBVIOUS
    <3> QED
      BY <3>1, <3>2, FS_Subset, Zenon
  <2>6. PICK m \in Nat :
          m = Cardinality({i \in OutParams : current_param < i /\ i <= p})
    BY <2>5, FS_CardinalityType
  <2> QED
    BY <1>4, <2>1, <2>2, <2>3, <2>4, <2>6
<1>8. k + 1 \in 1..Cardinality(OutParams)
      /\ k \in 0..(Cardinality(OutParams) - 1) /\ k \in -1..LastColumn
  BY <1>5, <1>7, UpToIs, ColumnsAre
<1>9. PICK g : g = getdata'
  OBVIOUS
<1>10. /\ g \in PositionT /\ g.column = k /\ g.src_offset = 0
       /\ g.source = None /\ g.of = Nowhere
  <2>1. g = [Start EXCEPT !.column = k, !.src_offset = 0]
    BY <1>3, <1>6, <1>9, Zenon DEF ResetGetdata
  <2>2. k \in Int
    BY <1>7
  <2>3. g = [column |-> k, source |-> None, of |-> Nowhere,
             dst_bytes |-> None, dst_offset |-> None, src_offset |-> 0,
             latest |-> 0]
    BY <2>1 DEF Start
  <2> QED
    BY <2>2, <2>3 DEF PositionT, None, Nowhere
<1>11. OwnerKnown' /\ SourceInValue'
  BY <1>9, <1>10 DEF OwnerKnown, SourceInValue
<1>12. StreamHeld'
  <2>1. PICK v : v = outs[k + 1]
    OBVIOUS
  <2>2. v \in Texts
    BY <1>4, <1>8, <2>1, ValuesAssumption
  <2>3. Size(v) \in Nat
    BY <2>2, TextSize
  <2>4. Placed("stream", g, v, FALSE) /\ Have("stream", g) = 0
    <3>1. 0 \in 0..Size(v)
      BY <2>3
    <3> QED
      BY <1>10, <3>1, StreamCase, Zenon
  <2>5. conv' = "none" /\ slips' = {} /\ got' = Run(1, 0)
    <3>1. (Untold => got = Run(1, 0))'
      BY UntoldIsTrue, PTL
    <3> QED
      BY <1>2, <3>1 DEF Untold
  <2>6. "split" \notin slips'
    BY <2>5
  <2>7. Placed("stream", getdata', v, "split" \in slips')
    BY <1>9, <2>4, <2>6, StreamCase
  <2>8. Held("stream", v)'
    <3>1. "stream" \in AnyConversion
      BY DEF AnyConversion
    <3>2. got' = Run(1, Have("stream", getdata'))
      BY <1>9, <2>4, <2>5
    <3> QED
      BY <1>2, <2>7, <3>1, <3>2, HeldAfter
  <2>9. Held("stream", outs[getdata.column + 1])'
    BY <1>2, <1>9, <1>10, <2>1, <2>8
  <2> QED
    BY <1>3, <1>7, <1>9, <1>10, <2>5, <2>9 DEF StreamHeld, UpTo
<1>13. RowGone'
  BY <1>2, <1>3, <1>4, <1>8, <1>9, <1>10, <1>11, <1>12 DEF RowGone
<1>14. (RowGone => GInv)'
  BY RowGoneHolds, PTL
<1> QED
  BY <1>13, <1>14

LEMMA NoMoreStreamsKeeps ==
    ASSUME GInv, NoMoreStreams
    PROVE  GInv'
<1>1. /\ options' = options /\ row' = row /\ getdata' = getdata
      /\ pending = TRUE /\ pending' = FALSE /\ current_param' = current_param
      /\ conv' = conv /\ got' = got /\ last' = last /\ slips' = slips
  BY DEF NoMoreStreams, GInv, ReadTypeOK
<1>2. row = <<>> /\ conv \in {"none", "stream"}
  BY <1>1 DEF GInv, OneAtATime, StreamHeld
<1>3. ReadTypeOK'
  BY <1>1 DEF GInv, ReadTypeOK
<1>4. OneAtATime' /\ OwnerKnown' /\ SourceInValue'
  BY <1>1 DEF GInv, OneAtATime, OwnerKnown, SourceInValue
<1>5. ColumnHeld' /\ BookmarkHeld' /\ StreamHeld'
  BY <1>1, <1>2 DEF ColumnHeld, BookmarkHeld, StreamHeld
<1>6. ~ReadingValue' /\ ~Promised'
  BY <1>1, <1>2 DEF ReadingValue, Reading, Promised
<1>7. LoopsGetOn'
  <2>1. LoopsGetOn
    BY DEF GInv, CallsTruthful
  <2>2. RoomFor(conv, last.room)' <=> RoomFor(conv, last.room)
    BY <1>1 DEF RoomFor
  <2> QED
    BY <1>1, <2>1, <2>2 DEF LoopsGetOn
<1>8. ReadsWhole' /\ CallsTruthful' /\ EndTold'
  BY <1>6, <1>7 DEF ReadsWhole, ChunksJoin, NoDataMeansAll, CallsTruthful,
                    IndicatorTruthful, EndTold
<1> QED
  BY <1>3, <1>4, <1>5, <1>8 DEF GInv

(***************************************************************************)
(* A call that delivers a part of a value.                                 *)
(***************************************************************************)
LEMMA TruthAfter ==
    ASSUME ReadTypeOK, NEW c \in Int, NEW cv \in AnyConversion,
           NEW v \in Texts, cv = "bit" => v # <<>>, NEW cb \in Nat,
           Ready(c, cv, v), Deliver(c, cv, v, cb), Value' = v
    PROVE  /\ Left(c, cv, v) /\ Answered(c, cv, v, cb)
           /\ KeepsPromise(c, cv, v) /\ AllUnits' = Total(cv, v)
           /\ ReadsWhole' /\ CallsTruthful' /\ EndTold'
<1>1. options.max \in Nat
  BY ReadTypes
<1>2. Left(c, cv, v) /\ Answered(c, cv, v, cb) /\ KeepsPromise(c, cv, v)
  BY <1>1, DeliverIs
<1>3. conv' = cv /\ options' = options
  BY DEF Deliver
<1>4. AllUnits' = Total(cv, v)
  <2>1. Total(cv, v)' = Total(cv, v)
    BY <1>3, LimitsStay
  <2>2. AllUnits' = Total(cv, v)'
    BY <1>3 DEF AllUnits
  <2> QED
    BY <2>1, <2>2
<1>5. ASSUME "stray" \notin slips', slips' \cap {"split", "short"} = {}
      PROVE  slips' \cap Unsound = {}
  BY <1>5 DEF Unsound
<1>6. ReadsWhole'
  <2>1. slips' \cap Unsound = {} =>
          /\ Len(got') <= Total(cv, v) /\ got' = Run(1, Len(got'))
          /\ last'.ret = "nodata" => Len(got') = Total(cv, v)
    BY <1>2 DEF Answered
  <2>2. ChunksJoin'
    BY <1>4, <1>5, <2>1 DEF ChunksJoin, ReadingValue
  <2>3. NoDataMeansAll'
    BY <1>4, <1>5, <2>1 DEF NoDataMeansAll, ReadingValue
  <2> QED
    BY <2>2, <2>3 DEF ReadsWhole
<1>7. IndicatorTruthful'
  <2>1. {"split", "stray"} \cap slips' = {} /\ last'.avail # None
         /\ cv # "bit" /\ (cv = "ansi" => options.max = 0) =>
         last'.avail = IF cv = "stream" /\ last'.ret = "nodata"
                       THEN Total(cv, v) ELSE Total(cv, v) - last'.had
    BY <1>2 DEF Answered
  <2>2. ASSUME ReadingValue', slips' \cap {"split"} = {}
        PROVE  {"split", "stray"} \cap slips' = {}
    BY <2>2 DEF ReadingValue
  <2> QED
    BY <1>3, <1>4, <2>1, <2>2 DEF IndicatorTruthful
<1>8. LoopsGetOn'
  <2>1. /\ last'.room = cb
        /\ last'.ret = "info" /\ RoomFor(cv, cb) => Len(got') > last'.had
    BY <1>2 DEF Answered
  <2>2. RoomFor(conv, last.room)' <=> RoomFor(cv, cb)
    BY <1>3, <2>1 DEF RoomFor
  <2> QED
    BY <2>1, <2>2 DEF LoopsGetOn
<1>9. EndTold'
  <2>1. SUFFICES ASSUME Promised', last'.ret # "info"
                 PROVE  AtEnd(conv, getdata, Value)'
    BY DEF EndTold
  <2>2. slips' = {} /\ cv \in Kept /\ last'.ret # "crash"
    BY <1>3, <2>1 DEF Promised, Kept
  <2>3. AtEnd(cv, getdata', v)
    BY <1>2, <2>1, <2>2 DEF KeepsPromise
  <2>4. PICK p : p = getdata'
    OBVIOUS
  <2>5. AtEnd(cv, p, v)'
    BY <1>3, <2>3, <2>4, PlacesStay
  <2> QED
    BY <1>3, <2>4, <2>5
<1> QED
  BY <1>2, <1>4, <1>6, <1>7, <1>8, <1>9 DEF CallsTruthful

(* A position that is begun is one in the value of the column read.        *)
LEMMA OwnerAfter ==
    ASSUME ReadTypeOK, OwnerKnown, SourceInValue, NEW c \in Nat, NEW cv,
           NEW v, Left(c, cv, v)
    PROVE  getdata'.column = c /\ OwnerKnown' /\ SourceInValue'
<1>1. getdata \in PositionT
  BY ReadTypes
<1>2. /\ PositionFor(c).column = c
      /\ c = getdata.column => PositionFor(c) = getdata
      /\ c # getdata.column => PositionFor(c).of = Nowhere
  <2>1. c \in Int
    OBVIOUS
  <2> QED
    BY <1>1, <2>1, PositionForIs
<1>3. c # Bookmark /\ c # Nowhere
  BY DEF Bookmark, Nowhere
<1>4. PositionFor(c).of \in {Nowhere, c}
  <2>1. CASE c # getdata.column
    BY <1>2, <2>1
  <2>2. CASE c = getdata.column
    BY <1>2, <1>3, <2>2 DEF OwnerKnown, SourceInValue
  <2> QED
    BY <2>1, <2>2
<1>5. /\ getdata'.column = PositionFor(c).column
      /\ getdata'.of = IF getdata'.source = None THEN Nowhere
                       ELSE IF PositionFor(c).of = Nowhere THEN c
                       ELSE PositionFor(c).of
  BY DEF Left
<1> QED
  BY <1>2, <1>3, <1>4, <1>5 DEF OwnerKnown, SourceInValue

(* The types after a call.                                                 *)
LEMMA TypesAfter ==
    ASSUME ReadTypeOK, NEW c, NEW cv, NEW v, NEW cb,
           Left(c, cv, v), Answered(c, cv, v, cb), Deliver(c, cv, v, cb),
           getdata'.column \in -1..LastColumn,
           cv \in (UNION {Conversions(Kinds[i]) : i \in 1..Len(Kinds)})
                    \cup {"none", "binary", "stream"}
    PROVE  ReadTypeOK' /\ last'.ret # "none"
<1>1. /\ getdata' \in PositionT /\ got' \in Seq(Nat) /\ slips' \subseteq Slips
  BY DEF Left
<1>2. /\ last' \in [ret : {"none", "success", "info", "nodata", "error",
                           "crash"},
                    avail : Nat \cup {None}, room : Nat, had : Nat]
      /\ last'.ret # "none"
  BY DEF Answered
<1>3. /\ options' = options /\ row' = row /\ pending' = pending
      /\ outs' = outs /\ current_param' = current_param /\ conv' = cv
  BY DEF Deliver, streams
<1>4. getdata' \in Positions
  BY <1>1 DEF PositionT, Positions
<1> QED
  BY <1>1, <1>2, <1>3, <1>4 DEF ReadTypeOK, Slips

LEMMA NothingYet == Run(1, 0) = <<>> /\ <<>> \in Seq(Nat) /\ {} \subseteq Slips
<1>1. 1 \in Nat /\ 0 \in Nat
  OBVIOUS
<1>2. Run(1, 0) = <<>>
  BY <1>1, RunIs, Zenon
<1> QED
  BY <1>2

(* A column that has been read by no call is ready for any conversion.     *)
LEMMA ReadyAfresh ==
    ASSUME getdata \in PositionT, NEW c \in Int, c # getdata.column,
           NEW cv \in AnyConversion, cv # "stream", NEW v
    PROVE  Ready(c, cv, v)
<1>1. PositionFor(c) \in PositionT /\ Fresh(PositionFor(c))
  BY PositionForIs
<1>2. BegunOf(c) = <<>> /\ KnownOf(c) = {}
  BY DEF BegunOf, KnownOf
<1>3. PICK b : b = ("split" \in KnownOf(c))
  OBVIOUS
<1>4. Placed(cv, PositionFor(c), v, b) /\ Have(cv, PositionFor(c)) = 0
  BY <1>1, FreshPlaced
<1> QED
  BY <1>1, <1>2, <1>3, <1>4, NothingYet DEF Ready

LEMMA ReadyHeld ==
    ASSUME ReadTypeOK, NEW cv, NEW v, Held(cv, v),
           cv # "bit" => "short" \notin slips
    PROVE  Ready(getdata.column, cv, v)
<1>1. getdata \in PositionT /\ got \in Seq(Nat) /\ slips \subseteq Slips
  BY ReadTypes
<1>2. /\ PositionFor(getdata.column) = getdata
      /\ BegunOf(getdata.column) = got /\ KnownOf(getdata.column) = slips
  BY DEF PositionFor, BegunOf, KnownOf
<1> QED
  BY <1>1, <1>2 DEF Ready, Held

(* SQLGetData on a column that is NULL: nothing is kept and nothing lost.  *)
LEMMA NullKeeps ==
    ASSUME GInv, NEW c \in Columns, NEW cv \in Conversions(Kinds[c + 1]),
           NEW cb \in Nat, GetColumn(c, cv, cb), row[c + 1] = Null
    PROVE  GInv'
<1>0. ReadTypeOK /\ OwnerKnown /\ SourceInValue /\ ColumnHeld
  BY DEF GInv
<1>1. /\ c \in Nat /\ c + 1 \in 1..Len(Kinds)
      /\ c # Bookmark /\ c # Nowhere /\ c \in -1..LastColumn
  BY ColumnsAre
<1>2. /\ Kinds[c + 1] \in {"text", "blob", "bit"}
  BY <1>1, KindsAssumption
<1>3. cv \in AnyConversion /\ cv # "stream" /\ cv # "none"
  BY <1>2, ConversionsAre
<1>4. /\ getdata \in PositionT /\ got \in Seq(Nat) /\ slips \subseteq Slips
  BY <1>0, ReadTypes
<1>5. row # <<>> /\ pending = FALSE /\ (c = getdata.column => cv = conv)
      /\ Deliver(c, cv, Null, cb)
  BY <1>0, Zenon DEF GetColumn, ReadTypeOK
<1> DEFINE g == PositionFor(c)
           ch == Chunk(g, <<>>, None, "success")
<1>6. g \in PositionT /\ g.column = c /\ Fresh(g)
  <2>1. c \in Int
    BY <1>1
  <2>2. /\ g \in PositionT /\ g.column = c
        /\ c = getdata.column => g = getdata
        /\ c # getdata.column => Fresh(g)
    BY <1>4, <2>1, PositionForIs
  <2>3. c = getdata.column => Fresh(getdata)
    BY <1>0, <1>5 DEF ColumnHeld
  <2> HIDE DEF g
  <2> QED
    BY <2>2, <2>3
<1>7. Convert(cv, g, Null, cb) = ch
  BY DEF Convert
<1>8. /\ getdata' = Owned(g, c) /\ conv' = cv
      /\ got' = BegunOf(c) \o <<>>
      /\ last' = [ret |-> "success", avail |-> None, room |-> cb,
                  had |-> Len(BegunOf(c))]
      /\ slips' = KnownOf(c) \cup SlipsOf(cv, g, ch, cb)
      /\ options' = options /\ row' = row /\ pending' = pending
      /\ outs' = outs /\ current_param' = current_param
  <2>1. /\ ch.getdata = g /\ ch.units = <<>> /\ ch.avail = None
        /\ ch.ret = "success"
    BY DEF Chunk
  <2> HIDE DEF g, ch
  <2> QED
    BY <1>5, <1>7, <2>1, Zenon
    DEF Deliver, BegunOf, KnownOf, g, streams
<1>9. /\ BegunOf(c) \in Seq(Nat) /\ KnownOf(c) \subseteq Slips
      /\ "stray" \notin KnownOf(c)
      /\ cv # "bit" => "short" \notin KnownOf(c)
  <2>1. c = getdata.column =>
          /\ "stray" \notin slips
          /\ cv # "bit" => "short" \notin slips
    BY <1>0, <1>5 DEF ColumnHeld
  <2> QED
    BY <1>4, <2>1, NothingYet DEF BegunOf, KnownOf
<1>10. /\ slips' \subseteq Slips /\ "stray" \notin slips'
       /\ cv # "bit" => "short" \notin slips'
  <2>1. PICK S : S = SlipsOf(cv, g, ch, cb)
    OBVIOUS
  <2> HIDE DEF g, ch
  <2>2. /\ \A s \in S : s \in {"split", "cut", "short"}
        /\ "short" \in S => cv = "bit"
    BY <2>1 DEF SlipsOf
  <2>3. /\ S \subseteq Slips /\ "stray" \notin S
        /\ cv # "bit" => "short" \notin S
    BY <2>2 DEF Slips
  <2>4. slips' = KnownOf(c) \cup S
    BY <1>8, <2>1, Zenon
  <2>5. slips' \subseteq Slips /\ "stray" \notin slips'
    BY <1>9, <2>3, <2>4, Zenon
  <2>6. cv # "bit" => "short" \notin slips'
    BY <1>9, <2>3, <2>4, Zenon
  <2> QED
    BY <2>5, <2>6, Zenon
<1>11. PICK p : p = getdata'
  OBVIOUS
<1>12. /\ p \in PositionT /\ p.column = c /\ Fresh(p) /\ p.of = Nowhere
  <2>1. p = Owned(g, c) /\ c \in Int
    BY <1>1, <1>8, <1>11
  <2> HIDE DEF g
  <2>2. /\ Owned(g, c) \in PositionT /\ Owned(g, c).column = g.column
        /\ Owned(g, c).source = g.source
        /\ Owned(g, c).dst_bytes = g.dst_bytes
        /\ Owned(g, c).dst_offset = g.dst_offset
        /\ Owned(g, c).src_offset = g.src_offset
        /\ Owned(g, c).latest = g.latest
        /\ Owned(g, c).of = IF g.source = None THEN Nowhere
                            ELSE IF g.of = Nowhere THEN c ELSE g.of
    BY <1>6, <2>1, OwnedIs
  <2> QED
    BY <1>6, <2>1, <2>2 DEF Fresh
<1> HIDE DEF g, ch
<1>13. got' \in Seq(Nat) /\ Len(BegunOf(c)) \in Nat
  BY <1>8, <1>9
<1>14. ReadTypeOK'
  <2>1. p \in Positions
    BY <1>1, <1>12 DEF PositionT, Positions
  <2>2. cv \in (UNION {Conversions(Kinds[i]) : i \in 1..Len(Kinds)})
                \cup {"none", "binary", "stream"}
    BY <1>1, Zenon
  <2>3. last' \in [ret : {"none", "success", "info", "nodata", "error",
                          "crash"},
                   avail : Nat \cup {None}, room : Nat, had : Nat]
    BY <1>8, <1>13
  <2> QED
    BY <1>0, <1>8, <1>10, <1>11, <1>13, <2>1, <2>2, <2>3
    DEF ReadTypeOK, Slips
<1>15. OneAtATime'
  BY <1>3, <1>5, <1>8, <1>11, <1>12 DEF OneAtATime
<1>16. OwnerKnown' /\ SourceInValue'
  BY <1>11, <1>12 DEF OwnerKnown, SourceInValue, Fresh
<1>17. ColumnHeld'
  BY <1>8, <1>10, <1>11, <1>12 DEF ColumnHeld, Fresh
<1>18. BookmarkHeld' /\ StreamHeld'
  BY <1>1, <1>5, <1>8, <1>11, <1>12 DEF BookmarkHeld, StreamHeld
<1>19. ~ReadingValue' /\ ~Promised'
  <2>1. Value' = Null
    BY <1>1, <1>3, <1>8, <1>11, <1>12 DEF Value
  <2> QED
    BY <2>1 DEF ReadingValue, Promised
<1>20. LoopsGetOn'
  BY <1>8 DEF LoopsGetOn
<1>21. ReadsWhole' /\ CallsTruthful' /\ EndTold'
  BY <1>19, <1>20 DEF ReadsWhole, ChunksJoin, NoDataMeansAll, CallsTruthful,
                      IndicatorTruthful, EndTold
<1> QED
  BY <1>14, <1>15, <1>16, <1>17, <1>18, <1>21 DEF GInv

(* SQLGetData on a column that has a value.                                *)
LEMMA ColumnReady ==
    ASSUME GInv, row # <<>>, NEW c \in Columns,
           NEW cv \in Conversions(Kinds[c + 1]),
           c = getdata.column => cv = conv, row[c + 1] # Null
    PROVE  /\ row[c + 1] \in Texts /\ (cv = "bit" => row[c + 1] # <<>>)
           /\ Ready(c, cv, row[c + 1])
<1>0. ReadTypeOK /\ ColumnHeld
  BY DEF GInv
<1>1. row \in Rows /\ getdata \in PositionT
  BY <1>0, ReadTypes
<1>2. /\ Kinds[c + 1] \in {"text", "blob", "bit"}
      /\ row[c + 1] \in Texts \cup {Null}
      /\ Kinds[c + 1] = "bit" => row[c + 1] # <<>>
  BY <1>1, RowValue
<1>3. /\ cv \in AnyConversion /\ cv # "stream"
      /\ cv = "bit" => Kinds[c + 1] = "bit"
  BY <1>2, ConversionsAre
<1>4. c \in Int
  <2>1. Columns \subseteq Nat
    BY ColumnsAre
  <2> QED
    BY <2>1
<1>5. CASE c # getdata.column
  <2>1. Ready(c, cv, row[c + 1])
    BY <1>1, <1>3, <1>4, <1>5, ReadyAfresh
  <2> QED
    BY <1>2, <1>3, <2>1
<1>6. CASE c = getdata.column
  <2>1. Held(cv, row[c + 1]) /\ (cv # "bit" => "short" \notin slips)
    BY <1>0, <1>6 DEF ColumnHeld
  <2>2. Ready(c, cv, row[c + 1])
    BY <1>0, <1>6, <2>1, ReadyHeld
  <2> QED
    BY <1>2, <1>3, <2>2
<1> QED
  BY <1>5, <1>6

TextPart(c, cv, v, cb) ==
    /\ conv' = cv /\ options' = options /\ row' = row
    /\ pending' = pending /\ outs' = outs /\ current_param' = current_param
    /\ getdata'.column = c /\ Value' = v /\ AllUnits' = Total(cv, v)
    /\ Left(c, cv, v) /\ Answered(c, cv, v, cb) /\ KeepsPromise(c, cv, v)
    /\ ReadsWhole' /\ CallsTruthful' /\ EndTold'

LEMMA TextDelivers ==
    ASSUME GInv, NEW c \in Columns, NEW cv \in Conversions(Kinds[c + 1]),
           NEW cb \in Nat, GetColumn(c, cv, cb), row[c + 1] # Null
    PROVE  TextPart(c, cv, row[c + 1], cb)
<1>0. ReadTypeOK
  BY DEF GInv
<1>1. /\ c \in Nat /\ c + 1 \in 1..Len(Kinds)
      /\ c # Bookmark /\ c \in -1..LastColumn
  BY ColumnsAre
<1>2. Kinds[c + 1] \in {"text", "blob", "bit"}
  BY <1>1, KindsAssumption
<1>3. cv \in AnyConversion /\ cv # "stream" /\ cv # "none"
  BY <1>2, ConversionsAre
<1>4. PICK v : v = row[c + 1]
  OBVIOUS
<1>5. row # <<>> /\ pending = FALSE /\ (c = getdata.column => cv = conv)
      /\ Deliver(c, cv, v, cb)
  BY <1>0, <1>4, Zenon DEF GetColumn, ReadTypeOK
<1>6. v \in Texts /\ (cv = "bit" => v # <<>>) /\ Ready(c, cv, v) /\ v # Null
  BY <1>4, <1>5, ColumnReady
<1>7. /\ conv' = cv /\ options' = options /\ row' = row
      /\ pending' = pending /\ outs' = outs
      /\ current_param' = current_param
  BY <1>5 DEF Deliver, streams
<1>8. getdata'.column = c
  <2>1. /\ getdata'.column = PositionFor(c).column
    <3>1. options.max \in Nat /\ c \in Int
      BY <1>0, <1>1, ReadTypes
    <3>2. Left(c, cv, v)
      BY <1>3, <1>5, <1>6, <3>1, DeliverIs
    <3> QED
      BY <3>2 DEF Left
  <2>2. getdata \in PositionT /\ c \in Int
    BY <1>0, <1>1, ReadTypes
  <2>3. PositionFor(c).column = c
    BY <2>2, PositionForIs
  <2> QED
    BY <2>1, <2>3
<1>9. Value' = v
  BY <1>1, <1>3, <1>4, <1>7, <1>8 DEF Value
<1>10. /\ Left(c, cv, v) /\ Answered(c, cv, v, cb)
       /\ KeepsPromise(c, cv, v) /\ AllUnits' = Total(cv, v)
       /\ ReadsWhole' /\ CallsTruthful' /\ EndTold'
  <2>1. c \in Int
    BY <1>1
  <2> QED
    BY <1>0, <1>3, <1>5, <1>6, <1>9, <2>1, TruthAfter
<1>11. TextPart(c, cv, v, cb)
  BY <1>7, <1>8, <1>9, <1>10 DEF TextPart
<1> QED
  BY <1>4, <1>11

LEMMA TextKeeps ==
    ASSUME GInv, NEW c \in Columns, NEW cv \in Conversions(Kinds[c + 1]),
           NEW cb \in Nat, GetColumn(c, cv, cb), row[c + 1] # Null
    PROVE  GInv'
<1>0. ReadTypeOK /\ OwnerKnown /\ SourceInValue /\ ColumnHeld
  BY DEF GInv
<1>1. /\ c \in Nat /\ c + 1 \in 1..Len(Kinds)
      /\ c # Bookmark /\ c \in -1..LastColumn
  BY ColumnsAre
<1>2. Kinds[c + 1] \in {"text", "blob", "bit"}
  BY <1>1, KindsAssumption
<1>3. cv \in AnyConversion /\ cv # "stream" /\ cv # "none"
  BY <1>2, ConversionsAre
<1>4. PICK v : v = row[c + 1]
  OBVIOUS
<1>5. row # <<>> /\ pending = FALSE /\ (c = getdata.column => cv = conv)
      /\ Deliver(c, cv, v, cb)
  BY <1>0, <1>4, Zenon DEF GetColumn, ReadTypeOK
<1>6. TextPart(c, cv, v, cb) /\ v # Null
  BY <1>4, TextDelivers
<1>7. /\ conv' = cv /\ options' = options /\ row' = row
      /\ pending' = pending /\ outs' = outs
  BY <1>6 DEF TextPart
<1>8. getdata'.column = c
  BY <1>6 DEF TextPart
<1>9. /\ Left(c, cv, v) /\ Answered(c, cv, v, cb)
       /\ ReadsWhole' /\ CallsTruthful' /\ EndTold'
  BY <1>6 DEF TextPart
<1>10. OwnerKnown' /\ SourceInValue'
  BY <1>0, <1>1, <1>9, OwnerAfter
<1>11. ReadTypeOK' /\ last'.ret # "none"
  <2>1. cv \in (UNION {Conversions(Kinds[i]) : i \in 1..Len(Kinds)})
                \cup {"none", "binary", "stream"}
    BY <1>1, Zenon
  <2> QED
    BY <1>0, <1>1, <1>5, <1>8, <1>9, <2>1, TypesAfter
<1>12. OneAtATime'
  BY <1>3, <1>5, <1>7, <1>8, <1>11 DEF OneAtATime
<1>13. ColumnHeld'
  <2>1. /\ Placed(cv, getdata', v, "split" \in slips')
        /\ slips' \cap Unsound = {} => got' = Run(1, Have(cv, getdata'))
        /\ slips' \subseteq KnownOf(c) \cup {"split", "cut", "short"}
        /\ cv # "bit" => "short" \notin slips'
    BY <1>9 DEF Left
  <2>2. "stray" \notin KnownOf(c)
    BY <1>0, <1>5 DEF KnownOf, ColumnHeld
  <2>3. "stray" \notin slips'
    BY <2>1, <2>2
  <2>4. Held(cv, v)'
    BY <1>3, <1>7, <2>1, HeldAfter
  <2>5. Held(conv, row[getdata.column + 1])'
    BY <1>4, <1>7, <1>8, <2>4
  <2>6. row'[getdata'.column + 1] # Null
    BY <1>4, <1>6, <1>7, <1>8
  <2> QED
    BY <1>7, <1>8, <2>1, <2>3, <2>5, <2>6 DEF ColumnHeld
<1>14. BookmarkHeld' /\ StreamHeld'
  BY <1>1, <1>5, <1>7, <1>8 DEF BookmarkHeld, StreamHeld
<1> QED
  BY <1>9, <1>10, <1>11, <1>12, <1>13, <1>14 DEF GInv

LEMMA GetColumnKeeps ==
    ASSUME GInv, NEW c \in Columns, NEW cv \in Conversions(Kinds[c + 1]),
           NEW cb \in BufLens, GetColumn(c, cv, cb)
    PROVE  GInv'
<1>1. cb \in Nat
  BY LensAssumption
<1>2. CASE row[c + 1] = Null
  BY <1>1, <1>2, NullKeeps
<1>3. CASE row[c + 1] # Null
  BY <1>1, <1>3, TextKeeps
<1> QED
  BY <1>2, <1>3

(* SQLGetData on the bookmark.                                             *)
LEMMA BookmarkDelivers ==
    ASSUME GInv, GetBookmark
    PROVE  /\ Ready(Bookmark, "binary", <<"n">>)
           /\ PositionFor(Bookmark).column = Bookmark
           /\ getdata'.column = Bookmark /\ slips' \subseteq {"stray"}
           /\ getdata'.of = IF getdata'.source = None THEN Nowhere
                            ELSE IF PositionFor(Bookmark).of = Nowhere
                            THEN Bookmark ELSE PositionFor(Bookmark).of
<1> DEFINE v == <<"n">>
           c == Bookmark
<1>0. ReadTypeOK /\ OwnerKnown /\ BookmarkHeld
  BY DEF GInv
<1>1. /\ c \in Int /\ c \in -1..LastColumn /\ c # Nowhere /\ c \notin Columns
  BY ColumnsAre DEF Nowhere, Bookmark
<1>2. v \in Texts /\ v # <<>> /\ v # Null
  BY OneDigit
<1>3. "binary" \in AnyConversion
  BY DEF AnyConversion, ByBytes
<1>4. row # <<>> /\ pending = FALSE /\ Deliver(c, "binary", v, 8)
      /\ PositionFor(c).of \in {Nowhere, c}
  BY <1>0 DEF GetBookmark, ReadTypeOK
<1>5. /\ conv' = "binary" /\ options' = options /\ row' = row
      /\ pending' = pending /\ outs' = outs
  BY <1>4 DEF Deliver, streams
<1>6. getdata \in PositionT /\ options.max \in Nat
  BY <1>0, ReadTypes
<1>7. /\ PositionFor(c).column = c
      /\ c = getdata.column => PositionFor(c) = getdata
  BY <1>1, <1>6, PositionForIs
<1> HIDE DEF v, c
<1>8. Ready(c, "binary", v)
  <2>1. CASE c # getdata.column
    BY <1>1, <1>3, <1>6, <2>1, ReadyAfresh
  <2>2. CASE c = getdata.column
    <3>1. Held("binary", v) /\ "short" \notin slips
      BY <1>0, <1>4, <1>7, <2>2 DEF BookmarkHeld, v, c
    <3> QED
      BY <1>0, <2>2, <3>1, ReadyHeld
  <2> QED
    BY <2>1, <2>2
<1>9. getdata'.column = c /\ slips' \subseteq {"stray"}
      /\ getdata'.of = IF getdata'.source = None THEN Nowhere
                       ELSE IF PositionFor(c).of = Nowhere THEN c
                       ELSE PositionFor(c).of
  <2>1. Left(c, "binary", v)
    <3>1. 8 \in Nat
      OBVIOUS
    <3> QED
      BY <1>1, <1>2, <1>3, <1>4, <1>6, <1>8, <3>1, DeliverIs
  <2>2. /\ getdata'.column = PositionFor(c).column /\ slips' = KnownOf(c)
        /\ getdata'.of = IF getdata'.source = None THEN Nowhere
                         ELSE IF PositionFor(c).of = Nowhere THEN c
                         ELSE PositionFor(c).of
    BY <2>1 DEF Left
  <2>3. KnownOf(c) \subseteq {"stray"}
    <3>1. c = getdata.column => slips \subseteq {"stray"}
      BY <1>0, <1>4 DEF BookmarkHeld, c
    <3> QED
      BY <3>1 DEF KnownOf
  <2> QED
    BY <1>7, <2>2, <2>3
<1> QED
  BY <1>7, <1>8, <1>9 DEF v, c

LEMMA GetBookmarkKeeps ==
    ASSUME GInv, GetBookmark
    PROVE  GInv'
<1> DEFINE v == <<"n">>
           c == Bookmark
<1>0. ReadTypeOK /\ OwnerKnown /\ BookmarkHeld
  BY DEF GInv
<1>1. /\ c \in Int /\ c \in -1..LastColumn /\ c # Nowhere /\ c \notin Columns
  BY ColumnsAre DEF Nowhere, Bookmark
<1>2. v \in Texts /\ v # <<>> /\ v # Null
  BY OneDigit
<1>3. "binary" \in AnyConversion
  BY DEF AnyConversion, ByBytes
<1>4. row # <<>> /\ pending = FALSE /\ Deliver(c, "binary", v, 8)
      /\ PositionFor(c).of \in {Nowhere, c}
  BY <1>0 DEF GetBookmark, ReadTypeOK
<1>5. /\ conv' = "binary" /\ options' = options /\ row' = row
      /\ pending' = pending /\ outs' = outs
  BY <1>4 DEF Deliver, streams
<1>6. Ready(c, "binary", v) /\ getdata'.column = c
      /\ slips' \subseteq {"stray"}
      /\ getdata'.of = IF getdata'.source = None THEN Nowhere
                       ELSE IF PositionFor(c).of = Nowhere THEN c
                       ELSE PositionFor(c).of
  BY BookmarkDelivers, Zenon
<1> HIDE DEF v, c
<1>7. Value' = v
  BY <1>5, <1>6 DEF Value, v, c
<1>8. /\ Left(c, "binary", v) /\ Answered(c, "binary", v, 8)
       /\ ReadsWhole' /\ CallsTruthful' /\ EndTold'
  <2>1. 8 \in Nat
    OBVIOUS
  <2> QED
    BY <1>0, <1>1, <1>2, <1>3, <1>4, <1>6, <1>7, <2>1, TruthAfter
<1>9. ReadTypeOK' /\ last'.ret # "none"
  <2>1. "binary" \in (UNION {Conversions(Kinds[i]) : i \in 1..Len(Kinds)})
                       \cup {"none", "binary", "stream"}
    BY Zenon
  <2> QED
    BY <1>0, <1>1, <1>4, <1>6, <1>8, <2>1, TypesAfter
<1>10. OneAtATime'
  BY <1>4, <1>5, <1>6, <1>9 DEF OneAtATime, c
<1>11. OwnerKnown' /\ SourceInValue'
  BY <1>1, <1>4, <1>6 DEF OwnerKnown, SourceInValue, c
<1>12. BookmarkHeld'
  <2>1. /\ Placed("binary", getdata', v, "split" \in slips')
        /\ slips' \cap Unsound = {} => got' = Run(1, Have("binary", getdata'))
    BY <1>8 DEF Left
  <2>2. Held("binary", v)'
    BY <1>3, <1>5, <2>1, HeldAfter
  <2> QED
    BY <1>6, <2>2 DEF BookmarkHeld, v
<1>13. ColumnHeld' /\ StreamHeld'
  BY <1>1, <1>4, <1>5, <1>6 DEF ColumnHeld, StreamHeld
<1> QED
  BY <1>8, <1>9, <1>10, <1>11, <1>12, <1>13 DEF GInv

(* A bookmark read from a position that is not its own: it is not a part of *)
(* any value that is told of, and nothing is told of it.                    *)
LEMMA GetBookmarkAstrayKeeps ==
    ASSUME GInv, GetBookmarkAstray
    PROVE  GInv'
<1>0. /\ ReadTypeOK /\ OwnerKnown /\ SourceInValue /\ BookmarkHeld
  BY DEF GInv
<1>1. getdata \in PositionT /\ got \in Seq(Nat) /\ slips \subseteq Slips
  BY <1>0, ReadTypes
<1>2. /\ row # <<>> /\ pending = FALSE /\ conv' = "binary"
      /\ slips' = slips \cup {"stray"}
      /\ options' = options /\ row' = row /\ getdata' = getdata
      /\ pending' = pending /\ outs' = outs
      /\ current_param' = current_param
  BY <1>0 DEF GetBookmarkAstray, streams, ReadTypeOK
<1>3. PICK ret \in {"success", "info", "nodata"} :
        /\ last' = [ret |-> ret, avail |-> None, room |-> 8, had |-> Len(got)]
        /\ got' = IF ret = "nodata" THEN got ELSE <<Stray>>
  BY DEF GetBookmarkAstray
<1>4. getdata.column = Bookmark
  <2> SUFFICES ASSUME getdata.column # Bookmark PROVE FALSE
    OBVIOUS
  <2>1. PositionFor(Bookmark).of = Nowhere
    BY <1>1, PositionForIs, ColumnsAre
  <2> QED
    BY <2>1 DEF GetBookmarkAstray
<1>5. got' \in Seq(Nat) /\ Len(got) \in Nat
  <2>1. <<Stray>> \in Seq(Nat)
    BY DEF Stray
  <2> QED
    BY <1>1, <1>3, <2>1
<1>6. ReadTypeOK'
  <2>1. last' \in [ret : {"none", "success", "info", "nodata", "error",
                          "crash"},
                   avail : Nat \cup {None}, room : Nat, had : Nat]
    BY <1>3, <1>5
  <2>2. conv' \in (UNION {Conversions(Kinds[i]) : i \in 1..Len(Kinds)})
                    \cup {"none", "binary", "stream"}
    BY <1>2, Zenon
  <2> QED
    BY <1>0, <1>2, <1>5, <2>1, <2>2 DEF ReadTypeOK
<1>7. OneAtATime'
  BY <1>2, <1>3, <1>4 DEF OneAtATime
<1>8. OwnerKnown' /\ SourceInValue'
  BY <1>0, <1>2 DEF OwnerKnown, SourceInValue
<1>9. BookmarkHeld'
  <2>1. slips \subseteq {"stray"}
        /\ (getdata.of \in {Nowhere, Bookmark} => Held("binary", <<"n">>))
    BY <1>0, <1>2, <1>4 DEF BookmarkHeld
  <2>2. "binary" \in ByBytes
    BY DEF ByBytes
  <2>3. PICK p : p = getdata
    OBVIOUS
  <2>4. Held("binary", <<"n">>) =>
           Placed("binary", p, <<"n">>, "split" \in slips')
    BY <2>2, <2>3, BytesCase DEF Held
  <2>5. slips' \cap Unsound # {}
    BY <1>2 DEF Unsound
  <2>6. Held("binary", <<"n">>) => Held("binary", <<"n">>)'
    <3>1. "binary" \in AnyConversion
      BY <2>2 DEF AnyConversion
    <3> QED
      BY <1>2, <2>3, <2>4, <2>5, <3>1, HeldAfter
  <2> QED
    BY <1>2, <2>1, <2>6 DEF BookmarkHeld
<1>10. ColumnHeld' /\ StreamHeld'
  BY <1>2, <1>4, ColumnsAre DEF ColumnHeld, StreamHeld
<1>11. ReadsWhole' /\ CallsTruthful' /\ EndTold'
  BY <1>2 DEF ReadsWhole, ChunksJoin, NoDataMeansAll, CallsTruthful,
              IndicatorTruthful, LoopsGetOn, EndTold, ReadingValue, Promised
<1> QED
  BY <1>6, <1>7, <1>8, <1>9, <1>10, <1>11 DEF GInv

(* SQLGetData on the stream whose turn it is.                              *)
LEMMA StreamReady ==
    ASSUME GInv, pending, current_param # None
    PROVE  /\ getdata.column \in Nat /\ getdata.column \in -1..LastColumn
           /\ outs[getdata.column + 1] \in Texts
           /\ Ready(getdata.column, "stream", outs[getdata.column + 1])
<1>1. ReadTypeOK /\ StreamHeld
  BY DEF GInv
<1>2. current_param \in OutParams
  BY <1>1, ColumnsAre DEF ReadTypeOK
<1>3. getdata.column + 1 = Cardinality(UpTo(current_param))
  BY <1>1 DEF StreamHeld, UpTo
<1>4. Cardinality(UpTo(current_param)) \in 1..Cardinality(OutParams)
      /\ Cardinality(OutParams) \in Nat
  BY <1>2, UpToIs, ColumnsAre
<1>5. getdata.column \in Int /\ getdata.column \in -1..LastColumn
  BY <1>1, ReadTypes DEF PositionT
<1>6. /\ getdata.column \in Nat
      /\ getdata.column + 1 \in 1..Cardinality(OutParams)
  BY <1>3, <1>4, <1>5
<1>7. outs[getdata.column + 1] \in Texts
  BY <1>1, <1>6, ValuesAssumption DEF ReadTypeOK
<1>8. Held("stream", outs[getdata.column + 1]) /\ slips = {}
  BY <1>1 DEF StreamHeld
<1>9. Ready(getdata.column, "stream", outs[getdata.column + 1])
  BY <1>1, <1>8, ReadyHeld
<1> QED
  BY <1>5, <1>6, <1>7, <1>9

LEMMA StreamDelivers ==
    ASSUME GInv, NEW cb \in BufLens, GetStream(cb)
    PROVE  TextPart(getdata.column, "stream",
                    outs[getdata.column + 1], cb) /\ slips' = {}
<1>0. /\ ReadTypeOK /\ OwnerKnown /\ SourceInValue /\ StreamHeld
      /\ OneAtATime
  BY DEF GInv
<1>1. cb \in Nat /\ "stream" \in AnyConversion
  BY LensAssumption DEF AnyConversion
<1>2. PICK c : c = getdata.column
  OBVIOUS
<1>3. PICK v : v = outs[c + 1]
  OBVIOUS
<1>4. pending = TRUE /\ current_param # None /\ Deliver(c, "stream", v, cb)
  BY <1>0, <1>2, <1>3, Zenon DEF GetStream, ReadTypeOK
<1>5. /\ c \in Nat /\ c \in Int /\ c \in -1..LastColumn /\ v \in Texts
      /\ Ready(c, "stream", v)
  BY <1>2, <1>3, <1>4, StreamReady
<1>6. /\ conv' = "stream" /\ options' = options /\ row' = row
      /\ pending' = pending /\ outs' = outs
      /\ current_param' = current_param
  BY <1>4 DEF Deliver, streams
<1>7. row = <<>> /\ slips = {}
      /\ c + 1 = Cardinality({i \in OutParams : i <= current_param})
  BY <1>0, <1>2, <1>4 DEF OneAtATime, StreamHeld
<1>8. getdata'.column = c /\ slips' = {}
  <2>1. options.max \in Nat /\ getdata \in PositionT
    BY <1>0, ReadTypes
  <2>2. Left(c, "stream", v)
    BY <1>1, <1>4, <1>5, <2>1, DeliverIs
  <2>3. PositionFor(c).column = c
    BY <1>5, <2>1, PositionForIs
  <2>4. getdata'.column = PositionFor(c).column /\ slips' = KnownOf(c)
    BY <2>2 DEF Left
  <2>5. KnownOf(c) = {}
    BY <1>7 DEF KnownOf
  <2> QED
    BY <2>3, <2>4, <2>5
<1>9. Value' = v
  BY <1>3, <1>6, <1>8 DEF Value
<1>10. /\ Left(c, "stream", v) /\ Answered(c, "stream", v, cb)
       /\ KeepsPromise(c, "stream", v) /\ AllUnits' = Total("stream", v)
       /\ ReadsWhole' /\ CallsTruthful' /\ EndTold'
  BY <1>0, <1>1, <1>4, <1>5, <1>9, TruthAfter
<1>11. TextPart(c, "stream", v, cb)
  BY <1>6, <1>8, <1>9, <1>10 DEF TextPart
<1> QED
  BY <1>2, <1>3, <1>8, <1>11

LEMMA GetStreamKeeps ==
    ASSUME GInv, NEW cb \in BufLens, GetStream(cb)
    PROVE  GInv'
<1>0. /\ ReadTypeOK /\ OwnerKnown /\ SourceInValue /\ StreamHeld
      /\ OneAtATime
  BY DEF GInv
<1>1. "stream" \in AnyConversion
  BY DEF AnyConversion
<1>2. PICK c : c = getdata.column
  OBVIOUS
<1>3. PICK v : v = outs[c + 1]
  OBVIOUS
<1>4. pending = TRUE /\ current_param # None /\ Deliver(c, "stream", v, cb)
  BY <1>0, <1>2, <1>3, Zenon DEF GetStream, ReadTypeOK
<1>5. /\ c \in Nat /\ c \in -1..LastColumn
  BY <1>2, <1>4, StreamReady
<1>6. TextPart(c, "stream", v, cb) /\ slips' = {}
  BY <1>2, <1>3, StreamDelivers
<1>7. /\ conv' = "stream" /\ options' = options /\ row' = row
      /\ pending' = pending /\ outs' = outs
      /\ current_param' = current_param /\ getdata'.column = c
  BY <1>6 DEF TextPart
<1>8. row = <<>> /\ slips = {}
      /\ c + 1 = Cardinality({i \in OutParams : i <= current_param})
  BY <1>0, <1>2, <1>4 DEF OneAtATime, StreamHeld
<1>9. /\ Left(c, "stream", v) /\ Answered(c, "stream", v, cb)
      /\ ReadsWhole' /\ CallsTruthful' /\ EndTold'
  BY <1>6 DEF TextPart
<1>10. OwnerKnown' /\ SourceInValue'
  BY <1>0, <1>5, <1>9, OwnerAfter
<1>11. ReadTypeOK' /\ last'.ret # "none"
  <2>1. "stream" \in (UNION {Conversions(Kinds[i]) : i \in 1..Len(Kinds)})
                       \cup {"none", "binary", "stream"}
    BY Zenon
  <2> QED
    BY <1>0, <1>4, <1>5, <1>7, <1>9, <2>1, TypesAfter
<1>12. OneAtATime'
  BY <1>7, <1>8, <1>11 DEF OneAtATime
<1>13. StreamHeld'
  <2>1. /\ Placed("stream", getdata', v, "split" \in slips')
        /\ slips' \cap Unsound = {} => got' = Run(1, Have("stream", getdata'))
    BY <1>9 DEF Left
  <2>2. Held("stream", v)'
    BY <1>1, <1>7, <2>1, HeldAfter
  <2>3. Held("stream", outs[getdata.column + 1])'
    BY <1>3, <1>7, <2>2
  <2> QED
    BY <1>6, <1>7, <1>8, <2>3 DEF StreamHeld
<1>14. ColumnHeld' /\ BookmarkHeld'
  BY <1>7, <1>8 DEF ColumnHeld, BookmarkHeld
<1> QED
  BY <1>9, <1>10, <1>11, <1>12, <1>13, <1>14 DEF GInv

LEMMA UnreadSame ==
    ASSUME UNCHANGED readVars
    PROVE  /\ options' = options /\ row' = row /\ getdata' = getdata
           /\ pending' = pending /\ outs' = outs
           /\ current_param' = current_param /\ conv' = conv /\ got' = got
           /\ last' = last /\ slips' = slips
           /\ Value' = Value /\ AllUnits' = AllUnits
           /\ Promised' <=> Promised
<1>1. /\ options' = options /\ row' = row /\ getdata' = getdata
      /\ pending' = pending /\ outs' = outs
      /\ current_param' = current_param /\ conv' = conv /\ got' = got
      /\ last' = last /\ slips' = slips
  BY DEF readVars
<1>2. Value' = Value
  BY <1>1 DEF Value
<1>3. Total(conv, Value)' = Total(conv, Value)
  BY <1>1, <1>2, LimitsStay
<1>4. AllUnits' = AllUnits
  BY <1>3 DEF AllUnits
<1>5. Promised' <=> Promised
  BY <1>1, <1>2 DEF Promised, Reading
<1> QED
  BY <1>1, <1>2, <1>4, <1>5

LEMMA UnreadKeeps ==
    ASSUME GInv, UNCHANGED readVars
    PROVE  GInv'
<1>1. /\ options' = options /\ row' = row /\ getdata' = getdata
      /\ pending' = pending /\ outs' = outs
      /\ current_param' = current_param /\ conv' = conv /\ got' = got
      /\ last' = last /\ slips' = slips
  BY UnreadSame
<1>2. Value' = Value /\ AllUnits' = AllUnits /\ (Promised' <=> Promised)
  BY UnreadSame
<1>3. ReadTypeOK'
  BY <1>1 DEF GInv, ReadTypeOK
<1>4. OneAtATime' /\ OwnerKnown' /\ SourceInValue'
  BY <1>1 DEF GInv, OneAtATime, OwnerKnown, SourceInValue
<1>5. ASSUME NEW cv \in AnyConversion, NEW v, Held(cv, v)
      PROVE  Held(cv, v)'
  <2>1. /\ Placed(cv, getdata', v, "split" \in slips')
        /\ slips' \cap Unsound = {} => got' = Run(1, Have(cv, getdata'))
    BY <1>1, <1>5 DEF Held
  <2> QED
    BY <1>1, <2>1, HeldAfter
<1>6. ColumnHeld'
  <2>1. ColumnHeld /\ ReadTypeOK
    BY DEF GInv
  <2>2. SUFFICES ASSUME row # <<>>, getdata.column \in Columns
                 PROVE  ColumnHeld'
    BY <1>1 DEF ColumnHeld
  <2>3. /\ conv \in Conversions(Kinds[getdata.column + 1])
        /\ "stray" \notin slips
        /\ conv # "bit" => "short" \notin slips
        /\ row[getdata.column + 1] = Null => Fresh(getdata)
        /\ row[getdata.column + 1] # Null =>
              Held(conv, row[getdata.column + 1])
    BY <2>1, <2>2 DEF ColumnHeld
  <2>4. Kinds[getdata.column + 1] \in {"text", "blob", "bit"}
    <3>1. getdata.column + 1 \in 1..Len(Kinds)
      BY <2>2, ColumnsAre
    <3> QED
      BY <3>1, KindsAssumption
  <2>5. conv \in AnyConversion
    BY <2>3, <2>4, ConversionsAre
  <2>6. PICK cv \in AnyConversion : cv = conv
    BY <2>5
  <2>7. PICK v : v = row[getdata.column + 1]
    OBVIOUS
  <2>8. v # Null => Held(cv, v)'
    BY <1>5, <2>3, <2>6, <2>7
  <2>9. v # Null => Held(conv, row[getdata.column + 1])'
    BY <1>1, <2>6, <2>7, <2>8
  <2>10. (row[getdata.column + 1] = Null => Fresh(getdata))'
    BY <1>1, <2>3 DEF Fresh
  <2> QED
    BY <1>1, <2>3, <2>7, <2>9, <2>10 DEF ColumnHeld
<1>7. BookmarkHeld'
  <2>1. BookmarkHeld
    BY DEF GInv
  <2>2. "binary" \in AnyConversion
    BY DEF AnyConversion, ByBytes
  <2>3. Held("binary", <<"n">>) => Held("binary", <<"n">>)'
    BY <1>5, <2>2
  <2> QED
    BY <1>1, <2>1, <2>3 DEF BookmarkHeld
<1>8. StreamHeld'
  <2>1. StreamHeld
    BY DEF GInv
  <2>2. "stream" \in AnyConversion
    BY DEF AnyConversion
  <2>3. PICK v : v = outs[getdata.column + 1]
    OBVIOUS
  <2>4. Held("stream", v) => Held("stream", v)'
    BY <1>5, <2>2
  <2>5. Held("stream", outs[getdata.column + 1])
          => Held("stream", outs[getdata.column + 1])'
    BY <1>1, <2>3, <2>4
  <2> QED
    BY <1>1, <2>1, <2>5 DEF StreamHeld
<1>9. ReadingValue' <=> ReadingValue
  BY <1>1, <1>2 DEF ReadingValue, Reading
<1>10. ReadsWhole'
  BY <1>1, <1>2, <1>9 DEF GInv, ReadsWhole, ChunksJoin, NoDataMeansAll
<1>11. CallsTruthful'
  <2>1. IndicatorTruthful'
    BY <1>1, <1>2, <1>9 DEF GInv, CallsTruthful, IndicatorTruthful
  <2>2. RoomFor(conv, last.room)' <=> RoomFor(conv, last.room)
    BY <1>1 DEF RoomFor
  <2>3. LoopsGetOn'
    BY <1>1, <2>2 DEF GInv, CallsTruthful, LoopsGetOn
  <2> QED
    BY <2>1, <2>3 DEF CallsTruthful
<1>12. EndTold'
  <2>1. Promised' <=> Promised
    BY <1>2
  <2>2. EndTold
    BY DEF GInv
  <2>3. SUFFICES ASSUME Promised, last.ret # "info"
                 PROVE  AtEnd(conv, getdata, Value)'
    BY <1>1, <2>1 DEF EndTold
  <2>4. AtEnd(conv, getdata, Value) /\ conv \in AnyConversion
    BY <2>2, <2>3 DEF EndTold, Promised, AnyConversion, ByBytes
  <2>5. PICK p : p = getdata
    OBVIOUS
  <2>6. PICK v : v = Value
    OBVIOUS
  <2>7. PICK cv \in AnyConversion : cv = conv
    BY <2>4
  <2>8. AtEnd(cv, p, v)'
    BY <1>1, <2>4, <2>5, <2>6, <2>7, PlacesStay
  <2> QED
    BY <1>1, <1>2, <2>5, <2>6, <2>7, <2>8
<1> QED
  BY <1>3, <1>4, <1>6, <1>7, <1>8, <1>10, <1>11, <1>12 DEF GInv

(***************************************************************************)
(* The invariant.                                                          *)
(***************************************************************************)
LEMMA GStep == GInv /\ [ReadNext]_readVars => GInv'
<1> SUFFICES ASSUME GInv, [ReadNext]_readVars PROVE GInv'
  OBVIOUS
<1>1. CASE Fetch \/ SetPos
  BY <1>1, FetchKeeps
<1>2. CASE Close
  BY <1>2, CloseKeeps
<1>3. ASSUME NEW c \in Columns, NEW cb \in BufLens,
             NEW cv \in Conversions(Kinds[c + 1]), GetColumn(c, cv, cb)
      PROVE  GInv'
  BY <1>3, GetColumnKeeps
<1>4. CASE GetBookmark
  BY <1>4, GetBookmarkKeeps
<1>5. CASE GetBookmarkAstray
  BY <1>5, GetBookmarkAstrayKeeps
<1>6. CASE Call
  BY <1>6, CallKeeps
<1>7. CASE NextStream
  BY <1>7, NextStreamKeeps
<1>8. CASE NoMoreStreams
  BY <1>8, NoMoreStreamsKeeps
<1>9. ASSUME NEW cb \in BufLens, GetStream(cb)
      PROVE  GInv'
  BY <1>9, GetStreamKeeps
<1>10. CASE UNCHANGED readVars
  BY <1>10, UnreadKeeps
<1> QED
  BY <1>1, <1>2, <1>3, <1>4, <1>5, <1>6, <1>7, <1>8, <1>9, <1>10
  DEF ReadNext

LEMMA GAlways == ReadSpec => []GInv
  BY GInit, GStep, PTL DEF ReadSpec

(* The position that the driver keeps between two calls lies in the value   *)
(* that the next call is for, whatever has been read, bound, scrolled or    *)
(* called in between; and the result column that the streams are counted to *)
(* is the one of the parameter whose turn it is.                            *)
THEOREM PositionsAreSound == ReadSpec => []PositionSound
<1>1. GInv => PositionSound
  <2> SUFFICES ASSUME GInv PROVE PositionSound
    OBVIOUS
  <2>1. ReadTypeOK /\ SourceInValue
    BY DEF GInv
  <2>2. StreamColumnRight
    BY DEF GInv, StreamHeld, StreamColumnRight
  <2> QED
    BY <2>1, <2>2 DEF PositionSound
<1> QED
  BY <1>1, GAlways, PTL

(* What an application has put together of a value, of any length, through  *)
(* buffers of any length and by any conversion, is the value from its       *)
(* beginning; and SQL_NO_DATA is answered when it is all of it.             *)
THEOREM PartsMakeTheWhole == ReadSpec => []ReadsWhole
<1>1. GInv => ReadsWhole
  BY DEF GInv
<1> QED
  BY <1>1, GAlways, PTL

(* The length that a call reports is what was left, and a call that says    *)
(* that there is more, and had room, has delivered something.               *)
THEOREM AnswersAreTruthful == ReadSpec => []CallsTruthful
<1>1. GInv => CallsTruthful
  BY DEF GInv
<1> QED
  BY <1>1, GAlways, PTL

(***************************************************************************)
(* The refinement of the transfer.                                         *)
(***************************************************************************)
LEMMA TotalIs ==
    ASSUME options.max \in Nat, NEW v \in Texts, NEW cv \in Kept
    PROVE  Total(cv, v) \in Nat
<1>1. Size(v) \in Nat /\ Limited(Size(v)) \in Nat
  BY TextSize, LimitedIn
<1>2. Wide(v, Whole(v)) \in Nat
  <2>1. Whole(v) \in Nat
    BY WholeIn, TextSize
  <2> QED
    BY <2>1, WideGrows
<1>3. cv \in {"binary", "ansi", "wide", "stream"}
  BY DEF Kept
<1> QED
  BY <1>1, <1>2, <1>3 DEF Total

(* A call that delivers a part of a column's value, or a stream's, while    *)
(* what the application has of it is in order.                             *)
TransferPart(c, cv, v) ==
    /\ ReadTypeOK /\ c # Bookmark
    /\ getdata'.column = c /\ conv' = cv /\ Value' = v /\ v \in Texts
    /\ cv \in Kept /\ slips' = {} /\ last'.ret # "crash"
    /\ KeepsPromise(c, cv, v) /\ AllUnits' = Total(cv, v)
    /\ BegunOf(c) \in Seq(Nat) /\ got' \in Seq(Nat)

LEMMA PartFacts ==
    ASSUME NEW c \in Int, NEW cv, NEW v, TransferPart(c, cv, v)
    PROVE  /\ Len(BegunOf(c)) \in Nat /\ Len(got') \in Nat
           /\ Total(cv, v) \in Nat
           /\ last'.ret \in {"success", "info", "nodata"}
           /\ Len(BegunOf(c)) <= Len(got') /\ Len(got') <= Total(cv, v)
           /\ last'.ret = "success" => Len(got') = Total(cv, v)
           /\ last'.ret = "info" => Len(got') < Total(cv, v)
                                     \/ Total(cv, v) = 0
           /\ last'.ret = "nodata" => /\ Len(got') = Total(cv, v)
                                      /\ Len(BegunOf(c)) = Total(cv, v)
           /\ AtEnd(cv, PositionFor(c), v) => last'.ret = "nodata"
<1>1. options.max \in Nat
  BY ReadTypes DEF TransferPart
<1>2. Total(cv, v) \in Nat
  BY <1>1, TotalIs DEF TransferPart
<1>3. Len(BegunOf(c)) \in Nat /\ Len(got') \in Nat
  BY DEF TransferPart
<1>4. KeepsPromise(c, cv, v) /\ cv \in Kept /\ slips' = {}
      /\ last'.ret # "crash"
  BY DEF TransferPart
<1> QED
  BY <1>2, <1>3, <1>4 DEF KeepsPromise

(* The first part.                                                         *)
LEMMA TransferBegins ==
    ASSUME NEW c \in Int, NEW cv, NEW v, TransferPart(c, cv, v), Promised',
           ~Promised \/ getdata.column # c, BegunOf(c) = <<>>
    PROVE  T!First \/ T!Done
<1>1. /\ Total(cv, v) \in Nat /\ Len(got') \in Nat
      /\ last'.ret \in {"success", "info", "nodata"}
      /\ Len(got') <= Total(cv, v)
      /\ last'.ret = "success" => Len(got') = Total(cv, v)
      /\ last'.ret = "info" => Len(got') < Total(cv, v) \/ Total(cv, v) = 0
      /\ last'.ret = "nodata" => Len(got') = Total(cv, v) /\ Total(cv, v) = 0
  BY PartFacts
<1>2. PICK what \in Int \cup {Bookmark} : what = c
  OBVIOUS
<1>3. /\ (IF Promised THEN getdata.column ELSE Bookmark) # c
      /\ c # Bookmark /\ getdata'.column = c /\ AllUnits' = Total(cv, v)
  BY DEF TransferPart
<1>4. /\ (IF Promised THEN getdata.column ELSE Bookmark)' = c
      /\ (IF Promised THEN AllUnits ELSE 0)' = Total(cv, v)
      /\ (IF Promised THEN Len(got) ELSE 0)' = Len(got')
      /\ (IF Promised THEN last.ret ELSE "none")' = last'.ret
  BY <1>3
<1>5. CASE last'.ret = "nodata"
  BY <1>1, <1>3, <1>4, <1>5 DEF T!Done
<1>6. CASE last'.ret # "nodata"
  BY <1>1, <1>3, <1>4, <1>6 DEF T!First, T!Part
<1> QED
  BY <1>5, <1>6

(* A later part.                                                           *)
LEMMA TransferGoesOn ==
    ASSUME GInv, NEW c \in Int, NEW cv, NEW v, TransferPart(c, cv, v),
           Promised, Promised', getdata.column = c, conv = cv, Value = v,
           BegunOf(c) = got
    PROVE  T!More \/ T!Done
<1>1. /\ Total(cv, v) \in Nat /\ Len(got') \in Nat /\ Len(got) \in Nat
      /\ last'.ret \in {"success", "info", "nodata"}
      /\ Len(got) <= Len(got') /\ Len(got') <= Total(cv, v)
      /\ last'.ret = "success" => Len(got') = Total(cv, v)
      /\ last'.ret = "info" => Len(got') < Total(cv, v) \/ Total(cv, v) = 0
      /\ last'.ret = "nodata" => /\ Len(got') = Total(cv, v)
                                 /\ Len(got) = Total(cv, v)
      /\ AtEnd(cv, PositionFor(c), v) => last'.ret = "nodata"
  BY PartFacts
<1>2. /\ c # Bookmark /\ getdata'.column = c /\ AllUnits' = Total(cv, v)
      /\ AllUnits = Total(cv, v)
  BY DEF TransferPart, AllUnits
<1>3. last.ret = "info" \/ AtEnd(cv, PositionFor(c), v)
  BY DEF GInv, EndTold, PositionFor
<1>4. /\ (IF Promised THEN getdata.column ELSE Bookmark)' = c
      /\ (IF Promised THEN AllUnits ELSE 0)' = Total(cv, v)
      /\ (IF Promised THEN Len(got) ELSE 0)' = Len(got')
      /\ (IF Promised THEN last.ret ELSE "none")' = last'.ret
      /\ (IF Promised THEN getdata.column ELSE Bookmark) = c
      /\ (IF Promised THEN AllUnits ELSE 0) = Total(cv, v)
      /\ (IF Promised THEN Len(got) ELSE 0) = Len(got)
      /\ (IF Promised THEN last.ret ELSE "none") = last.ret
  BY <1>2
<1>5. CASE last'.ret = "nodata"
  BY <1>1, <1>2, <1>4, <1>5 DEF T!Done
<1>6. CASE last'.ret # "nodata"
  BY <1>1, <1>2, <1>3, <1>4, <1>6 DEF T!More, T!Part
<1> QED
  BY <1>5, <1>6

(* What a step can do to a reading that is in order.                       *)
Transfers == ~Promised' \/ T!First \/ T!More \/ T!Done

LEMMA DeliverTransfers ==
    ASSUME GInv, NEW c \in Int, c # Bookmark, NEW cv, NEW v \in Texts, NEW cb,
           TextPart(c, cv, v, cb), Deliver(c, cv, v, cb),
           c = getdata.column => \/ conv = "none" /\ cv = "stream"
                                 \/ conv = cv /\ Value = v,
           Running, conv = "stream" => pending, v # Null
    PROVE  Transfers
<1> SUFFICES ASSUME Promised'
             PROVE  T!First \/ T!More \/ T!Done
  BY DEF Transfers
<1>1. ReadTypeOK /\ OneAtATime
  BY DEF GInv
<1>2. /\ conv' = cv /\ getdata'.column = c /\ Value' = v
      /\ AllUnits' = Total(cv, v) /\ KeepsPromise(c, cv, v)
      /\ Left(c, cv, v) /\ pending' = pending
  BY DEF TextPart
<1>3. slips' = {} /\ cv \in Kept /\ last'.ret # "crash"
  BY <1>2 DEF Promised, Kept
<1>4. KnownOf(c) = {}
  BY <1>3 DEF Deliver, KnownOf
<1>5. BegunOf(c) \in Seq(Nat) /\ got' \in Seq(Nat)
  <2>1. got \in Seq(Nat)
    BY <1>1, ReadTypes
  <2>2. got' \in Seq(Nat)
    BY <1>2 DEF Left
  <2> QED
    BY <2>1, <2>2, NothingYet DEF BegunOf
<1>6. TransferPart(c, cv, v)
  BY <1>1, <1>2, <1>3, <1>5 DEF TransferPart
<1>7. CASE c # getdata.column
  <2>1. BegunOf(c) = <<>>
    BY <1>7 DEF BegunOf
  <2> QED
    BY <1>6, <1>7, <2>1, TransferBegins
<1>8. CASE c = getdata.column /\ conv = "none"
  <2>1. BegunOf(c) = <<>> /\ ~Promised
    BY <1>1, <1>8 DEF BegunOf, OneAtATime, Promised, Reading
  <2> QED
    BY <1>6, <2>1, TransferBegins
<1>9. CASE c = getdata.column /\ conv # "none"
  <2>1. conv = cv /\ Value = v /\ slips = {} /\ BegunOf(c) = got
    BY <1>4, <1>9 DEF KnownOf, BegunOf
  <2>2. last.ret \notin {"none", "crash"}
    BY <1>1, <1>9 DEF OneAtATime, Running
  <2>3. Promised
    BY <1>3, <1>9, <2>1, <2>2 DEF Promised, Reading, Kept
  <2> QED
    BY <1>6, <1>9, <2>1, <2>3, TransferGoesOn
<1> QED
  BY <1>7, <1>8, <1>9

LEMMA ColumnTransfers ==
    ASSUME GInv, NEW c \in Columns, NEW cv \in Conversions(Kinds[c + 1]),
           NEW cb \in BufLens, GetColumn(c, cv, cb)
    PROVE  Transfers
<1>1. /\ c \in Int /\ c # Bookmark /\ c + 1 \in 1..Len(Kinds) /\ cb \in Nat
  <2>1. Columns \subseteq Nat
    BY ColumnsAre
  <2> QED
    BY <2>1, ColumnsAre, LensAssumption
<1>2. Kinds[c + 1] \in {"text", "blob", "bit"}
  BY <1>1, KindsAssumption
<1>3. cv # "stream" /\ cv # "none"
  BY <1>2, ConversionsAre
<1>4. PICK v : v = row[c + 1]
  OBVIOUS
<1>5. /\ row # <<>> /\ ~pending /\ (c = getdata.column => cv = conv)
      /\ Deliver(c, cv, v, cb) /\ Running
  BY <1>4, Zenon DEF GetColumn
<1>6. CASE v = Null
  <2>1. conv' = cv /\ row' = row
    BY <1>5 DEF Deliver
  <2>2. getdata'.column = c
    <3>2. getdata \in PositionT
      BY ReadTypes DEF GInv
    <3> DEFINE g == PositionFor(c)
    <3>3. g \in PositionT /\ g.column = c
      BY <1>1, <3>2, PositionForIs
    <3>4. Convert(cv, g, Null, cb).getdata = g
      BY DEF Convert, Chunk
    <3>5. getdata' = Owned(g, c)
      BY <1>5, <1>6, <3>4, Zenon DEF Deliver
    <3> HIDE DEF g
    <3>6. Owned(g, c).column = g.column
      BY <1>1, <3>3, OwnedIs
    <3> QED
      BY <3>3, <3>5, <3>6
  <2>3. Value' = Null
    BY <1>1, <1>3, <1>4, <1>6, <2>1, <2>2 DEF Value
  <2> QED
    BY <2>3 DEF Transfers, Promised
<1>7. CASE v # Null
  <2>1. v \in Texts /\ TextPart(c, cv, v, cb)
    BY <1>1, <1>4, <1>5, <1>7, ColumnReady, TextDelivers
  <2>2. c = getdata.column => conv = cv /\ Value = v
    BY <1>1, <1>3, <1>4, <1>5 DEF Value
  <2>3. conv = "stream" => pending
    BY <1>5 DEF GInv, OneAtATime
  <2> QED
    BY <1>1, <1>5, <1>7, <2>1, <2>2, <2>3, DeliverTransfers
<1> QED
  BY <1>6, <1>7

LEMMA StreamTransfers ==
    ASSUME GInv, NEW cb \in BufLens, GetStream(cb)
    PROVE  Transfers
<1>1. PICK c : c = getdata.column
  OBVIOUS
<1>2. PICK v : v = outs[c + 1]
  OBVIOUS
<1>3. /\ pending /\ current_param # None /\ Deliver(c, "stream", v, cb)
      /\ Running
  BY <1>1, <1>2, Zenon DEF GetStream
<1>4. c \in Nat /\ v \in Texts
  BY <1>1, <1>2, <1>3, StreamReady
<1>5. c \in Int /\ c # Bookmark /\ v # Null
  BY <1>4, NullIsNoText DEF Bookmark
<1>6. TextPart(c, "stream", v, cb)
  BY <1>1, <1>2, StreamDelivers
<1>7. conv = "none" \/ (conv = "stream" /\ Value = v)
  BY <1>1, <1>2, <1>3 DEF GInv, StreamHeld, Value
<1> QED
  BY <1>3, <1>4, <1>5, <1>6, <1>7, DeliverTransfers

LEMMA TransferStep ==
    ASSUME GInv, [ReadNext]_readVars
    PROVE  T!Next \/ UNCHANGED T!vars
<1>1. ASSUME Fetch \/ SetPos \/ Close \/ Call \/ NextStream
      PROVE  Transfers
  <2>1. Forget
    BY <1>1, Zenon DEF Fetch, SetPos, Close, Call, NextStream
  <2>2. ~Promised'
    BY <2>1 DEF Forget, Promised, Reading
  <2> QED
    BY <2>2 DEF Transfers
<1>2. ASSUME NoMoreStreams PROVE Transfers
  <2>1. conv \in {"none", "stream"} /\ conv' = conv /\ pending' = FALSE
    BY <1>2 DEF NoMoreStreams, GInv, StreamHeld
  <2>2. ~Promised'
    BY <2>1 DEF Promised, Reading
  <2> QED
    BY <2>2 DEF Transfers
<1>3. ASSUME GetBookmark PROVE Transfers
  <2>1. getdata'.column = Bookmark
    BY <1>3, BookmarkDelivers
  <2>2. ~Promised'
    BY <2>1 DEF Promised
  <2> QED
    BY <2>2 DEF Transfers
<1>4. ASSUME GetBookmarkAstray PROVE Transfers
  <2>1. "stray" \in slips'
    BY <1>4, Zenon DEF GetBookmarkAstray
  <2>2. ~Promised'
    BY <2>1 DEF Promised
  <2> QED
    BY <2>2 DEF Transfers
<1>5. ASSUME NEW c \in Columns, NEW cb \in BufLens,
             NEW cv \in Conversions(Kinds[c + 1]), GetColumn(c, cv, cb)
      PROVE  Transfers
  BY <1>5, ColumnTransfers
<1>6. ASSUME NEW cb \in BufLens, GetStream(cb)
      PROVE  Transfers
  BY <1>6, StreamTransfers
<1>7. CASE UNCHANGED readVars
  <2>1. UNCHANGED T!vars
    BY <1>7, UnreadSame DEF T!vars
  <2> QED
    BY <2>1
<1>8. CASE ReadNext
  <2>1. Transfers
    BY <1>1, <1>2, <1>3, <1>4, <1>5, <1>6, <1>8, Zenon DEF ReadNext
  <2>2. CASE ~Promised'
    <3>1. T!Leave
      BY <2>2 DEF T!Leave, T!Rest
    <3> QED
      BY <3>1 DEF T!Next
  <2> QED
    BY <2>1, <2>2 DEF Transfers, T!Next
<1> QED
  BY <1>7, <1>8

(* A reading by bytes, characters or wide characters, or of a stream, is    *)
(* the abstract transfer: each part once and in order, SQL_SUCCESS with the *)
(* last of them and not before, SQL_NO_DATA when nothing is left, whatever  *)
(* is done to other columns in between.                                    *)
THEOREM ReadingsAreTransfers == ReadSpec => ImplementsTransfer
<1>1. ReadInit => T!Init
  BY DEF ReadInit, T!Init, T!Rest, Promised, Reading
<1>2. GInv /\ [ReadNext]_readVars => [T!Next]_T!vars
  BY TransferStep
<1> QED
  BY <1>1, <1>2, GAlways, PTL DEF ReadSpec, ImplementsTransfer, T!Spec
=============================================================================
