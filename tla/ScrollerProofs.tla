--------------------------- MODULE ScrollerProofs ---------------------------
(***************************************************************************)
(* Theorems about the prefetching scroller, for tables, limits, windows and *)
(* rowsets of any size.  Where the windows lie needs no hypothesis; what    *)
(* the application gets needs that no query is written LIMIT n OFFSET m,    *)
(* whose numbers get_limit_numbers takes the other way round.               *)
(***************************************************************************)
EXTENDS Scroller, WellFoundedInduction, TLAPS

Scrollers == [row_count : Nat, total_rows : Nat, start_offset : Nat,
              next_offset : Nat, offset : Nat, count : Nat]
Clauses   == [form : LimitForms, first : Nat, second : Nat]
Windows   == [from : Nat, len : Nat]

(* Query and scroller agree on where the result begins and how long it is.  *)
QueryNumbers(q, sc) ==
    /\ sc.start_offset = OffsetOf(q.limit)
    /\ sc.total_rows = TotalRows(q.limit, q.max)
    /\ (q.limit.form # "none" /\ sc.total_rows = 0) => sc.row_count = 0

(* The scroller stands at the end of a window it has written the offset of, *)
(* and only the last window of a limit is shorter than the others.          *)
ScrollerNumbers(sc) ==
    /\ sc.offset + sc.row_count = sc.next_offset
    /\ sc.start_offset <= sc.offset
    /\ sc.count <= sc.row_count
    /\ \/ sc.count = sc.row_count
       \/ /\ sc.total_rows > 0
          /\ sc.next_offset >= sc.start_offset + sc.total_rows
    /\ sc.row_count = 0 => /\ sc.total_rows = 0
                           /\ sc.next_offset = sc.start_offset

(* The window in the client library is where the scroller stands or before, *)
(* and it has no more rows than the scroller asks for.                      *)
WindowNumbers(sc, win) ==
    /\ sc.start_offset <= win.from
    /\ win.from <= sc.offset
    /\ win.len <= sc.row_count
    /\ sc.total_rows > 0 =>
          win.from + win.len <= sc.start_offset + sc.total_rows

(* The row the next fetch goes on at has been passed already, or is the end *)
(* of what has: the scroller need not look for it.                          *)
NextIsNear ==
    /\ call = "idle" =>
          \/ NextRow = 0
          \/ /\ end_of_set # Freed
             /\ NextRow <= scroller.offset + end_of_set
    /\ call = "fetching" =>
          /\ data_cursor # Freed
          /\ \/ current_row + Len(rowset) <= scroller.offset + data_cursor
             \/ /\ rowset = <<>>
                /\ data_cursor = window.len
                /\ current_row <= scroller.next_offset
    /\ call = "hung" => "scrolled" \in mishaps

SInv ==
    /\ TypeOK
    /\ QueryNumbers(query, scroller)
    /\ ScrollerNumbers(scroller)
    /\ WindowNumbers(scroller, window)
    /\ NextIsNear

-----------------------------------------------------------------------------
(***************************************************************************)
(* The operators                                                           *)
(***************************************************************************)

LEMMA MinIsLeast ==
    ASSUME NEW a \in Int, NEW b \in Int
    PROVE  /\ Min2(a, b) \in {a, b}
           /\ Min2(a, b) <= a /\ Min2(a, b) <= b
  BY DEF Min2

LEMMA ProductGrows ==
    ASSUME NEW a \in Nat \ {0}, NEW b \in Nat
    PROVE  a * (b + 1) \in Nat \ {0}
<1>1. a * b \in Nat
  OBVIOUS
<1>2. a * (b + 1) = a * b + a
  OBVIOUS
<1> QED
  BY <1>1, <1>2

(* A window has a row at least, and no more than SQL_ATTR_MAX_ROWS.         *)
LEMMA PrefetchNumber ==
    ASSUME NEW p \in Nat \ {0}, NEW a \in Nat \ {0}, NEW m \in Nat
    PROVE  /\ calc_prefetch_number(p, a, m) \in Nat \ {0}
           /\ m > 0 => calc_prefetch_number(p, a, m) <= m
<1>1. p \div a \in Nat
  OBVIOUS
<1>2. a * ((p \div a) + 1) \in Nat \ {0}
  BY <1>1, ProductGrows
<1>3. WholeRowsets(p, a) \in Nat \ {0}
  BY <1>2 DEF WholeRowsets
<1> QED
  BY <1>3 DEF calc_prefetch_number, Min2

(* The scroller of a new query stands at its first window.                  *)
LEMMA FirstScroller ==
    ASSUME NEW q, q.limit \in Clauses, q.max \in Nat,
           NEW rows \in Nat \ {0}, q.max > 0 => rows <= q.max,
           NEW sc, sc = scroller_move(scroller_create(q.limit, q.max, rows))
    PROVE  /\ sc \in Scrollers
           /\ QueryNumbers(q, sc)
           /\ ScrollerNumbers(sc)
           /\ sc.offset = sc.start_offset
           /\ sc.count = sc.row_count
           /\ sc.total_rows > 0 => sc.count <= sc.total_rows
           /\ sc.row_count = 0 => q.limit.form # "none"
<1> DEFINE l     == q.limit
           m     == q.max
           total == TotalRows(l, m)
           cnt   == IF l.form = "none" THEN rows ELSE Min2(rows, total)
           first == OffsetOf(l)
           new   == scroller_create(l, m, rows)
<1>1. /\ l.form \in LimitForms /\ l.first \in Nat /\ l.second \in Nat
      /\ m \in Nat
  BY DEF Clauses
<1>2. first \in Nat /\ RowCountOf(l) \in Nat
  BY <1>1 DEF OffsetOf, RowCountOf
<1>3. total \in Nat
  BY <1>1, <1>2 DEF TotalRows, Min2
<1>4. cnt \in Nat
  BY <1>3 DEF Min2
<1>5. new = [row_count |-> cnt, total_rows |-> total, start_offset |-> first,
             next_offset |-> first, offset |-> first, count |-> cnt]
  BY DEF scroller_create
<1>6. /\ new \in Scrollers
      /\ new.row_count = cnt /\ new.total_rows = total
      /\ new.start_offset = first /\ new.next_offset = first
      /\ new.count = cnt
  <2> HIDE DEF total, cnt, first, new
  <2> QED
    BY <1>2, <1>3, <1>4, <1>5 DEF Scrollers
<1> HIDE DEF new
<1>7. /\ sc \in Scrollers
      /\ sc.row_count = cnt /\ sc.total_rows = total
      /\ sc.start_offset = first /\ sc.offset = first
      /\ sc.next_offset = first + cnt /\ sc.count = cnt
  <2> HIDE DEF total, cnt, first
  <2> DEFINE x == new.next_offset
             y == new.next_offset + new.row_count
  <2>1. sc = [new EXCEPT !.offset = x, !.next_offset = y]
    BY DEF new, scroller_move
  <2>2. x \in Nat /\ y \in Nat /\ x = first /\ y = first + cnt
    BY <1>2, <1>4, <1>6
  <2> HIDE DEF x, y
  <2>3. /\ sc \in Scrollers
        /\ sc.row_count = new.row_count /\ sc.total_rows = new.total_rows
        /\ sc.start_offset = new.start_offset /\ sc.count = new.count
        /\ sc.offset = x /\ sc.next_offset = y
    BY <2>1, <2>2, <1>6 DEF Scrollers
  <2> QED
    BY <2>2, <2>3, <1>6
<1>8. (l.form # "none" /\ total = 0) => cnt = 0
  BY <1>3 DEF Min2
<1>9. cnt = 0 => total = 0
  <2>1. l.form = "none" => cnt # 0
    OBVIOUS
  <2>2. l.form # "none" => cnt \in {rows, total}
    BY DEF Min2
  <2> HIDE DEF total, cnt
  <2> QED
    BY <2>1, <2>2
<1>10. total > 0 => cnt <= total
  <2>1. l.form = "none" => total = m
    BY DEF TotalRows, RowCountOf
  <2>3. l.form = "none" => cnt = rows
    OBVIOUS
  <2>2. l.form # "none" => cnt <= total
    BY <1>3, MinIsLeast
  <2> HIDE DEF total, cnt
  <2> QED
    BY <1>1, <2>1, <2>2, <2>3
<1>11. cnt = 0 => l.form # "none"
  OBVIOUS
<1>12. QueryNumbers(q, sc)
  BY <1>7, <1>8 DEF QueryNumbers
<1>13. ScrollerNumbers(sc)
  <2> HIDE DEF total, cnt, first
  <2> QED
    BY <1>2, <1>3, <1>4, <1>7, <1>9 DEF ScrollerNumbers
<1> QED
  <2> HIDE DEF total, cnt, first
  <2> QED
    BY <1>7, <1>10, <1>11, <1>12, <1>13

(* A scroller that has gone on, by one window or by several.                *)
GoneOn(old, sc) ==
    /\ sc \in Scrollers
    /\ sc.row_count = old.row_count
    /\ sc.total_rows = old.total_rows
    /\ sc.start_offset = old.start_offset
    /\ sc.count = old.count
    /\ sc.offset >= old.next_offset
    /\ sc.offset + sc.row_count = sc.next_offset
    /\ sc.row_count = 0 => sc.next_offset = old.next_offset

LEMMA MoveGoesOn ==
    ASSUME NEW sc \in Scrollers
    PROVE  /\ GoneOn(sc, scroller_move(sc))
           /\ scroller_move(sc).offset = sc.next_offset
<1> DEFINE new == scroller_move(sc)
<1>1. /\ sc.next_offset \in Nat /\ sc.row_count \in Nat
  BY DEF Scrollers
<1>2. /\ new \in Scrollers
      /\ new.row_count = sc.row_count /\ new.total_rows = sc.total_rows
      /\ new.start_offset = sc.start_offset /\ new.count = sc.count
      /\ new.offset = sc.next_offset
      /\ new.next_offset = sc.next_offset + sc.row_count
  <2> DEFINE x == sc.next_offset
             y == sc.next_offset + sc.row_count
  <2>1. new = [sc EXCEPT !.offset = x, !.next_offset = y]
    BY DEF scroller_move
  <2>2. x \in Nat /\ y \in Nat
        /\ x = sc.next_offset /\ y = sc.next_offset + sc.row_count
    BY <1>1
  <2> HIDE DEF x, y, new
  <2>3. /\ new \in Scrollers
        /\ new.row_count = sc.row_count /\ new.total_rows = sc.total_rows
        /\ new.start_offset = sc.start_offset /\ new.count = sc.count
        /\ new.offset = x /\ new.next_offset = y
    BY <2>1, <2>2 DEF Scrollers
  <2> QED
    BY <2>2, <2>3
<1> HIDE DEF new
<1>3. GoneOn(sc, new) /\ new.offset = sc.next_offset
  BY <1>1, <1>2 DEF GoneOn
<1> QED
  BY <1>3 DEF new

(* A set of naturals that is not empty has a least member.                  *)
LEMMA LeastOf ==
    ASSUME NEW S, S \subseteq Nat, S # {}
    PROVE  \E n \in S : \A m \in S : n <= m
<1>1. PICK n \in S : \A m \in S : <<m, n>> \notin OpToRel(<, Nat)
  BY WFMin, NatLessThanWellFounded, Zenon
<1>2. \A m \in S : ~(m < n)
  BY <1>1 DEF OpToRel
<1> QED
  BY <1>2

LEMMA OneMore ==
    ASSUME NEW a \in Nat, NEW b \in Nat
    PROVE  (a + 1) * b = a * b + b
  OBVIOUS

(* The loop that moves the window until it reaches a row ends, and the row  *)
(* is not behind the last of these windows.                                 *)
LEMMA MovesToGoesOn ==
    ASSUME scroller \in Scrollers, NEW cur \in Nat,
           ~NeverReached(cur)
    PROVE  /\ GoneOn(scroller, MovesTo(cur))
           /\ cur <= MovesTo(cur).next_offset
<1> DEFINE next   == scroller.next_offset
           rc     == scroller.row_count
           end(k) == next + k * rc
           S      == {n \in 1..(cur + 1) : cur <= end(n)}
<1>1. next \in Nat /\ rc \in Nat
  BY DEF Scrollers
<1>2. S # {}
  <2>1. CASE rc = 0
    <3>1. cur <= next
      BY <1>1, <2>1 DEF NeverReached
    <3>2. end(1) = next
      BY <1>1, <2>1
    <3>3. 1 \in S
      BY <3>1, <3>2
    <3> QED
      BY <3>3
  <2>2. CASE rc # 0
    <3>1. (cur + 1) * rc >= cur + 1
      <4>1. PICK r \in Nat : rc = r + 1
        <5>1. rc - 1 \in Nat /\ rc = (rc - 1) + 1
          BY <1>1, <2>2
        <5> QED
          BY <5>1
      <4>2. (cur + 1) * r \in Nat
        OBVIOUS
      <4>3. (cur + 1) * (r + 1) = (cur + 1) * r + (cur + 1)
        OBVIOUS
      <4> QED
        BY <4>1, <4>2, <4>3
    <3>2. cur <= end(cur + 1)
      BY <1>1, <3>1
    <3>3. cur + 1 \in S
      BY <3>2
    <3> QED
      BY <3>3
  <2> QED
    BY <2>1, <2>2
<1>3. PICK n \in S : \A m \in S : n <= m
  <2>1. S \subseteq Nat
    OBVIOUS
  <2> HIDE DEF S
  <2> QED
    BY <1>2, <2>1, LeastOf
<1>4. /\ n \in 1..(cur + 1) /\ cur <= end(n)
      /\ \A m \in 1..(n - 1) : cur > end(m)
  <2>1. ASSUME NEW m \in 1..(n - 1) PROVE cur > end(m)
    <3>1. m \in 1..(cur + 1) /\ ~(n <= m)
      BY <1>3
    <3>2. m \notin S
      BY <1>3, <3>1
    <3>3. ~(cur <= end(m))
      BY <3>1, <3>2
    <3>4. m * rc \in Nat
      BY <1>1, <2>1
    <3> QED
      BY <1>1, <3>3, <3>4
  <2> QED
    BY <1>3, <2>1
<1> DEFINE k == CHOOSE i \in 1..(cur + 1) :
                  cur <= end(i) /\ \A m \in 1..(i - 1) : cur > end(m)
<1>5. k \in 1..(cur + 1) /\ cur <= end(k)
  <2> HIDE DEF end
  <2> QED
    BY <1>4
<1> DEFINE x   == end(k - 1)
           y   == end(k)
           new == MovesTo(cur)
<1>6. new = [scroller EXCEPT !.offset = x, !.next_offset = y]
  BY DEF MovesTo
<1> HIDE DEF k
<1>7. /\ x \in Nat /\ y \in Nat /\ x >= next /\ x + rc = y /\ cur <= y
      /\ rc = 0 => y = next
  <2>1. PICK j \in Nat : k = j + 1
    <3>1. k - 1 \in Nat /\ k = (k - 1) + 1
      BY <1>5
    <3> QED
      BY <3>1
  <2>2. j * rc \in Nat
    BY <1>1
  <2>3. (j + 1) * rc = j * rc + rc
    BY <1>1, OneMore
  <2>4. k - 1 = j
    BY <2>1
  <2>5. x = next + j * rc /\ y = next + (j * rc + rc)
    BY <2>1, <2>3, <2>4
  <2>6. rc = 0 => j * rc = 0
    BY <1>1
  <2> HIDE DEF x, y
  <2> QED
    <3> DEFINE p == j * rc
    <3>1. p \in Nat /\ x = next + p /\ y = next + (p + rc)
          /\ (rc = 0 => p = 0)
      BY <2>2, <2>5, <2>6
    <3>2. cur <= y
      BY <1>5 DEF y
    <3> HIDE DEF p, end
    <3> QED
      BY <1>1, <3>1, <3>2
<1> HIDE DEF x, y, new
<1>8. /\ new \in Scrollers
      /\ new.row_count = rc /\ new.total_rows = scroller.total_rows
      /\ new.start_offset = scroller.start_offset
      /\ new.count = scroller.count
      /\ new.offset = x /\ new.next_offset = y
  BY <1>6, <1>7 DEF Scrollers
<1>9. GoneOn(scroller, new) /\ cur <= new.next_offset
  BY <1>7, <1>8 DEF GoneOn
<1> QED
  BY <1>9 DEF new

(* What a query for the next window asks for: the scroller's numbers hold   *)
(* again, and what it brings is a window within the limit.                  *)
LEMMA NextWindowInLimit ==
    ASSUME NEW old \in Scrollers, ScrollerNumbers(old),
           NEW sc, GoneOn(old, sc), ~NothingLeft(sc)
    PROVE  /\ LastCount(sc) \in Scrollers
           /\ ScrollerNumbers(LastCount(sc))
           /\ LastCount(sc).row_count = old.row_count
           /\ LastCount(sc).total_rows = old.total_rows
           /\ LastCount(sc).start_offset = old.start_offset
           /\ LastCount(sc).offset = sc.offset
           /\ LastCount(sc).next_offset = sc.next_offset
           /\ LastCount(sc).total_rows > 0 =>
                 LastCount(sc).offset + LastCount(sc).count
                    <= old.start_offset + old.total_rows
           /\ \/ LastCount(sc).count = old.row_count
              \/ /\ old.total_rows > 0
                 /\ LastCount(sc).offset + LastCount(sc).count
                       = old.start_offset + old.total_rows
           /\ old.row_count > 0 => LastCount(sc).count > 0
<1>1. /\ sc.row_count \in Nat /\ sc.total_rows \in Nat
      /\ sc.start_offset \in Nat /\ sc.next_offset \in Nat
      /\ sc.offset \in Nat /\ sc.count \in Nat /\ sc \in Scrollers
      /\ old.row_count \in Nat /\ old.total_rows \in Nat
      /\ old.start_offset \in Nat /\ old.next_offset \in Nat
      /\ old.offset \in Nat /\ old.count \in Nat
  BY DEF GoneOn, Scrollers
<1>2. sc.offset + sc.row_count = sc.next_offset
      /\ sc.offset >= old.next_offset /\ sc.row_count = old.row_count
      /\ sc.total_rows = old.total_rows /\ sc.count = old.count
      /\ sc.start_offset = old.start_offset
      /\ (sc.row_count = 0 => sc.next_offset = old.next_offset)
  BY DEF GoneOn
<1>3. /\ old.offset + old.row_count = old.next_offset
      /\ old.start_offset <= old.offset
      /\ old.count <= old.row_count
      /\ \/ old.count = old.row_count
         \/ /\ old.total_rows > 0
            /\ old.next_offset >= old.start_offset + old.total_rows
      /\ old.row_count = 0 => /\ old.total_rows = 0
                              /\ old.next_offset = old.start_offset
  BY DEF ScrollerNumbers
<1> DEFINE new == LastCount(sc)
<1>4. CASE AtLimit(sc)
  <2>1. Left(sc) = sc.total_rows + sc.start_offset - sc.offset
    BY <1>1, <1>2 DEF Left
  <2>2. Left(sc) \in Nat \ {0}
    BY <1>1, <1>4, <2>1 DEF NothingLeft
  <2>3. sc.next_offset >= sc.total_rows + sc.start_offset
        /\ sc.total_rows > 0
    BY <1>4 DEF AtLimit
  <2> DEFINE left == Left(sc)
  <2>4. new = [sc EXCEPT !.count = left]
    BY <1>4 DEF LastCount
  <2>5. left \in Nat \ {0}
        /\ left = sc.total_rows + sc.start_offset - sc.offset
    BY <2>1, <2>2
  <2> HIDE DEF left, new
  <2>6. /\ new \in Scrollers
        /\ new.row_count = sc.row_count /\ new.total_rows = sc.total_rows
        /\ new.start_offset = sc.start_offset /\ new.count = left
        /\ new.offset = sc.offset /\ new.next_offset = sc.next_offset
    BY <1>1, <2>4, <2>5 DEF Scrollers
  <2>7. ScrollerNumbers(new)
    BY <1>1, <1>2, <1>3, <2>3, <2>5, <2>6 DEF ScrollerNumbers
  <2>8. /\ new.offset + new.count = old.start_offset + old.total_rows
        /\ old.total_rows > 0 /\ new.count > 0
    BY <1>1, <1>2, <2>3, <2>5, <2>6
  <2>9. new.offset + new.count <= old.start_offset + old.total_rows
    BY <1>1, <2>8
  <2> QED
    BY <1>2, <2>6, <2>7, <2>8, <2>9 DEF new
<1>5. CASE ~AtLimit(sc)
  <2>1. new = sc
    BY <1>5 DEF LastCount
  <2>2. sc.total_rows = 0
        \/ sc.next_offset < sc.total_rows + sc.start_offset
    BY <1>1, <1>5 DEF AtLimit
  <2>3. sc.count = sc.row_count
    BY <1>1, <1>2, <1>3, <2>2
  <2>4. ScrollerNumbers(sc)
    BY <1>1, <1>2, <1>3, <2>3 DEF ScrollerNumbers
  <2>5. sc.total_rows > 0 =>
           sc.offset + sc.count <= old.start_offset + old.total_rows
    BY <1>1, <1>2, <2>2, <2>3
  <2>6. old.row_count > 0 => sc.count > 0
    BY <1>2, <2>3
  <2> HIDE DEF new
  <2> QED
    BY <1>1, <1>2, <2>1, <2>3, <2>4, <2>5, <2>6 DEF new
<1> QED
  BY <1>4, <1>5

(* The rows the server sends for a window.                                  *)
LEMMA AnswerIsWindow ==
    ASSUME table \in Nat, NEW sc \in Scrollers
    PROVE  /\ Answer(sc) \in Windows
           /\ Answer(sc).from = sc.offset
           /\ Answer(sc).len <= sc.count
           /\ Answer(sc).len > 0 => sc.offset + Answer(sc).len <= table
           /\ \/ Answer(sc).len = sc.count
              \/ Answer(sc).len = Behind(sc.offset)
<1>1. sc.offset \in Nat /\ sc.count \in Nat
  BY DEF Scrollers
<1>2. Behind(sc.offset) \in Nat
      /\ (Behind(sc.offset) > 0 => sc.offset + Behind(sc.offset) = table)
  BY <1>1 DEF Behind
<1> DEFINE n == Min2(sc.count, Behind(sc.offset))
<1>3. /\ n \in Nat /\ n <= sc.count /\ n <= Behind(sc.offset)
      /\ n \in {sc.count, Behind(sc.offset)}
  BY <1>1, <1>2, MinIsLeast
<1>4. Answer(sc) = [from |-> sc.offset, len |-> n]
  BY DEF Answer
<1> HIDE DEF n
<1>5. /\ Answer(sc) \in Windows
      /\ Answer(sc).from = sc.offset /\ Answer(sc).len = n
  BY <1>1, <1>3, <1>4 DEF Windows
<1>6. n > 0 => sc.offset + n <= table
  BY <1>1, <1>2, <1>3
<1> QED
  BY <1>3, <1>5, <1>6

(* The end of the window in the client library.                             *)
LEMMA EndOfWindow ==
    ASSUME scroller \in Scrollers, ScrollerNumbers(scroller)
    PROVE  num_rows = window.len + scroller.offset
<1>1. /\ scroller.next_offset \in Nat /\ scroller.offset \in Nat
      /\ scroller.row_count \in Nat
  BY DEF Scrollers
<1>2. scroller.offset = IF scroller.next_offset > 0
                        THEN scroller.next_offset - scroller.row_count
                        ELSE 0
  BY <1>1 DEF ScrollerNumbers
<1> QED
  BY <1>2 DEF num_rows

-----------------------------------------------------------------------------
(***************************************************************************)
(* Where the windows lie                                                   *)
(***************************************************************************)

(* The scroller has gone on, whatever count it writes for its window.       *)
Follows(old, sc) ==
    /\ sc \in Scrollers
    /\ sc.row_count = old.row_count
    /\ sc.total_rows = old.total_rows
    /\ sc.start_offset = old.start_offset
    /\ sc.offset >= old.next_offset
    /\ ScrollerNumbers(sc)

LEMMA GoneOnFollows ==
    ASSUME NEW old \in Scrollers, ScrollerNumbers(old),
           NEW sc, GoneOn(old, sc)
    PROVE  /\ Follows(old, sc)
           /\ ~NothingLeft(sc) => Follows(old, LastCount(sc))
<1>1. /\ sc.row_count \in Nat /\ sc.total_rows \in Nat
      /\ sc.start_offset \in Nat /\ sc.next_offset \in Nat
      /\ sc.offset \in Nat /\ sc.count \in Nat
      /\ old.row_count \in Nat /\ old.total_rows \in Nat
      /\ old.start_offset \in Nat /\ old.next_offset \in Nat
      /\ old.offset \in Nat /\ old.count \in Nat
  BY DEF GoneOn, Scrollers
<1>2. ScrollerNumbers(sc)
  BY <1>1 DEF GoneOn, ScrollerNumbers
<1>3. Follows(old, sc)
  BY <1>2 DEF GoneOn, Follows
<1>4. ASSUME ~NothingLeft(sc) PROVE Follows(old, LastCount(sc))
  <2>1. LastCount(sc).offset >= old.next_offset
    BY <1>4, NextWindowInLimit DEF GoneOn
  <2> QED
    BY <1>4, <2>1, NextWindowInLimit DEF Follows
<1> QED
  BY <1>3, <1>4

(* What held of query and window still holds when the scroller has gone on. *)
LEMMA NumbersFollow ==
    ASSUME NEW old \in Scrollers, ScrollerNumbers(old),
           NEW q, QueryNumbers(q, old),
           NEW win \in Windows, WindowNumbers(old, win),
           NEW sc, Follows(old, sc)
    PROVE  /\ sc \in Scrollers
           /\ QueryNumbers(q, sc)
           /\ ScrollerNumbers(sc)
           /\ WindowNumbers(sc, win)
           /\ sc.offset >= old.next_offset
           /\ sc.offset >= old.offset
<1>1. /\ sc.offset \in Nat /\ sc.row_count \in Nat
      /\ old.offset \in Nat /\ old.row_count \in Nat
      /\ old.next_offset \in Nat /\ win.from \in Nat /\ win.len \in Nat
  BY DEF Follows, Scrollers, Windows
<1>2. sc.offset >= old.offset
  BY <1>1 DEF Follows, ScrollerNumbers
<1>3. QueryNumbers(q, sc)
  BY DEF Follows, QueryNumbers
<1>4. WindowNumbers(sc, win)
  BY <1>1, <1>2 DEF Follows, WindowNumbers
<1> QED
  BY <1>2, <1>3, <1>4 DEF Follows

(* The window a query brings is one of its scroller.                        *)
LEMMA NewWindowNumbers ==
    ASSUME table \in Nat, NEW sc \in Scrollers, ScrollerNumbers(sc),
           sc.total_rows > 0 =>
              sc.offset + sc.count <= sc.start_offset + sc.total_rows
    PROVE  WindowNumbers(sc, Answer(sc)) /\ Answer(sc) \in Windows
<1>1. /\ sc.offset \in Nat /\ sc.count \in Nat /\ sc.row_count \in Nat
      /\ sc.start_offset \in Nat /\ sc.total_rows \in Nat
  BY DEF Scrollers
<1>2. /\ Answer(sc) \in Windows /\ Answer(sc).from = sc.offset
      /\ Answer(sc).len <= sc.count /\ Answer(sc).len \in Nat
  BY AnswerIsWindow DEF Windows
<1> QED
  BY <1>1, <1>2 DEF WindowNumbers, ScrollerNumbers

LEMMA SInit == Init => SInv
<1> SUFFICES ASSUME Init PROVE SInv
  OBVIOUS
<1> DEFINE l == NoQuery.limit
<1>1. /\ l \in Clauses /\ l.form = "none" /\ NoQuery.max = 0
  BY DEF NoQuery, Clauses, LimitForms
<1>2. OffsetOf(l) = 0 /\ TotalRows(l, 0) = 0
  BY <1>1 DEF OffsetOf, TotalRows, RowCountOf
<1>3. scroller = [row_count |-> 0, total_rows |-> 0, start_offset |-> 0,
                  next_offset |-> 0, offset |-> 0, count |-> 0]
  <2> HIDE DEF l
  <2>1. scroller = scroller_create(l, 0, 0)
    BY DEF Init, l
  <2> QED
    BY <1>1, <1>2, <2>1 DEF scroller_create
<1>4. /\ scroller \in Scrollers /\ scroller.offset = 0
      /\ scroller.row_count = 0 /\ scroller.total_rows = 0
      /\ scroller.start_offset = 0 /\ scroller.next_offset = 0
      /\ scroller.count = 0
  BY <1>3 DEF Scrollers
<1>5. window \in Windows /\ window.from = 0 /\ window.len = 0
  BY DEF Init, Windows
<1>6. TypeOK
  <2>1. table \in Nat /\ array_size \in Nat \ {0}
    BY SizesAssumption DEF Init
  <2>2. query.limit \in Clauses /\ query.max \in Nat
    BY <1>1 DEF Init
  <2>3. /\ data_cursor = 0 /\ end_of_set = Freed /\ current_row = 0
        /\ rows_found_in_set = 0 /\ call = "closed" /\ res = "none"
        /\ rowset = <<>> /\ fetched = 0 /\ positioned = Nowhere
        /\ mishaps = {}
    BY DEF Init
  <2>4. rowset \in Seq(Nat) /\ positioned \in [of : Nat, row : Nat]
    BY <2>3 DEF Nowhere
  <2> QED
    BY <1>4, <1>5, <2>1, <2>2, <2>3, <2>4
       DEF TypeOK, Scrollers, Windows, Clauses
<1>7. QueryNumbers(query, scroller)
  <2>1. query.limit = l /\ query.max = 0
    BY <1>1 DEF Init
  <2> HIDE DEF l
  <2> QED
    BY <1>1, <1>2, <1>4, <2>1 DEF QueryNumbers
<1>8. ScrollerNumbers(scroller) /\ WindowNumbers(scroller, window)
  BY <1>4, <1>5 DEF ScrollerNumbers, WindowNumbers
<1>9. NextIsNear
  BY DEF Init, NextIsNear
<1> QED
  BY <1>6, <1>7, <1>8, <1>9 DEF SInv

(* The types, as facts about each variable.                                 *)
LEMMA Types ==
    TypeOK <=>
        /\ table \in Nat /\ query.limit \in Clauses /\ query.max \in Nat
        /\ scroller \in Scrollers /\ window \in Windows
        /\ data_cursor \in {Freed} \cup 0..window.len
        /\ end_of_set \in {Freed} \cup 0..window.len
        /\ array_size \in Nat \ {0} /\ current_row \in Nat
        /\ rows_found_in_set \in Nat
        /\ call \in {"closed", "idle", "fetching", "hung"}
        /\ res \in {"none", "success", "nodata", "error"}
        /\ rowset \in Seq(Nat) /\ fetched \in Nat
        /\ positioned \in [of : Nat, row : Nat]
        /\ mishaps \in SUBSET {"refused", "lost", "changes", "scrolled"}
  BY DEF TypeOK, Clauses, Scrollers, Windows

LEMMA MeetTypes ==
    ASSUME TypeOK, NEW mishap, Meet(mishap)
    PROVE  /\ mishaps' \in SUBSET {"refused", "lost", "changes", "scrolled"}
           /\ mishaps' = mishaps \cup {mishap}
  BY MishapsAssumption DEF TypeOK, Meet

(* What is known of a new query's scroller and of its first window.         *)
LEMMA FirstWindow ==
    ASSUME SInv, NEW l \in Limits, NEW m \in MaxRows, NEW p \in Prefetches,
           Execute(l, m, p)
    PROVE  /\ query' = [limit |-> l, max |-> m]
           /\ query'.limit = l /\ query'.max = m
           /\ l \in Clauses /\ m \in Nat
           /\ scroller' \in Scrollers
           /\ QueryNumbers(query', scroller')
           /\ ScrollerNumbers(scroller')
           /\ window' = Answer(scroller')
           /\ window' \in Windows
           /\ WindowNumbers(scroller', window')
           /\ scroller'.offset = scroller'.start_offset
           /\ scroller'.count = scroller'.row_count
           /\ scroller'.row_count = 0 => l.form # "none"
<1> DEFINE rows == calc_prefetch_number(p, array_size, m)
           q    == [limit |-> l, max |-> m]
           sc   == scroller_move(scroller_create(l, m, rows))
<1>1. l \in Clauses /\ m \in Nat /\ p \in Nat \ {0}
  BY SizesAssumption, LimitsAssumption DEF Clauses
<1>2. rows \in Nat \ {0} /\ (m > 0 => rows <= m)
  BY <1>1, PrefetchNumber DEF SInv, TypeOK
<1>3. q.limit = l /\ q.max = m
  OBVIOUS
<1>4. query' = q /\ scroller' = sc /\ window' = Answer(sc)
  BY DEF Execute
<1>5. /\ sc \in Scrollers /\ QueryNumbers(q, sc) /\ ScrollerNumbers(sc)
      /\ sc.offset = sc.start_offset /\ sc.count = sc.row_count
      /\ sc.total_rows > 0 => sc.count <= sc.total_rows
      /\ sc.row_count = 0 => l.form # "none"
  <2>1. sc = scroller_move(scroller_create(q.limit, q.max, rows))
    BY <1>3
  <2> HIDE DEF sc, q, rows
  <2> QED
    BY <1>1, <1>2, <1>3, <2>1, FirstScroller
<1> HIDE DEF sc, q, rows
<1>6. sc.total_rows > 0 =>
         sc.offset + sc.count <= sc.start_offset + sc.total_rows
  BY <1>5 DEF Scrollers
<1>7. WindowNumbers(sc, Answer(sc)) /\ Answer(sc) \in Windows
  BY <1>5, <1>6, NewWindowNumbers DEF SInv, TypeOK
<1>8. query' = [limit |-> l, max |-> m]
  BY <1>4 DEF q
<1> QED
  BY <1>1, <1>3, <1>4, <1>5, <1>7, <1>8

LEMMA SExecute ==
    ASSUME SInv, NEW l \in Limits, NEW m \in MaxRows, NEW p \in Prefetches,
           Execute(l, m, p)
    PROVE  SInv'
<1>1. /\ table' = table /\ array_size' = array_size /\ data_cursor' = 0
      /\ end_of_set' = Freed /\ current_row' = 0 /\ rows_found_in_set' = 0
      /\ call' = "idle" /\ res' = "none" /\ rowset' = <<>> /\ fetched' = 0
      /\ positioned' = Nowhere /\ mishaps' = {}
  BY DEF Execute
<1>2. /\ table \in Nat /\ array_size \in Nat \ {0}
  BY DEF SInv, TypeOK
<1>3. /\ query'.limit \in Clauses /\ query'.max \in Nat
      /\ scroller' \in Scrollers /\ window' \in Windows
      /\ QueryNumbers(query', scroller') /\ ScrollerNumbers(scroller')
      /\ WindowNumbers(scroller', window')
  BY FirstWindow
<1>4. TypeOK'
  <2>1. rowset' \in Seq(Nat) /\ positioned' \in [of : Nat, row : Nat]
    BY <1>1 DEF Nowhere
  <2>2. data_cursor' \in {Freed} \cup 0..window'.len
    BY <1>1, <1>3 DEF Windows
  <2> QED
    BY <1>1, <1>2, <1>3, <2>1, <2>2
       DEF TypeOK, Clauses, Scrollers, Windows
<1>5. NextIsNear'
  BY <1>1 DEF NextIsNear, NextRow
<1> QED
  BY <1>3, <1>4, <1>5 DEF SInv

(* Steps that touch neither window nor scroller nor the rows.               *)
LEMMA SOther ==
    ASSUME SInv,
           \/ \E n \in ArraySizes : SetArraySize(n)
           \/ \E n \in Tables : Change(n)
    PROVE  SInv'
<1> DEFINE Elsewhere ==
             /\ UNCHANGED <<query, scroller, window, data_cursor,
                            end_of_set, current_row, rows_found_in_set, call,
                            res, rowset, fetched, positioned>>
             /\ table' \in Nat /\ array_size' \in Nat \ {0}
             /\ mishaps' \in SUBSET {"refused", "lost", "changes",
                                     "scrolled"}
             /\ mishaps \subseteq mishaps'
<1>1. Elsewhere
  <2>1. ASSUME NEW n \in ArraySizes, SetArraySize(n) PROVE Elsewhere
    BY <2>1, SizesAssumption DEF SetArraySize, SInv, TypeOK
  <2>2. ASSUME NEW n \in Tables, Change(n) PROVE Elsewhere
    BY <2>2, SizesAssumption, MeetTypes DEF Change, SInv, TypeOK
  <2> QED
    BY <2>1, <2>2
<1>2. TypeOK'
  BY <1>1 DEF SInv, TypeOK
<1>3. NextIsNear'
  BY <1>1 DEF SInv, NextIsNear, NextRow
<1> QED
  BY <1>1, <1>2, <1>3 DEF SInv

(* The next row is never behind the window.                                 *)
LEMMA NextNotBeyond ==
    ASSUME SInv, call = "idle"
    PROVE  /\ ~Beyond(NextRow)
           /\ NextRow \in Nat
           /\ NextRow # 0 => end_of_set # Freed
<1>1. /\ NextRow \in Nat /\ scroller \in Scrollers /\ window \in Windows
      /\ end_of_set \in {Freed} \cup 0..window.len
  BY DEF SInv, TypeOK, NextRow, Scrollers, Windows
<1>2. num_rows = window.len + scroller.offset
  BY <1>1, EndOfWindow DEF SInv
<1>3. window.len \in Nat /\ scroller.offset \in Nat
  BY <1>1 DEF Scrollers, Windows
<1>4. \/ NextRow = 0
      \/ end_of_set # Freed /\ NextRow <= scroller.offset + end_of_set
  BY DEF SInv, NextIsNear
<1>5. NextRow <= window.len + scroller.offset
  BY <1>1, <1>3, <1>4 DEF Freed
<1> QED
  BY <1>1, <1>2, <1>4, <1>5 DEF Beyond

(* Where a fetch begins: at the row by number, or at the saved end, and in  *)
(* any case in the window.                                                  *)
LEMMA SeekInWindow ==
    ASSUME SInv, call = "idle", NEW cur \in Nat, NEW win \in Windows,
           NEW old_end \in {Freed} \cup 0..win.len,
           cur = NextRow => cur = 0 \/ old_end # Freed
    PROVE  /\ Seek(cur, old_end, win) \in 0..win.len
           /\ \/ cur = NextRow /\ cur # 0 /\ Seek(cur, old_end, win) = old_end
              \/ Seek(cur, old_end, win) = cur
              \/ Seek(cur, old_end, win) = win.len /\ win.len < cur
<1>1. win.len \in Nat
  BY DEF Windows
<1>2. CASE cur # 0 /\ cur = NextRow
  BY <1>1, <1>2 DEF Seek, NextRow, Freed
<1>3. CASE ~(cur # 0 /\ cur = NextRow)
  <2>1. Seek(cur, old_end, win) = Min2(cur, win.len)
    BY <1>3 DEF Seek, NextRow
  <2> QED
    BY <1>1, <2>1 DEF Min2
<1> QED
  BY <1>2, <1>3

(* A fetch begins, in the present window or in a new one.                   *)
LEMMA SBegin ==
    ASSUME SInv, call = "idle", NEW cur \in Nat, NEW old_end, NEW win,
           Begin(cur, old_end, win),
           Follows(scroller, scroller') \/ UNCHANGED scroller,
           win \in Windows, WindowNumbers(scroller', win),
           old_end \in {Freed} \cup 0..win.len,
           mishaps' \in SUBSET {"refused", "lost", "changes", "scrolled"},
           cur = NextRow => cur = 0 \/ old_end # Freed,
           \/ UNCHANGED scroller /\ win = window /\ old_end = end_of_set
              /\ cur <= scroller.offset + win.len
           \/ cur <= scroller'.next_offset /\ cur # NextRow
    PROVE  SInv'
<1>1. /\ data_cursor' = Seek(cur, old_end, win) /\ end_of_set' = old_end
      /\ window' = win /\ current_row' = cur /\ rowset' = <<>>
      /\ positioned' = Nowhere /\ call' = "fetching"
      /\ UNCHANGED <<table, query, array_size, rows_found_in_set, res,
                     fetched>>
  BY DEF Begin
<1>2. /\ scroller' \in Scrollers /\ QueryNumbers(query, scroller')
      /\ ScrollerNumbers(scroller')
  <2>1. CASE Follows(scroller, scroller')
    BY <2>1, NumbersFollow DEF SInv, TypeOK, Scrollers, Windows
  <2>2. CASE UNCHANGED scroller
    BY <2>2 DEF SInv, TypeOK, Scrollers
  <2> QED
    BY <2>1, <2>2
<1>3. /\ Seek(cur, old_end, win) \in 0..win.len
      /\ \/ cur = NextRow /\ cur # 0 /\ Seek(cur, old_end, win) = old_end
         \/ Seek(cur, old_end, win) = cur
         \/ Seek(cur, old_end, win) = win.len /\ win.len < cur
  BY SeekInWindow
<1>4. TypeOK'
  <2>1. rowset' \in Seq(Nat) /\ positioned' \in [of : Nat, row : Nat]
    BY <1>1 DEF Nowhere
  <2> QED
    BY <1>1, <1>2, <1>3, <2>1 DEF SInv, TypeOK, Scrollers, Windows
<1>5. NextIsNear'
  <2> DEFINE dc == data_cursor'
             so == scroller'.offset
  <2>1. dc \in 0..win.len /\ win.len \in Nat /\ so \in Nat
    BY <1>1, <1>2, <1>3 DEF Windows, Scrollers
  <2>2. Len(rowset') = 0
    BY <1>1
  <2>3. \/ cur <= so + dc
        \/ dc = win.len /\ cur <= scroller'.next_offset
    <3>1. CASE cur = NextRow /\ cur # 0 /\ dc = old_end
      <4>1. so = scroller.offset /\ old_end = end_of_set
        BY <3>1
      <4>2. cur <= scroller.offset + end_of_set
        BY <3>1 DEF SInv, NextIsNear
      <4> QED
        BY <3>1, <4>1, <4>2
    <3>2. CASE dc = cur
      BY <2>1, <3>2
    <3>3. CASE dc = win.len /\ win.len < cur
      <4>1. CASE UNCHANGED scroller /\ cur <= scroller.offset + win.len
        BY <3>3, <4>1
      <4>2. CASE cur <= scroller'.next_offset
        BY <3>3, <4>2
      <4> QED
        BY <4>1, <4>2
    <3> QED
      BY <1>1, <1>3, <3>1, <3>2, <3>3
  <2>4. dc # Freed
    BY <2>1 DEF Freed
  <2>5. current_row' + Len(rowset') = cur
    BY <1>1, <2>2
  <2> HIDE DEF dc, so
  <2>6. /\ dc # Freed
        /\ \/ current_row' + Len(rowset') <= so + dc
           \/ rowset' = <<>> /\ dc = win.len
              /\ current_row' <= scroller'.next_offset
    BY <1>1, <2>3, <2>4, <2>5
  <2> QED
    BY <1>1, <2>6 DEF NextIsNear, dc, so
<1> QED
  BY <1>1, <1>2, <1>4, <1>5 DEF SInv

(* A fetch is refused: the window stays, and the scroller has gone on or    *)
(* not.                                                                     *)
LEMMA SRefuse ==
    ASSUME SInv, call = "idle", NEW code, Refuse(code),
           code \in {"none", "nodata", "error"},
           Follows(scroller, scroller') \/ UNCHANGED scroller,
           UNCHANGED <<window, end_of_set>>,
           "scrolled" \in mishaps',
           mishaps' \in SUBSET {"refused", "lost", "changes", "scrolled"},
           call' \in {"idle", "hung"}
    PROVE  SInv'
<1>1. /\ res' = code /\ rowset' = <<>> /\ positioned' = Nowhere
      /\ UNCHANGED <<table, query, data_cursor, array_size, current_row,
                     rows_found_in_set, fetched>>
  BY DEF Refuse
<1>2. /\ scroller' \in Scrollers /\ QueryNumbers(query, scroller')
      /\ ScrollerNumbers(scroller') /\ WindowNumbers(scroller', window)
      /\ scroller'.offset >= scroller.offset
  <2>1. CASE Follows(scroller, scroller')
    BY <2>1, NumbersFollow DEF SInv, TypeOK, Scrollers, Windows
  <2>2. CASE UNCHANGED scroller
    BY <2>2 DEF SInv, TypeOK, Scrollers
  <2> QED
    BY <2>1, <2>2
<1>3. TypeOK'
  <2>1. rowset' \in Seq(Nat) /\ positioned' \in [of : Nat, row : Nat]
    BY <1>1 DEF Nowhere
  <2> QED
    BY <1>1, <1>2, <2>1 DEF SInv, TypeOK, Scrollers
<1>4. NextIsNear'
  <2>1. \/ NextRow = 0
        \/ end_of_set # Freed /\ NextRow <= scroller'.offset + end_of_set
    <3>1. /\ scroller.offset \in Nat /\ scroller'.offset \in Nat
          /\ end_of_set \in {Freed} \cup 0..window.len /\ NextRow \in Nat
          /\ window.len \in Nat
      BY <1>2 DEF SInv, TypeOK, Scrollers, Windows, NextRow
    <3>2. \/ NextRow = 0
          \/ end_of_set # Freed /\ NextRow <= scroller.offset + end_of_set
      BY DEF SInv, NextIsNear
    <3> QED
      BY <1>2, <3>1, <3>2 DEF Freed
  <2>2. NextRow' = NextRow
    BY <1>1 DEF NextRow
  <2> QED
    BY <2>1, <2>2 DEF NextIsNear
<1> QED
  BY <1>1, <1>2, <1>3, <1>4 DEF SInv

LEMMA SGoTo ==
    ASSUME SInv, call = "idle", NEW cur \in Nat, GoTo(cur),
           mishaps' \in SUBSET {"refused", "lost", "changes", "scrolled"},
           ~Beyond(cur) \/ "scrolled" \in mishaps'
    PROVE  SInv'
<1>1. /\ scroller \in Scrollers /\ ScrollerNumbers(scroller)
      /\ window \in Windows /\ table \in Nat
      /\ end_of_set \in {Freed} \cup 0..window.len
      /\ WindowNumbers(scroller, window)
  BY DEF SInv, TypeOK, Scrollers, Windows
<1>2. num_rows = window.len + scroller.offset
  BY <1>1, EndOfWindow
<1>3. CASE ~Beyond(cur) /\ Begin(cur, end_of_set, window)
           /\ UNCHANGED scroller
  <2>1. cur <= scroller.offset + window.len
    BY <1>1, <1>2, <1>3 DEF Beyond, Scrollers, Windows
  <2>2. cur = NextRow => cur = 0 \/ end_of_set # Freed
    BY NextNotBeyond
  <2>3. WindowNumbers(scroller', window)
    BY <1>1, <1>3
  <2> QED
    BY <1>1, <1>3, <2>1, <2>2, <2>3, SBegin
<1>4. CASE Beyond(cur) /\ NeverReached(cur) /\ call' = "hung"
           /\ UNCHANGED <<scroller, window, end_of_set>> /\ Refuse("none")
  BY <1>4, SRefuse
<1> DEFINE sc == MovesTo(cur)
<1>5. ASSUME Beyond(cur), ~NeverReached(cur)
      PROVE  /\ GoneOn(scroller, sc) /\ cur <= sc.next_offset
             /\ Follows(scroller, sc)
             /\ ~NothingLeft(sc) => Follows(scroller, LastCount(sc))
  <2>1. GoneOn(scroller, sc) /\ cur <= sc.next_offset
    BY <1>1, <1>5, MovesToGoesOn
  <2> QED
    BY <1>1, <2>1, GoneOnFollows
<1>6. CASE /\ Beyond(cur) /\ ~NeverReached(cur) /\ NothingLeft(sc)
           /\ scroller' = sc /\ UNCHANGED <<window, end_of_set, call>>
           /\ Refuse("nodata")
  <2>1. Follows(scroller, scroller')
    BY <1>5, <1>6
  <2> QED
    BY <1>6, <2>1, SRefuse
<1>7. CASE /\ Beyond(cur) /\ ~NeverReached(cur) /\ ~NothingLeft(sc)
           /\ scroller' = LastCount(sc)
           /\ Begin(cur, Freed, Answer(scroller'))
  <2> HIDE DEF sc
  <2> DEFINE win == Answer(LastCount(sc))
  <2>1. Follows(scroller, scroller')
    BY <1>5, <1>7
  <2>2. /\ scroller' \in Scrollers /\ ScrollerNumbers(scroller')
        /\ scroller'.next_offset = sc.next_offset
        /\ scroller'.total_rows > 0 =>
              scroller'.offset + scroller'.count
                 <= scroller'.start_offset + scroller'.total_rows
    <3>1. GoneOn(scroller, sc)
      BY <1>5, <1>7
    <3> QED
      BY <1>1, <1>7, <3>1, NextWindowInLimit
  <2>3. WindowNumbers(scroller', win) /\ win \in Windows
    BY <1>1, <1>7, <2>2, NewWindowNumbers
  <2>4. cur # NextRow
    BY <1>7, NextNotBeyond
  <2>5. cur <= scroller'.next_offset
    BY <1>5, <1>7, <2>2
  <2>6. Freed \in {Freed} \cup 0..win.len
    OBVIOUS
  <2>7. Begin(cur, Freed, win)
    BY <1>7
  <2> HIDE DEF win
  <2> QED
    BY <2>1, <2>3, <2>4, <2>5, <2>6, <2>7, SBegin
<1>8. CASE /\ Beyond(cur) /\ ~NeverReached(cur) /\ ~NothingLeft(sc)
           /\ scroller' = LastCount(sc)
           /\ UNCHANGED <<window, end_of_set, call>> /\ Refuse("error")
  <2>1. Follows(scroller, scroller')
    BY <1>5, <1>8
  <2> QED
    BY <1>8, <2>1, SRefuse
<1> QED
  BY <1>3, <1>4, <1>6, <1>7, <1>8 DEF GoTo

LEMMA SFetch ==
    ASSUME SInv, FetchNext \/ \E irow \in Positions : FetchAbsolute(irow)
    PROVE  SInv'
<1>1. CASE FetchNext
  <2>1. NextRow \in Nat /\ ~Beyond(NextRow) /\ GoTo(NextRow)
        /\ call = "idle" /\ mishaps' = mishaps
    BY <1>1, NextNotBeyond DEF FetchNext
  <2>2. mishaps' \in SUBSET {"refused", "lost", "changes", "scrolled"}
    BY <2>1 DEF SInv, TypeOK
  <2> QED
    BY <2>1, <2>2, SGoTo
<1>2. ASSUME NEW irow \in Positions, FetchAbsolute(irow) PROVE SInv'
  <2>1. irow - 1 \in Nat
    BY SizesAssumption
  <2>2. /\ call = "idle" /\ GoTo(irow - 1) /\ "scrolled" \in mishaps'
        /\ mishaps' \in SUBSET {"refused", "lost", "changes", "scrolled"}
    BY <1>2, MeetTypes DEF FetchAbsolute, SInv
  <2> QED
    BY <2>1, <2>2, SGoTo
<1> QED
  BY <1>1, <1>2

LEMMA SReadRow ==
    ASSUME SInv, ReadRow
    PROVE  SInv'
<1>1. /\ call = "fetching" /\ data_cursor # Freed
      /\ data_cursor < window.len
      /\ rowset' = Append(rowset, window.from + data_cursor + 1)
      /\ fetched' = fetched + 1 /\ data_cursor' = data_cursor + 1
      /\ UNCHANGED <<table, query, scroller, window, end_of_set, array_size,
                     current_row, rows_found_in_set, call, res, positioned,
                     mishaps>>
  BY DEF ReadRow
<1>2. /\ data_cursor \in 0..window.len /\ window.len \in Nat
      /\ window.from \in Nat /\ rowset \in Seq(Nat) /\ fetched \in Nat
      /\ scroller.offset \in Nat /\ current_row \in Nat
  BY <1>1 DEF SInv, TypeOK
<1>3. window.from + data_cursor + 1 \in Nat
  BY <1>2
<1>4. rowset' \in Seq(Nat) /\ Len(rowset') = Len(rowset) + 1
  BY <1>1, <1>2, <1>3
<1>5. TypeOK'
  BY <1>1, <1>2, <1>4, SMTT(30) DEF SInv, TypeOK
<1>6. NextIsNear'
  <2>1. current_row + Len(rowset) <= scroller.offset + data_cursor
    BY <1>1, <1>2 DEF SInv, NextIsNear
  <2>2. Len(rowset) \in Nat
    BY <1>2
  <2>3. current_row + Len(rowset') <= scroller.offset + data_cursor'
    BY <1>1, <1>2, <1>4, <2>1, <2>2
  <2>4. data_cursor' # Freed
    BY <1>1, <1>2 DEF Freed
  <2> QED
    BY <1>1, <2>3, <2>4 DEF NextIsNear
<1> QED
  BY <1>1, <1>5, <1>6 DEF SInv

(* What a fetch returns with, and the place it saves.                       *)
LEMMA ReturnTypes ==
    ASSUME NEW found, NEW cursor, NEW disconnected \in BOOLEAN,
           Return(found, cursor, disconnected)
    PROVE  /\ rows_found_in_set' = found /\ end_of_set' = cursor
           /\ call' = "idle"
           /\ res' \in {"success", "error", "nodata"}
           /\ res' = "nodata" => found = 0 /\ ~disconnected
  BY DEF Return, SavePosition

(* A fetch ends behind the window it was in.                                *)
LEMMA SReturn ==
    ASSUME SInv, call = "fetching",
           NEW disconnected \in BOOLEAN,
           Return(Len(rowset), data_cursor, disconnected),
           UNCHANGED <<table, query, window, data_cursor, array_size,
                       current_row, rowset, fetched, positioned>>,
           \/ UNCHANGED scroller /\ Len(rowset) > 0
           \/ Follows(scroller, scroller'),
           mishaps' \in SUBSET {"refused", "lost", "changes", "scrolled"}
    PROVE  SInv'
<1>1. /\ rows_found_in_set' = Len(rowset) /\ end_of_set' = data_cursor
      /\ call' = "idle" /\ res' \in {"success", "error", "nodata"}
  BY ReturnTypes
<1>2. /\ scroller' \in Scrollers /\ QueryNumbers(query, scroller')
      /\ ScrollerNumbers(scroller') /\ WindowNumbers(scroller', window)
      /\ scroller'.offset >= scroller.offset
      /\ \/ scroller'.offset >= scroller.next_offset
         \/ Len(rowset) > 0
  <2>1. CASE Follows(scroller, scroller')
    BY <2>1, NumbersFollow DEF SInv, TypeOK, Scrollers, Windows
  <2>2. CASE UNCHANGED scroller /\ Len(rowset) > 0
    BY <2>2 DEF SInv, TypeOK, Scrollers
  <2> QED
    BY <2>1, <2>2
<1>3. TypeOK'
  <2>1. Len(rowset) \in Nat
    BY DEF SInv, TypeOK
  <2>2. /\ rows_found_in_set' \in Nat
        /\ end_of_set' \in {Freed} \cup 0..window'.len
        /\ call' \in {"closed", "idle", "fetching", "hung"}
        /\ res' \in {"none", "success", "nodata", "error"}
    BY <1>1, <2>1 DEF SInv, TypeOK
  <2>3. /\ table' \in Nat /\ query'.limit \in Clauses /\ query'.max \in Nat
        /\ window' \in Windows
        /\ data_cursor' \in {Freed} \cup 0..window'.len
        /\ array_size' \in Nat \ {0} /\ current_row' \in Nat
        /\ rowset' \in Seq(Nat) /\ fetched' \in Nat
        /\ positioned' \in [of : Nat, row : Nat]
    BY DEF SInv, TypeOK, Clauses, Windows
  <2> QED
    BY <1>2, <2>2, <2>3 DEF TypeOK, Scrollers, Clauses, Windows
<1>4. NextIsNear'
  <2>1. /\ scroller.offset \in Nat /\ scroller'.offset \in Nat
        /\ scroller.next_offset \in Nat
        /\ data_cursor \in 0..window.len /\ window.len \in Nat
        /\ current_row \in Nat /\ Len(rowset) \in Nat
        /\ data_cursor # Freed
    BY <1>2 DEF SInv, TypeOK, Scrollers, Windows, NextIsNear
  <2>2. \/ current_row + Len(rowset) <= scroller.offset + data_cursor
        \/ Len(rowset) = 0 /\ current_row <= scroller.next_offset
    BY DEF SInv, NextIsNear
  <2>3. current_row + Len(rowset) <= scroller'.offset + data_cursor
    BY <1>2, <2>1, <2>2
  <2>4. NextRow' <= scroller'.offset + end_of_set' /\ end_of_set' # Freed
    BY <1>1, <2>1, <2>3 DEF NextRow
  <2> QED
    BY <1>1, <2>4 DEF NextIsNear
<1> QED
  BY <1>2, <1>3, <1>4 DEF SInv

LEMMA SFull ==
    ASSUME SInv, Full
    PROVE  SInv'
<1>1. /\ call = "fetching" /\ Len(rowset) = array_size
      /\ Return(Len(rowset), data_cursor, "lost" \in mishaps)
      /\ UNCHANGED <<table, query, scroller, window, data_cursor, array_size,
                     current_row, rowset, fetched, positioned, mishaps>>
  BY DEF Full
<1>2. /\ Len(rowset) > 0
      /\ mishaps' \in SUBSET {"refused", "lost", "changes", "scrolled"}
  BY <1>1 DEF SInv, TypeOK
<1>3. ("lost" \in mishaps) \in BOOLEAN
  OBVIOUS
<1> QED
  BY <1>1, <1>2, <1>3, SReturn

LEMMA SEndAtLimit ==
    ASSUME SInv, EndAtLimit
    PROVE  SInv'
<1> DEFINE sc == scroller_move(scroller)
<1>1. /\ call = "fetching" /\ NothingLeft(sc) /\ scroller' = sc
      /\ Return(Len(rowset), data_cursor, "lost" \in mishaps)
      /\ UNCHANGED <<table, query, window, data_cursor, array_size,
                     current_row, rowset, fetched, positioned, mishaps>>
  BY DEF EndAtLimit, UsedUp
<1>2. Follows(scroller, sc)
  <2>1. scroller \in Scrollers /\ ScrollerNumbers(scroller)
    BY DEF SInv, TypeOK, Scrollers
  <2> QED
    BY <2>1, MoveGoesOn, GoneOnFollows
<1>3. mishaps' \in SUBSET {"refused", "lost", "changes", "scrolled"}
  BY <1>1 DEF SInv, TypeOK
<1>4. ("lost" \in mishaps) \in BOOLEAN
  OBVIOUS
<1> HIDE DEF sc
<1> QED
  BY <1>1, <1>2, <1>3, <1>4, SReturn

LEMMA QueryFailsTypes ==
    ASSUME TypeOK, QueryFails
    PROVE  /\ mishaps' \in SUBSET {"refused", "lost", "changes", "scrolled"}
           /\ mishaps \subseteq mishaps'
           /\ "lost" \in mishaps' \/ "refused" \in mishaps'
           /\ mishaps' \subseteq mishaps \cup {"lost", "refused"}
<1>1. CASE "lost" \in mishaps /\ UNCHANGED mishaps
  BY <1>1 DEF TypeOK
<1>2. CASE Meet("refused")
  BY <1>2, MeetTypes
<1>3. CASE Meet("lost")
  BY <1>3, MeetTypes
<1> QED
  BY <1>1, <1>2, <1>3 DEF QueryFails

LEMMA SWindowFails ==
    ASSUME SInv, WindowFails
    PROVE  SInv'
<1> DEFINE sc == scroller_move(scroller)
<1>1. /\ call = "fetching" /\ ~NothingLeft(sc) /\ scroller' = LastCount(sc)
      /\ Return(Len(rowset), data_cursor, "lost" \in mishaps')
      /\ UNCHANGED <<table, query, window, data_cursor, array_size,
                     current_row, rowset, fetched, positioned>>
      /\ QueryFails
  BY DEF WindowFails, UsedUp
<1>2. Follows(scroller, LastCount(sc))
  <2>1. scroller \in Scrollers /\ ScrollerNumbers(scroller)
    BY DEF SInv, TypeOK, Scrollers
  <2> QED
    BY <1>1, <2>1, MoveGoesOn, GoneOnFollows
<1>3. mishaps' \in SUBSET {"refused", "lost", "changes", "scrolled"}
  BY <1>1, QueryFailsTypes DEF SInv
<1>4. ("lost" \in mishaps') \in BOOLEAN
  OBVIOUS
<1> HIDE DEF sc
<1> QED
  BY <1>1, <1>2, <1>3, <1>4, SReturn

(* The window a fetch goes on to.                                           *)
LEMMA NextWindowEffect ==
    ASSUME SInv, NextWindow
    PROVE  /\ call = "fetching" /\ Len(rowset) < array_size
           /\ data_cursor = window.len /\ "lost" \notin mishaps
           /\ ~NothingLeft(scroller_move(scroller))
           /\ Follows(scroller, scroller')
           /\ scroller'.offset = scroller.next_offset
           /\ window' = Answer(scroller') /\ window' \in Windows
           /\ window'.from = scroller.next_offset
           /\ WindowNumbers(scroller', window')
           /\ \/ scroller'.count = scroller.row_count
              \/ /\ scroller.total_rows > 0
                 /\ scroller'.offset + scroller'.count
                       = scroller.start_offset + scroller.total_rows
           /\ scroller.row_count > 0 => scroller'.count > 0
           /\ UNCHANGED <<table, query, array_size, current_row, positioned,
                          mishaps>>
           /\ \/ /\ window'.len = 0 /\ data_cursor' = 0
                 /\ Return(Len(rowset), 0, FALSE)
                 /\ UNCHANGED <<rowset, fetched>>
              \/ /\ window'.len > 0 /\ data_cursor' = 1
                 /\ end_of_set' = Freed
                 /\ rowset' = Append(rowset, scroller.next_offset + 1)
                 /\ fetched' = fetched + 1
                 /\ UNCHANGED <<rows_found_in_set, call, res>>
<1> DEFINE mv == scroller_move(scroller)
           sc == LastCount(mv)
<1>1. /\ call = "fetching" /\ Len(rowset) < array_size
      /\ data_cursor = window.len /\ "lost" \notin mishaps
      /\ ~NothingLeft(mv) /\ scroller' = sc /\ window' = Answer(sc)
      /\ UNCHANGED <<table, query, array_size, current_row, positioned,
                     mishaps>>
  BY DEF NextWindow, UsedUp, QueryWorks
<1>2. \/ /\ window'.len = 0 /\ data_cursor' = 0
         /\ Return(Len(rowset), 0, FALSE)
         /\ UNCHANGED <<rowset, fetched>>
      \/ /\ window'.len # 0 /\ data_cursor' = 1
         /\ end_of_set' = Freed
         /\ rowset' = Append(rowset, scroller'.offset + 1)
         /\ fetched' = fetched + 1
         /\ UNCHANGED <<rows_found_in_set, call, res>>
  <2>1. CASE Answer(sc).len = 0
    BY <2>1, <1>1 DEF NextWindow
  <2>2. CASE Answer(sc).len # 0
    BY <2>2, <1>1 DEF NextWindow
  <2> QED
    BY <2>1, <2>2
<1>3. scroller \in Scrollers /\ ScrollerNumbers(scroller) /\ table \in Nat
  BY DEF SInv, TypeOK, Scrollers
<1>4. GoneOn(scroller, mv) /\ mv.offset = scroller.next_offset
  BY <1>3, MoveGoesOn
<1> HIDE DEF mv
<1>5. /\ Follows(scroller, sc) /\ sc.offset = scroller.next_offset
      /\ sc \in Scrollers /\ ScrollerNumbers(sc)
      /\ sc.total_rows > 0 =>
            sc.offset + sc.count <= sc.start_offset + sc.total_rows
      /\ \/ sc.count = scroller.row_count
         \/ /\ scroller.total_rows > 0
            /\ sc.offset + sc.count
                  = scroller.start_offset + scroller.total_rows
      /\ scroller.row_count > 0 => sc.count > 0
  BY <1>1, <1>3, <1>4, GoneOnFollows, NextWindowInLimit
<1> HIDE DEF sc
<1>6. /\ Answer(sc) \in Windows /\ WindowNumbers(sc, Answer(sc))
      /\ Answer(sc).from = sc.offset
  BY <1>3, <1>5, NewWindowNumbers, AnswerIsWindow
<1>7. window'.len \in Nat
  BY <1>1, <1>6 DEF Windows
<1>8. scroller'.offset = scroller.next_offset
  BY <1>1, <1>5
<1>9. \/ /\ window'.len = 0 /\ data_cursor' = 0
         /\ Return(Len(rowset), 0, FALSE)
         /\ UNCHANGED <<rowset, fetched>>
      \/ /\ window'.len > 0 /\ data_cursor' = 1
         /\ end_of_set' = Freed
         /\ rowset' = Append(rowset, scroller.next_offset + 1)
         /\ fetched' = fetched + 1
         /\ UNCHANGED <<rows_found_in_set, call, res>>
  <2>1. window'.len # 0 => window'.len > 0
    BY <1>7
  <2> QED
    BY <1>2, <1>8, <2>1, Zenon
<1> QED
  BY <1>1, <1>5, <1>6, <1>9 DEF mv

(* A row of the window a fetch goes on in is behind the windows before.     *)
LEMMA SNextWindow ==
    ASSUME SInv, NextWindow
    PROVE  SInv'
<1>1. /\ call = "fetching" /\ data_cursor = window.len
      /\ Follows(scroller, scroller')
      /\ scroller'.offset = scroller.next_offset
      /\ window' \in Windows /\ WindowNumbers(scroller', window')
      /\ UNCHANGED <<table, query, array_size, current_row, positioned,
                     mishaps>>
  BY NextWindowEffect
<1>2. \/ /\ window'.len = 0 /\ data_cursor' = 0
         /\ Return(Len(rowset), 0, FALSE)
         /\ UNCHANGED <<rowset, fetched>>
      \/ /\ window'.len > 0 /\ data_cursor' = 1
         /\ end_of_set' = Freed
         /\ rowset' = Append(rowset, scroller.next_offset + 1)
         /\ fetched' = fetched + 1
         /\ UNCHANGED <<rows_found_in_set, call, res>>
  BY NextWindowEffect
<1>3. /\ scroller' \in Scrollers /\ QueryNumbers(query, scroller')
      /\ ScrollerNumbers(scroller')
  BY <1>1, NumbersFollow DEF SInv, TypeOK, Scrollers, Windows
<1>4. /\ scroller.next_offset \in Nat /\ scroller.offset \in Nat
      /\ scroller.row_count \in Nat /\ window.len \in Nat
      /\ window'.len \in Nat /\ current_row \in Nat
      /\ rowset \in Seq(Nat) /\ Len(rowset) \in Nat
  BY <1>1 DEF SInv, TypeOK, Windows
<1>5. current_row + Len(rowset) <= scroller.next_offset
  <2>1. scroller.offset + window.len <= scroller.next_offset
    BY <1>4 DEF SInv, ScrollerNumbers, WindowNumbers
  <2>2. \/ current_row + Len(rowset) <= scroller.offset + window.len
        \/ Len(rowset) = 0 /\ current_row <= scroller.next_offset
    BY <1>1 DEF SInv, NextIsNear
  <2> QED
    BY <1>4, <2>1, <2>2
<1>6. CASE /\ window'.len = 0 /\ data_cursor' = 0
           /\ Return(Len(rowset), 0, FALSE)
           /\ UNCHANGED <<rowset, fetched>>
  <2>1. /\ rows_found_in_set' = Len(rowset) /\ end_of_set' = 0
        /\ call' = "idle" /\ res' \in {"success", "error", "nodata"}
    BY <1>6, ReturnTypes
  <2>2. TypeOK'
    <3>1. /\ rows_found_in_set' \in Nat
          /\ end_of_set' \in {Freed} \cup 0..window'.len
          /\ data_cursor' \in {Freed} \cup 0..window'.len
          /\ call' \in {"closed", "idle", "fetching", "hung"}
          /\ res' \in {"none", "success", "nodata", "error"}
      BY <1>4, <1>6, <2>1
    <3>2. /\ table' \in Nat /\ query'.limit \in Clauses
          /\ query'.max \in Nat
          /\ array_size' \in Nat \ {0} /\ current_row' \in Nat
          /\ rowset' \in Seq(Nat) /\ fetched' \in Nat
          /\ positioned' \in [of : Nat, row : Nat]
          /\ mishaps' \in SUBSET {"refused", "lost", "changes", "scrolled"}
      BY <1>1, <1>6 DEF SInv, TypeOK, Clauses
    <3> QED
      BY <1>1, <1>3, <3>1, <3>2 DEF TypeOK, Scrollers, Clauses, Windows
  <2>3. NextRow' <= scroller'.offset + end_of_set' /\ end_of_set' # Freed
    BY <1>1, <1>4, <1>5, <2>1 DEF NextRow, Freed
  <2>4. NextIsNear'
    BY <2>1, <2>3 DEF NextIsNear
  <2> QED
    BY <1>1, <1>3, <2>2, <2>4 DEF SInv
<1>7. CASE /\ window'.len > 0 /\ data_cursor' = 1
           /\ end_of_set' = Freed
           /\ rowset' = Append(rowset, scroller.next_offset + 1)
           /\ fetched' = fetched + 1
           /\ UNCHANGED <<rows_found_in_set, call, res>>
  <2>1. rowset' \in Seq(Nat) /\ Len(rowset') = Len(rowset) + 1
    BY <1>4, <1>7
  <2>2. TypeOK'
    <3>1. /\ end_of_set' \in {Freed} \cup 0..window'.len
          /\ data_cursor' \in {Freed} \cup 0..window'.len
      BY <1>4, <1>7
    <3>2. /\ table' \in Nat /\ query'.limit \in Clauses
          /\ query'.max \in Nat /\ rows_found_in_set' \in Nat
          /\ array_size' \in Nat \ {0} /\ current_row' \in Nat
          /\ fetched' \in Nat
          /\ call' \in {"closed", "idle", "fetching", "hung"}
          /\ res' \in {"none", "success", "nodata", "error"}
          /\ positioned' \in [of : Nat, row : Nat]
          /\ mishaps' \in SUBSET {"refused", "lost", "changes", "scrolled"}
      BY <1>1, <1>7 DEF SInv, TypeOK, Clauses
    <3> QED
      BY <1>1, <1>3, <2>1, <3>1, <3>2
         DEF TypeOK, Scrollers, Clauses, Windows
  <2>3. /\ current_row' + Len(rowset') <= scroller'.offset + data_cursor'
        /\ data_cursor' # Freed
    BY <1>1, <1>4, <1>5, <1>7, <2>1 DEF Freed
  <2>4. NextIsNear'
    BY <1>1, <1>7, <2>3 DEF NextIsNear
  <2> QED
    BY <1>1, <1>3, <2>2, <2>4 DEF SInv
<1> QED
  BY <1>2, <1>6, <1>7

LEMMA SSetPos ==
    ASSUME SInv, NEW irow \in ArraySizes, SetPos(irow)
    PROVE  SInv'
<1> DEFINE row == CursorRow(irow)
<1>1. /\ call = "idle" /\ irow \in 1..rows_found_in_set
      /\ data_cursor' = Min2(row, window.len)
      /\ positioned' = [of |-> irow,
                        row |-> IF row \in 0..(window.len - 1)
                                THEN window.from + row + 1 ELSE 0]
      /\ UNCHANGED <<table, query, scroller, window, end_of_set, array_size,
                     current_row, rows_found_in_set, call, res, rowset,
                     fetched, mishaps>>
  BY DEF SetPos
<1>2. /\ rows_found_in_set \in Nat /\ current_row \in Nat
      /\ window.len \in Nat /\ window.from \in Nat
  BY DEF SInv, TypeOK
<1>3. row \in Nat
  BY <1>1, <1>2 DEF CursorRow
<1>4. data_cursor' \in 0..window.len
  BY <1>1, <1>2, <1>3 DEF Min2
<1>5. positioned' \in [of : Nat, row : Nat]
  <2> DEFINE r == IF row \in 0..(window.len - 1)
                  THEN window.from + row + 1 ELSE 0
  <2>1. r \in Nat
    BY <1>2, <1>3
  <2> HIDE DEF r, row
  <2>2. positioned' = [of |-> irow, row |-> r]
    BY <1>1 DEF r
  <2> QED
    BY <1>1, <1>2, <2>1, <2>2
<1>6. TypeOK'
  BY <1>1, <1>4, <1>5 DEF SInv, TypeOK
<1>7. NextIsNear'
  BY <1>1 DEF SInv, NextIsNear, NextRow
<1> QED
  BY <1>1, <1>6, <1>7 DEF SInv

LEMMA SStep == SInv /\ [Next]_vars => SInv'
<1> SUFFICES ASSUME SInv, [Next]_vars PROVE SInv'
  OBVIOUS
<1>1. CASE \E l \in Limits, m \in MaxRows, p \in Prefetches :
              Execute(l, m, p)
  BY <1>1, SExecute
<1>2. CASE \/ \E n \in ArraySizes : SetArraySize(n)
           \/ \E n \in Tables : Change(n)
  BY <1>2, SOther
<1>3. CASE FetchNext \/ \E irow \in Positions : FetchAbsolute(irow)
  BY <1>3, SFetch
<1>4. CASE ReadRow
  BY <1>4, SReadRow
<1>5. CASE Full
  BY <1>5, SFull
<1>6. CASE EndAtLimit
  BY <1>6, SEndAtLimit
<1>7. CASE WindowFails
  BY <1>7, SWindowFails
<1>8. CASE NextWindow
  BY <1>8, SNextWindow
<1>9. CASE \E irow \in ArraySizes : SetPos(irow)
  BY <1>9, SSetPos
<1>10. CASE UNCHANGED vars
  BY <1>10 DEF vars, SInv, TypeOK, NextIsNear, NextRow
<1> QED
  BY <1>1, <1>2, <1>3, <1>4, <1>5, <1>6, <1>7, <1>8, <1>9, <1>10 DEF Next

LEMMA ScrollerInvariant == Spec => []SInv
  BY SInit, SStep, PTL DEF Spec

-----------------------------------------------------------------------------
(***************************************************************************)
(* What the application gets                                               *)
(***************************************************************************)

(* Where in the window the application has got to.                          *)
Place == IF call = "fetching" THEN data_cursor
         ELSE IF fetched = 0 THEN 0 ELSE end_of_set

(* An application that only fetches forward: the driver's row numbers count *)
(* the rows it has had, and these end where the window has been read to.    *)
ForwardNumbers ==
    "scrolled" \notin mishaps =>
        /\ call = "idle" => /\ NextRow = fetched
                            /\ rows_found_in_set = Len(rowset)
                            /\ fetched # 0 => end_of_set # Freed
        /\ call = "fetching" => /\ current_row + Len(rowset) = fetched
                                /\ fetched = 0 => data_cursor = 0
        /\ call # "closed" =>
              scroller.start_offset + fetched <= window.from + Place

(* The window in the client library is the one the scroller stands at.      *)
Live ==
    /\ window = Answer(scroller)
    /\ \/ scroller.count = scroller.row_count
       \/ /\ scroller.total_rows > 0
          /\ scroller.offset + scroller.count
                = scroller.start_offset + scroller.total_rows

(* When nothing happens but that the connection may be lost: what has been  *)
(* delivered ends where the window has been read to, or the result does.    *)
Undisturbed == mishaps \subseteq {"lost"} /\ call # "closed"
ExactNumbers ==
    Undisturbed =>
        /\ scroller.row_count = 0 => query.limit.form # "none"
        /\ window.len > 0 => window.from + window.len <= table
        /\ \/ scroller.start_offset + fetched = window.from + Place
           \/ window.len = 0 /\ fetched = ResultRows
        /\ Live \/ "lost" \in mishaps \/ fetched = ResultRows
        /\ fetched <= ResultRows

(* Nothing is delivered before there is a query, and a position is one in   *)
(* the rowset last delivered.                                               *)
Quiet ==
    /\ call = "closed" => res = "none" /\ rowset = <<>>
    /\ call \in {"closed", "fetching"} => positioned = Nowhere

FInv ==
    /\ query.limit.form # "offset"
    /\ ForwardNumbers /\ ExactNumbers /\ Quiet
    /\ RowsInOrder /\ NoDataMeansEnd /\ PositionInFirstWindow

(* A LIMIT clause that is read as it is meant.                              *)
LEMMA MeantAsRead ==
    ASSUME NEW l \in Clauses, l.form # "offset"
    PROVE  /\ MeantOffset(l) = OffsetOf(l)
           /\ l.form # "none" => MeantCount(l) = RowCountOf(l)
           /\ OffsetOf(l) \in Nat /\ RowCountOf(l) \in Nat
           /\ MeantCount(l) \in Nat
<1>1. l.form \in {"none", "count", "comma"} /\ l.first \in Nat
      /\ l.second \in Nat
  BY DEF Clauses, LimitForms
<1>2. CASE l.form = "none"
  BY <1>1, <1>2 DEF MeantOffset, OffsetOf, RowCountOf, MeantCount
<1>3. CASE l.form = "count"
  BY <1>1, <1>3 DEF MeantOffset, OffsetOf, RowCountOf, MeantCount
<1>4. CASE l.form = "comma"
  BY <1>1, <1>4 DEF MeantOffset, OffsetOf, RowCountOf, MeantCount
<1> QED
  BY <1>1, <1>2, <1>3, <1>4

(* The scroller's total, and how many of n rows a query may return.         *)
LEMMA TotalIsLimit ==
    ASSUME NEW q, q.limit \in Clauses, q.max \in Nat,
           q.limit.form # "offset"
    PROVE  /\ TotalRows(q.limit, q.max) \in Nat
           /\ TotalRows(q.limit, q.max) > 0 =>
                 /\ q.limit.form # "none" =>
                       TotalRows(q.limit, q.max) <= MeantCount(q.limit)
                 /\ q.max # 0 => TotalRows(q.limit, q.max) <= q.max
           /\ TotalRows(q.limit, q.max) = 0 =>
                 /\ q.limit.form # "none" => MeantCount(q.limit) = 0
                 /\ q.limit.form = "none" => q.max = 0
<1> DEFINE l == q.limit
           m == q.max
           c == MeantCount(l)
           t == TotalRows(l, m)
<1>1. /\ m \in Nat /\ c \in Nat
      /\ l.form # "none" => c = RowCountOf(l)
      /\ l.form = "none" => RowCountOf(l) = 0
  BY MeantAsRead DEF RowCountOf
<1>2. CASE l.form = "none"
  <2>1. t = m
    BY <1>1, <1>2 DEF TotalRows
  <2> HIDE DEF t, c
  <2> QED
    BY <1>1, <1>2, <2>1 DEF t, c
<1>3. CASE l.form # "none" /\ m = 0
  <2>1. t = c
    BY <1>1, <1>3 DEF TotalRows
  <2> HIDE DEF t, c
  <2> QED
    BY <1>1, <1>3, <2>1 DEF t, c
<1>4. CASE l.form # "none" /\ m # 0
  <2>1. t = Min2(c, m)
    BY <1>1, <1>4 DEF TotalRows
  <2>2. t \in {c, m} /\ t <= c /\ t <= m
    BY <1>1, <2>1, MinIsLeast
  <2> HIDE DEF t, c
  <2> QED
    BY <1>1, <1>4, <2>2 DEF t, c
<1> QED
  BY <1>2, <1>3, <1>4

LEMMA AllowedRows ==
    ASSUME NEW q, q.limit \in Clauses, q.max \in Nat,
           q.limit.form # "offset", NEW k \in Nat
    PROVE  /\ Allowed(q, k) \in Nat
           /\ Allowed(q, k) <= k
           /\ TotalRows(q.limit, q.max) > 0 =>
                 Allowed(q, k) <= TotalRows(q.limit, q.max)
           /\ (TotalRows(q.limit, q.max) = 0 /\ q.limit.form # "none") =>
                 Allowed(q, k) = 0
           /\ \A x \in Nat :
                 (/\ x <= k
                  /\ TotalRows(q.limit, q.max) > 0 =>
                        x <= TotalRows(q.limit, q.max)
                  /\ TotalRows(q.limit, q.max) = 0 => q.limit.form = "none")
                 => x <= Allowed(q, k)
<1> DEFINE l == q.limit
           m == q.max
           c == MeantCount(l)
           t == TotalRows(l, m)
           s == IF l.form = "none" THEN k ELSE Min2(k, c)
           a == Allowed(q, k)
<1>1. /\ m \in Nat /\ c \in Nat
      /\ l.form # "none" => c = RowCountOf(l)
      /\ l.form = "none" => RowCountOf(l) = 0
  BY MeantAsRead DEF RowCountOf
<1>2. s \in Nat /\ s <= k /\ (l.form # "none" => s <= c)
      /\ (l.form = "none" => s = k) /\ s \in {k, c}
  <2>1. l.form # "none" => s \in {k, c} /\ s <= k /\ s <= c
    BY <1>1, MinIsLeast
  <2>2. l.form = "none" => s = k
    OBVIOUS
  <2> HIDE DEF s, c
  <2> QED
    BY <1>1, <2>1, <2>2
<1>3. a = IF m = 0 THEN s ELSE Min2(s, m)
  BY DEF Allowed
<1>4. a \in Nat /\ a <= s /\ (m # 0 => a <= m)
      /\ (m = 0 => a = s) /\ a \in {s, m}
  <2> HIDE DEF s, a
  <2> QED
    BY <1>1, <1>2, <1>3, MinIsLeast
<1>5. /\ l.form = "none" => t = m
      /\ (l.form # "none" /\ m = 0) => t = c
      /\ (l.form # "none" /\ m # 0) => t = Min2(c, m)
  <2>1. l.form = "none" => t = m
    BY <1>1 DEF TotalRows
  <2>2. (l.form # "none" /\ m = 0) => t = c
    BY <1>1 DEF TotalRows
  <2>3. (l.form # "none" /\ m # 0) => t = Min2(c, m)
    BY <1>1 DEF TotalRows
  <2> QED
    BY <2>1, <2>2, <2>3
<1> HIDE DEF s, a, c, t
<1>6. (l.form # "none" /\ m # 0) => t \in {c, m} /\ t <= c /\ t <= m
  BY <1>1, <1>5, MinIsLeast
<1>7. a <= k
  BY <1>1, <1>2, <1>4
<1>8. t > 0 => a <= t
  BY <1>1, <1>2, <1>4, <1>5, <1>6
<1>9. (t = 0 /\ l.form # "none") => a = 0
  BY <1>1, <1>2, <1>4, <1>5, <1>6
<1>10. ASSUME NEW x \in Nat, x <= k, t > 0 => x <= t,
              t = 0 => l.form = "none"
       PROVE  x <= a
  <2>1. t \in Nat
    BY <1>1, <1>5, <1>6
  <2>2. CASE t = 0
    BY <1>1, <1>2, <1>4, <1>5, <1>10, <2>2
  <2>3. CASE t > 0
    BY <1>1, <1>2, <1>4, <1>5, <1>6, <1>10, <2>3
  <2> QED
    BY <2>1, <2>2, <2>3
<1> QED
  BY <1>4, <1>7, <1>8, <1>9, <1>10 DEF a, t

(* Bounds of the number of rows the result has, in the scroller's numbers.  *)
LEMMA ResultBounds ==
    ASSUME SInv, query.limit.form # "offset"
    PROVE  /\ ResultRows \in Nat
           /\ \A x \in Nat : scroller.start_offset + x >= table
                 => ResultRows <= x
           /\ scroller.total_rows > 0 => ResultRows <= scroller.total_rows
           /\ (scroller.total_rows = 0 /\ query.limit.form # "none")
                 => ResultRows = 0
           /\ \A x \in Nat :
                 (/\ scroller.start_offset + x <= table
                  /\ scroller.total_rows > 0 => x <= scroller.total_rows
                  /\ scroller.total_rows = 0 => query.limit.form = "none")
                 => x <= ResultRows
<1> DEFINE start == scroller.start_offset
           total == scroller.total_rows
           k     == Behind(start)
<1>1. /\ query.limit \in Clauses /\ query.max \in Nat /\ table \in Nat
      /\ start \in Nat /\ total \in Nat
  BY DEF SInv, TypeOK, Clauses
<1>2. /\ MeantOffset(query.limit) = start
      /\ TotalRows(query.limit, query.max) = total
  BY <1>1, MeantAsRead DEF SInv, QueryNumbers
<1>3. ResultRows = Allowed(query, k)
  BY <1>2 DEF ResultRows
<1>4. k \in Nat /\ k = IF start < table THEN table - start ELSE 0
  BY <1>1 DEF Behind
<1> HIDE DEF start, total, k
<1>5. /\ ResultRows \in Nat /\ ResultRows <= k
      /\ total > 0 => ResultRows <= total
      /\ (total = 0 /\ query.limit.form # "none") => ResultRows = 0
      /\ \A x \in Nat :
            (/\ x <= k
             /\ total > 0 => x <= total
             /\ total = 0 => query.limit.form = "none")
            => x <= ResultRows
  BY <1>1, <1>2, <1>3, <1>4, AllowedRows
<1>6. ASSUME NEW x \in Nat, start + x >= table PROVE ResultRows <= x
  <2>1. k <= x
    BY <1>1, <1>4, <1>6
  <2> QED
    BY <1>4, <1>5, <2>1
<1>7. ASSUME NEW x \in Nat, start + x <= table, total > 0 => x <= total,
             total = 0 => query.limit.form = "none"
      PROVE  x <= ResultRows
  <2>1. x <= k
    BY <1>1, <1>4, <1>7
  <2> QED
    BY <1>5, <1>7, <2>1
<1> QED
  BY <1>5, <1>6, <1>7 DEF start, total

LEMMA FInit == Init => FInv
<1> SUFFICES ASSUME Init PROVE FInv
  OBVIOUS
<1>1. /\ query = NoQuery /\ call = "closed" /\ res = "none"
      /\ rowset = <<>> /\ fetched = 0 /\ positioned = Nowhere
      /\ mishaps = {}
  BY DEF Init
<1>2. query.limit.form # "offset"
  BY <1>1 DEF NoQuery
<1>3. ForwardNumbers /\ ExactNumbers /\ Quiet
  BY <1>1 DEF ForwardNumbers, ExactNumbers, Undisturbed, Quiet
<1>4. RowsInOrder /\ NoDataMeansEnd /\ PositionInFirstWindow
  BY <1>1 DEF RowsInOrder, NoDataMeansEnd, PositionInFirstWindow
<1> QED
  BY <1>2, <1>3, <1>4 DEF FInv

LEMMA FExecute ==
    ASSUME SInv, SInv', NEW l \in Limits, l.form # "offset",
           NEW m \in MaxRows, NEW p \in Prefetches, Execute(l, m, p)
    PROVE  FInv'
<1>1. /\ table' = table /\ end_of_set' = Freed /\ current_row' = 0
      /\ rows_found_in_set' = 0 /\ call' = "idle" /\ res' = "none"
      /\ rowset' = <<>> /\ fetched' = 0 /\ positioned' = Nowhere
      /\ mishaps' = {}
  BY DEF Execute
<1>2. /\ query'.limit = l
      /\ scroller' \in Scrollers /\ window' = Answer(scroller')
      /\ window' \in Windows
      /\ scroller'.offset = scroller'.start_offset
      /\ scroller'.count = scroller'.row_count
      /\ scroller'.row_count = 0 => l.form # "none"
  BY FirstWindow
<1>3. table \in Nat
  BY DEF SInv, TypeOK
<1>4. /\ window'.from = scroller'.offset
      /\ window'.len > 0 => window'.from + window'.len <= table
  BY <1>2, <1>3, AnswerIsWindow
<1>5. /\ scroller'.offset \in Nat /\ scroller'.start_offset \in Nat
  BY <1>2 DEF Scrollers
<1>6. query'.limit.form # "offset"
  BY <1>2
<1>7. ForwardNumbers'
  <2>1. Place' = 0
    BY <1>1 DEF Place
  <2>2. scroller'.start_offset + fetched' <= window'.from + Place'
    BY <1>1, <1>2, <1>4, <1>5, <2>1
  <2>3. NextRow' = fetched' /\ rows_found_in_set' = Len(rowset')
    BY <1>1 DEF NextRow
  <2> QED
    BY <1>1, <2>2, <2>3 DEF ForwardNumbers
<1>8. ExactNumbers'
  <2>1. Place' = 0
    BY <1>1 DEF Place
  <2>2. scroller'.start_offset + fetched' = window'.from + Place'
    BY <1>1, <1>2, <1>4, <1>5, <2>1
  <2>3. Live'
    BY <1>1, <1>2 DEF Live, Answer, Behind
  <2>4. ResultRows' \in Nat
    <3> DEFINE o == MeantOffset(query'.limit)
               k == IF o < table' THEN table' - o ELSE 0
    <3>1. query'.limit \in Clauses /\ query'.max \in Nat
      BY FirstWindow
    <3>2. o \in Nat /\ k \in Nat
      BY <1>1, <1>3, <1>6, <3>1, MeantAsRead
    <3>3. ResultRows' = Allowed(query', k)
      BY DEF ResultRows, Behind
    <3> HIDE DEF k
    <3> QED
      BY <1>6, <3>1, <3>2, <3>3, AllowedRows
  <2>5. fetched' <= ResultRows'
    BY <1>1, <2>4
  <2> QED
    BY <1>1, <1>2, <1>4, <2>2, <2>3, <2>5 DEF ExactNumbers
<1>9. Quiet' /\ RowsInOrder' /\ NoDataMeansEnd' /\ PositionInFirstWindow'
  BY <1>1 DEF Quiet, RowsInOrder, NoDataMeansEnd, PositionInFirstWindow
<1> QED
  BY <1>6, <1>7, <1>8, <1>9 DEF FInv

(* Changing the size of the rowset leaves alone what is told here; after a  *)
(* change of the table, or a jump, nothing more is told.                    *)
LEMMA FSetArraySize ==
    ASSUME SInv, FInv, NEW n \in ArraySizes, SetArraySize(n)
    PROVE  FInv'
<1>1. UNCHANGED <<table, query, scroller, window, data_cursor, end_of_set,
                  current_row, rows_found_in_set, call, res, rowset, fetched,
                  positioned, mishaps>>
  BY DEF SetArraySize
<1>2. Place' = Place /\ NextRow' = NextRow /\ ResultRows' = ResultRows
      /\ Live' = Live
  BY <1>1 DEF Place, NextRow, ResultRows, Behind, Live, Answer
<1>3. ForwardNumbers' /\ ExactNumbers'
  BY <1>1, <1>2 DEF FInv, ForwardNumbers, ExactNumbers, Undisturbed
<1>4. Quiet' /\ RowsInOrder' /\ NoDataMeansEnd' /\ PositionInFirstWindow'
  BY <1>1, <1>2 DEF FInv, Quiet, RowsInOrder, NoDataMeansEnd,
                    PositionInFirstWindow
<1> QED
  BY <1>1, <1>3, <1>4 DEF FInv

LEMMA FChange ==
    ASSUME SInv, FInv, NEW n \in Tables, Change(n)
    PROVE  FInv'
<1>1. /\ UNCHANGED <<query, scroller, window, data_cursor, end_of_set,
                     array_size, current_row, rows_found_in_set, call, res,
                     rowset, fetched, positioned>>
      /\ "changes" \in mishaps' /\ mishaps \subseteq mishaps'
  BY MeetTypes DEF Change, SInv
<1>2. Place' = Place /\ NextRow' = NextRow
  BY <1>1 DEF Place, NextRow
<1>3. ForwardNumbers'
  BY <1>1, <1>2 DEF FInv, ForwardNumbers
<1>4. ExactNumbers' /\ RowsInOrder' /\ NoDataMeansEnd'
      /\ PositionInFirstWindow'
  BY <1>1 DEF ExactNumbers, Undisturbed, RowsInOrder, NoDataMeansEnd,
              PositionInFirstWindow
<1> QED
  BY <1>1, <1>3, <1>4 DEF FInv, Quiet

LEMMA FFetchAbsolute ==
    ASSUME SInv, FInv, NEW irow \in Positions, FetchAbsolute(irow)
    PROVE  FInv'
<1>1. call = "idle" /\ GoTo(irow - 1) /\ "scrolled" \in mishaps'
  BY MeetTypes DEF FetchAbsolute, SInv
<1>2. /\ UNCHANGED query /\ positioned' = Nowhere
      /\ call' \in {"idle", "fetching", "hung"}
  BY <1>1 DEF GoTo, Begin, Refuse
<1>3. /\ ForwardNumbers' /\ ExactNumbers' /\ RowsInOrder'
      /\ NoDataMeansEnd' /\ PositionInFirstWindow'
  BY <1>1 DEF ForwardNumbers, ExactNumbers, Undisturbed, RowsInOrder,
              NoDataMeansEnd, PositionInFirstWindow
<1> QED
  BY <1>2, <1>3 DEF FInv, Quiet

(* Fetching forward goes on where the last fetch left off.                  *)
LEMMA FFetchNext ==
    ASSUME SInv, FInv, FetchNext
    PROVE  FInv'
<1>1. /\ call = "idle" /\ NextRow \in Nat
      /\ Begin(NextRow, end_of_set, window)
      /\ UNCHANGED <<scroller, mishaps>>
  BY NextNotBeyond DEF FetchNext, GoTo
<1>2. /\ data_cursor' = Seek(NextRow, end_of_set, window)
      /\ end_of_set' = end_of_set /\ window' = window
      /\ current_row' = NextRow /\ rowset' = <<>> /\ positioned' = Nowhere
      /\ call' = "fetching"
      /\ UNCHANGED <<table, query, array_size, rows_found_in_set, res,
                     fetched>>
  BY <1>1 DEF Begin
<1>3. window.len \in Nat /\ fetched \in Nat
  BY DEF SInv, TypeOK
<1>4. ASSUME "scrolled" \notin mishaps
      PROVE  NextRow = fetched /\ Place' = Place
             /\ (fetched = 0 => data_cursor' = 0)
  <2>1. NextRow = fetched
    BY <1>1, <1>4 DEF FInv, ForwardNumbers
  <2>2. CASE fetched = 0
    <3>1. data_cursor' = 0
      BY <1>2, <1>3, <2>1, <2>2 DEF Seek, Min2
    <3> QED
      BY <1>1, <1>2, <2>1, <2>2, <3>1 DEF Place
  <2>3. CASE fetched # 0
    <3>1. data_cursor' = end_of_set
      BY <1>2, <2>1, <2>3 DEF Seek, NextRow
    <3> QED
      BY <1>1, <1>2, <2>1, <2>3, <3>1 DEF Place
  <2> QED
    BY <2>2, <2>3
<1>5. ForwardNumbers'
  <2> SUFFICES ASSUME "scrolled" \notin mishaps PROVE ForwardNumbers'
    BY <1>1 DEF ForwardNumbers
  <2>1. Len(rowset') = 0
    BY <1>2
  <2>2. current_row' + Len(rowset') = fetched'
    BY <1>2, <1>3, <1>4, <2>1
  <2>3. scroller.start_offset + fetched <= window.from + Place
    BY <1>1 DEF FInv, ForwardNumbers
  <2>4. scroller'.start_offset + fetched' <= window'.from + Place'
    BY <1>1, <1>2, <1>4, <2>3
  <2> QED
    BY <1>2, <1>4, <2>2, <2>4 DEF ForwardNumbers
<1>6. ResultRows' = ResultRows /\ Live' = Live
  BY <1>1, <1>2 DEF ResultRows, Behind, Live, Answer
<1>7. ExactNumbers'
  <2> SUFFICES ASSUME Undisturbed PROVE ExactNumbers'
    BY <1>1, <1>2 DEF ExactNumbers, Undisturbed
  <2>1. Place' = Place
    BY <1>4 DEF Undisturbed
  <2> QED
    BY <1>1, <1>2, <1>6, <2>1 DEF FInv, ExactNumbers
<1>8. RowsInOrder' /\ PositionInFirstWindow' /\ Quiet'
  BY <1>2 DEF RowsInOrder, PositionInFirstWindow, Quiet
<1>9. NoDataMeansEnd'
  BY <1>1, <1>2, <1>6 DEF FInv, NoDataMeansEnd
<1> QED
  BY <1>2, <1>5, <1>7, <1>8, <1>9 DEF FInv

(* A row that is there to be read is one the result still has.              *)
LEMMA OneMoreRow ==
    ASSUME SInv, FInv, Undisturbed, NEW win \in Windows,
           win.len <= scroller.row_count, win.len > 0,
           win.from + win.len <= table,
           scroller.total_rows > 0 => win.from + win.len
              <= scroller.start_offset + scroller.total_rows,
           NEW k \in Nat, k < win.len,
           scroller.start_offset + fetched = win.from + k
    PROVE  fetched + 1 <= ResultRows
<1>1. /\ win.from \in Nat /\ win.len \in Nat /\ fetched \in Nat
      /\ table \in Nat /\ scroller.start_offset \in Nat
      /\ scroller.total_rows \in Nat /\ scroller.row_count \in Nat
  BY DEF SInv, TypeOK, Windows
<1>2. scroller.start_offset + (fetched + 1) <= table
  BY <1>1
<1>3. scroller.total_rows > 0 => fetched + 1 <= scroller.total_rows
  BY <1>1
<1>4. scroller.total_rows = 0 => query.limit.form = "none"
  BY <1>1 DEF SInv, QueryNumbers
<1>5. fetched + 1 \in Nat
  BY <1>1
<1> QED
  BY <1>2, <1>3, <1>4, <1>5, ResultBounds DEF FInv

(* One more row of the rowset.                                              *)
LEMMA InOrder ==
    ASSUME SInv, RowsInOrder, NEW x \in Nat,
           rowset' = Append(rowset, x), UNCHANGED <<query, mishaps>>,
           fetched' = fetched + 1,
           mishaps \subseteq {"lost"} =>
              x = MeantOffset(query.limit) + fetched + 1,
           MeantOffset(query.limit) \in Nat
    PROVE  RowsInOrder'
<1> SUFFICES ASSUME mishaps \subseteq {"lost"}, NEW k \in DOMAIN rowset'
             PROVE  rowset'[k] = MeantOffset(query.limit) + fetched'
                                 - Len(rowset') + k
  BY DEF RowsInOrder
<1>1. rowset \in Seq(Nat) /\ fetched \in Nat
  BY DEF SInv, TypeOK
<1>2. Len(rowset') = Len(rowset) + 1 /\ Len(rowset) \in Nat
      /\ k \in 1..(Len(rowset) + 1)
  BY <1>1
<1>3. CASE k = Len(rowset) + 1
  <2>1. rowset'[k] = x
    BY <1>1, <1>3
  <2> QED
    BY <1>1, <1>2, <1>3, <2>1
<1>4. CASE k # Len(rowset) + 1
  <2>1. k \in DOMAIN rowset /\ rowset'[k] = rowset[k]
    BY <1>1, <1>2, <1>4
  <2>2. rowset[k] = MeantOffset(query.limit) + fetched - Len(rowset) + k
    BY <2>1 DEF RowsInOrder
  <2>3. k \in Nat
    BY <1>2
  <2> QED
    BY <1>1, <1>2, <2>1, <2>2, <2>3
<1> QED
  BY <1>3, <1>4

(* Where the rows begin for the scroller and for the server.                *)
LEMMA StartIsMeant ==
    ASSUME SInv, query.limit.form # "offset"
    PROVE  /\ MeantOffset(query.limit) = scroller.start_offset
           /\ scroller.start_offset \in Nat
  BY MeantAsRead DEF SInv, TypeOK, Clauses, QueryNumbers

LEMMA FReadRow ==
    ASSUME SInv, FInv, ReadRow
    PROVE  FInv'
<1>1. /\ call = "fetching" /\ data_cursor # Freed
      /\ data_cursor < window.len
      /\ rowset' = Append(rowset, window.from + data_cursor + 1)
      /\ fetched' = fetched + 1 /\ data_cursor' = data_cursor + 1
      /\ UNCHANGED <<table, query, scroller, window, end_of_set, array_size,
                     current_row, rows_found_in_set, call, res, positioned,
                     mishaps>>
  BY DEF ReadRow
<1>2. /\ data_cursor \in 0..window.len /\ window.len \in Nat
      /\ window.from \in Nat /\ rowset \in Seq(Nat) /\ fetched \in Nat
      /\ current_row \in Nat /\ window \in Windows
  BY <1>1 DEF SInv, TypeOK, Windows
<1>3. Place = data_cursor /\ Place' = data_cursor + 1
  BY <1>1 DEF Place
<1>4. ResultRows' = ResultRows /\ Live' = Live
  BY <1>1 DEF ResultRows, Behind, Live, Answer
<1>5. /\ MeantOffset(query.limit) = scroller.start_offset
      /\ scroller.start_offset \in Nat
  BY StartIsMeant DEF FInv
<1>6. ASSUME Undisturbed
      PROVE  /\ scroller.start_offset + fetched = window.from + data_cursor
             /\ fetched + 1 <= ResultRows
  <2>1. scroller.start_offset + fetched = window.from + data_cursor
    BY <1>1, <1>2, <1>3, <1>6 DEF FInv, ExactNumbers
  <2>2. window.from + window.len <= table
    BY <1>1, <1>2, <1>6 DEF FInv, ExactNumbers
  <2>3. window.len > 0 /\ data_cursor \in Nat
    BY <1>1, <1>2
  <2>4. /\ window.len <= scroller.row_count
        /\ scroller.total_rows > 0 => window.from + window.len
              <= scroller.start_offset + scroller.total_rows
    BY DEF SInv, WindowNumbers
  <2> QED
    BY <1>1, <1>2, <1>6, <2>1, <2>2, <2>3, <2>4, OneMoreRow
<1>7. ForwardNumbers'
  <2> SUFFICES ASSUME "scrolled" \notin mishaps PROVE ForwardNumbers'
    BY <1>1 DEF ForwardNumbers
  <2>1. Len(rowset') = Len(rowset) + 1 /\ Len(rowset) \in Nat
    BY <1>1, <1>2
  <2>2. current_row + Len(rowset) = fetched
        /\ scroller.start_offset + fetched <= window.from + data_cursor
    BY <1>1, <1>3 DEF FInv, ForwardNumbers
  <2>3. current_row' + Len(rowset') = fetched' /\ fetched' # 0
    BY <1>1, <1>2, <2>1, <2>2
  <2>4. scroller'.start_offset + fetched' <= window'.from + Place'
    BY <1>1, <1>2, <1>3, <1>5, <2>2, SMTT(30)
  <2> QED
    BY <1>1, <2>3, <2>4 DEF ForwardNumbers
<1>8. ExactNumbers'
  <2> SUFFICES ASSUME Undisturbed PROVE ExactNumbers'
    BY <1>1 DEF ExactNumbers, Undisturbed
  <2>1. scroller'.start_offset + fetched' = window'.from + Place'
    <3> DEFINE start == scroller.start_offset
               from  == window.from
    <3>1. start + fetched = from + data_cursor
      BY <1>6
    <3>2. start \in Nat /\ from \in Nat /\ data_cursor \in Nat
          /\ fetched \in Nat
      BY <1>2, <1>5
    <3>3. scroller'.start_offset = start /\ window'.from = from
      BY <1>1
    <3> HIDE DEF start, from
    <3>4. start + (fetched + 1) = from + (data_cursor + 1)
      BY <3>1, <3>2
    <3> QED
      BY <1>1, <1>3, <3>3, <3>4
  <2>2. fetched' <= ResultRows'
    BY <1>1, <1>4, <1>6
  <2>3. Live' \/ "lost" \in mishaps'
    <3>1. fetched # ResultRows
      BY <1>2, <1>6
    <3> QED
      BY <1>1, <1>4, <3>1 DEF FInv, ExactNumbers
  <2>4. /\ scroller'.row_count = 0 => query'.limit.form # "none"
        /\ window'.len > 0 => window'.from + window'.len <= table'
    BY <1>1 DEF FInv, ExactNumbers
  <2> QED
    BY <2>1, <2>2, <2>3, <2>4 DEF ExactNumbers
<1>9. RowsInOrder'
  <2>1. window.from + data_cursor + 1 \in Nat
    BY <1>2
  <2>2. mishaps \subseteq {"lost"} =>
           window.from + data_cursor + 1
              = MeantOffset(query.limit) + fetched + 1
    BY <1>1, <1>2, <1>5, <1>6 DEF Undisturbed
  <2> QED
    BY <1>1, <1>5, <2>1, <2>2, InOrder DEF FInv
<1>10. NoDataMeansEnd'
  <2> SUFFICES ASSUME res = "nodata", mishaps \subseteq {"lost"}
               PROVE  FALSE
    BY <1>1 DEF NoDataMeansEnd
  <2>1. Undisturbed
    BY <1>1 DEF Undisturbed
  <2>2. fetched = ResultRows
    BY DEF FInv, NoDataMeansEnd
  <2> QED
    BY <1>2, <1>6, <2>1, <2>2
<1>11. Quiet' /\ PositionInFirstWindow'
  BY <1>1 DEF FInv, Quiet, PositionInFirstWindow
<1> QED
  BY <1>1, <1>7, <1>8, <1>9, <1>10, <1>11 DEF FInv

(* A fetch returns: what it has delivered is what it has passed.            *)
LEMMA FReturn ==
    ASSUME SInv, FInv, call = "fetching",
           NEW disconnected \in BOOLEAN,
           Return(Len(rowset), data_cursor, disconnected),
           UNCHANGED <<table, query, window, data_cursor, current_row,
                       rowset, fetched, positioned>>,
           scroller'.start_offset = scroller.start_offset,
           scroller'.row_count = scroller.row_count,
           mishaps \subseteq mishaps',
           mishaps' \subseteq {"lost"} =>
              /\ UNCHANGED scroller \/ "lost" \in mishaps'
                 \/ fetched = ResultRows
              /\ res' = "nodata" => fetched = ResultRows
    PROVE  FInv'
<1>1. /\ rows_found_in_set' = Len(rowset) /\ end_of_set' = data_cursor
      /\ call' = "idle"
  BY ReturnTypes
<1>2. Place = data_cursor
  BY DEF Place
<1>3. ASSUME "scrolled" \notin mishaps PROVE Place' = Place
  <2>1. fetched = 0 => data_cursor = 0
    BY <1>3 DEF FInv, ForwardNumbers
  <2> QED
    BY <1>1, <1>2, <2>1 DEF Place
<1>4. ForwardNumbers'
  <2> SUFFICES ASSUME "scrolled" \notin mishaps PROVE ForwardNumbers'
    BY DEF ForwardNumbers
  <2>1. current_row + Len(rowset) = fetched
        /\ scroller.start_offset + fetched <= window.from + Place
    BY DEF FInv, ForwardNumbers
  <2>2. NextRow' = fetched'
    BY <1>1, <2>1 DEF NextRow
  <2>3. scroller'.start_offset + fetched' <= window'.from + Place'
    BY <1>3, <2>1
  <2>4. data_cursor # Freed
    BY DEF SInv, NextIsNear
  <2> QED
    BY <1>1, <2>2, <2>3, <2>4 DEF ForwardNumbers
<1>5. ResultRows' = ResultRows
  BY DEF ResultRows, Behind
<1>6. ExactNumbers'
  <2> SUFFICES ASSUME Undisturbed, mishaps' \subseteq {"lost"}
               PROVE  ExactNumbers'
    BY DEF ExactNumbers, Undisturbed
  <2>1. Place' = Place
    BY <1>3 DEF Undisturbed
  <2>2. Live' \/ "lost" \in mishaps' \/ fetched' = ResultRows'
    <3>1. CASE UNCHANGED scroller
      <4>1. Live' = Live
        BY <3>1 DEF Live, Answer, Behind
      <4>2. Live \/ "lost" \in mishaps \/ fetched = ResultRows
        BY DEF FInv, ExactNumbers
      <4> QED
        BY <1>5, <4>1, <4>2
    <3> QED
      BY <1>5, <3>1
  <2>3. /\ scroller.row_count = 0 => query.limit.form # "none"
        /\ window.len > 0 => window.from + window.len <= table
        /\ \/ scroller.start_offset + fetched = window.from + Place
           \/ window.len = 0 /\ fetched = ResultRows
        /\ fetched <= ResultRows
    BY DEF FInv, ExactNumbers
  <2> QED
    BY <1>5, <2>1, <2>2, <2>3 DEF ExactNumbers
<1>7. RowsInOrder'
  BY DEF FInv, RowsInOrder
<1>8. NoDataMeansEnd'
  BY <1>5 DEF NoDataMeansEnd
<1>9. positioned' = Nowhere
  BY DEF FInv, Quiet
<1>10. Quiet' /\ PositionInFirstWindow'
  BY <1>1, <1>9 DEF Quiet, PositionInFirstWindow
<1> QED
  BY <1>4, <1>6, <1>7, <1>8, <1>10 DEF FInv

LEMMA FFull ==
    ASSUME SInv, FInv, Full
    PROVE  FInv'
<1>1. /\ call = "fetching" /\ Len(rowset) = array_size
      /\ Return(Len(rowset), data_cursor, "lost" \in mishaps)
      /\ UNCHANGED <<table, query, scroller, window, data_cursor, array_size,
                     current_row, rowset, fetched, positioned, mishaps>>
  BY DEF Full
<1>2. array_size # 0
  BY DEF SInv, TypeOK
<1>3. ("lost" \in mishaps) \in BOOLEAN
  OBVIOUS
<1>4. res' # "nodata"
  <2>1. res' = "nodata" => Len(rowset) = 0
    BY <1>1, <1>3, ReturnTypes
  <2> QED
    BY <1>1, <1>2, <2>1
<1> QED
  BY <1>1, <1>3, <1>4, FReturn

(* At the end of the window in the client library: the scroller may have    *)
(* come to the limit, and then the result has; or the next window follows   *)
(* on, or there are no rows left.                                           *)
LEMMA AtWindowEnd ==
    ASSUME SInv, FInv, Undisturbed, "lost" \notin mishaps,
           call = "fetching", data_cursor = window.len
    PROVE  /\ NothingLeft(scroller_move(scroller)) => fetched = ResultRows
           /\ \/ fetched = ResultRows
              \/ NothingLeft(scroller_move(scroller))
              \/ scroller.start_offset + fetched = scroller.next_offset
<1> DEFINE start == scroller.start_offset
           total == scroller.total_rows
           next  == scroller.next_offset
           rc    == scroller.row_count
           off   == scroller.offset
           mv    == scroller_move(scroller)
<1>1. /\ start \in Nat /\ total \in Nat /\ next \in Nat /\ rc \in Nat
      /\ off \in Nat /\ scroller.count \in Nat /\ fetched \in Nat
      /\ table \in Nat /\ scroller \in Scrollers
      /\ window.from \in Nat /\ window.len \in Nat
  BY DEF SInv, TypeOK, Scrollers
<1>2. off + rc = next
  BY DEF SInv, ScrollerNumbers
<1>3. NothingLeft(mv) <=> total > 0 /\ next >= start + total
  <2>1. /\ mv.row_count = rc /\ mv.total_rows = total
        /\ mv.start_offset = start /\ mv.offset = next
        /\ mv.next_offset = next + rc
    BY <1>1, MoveGoesOn DEF GoneOn
  <2>2. AtLimit(mv) <=> total > 0 /\ next + rc >= total + start
    BY <2>1 DEF AtLimit
  <2>3. Left(mv) = total - ((next + rc) - rc - start)
    BY <2>1 DEF Left
  <2> HIDE DEF mv, start, total, next, rc
  <2> QED
    BY <1>1, <2>2, <2>3 DEF NothingLeft
<1>4. /\ ResultRows \in Nat /\ fetched <= ResultRows
      /\ \A x \in Nat : start + x >= table => ResultRows <= x
      /\ total > 0 => ResultRows <= total
  BY ResultBounds DEF FInv, ExactNumbers
<1>5. \/ start + fetched = window.from + window.len
      \/ fetched = ResultRows
  BY DEF FInv, ExactNumbers, Place
<1>6. SUFFICES ASSUME fetched # ResultRows
               PROVE  /\ ~NothingLeft(mv)
                      /\ start + fetched = next
  OBVIOUS
<1>7. Live /\ start + fetched = window.from + window.len
  BY <1>5, <1>6 DEF FInv, ExactNumbers
<1>8. start + fetched < table
  BY <1>1, <1>4, <1>6
<1>9. window.from = off
  BY <1>1, <1>7, AnswerIsWindow DEF Live
<1>10. window.len = scroller.count
  <2>1. \/ window.len = scroller.count
        \/ window.len = Behind(off)
    BY <1>1, <1>7, AnswerIsWindow DEF Live
  <2>2. CASE window.len = Behind(off)
    <3>1. off + window.len >= table
      BY <1>1, <2>2 DEF Behind
    <3> QED
      BY <1>1, <1>7, <1>8, <1>9, <3>1
  <2> QED
    BY <2>1, <2>2
<1>11. \/ scroller.count = rc
       \/ total > 0 /\ off + scroller.count = start + total
  BY <1>7 DEF Live
<1>12. total > 0 => fetched < total
  BY <1>1, <1>4, <1>6
<1> HIDE DEF start, total, next, rc, off, mv
<1>13. scroller.count = rc
  BY <1>1, <1>7, <1>9, <1>10, <1>11, <1>12
<1>14. start + fetched = next
  BY <1>1, <1>2, <1>7, <1>9, <1>10, <1>13
<1> QED
  BY <1>1, <1>3, <1>12, <1>14

LEMMA FEndAtLimit ==
    ASSUME SInv, FInv, EndAtLimit
    PROVE  FInv'
<1> DEFINE sc == scroller_move(scroller)
<1>1. /\ call = "fetching" /\ data_cursor = window.len
      /\ NothingLeft(sc) /\ scroller' = sc
      /\ Return(Len(rowset), data_cursor, "lost" \in mishaps)
      /\ UNCHANGED <<table, query, window, data_cursor, array_size,
                     current_row, rowset, fetched, positioned, mishaps>>
  BY DEF EndAtLimit, UsedUp
<1>2. /\ scroller'.start_offset = scroller.start_offset
      /\ scroller'.row_count = scroller.row_count
  BY <1>1, MoveGoesOn DEF SInv, TypeOK, Scrollers, GoneOn
<1>3. ("lost" \in mishaps) \in BOOLEAN
  OBVIOUS
<1>4. ASSUME mishaps \subseteq {"lost"}
      PROVE  "lost" \in mishaps \/ fetched = ResultRows
  BY <1>1, <1>4, AtWindowEnd DEF Undisturbed
<1>5. res' = "nodata" => "lost" \notin mishaps
  BY <1>1, <1>3, ReturnTypes
<1> HIDE DEF sc
<1> QED
  BY <1>1, <1>2, <1>3, <1>4, <1>5, FReturn

LEMMA FWindowFails ==
    ASSUME SInv, FInv, WindowFails
    PROVE  FInv'
<1> DEFINE mv == scroller_move(scroller)
           sc == LastCount(mv)
<1>1. /\ call = "fetching" /\ ~NothingLeft(mv) /\ scroller' = sc
      /\ Return(Len(rowset), data_cursor, "lost" \in mishaps')
      /\ UNCHANGED <<table, query, window, data_cursor, array_size,
                     current_row, rowset, fetched, positioned>>
      /\ QueryFails
  BY DEF WindowFails, UsedUp
<1>2. /\ scroller'.start_offset = scroller.start_offset
      /\ scroller'.row_count = scroller.row_count
  <2>1. scroller \in Scrollers /\ ScrollerNumbers(scroller)
    BY DEF SInv, TypeOK, Scrollers
  <2>2. Follows(scroller, sc)
    BY <1>1, <2>1, MoveGoesOn, GoneOnFollows
  <2> QED
    BY <1>1, <2>2 DEF Follows
<1>3. ("lost" \in mishaps') \in BOOLEAN
  OBVIOUS
<1>4. /\ mishaps \subseteq mishaps'
      /\ "lost" \in mishaps' \/ "refused" \in mishaps'
  BY <1>1, QueryFailsTypes DEF SInv
<1>5. mishaps' \subseteq {"lost"} => "lost" \in mishaps'
  BY <1>4
<1>6. res' = "nodata" => "lost" \notin mishaps'
  BY <1>1, <1>3, ReturnTypes
<1> HIDE DEF sc, mv
<1> QED
  BY <1>1, <1>2, <1>3, <1>4, <1>5, <1>6, FReturn

(* The rows of the next window are the next rows, as far as there are any.  *)
LEMMA NextWindowRows ==
    ASSUME SInv, FInv, Undisturbed, NextWindow
    PROVE  /\ window'.len > 0 =>
                 /\ scroller.start_offset + fetched = scroller.next_offset
                 /\ scroller.next_offset + window'.len <= table
                 /\ fetched + 1 <= ResultRows
           /\ window'.len = 0 => fetched = ResultRows
<1> DEFINE start == scroller.start_offset
           next  == scroller.next_offset
<1>1. /\ call = "fetching" /\ data_cursor = window.len
      /\ "lost" \notin mishaps
      /\ ~NothingLeft(scroller_move(scroller))
      /\ Follows(scroller, scroller') /\ scroller'.offset = next
      /\ window' = Answer(scroller') /\ window' \in Windows
      /\ window'.from = next /\ WindowNumbers(scroller', window')
      /\ scroller.row_count > 0 => scroller'.count > 0
  BY NextWindowEffect
<1>2. /\ start \in Nat /\ next \in Nat /\ fetched \in Nat /\ table \in Nat
      /\ window'.len \in Nat /\ scroller' \in Scrollers
      /\ scroller.total_rows \in Nat /\ scroller.row_count \in Nat
      /\ window.from \in Nat /\ window.len \in Nat
      /\ scroller.offset \in Nat
  BY <1>1 DEF SInv, TypeOK, Windows, Follows
<1>3. /\ ResultRows \in Nat /\ fetched <= ResultRows
      /\ \A x \in Nat : start + x >= table => ResultRows <= x
      /\ (scroller.total_rows = 0 /\ query.limit.form # "none")
            => ResultRows = 0
  BY ResultBounds DEF FInv, ExactNumbers
<1>4. fetched = ResultRows \/ start + fetched = next
  BY <1>1, AtWindowEnd
<1>5. /\ window'.len > 0 => next + window'.len <= table
      /\ \/ window'.len = scroller'.count
         \/ window'.len = Behind(next)
  BY <1>1, <1>2, AnswerIsWindow
<1>6. /\ window'.len <= scroller.row_count
      /\ scroller.total_rows > 0 =>
            next + window'.len <= start + scroller.total_rows
  BY <1>1 DEF WindowNumbers, Follows
<1>7. start + fetched <= next
  <2>1. start + fetched <= window.from + window.len
    BY <1>1 DEF FInv, ForwardNumbers, Undisturbed, Place
  <2>2. window.from + window.len <= next
    BY <1>2 DEF SInv, WindowNumbers, ScrollerNumbers
  <2> HIDE DEF start, next
  <2> QED
    BY <1>2, <2>1, <2>2
<1>8. ASSUME window'.len > 0
      PROVE  start + fetched = next /\ fetched + 1 <= ResultRows
  <2> DEFINE x == next - start + 1
  <2>1. /\ x \in Nat /\ start + x <= table /\ fetched + 1 <= x
        /\ scroller.total_rows > 0 => x <= scroller.total_rows
    <3> HIDE DEF start, next
    <3> QED
      BY <1>2, <1>5, <1>6, <1>7, <1>8
  <2>2. scroller.total_rows = 0 => query.limit.form = "none"
    BY <1>2, <1>6, <1>8 DEF SInv, QueryNumbers
  <2> HIDE DEF x
  <2>3. x <= ResultRows
    BY <2>1, <2>2, ResultBounds DEF FInv
  <2>4. fetched + 1 <= ResultRows
    BY <1>2, <1>3, <2>1, <2>3
  <2>5. fetched # ResultRows
    BY <1>2, <1>3, <2>4
  <2> QED
    BY <1>4, <2>4, <2>5
<1>9. ASSUME window'.len = 0 PROVE fetched = ResultRows
  <2>1. CASE window'.len = scroller'.count
    <3>1. scroller.row_count = 0
      BY <1>1, <1>2, <1>9, <2>1
    <3>2. scroller.total_rows = 0 /\ query.limit.form # "none"
      BY <3>1 DEF SInv, ScrollerNumbers, FInv, ExactNumbers
    <3> QED
      BY <1>2, <1>3, <3>2
  <2>2. CASE window'.len = Behind(next)
    <3>1. table <= next
      BY <1>2, <1>9, <2>2 DEF Behind
    <3>2. ASSUME start + fetched = next PROVE fetched = ResultRows
      <4>1. ResultRows <= fetched
        BY <1>2, <1>3, <3>1, <3>2
      <4> QED
        BY <1>2, <1>3, <4>1
    <3> QED
      BY <1>4, <3>2
  <2> QED
    BY <1>5, <2>1, <2>2
<1> QED
  BY <1>5, <1>8, <1>9

LEMMA FNextWindow ==
    ASSUME SInv, FInv, NextWindow
    PROVE  FInv'
<1>1. /\ call = "fetching" /\ data_cursor = window.len
      /\ "lost" \notin mishaps
      /\ Follows(scroller, scroller')
      /\ scroller'.offset = scroller.next_offset
      /\ window' = Answer(scroller') /\ window' \in Windows
      /\ window'.from = scroller.next_offset
      /\ \/ scroller'.count = scroller.row_count
         \/ /\ scroller.total_rows > 0
            /\ scroller'.offset + scroller'.count
                  = scroller.start_offset + scroller.total_rows
      /\ UNCHANGED <<table, query, array_size, current_row, positioned,
                     mishaps>>
  BY NextWindowEffect
<1>2. /\ scroller'.start_offset = scroller.start_offset
      /\ scroller'.row_count = scroller.row_count
      /\ scroller'.total_rows = scroller.total_rows
  BY <1>1 DEF Follows
<1>3. /\ scroller.start_offset \in Nat /\ scroller.next_offset \in Nat
      /\ fetched \in Nat /\ rowset \in Seq(Nat) /\ current_row \in Nat
      /\ window'.len \in Nat /\ window.from \in Nat /\ window.len \in Nat
      /\ scroller.offset \in Nat /\ scroller.row_count \in Nat
  BY <1>1 DEF SInv, TypeOK, Windows
<1>4. Live'
  BY <1>1, <1>2 DEF Live, Answer, Behind
<1>5. ResultRows' = ResultRows
  BY <1>1 DEF ResultRows, Behind
<1>6. MeantOffset(query.limit) = scroller.start_offset
  BY StartIsMeant DEF FInv
<1>7. ASSUME "scrolled" \notin mishaps
      PROVE  /\ current_row + Len(rowset) = fetched
             /\ scroller.start_offset + fetched <= scroller.next_offset
  <2>1. current_row + Len(rowset) = fetched
        /\ scroller.start_offset + fetched <= window.from + window.len
    BY <1>1, <1>7 DEF FInv, ForwardNumbers, Place
  <2>2. window.from + window.len <= scroller.next_offset
    BY <1>3 DEF SInv, WindowNumbers, ScrollerNumbers
  <2> QED
    BY <1>3, <2>1, <2>2, SMTT(30)
<1>8. positioned' = Nowhere
  BY <1>1 DEF FInv, Quiet
<1>9. ASSUME Undisturbed
      PROVE  /\ scroller'.row_count = 0 => query'.limit.form # "none"
             /\ window'.len > 0 => window'.from + window'.len <= table'
  <2>1. scroller.row_count = 0 => query.limit.form # "none"
    BY <1>9 DEF FInv, ExactNumbers
  <2>2. window'.len > 0 => scroller.next_offset + window'.len <= table
    BY <1>9, NextWindowRows
  <2> QED
    BY <1>1, <1>2, <2>1, <2>2
<1>10. CASE /\ window'.len = 0 /\ data_cursor' = 0
            /\ Return(Len(rowset), 0, FALSE)
            /\ UNCHANGED <<rowset, fetched>>
  <2>1. rows_found_in_set' = Len(rowset) /\ end_of_set' = 0
        /\ call' = "idle"
    BY <1>10, ReturnTypes
  <2>2. Place' = 0
    BY <2>1 DEF Place
  <2>3. ForwardNumbers'
    <3> SUFFICES ASSUME "scrolled" \notin mishaps PROVE ForwardNumbers'
      BY <1>1 DEF ForwardNumbers
    <3>1. NextRow' = fetched'
      BY <1>1, <1>7, <1>10, <2>1 DEF NextRow
    <3>2. scroller'.start_offset + fetched' <= window'.from + Place'
      BY <1>1, <1>2, <1>3, <1>7, <1>10, <2>2
    <3> QED
      BY <1>10, <2>1, <3>1, <3>2 DEF ForwardNumbers, Freed
  <2>4. ExactNumbers'
    <3> SUFFICES ASSUME Undisturbed PROVE ExactNumbers'
      BY <1>1 DEF ExactNumbers, Undisturbed
    <3>1. fetched' = ResultRows' /\ fetched' <= ResultRows'
      BY <1>3, <1>5, <1>10, NextWindowRows
    <3> QED
      BY <1>9, <1>10, <3>1 DEF ExactNumbers
  <2>5. RowsInOrder'
    BY <1>1, <1>10 DEF FInv, RowsInOrder
  <2>6. NoDataMeansEnd'
    <3> SUFFICES ASSUME mishaps \subseteq {"lost"} PROVE NoDataMeansEnd'
      BY <1>1 DEF NoDataMeansEnd
    <3>1. fetched = ResultRows
      BY <1>1, <1>10, NextWindowRows DEF Undisturbed
    <3> QED
      BY <1>5, <1>10, <3>1 DEF NoDataMeansEnd
  <2>7. Quiet' /\ PositionInFirstWindow'
    BY <1>8, <2>1 DEF Quiet, PositionInFirstWindow
  <2> QED
    BY <1>1, <2>3, <2>4, <2>5, <2>6, <2>7 DEF FInv
<1>11. CASE /\ window'.len > 0 /\ data_cursor' = 1
            /\ end_of_set' = Freed
            /\ rowset' = Append(rowset, scroller.next_offset + 1)
            /\ fetched' = fetched + 1
            /\ UNCHANGED <<rows_found_in_set, call, res>>
  <2>1. Place' = 1 /\ call' = "fetching"
    BY <1>1, <1>11 DEF Place
  <2>2. Len(rowset') = Len(rowset) + 1 /\ Len(rowset) \in Nat
    BY <1>3, <1>11
  <2>3. ForwardNumbers'
    <3> SUFFICES ASSUME "scrolled" \notin mishaps PROVE ForwardNumbers'
      BY <1>1 DEF ForwardNumbers
    <3>1. current_row' + Len(rowset') = fetched' /\ fetched' # 0
      BY <1>1, <1>3, <1>7, <1>11, <2>2, SMTT(30)
    <3>2. scroller'.start_offset + fetched' <= window'.from + Place'
      BY <1>1, <1>2, <1>3, <1>7, <1>11, <2>1, SMTT(30)
    <3> QED
      BY <2>1, <3>1, <3>2 DEF ForwardNumbers
  <2>4. ASSUME Undisturbed
        PROVE  /\ scroller.start_offset + fetched = scroller.next_offset
               /\ fetched + 1 <= ResultRows
    BY <1>11, <2>4, NextWindowRows
  <2>5. ExactNumbers'
    <3> SUFFICES ASSUME Undisturbed PROVE ExactNumbers'
      BY <1>1 DEF ExactNumbers, Undisturbed
    <3>1. scroller'.start_offset + fetched' = window'.from + Place'
      <4>1. scroller.start_offset + (fetched + 1)
               = scroller.next_offset + 1
        <5> DEFINE start == scroller.start_offset
                   next  == scroller.next_offset
        <5>1. start \in Nat /\ next \in Nat /\ fetched \in Nat
              /\ start + fetched = next
          BY <1>3, <2>4
        <5> HIDE DEF start, next
        <5> QED
          BY <5>1 DEF start, next
      <4> QED
        BY <1>1, <1>2, <1>11, <2>1, <4>1
    <3>2. fetched' <= ResultRows'
      BY <1>5, <1>11, <2>4
    <3> QED
      BY <1>4, <1>9, <3>1, <3>2 DEF ExactNumbers
  <2>6. RowsInOrder'
    <3>1. scroller.next_offset + 1 \in Nat
      BY <1>3
    <3>2. mishaps \subseteq {"lost"} =>
             scroller.next_offset + 1
                = MeantOffset(query.limit) + fetched + 1
      BY <1>1, <1>3, <1>6, <2>4 DEF Undisturbed
    <3>3. MeantOffset(query.limit) \in Nat
      BY <1>3, <1>6
    <3> QED
      BY <1>1, <1>11, <3>1, <3>2, <3>3, InOrder DEF FInv
  <2>7. NoDataMeansEnd'
    <3> SUFFICES ASSUME res = "nodata", mishaps \subseteq {"lost"}
                 PROVE  FALSE
      BY <1>1, <1>11 DEF NoDataMeansEnd
    <3>1. Undisturbed
      BY <1>1 DEF Undisturbed
    <3>2. fetched = ResultRows
      BY DEF FInv, NoDataMeansEnd
    <3> QED
      BY <1>3, <2>4, <3>1, <3>2
  <2>8. Quiet' /\ PositionInFirstWindow'
    BY <1>8, <2>1 DEF Quiet, PositionInFirstWindow
  <2> QED
    BY <1>1, <2>3, <2>5, <2>6, <2>7, <2>8 DEF FInv
<1> QED
  BY <1>10, <1>11, NextWindowEffect

(* SQLSetPos in the first window: the number of the row in the result is    *)
(* its number in the window.                                                *)
LEMMA FSetPos ==
    ASSUME SInv, FInv, NEW irow \in ArraySizes, SetPos(irow)
    PROVE  FInv'
<1> DEFINE row == CursorRow(irow)
           r   == IF row \in 0..(window.len - 1)
                  THEN window.from + row + 1 ELSE 0
<1>1. /\ call = "idle" /\ irow \in 1..rows_found_in_set
      /\ positioned' = [of |-> irow, row |-> r]
      /\ UNCHANGED <<table, query, scroller, window, end_of_set, array_size,
                     current_row, rows_found_in_set, call, res, rowset,
                     fetched, mishaps>>
  BY DEF SetPos
<1>2. Place' = Place /\ NextRow' = NextRow /\ ResultRows' = ResultRows
      /\ Live' = Live
  BY <1>1 DEF Place, NextRow, ResultRows, Behind, Live, Answer
<1>3. ForwardNumbers' /\ ExactNumbers'
  BY <1>1, <1>2 DEF FInv, ForwardNumbers, ExactNumbers, Undisturbed
<1>4. Quiet' /\ RowsInOrder' /\ NoDataMeansEnd'
  BY <1>1, <1>2 DEF FInv, Quiet, RowsInOrder, NoDataMeansEnd
<1>5. PositionInFirstWindow'
  <2> SUFFICES ASSUME mishaps = {}, window.from = scroller.start_offset
               PROVE  positioned'.row = rowset[positioned'.of]
    BY <1>1 DEF PositionInFirstWindow
  <2> DEFINE start == scroller.start_offset
             len   == window.len
             found == rows_found_in_set
  <2>1. /\ found \in Nat /\ current_row \in Nat /\ fetched \in Nat
        /\ start \in Nat /\ len \in Nat /\ rowset \in Seq(Nat)
        /\ end_of_set \in {Freed} \cup 0..len
    BY DEF SInv, TypeOK
  <2>2. /\ current_row + found = fetched /\ found = Len(rowset)
        /\ fetched # 0 => end_of_set # Freed
        /\ start + fetched <= start + Place
    BY <1>1 DEF FInv, ForwardNumbers, NextRow
  <2>3. Place = IF fetched = 0 THEN 0 ELSE end_of_set
    BY <1>1 DEF Place
  <2>4. irow \in 1..Len(rowset) /\ irow \in Nat
    BY <1>1, <2>1, <2>2
  <2>5. rowset[irow] = start + fetched - Len(rowset) + irow
    <3>1. irow \in DOMAIN rowset
      BY <2>1, <2>4
    <3>2. MeantOffset(query.limit) = start
      BY StartIsMeant DEF FInv
    <3> QED
      BY <3>1, <3>2 DEF FInv, RowsInOrder
  <2>6. row = current_row + irow - 1
    BY DEF CursorRow
  <2> HIDE DEF start, len, found, row
  <2>7. fetched <= len
    BY <2>1, <2>2, <2>3 DEF Freed
  <2>8. row \in 0..(len - 1) /\ row + 1 = current_row + irow
    BY <2>1, <2>2, <2>4, <2>6, <2>7
  <2>9. r = start + row + 1
    BY <2>8 DEF len, start
  <2>10. rowset[irow] = start + row + 1
    BY <2>1, <2>2, <2>4, <2>5, <2>8, SMTT(30)
  <2>11. positioned'.row = r /\ positioned'.of = irow
    <3> HIDE DEF r
    <3> QED
      BY <1>1
  <2> QED
    BY <2>9, <2>10, <2>11
<1> QED
  BY <1>1, <1>3, <1>4, <1>5 DEF FInv

LEMMA FStep ==
    ASSUME \A l \in Limits : l.form # "offset"
    PROVE  SInv /\ SInv' /\ FInv /\ [Next]_vars => FInv'
<1> SUFFICES ASSUME SInv, SInv', FInv, [Next]_vars PROVE FInv'
  OBVIOUS
<1>1. CASE \E l \in Limits, m \in MaxRows, p \in Prefetches :
              Execute(l, m, p)
  BY <1>1, FExecute
<1>2. CASE \E n \in ArraySizes : SetArraySize(n)
  BY <1>2, FSetArraySize
<1>3. CASE \E n \in Tables : Change(n)
  BY <1>3, FChange
<1>4. CASE FetchNext
  BY <1>4, FFetchNext
<1>5. CASE \E irow \in Positions : FetchAbsolute(irow)
  BY <1>5, FFetchAbsolute
<1>6. CASE ReadRow
  BY <1>6, FReadRow
<1>7. CASE Full
  BY <1>7, FFull
<1>8. CASE EndAtLimit
  BY <1>8, FEndAtLimit
<1>9. CASE WindowFails
  BY <1>9, FWindowFails
<1>10. CASE NextWindow
  BY <1>10, FNextWindow
<1>11. CASE \E irow \in ArraySizes : SetPos(irow)
  BY <1>11, FSetPos
<1>12. CASE UNCHANGED vars
  <2>1. /\ UNCHANGED <<table, query, scroller, window, data_cursor,
                       end_of_set, array_size, current_row,
                       rows_found_in_set, call>>
        /\ UNCHANGED <<res, rowset, fetched, positioned, mishaps>>
    BY <1>12 DEF vars
  <2>2. Place' = Place /\ NextRow' = NextRow /\ ResultRows' = ResultRows
        /\ Live' = Live
    BY <2>1 DEF Place, NextRow, ResultRows, Behind, Live, Answer
  <2>3. ForwardNumbers' /\ ExactNumbers'
    BY <2>1, <2>2 DEF FInv, ForwardNumbers, ExactNumbers, Undisturbed
  <2>4. /\ Quiet' /\ RowsInOrder' /\ NoDataMeansEnd'
        /\ PositionInFirstWindow'
    BY <2>1, <2>2 DEF FInv, Quiet, RowsInOrder, NoDataMeansEnd,
                      PositionInFirstWindow
  <2> QED
    BY <2>1, <2>3, <2>4 DEF FInv
<1> QED
  BY <1>1, <1>2, <1>3, <1>4, <1>5, <1>6, <1>7, <1>8, <1>9, <1>10, <1>11,
     <1>12 DEF Next

LEMMA ForwardInvariant ==
    ASSUME \A l \in Limits : l.form # "offset"
    PROVE  Spec => [](SInv /\ FInv)
<1>1. Init => SInv /\ FInv
  BY SInit, FInit
<1>2. (SInv /\ FInv) /\ [Next]_vars => (SInv /\ FInv)'
  BY SStep, FStep
<1> QED
  BY <1>1, <1>2, PTL DEF Spec

(* What has been fetched lies in windows within the limit, or there is no   *)
(* limit.                                                                   *)
LEMMA LimitsFollow ==
    ASSUME SInv, FInv
    PROVE  LimitsKept
<1> DEFINE start == scroller.start_offset
           total == scroller.total_rows
           limit == MeantCount(query.limit)
           t     == TotalRows(query.limit, query.max)
<1>1. /\ query.limit \in Clauses /\ query.max \in Nat /\ fetched \in Nat
      /\ query.limit.form # "offset" /\ window.len \in Nat
      /\ window.from \in Nat /\ start \in Nat /\ total \in Nat
      /\ scroller.offset \in Nat /\ scroller.row_count \in Nat
      /\ scroller.next_offset \in Nat
      /\ data_cursor \in {Freed} \cup 0..window.len
      /\ end_of_set \in {Freed} \cup 0..window.len
      /\ call \in {"closed", "idle", "fetching", "hung"}
  BY DEF SInv, FInv, TypeOK, Clauses
<1>2. total = t
  BY DEF SInv, QueryNumbers
<1>3. WindowInLimit
  BY DEF SInv, WindowNumbers, WindowInLimit
<1>4. WithinLimits
  <2> SUFFICES ASSUME "scrolled" \notin mishaps, call # "closed"
               PROVE  /\ query.limit.form # "none" => fetched <= limit
                      /\ query.max # 0 => fetched <= query.max
    BY DEF WithinLimits
  <2>1. start + fetched <= window.from + Place
    BY DEF FInv, ForwardNumbers
  <2>2. Place \in Int /\ Place <= window.len
    BY <1>1 DEF Place, Freed
  <2>3. start + fetched <= window.from + window.len
    BY <1>1, <2>1, <2>2
  <2>4. CASE total > 0
    <3>1. fetched <= total
      BY <1>1, <2>3, <2>4 DEF SInv, WindowNumbers
    <3>2. /\ query.limit.form # "none" => t <= limit
          /\ query.max # 0 => t <= query.max
      BY <1>1, <1>2, <2>4, TotalIsLimit
    <3>3. limit \in Nat
      BY <1>1, MeantAsRead
    <3> HIDE DEF total, t, limit
    <3> QED
      BY <1>1, <1>2, <3>1, <3>2, <3>3
  <2>5. CASE total = 0
    <3>1. query.limit.form = "none" => query.max = 0
      BY <1>1, <1>2, <2>5, TotalIsLimit
    <3>2. ASSUME query.limit.form # "none" PROVE fetched = 0
      <4>1. scroller.row_count = 0
        BY <2>5, <3>2 DEF SInv, QueryNumbers
      <4>2. window.len = 0 /\ window.from = start
        BY <1>1, <4>1 DEF SInv, WindowNumbers, ScrollerNumbers
      <4> QED
        BY <1>1, <2>3, <4>2
    <3>3. limit \in Nat
      BY <1>1, MeantAsRead
    <3> HIDE DEF limit
    <3> QED
      BY <1>1, <3>1, <3>2, <3>3
  <2> QED
    BY <1>1, <2>4, <2>5
<1> QED
  BY <1>3, <1>4 DEF LimitsKept

-----------------------------------------------------------------------------
(***************************************************************************)
(* The theorems                                                            *)
(***************************************************************************)

(* Whatever is fetched, and in whatever order windows and failures come:    *)
(* the numbers of the scroller keep their types, so that a count written    *)
(* into a LIMIT clause is never negative, and no window reaches beyond the  *)
(* limit of the query.                                                      *)
THEOREM ScrollerWindows == Spec => [](TypeOK /\ WindowInLimit)
<1>1. SInv => TypeOK /\ WindowInLimit
  BY DEF SInv, WindowNumbers, WindowInLimit
<1> QED
  BY <1>1, ScrollerInvariant, PTL

(* No fetch goes on from a place in a window that has been freed, and only  *)
(* SQL_FETCH_ABSOLUTE can get caught in the loop that moves the window.     *)
THEOREM ScrollerPlaces == Spec => [](NeverReadsFreed /\ ForwardFetchesReturn)
<1>1. SInv => NeverReadsFreed /\ ForwardFetchesReturn
  BY DEF SInv, NextIsNear, NeverReadsFreed, ForwardFetchesReturn
<1> QED
  BY <1>1, ScrollerInvariant, PTL

(* Both, and SQLSetPos finds its row in the first window, if no query has a *)
(* LIMIT clause that get_limit_numbers takes the other way round.           *)
THEOREM ScrollerSound ==
    ASSUME \A l \in Limits : l.form # "offset"
    PROVE  Spec => []WindowsSound
<1>1. SInv /\ FInv => WindowsSound
  BY DEF SInv, FInv, NextIsNear, NeverReadsFreed, ForwardFetchesReturn,
         WindowsSound
<1> QED
  BY <1>1, ForwardInvariant, PTL

(* Fetched forward, the rows of all windows together are the rows of the    *)
(* query in their order, none skipped at a border of windows and none read  *)
(* twice.                                                                   *)
THEOREM ScrollerRows ==
    ASSUME \A l \in Limits : l.form # "offset"
    PROVE  Spec => []RowsInOrder
<1>1. SInv /\ FInv => RowsInOrder
  BY DEF FInv
<1> QED
  BY <1>1, ForwardInvariant, PTL

(* SQL_NO_DATA comes when the whole result has been delivered, and not      *)
(* because the connection was lost between two windows.                     *)
THEOREM ScrollerEnd ==
    ASSUME \A l \in Limits : l.form # "offset"
    PROVE  Spec => []NoDataMeansEnd
<1>1. SInv /\ FInv => NoDataMeansEnd
  BY DEF FInv
<1> QED
  BY <1>1, ForwardInvariant, PTL

(* An application gets no more rows than its LIMIT and SQL_ATTR_MAX_ROWS    *)
(* allow, even while the table grows or a query is refused.                 *)
THEOREM ScrollerLimits ==
    ASSUME \A l \in Limits : l.form # "offset"
    PROVE  Spec => []LimitsKept
<1>1. SInv /\ FInv => LimitsKept
  BY LimitsFollow
<1> QED
  BY <1>1, ForwardInvariant, PTL
=============================================================================
