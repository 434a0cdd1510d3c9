------------------------------- MODULE Cursor -------------------------------
(***************************************************************************)
(* What an application may rely on when it fetches rowsets: a cursor is a  *)
(* place in a result of n rows, and every fetch hands over the rows of one *)
(* contiguous window.  SQL_FETCH_NEXT hands over the rows that follow the  *)
(* previous window, so that no row is skipped or delivered twice; the other*)
(* fetch types may go anywhere.                                            *)
(***************************************************************************)
EXTENDS Integers

CONSTANT ArraySizes      \* rowset sizes the application may ask for

VARIABLES
    open,                \* there is a result
    n,                   \* its number of rows
    start,               \* the first row of the window, -1 before the first
    found,               \* the number of rows in the window
    rowset,              \* the rows in the application's buffers
    call                 \* the last call: "NEXT", "SCROLL" or "OTHER"

cvars == <<open, n, start, found, rowset, call>>

Min2(a, b) == IF a < b THEN a ELSE b

Window(first, k) == [i \in 1..k |-> first + i - 1]

CInit == /\ open = FALSE /\ n = 0
         /\ start = 0 /\ found = 0 /\ rowset = <<>> /\ call = "OTHER"

COpen == /\ open' = TRUE
         /\ n' \in Nat
         /\ start' = 0 /\ found' = 0 /\ rowset' = <<>> /\ call' = "OTHER"

CClose == /\ open' = FALSE /\ n' = 0
          /\ start' = 0 /\ found' = 0 /\ rowset' = <<>> /\ call' = "OTHER"

(* A call that leaves the window alone.                                    *)
COther == call' = "OTHER" /\ UNCHANGED <<open, n, start, found, rowset>>

(* Rows first .. first + k - 1 for a rowset of the given size.             *)
Deliver(first, size) ==
    /\ first \in 0..n
    /\ start' = first
    /\ found' = Min2(n - first, size)
    /\ rowset' = Window(first, Min2(n - first, size))

CNext(size) ==
    /\ open
    /\ Deliver(IF start < 0 THEN 0 ELSE start + found, size)
    /\ call' = "NEXT"
    /\ UNCHANGED <<open, n>>

CScroll(size) ==
    /\ open
    /\ \E first \in 0..n : Deliver(first, size)
    /\ call' = "SCROLL"
    /\ UNCHANGED <<open, n>>

CBefore ==
    /\ open
    /\ start' = -1 /\ found' = 0 /\ rowset' = <<>> /\ call' = "SCROLL"
    /\ UNCHANGED <<open, n>>

CStep == \/ COpen \/ CClose \/ COther \/ CBefore
         \/ \E size \in ArraySizes : CNext(size) \/ CScroll(size)

CSpec == CInit /\ [][CStep]_cvars
=============================================================================
