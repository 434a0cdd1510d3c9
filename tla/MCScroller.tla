----------------------------- MODULE MCScroller -----------------------------
(* The scroller for TLC: results with and without a LIMIT, which may lie    *)
(* before, across or behind the end of the table.                           *)
EXTENDS Scroller, TLC

L(form, first, second) == [form |-> form, first |-> first, second |-> second]

Clauses == {L("none", 0, 0), L("count", 0, 0), L("count", 3, 0),
            L("comma", 1, 2), L("comma", 2, 5)}

(* LIMIT count OFFSET offset, which the driver reads the other way round.   *)
OffsetClause == {L("offset", 1, 2)}
=============================================================================
