------------------------------ MODULE Transfer ------------------------------
(***************************************************************************)
(* What SQLGetData promises of a value read in parts: the parts, put one    *)
(* after another, are the value; SQL_SUCCESS comes with the last of them,   *)
(* SQL_SUCCESS_WITH_INFO with every earlier one, and SQL_NO_DATA only once   *)
(* there is nothing left. A value is begun again only by way of another.    *)
(***************************************************************************)
EXTENDS Naturals

CONSTANT Nothing   \* no value is being read

VARIABLES
    what,     \* the value being read
    total,    \* its units
    sent,     \* those handed over so far
    answer    \* the last return code

vars == <<what, total, sent, answer>>

Rest == what = Nothing /\ total = 0 /\ sent = 0 /\ answer = "none"

Init == Rest

(* Another row, or something this specification does not speak of.          *)
Leave == Rest'

(* The first part of a value, or the next part of the one being read.       *)
Part(n, from) ==
    /\ total' = n
    /\ sent' \in from..n
    /\ \/ sent' = n /\ answer' = "success"
       \/ (sent' < n \/ n = 0) /\ answer' = "info"

First == what' # what /\ total' \in Nat /\ Part(total', 0)
More  == what # Nothing /\ answer = "info" /\ what' = what /\ Part(total, sent)

(* Nothing is left. (An empty value may be found so at once.)               *)
Done ==
    /\ \/ what # Nothing /\ sent = total /\ UNCHANGED <<what, total, sent>>
       \/ what' # what /\ total' = 0 /\ sent' = 0
    /\ answer' = "nodata"

Next == Leave \/ First \/ More \/ Done

Spec == Init /\ [][Next]_vars
=============================================================================
