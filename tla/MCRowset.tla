------------------------------ MODULE MCRowset ------------------------------
(* Rowset for TLC.  Offsets reach past both ends of the largest result.    *)
EXTENDS Rowset

MCOffsets == -(MaxRows + 1) .. (MaxRows + 1)
=============================================================================
