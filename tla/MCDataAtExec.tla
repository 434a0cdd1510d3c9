---------------------------- MODULE MCDataAtExec ----------------------------
EXTENDS DataAtExec, TLC

CONSTANT shared

(* Each statement's own descriptor, and one descriptor for all.            *)
OwnApds   == [s \in Stmts |-> s]
SharedApd == [s \in Stmts |-> shared]
=============================================================================
