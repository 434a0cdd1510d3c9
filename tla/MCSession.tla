----------------------------- MODULE MCSession -----------------------------
(* Instances of Session: one statement with and without a row limit, two    *)
(* isolation levels besides the server's, one of which is none but has the  *)
(* bit of one.                                                             *)
EXTENDS Session

SomeLevels  == {2, 24}
SomeMaxRows == {Unlimited, 5}

(* A server that commits by itself, with AUTO_RECONNECT, and one that does  *)
(* not, with NO_TRANSACTIONS.                                              *)
Config(n, r, a) == [NO_TRANSACTIONS |-> n, AUTO_RECONNECT |-> r,
                    autocommit |-> a, isolation |-> 4]
SomeConfigs == {Config(FALSE, TRUE, TRUE), Config(TRUE, FALSE, FALSE)}
============================================================================
