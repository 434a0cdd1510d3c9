----------------------------- MODULE MCHandles -----------------------------
(* Handles for TLC: two connections, two statements, two explicit          *)
(* descriptors, all interchangeable.                                       *)
EXTENDS Handles, TLC

Symm == Permutations(Dbcs) \cup Permutations(Stmts) \cup Permutations(Descs)
=============================================================================
