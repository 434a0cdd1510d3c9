---------------------------- MODULE MCParamSets ----------------------------
(* Parameter sets for TLC.                                                 *)
EXTENDS ParamSets
=============================================================================
