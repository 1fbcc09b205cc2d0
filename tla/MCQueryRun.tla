----------------------------- MODULE MCQueryRun -----------------------------
(* TLC instances of QueryRun: see the cfg files for the constants.         *)
EXTENDS QueryRun
=============================================================================
