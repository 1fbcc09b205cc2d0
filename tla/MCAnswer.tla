------------------------------- MODULE MCAnswer -------------------------------
(* TLC instances of Answer: see the cfg files for the constants.           *)
EXTENDS Answer
=============================================================================
