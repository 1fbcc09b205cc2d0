------------------------------- MODULE MCStream -------------------------------
(* TLC instances of Stream: see the cfg files for the constants.           *)
EXTENDS Stream
=============================================================================
