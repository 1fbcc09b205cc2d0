--------------------------- MODULE MCMessageIterator ---------------------------
(* TLC instances of MessageIterator: see the cfg files for the constants.  *)
EXTENDS MessageIterator
=============================================================================
