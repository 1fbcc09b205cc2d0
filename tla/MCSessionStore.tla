---------------------------- MODULE MCSessionStore ----------------------------
(* TLC instances of SessionStore: see the cfg files for the constants.     *)
EXTENDS SessionStore, TLC

\* The paths are interchangeable.
FileSymmetry == Permutations(Files)
=============================================================================
