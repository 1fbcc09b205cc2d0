------------------------- MODULE MCClientLifecycle --------------------------
(* TLC instances of ClientLifecycle: see the cfg files for the constants.  *)
EXTENDS ClientLifecycle, TLC

\* The callers are interchangeable.
CallerSymmetry == Permutations(Callers)
=============================================================================
