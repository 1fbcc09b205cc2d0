------------------------------ MODULE MCToolUse ------------------------------
(* TLC instances of ToolUse: see the cfg files for the constants.          *)
EXTENDS ToolUse, TLC

MCOrder == <<"project", "local">>

\* A denial and a replacement of all rules, both stored in one file.
MCUpdates ==
  {[type |-> "add", tools |-> {"edit"}, behavior |-> "deny", mode |-> "none", to |-> "local"],
   [type |-> "replace", tools |-> {"fetch"}, behavior |-> "allow", mode |-> "none",
    to |-> "local"],
   [type |-> "remove", tools |-> {"edit"}, behavior |-> "ask", mode |-> "none", to |-> "session"]}

\* Calls are told apart by nothing but their names.
CONSTANTS c1, c2
Symmetry == Permutations({c1, c2})
=============================================================================
