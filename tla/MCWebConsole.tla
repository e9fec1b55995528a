---------------------------- MODULE MCWebConsole ---------------------------
(* Small instances of WebConsole for TLC. *)
EXTENDS WebConsole, TLC

Symmetry == Permutations(Bindings) \cup Permutations(Accounts) \cup Permutations(Names)
=============================================================================
