----------------------- MODULE MCCredentialLifecycle -----------------------
(* Small instances of CredentialLifecycle for TLC. *)
EXTENDS CredentialLifecycle, TLC

Symmetry == Permutations(Bindings) \cup Permutations(Clients)
=============================================================================
