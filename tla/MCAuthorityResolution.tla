----------------------- MODULE MCAuthorityResolution -----------------------
(* A small instance of AuthorityResolution for TLC. *)
EXTENDS AuthorityResolution, TLC

Symmetry == Permutations(Bindings)
=============================================================================
