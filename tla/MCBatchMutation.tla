-------------------------- MODULE MCBatchMutation --------------------------
(* Small instances of BatchMutation for TLC. *)
EXTENDS BatchMutation
=============================================================================
