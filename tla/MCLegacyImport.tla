---------------------------- MODULE MCLegacyImport ----------------------------
(* Small instances of LegacyImport for TLC. *)
EXTENDS LegacyImport, TLC

CONSTANT a1

MCEntries == {<<a1, "incoming">>, <<a1, "outgoing">>}

MCMixes ==
  {{"store", "migrate", "keyring"}, {"store", "reset", "torn"},
   {"migrate", "reset", "crash", "write", "keyring"}, {"store", "migrate", "select"},
   {"freeze", "reset", "select", "initialize"}, {"store", "initialize"},
   {"import", "store"}, {"import", "operate"}, {"import", "select", "migrate", "attention"}}

Symmetry == Permutations(Procs) \cup Permutations(Secrets)
=============================================================================
