------------------------ MODULE MCMailboxProjection ------------------------
(* Small instances of MailboxProjection for TLC. *)
EXTENDS MailboxProjection, TLC

FaultMixes ==
  {{"append", "expunge", "reset", "invalidate", "omission", "provider", "read", "write"},
   {"append", "expunge", "endpoint"},
   {"reset", "endpoint", "provider", "write"}}

WriterMixes == {{"append", "expunge", "reset", "invalidate"}}

KeywordMixes == {{"reset"}}

Symmetry == Permutations(Queries)
=============================================================================
