\* One process and the scripts of MCLocalServer: framing, reads, attachments,
\* protocol calls; the client cancels or ends its input at any point.
SPECIFICATION FairSpec
CONSTANTS
  Scripts <- AllScripts
  FrameBytes = 3
  ChunkBytes = 4
  MessageBytes = 2
  Writers = {1, 2}
  Downloads = {1, 2}
  MaxOutside = 1
  Count = 2
  MarkBatch = 1
  MaxPolicies = 2
  MaxEpoch = 2
  CommandLists <- Lists
  MaxRevision = 2
INVARIANTS
  FramesInOrder
  OutputIsMessages
  NothingLeft
  TargetIsWhole
  MarksWhatItRead
  ReportIsHonest
  OneLateWrite
  IndexIsVoided
PROPERTIES
  ServerEnds
CHECK_DEADLOCK FALSE
