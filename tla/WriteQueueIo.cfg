SPECIFICATION FairSpec
CONSTANTS
  io = io
  Writers = {io}
  Msgs = {m1, m2, m3, m4}
  MayFail = TRUE
INVARIANTS WireOrder CompletionHasMessage BufferAlive
PROPERTY EveryMessageWritten
CHECK_DEADLOCK FALSE
