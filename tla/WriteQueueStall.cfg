SPECIFICATION FairSpec
CONSTANTS
  io = io
  Writers = {app1}
  Msgs = {m1, m2}
  MayFail = FALSE
PROPERTY EveryMessageWritten
CHECK_DEADLOCK FALSE
