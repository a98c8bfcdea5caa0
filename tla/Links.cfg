SPECIFICATION FairSpec
CONSTANTS
  io = io
  b1 = b1
  b2 = b2
  b3 = b3
  n1 = n1
  n2 = n2
  Threads = {app1, io}
  Boxes = {b1, b2}
  Remotes = {r1}
  Names = {n1}
  name_of <- OwnNames
  Droppable = {b1}
  StaleLinks = TRUE
  Unreachable = TRUE
  MaxLinks = 2
  MaxIncoming = 1
INVARIANTS LinkStoredOnce ReportedOnce LostByThrowOrOvertaken OpenMailboxReachable
PROPERTY ThreadsReturn
CHECK_DEADLOCK FALSE
