SPECIFICATION FairSpec
CONSTANTS
  Clients = {c1, c2}
  Peers = {p1, p2}
  Callers = {p1}
  MaxConns = 3
  MaxStarts = 2
INVARIANTS OwnOutcomeAlone BrokenAcceptedDropped AcceptLoops
PROPERTIES CallEnds OutcomeTaken
CHECK_DEADLOCK FALSE
