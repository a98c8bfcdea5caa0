SPECIFICATION FairSpec
CONSTANTS
  Receivers = {r1}
  Messages = {m1, m2}
  Exits = {e1, e2}
  MaxTimers = 2
INVARIANTS NoMissedMessage
PROPERTIES TimedReceiveReturns ReceiveReturnsOnArrival
