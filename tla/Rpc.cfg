SPECIFICATION FairRpcSpec
CONSTANTS
  Receivers = {r1}
  MaxCalls = 3
  Strays = {s1}
  Messages <- AnswersAndStrays
  Exits = {}
  MaxTimers = 3
INVARIANT AnswerIsOwnInStep
PROPERTY RpcEnds
CHECK_DEADLOCK FALSE
