SPECIFICATION Spec
CONSTANTS
  length_field = 4
  Size <- ConnectedSize
  Messages <- MCMessages
  Requests <- MCRequests
  Patterns <- MCPatterns
  MaxRequests = 3
  ReadSize = 14
INVARIANTS Framing HandledAsRequested MatchFaithful
CHECK_DEADLOCK FALSE
