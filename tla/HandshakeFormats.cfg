SPECIFICATION Spec
CONSTANTS
  Names <- MCNames
  Statuses <- MCStatuses
  Versions = {4, 5, 6}
  Flags <- MCFlags
  Challenges <- MCChallenges
  Digests <- MCDigests
  own_digest <- Good
  length_field = 2
  Size <- HandshakeSize
  Messages <- MCForeign
INVARIANTS ParsedAsSent TurnedAwayForCause
CHECK_DEADLOCK FALSE
