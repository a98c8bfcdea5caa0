SPECIFICATION FairSpec
CONSTANTS
  Cookies <- TwoCookies
  Peers <- AnyPeer
  Versions = {TRUE, FALSE}
  MayBreak = TRUE
  MaxData = 2
INVARIANTS Trust Agreement SignalledOnce CallerToCalled
PROPERTIES AttemptEnds AcceptorFreed
CHECK_DEADLOCK FALSE
