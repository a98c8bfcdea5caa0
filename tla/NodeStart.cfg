SPECIFICATION Spec
CONSTANTS
  Threads = {t1, t2}
  max_pid_id = 2
  max_serial = 1
  own_name <- OwnName
  own_port = 4097
  peer_name <- PeerName
  peer_port = 5003
  Creations = {1, 2}
  MaxSpent = 8
INVARIANTS PidFindsMailbox EpmdAgrees
SYMMETRY ThreadSymmetry
CHECK_DEADLOCK FALSE
