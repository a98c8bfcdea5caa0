SPECIFICATION Spec
CONSTANTS
  na = na
  nb = nb
  a1 = a1
  b1 = b1
  b2 = b2
  Nodes = {na, nb}
  Boxes = {a1, b1, b2}
  node_of <- Home
  MaxConns = 2
  MaxCalls = 3
INVARIANTS LinksAgree ExitNotLost ReportedPerLink
SYMMETRY Exchange
CHECK_DEADLOCK FALSE
