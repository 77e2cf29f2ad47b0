\* Is the block a caller gets the one it asked for?
SPECIFICATION Spec
CONSTANTS
  Calls = {c1}
  Ops = {"request_block"}
  Ids = {i1, i2}
  Inbound = {}
  Peers = {p1}
  ChaffEnabled = {FALSE}
  Chaff = Chaff
  NoReceiver = NoReceiver
  Nobody = Nobody
INVARIANT BlockIsRequested
CHECK_DEADLOCK FALSE
