\* Does the loop end when the handle is dropped, with the chaff task on?
SPECIFICATION FairSpec
CONSTANTS
  Calls = {c1}
  Ops = {"get_dht"}
  Ids = {i1, i2}
  Inbound = {}
  Peers = {p1}
  ChaffEnabled = {TRUE}
  Chaff = Chaff
  NoReceiver = NoReceiver
  Nobody = Nobody
PROPERTY LoopEnds
CHECK_DEADLOCK FALSE
