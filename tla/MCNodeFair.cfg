\* Liveness: one call of any method beside the chaff task, or without it, and
\* a relayed request; two ids, so that commands wait for one and reuse it.
SPECIFICATION FairSpec
CONSTANTS
  Calls = {c1}
  Ops = {"listen_on", "put_dht", "get_dht", "start_providing", "get_providers",
         "request_block", "known_peers"}
  Ids = {i1, i2}
  Inbound = {b1}
  Peers = {p1}
  ChaffEnabled = {TRUE, FALSE}
  Chaff = Chaff
  NoReceiver = NoReceiver
  Nobody = Nobody
INVARIANTS
  RelayHeldOnce
  SendersKeepLoop
PROPERTIES
  CallsReturn
  RelaysReturn
  LoopEndsWithoutChaff
CHECK_DEADLOCK FALSE
