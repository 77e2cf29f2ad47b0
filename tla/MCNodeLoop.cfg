\* Safety: two calls of any method at the same time, whose commands, queries
\* and answers interleave freely, with one relayed request and three ids.
SPECIFICATION Spec
CONSTANTS
  Calls = {c1, c2}
  Ops = {"listen_on", "put_dht", "get_dht", "start_providing", "get_providers",
         "request_block", "known_peers"}
  Ids = {i1, i2, i3}
  Inbound = {b1}
  Peers = {p1, p2}
  ChaffEnabled = {FALSE}
  Chaff = Chaff
  NoReceiver = NoReceiver
  Nobody = Nobody
SYMMETRY Symmetry
INVARIANTS
  TypeOK
  ReplyHeldOnce
  AnswersOwnCommand
  EntriesHaveQueries
  OneQueryPerCommand
PROPERTIES
  ProvidersComplete
  ImplementsService
CHECK_DEADLOCK FALSE
