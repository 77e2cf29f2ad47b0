----------------------------- MODULE OnionRoute -----------------------------
(***************************************************************************)
(* Onion requests across nodes.  A node makes an X25519 key when it starts *)
(* and may announce it in the DHT, where the record outlives the node.  A  *)
(* fetch builds a packet with one layer for each hop, encrypted to the key *)
(* the DHT has for it; each node that gets a packet peels one layer        *)
(* (NodeLoop has what it does with the requests).  In this version         *)
(* request_block_onion refuses to send what was built; a packet is sent by *)
(* a peer whose node does send it.                                         *)
(***************************************************************************)
EXTENDS Naturals, Sequences, FiniteSets

CONSTANTS
  Nodes,        \* nodes that relay and store blocks
  MaxSessions,  \* bound: how often a node starts
  MaxPackets    \* bound: packets built

ASSUME OnionRouteAssumption ==
  /\ MaxSessions \in Nat \ {0}
  /\ MaxPackets \in Nat

VARIABLES
  session,    \* the number of each node's session, which names its key
  announced,  \* the keys the DHT has for each node, named by their sessions
  target,     \* the node that is asked for the block
  route,      \* the hops of the packet, with the key used for each
  packet,     \* the layers that are left
  holder,     \* who has the packet: a set of at most one node
  outcome,    \* "none", "built", "sent", "answered", "refused", "unpeeled"
  built,      \* how many packets were built
  seen        \* history: what each hop learned, <<hop, next>> or <<hop>>

onionVars == <<session, announced, target, route, packet, holder, outcome,
               built, seen>>

(* Any record of a node may be the one that is found.                      *)
Hops(p) == {[node |-> p, key |-> <<p, n>>] : n \in announced[p]}

OnionInit ==
  /\ session = [p \in Nodes |-> 1]
  /\ announced = [p \in Nodes |-> {}]
  /\ target \in Nodes
  /\ route = <<>>
  /\ packet = <<>>
  /\ holder = {}
  /\ outcome = "none"
  /\ built = 0
  /\ seen = {}

(* announce_relay_key of the CLI and the node program; older records may   *)
(* stay in other replicas.                                                 *)
AnnounceRelayKey(p) ==
  /\ \E kept \in SUBSET announced[p] :
       announced' = [announced EXCEPT ![p] = {session[p]} \cup kept]
  /\ UNCHANGED <<session, target, route, packet, holder, outcome, built, seen>>

(* A new session has a new key; the announcement stays until the next.     *)
Restart(p) ==
  /\ session[p] < MaxSessions
  /\ session' = [session EXCEPT ![p] = @ + 1]
  /\ UNCHANGED <<announced, target, route, packet, holder, outcome, built,
                 seen>>

(* Faulty: every layer carries the request.                                *)
WrapOnionAll(hops) ==
  [i \in DOMAIN hops |->
     [key |-> hops[i].key,
      next |-> IF i = Len(hops) THEN {} ELSE {hops[i + 1].node},
      payload |-> TRUE]]

(* wrap_onion, from the last hop to the first: the last layer takes the    *)
(* payload, each other one the name of the next hop and the packet for it. *)
WrapOnion(hops) ==
  [i \in DOMAIN hops |->
     [key |-> hops[i].key,
      next |-> IF i = Len(hops) THEN {} ELSE {hops[i + 1].node},
      payload |-> i = Len(hops)]]

(* onion_fetch_block: without the target's key there is no packet; the     *)
(* relay is the first peer known that is not the target, and is left out   *)
(* if its key is not found in time.                                        *)
OnionFetch(p, relay) ==
  /\ outcome \in {"none", "answered", "refused", "unpeeled"}
  /\ built < MaxPackets
  /\ \E last \in Hops(p) :
       \E hops \in {<<last>>}
              \cup {<<h, last>> : h \in Hops(relay)} :
         /\ route' = hops
         /\ packet' = WrapOnion(hops)
  /\ target' = p
  /\ outcome' = "built"
  /\ built' = built + 1
  /\ holder' = {}
  /\ seen' = {}
  /\ UNCHANGED <<session, announced>>

(* request_block_onion.                                                    *)
RequestBlockOnion ==
  /\ outcome = "built"
  /\ outcome' = "refused"
  /\ packet' = <<>>
  /\ UNCHANGED <<session, announced, target, route, holder, built, seen>>

(* A node that does send it.                                               *)
SentElsewhere ==
  /\ outcome = "built"
  /\ outcome' = "sent"
  /\ holder' = {route[1].node}
  /\ UNCHANGED <<session, announced, target, route, packet, built, seen>>

(* handle_onion_forward: a layer that does not open ends it, a payload is  *)
(* answered, an inner packet goes to the next hop.                         *)
HandleOnionForward(p) ==
  LET layer == Head(packet) IN
  /\ outcome = "sent"
  /\ holder = {p}
  /\ IF layer.key # <<p, session[p]>>
       THEN /\ outcome' = "unpeeled" /\ holder' = {} /\ packet' = <<>>
            /\ UNCHANGED seen
     ELSE IF layer.payload
       THEN /\ outcome' = "answered" /\ holder' = {} /\ packet' = <<>>
            /\ seen' = seen \cup {<<p>>}
     ELSE /\ holder' = layer.next
          /\ packet' = Tail(packet)
          /\ seen' = seen \cup {<<p, q>> : q \in layer.next}
          /\ UNCHANGED outcome
  /\ UNCHANGED <<session, announced, target, route, built>>

OnionNext ==
  \/ \E p \in Nodes :
       \/ AnnounceRelayKey(p) \/ Restart(p) \/ HandleOnionForward(p)
       \/ \E relay \in Nodes \ {p} : OnionFetch(p, relay)
  \/ RequestBlockOnion
  \/ SentElsewhere

OnionSpec == OnionInit /\ [][OnionNext]_onionVars

-----------------------------------------------------------------------------
(* The request of a packet is read by its target alone, in the session     *)
(* whose key was announced, and only after every hop of the route opened   *)
(* its layer; a relay learns the next hop and no more.  A layer does not   *)
(* open only because its node has started again since that key was made.   *)
OnlyTargetReads ==
  /\ \A x \in seen : Len(x) = 1 => x[1] = target
  /\ \A x \in seen : Len(x) = 2 =>
       \E i \in 1..(Len(route) - 1) : x = <<route[i].node, route[i + 1].node>>
  /\ outcome = "answered" =>
       /\ \A i \in DOMAIN route : \E x \in seen : x[1] = route[i].node
       /\ Cardinality(seen) = Len(route)
  /\ outcome = "sent" =>
       \A i \in 1..(Len(route) - Len(packet)) :
         \E x \in seen : x[1] = route[i].node
  /\ outcome = "unpeeled" =>
       \E i \in DOMAIN route : session[route[i].node] # route[i].key[2]
=============================================================================
