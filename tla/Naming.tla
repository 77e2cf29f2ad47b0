------------------------------- MODULE Naming -------------------------------
(***************************************************************************)
(* Names of the web of trust: a petname the user assigned wins; otherwise  *)
(* the lists that trusted peers published are searched, the nearest first, *)
(* over edges of positive trust and up to a depth (WotResolver of          *)
(* alternet-core/src/naming.rs).  The model follows one name.              *)
(***************************************************************************)
EXTENDS Integers, Sequences, FiniteSets

CONSTANTS
  Me,           \* the local user
  Peers,        \* the others
  NameKeys,     \* public keys a name may stand for
  Scores,       \* scores of trust edges
  MaxDepth,     \* max_depth
  MaxEdges,     \* bound: edges added
  MaxLists      \* bound: lists taken in, names assigned or removed

ASSUME NamingAssumption ==
  /\ Me \notin Peers
  /\ IsFiniteSet(Peers)
  /\ Scores \subseteq Int
  /\ MaxDepth \in Nat

VARIABLES
  trust,   \* trust_graph: each one's edges, in the order they were added
  lists,   \* peer_petnames: what a peer's list has for the name: nothing, an
           \*   entry that is no public key, or a key
  petname, \* the key the user assigned to the name, if any
  changes  \* how many lists or petnames were changed

namingVars == <<trust, lists, petname, changes>>

People == Peers \cup {Me}
None == [is |-> "none", key |-> {}]
Broken == [is |-> "broken", key |-> {}]
Entry(k) == [is |-> "key", key |-> {k}]
Entries == {Entry(k) : k \in NameKeys}

NamingInit ==
  /\ trust = [p \in People |-> <<>>]
  /\ lists = [p \in Peers |-> None]
  /\ petname = None
  /\ changes = 0

Edges == {e \in People \X (1..MaxEdges) : e[2] \in DOMAIN trust[e[1]]}

(* add_trust appends: an earlier edge to the same peer stays.              *)
AddTrust(from, to, score) ==
  /\ Cardinality(Edges) < MaxEdges
  /\ trust' = [trust EXCEPT ![from] = Append(@, [to |-> to, score |-> score])]
  /\ UNCHANGED <<lists, petname, changes>>

(* add_trust_edge refuses an edge that its source did not sign.  The score *)
(* of a signed edge was clamped.                                           *)
Clamped(score) == IF score > 10 THEN 10 ELSE IF score < -10 THEN -10 ELSE score

AddTrustEdge(from, to, score, signed) ==
  signed /\ AddTrust(from, to, Clamped(score))

(* A list replaces the one the peer published before.                      *)
IngestPeerPetnames(p, e) ==
  /\ changes < MaxLists
  /\ changes' = changes + 1
  /\ lists' = [lists EXCEPT ![p] = e]
  /\ UNCHANGED <<trust, petname>>

(* assign and remove; a name of other characters is refused (validate).    *)
AssignOrRemove(e) ==
  /\ changes < MaxLists
  /\ changes' = changes + 1
  /\ petname' = e
  /\ UNCHANGED <<trust, lists>>

NamingNext ==
  \/ \E from \in People, to \in People, score \in Scores :
       \/ AddTrust(from, to, score)
       \/ AddTrustEdge(from, to, score, TRUE)
  \/ \E p \in Peers, e \in Entries \cup {None, Broken} :
       IngestPeerPetnames(p, e)
  \/ \E e \in Entries \cup {None} : AssignOrRemove(e)

NamingSpec == NamingInit /\ [][NamingNext]_namingVars

-----------------------------------------------------------------------------
Published(p) == IF p = Me THEN None ELSE lists[p]

(* Faulty: an edge is followed whatever its score.                         *)
VisitAny(search, edge, depth) ==
  IF search.answer # None \/ edge.to \in search.visited THEN search
  ELSE [visited |-> search.visited \cup {edge.to},
        answer |-> IF Published(edge.to) \in Entries THEN Published(edge.to)
                                                     ELSE None,
        queue |-> Append(search.queue, <<edge.to, depth + 1>>)]

(* One edge of the peer that is being looked at: its target is visited     *)
(* once; its entry for the name ends the search, and if it has none that   *)
(* can be decoded, it is looked at in its turn.                            *)
Visit(search, edge, depth) ==
  IF \/ search.answer # None
     \/ edge.score <= 0
     \/ edge.to \in search.visited
    THEN search
  ELSE [visited |-> search.visited \cup {edge.to},
        answer |-> IF Published(edge.to) \in Entries THEN Published(edge.to)
                                                     ELSE None,
        queue |-> Append(search.queue, <<edge.to, depth + 1>>)]

(* What the edges of one peer make of the search, after the first i of     *)
(* them.                                                                   *)
Visits(search, edges, depth) ==
  LET f[i \in 0..Len(edges)] ==
        IF i = 0 THEN search ELSE Visit(f[i - 1], edges[i], depth)
  IN  f

(* One turn of the loop: the peer at the head of the queue.                *)
Turn(search) ==
  IF search.answer # None \/ search.queue = <<>> THEN search
  ELSE LET who == Head(search.queue)[1]
           depth == Head(search.queue)[2]
           rest == [search EXCEPT !.queue = Tail(@)]
       IN  IF depth >= MaxDepth THEN rest
           ELSE Visits(rest, trust[who], depth)[Len(trust[who])]

SearchInit == [queue |-> <<<<Me, 0>>>>, visited |-> {Me}, answer |-> None]

(* The search after n turns.                                               *)
Search ==
  LET f[n \in 0..Cardinality(People)] ==
        IF n = 0 THEN SearchInit ELSE Turn(f[n - 1])
  IN  f

ResolveWot == Search[Cardinality(People)].answer

ResolveName == IF petname # None THEN petname ELSE ResolveWot

-----------------------------------------------------------------------------
(* Who can be reached over at most n edges of positive trust.              *)
Within ==
  LET f[n \in 0..MaxDepth] ==
        IF n = 0 THEN {Me}
        ELSE f[n - 1] \cup
             {p \in People : \E q \in f[n - 1] : \E i \in DOMAIN trust[q] :
                trust[q][i].to = p /\ trust[q][i].score > 0}
  IN  f

Knowing(n) == {p \in Within[n] : Published(p) \in Entries}

(* Whatever the order in which trust was given, a name stands for what the *)
(* user assigned, else for the entry of a peer at the least distance of    *)
(* trust that has one, and for nothing only if no peer within the depth    *)
(* has one.                                                                *)
WotNearest ==
  IF petname # None THEN ResolveName = petname
  ELSE IF Knowing(MaxDepth) = {} THEN ResolveName = None
  ELSE \E n \in 1..MaxDepth :
         /\ Knowing(n - 1) = {}
         /\ \E p \in Knowing(n) : ResolveName = Published(p)
=============================================================================
