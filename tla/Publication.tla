---------------------------- MODULE Publication ----------------------------
(***************************************************************************)
(* What the programs keep in the DHT and how they change it: signed        *)
(* manifests, the list of claims of a tag, the snapshot of a board and     *)
(* zone delegations.  A list is changed by reading it, adding to it and    *)
(* writing it back, from as many nodes at once as there are publishers;    *)
(* the node program writes back, after a long download, the manifest it    *)
(* began with.                                                             *)
(*                                                                         *)
(* The DHT keeps no order: a put with Quorum::One may leave older records  *)
(* in other replicas, and the first record a get finds is its answer.  A   *)
(* key is mapped to the set of the records some replica holds.             *)
(***************************************************************************)
EXTENDS Naturals, Sequences

CONSTANTS
  Authors,    \* key pairs
  Spellings,  \* ways to write one tag: they share a key of the DHT
  Subnames,   \* the names of zones
  Tasks,      \* processes that run one command after the other
  Junk,       \* a record that cannot be decoded
  MaxStarts,  \* bound: how many commands are started
  MaxPath,    \* bound: components of an address after its root
  MaxForeign  \* bound: records that come from elsewhere

(* Junk is no manifest, no delegation and no list.                         *)
ASSUME PublicationAssumption ==
  /\ "none" \notin Authors
  /\ MaxStarts \in Nat
  /\ MaxPath \in Nat \ {0}
  /\ MaxForeign \in Nat
  /\ Junk \notin [author : Authors, sequence : {1}, edition : 1..MaxStarts,
                  ok : BOOLEAN]
  /\ Junk \notin [parent : Authors, subname : Subnames, child : Authors,
                  ok : BOOLEAN]
  /\ \A l \in SUBSET (1..MaxStarts) : l # Junk
  /\ \A l \in SUBSET [author : Authors, tag : Spellings,
                     edition : 1..MaxStarts, ok : BOOLEAN] : l # Junk

VARIABLES
  dht,       \* the records the replicas hold under each key
  at,        \* the step each task is about to take, "idle" before and after
  by,        \* the author a task acts for or asks about
  key,       \* the key of the task's get or put
  own,       \* the tag of a claim or search, the path of a resolution, the
             \*   child of a delegation: a tuple
  held,      \* what the task has read and not yet used
  number,    \* the number of the task's command
  starts,    \* how many commands were started
  foreign,   \* how many records came from elsewhere
  signed,    \* history: every manifest, claim and delegation signed
  accepted,  \* history: the manifests readers went on with
  listed,    \* history: the claims shown, each with the tag asked for
  resolved,  \* history: answers to resolutions, with the address
  due,       \* history: the record the finished commands make, one by one
  quiet      \* history: no overlap, failure or foreign record at a key

vars == <<dht, at, by, key, own, held, number, starts, foreign,
          signed, accepted, listed, resolved, due, quiet>>
history == <<signed, accepted, listed, resolved>>

Site(a) == <<"site", a>>
Tag == <<"tag">>        \* tag_dht_key trims and lowers the spelling
Board == <<"board">>
Zone(a, s) == <<"zone", a, s>>

Keys == {Site(a) : a \in Authors} \cup {Tag, Board}
          \cup {Zone(a, s) : a \in Authors, s \in Subnames}

(* Every publication has the sequence number 1; `edition` tells them apart *)
(* (created_at and root_cid do in the code).                               *)
Manifest(a, n) == [author |-> a, sequence |-> 1, edition |-> n, ok |-> TRUE]
TagClaim(a, s, n) == [author |-> a, tag |-> s, edition |-> n, ok |-> TRUE]
Delegation(a, s, c) ==
  [parent |-> a, subname |-> s, child |-> c, ok |-> TRUE]

(* The steps between a read, or the first write, and the end of the write. *)
Writing == {"putSite", "seedGet", "seedPut", "getTag", "putTag", "getBoard",
            "putBoard", "putZone"}
Reading == {"readSite", "readTag", "readBoard", "readZone"}

TypeOK ==
  /\ at \in [Tasks -> Writing \cup Reading \cup {"idle"}]
  /\ \A t \in Tasks : at[t] # "idle" => key[t] \in Keys
  /\ \A t \in Tasks : at[t] \in {"seedPut", "putTag", "putBoard"}
                        => held[t] # Junk
  /\ number \in [Tasks -> 0..starts]
  /\ starts \in 0..MaxStarts
  /\ foreign \in 0..MaxForeign
  /\ \A a \in Authors : \A m \in dht[Site(a)] \ {Junk} :
       m \in [author : Authors, sequence : {1}, edition : 1..starts,
              ok : BOOLEAN]
  /\ \A l \in dht[Tag] \ {Junk} :
       l \subseteq [author : Authors, tag : Spellings, edition : 1..starts,
                    ok : BOOLEAN]
  /\ \A l \in dht[Board] \ {Junk} : l \subseteq 1..starts
  /\ \A r \in resolved : r.key \in Authors /\ r.path \in Seq(Subnames)

Init ==
  /\ dht = [k \in Keys |-> {}]
  /\ at = [t \in Tasks |-> "idle"]
  /\ by = [t \in Tasks |-> "none"]
  /\ key = [t \in Tasks |-> <<>>]
  /\ own = [t \in Tasks |-> <<>>]
  /\ held = [t \in Tasks |-> {}]
  /\ number = [t \in Tasks |-> 0]
  /\ starts = 0
  /\ foreign = 0
  /\ signed = {}
  /\ accepted = {}
  /\ listed = {}
  /\ resolved = {}
  /\ due = [k \in Keys |-> Junk]
  /\ quiet = [k \in Keys |-> TRUE]

-----------------------------------------------------------------------------
Alone(t, k) == \A u \in Tasks \ {t} : at[u] \in Writing => key[u] # k

(* Task t turns to key k.                                                  *)
TurnTo(t, step, k) ==
  /\ at' = [at EXCEPT ![t] = step]
  /\ key' = [key EXCEPT ![t] = k]
  /\ quiet' = [quiet EXCEPT ![k] = @ /\ (step \in Writing => Alone(t, k))]

(* A command begins; nodes are started for it alone.                       *)
Begin(t, a, step, k, x) ==
  /\ at[t] = "idle"
  /\ starts < MaxStarts
  /\ starts' = starts + 1
  /\ number' = [number EXCEPT ![t] = starts + 1]
  /\ by' = [by EXCEPT ![t] = a]
  /\ own' = [own EXCEPT ![t] = x]
  /\ held' = [held EXCEPT ![t] = {}]
  /\ TurnTo(t, step, k)
  /\ UNCHANGED <<dht, foreign, accepted, listed, resolved, due>>

End(t) ==
  /\ at' = [at EXCEPT ![t] = "idle"]
  /\ key' = [key EXCEPT ![t] = <<>>]
  /\ by' = [by EXCEPT ![t] = "none"]
  /\ own' = [own EXCEPT ![t] = <<>>]
  /\ held' = [held EXCEPT ![t] = {}]
  /\ number' = [number EXCEPT ![t] = 0]

(* The first record found, whichever it is; or none in time.               *)
Found(t, step, v) == at[t] = step /\ v \in dht[key[t]]
Missed(t, step) == at[t] = step

(* A get that fails although there is a record disturbs a writer.          *)
MissNoticed(t) ==
  quiet' = [quiet EXCEPT ![key[t]] =
              @ /\ (dht[key[t]] = {} \/ at[t] \notin Writing)]

(* A put that succeeds replaces the record in some replicas at least; what *)
(* the command does to the record of a quiet key is `makes`.               *)
Put(t, v, makes) ==
  \E kept \in SUBSET (dht[key[t]] \ {v}) :
    /\ dht' = [dht EXCEPT ![key[t]] = {v} \cup kept]
    /\ due' = [due EXCEPT ![key[t]] = makes]
    /\ quiet' = [quiet EXCEPT ![key[t]] = @ /\ kept = {}]

(* A put that fails, times out or is interrupted may have reached one.     *)
PutFails(t, v) ==
  \/ UNCHANGED <<dht, due, quiet>>
  \/ /\ dht' = [dht EXCEPT ![key[t]] = @ \cup {v}]
     /\ quiet' = [quiet EXCEPT ![key[t]] = FALSE]
     /\ UNCHANGED due

-----------------------------------------------------------------------------
(* Publication: the manifest, then the claim of the site for a tag, if one *)
(* is given.  The browser's publish_site gives none.                       *)
StartPublish(t, a, tags) ==
  /\ Begin(t, a, "putSite", Site(a), tags)
  /\ signed' = signed \cup {Manifest(a, starts + 1)}
       \cup {TagClaim(a, tags[i], starts + 1) : i \in DOMAIN tags}

PublishSite(t) ==
  LET m == Manifest(by[t], number[t]) IN
  /\ at[t] = "putSite"
  /\ \E kept \in SUBSET (dht[key[t]] \ {m}) :
       LET k == key[t] IN
       /\ dht' = [dht EXCEPT ![k] = {m} \cup kept]
       /\ due' = [due EXCEPT ![k] = m]
       /\ IF own[t] # <<>>
            THEN /\ at' = [at EXCEPT ![t] = "getTag"]
                 /\ key' = [key EXCEPT ![t] = Tag]
                 /\ quiet' = [quiet EXCEPT ![k] = @ /\ kept = {},
                                           ![Tag] = @ /\ Alone(t, Tag)]
                 /\ UNCHANGED <<by, own, held, number>>
            ELSE /\ End(t)
                 /\ quiet' = [quiet EXCEPT ![k] = @ /\ kept = {}]
  /\ UNCHANGED <<starts, foreign, history>>

PublishFails(t) ==
  /\ at[t] = "putSite"
  /\ PutFails(t, Manifest(by[t], number[t]))
  /\ End(t)
  /\ UNCHANGED <<starts, foreign, history>>

(* Faulty: the claims the author made before stay.                         *)
OthersAll(l, t) == l

(* The list as it was, without the author's own claim of that spelling;    *)
(* nothing at all if the get failed or the record cannot be decoded.       *)
Others(l, t) ==
  {c \in l : c.author # by[t] \/ <<c.tag>> # own[t]}

TakeList(t, l) ==
  /\ at' = [at EXCEPT ![t] = "putTag"]
  /\ held' = [held EXCEPT ![t] = l]
  /\ UNCHANGED <<dht, by, key, own, number, starts, foreign, history, due>>

TagFound(t, v) ==
  /\ Found(t, "getTag", v)
  /\ TakeList(t, IF v = Junk THEN {} ELSE v)
  /\ UNCHANGED quiet

TagMissed(t) ==
  /\ Missed(t, "getTag")
  /\ TakeList(t, {})
  /\ MissNoticed(t)

Claimed(l, t) == Others(l, t) \cup {TagClaim(by[t], own[t][1], number[t])}

(* What the put says is ignored.                                           *)
ClaimTag(t) ==
  /\ at[t] = "putTag"
  /\ \/ Put(t, Claimed(held[t], t),
            Claimed(IF due[Tag] = Junk THEN {} ELSE due[Tag], t))
     \/ PutFails(t, Claimed(held[t], t))
  /\ End(t)
  /\ UNCHANGED <<starts, foreign, history>>

-----------------------------------------------------------------------------
(* A post on the board: a new board if the get fails, an error if what it  *)
(* finds cannot be loaded.  Nothing merges two snapshots.                  *)
StartPost(t, a) ==
  Begin(t, a, "getBoard", Board, <<>>) /\ UNCHANGED signed

TakeBoard(t, l) ==
  /\ at' = [at EXCEPT ![t] = "putBoard"]
  /\ held' = [held EXCEPT ![t] = l]
  /\ UNCHANGED <<by, key, own, number>>

(* Faulty: every post begins a new board.                                  *)
BoardFoundAnew(t, v) ==
  /\ Found(t, "getBoard", v)
  /\ IF v = Junk THEN End(t) ELSE TakeBoard(t, {})
  /\ UNCHANGED <<dht, starts, foreign, history, due, quiet>>

(* Faulty: what cannot be loaded is not an error.                          *)
BoardFoundAny(t, v) ==
  /\ Found(t, "getBoard", v)
  /\ TakeBoard(t, v)
  /\ UNCHANGED <<dht, starts, foreign, history, due, quiet>>

BoardFound(t, v) ==
  /\ Found(t, "getBoard", v)
  /\ IF v = Junk THEN End(t) ELSE TakeBoard(t, v)
  /\ UNCHANGED <<dht, starts, foreign, history, due, quiet>>

BoardMissed(t) ==
  /\ Missed(t, "getBoard")
  /\ TakeBoard(t, {})
  /\ MissNoticed(t)
  /\ UNCHANGED <<dht, starts, foreign, history, due>>

Post(t) ==
  /\ at[t] = "putBoard"
  /\ \/ Put(t, held[t] \cup {number[t]},
            (IF due[Board] = Junk THEN {} ELSE due[Board]) \cup {number[t]})
     \/ PutFails(t, held[t] \cup {number[t]})
  /\ End(t)
  /\ UNCHANGED <<starts, foreign, history>>

-----------------------------------------------------------------------------
(* The owner of key a hands the subname s to the key c.                    *)
StartDelegate(t, a, s, c) ==
  /\ Begin(t, a, "putZone", Zone(a, s), <<c>>)
  /\ signed' = signed \cup {Delegation(a, s, c)}

Delegate(t) ==
  LET zd == Delegation(by[t], key[t][3], own[t][1]) IN
  /\ at[t] = "putZone"
  /\ Put(t, zd, zd) \/ PutFails(t, zd)
  /\ End(t)
  /\ UNCHANGED <<starts, foreign, history>>

-----------------------------------------------------------------------------
(* Faulty: readers take what can be decoded.                               *)
VerifiedNot(v) == v # Junk

(* Who reads a manifest verifies its form and its author's signature.      *)
Verified(v) == v # Junk /\ v.ok

(* The node program reads a manifest, downloads the site and puts the same *)
(* manifest again, whatever was published in between.                      *)
StartSeed(t, a) ==
  Begin(t, a, "seedGet", Site(a), <<>>) /\ UNCHANGED signed

SeedFound(t, v) ==
  /\ Found(t, "seedGet", v)
  /\ IF Verified(v)
       THEN /\ at' = [at EXCEPT ![t] = "seedPut"]
            /\ held' = [held EXCEPT ![t] = v]
            /\ accepted' = accepted \cup {v}
            /\ UNCHANGED <<by, key, own, number>>
       ELSE End(t) /\ UNCHANGED accepted
  /\ UNCHANGED <<dht, starts, foreign, signed, listed, resolved, due, quiet>>

SeedPuts(t) ==
  /\ at[t] = "seedPut"
  /\ Put(t, held[t], due[key[t]]) \/ PutFails(t, held[t])
  /\ End(t)
  /\ UNCHANGED <<starts, foreign, history>>

(* fetch, pin and feed of the CLI and the browser's fetch only read it.    *)
StartRead(t, a) ==
  Begin(t, a, "readSite", Site(a), <<>>) /\ UNCHANGED signed

SiteFound(t, v) ==
  /\ Found(t, "readSite", v)
  /\ accepted' = IF Verified(v) THEN accepted \cup {v} ELSE accepted
  /\ End(t)
  /\ UNCHANGED <<dht, starts, foreign, signed, listed, resolved, due, quiet>>

(* A search shows the verified claims of exactly the spelling asked for.   *)
StartSearch(t, tag) ==
  Begin(t, "none", "readTag", Tag, <<tag>>) /\ UNCHANGED signed

Matching(l, tag) == {c \in l : Verified(c) /\ c.tag = tag}

TagSearched(t, v) ==
  /\ Found(t, "readTag", v)
  /\ listed' = IF v = Junk THEN listed
               ELSE listed \cup {<<own[t][1], c>> : c \in Matching(v, own[t][1])}
  /\ End(t)
  /\ UNCHANGED <<dht, starts, foreign, signed, accepted, resolved, due, quiet>>

StartReadBoard(t) ==
  Begin(t, "none", "readBoard", Board, <<>>) /\ UNCHANGED signed

(* Entries are not signed; whatever was loaded is shown.                   *)
BoardRead(t, v) ==
  /\ Found(t, "readBoard", v)
  /\ End(t)
  /\ UNCHANGED <<dht, starts, foreign, history, due, quiet>>

(* No record in time: each of these commands ends with that.               *)
ReadMissed(t) ==
  /\ \E step \in {"seedGet", "readSite", "readTag", "readBoard"} :
       Missed(t, step)
  /\ MissNoticed(t)
  /\ End(t)
  /\ UNCHANGED <<dht, starts, foreign, history, due>>

-----------------------------------------------------------------------------
(* A resolution of root/sub/sub...: first it collects delegations along    *)
(* the path from the DHT (fetch_zone_chain), then it walks the path again  *)
(* over what it collected (resolve_full_uri).                              *)
StartResolve(t, a, s) ==
  Begin(t, a, "readZone", Zone(a, s), <<s>>) /\ UNCHANGED signed

(* Faulty: a delegation is filed under the key where it was found.         *)
AddedWhereFound(zones, zd, k) ==
  {z \in zones : z.parent # k[2] \/ z.subname # k[3]}
    \cup {[zd EXCEPT !.parent = k[2], !.subname = k[3]]}

(* ZoneStore::add files a verified delegation under its own parent and     *)
(* subname, wherever it was found.                                         *)
Added(zones, zd, k) ==
  {z \in zones : z.parent # zd.parent \/ z.subname # zd.subname} \cup {zd}

(* Where the first i components lead to from the root.                     *)
Follow(root, path, zones) ==
  LET f[i \in 0..Len(path)] ==
        IF i = 0 THEN {root}
        ELSE {z.child : z \in {y \in zones : /\ y.parent \in f[i - 1]
                                             /\ y.subname = path[i]}}
  IN  f

(* The key of the last component that is delegated; the rest is a path in  *)
(* its content.                                                            *)
Resolution(root, path, zones) ==
  LET f == Follow(root, path, zones)
      last == CHOOSE i \in 0..Len(path) :
                f[i] # {} /\ \A j \in 0..Len(path) : f[j] # {} => j <= i
  IN  CHOOSE a \in f[last] : TRUE

Answer(t, zones) ==
  /\ resolved' = resolved \cup
       {[root |-> by[t], path |-> own[t],
         key |-> Resolution(by[t], own[t], zones)]}
  /\ End(t)

ZoneFound(t, v) ==
  /\ Found(t, "readZone", v)
  /\ IF ~Verified(v) THEN End(t) /\ UNCHANGED <<resolved, quiet>>
     ELSE LET zones == Added(held[t], v, key[t]) IN
          \/ Answer(t, zones) /\ UNCHANGED quiet
          \/ /\ Len(own[t]) < MaxPath
             /\ \E s \in Subnames :
                  /\ own' = [own EXCEPT ![t] = Append(@, s)]
                  /\ TurnTo(t, "readZone", Zone(v.child, s))
             /\ held' = [held EXCEPT ![t] = zones]
             /\ UNCHANGED <<by, number, resolved>>
  /\ UNCHANGED <<dht, starts, foreign, signed, accepted, listed, due>>

ZoneMissed(t) ==
  /\ Missed(t, "readZone")
  /\ Answer(t, held[t])
  /\ UNCHANGED <<dht, starts, foreign, signed, accepted, listed, due, quiet>>

-----------------------------------------------------------------------------
(* Another replica comes with a record of its own: one that was altered,   *)
(* one that was signed for another key or long ago, one that is no record. *)
Strange(k) ==
  {Junk} \cup
  CASE k[1] = "site" ->
         LET ms == {x \in signed : "sequence" \in DOMAIN x}
         IN  ms \cup {[m EXCEPT !.ok = FALSE] : m \in ms}
    [] k[1] = "zone" ->
         LET zs == {x \in signed : "child" \in DOMAIN x}
         IN  zs \cup {[z EXCEPT !.ok = FALSE] : z \in zs}
    [] k[1] = "tag" ->
         LET cs == {x \in signed : "tag" \in DOMAIN x}
         IN  {{[c EXCEPT !.ok = FALSE]} : c \in cs}
    [] OTHER -> {}

Interfere(k) ==
  /\ foreign < MaxForeign
  /\ foreign' = foreign + 1
  /\ quiet' = [quiet EXCEPT ![k] = FALSE]
  /\ \E v \in Strange(k) : dht' = [dht EXCEPT ![k] = @ \cup {v}]
  /\ UNCHANGED <<at, by, key, own, held, number, starts, history, due>>

Start(t) ==
  \/ \E a \in Authors :
       \/ \E tags \in {<<>>} \cup {<<s>> : s \in Spellings} : StartPublish(t, a, tags)
       \/ StartPost(t, a)
       \/ \E s \in Subnames, c \in Authors : StartDelegate(t, a, s, c)
       \/ StartSeed(t, a)
       \/ StartRead(t, a)
       \/ \E s \in Subnames : StartResolve(t, a, s)
  \/ \E tag \in Spellings : StartSearch(t, tag)
  \/ StartReadBoard(t)

Step(t) ==
  \/ PublishSite(t) \/ PublishFails(t) \/ TagMissed(t) \/ ClaimTag(t)
  \/ BoardMissed(t) \/ Post(t) \/ Delegate(t)
  \/ SeedPuts(t) \/ ReadMissed(t) \/ ZoneMissed(t)
  \/ /\ key[t] # <<>>
     /\ \E v \in dht[key[t]] :
          \/ TagFound(t, v) \/ BoardFound(t, v) \/ SeedFound(t, v)
          \/ SiteFound(t, v) \/ TagSearched(t, v) \/ BoardRead(t, v)
          \/ ZoneFound(t, v)

Next ==
  \/ \E t \in Tasks : Start(t) \/ Step(t)
  \/ \E k \in Keys : Interfere(k)

Spec == Init /\ [][Next]_vars

-----------------------------------------------------------------------------
(* As long as nothing overlaps, fails or comes from elsewhere at a key,    *)
(* every replica holds what the finished commands make of the record when  *)
(* they run one by one: no post, claim or delegation is lost, and the site *)
(* is its last edition.                                                    *)
QuietWritesKept ==
  \A k \in Keys : quiet[k] => dht[k] = {due[k]} \ {Junk}

(* However publishers race, no list holds two claims of one author for one *)
(* spelling.                                                               *)
OneClaimPerAuthor ==
  \A l \in dht[Tag] \ {Junk} : \A c, d \in l :
    c.author = d.author /\ c.tag = d.tag => c = d

(* What a reader goes on with and what a search shows was signed, and the  *)
(* claims shown are of the spelling asked for.                             *)
ShownSigned ==
  /\ accepted \subseteq signed
  /\ \A x \in listed : x[2] \in signed /\ x[2].tag = x[1]

(* The key an address resolves to was delegated, from the root, component  *)
(* by component, by the key that each delegation is a zone of, even if the *)
(* DHT answers with delegations of other zones.                            *)
ResolvedByDelegation ==
  \A r \in resolved :
    LET zones == {x \in signed : "child" \in DOMAIN x} IN
    \E i \in 0..Len(r.path) : r.key \in Follow(r.root, r.path, zones)[i]

(* types.rs: the sequence of an author's manifests grows, which is to keep *)
(* old ones from coming back.                                              *)
SequenceGrows ==
  \A m, n \in {x \in signed : "sequence" \in DOMAIN x} :
    m.author = n.author /\ m.edition < n.edition => m.sequence < n.sequence
=============================================================================
