------------------------- MODULE PublicationProofs -------------------------
(***************************************************************************)
(* What holds of the records in the DHT and of what readers take from them *)
(* for any number of authors, processes, commands, failures and records    *)
(* that come from elsewhere.                                               *)
(***************************************************************************)
EXTENDS Publication, FiniteSetTheorems, WellFoundedInduction, SequenceTheorems, TLAPS

AnyManifest == [author : Authors, sequence : {1}, edition : 1..starts,
                ok : BOOLEAN]
AnyClaim == [author : Authors, tag : Spellings, edition : 1..starts,
             ok : BOOLEAN]
AnyDelegation == [parent : Authors, subname : Subnames, child : Authors,
                  ok : BOOLEAN]

(* No two claims of one author for one spelling.                           *)
OneEach(l) ==
  \A c, d \in l : c.author = d.author /\ c.tag = d.tag => c = d

(* What a replica may hold under key k.                                    *)
GoodRecord(k, v) ==
  \/ v = Junk
  \/ /\ \E a \in Authors : k = Site(a)
     /\ v \in AnyManifest
     /\ v.ok => v \in signed
  \/ /\ k = Tag
     /\ v \subseteq AnyClaim
     /\ OneEach(v)
     /\ \A c \in v : c.ok => c \in signed
  \/ /\ k = Board
     /\ v \subseteq 1..starts
  \/ /\ \E a \in Authors, s \in Subnames : k = Zone(a, s)
     /\ v \in AnyDelegation
     /\ v.ok => v \in signed

RecordsOK == \A k \in Keys : \A v \in dht[k] : GoodRecord(k, v)

Zones == {x \in signed : "child" \in DOMAIN x}

(* What a task knows at each of its steps.                                 *)
TaskOK(t) ==
  /\ at[t] # "idle" => number[t] \in 1..starts
  /\ at[t] \in {"putSite", "seedGet", "seedPut", "readSite"} =>
       by[t] \in Authors /\ key[t] = Site(by[t])
  /\ at[t] = "putSite" =>
       /\ Manifest(by[t], number[t]) \in signed
       /\ \/ own[t] = <<>>
          \/ \E s \in Spellings : /\ own[t] = <<s>>
                                  /\ TagClaim(by[t], s, number[t]) \in signed
  /\ at[t] = "seedPut" => held[t] \in AnyManifest \cap signed /\ held[t].ok
  /\ at[t] \in {"getTag", "putTag"} =>
       /\ by[t] \in Authors
       /\ \E s \in Spellings : /\ own[t] = <<s>>
                               /\ TagClaim(by[t], s, number[t]) \in signed
  /\ at[t] \in {"getTag", "putTag", "readTag"} => key[t] = Tag
  /\ at[t] = "putTag" => GoodRecord(Tag, held[t]) /\ held[t] # Junk
  /\ at[t] = "readTag" => \E s \in Spellings : own[t] = <<s>>
  /\ at[t] \in {"getBoard", "putBoard", "readBoard"} => key[t] = Board
  /\ at[t] = "putBoard" => held[t] \subseteq 1..starts
  /\ at[t] = "putZone" =>
       \E a \in Authors, s \in Subnames, c \in Authors :
         /\ by[t] = a /\ key[t] = Zone(a, s) /\ own[t] = <<c>>
         /\ Delegation(a, s, c) \in signed
  /\ at[t] = "readZone" =>
       /\ by[t] \in Authors
       /\ \E a \in Authors, s \in Subnames : key[t] = Zone(a, s)
       /\ own[t] \in Seq(Subnames)
       /\ held[t] \subseteq Zones

TasksOK == \A t \in Tasks : TaskOK(t)

SignedOK ==
  \A x \in signed : x.ok /\ x \in AnyManifest \cup AnyClaim \cup AnyDelegation

Delegated(r) ==
  /\ r.root \in Authors /\ r.key \in Authors /\ r.path \in Seq(Subnames)
  /\ \E i \in 0..Len(r.path) : r.key \in Follow(r.root, r.path, Zones)[i]

HistoryOK ==
  /\ ShownSigned
  /\ \A r \in resolved : Delegated(r)

(* At a quiet key one task writes at most, and it holds the record that    *)
(* the commands so far make.                                               *)
QuietOK ==
  \A k \in Keys : quiet[k] =>
    /\ dht[k] = {due[k]} \ {Junk}
    /\ \A t, u \in Tasks :
         /\ at[t] \in Writing /\ key[t] = k
         /\ at[u] \in Writing /\ key[u] = k
         => t = u
    /\ \A t \in Tasks : key[t] = k =>
         /\ at[t] \in {"putTag", "putBoard"} =>
              held[t] = IF due[k] = Junk THEN {} ELSE due[k]
         /\ at[t] = "seedPut" => held[t] = due[k]

Typed ==
  /\ at \in [Tasks -> Writing \cup Reading \cup {"idle"}]
  /\ number \in [Tasks -> 0..starts]
  /\ starts \in 0..MaxStarts
  /\ foreign \in 0..MaxForeign
  /\ quiet \in [Keys -> BOOLEAN]
  /\ DOMAIN dht = Keys /\ DOMAIN due = Keys
  /\ DOMAIN by = Tasks /\ DOMAIN key = Tasks
  /\ DOMAIN own = Tasks /\ DOMAIN held = Tasks

IInv == Typed /\ RecordsOK /\ TasksOK /\ SignedOK /\ HistoryOK /\ QuietOK

-----------------------------------------------------------------------------
(* The keys of the DHT are of four kinds, and no two of them coincide.     *)
LEMMA KeyKinds ==
  /\ \A a \in Authors : Site(a) \in Keys
  /\ Tag \in Keys /\ Board \in Keys
  /\ \A a \in Authors, s \in Subnames : Zone(a, s) \in Keys
  /\ \A k \in Keys : \/ \E a \in Authors : k = Site(a)
                     \/ k = Tag \/ k = Board
                     \/ \E a \in Authors, s \in Subnames : k = Zone(a, s)
BY DEF Keys

LEMMA KeysDiffer ==
  /\ Tag # Board
  /\ \A a, b : Site(a) = Site(b) => a = b
  /\ \A a : Site(a) # Tag /\ Site(a) # Board /\ Site(a) # <<>>
  /\ \A a, b, s : Zone(a, s) # Site(b) /\ Zone(a, s) # Tag /\ Zone(a, s) # Board
  /\ \A a, s : Zone(a, s)[2] = a /\ Zone(a, s)[3] = s /\ Zone(a, s)[1] = "zone"
  /\ \A a : Site(a)[1] = "site"
  /\ Tag[1] = "tag" /\ Board[1] = "board"
  /\ \A a, s : Zone(a, s) # <<>>
  /\ Tag # <<>> /\ Board # <<>>
BY DEF Site, Tag, Board, Zone

(* What each kind of key may hold.                                         *)
LEMMA SiteRecords ==
  ASSUME NEW a \in Authors, NEW v
  PROVE  GoodRecord(Site(a), v) <=>
           v = Junk \/ (v \in AnyManifest /\ (v.ok => v \in signed))
BY KeysDiffer DEF GoodRecord

LEMMA TagRecords ==
  ASSUME NEW v
  PROVE  GoodRecord(Tag, v) <=>
           \/ v = Junk
           \/ /\ v \subseteq AnyClaim /\ OneEach(v)
              /\ \A c \in v : c.ok => c \in signed
BY KeysDiffer DEF GoodRecord

LEMMA BoardRecords ==
  ASSUME NEW v
  PROVE  GoodRecord(Board, v) <=> v = Junk \/ v \subseteq 1..starts
BY KeysDiffer DEF GoodRecord

LEMMA ZoneRecords ==
  ASSUME NEW a \in Authors, NEW s \in Subnames, NEW v
  PROVE  GoodRecord(Zone(a, s), v) <=>
           v = Junk \/ (v \in AnyDelegation /\ (v.ok => v \in signed))
BY KeysDiffer DEF GoodRecord

-----------------------------------------------------------------------------
(* What was signed tells by its fields what it is.                         *)
LEMMA SignedKinds ==
  ASSUME SignedOK, NEW x \in signed
  PROVE  /\ x.ok
         /\ "sequence" \in DOMAIN x => x \in AnyManifest
         /\ "tag" \in DOMAIN x => x \in AnyClaim
         /\ "child" \in DOMAIN x <=> x \in AnyDelegation
<1>1. x.ok /\ (x \in AnyManifest \/ x \in AnyClaim \/ x \in AnyDelegation)
  BY DEF SignedOK
<1>2. x \in AnyManifest => DOMAIN x = {"author", "sequence", "edition", "ok"}
  BY DEF AnyManifest
<1>3. x \in AnyClaim => DOMAIN x = {"author", "tag", "edition", "ok"}
  BY DEF AnyClaim
<1>4. x \in AnyDelegation => DOMAIN x = {"parent", "subname", "child", "ok"}
  BY DEF AnyDelegation
<1> QED
  BY <1>1, <1>2, <1>3, <1>4

-----------------------------------------------------------------------------
(* What a replica may hold, it may hold later, when more is signed.        *)
LEMMA MoreIsSigned ==
  ASSUME starts \in Nat, starts' \in Nat, starts <= starts', signed \subseteq signed'
  PROVE  /\ AnyManifest \subseteq AnyManifest'
         /\ AnyClaim \subseteq AnyClaim'
         /\ AnyDelegation = AnyDelegation'
         /\ 1..starts \subseteq 1..starts'
         /\ Zones \subseteq Zones'
         /\ \A k, v : GoodRecord(k, v) => GoodRecord(k, v)'
<1>1. 1..starts \subseteq 1..starts'
  OBVIOUS
<1>2. AnyManifest \subseteq AnyManifest'
  BY <1>1 DEF AnyManifest
<1>3. AnyClaim \subseteq AnyClaim'
  BY <1>1 DEF AnyClaim
<1>4. AnyDelegation = AnyDelegation'
  BY DEF AnyDelegation
<1>5. Zones \subseteq Zones'
  BY DEF Zones
<1>6. ASSUME NEW k, NEW v, GoodRecord(k, v)
      PROVE  GoodRecord(k, v)'
  BY <1>1, <1>2, <1>3, <1>4, <1>6 DEF GoodRecord, OneEach
<1> QED
  BY <1>1, <1>2, <1>3, <1>4, <1>5, <1>6

(* A task that does nothing knows later what it knows.                     *)
LEMMA OthersKnow ==
  ASSUME TasksOK, NEW t \in Tasks,
         starts \in Nat, starts' \in Nat, starts <= starts', signed \subseteq signed',
         \A u \in Tasks \ {t} :
           /\ at'[u] = at[u] /\ by'[u] = by[u] /\ key'[u] = key[u]
           /\ own'[u] = own[u] /\ held'[u] = held[u] /\ number'[u] = number[u],
         TaskOK(t)'
  PROVE  TasksOK'
<1> SUFFICES ASSUME NEW u \in Tasks \ {t}
             PROVE  TaskOK(u)'
  BY DEF TasksOK
<1>1. TaskOK(u)
  BY DEF TasksOK
<1>2. /\ AnyManifest \subseteq AnyManifest' /\ 1..starts \subseteq 1..starts'
      /\ Zones \subseteq Zones'
      /\ \A k, v : GoodRecord(k, v) => GoodRecord(k, v)'
  BY MoreIsSigned
<1>3. /\ at'[u] = at[u] /\ by'[u] = by[u] /\ key'[u] = key[u]
      /\ own'[u] = own[u] /\ held'[u] = held[u] /\ number'[u] = number[u]
  OBVIOUS
<1>4. \A a, s, n : /\ Manifest(a, n) \in signed => Manifest(a, n) \in signed'
                   /\ TagClaim(a, s, n) \in signed => TagClaim(a, s, n) \in signed'
  OBVIOUS
<1>5. \A a, s, c : Delegation(a, s, c) \in signed => Delegation(a, s, c) \in signed'
  OBVIOUS
<1> QED
  BY <1>1, <1>2, <1>3, <1>4, <1>5 DEF TaskOK

-----------------------------------------------------------------------------
(* Only task t moves.                                                      *)
Acts(t) ==
  \A u \in Tasks \ {t} :
    /\ at'[u] = at[u] /\ by'[u] = by[u] /\ key'[u] = key[u]
    /\ own'[u] = own[u] /\ held'[u] = held[u] /\ number'[u] = number[u]

(* Keys only become loud.                                                  *)
NoQuieter == quiet' \in [Keys -> BOOLEAN] /\ \A k \in Keys : quiet'[k] => quiet[k]

(* A put leaves a key quiet if every replica has the record now, and then  *)
(* so does every finished command.                                         *)
Lands(t, v, makes) ==
  \A k \in Keys : quiet'[k] =>
    \/ dht'[k] = dht[k] /\ due'[k] = due[k]
    \/ k = key[t] /\ dht'[k] = {v} /\ due'[k] = makes

LEMMA PutTyped ==
  ASSUME Typed, NEW t \in Tasks, NEW v, NEW makes,
         Put(t, v, makes) \/ PutFails(t, v)
  PROVE  /\ NoQuieter /\ DOMAIN dht' = Keys /\ DOMAIN due' = Keys
         /\ \A k \in Keys : k # key[t] =>
              dht'[k] = dht[k] /\ due'[k] = due[k]
         /\ \A k \in Keys : dht'[k] \subseteq dht[k] \cup {v}
         /\ Lands(t, v, makes)
<1>1. CASE Put(t, v, makes)
  <2>1. PICK kept \in SUBSET (dht[key[t]] \ {v}) :
          /\ dht' = [dht EXCEPT ![key[t]] = {v} \cup kept]
          /\ due' = [due EXCEPT ![key[t]] = makes]
          /\ quiet' = [quiet EXCEPT ![key[t]] = @ /\ kept = {}]
    BY <1>1 DEF Put
  <2>2. /\ quiet' \in [Keys -> BOOLEAN]
        /\ \A k \in Keys : quiet'[k] => quiet[k] /\ (k = key[t] => kept = {})
    BY <2>1 DEF Typed
  <2> QED
    BY <2>1, <2>2 DEF Typed, NoQuieter, Lands
<1>2. CASE PutFails(t, v)
  BY <1>2 DEF PutFails, Typed, NoQuieter, Lands
<1> QED
  BY <1>1, <1>2

LEMMA MissTyped ==
  ASSUME Typed, NEW t \in Tasks, MissNoticed(t)
  PROVE  /\ NoQuieter
         /\ \A k \in Keys : quiet'[k] /\ k = key[t] /\ at[t] \in Writing
                              => dht[k] = {}
BY DEF MissNoticed, Typed, NoQuieter

LEMMA EndActs ==
  ASSUME Typed, NEW t \in Tasks, End(t), UNCHANGED starts
  PROVE  /\ Acts(t) /\ at'[t] = "idle" /\ key'[t] = <<>>
         /\ at' \in [Tasks -> Writing \cup Reading \cup {"idle"}]
         /\ number' \in [Tasks -> 0..starts']
         /\ DOMAIN by' = Tasks /\ DOMAIN key' = Tasks
         /\ DOMAIN own' = Tasks /\ DOMAIN held' = Tasks
         /\ TaskOK(t)'
<1>1. /\ Acts(t) /\ at'[t] = "idle" /\ key'[t] = <<>>
      /\ at' \in [Tasks -> Writing \cup Reading \cup {"idle"}]
      /\ DOMAIN by' = Tasks /\ DOMAIN key' = Tasks
      /\ DOMAIN own' = Tasks /\ DOMAIN held' = Tasks
  BY DEF End, Typed, Acts
<1>2. number' \in [Tasks -> 0..starts']
  BY DEF End, Typed
<1>3. TaskOK(t)'
  BY <1>1 DEF TaskOK
<1> QED
  BY <1>1, <1>2, <1>3

LEMMA TurnTyped ==
  ASSUME Typed, NEW t \in Tasks, NEW step \in Writing \cup Reading, NEW k \in Keys,
         TurnTo(t, step, k)
  PROVE  /\ NoQuieter
         /\ at' \in [Tasks -> Writing \cup Reading \cup {"idle"}]
         /\ DOMAIN key' = Tasks
         /\ at'[t] = step /\ key'[t] = k
         /\ \A u \in Tasks \ {t} : at'[u] = at[u] /\ key'[u] = key[u]
         /\ quiet'[k] /\ step \in Writing => Alone(t, k)
<1>1. /\ at' \in [Tasks -> Writing \cup Reading \cup {"idle"}]
      /\ DOMAIN key' = Tasks
      /\ at'[t] = step /\ key'[t] = k
      /\ \A u \in Tasks \ {t} : at'[u] = at[u] /\ key'[u] = key[u]
  BY DEF TurnTo, Typed
<1>2. NoQuieter /\ (quiet'[k] /\ step \in Writing => Alone(t, k))
  BY DEF TurnTo, Typed, NoQuieter
<1> QED
  BY <1>1, <1>2

LEMMA BeginTyped ==
  ASSUME Typed, NEW t \in Tasks, NEW a, NEW step \in Writing \cup Reading,
         NEW k \in Keys, NEW x, Begin(t, a, step, k, x)
  PROVE  /\ Typed' /\ Acts(t) /\ NoQuieter
         /\ at[t] = "idle" /\ starts' = starts + 1
         /\ at'[t] = step /\ by'[t] = a /\ key'[t] = k /\ own'[t] = x
         /\ held'[t] = {} /\ number'[t] = starts'
         /\ UNCHANGED <<dht, foreign, accepted, listed, resolved, due>>
         /\ quiet'[k] /\ step \in Writing => Alone(t, k)
<1>1. TurnTo(t, step, k)
  BY DEF Begin
<1>2. /\ NoQuieter
      /\ at' \in [Tasks -> Writing \cup Reading \cup {"idle"}]
      /\ DOMAIN key' = Tasks
      /\ at'[t] = step /\ key'[t] = k
      /\ \A u \in Tasks \ {t} : at'[u] = at[u] /\ key'[u] = key[u]
      /\ quiet'[k] /\ step \in Writing => Alone(t, k)
  BY <1>1, TurnTyped
<1>3. /\ at[t] = "idle" /\ starts' = starts + 1
      /\ by'[t] = a /\ own'[t] = x /\ held'[t] = {} /\ number'[t] = starts'
      /\ DOMAIN by' = Tasks /\ DOMAIN own' = Tasks /\ DOMAIN held' = Tasks
      /\ \A u \in Tasks \ {t} :
           /\ by'[u] = by[u] /\ own'[u] = own[u] /\ held'[u] = held[u]
           /\ number'[u] = number[u]
      /\ UNCHANGED <<dht, foreign, accepted, listed, resolved, due>>
  BY DEF Begin, Typed
<1>4. starts' \in 0..MaxStarts /\ 0..starts \subseteq 0..starts'
  BY PublicationAssumption DEF Begin, Typed
<1>5. number' \in [Tasks -> 0..starts']
  BY <1>4, PublicationAssumption DEF Begin, Typed
<1> QED
  BY <1>2, <1>3, <1>4, <1>5 DEF Typed, NoQuieter, Acts

-----------------------------------------------------------------------------
Known == Typed /\ RecordsOK /\ TasksOK /\ SignedOK /\ ShownSigned

LEMMA ActKnown ==
  ASSUME Known, NEW t \in Tasks, Acts(t), Typed',
         starts <= starts', signed \subseteq signed',
         \A x \in signed' \ signed :
           x.ok /\ x \in (AnyManifest \cup AnyClaim \cup AnyDelegation)',
         \A k \in Keys : \A v \in dht'[k] : v \in dht[k] \/ GoodRecord(k, v)',
         TaskOK(t)',
         accepted' \subseteq signed',
         \A x \in listed' : x[2] \in signed' /\ x[2].tag = x[1]
  PROVE  Known'
<1>1. starts \in Nat /\ starts' \in Nat
  BY PublicationAssumption DEF Known, Typed
<1>2. /\ AnyManifest \subseteq AnyManifest'
      /\ AnyClaim \subseteq AnyClaim'
      /\ AnyDelegation = AnyDelegation'
      /\ \A k, v : GoodRecord(k, v) => GoodRecord(k, v)'
  BY <1>1, MoreIsSigned
<1>3. RecordsOK'
  BY <1>2 DEF Known, RecordsOK
<1>4. TasksOK'
  BY <1>1, OthersKnow DEF Known, Acts
<1>5. SignedOK'
  BY <1>2 DEF Known, SignedOK
<1>6. ShownSigned'
  BY DEF ShownSigned
<1> QED
  BY <1>3, <1>4, <1>5, <1>6 DEF Known

(* A step that signs nothing.                                              *)
LEMMA StayKnown ==
  ASSUME Known, NEW t \in Tasks, Acts(t), Typed', UNCHANGED <<starts, signed>>,
         \A k \in Keys : \A v \in dht'[k] : v \in dht[k] \/ GoodRecord(k, v),
         TaskOK(t)',
         accepted' \subseteq signed,
         \A x \in listed' : x[2] \in signed /\ x[2].tag = x[1]
  PROVE  Known'
<1>1. \A k, v : GoodRecord(k, v) => GoodRecord(k, v)'
  BY DEF GoodRecord, AnyManifest, AnyClaim, AnyDelegation
<1> QED
  BY <1>1, ActKnown, PublicationAssumption DEF Known, Typed

(* A command that ends.                                                    *)
LEMMA EndKnown ==
  ASSUME Known, NEW t \in Tasks, End(t), UNCHANGED <<starts, foreign, signed>>,
         NoQuieter, DOMAIN dht' = Keys, DOMAIN due' = Keys,
         \A k \in Keys : \A v \in dht'[k] : v \in dht[k] \/ GoodRecord(k, v),
         accepted' \subseteq signed,
         \A x \in listed' : x[2] \in signed /\ x[2].tag = x[1]
  PROVE  Known'
<1>1. /\ Acts(t) /\ TaskOK(t)'
      /\ at' \in [Tasks -> Writing \cup Reading \cup {"idle"}]
      /\ number' \in [Tasks -> 0..starts']
      /\ DOMAIN by' = Tasks /\ DOMAIN key' = Tasks
      /\ DOMAIN own' = Tasks /\ DOMAIN held' = Tasks
  BY EndActs DEF Known
<1>2. Typed'
  BY <1>1 DEF Typed, NoQuieter, Known
<1> QED
  BY <1>1, <1>2, StayKnown

(* A put whose record the key may hold.                                    *)
LEMMA PutKnown ==
  ASSUME Known, NEW t \in Tasks, NEW v, NEW makes,
         Put(t, v, makes) \/ PutFails(t, v),
         End(t), UNCHANGED <<starts, foreign, history>>,
         key[t] \in Keys => GoodRecord(key[t], v)
  PROVE  Known'
<1>1. /\ NoQuieter /\ DOMAIN dht' = Keys /\ DOMAIN due' = Keys
      /\ \A k \in Keys : k # key[t] => dht'[k] = dht[k]
      /\ \A k \in Keys : dht'[k] \subseteq dht[k] \cup {v}
  BY PutTyped DEF Known
<1>2. \A k \in Keys : \A w \in dht'[k] : w \in dht[k] \/ GoodRecord(k, w)
  BY <1>1
<1> QED
  BY <1>1, <1>2, EndKnown DEF Known, ShownSigned, history

(* A command that begins, and what it signs.                               *)
LEMMA BeginKnown ==
  ASSUME Known, NEW t \in Tasks, NEW a, NEW step \in Writing \cup Reading,
         NEW k \in Keys, NEW x, Begin(t, a, step, k, x),
         signed \subseteq signed',
         \A y \in signed' \ signed :
           y.ok /\ y \in (AnyManifest \cup AnyClaim \cup AnyDelegation)',
         TaskOK(t)'
  PROVE  Known'
<1>1. /\ Typed' /\ Acts(t) /\ starts' = starts + 1
      /\ UNCHANGED <<dht, accepted, listed>>
  BY BeginTyped DEF Known
<1>2. starts <= starts'
  BY <1>1, PublicationAssumption DEF Known, Typed
<1>3. /\ accepted' \subseteq signed'
      /\ \A y \in listed' : y[2] \in signed' /\ y[2].tag = y[1]
  BY <1>1 DEF Known, ShownSigned
<1> QED
  BY <1>1, <1>2, <1>3, ActKnown

-----------------------------------------------------------------------------
LEMMA StartKnown ==
  ASSUME Known, NEW t \in Tasks, Start(t)
  PROVE  Known'
<1>1. starts \in Nat /\ (starts' = starts + 1 => starts' \in 1..starts')
  BY PublicationAssumption DEF Known, Typed
<1>2. ASSUME NEW a \in Authors, NEW tags \in {<<>>} \cup {<<s>> : s \in Spellings},
             StartPublish(t, a, tags)
      PROVE  Known'
  <2> DEFINE m == Manifest(a, starts + 1)
             cs == {TagClaim(a, tags[i], starts + 1) : i \in DOMAIN tags}
  <2>1. /\ Begin(t, a, "putSite", Site(a), tags)
        /\ signed' = signed \cup {m} \cup cs
    BY <1>2 DEF StartPublish
  <2>2. Site(a) \in Keys /\ "putSite" \in Writing \cup Reading
    BY KeyKinds DEF Writing
  <2>3. /\ starts' = starts + 1 /\ at'[t] = "putSite" /\ by'[t] = a
        /\ key'[t] = Site(a) /\ own'[t] = tags /\ number'[t] = starts + 1
    BY <2>1, <2>2, BeginTyped DEF Known
  <2>4. m.ok /\ m \in AnyManifest'
    BY <1>1, <2>3 DEF Manifest, AnyManifest
  <2>5. \A c \in cs : c.ok /\ c \in AnyClaim'
    <3>1. ASSUME NEW i \in DOMAIN tags
          PROVE  LET c == TagClaim(a, tags[i], starts + 1)
                 IN  c.ok /\ c \in AnyClaim'
      <4>1. tags[i] \in Spellings
        OBVIOUS
      <4>2. starts + 1 \in 1..starts'
        BY <1>1, <2>3
      <4> QED
        BY <4>1, <4>2 DEF TagClaim, AnyClaim
    <3> QED
      BY <3>1
  <2>6. tags = <<>> \/ \E s \in Spellings : tags = <<s>> /\ TagClaim(a, s, starts + 1) \in cs
    <3>1. ASSUME NEW s \in Spellings, tags = <<s>>
          PROVE  TagClaim(a, s, starts + 1) \in cs
      <4>1. 1 \in DOMAIN tags /\ tags[1] = s
        BY <3>1
      <4> QED
        BY <4>1
    <3> QED
      BY <3>1
  <2>7. TaskOK(t)'
    BY <1>1, <2>1, <2>3, <2>6 DEF TaskOK
  <2> QED
    BY <2>1, <2>2, <2>4, <2>5, <2>7, BeginKnown
<1>3. ASSUME NEW a \in Authors, StartPost(t, a)
      PROVE  Known'
  <2>1. Begin(t, a, "getBoard", Board, <<>>) /\ signed' = signed
    BY <1>3 DEF StartPost
  <2>2. Board \in Keys /\ "getBoard" \in Writing \cup Reading
    BY KeyKinds DEF Writing
  <2>3. /\ starts' = starts + 1 /\ at'[t] = "getBoard" /\ key'[t] = Board
        /\ number'[t] = starts + 1
    BY <2>1, <2>2, BeginTyped DEF Known
  <2>4. TaskOK(t)'
    BY <1>1, <2>3 DEF TaskOK
  <2> QED
    BY <2>1, <2>2, <2>4, BeginKnown
<1>4. ASSUME NEW a \in Authors, NEW s \in Subnames, NEW c \in Authors,
             StartDelegate(t, a, s, c)
      PROVE  Known'
  <2> DEFINE zd == Delegation(a, s, c)
  <2>1. /\ Begin(t, a, "putZone", Zone(a, s), <<c>>)
        /\ signed' = signed \cup {zd}
    BY <1>4 DEF StartDelegate
  <2>2. Zone(a, s) \in Keys /\ "putZone" \in Writing \cup Reading
    BY KeyKinds DEF Writing
  <2>3. /\ starts' = starts + 1 /\ at'[t] = "putZone" /\ by'[t] = a
        /\ key'[t] = Zone(a, s) /\ own'[t] = <<c>> /\ number'[t] = starts + 1
    BY <2>1, <2>2, BeginTyped DEF Known
  <2>4. zd.ok /\ zd \in AnyDelegation'
    BY DEF Delegation, AnyDelegation
  <2>5. TaskOK(t)'
    BY <1>1, <2>1, <2>3 DEF TaskOK
  <2> QED
    BY <2>1, <2>2, <2>4, <2>5, BeginKnown
<1>5. ASSUME NEW a \in Authors, StartSeed(t, a) \/ StartRead(t, a)
      PROVE  Known'
  <2>1. PICK step \in {"seedGet", "readSite"} :
          Begin(t, a, step, Site(a), <<>>) /\ signed' = signed
    BY <1>5 DEF StartSeed, StartRead
  <2>2. Site(a) \in Keys /\ step \in Writing \cup Reading
    BY KeyKinds DEF Writing, Reading
  <2>3. /\ starts' = starts + 1 /\ at'[t] = step /\ by'[t] = a
        /\ key'[t] = Site(a) /\ number'[t] = starts + 1
    BY <2>1, <2>2, BeginTyped DEF Known
  <2>4. TaskOK(t)'
    BY <1>1, <2>3 DEF TaskOK
  <2> QED
    BY <2>1, <2>2, <2>4, BeginKnown
<1>6. ASSUME NEW a \in Authors, NEW s \in Subnames, StartResolve(t, a, s)
      PROVE  Known'
  <2>1. Begin(t, a, "readZone", Zone(a, s), <<s>>) /\ signed' = signed
    BY <1>6 DEF StartResolve
  <2>2. Zone(a, s) \in Keys /\ "readZone" \in Writing \cup Reading
    BY KeyKinds DEF Reading
  <2>3. /\ starts' = starts + 1 /\ at'[t] = "readZone" /\ by'[t] = a
        /\ key'[t] = Zone(a, s) /\ own'[t] = <<s>> /\ held'[t] = {}
        /\ number'[t] = starts + 1
    BY <2>1, <2>2, BeginTyped DEF Known
  <2>4. <<s>> \in Seq(Subnames)
    OBVIOUS
  <2>5. TaskOK(t)'
    BY <1>1, <2>3, <2>4 DEF TaskOK
  <2> QED
    BY <2>1, <2>2, <2>5, BeginKnown
<1>7. ASSUME NEW tag \in Spellings, StartSearch(t, tag)
      PROVE  Known'
  <2>1. Begin(t, "none", "readTag", Tag, <<tag>>) /\ signed' = signed
    BY <1>7 DEF StartSearch
  <2>2. Tag \in Keys /\ "readTag" \in Writing \cup Reading
    BY KeyKinds DEF Reading
  <2>3. /\ starts' = starts + 1 /\ at'[t] = "readTag" /\ key'[t] = Tag
        /\ own'[t] = <<tag>> /\ number'[t] = starts + 1
    BY <2>1, <2>2, BeginTyped DEF Known
  <2>4. TaskOK(t)'
    BY <1>1, <2>3 DEF TaskOK
  <2> QED
    BY <2>1, <2>2, <2>4, BeginKnown
<1>8. ASSUME StartReadBoard(t)
      PROVE  Known'
  <2>1. Begin(t, "none", "readBoard", Board, <<>>) /\ signed' = signed
    BY <1>8 DEF StartReadBoard
  <2>2. Board \in Keys /\ "readBoard" \in Writing \cup Reading
    BY KeyKinds DEF Reading
  <2>3. /\ starts' = starts + 1 /\ at'[t] = "readBoard" /\ key'[t] = Board
        /\ number'[t] = starts + 1
    BY <2>1, <2>2, BeginTyped DEF Known
  <2>4. TaskOK(t)'
    BY <1>1, <2>3 DEF TaskOK
  <2> QED
    BY <2>1, <2>2, <2>4, BeginKnown
<1> QED
  BY <1>2, <1>3, <1>4, <1>5, <1>6, <1>7, <1>8 DEF Start

-----------------------------------------------------------------------------
(* No record of a program is junk.                                         *)
LEMMA NoJunk ==
  ASSUME Typed
  PROVE  /\ Junk \notin AnyManifest
         /\ Junk \notin AnyDelegation
         /\ \A l \in SUBSET AnyClaim : l # Junk
         /\ \A l \in SUBSET (1..starts) : l # Junk
<1>1. 1..starts \subseteq 1..MaxStarts
  BY PublicationAssumption DEF Typed
<1>2. AnyManifest \subseteq [author : Authors, sequence : {1},
                            edition : 1..MaxStarts, ok : BOOLEAN]
  BY <1>1 DEF AnyManifest
<1>3. AnyClaim \subseteq [author : Authors, tag : Spellings,
                         edition : 1..MaxStarts, ok : BOOLEAN]
  BY <1>1 DEF AnyClaim
<1>4. Junk \notin AnyDelegation
  BY PublicationAssumption DEF AnyDelegation
<1> QED
  BY <1>1, <1>2, <1>3, <1>4, PublicationAssumption

(* The records that commands put are records that their keys may hold.     *)
LEMMA ManifestPut ==
  ASSUME Known, NEW t \in Tasks, at[t] = "putSite"
  PROVE  /\ key[t] = Site(by[t]) /\ by[t] \in Authors
         /\ GoodRecord(key[t], Manifest(by[t], number[t]))
         /\ Manifest(by[t], number[t]) # Junk
<1>1. TaskOK(t) /\ SignedOK /\ Typed
  BY DEF Known, TasksOK
<1>2. /\ by[t] \in Authors /\ key[t] = Site(by[t])
      /\ Manifest(by[t], number[t]) \in signed
  BY <1>1 DEF TaskOK
<1>3. "sequence" \in DOMAIN Manifest(by[t], number[t])
  BY DEF Manifest
<1>4. Manifest(by[t], number[t]) \in AnyManifest
  BY <1>1, <1>2, <1>3, SignedKinds
<1> QED
  BY <1>1, <1>2, <1>4, SiteRecords, NoJunk

LEMMA ClaimedPut ==
  ASSUME Known, NEW t \in Tasks, at[t] = "putTag"
  PROVE  /\ key[t] = Tag
         /\ GoodRecord(Tag, Claimed(held[t], t))
         /\ Claimed(held[t], t) # Junk
<1>1. TaskOK(t) /\ SignedOK /\ Typed
  BY DEF Known, TasksOK
<1>2. /\ key[t] = Tag /\ by[t] \in Authors
      /\ GoodRecord(Tag, held[t]) /\ held[t] # Junk
  BY <1>1 DEF TaskOK
<1>3. PICK s \in Spellings : /\ own[t] = <<s>>
                             /\ TagClaim(by[t], s, number[t]) \in signed
  BY <1>1 DEF TaskOK
<1> DEFINE c == TagClaim(by[t], s, number[t])
           l == Others(held[t], t)
<1>4. /\ held[t] \subseteq AnyClaim /\ OneEach(held[t])
      /\ \A d \in held[t] : d.ok => d \in signed
  BY <1>2, TagRecords
<1>5. "tag" \in DOMAIN c
  BY DEF TagClaim
<1>6. c \in AnyClaim
  BY <1>1, <1>3, <1>5, SignedKinds
<1>7. l \subseteq held[t] /\ \A d \in l : d.author # by[t] \/ d.tag # s
  BY <1>3 DEF Others
<1>8. c.author = by[t] /\ c.tag = s
  BY DEF TagClaim
<1>9. Claimed(held[t], t) = l \cup {c}
  BY <1>3 DEF Claimed
<1> HIDE DEF c, l
<1>10. OneEach(l \cup {c})
  BY <1>4, <1>7, <1>8 DEF OneEach
<1>11. c \in signed
  BY <1>3 DEF c
<1>12. l \cup {c} \in SUBSET AnyClaim
  BY <1>4, <1>6, <1>7
<1> QED
  BY <1>1, <1>2, <1>4, <1>7, <1>9, <1>10, <1>11, <1>12, TagRecords, NoJunk

LEMMA DelegationPut ==
  ASSUME Known, NEW t \in Tasks, at[t] = "putZone"
  PROVE  /\ GoodRecord(key[t], Delegation(by[t], key[t][3], own[t][1]))
         /\ Delegation(by[t], key[t][3], own[t][1]) # Junk
<1>1. TaskOK(t) /\ SignedOK /\ Typed
  BY DEF Known, TasksOK
<1>2. PICK a \in Authors, s \in Subnames, c \in Authors :
        /\ by[t] = a /\ key[t] = Zone(a, s) /\ own[t] = <<c>>
        /\ Delegation(a, s, c) \in signed
  BY <1>1 DEF TaskOK
<1>3. key[t][3] = s /\ own[t][1] = c
  BY <1>2, KeysDiffer
<1>4. "child" \in DOMAIN Delegation(a, s, c)
  BY DEF Delegation
<1>5. Delegation(a, s, c) \in AnyDelegation
  BY <1>1, <1>2, <1>4, SignedKinds
<1> QED
  BY <1>1, <1>2, <1>3, <1>5, ZoneRecords, NoJunk

-----------------------------------------------------------------------------
LEMMA PublishSiteTyped ==
  ASSUME Known, NEW t \in Tasks, PublishSite(t)
  PROVE  LET m == Manifest(by[t], number[t]) IN
         /\ at[t] = "putSite" /\ key[t] = Site(by[t]) /\ key[t] \in Keys
         /\ key[t] # Tag
         /\ NoQuieter /\ DOMAIN dht' = Keys /\ DOMAIN due' = Keys
         /\ \A k \in Keys : k # key[t] => dht'[k] = dht[k] /\ due'[k] = due[k]
         /\ \A v \in dht'[key[t]] : v \in dht[key[t]] \/ v = m
         /\ quiet'[key[t]] => dht'[key[t]] = {m} /\ due'[key[t]] = m
         /\ UNCHANGED <<starts, foreign, history>>
         /\ \/ End(t)
            \/ /\ own[t] # <<>>
               /\ at' = [at EXCEPT ![t] = "getTag"]
               /\ key' = [key EXCEPT ![t] = Tag]
               /\ quiet'[Tag] => Alone(t, Tag)
               /\ UNCHANGED <<by, own, held, number>>
<1> DEFINE m == Manifest(by[t], number[t])
           k == key[t]
<1>1. /\ at[t] = "putSite" /\ k = Site(by[t]) /\ by[t] \in Authors
  BY ManifestPut DEF PublishSite
<1>2. k \in Keys /\ k # Tag /\ Tag \in Keys
  BY <1>1, KeyKinds, KeysDiffer
<1>3. PICK kept \in SUBSET (dht[k] \ {m}) :
         /\ dht' = [dht EXCEPT ![k] = {m} \cup kept]
         /\ due' = [due EXCEPT ![k] = m]
         /\ IF own[t] # <<>>
              THEN /\ at' = [at EXCEPT ![t] = "getTag"]
                   /\ key' = [key EXCEPT ![t] = Tag]
                   /\ quiet' = [quiet EXCEPT ![k] = @ /\ kept = {},
                                             ![Tag] = @ /\ Alone(t, Tag)]
                   /\ UNCHANGED <<by, own, held, number>>
              ELSE /\ End(t)
                   /\ quiet' = [quiet EXCEPT ![k] = @ /\ kept = {}]
  BY DEF PublishSite
<1>4. UNCHANGED <<starts, foreign, history>>
  BY DEF PublishSite
<1>5. /\ DOMAIN dht' = Keys /\ DOMAIN due' = Keys
      /\ \A j \in Keys : j # k => dht'[j] = dht[j] /\ due'[j] = due[j]
      /\ dht'[k] = {m} \cup kept /\ due'[k] = m
  BY <1>2, <1>3 DEF Known, Typed
<1>6. NoQuieter /\ (quiet'[k] => kept = {})
  <2>1. CASE own[t] # <<>>
    <3>1. quiet' = [quiet EXCEPT ![k] = @ /\ kept = {},
                                 ![Tag] = @ /\ Alone(t, Tag)]
      BY <1>3, <2>1
    <3> QED
      BY <1>2, <3>1 DEF Known, Typed, NoQuieter
  <2>2. CASE own[t] = <<>>
    <3>1. quiet' = [quiet EXCEPT ![k] = @ /\ kept = {}]
      BY <1>3, <2>2
    <3> QED
      BY <1>2, <3>1 DEF Known, Typed, NoQuieter
  <2> QED
    BY <2>1, <2>2
<1>7. own[t] # <<>> => (quiet'[Tag] => Alone(t, Tag))
  <2>1. CASE own[t] # <<>>
    <3>1. quiet' = [quiet EXCEPT ![k] = @ /\ kept = {},
                                 ![Tag] = @ /\ Alone(t, Tag)]
      BY <1>3, <2>1
    <3> QED
      BY <1>2, <3>1 DEF Known, Typed
  <2> QED
    BY <2>1
<1> QED
  BY <1>1, <1>2, <1>3, <1>4, <1>5, <1>6, <1>7

LEMMA PublishSiteKnown ==
  ASSUME Known, NEW t \in Tasks, PublishSite(t)
  PROVE  Known'
<1> DEFINE m == Manifest(by[t], number[t])
<1>1. /\ at[t] = "putSite" /\ key[t] = Site(by[t]) /\ key[t] \in Keys
      /\ NoQuieter /\ DOMAIN dht' = Keys /\ DOMAIN due' = Keys
      /\ \A k \in Keys : k # key[t] => dht'[k] = dht[k]
      /\ \A v \in dht'[key[t]] : v \in dht[key[t]] \/ v = m
      /\ UNCHANGED <<starts, foreign, history>>
  BY PublishSiteTyped
<1>2. GoodRecord(key[t], m)
  BY <1>1, ManifestPut
<1>3. \A k \in Keys : \A v \in dht'[k] : v \in dht[k] \/ GoodRecord(k, v)
  BY <1>1, <1>2
<1>4. CASE End(t)
  BY <1>1, <1>3, <1>4, EndKnown DEF Known, ShownSigned, history
<1>5. CASE /\ own[t] # <<>>
           /\ at' = [at EXCEPT ![t] = "getTag"]
           /\ key' = [key EXCEPT ![t] = Tag]
           /\ UNCHANGED <<by, own, held, number>>
  <2>1. at'[t] = "getTag" /\ key'[t] = Tag
    BY <1>5 DEF Known, Typed
  <2>2. Acts(t)
    BY <1>5 DEF Acts, Known, Typed
  <2>3. Typed'
    BY <1>1, <1>5 DEF Typed, Known, NoQuieter, Writing
  <2>4. TaskOK(t)'
    <3>1. TaskOK(t)
      BY DEF Known, TasksOK
    <3> QED
      BY <1>1, <1>5, <2>1, <3>1 DEF TaskOK, history
  <2> QED
    BY <1>1, <1>3, <2>2, <2>3, <2>4, StayKnown DEF Known, ShownSigned, history
<1> QED
  BY <1>4, <1>5, PublishSiteTyped

-----------------------------------------------------------------------------
(* A command that goes on at the same key with what it read.               *)
LEMMA TakeKnown ==
  ASSUME Known, NEW t \in Tasks, NEW step \in Writing, NEW l,
         at[t] # "idle",
         at' = [at EXCEPT ![t] = step],
         held' = [held EXCEPT ![t] = l],
         UNCHANGED <<dht, by, key, own, number, starts, foreign, signed, due>>,
         NoQuieter,
         accepted' \subseteq signed, listed' = listed,
         TaskOK(t)'
  PROVE  Known'
<1>1. Acts(t)
  BY DEF Acts, Known, Typed
<1>2. Typed'
  BY DEF Typed, Known, NoQuieter
<1> QED
  BY <1>1, <1>2, StayKnown DEF Known, ShownSigned

LEMMA TagKnown ==
  ASSUME Known, NEW t \in Tasks,
         NEW l, l # Junk, GoodRecord(Tag, l),
         at[t] = "getTag", TakeList(t, l), NoQuieter
  PROVE  Known'
<1>1. TaskOK(t)
  BY DEF Known, TasksOK
<1>2. at'[t] = "putTag" /\ held'[t] = l
  BY DEF TakeList, Known, Typed
<1>3. TaskOK(t)'
  <2>1. GoodRecord(Tag, l)'
    BY DEF TakeList, history, GoodRecord, AnyManifest, AnyClaim, AnyDelegation
  <2> QED
    BY <1>1, <1>2, <2>1 DEF TaskOK, TakeList, history
<1> QED
  BY <1>3, TakeKnown DEF TakeList, Writing, history, Known, ShownSigned

LEMMA BoardKnown ==
  ASSUME Known, NEW t \in Tasks, NEW l \in SUBSET (1..starts),
         at[t] = "getBoard", TakeBoard(t, l), NoQuieter,
         UNCHANGED <<dht, starts, foreign, history, due>>
  PROVE  Known'
<1>1. TaskOK(t)
  BY DEF Known, TasksOK
<1>2. at'[t] = "putBoard" /\ held'[t] = l
  BY DEF TakeBoard, Known, Typed
<1>3. TaskOK(t)'
  BY <1>1, <1>2 DEF TaskOK, TakeBoard, history
<1> QED
  BY <1>3, TakeKnown DEF TakeBoard, Writing, history, Known, ShownSigned

(* Added keeps to delegations that were signed.                            *)
LEMMA AddedSigned ==
  ASSUME NEW zones \in SUBSET Zones, NEW zd \in Zones, NEW k
  PROVE  Added(zones, zd, k) \in SUBSET Zones
BY DEF Added

LEMMA ZoneRead ==
  ASSUME Known, NEW t \in Tasks, NEW v, Found(t, "readZone", v), Verified(v)
  PROVE  /\ v \in Zones /\ v.child \in Authors
         /\ Added(held[t], v, key[t]) \in SUBSET Zones
<1>1. TaskOK(t)
  BY DEF Known, TasksOK
<1>2. PICK a \in Authors, s \in Subnames : key[t] = Zone(a, s)
  BY <1>1 DEF TaskOK, Found
<1>3. GoodRecord(Zone(a, s), v)
  BY <1>2, KeyKinds DEF Found, Known, RecordsOK
<1>4. v \in AnyDelegation /\ v \in signed
  BY <1>3, ZoneRecords DEF Verified
<1>5. v \in Zones /\ v.child \in Authors
  BY <1>4, SignedKinds DEF Known, Zones, AnyDelegation
<1>6. held[t] \in SUBSET Zones
  BY <1>1 DEF TaskOK, Found
<1> QED
  BY <1>5, <1>6, AddedSigned

LEMMA ZoneFoundKnown ==
  ASSUME Known, NEW t \in Tasks, NEW v, ZoneFound(t, v)
  PROVE  Known'
<1>1. /\ Found(t, "readZone", v)
      /\ UNCHANGED <<dht, starts, foreign, signed, accepted, listed, due>>
  BY DEF ZoneFound
<1>2. CASE End(t) /\ UNCHANGED quiet
  BY <1>1, <1>2, EndKnown DEF Known, Typed, NoQuieter, ShownSigned
<1>3. ASSUME Verified(v), NEW s \in Subnames,
             own' = [own EXCEPT ![t] = Append(@, s)],
             TurnTo(t, "readZone", Zone(v.child, s)),
             held' = [held EXCEPT ![t] = Added(held[t], v, key[t])],
             UNCHANGED <<by, number, resolved>>
      PROVE  Known'
  <2> DEFINE k == Zone(v.child, s)
             zones == Added(held[t], v, key[t])
  <2>1. v.child \in Authors /\ zones \in SUBSET Zones
    BY <1>1, <1>3, ZoneRead
  <2>2. k \in Keys /\ "readZone" \in Writing \cup Reading
    BY <2>1, KeyKinds DEF Reading
  <2>3. /\ NoQuieter
        /\ at' \in [Tasks -> Writing \cup Reading \cup {"idle"}]
        /\ DOMAIN key' = Tasks
        /\ at'[t] = "readZone" /\ key'[t] = k
        /\ \A u \in Tasks \ {t} : at'[u] = at[u] /\ key'[u] = key[u]
    BY <1>3, <2>2, TurnTyped DEF Known
  <2>4. held'[t] = zones /\ own'[t] = Append(own[t], s)
    BY <1>3 DEF Known, Typed
  <2>5. Acts(t)
    BY <1>3, <2>3 DEF Acts, Known, Typed
  <2>6. Typed'
    BY <1>1, <1>3, <2>3 DEF Typed, Known, NoQuieter
  <2>7. TaskOK(t)'
    <3>1. TaskOK(t)
      BY DEF Known, TasksOK
    <3>2. /\ by'[t] \in Authors /\ number'[t] \in 1..starts'
          /\ own[t] \in Seq(Subnames)
      BY <1>1, <1>3, <3>1 DEF TaskOK, Found
    <3>3. own'[t] \in Seq(Subnames)
      BY <2>4, <3>2
    <3>4. held'[t] \subseteq Zones'
      BY <1>1, <2>1, <2>4 DEF Zones
    <3> QED
      BY <2>1, <2>3, <3>2, <3>3, <3>4 DEF TaskOK
  <2> QED
    BY <1>1, <2>5, <2>6, <2>7, StayKnown DEF Known, ShownSigned
<1> QED
  BY <1>2, <1>3 DEF ZoneFound, Answer

-----------------------------------------------------------------------------
LEMMA ReadKnown ==
  ASSUME Known, NEW t \in Tasks, NEW v \in dht[key[t]], key[t] \in Keys,
         SeedFound(t, v) \/ SiteFound(t, v)
  PROVE  Known'
<1>1. /\ at[t] = "seedGet" \/ at[t] = "readSite"
      /\ UNCHANGED <<dht, starts, foreign, signed, listed, resolved, due, quiet>>
  BY DEF SeedFound, SiteFound, Found
<1>2. TaskOK(t)
  BY DEF Known, TasksOK
<1>3. by[t] \in Authors /\ key[t] = Site(by[t])
  BY <1>1, <1>2 DEF TaskOK
<1>4. Verified(v) => v \in AnyManifest \cap signed /\ v.ok
  BY <1>3, SiteRecords DEF Known, RecordsOK, Verified
<1>5. accepted' \subseteq signed
  BY <1>4 DEF SeedFound, SiteFound, Known, ShownSigned
<1>6. CASE End(t)
  BY <1>1, <1>5, <1>6, EndKnown DEF Known, Typed, NoQuieter, ShownSigned
<1>7. CASE /\ Verified(v)
           /\ at' = [at EXCEPT ![t] = "seedPut"]
           /\ held' = [held EXCEPT ![t] = v]
           /\ UNCHANGED <<by, key, own, number>>
  <2>1. at'[t] = "seedPut" /\ held'[t] = v
    BY <1>7 DEF Known, Typed
  <2>2. TaskOK(t)'
    BY <1>1, <1>2, <1>3, <1>4, <1>7, <2>1 DEF TaskOK, AnyManifest
  <2> QED
    BY <1>1, <1>5, <1>7, <2>2, TakeKnown DEF Writing, Known, Typed, NoQuieter
<1> QED
  BY <1>6, <1>7 DEF SeedFound, SiteFound

LEMMA SearchKnown ==
  ASSUME Known, NEW t \in Tasks, NEW v \in dht[key[t]], key[t] \in Keys,
         TagSearched(t, v)
  PROVE  Known'
<1>1. /\ at[t] = "readTag" /\ End(t)
      /\ UNCHANGED <<dht, starts, foreign, signed, accepted, resolved, due, quiet>>
  BY DEF TagSearched, Found
<1>2. key[t] = Tag
  BY <1>1 DEF Known, TasksOK, TaskOK
<1>3. v = Junk \/ \A c \in v : c.ok => c \in signed
  BY <1>2, TagRecords DEF Known, RecordsOK
<1>4. ASSUME NEW x \in listed'
      PROVE  x[2] \in signed /\ x[2].tag = x[1]
  <2>1. CASE x \in listed
    BY <2>1 DEF Known, ShownSigned
  <2>2. CASE x \notin listed
    <3>1. v # Junk
      BY <2>2 DEF TagSearched
    <3>2. PICK c \in Matching(v, own[t][1]) : x = <<own[t][1], c>>
      BY <2>2, <3>1 DEF TagSearched
    <3>3. c \in signed /\ c.tag = own[t][1]
      BY <1>3, <3>1 DEF Matching, Verified
    <3> QED
      BY <3>2, <3>3
  <2> QED
    BY <2>1, <2>2
<1> QED
  BY <1>1, <1>4, EndKnown DEF Known, Typed, NoQuieter, ShownSigned

-----------------------------------------------------------------------------
LEMMA QuietSame ==
  ASSUME Typed, quiet' = quiet
  PROVE  NoQuieter
BY DEF Typed, NoQuieter

LEMMA StepKnown ==
  ASSUME Known, NEW t \in Tasks, Step(t)
  PROVE  Known'
<1>1. TaskOK(t) /\ Typed /\ ShownSigned
  BY DEF Known, TasksOK
<1>2. CASE PublishFails(t)
  <2>1. GoodRecord(key[t], Manifest(by[t], number[t]))
    BY <1>2, ManifestPut DEF PublishFails
  <2> QED
    BY <1>2, <2>1, PutKnown DEF PublishFails
<1>3. CASE TagMissed(t)
  <2>1. GoodRecord(Tag, {}) /\ {} # Junk
    BY TagRecords, PublicationAssumption DEF OneEach
  <2> QED
    BY <1>1, <1>3, <2>1, MissTyped, TagKnown DEF TagMissed, Missed
<1>4. CASE ClaimTag(t)
  <2>1. GoodRecord(key[t], Claimed(held[t], t))
    BY <1>4, ClaimedPut DEF ClaimTag
  <2> QED
    BY <1>4, <2>1, PutKnown DEF ClaimTag
<1>5. CASE BoardMissed(t)
  BY <1>1, <1>5, MissTyped, BoardKnown DEF BoardMissed, Missed
<1>6. CASE Post(t)
  <2>1. /\ key[t] = Board /\ held[t] \subseteq 1..starts
        /\ number[t] \in 1..starts
    BY <1>1, <1>6 DEF TaskOK, Post
  <2>2. GoodRecord(key[t], held[t] \cup {number[t]})
    BY <2>1, BoardRecords
  <2> QED
    BY <1>6, <2>2, PutKnown DEF Post
<1>7. CASE Delegate(t)
  <2>1. GoodRecord(key[t], Delegation(by[t], key[t][3], own[t][1]))
    BY <1>7, DelegationPut DEF Delegate
  <2> QED
    BY <1>7, <2>1, PutKnown DEF Delegate
<1>8. CASE SeedPuts(t)
  <2>1. /\ by[t] \in Authors /\ key[t] = Site(by[t])
        /\ held[t] \in AnyManifest \cap signed
    BY <1>1, <1>8 DEF TaskOK, SeedPuts
  <2>2. GoodRecord(key[t], held[t])
    BY <2>1, SiteRecords
  <2> QED
    BY <1>8, <2>2, PutKnown DEF SeedPuts
<1>9. CASE ReadMissed(t)
  BY <1>1, <1>9, MissTyped, EndKnown DEF ReadMissed, Typed, ShownSigned, history
<1>10. CASE ZoneMissed(t)
  BY <1>1, <1>10, QuietSame, EndKnown DEF ZoneMissed, Answer, Typed, ShownSigned
<1>11. ASSUME key[t] # <<>>, NEW v \in dht[key[t]],
              \/ TagFound(t, v) \/ BoardFound(t, v) \/ SeedFound(t, v)
              \/ SiteFound(t, v) \/ TagSearched(t, v) \/ BoardRead(t, v)
              \/ ZoneFound(t, v)
       PROVE  Known'
  <2>1. CASE TagFound(t, v)
    <3>1. at[t] = "getTag" /\ key[t] = Tag
      BY <1>1, <2>1 DEF TagFound, Found, TaskOK
    <3>2. GoodRecord(Tag, v)
      BY <3>1, KeyKinds DEF Known, RecordsOK
    <3>3. GoodRecord(Tag, {}) /\ {} # Junk
      BY TagRecords, PublicationAssumption DEF OneEach
    <3> QED
      BY <1>1, <2>1, <3>1, <3>2, <3>3, QuietSame, TagKnown DEF TagFound
  <2>2. CASE BoardFound(t, v)
    <3>1. at[t] = "getBoard" /\ key[t] = Board
      BY <1>1, <2>2 DEF BoardFound, Found, TaskOK
    <3>2. v = Junk \/ v \in SUBSET (1..starts)
      BY <3>1, KeyKinds, BoardRecords DEF Known, RecordsOK
    <3> QED
      BY <1>1, <2>2, <3>1, <3>2, QuietSame, EndKnown, BoardKnown
         DEF BoardFound, Typed, ShownSigned, history
  <2>3. CASE SeedFound(t, v) \/ SiteFound(t, v)
    <3>1. key[t] \in Keys
      BY <1>1, <2>3, KeyKinds DEF SeedFound, SiteFound, Found, TaskOK
    <3> QED
      BY <2>3, <3>1, ReadKnown
  <2>4. CASE TagSearched(t, v)
    <3>1. key[t] \in Keys
      BY <1>1, <2>4, KeyKinds DEF TagSearched, Found, TaskOK
    <3> QED
      BY <2>4, <3>1, SearchKnown
  <2>5. CASE BoardRead(t, v)
    BY <1>1, <2>5, QuietSame, EndKnown DEF BoardRead, Typed, ShownSigned, history
  <2>6. CASE ZoneFound(t, v)
    BY <2>6, ZoneFoundKnown
  <2> QED
    BY <1>11, <2>1, <2>2, <2>3, <2>4, <2>5, <2>6
<1> QED
  BY <1>2, <1>3, <1>4, <1>5, <1>6, <1>7, <1>8, <1>9, <1>10, <1>11,
     PublishSiteKnown DEF Step

-----------------------------------------------------------------------------
(* What comes from elsewhere are records that the key may hold.            *)
LEMMA StrangeRecords ==
  ASSUME SignedOK, NEW k \in Keys, NEW v \in Strange(k)
  PROVE  GoodRecord(k, v)
<1>1. CASE v = Junk
  BY <1>1 DEF GoodRecord
<1>2. CASE v # Junk
  <2>1. ASSUME NEW a \in Authors, k = Site(a)
        PROVE  GoodRecord(k, v)
    <3>1. k[1] = "site"
      BY <2>1, KeysDiffer
    <3>2. PICK m \in signed : /\ "sequence" \in DOMAIN m
                              /\ v = m \/ v = [m EXCEPT !.ok = FALSE]
      BY <1>2, <3>1 DEF Strange
    <3>3. m \in AnyManifest
      BY <3>2, SignedKinds
    <3>4. v \in AnyManifest /\ (v.ok => v = m)
      BY <3>2, <3>3 DEF AnyManifest
    <3> QED
      BY <2>1, <3>2, <3>4, SiteRecords
  <2>2. CASE k = Tag
    <3>1. k[1] = "tag"
      BY <2>2, KeysDiffer
    <3>2. PICK c \in signed : /\ "tag" \in DOMAIN c
                              /\ v = {[c EXCEPT !.ok = FALSE]}
      BY <1>2, <3>1 DEF Strange
    <3>3. c \in AnyClaim
      BY <3>2, SignedKinds
    <3>4. [c EXCEPT !.ok = FALSE] \in AnyClaim /\ ~[c EXCEPT !.ok = FALSE].ok
      BY <3>3 DEF AnyClaim
    <3> QED
      BY <2>2, <3>2, <3>4, TagRecords DEF OneEach
  <2>3. CASE k = Board
    <3>1. k[1] = "board"
      BY <2>3, KeysDiffer
    <3> QED
      BY <1>2, <3>1 DEF Strange
  <2>4. ASSUME NEW a \in Authors, NEW s \in Subnames, k = Zone(a, s)
        PROVE  GoodRecord(k, v)
    <3>1. k[1] = "zone"
      BY <2>4, KeysDiffer
    <3>2. PICK m \in signed : /\ "child" \in DOMAIN m
                              /\ v = m \/ v = [m EXCEPT !.ok = FALSE]
      BY <1>2, <3>1 DEF Strange
    <3>3. m \in AnyDelegation
      BY <3>2, SignedKinds
    <3>4. v \in AnyDelegation /\ (v.ok => v = m)
      BY <3>2, <3>3 DEF AnyDelegation
    <3> QED
      BY <2>4, <3>2, <3>4, ZoneRecords
  <2> QED
    BY <2>1, <2>2, <2>3, <2>4, KeyKinds
<1> QED
  BY <1>1, <1>2

LEMMA InterfereKnown ==
  ASSUME Known, NEW k \in Keys, Interfere(k)
  PROVE  Known' /\ NoQuieter /\ ~quiet'[k] /\ \A j \in Keys : j # k => dht'[j] = dht[j]
<1>1. PICK v \in Strange(k) : dht' = [dht EXCEPT ![k] = @ \cup {v}]
  BY DEF Interfere
<1>2. GoodRecord(k, v)
  BY StrangeRecords DEF Known
<1>3. UNCHANGED <<at, by, key, own, held, number, starts, history, due>>
  BY DEF Interfere
<1>4. NoQuieter /\ ~quiet'[k] /\ \A j \in Keys : j # k => dht'[j] = dht[j]
  BY <1>1 DEF Interfere, NoQuieter, Known, Typed
<1>5. Typed'
  BY <1>1, <1>3, <1>4, PublicationAssumption DEF Interfere, Known, Typed, NoQuieter
<1>6. RecordsOK'
  <2>1. \A j \in Keys : \A w \in dht'[j] : w \in dht[j] \/ (j = k /\ w = v)
    BY <1>1 DEF Known, Typed
  <2>2. \A j, w : GoodRecord(j, w)' <=> GoodRecord(j, w)
    BY <1>3 DEF GoodRecord, AnyManifest, AnyClaim, AnyDelegation, history
  <2> QED
    BY <1>2, <2>1, <2>2 DEF RecordsOK, Known
<1>7. TasksOK' /\ SignedOK' /\ ShownSigned'
  BY <1>3 DEF Known, TasksOK, TaskOK, SignedOK, ShownSigned, history,
     GoodRecord, AnyManifest, AnyClaim, AnyDelegation, Zones
<1> QED
  BY <1>4, <1>5, <1>6, <1>7 DEF Known

-----------------------------------------------------------------------------
(* The one writer at a quiet key.                                          *)
LEMMA QuietAlone ==
  ASSUME QuietOK, NEW t \in Tasks, key[t] \in Keys, quiet[key[t]],
         at[t] \in Writing
  PROVE  Alone(t, key[t])
BY DEF QuietOK, Alone

Matches(t, k) ==
  key[t] = k =>
    /\ at[t] \in {"putTag", "putBoard"} =>
         held[t] = IF due[k] = Junk THEN {} ELSE due[k]
    /\ at[t] = "seedPut" => held[t] = due[k]

LEMMA ActQuiet ==
  ASSUME QuietOK, NEW t \in Tasks, Acts(t),
         \A k \in Keys : quiet'[k] =>
           /\ quiet[k]
           /\ \/ dht'[k] = dht[k] /\ due'[k] = due[k]
              \/ /\ at[t] \in Writing /\ key[t] = k
                 /\ dht'[k] = {due'[k]} /\ due'[k] # Junk
           /\ at'[t] \in Writing /\ key'[t] = k => Alone(t, k)
           /\ Matches(t, k)'
  PROVE  QuietOK'
<1> SUFFICES ASSUME NEW k \in Keys, quiet'[k]
             PROVE  /\ dht'[k] = {due'[k]} \ {Junk}
                    /\ \A r, u \in Tasks :
                         /\ at'[r] \in Writing /\ key'[r] = k
                         /\ at'[u] \in Writing /\ key'[u] = k
                         => r = u
                    /\ \A u \in Tasks : Matches(u, k)'
  BY DEF QuietOK, Matches
<1>1. /\ dht[k] = {due[k]} \ {Junk}
      /\ \A r, u \in Tasks :
           /\ at[r] \in Writing /\ key[r] = k
           /\ at[u] \in Writing /\ key[u] = k
           => r = u
      /\ \A u \in Tasks : Matches(u, k)
  BY DEF QuietOK, Matches
<1>2. dht'[k] = {due'[k]} \ {Junk}
  BY <1>1
<1>3. ASSUME NEW r \in Tasks, NEW u \in Tasks,
             at'[r] \in Writing, key'[r] = k, at'[u] \in Writing, key'[u] = k
      PROVE  r = u
  <2>1. CASE r # t /\ u # t
    BY <1>1, <1>3, <2>1 DEF Acts
  <2>2. CASE r = t \/ u = t
    BY <1>3, <2>2 DEF Acts, Alone
  <2> QED
    BY <2>1, <2>2
<1>4. ASSUME NEW u \in Tasks
      PROVE  Matches(u, k)'
  <2>1. CASE u = t
    BY <2>1
  <2>2. CASE u # t
    <3>1. at'[u] = at[u] /\ key'[u] = key[u] /\ held'[u] = held[u]
      BY <2>2 DEF Acts
    <3>2. CASE due'[k] = due[k]
      BY <1>1, <3>1, <3>2 DEF Matches
    <3>3. CASE at[t] \in Writing /\ key[t] = k
      BY <1>1, <2>2, <3>1, <3>3 DEF Matches, Writing
    <3> QED
      BY <3>2, <3>3
  <2> QED
    BY <2>1, <2>2
<1> QED
  BY <1>2, <1>3, <1>4

LEMMA EndQuiet ==
  ASSUME QuietOK, Typed, NEW t \in Tasks, End(t), NoQuieter,
         UNCHANGED <<dht, due, starts>>
  PROVE  QuietOK'
<1>1. Acts(t) /\ at'[t] = "idle"
  BY EndActs
<1> QED
  BY <1>1, ActQuiet DEF NoQuieter, Matches, Writing

LEMMA PutQuiet ==
  ASSUME QuietOK, Typed, NEW t \in Tasks, NEW v, NEW makes,
         Put(t, v, makes) \/ PutFails(t, v), End(t), UNCHANGED starts,
         at[t] \in Writing,
         key[t] \in Keys /\ quiet[key[t]] => v = makes /\ makes # Junk
  PROVE  QuietOK'
<1>1. Acts(t) /\ at'[t] = "idle"
  BY EndActs
<1>2. NoQuieter
  BY PutTyped
<1>3. Lands(t, v, makes)
  BY PutTyped
<1> QED
  BY <1>1, <1>2, <1>3, ActQuiet DEF Lands, NoQuieter, Matches, Writing

LEMMA TakeQuiet ==
  ASSUME QuietOK, Typed, NEW t \in Tasks, NEW step \in Writing, NEW l,
         at[t] \in Writing,
         at' = [at EXCEPT ![t] = step],
         held' = [held EXCEPT ![t] = l],
         UNCHANGED <<dht, by, key, own, number, due>>,
         NoQuieter,
         key[t] \in Keys /\ quiet'[key[t]] =>
           /\ step \in {"putTag", "putBoard"} =>
                l = IF due[key[t]] = Junk THEN {} ELSE due[key[t]]
           /\ step = "seedPut" => l = due[key[t]]
  PROVE  QuietOK'
<1>1. Acts(t)
  BY DEF Acts, Typed
<1>2. at'[t] = step /\ held'[t] = l /\ key'[t] = key[t]
  BY DEF Typed
<1>3. \A k \in Keys : quiet'[k] => quiet[k] /\ Matches(t, k)'
  BY <1>2 DEF NoQuieter, Matches
<1>4. \A k \in Keys : quiet[k] /\ key'[t] = k => Alone(t, k)
  BY <1>2, QuietAlone
<1> QED
  BY <1>1, <1>3, <1>4, ActQuiet

LEMMA ReadQuiet ==
  ASSUME QuietOK, Typed, NEW t \in Tasks, NEW l,
         \/ at[t] = "getTag" /\ TakeList(t, l)
         \/ at[t] = "getBoard" /\ TakeBoard(t, l) /\ UNCHANGED <<dht, due>>,
         NoQuieter,
         key[t] \in Keys /\ quiet'[key[t]] =>
           l = IF due[key[t]] = Junk THEN {} ELSE due[key[t]]
  PROVE  QuietOK'
<1>1. PICK step \in {"putTag", "putBoard"} :
        /\ at' = [at EXCEPT ![t] = step]
        /\ held' = [held EXCEPT ![t] = l]
        /\ UNCHANGED <<dht, by, key, own, number, due>>
  BY DEF TakeList, TakeBoard
<1>2. at[t] \in Writing /\ step \in Writing /\ step # "seedPut"
  BY DEF Writing
<1> QED
  BY <1>1, <1>2, TakeQuiet

LEMMA BeginQuiet ==
  ASSUME QuietOK, Typed, NEW t \in Tasks, NEW a,
         NEW step \in Writing \cup Reading,
         step \notin {"putTag", "putBoard", "seedPut"},
         NEW k \in Keys, NEW x, Begin(t, a, step, k, x)
  PROVE  QuietOK'
<1>1. /\ Acts(t) /\ NoQuieter /\ at'[t] = step /\ key'[t] = k
      /\ UNCHANGED <<dht, due>>
      /\ quiet'[k] /\ step \in Writing => Alone(t, k)
  BY BeginTyped
<1>2. \A j \in Keys : Matches(t, j)'
  BY <1>1 DEF Matches
<1> QED
  BY <1>1, <1>2, ActQuiet DEF NoQuieter

LEMMA StartQuiet ==
  ASSUME QuietOK, Typed, NEW t \in Tasks, Start(t)
  PROVE  QuietOK'
<1> DEFINE first == {"putSite", "getBoard", "putZone", "seedGet", "readSite",
                     "readTag", "readBoard", "readZone"}
<1>1. /\ first \subseteq Writing \cup Reading
      /\ first \cap {"putTag", "putBoard", "seedPut"} = {}
  BY DEF Writing, Reading
<1>2. ASSUME NEW a, NEW step \in first, NEW k \in Keys, NEW x,
             Begin(t, a, step, k, x)
      PROVE  QuietOK'
  BY <1>1, <1>2, BeginQuiet
<1>3. ASSUME NEW a \in Authors, NEW x, StartPublish(t, a, x)
      PROVE  QuietOK'
  BY <1>2, <1>3, KeyKinds DEF StartPublish
<1>4. ASSUME NEW a \in Authors, StartPost(t, a)
      PROVE  QuietOK'
  BY <1>2, <1>4, KeyKinds DEF StartPost
<1>5. ASSUME NEW a \in Authors, NEW s \in Subnames, NEW c, StartDelegate(t, a, s, c)
      PROVE  QuietOK'
  BY <1>2, <1>5, KeyKinds DEF StartDelegate
<1>6. ASSUME NEW a \in Authors, StartSeed(t, a) \/ StartRead(t, a)
      PROVE  QuietOK'
  BY <1>2, <1>6, KeyKinds DEF StartSeed, StartRead
<1>7. ASSUME NEW a \in Authors, NEW s \in Subnames, StartResolve(t, a, s)
      PROVE  QuietOK'
  BY <1>2, <1>7, KeyKinds DEF StartResolve
<1>8. ASSUME NEW tag, StartSearch(t, tag)
      PROVE  QuietOK'
  BY <1>2, <1>8, KeyKinds DEF StartSearch
<1>9. StartReadBoard(t) => QuietOK'
  BY <1>2, KeyKinds DEF StartReadBoard
<1> QED
  BY <1>3, <1>4, <1>5, <1>6, <1>7, <1>8, <1>9 DEF Start

LEMMA InterfereQuiet ==
  ASSUME QuietOK, Known, NEW k \in Keys, Interfere(k)
  PROVE  QuietOK'
<1>1. /\ NoQuieter /\ ~quiet'[k] /\ \A j \in Keys : j # k => dht'[j] = dht[j]
      /\ UNCHANGED <<at, key, held, due>>
  BY InterfereKnown DEF Interfere
<1> QED
  BY <1>1 DEF QuietOK, NoQuieter

LEMMA PublishSiteQuiet ==
  ASSUME QuietOK, Known, NEW t \in Tasks, PublishSite(t)
  PROVE  QuietOK'
<1> DEFINE m == Manifest(by[t], number[t])
           k == key[t]
<1>1. /\ at[t] = "putSite" /\ k \in Keys /\ k # Tag
      /\ NoQuieter
      /\ \A j \in Keys : j # k => dht'[j] = dht[j] /\ due'[j] = due[j]
      /\ quiet'[k] => dht'[k] = {m} /\ due'[k] = m
      /\ UNCHANGED starts
      /\ \/ End(t)
         \/ /\ at' = [at EXCEPT ![t] = "getTag"]
            /\ key' = [key EXCEPT ![t] = Tag]
            /\ quiet'[Tag] => Alone(t, Tag)
            /\ UNCHANGED <<by, own, held, number>>
  BY PublishSiteTyped DEF history
<1>2. m # Junk
  BY <1>1, ManifestPut
<1>3. \A j \in Keys : quiet'[j] =>
         /\ quiet[j]
         /\ \/ dht'[j] = dht[j] /\ due'[j] = due[j]
            \/ /\ at[t] \in Writing /\ key[t] = j
               /\ dht'[j] = {due'[j]} /\ due'[j] # Junk
  BY <1>1, <1>2 DEF NoQuieter, Writing
<1>4. Acts(t) /\ (at'[t] = "idle" \/ at'[t] = "getTag")
  BY <1>1, EndActs DEF Known, Typed, Acts
<1>5. \A j \in Keys : Matches(t, j)'
  BY <1>4 DEF Matches
<1>6. \A j \in Keys : quiet'[j] /\ at'[t] \in Writing /\ key'[t] = j => Alone(t, j)
  BY <1>1, EndActs DEF Known, Typed, Writing
<1> QED
  BY <1>3, <1>4, <1>5, <1>6, ActQuiet

LEMMA StepQuiet ==
  ASSUME QuietOK, Known, NEW t \in Tasks, Step(t)
  PROVE  QuietOK'
<1>1. TaskOK(t) /\ Typed
  BY DEF Known, TasksOK
<1>2. CASE PublishFails(t)
  <2>1. Manifest(by[t], number[t]) # Junk /\ at[t] = "putSite"
    BY <1>2, ManifestPut DEF PublishFails
  <2>2. at[t] \in Writing
    BY <2>1 DEF Writing
  <2>3. PICK m : m = Manifest(by[t], number[t])
    OBVIOUS
  <2> QED
    BY <1>1, <1>2, <2>1, <2>2, <2>3, PutQuiet DEF PublishFails
<1>3. ASSUME at[t] = "getTag" \/ at[t] = "getBoard",
             NEW v \in dht[key[t]], UNCHANGED quiet
      PROVE  key[t] \in Keys /\ quiet'[key[t]] =>
               v = IF due[key[t]] = Junk THEN {} ELSE due[key[t]]
  BY <1>3 DEF QuietOK
<1>4. ASSUME at[t] \in {"getTag", "getBoard"}, MissNoticed(t)
      PROVE  key[t] \in Keys /\ quiet'[key[t]] =>
               {} = IF due[key[t]] = Junk THEN {} ELSE due[key[t]]
  <2>1. at[t] \in Writing
    BY <1>4 DEF Writing
  <2>2. SUFFICES ASSUME key[t] \in Keys, quiet'[key[t]]
                 PROVE  due[key[t]] = Junk
    OBVIOUS
  <2>3. quiet[key[t]] /\ dht[key[t]] = {}
    BY <1>1, <1>4, <2>1, <2>2, MissTyped DEF NoQuieter
  <2> QED
    BY <2>2, <2>3 DEF QuietOK
<1>5. CASE TagMissed(t)
  <2>1. at[t] = "getTag" /\ MissNoticed(t) /\ TakeList(t, {})
    BY <1>5 DEF TagMissed, Missed
  <2>2. NoQuieter
    BY <1>1, <2>1, MissTyped
  <2> QED
    BY <1>1, <1>4, <2>1, <2>2, ReadQuiet
<1>6. CASE ClaimTag(t)
  <2> DEFINE makes == Claimed(IF due[Tag] = Junk THEN {} ELSE due[Tag], t)
             v == Claimed(held[t], t)
  <2>1. at[t] = "putTag" /\ key[t] = Tag /\ v # Junk /\ at[t] \in Writing
    BY <1>6, ClaimedPut DEF ClaimTag, Writing
  <2>2. quiet[Tag] => held[t] = IF due[Tag] = Junk THEN {} ELSE due[Tag]
    BY <2>1, KeyKinds DEF QuietOK
  <2>3. quiet[Tag] => v = makes /\ makes # Junk
    BY <2>1, <2>2
  <2>4. (Put(t, v, makes) \/ PutFails(t, v)) /\ End(t) /\ UNCHANGED starts
    BY <1>6 DEF ClaimTag
  <2> HIDE DEF makes, v
  <2> QED
    BY <1>1, <2>1, <2>3, <2>4, PutQuiet
<1>7. CASE BoardMissed(t)
  <2>1. at[t] = "getBoard" /\ MissNoticed(t) /\ TakeBoard(t, {}) /\ UNCHANGED <<dht, due>>
    BY <1>7 DEF BoardMissed, Missed
  <2>2. NoQuieter
    BY <1>1, <2>1, MissTyped
  <2> QED
    BY <1>1, <1>4, <2>1, <2>2, ReadQuiet
<1>8. CASE Post(t)
  <2> DEFINE makes == (IF due[Board] = Junk THEN {} ELSE due[Board]) \cup {number[t]}
             v == held[t] \cup {number[t]}
  <2>1. /\ at[t] = "putBoard" /\ key[t] = Board /\ at[t] \in Writing
        /\ v \in SUBSET (1..starts)
    BY <1>1, <1>8 DEF TaskOK, Post, Writing
  <2>2. v # Junk
    BY <1>1, <2>1, NoJunk
  <2>3. quiet[Board] => held[t] = IF due[Board] = Junk THEN {} ELSE due[Board]
    BY <2>1, KeyKinds DEF QuietOK
  <2>4. quiet[Board] => v = makes /\ makes # Junk
    BY <2>2, <2>3
  <2>5. (Put(t, v, makes) \/ PutFails(t, v)) /\ End(t) /\ UNCHANGED starts
    BY <1>8 DEF Post
  <2> HIDE DEF makes, v
  <2> QED
    BY <1>1, <2>1, <2>4, <2>5, PutQuiet
<1>9. CASE Delegate(t)
  <2> DEFINE v == Delegation(by[t], key[t][3], own[t][1])
  <2>1. at[t] = "putZone" /\ v # Junk /\ at[t] \in Writing
    BY <1>9, DelegationPut DEF Delegate, Writing
  <2>2. (Put(t, v, v) \/ PutFails(t, v)) /\ End(t) /\ UNCHANGED starts
    BY <1>9 DEF Delegate
  <2> HIDE DEF v
  <2> QED
    BY <1>1, <2>1, <2>2, PutQuiet
<1>10. CASE SeedPuts(t)
  <2> DEFINE v == held[t]
             makes == due[key[t]]
  <2>1. at[t] = "seedPut" /\ at[t] \in Writing /\ v \in AnyManifest
    BY <1>1, <1>10 DEF SeedPuts, Writing, TaskOK
  <2>2. v # Junk
    BY <1>1, <2>1, NoJunk
  <2>3. key[t] \in Keys /\ quiet[key[t]] => v = makes /\ makes # Junk
    BY <2>1, <2>2 DEF QuietOK
  <2>4. (Put(t, v, makes) \/ PutFails(t, v)) /\ End(t) /\ UNCHANGED starts
    BY <1>10 DEF SeedPuts
  <2> HIDE DEF makes, v
  <2> QED
    BY <1>1, <2>1, <2>3, <2>4, PutQuiet
<1>11. CASE ReadMissed(t)
  BY <1>1, <1>11, MissTyped, EndQuiet DEF ReadMissed
<1>12. CASE ZoneMissed(t)
  BY <1>1, <1>12, QuietSame, EndQuiet DEF ZoneMissed, Answer
<1>13. ASSUME key[t] # <<>>, NEW v \in dht[key[t]], TagFound(t, v)
       PROVE  QuietOK'
  <2>1. /\ at[t] = "getTag" /\ TakeList(t, IF v = Junk THEN {} ELSE v)
        /\ UNCHANGED quiet /\ key[t] = Tag
    BY <1>1, <1>13 DEF TagFound, Found, TaskOK
  <2>2. quiet'[Tag] => v = due[Tag] /\ due[Tag] # Junk
    BY <2>1, KeyKinds DEF QuietOK
  <2> QED
    BY <1>1, <2>1, <2>2, QuietSame, ReadQuiet
<1>14. ASSUME key[t] # <<>>, NEW v \in dht[key[t]], BoardFound(t, v)
       PROVE  QuietOK'
  <2>1. /\ at[t] = "getBoard" /\ UNCHANGED <<quiet, dht, due, starts>>
        /\ key[t] = Board
        /\ End(t) \/ TakeBoard(t, v)
    BY <1>1, <1>14 DEF BoardFound, Found, TaskOK
  <2>2. quiet'[Board] => v = due[Board] /\ due[Board] # Junk
    BY <2>1, KeyKinds DEF QuietOK
  <2> QED
    BY <1>1, <2>1, <2>2, QuietSame, EndQuiet, ReadQuiet
<1>15. ASSUME key[t] # <<>>, NEW v \in dht[key[t]], SeedFound(t, v)
       PROVE  QuietOK'
  <2>1. /\ at[t] = "seedGet" /\ UNCHANGED <<quiet, dht, due, starts>>
        /\ \/ End(t)
           \/ /\ at' = [at EXCEPT ![t] = "seedPut"]
              /\ held' = [held EXCEPT ![t] = v]
              /\ UNCHANGED <<by, key, own, number>>
    BY <1>1, <1>15 DEF SeedFound, Found
  <2>2. key[t] \in Keys /\ quiet'[key[t]] => v = due[key[t]]
    BY <2>1 DEF QuietOK
  <2> QED
    BY <1>1, <2>1, <2>2, QuietSame, EndQuiet, TakeQuiet DEF Writing
<1>16. ASSUME NEW v,
              SiteFound(t, v) \/ TagSearched(t, v) \/ BoardRead(t, v)
       PROVE  QuietOK'
  BY <1>1, <1>16, QuietSame, EndQuiet DEF SiteFound, TagSearched, BoardRead
<1>17. ASSUME NEW v, ZoneFound(t, v)
       PROVE  QuietOK'
  <2>1. UNCHANGED <<dht, due, starts>>
    BY <1>17 DEF ZoneFound
  <2>2. CASE End(t) /\ UNCHANGED quiet
    BY <1>1, <2>1, <2>2, QuietSame, EndQuiet
  <2>3. ASSUME Verified(v), NEW s \in Subnames,
               own' = [own EXCEPT ![t] = Append(@, s)],
               TurnTo(t, "readZone", Zone(v.child, s)),
               held' = [held EXCEPT ![t] = Added(held[t], v, key[t])],
               UNCHANGED <<by, number, resolved>>
        PROVE  QuietOK'
    <3>1. v.child \in Authors
      BY <1>17, <2>3, ZoneRead DEF ZoneFound
    <3>2. Zone(v.child, s) \in Keys /\ "readZone" \in Writing \cup Reading
      BY <3>1, KeyKinds DEF Reading
    <3>3. /\ NoQuieter /\ at'[t] = "readZone"
          /\ \A u \in Tasks \ {t} : at'[u] = at[u] /\ key'[u] = key[u]
      BY <1>1, <2>3, <3>2, TurnTyped
    <3>4. Acts(t)
      BY <1>1, <2>3, <3>3 DEF Acts, Typed
    <3> QED
      BY <2>1, <3>3, <3>4, ActQuiet DEF NoQuieter, Matches, Writing
  <2> QED
    BY <1>17, <2>2, <2>3 DEF ZoneFound, Answer
<1> QED
  BY <1>2, <1>5, <1>6, <1>7, <1>8, <1>9, <1>10, <1>11, <1>12, <1>13, <1>14,
     <1>15, <1>16, <1>17, PublishSiteQuiet DEF Step

-----------------------------------------------------------------------------
(* Every set of numbers has a least one: the induction that the arguments  *)
(* about paths use.                                                        *)
LEMMA LeastNumber ==
  ASSUME NEW S \in SUBSET Nat, S # {}
  PROVE  \E n \in S : \A m \in S : n <= m
<1> DEFINE T == {1..n : n \in S}
<1>1. T \subseteq FiniteSubsetsOf(Nat) /\ T # {}
  <2>1. ASSUME NEW n \in S
        PROVE  1..n \in FiniteSubsetsOf(Nat)
    <3>1. IsFiniteSet(1..n)
      BY FS_Interval
    <3> QED
      BY <3>1 DEF FiniteSubsetsOf
  <2> QED
    BY <2>1
<1>2. PICK x \in T : \A y \in T : <<y, x>> \notin StrictSubsetOrdering(Nat)
  BY <1>1, WFMin, FS_StrictSubsetOrderingWellFounded
<1>3. PICK n \in S : x = 1..n
  BY <1>2
<1>4. ASSUME NEW m \in S, ~(n <= m)
      PROVE  FALSE
  <2>1. 1..m \in T /\ 1..m \subseteq 1..n /\ n \in 1..n /\ n \notin 1..m
    BY <1>4
  <2>2. <<1..m, 1..n>> \in StrictSubsetOrdering(Nat)
    BY <2>1 DEF StrictSubsetOrdering
  <2> QED
    BY <1>2, <1>3, <2>1, <2>2
<1> QED
  BY <1>4

(* Where one more component leads to.                                      *)
Onward(owners, s, zones) ==
  {z.child : z \in {y \in zones : y.parent \in owners /\ y.subname = s}}

LEMMA FollowExists ==
  ASSUME NEW root, NEW path \in Seq(Subnames), NEW zones
  PROVE  LET f == Follow(root, path, zones)
         IN  f = [i \in 0..Len(path) |->
                    IF i = 0 THEN {root} ELSE Onward(f[i - 1], path[i], zones)]
<1> DEFINE Walks(f, n) ==
             f = [i \in 0..n |->
                    IF i = 0 THEN {root} ELSE Onward(f[i - 1], path[i], zones)]
           bad == {n \in Nat : ~ \E f : Walks(f, n)}
<1>1. bad = {}
  <2>1. SUFFICES ASSUME bad # {} PROVE FALSE
    OBVIOUS
  <2>2. PICK n \in bad : \A m \in bad : n <= m
    BY <2>1, LeastNumber
  <2>3. CASE n = 0
    <3> DEFINE f == [i \in 0..0 |-> {root}]
    <3>1. f = [i \in 0..0 |->
                IF i = 0 THEN {root} ELSE Onward(f[i - 1], path[i], zones)]
      OBVIOUS
    <3> QED
      BY <2>2, <2>3, <3>1
  <2>4. CASE n # 0
    <3>1. n - 1 \in Nat /\ ~(n <= n - 1)
      BY <2>2, <2>4
    <3>2. n - 1 \notin bad
      BY <2>2, <3>1, Zenon
    <3>3. PICK g : Walks(g, n - 1)
      BY <3>1, <3>2, Zenon
    <3> DEFINE f == [i \in 0..n |-> IF i = n THEN Onward(g[n - 1], path[n], zones)
                                             ELSE g[i]]
    <3>4. ASSUME NEW i \in 0..n
          PROVE  f[i] = IF i = 0 THEN {root} ELSE Onward(f[i - 1], path[i], zones)
      <4>1. CASE i = n
        BY <2>4, <4>1
      <4>2. CASE i # n
        <5>1. i \in 0..(n - 1) /\ f[i] = g[i]
          BY <4>2
        <5>2. g[i] = IF i = 0 THEN {root} ELSE Onward(g[i - 1], path[i], zones)
          BY <3>3, <5>1
        <5>3. i # 0 => i - 1 \in 0..n /\ i - 1 # n
          BY <5>1
        <5>4. i # 0 => f[i - 1] = g[i - 1]
          BY <5>3
        <5> HIDE DEF f
        <5> QED
          BY <5>1, <5>2, <5>4
      <4> QED
        BY <4>1, <4>2
    <3>5. f = [i \in 0..n |-> f[i]]
      OBVIOUS
    <3> HIDE DEF f
    <3>6. Walks(f, n)
      BY <3>4, <3>5
    <3> QED
      BY <2>2, <3>6
  <2> QED
    BY <2>3, <2>4
<1>2. Len(path) \in Nat
  OBVIOUS
<1>3. \E f : Walks(f, Len(path))
  BY <1>1, <1>2
<1>4. Follow(root, path, zones) = CHOOSE f : Walks(f, Len(path))
  BY DEF Follow, Onward
<1> HIDE DEF Walks
<1>5. Walks(Follow(root, path, zones), Len(path))
  BY <1>3, <1>4
<1> QED
  BY <1>5 DEF Walks

LEMMA FollowSteps ==
  ASSUME NEW root, NEW path \in Seq(Subnames), NEW zones
  PROVE  LET f == Follow(root, path, zones)
         IN  /\ f[0] = {root}
             /\ \A i \in 1..Len(path) : f[i] = Onward(f[i - 1], path[i], zones)
<1> DEFINE f == Follow(root, path, zones)
<1>1. f = [i \in 0..Len(path) |->
             IF i = 0 THEN {root} ELSE Onward(f[i - 1], path[i], zones)]
  BY FollowExists
<1>2. Len(path) \in Nat
  OBVIOUS
<1> HIDE DEF f
<1>3. \A i \in 0..Len(path) :
         f[i] = IF i = 0 THEN {root} ELSE Onward(f[i - 1], path[i], zones)
  BY <1>1
<1> QED
  BY <1>2, <1>3 DEF f

(* Who knows more delegations reaches all that who knows fewer does.       *)
LEMMA FollowGrows ==
  ASSUME NEW root, NEW path \in Seq(Subnames),
         NEW more, NEW zones \in SUBSET more
  PROVE  \A i \in 0..Len(path) :
           Follow(root, path, zones)[i] \subseteq Follow(root, path, more)[i]
<1> DEFINE f == Follow(root, path, zones)
           g == Follow(root, path, more)
           bad == {i \in 0..Len(path) : ~(f[i] \subseteq g[i])}
<1>1. /\ f[0] = {root} /\ g[0] = {root}
      /\ \A i \in 1..Len(path) : /\ f[i] = Onward(f[i - 1], path[i], zones)
                                 /\ g[i] = Onward(g[i - 1], path[i], more)
  <2>1. f[0] = {root} /\ \A i \in 1..Len(path) : f[i] = Onward(f[i - 1], path[i], zones)
    BY FollowSteps
  <2>2. g[0] = {root} /\ \A i \in 1..Len(path) : g[i] = Onward(g[i - 1], path[i], more)
    BY FollowSteps
  <2> QED
    BY <2>1, <2>2
<1>2. Len(path) \in Nat /\ bad \in SUBSET Nat
  OBVIOUS
<1> HIDE DEF f, g
<1>3. SUFFICES ASSUME bad # {} PROVE FALSE
  BY DEF f, g
<1>4. PICK n \in bad : \A m \in bad : n <= m
  BY <1>2, <1>3, LeastNumber
<1>5. n \in 0..Len(path) /\ ~(f[n] \subseteq g[n])
  BY <1>4
<1>6. n \in 1..Len(path) /\ n - 1 \in 0..Len(path) /\ ~(n <= n - 1)
  BY <1>1, <1>2, <1>5
<1>7. n - 1 \notin bad
  BY <1>4, <1>6, Zenon
<1>8. f[n - 1] \subseteq g[n - 1]
  BY <1>6, <1>7
<1>9. f[n] \subseteq g[n]
  BY <1>1, <1>6, <1>8 DEF Onward
<1> QED
  BY <1>5, <1>9

LEMMA FollowAuthors ==
  ASSUME NEW root \in Authors, NEW path \in Seq(Subnames),
         NEW zones \in SUBSET AnyDelegation
  PROVE  \A i \in 0..Len(path) : Follow(root, path, zones)[i] \subseteq Authors
<1> DEFINE f == Follow(root, path, zones)
<1>1. /\ f[0] = {root}
      /\ \A i \in 1..Len(path) : f[i] = Onward(f[i - 1], path[i], zones)
  BY FollowSteps
<1>2. \A i \in 0..Len(path) : i = 0 \/ i \in 1..Len(path)
  OBVIOUS
<1>3. \A owners, s : Onward(owners, s, zones) \subseteq Authors
  BY DEF Onward, AnyDelegation
<1> QED
  BY <1>1, <1>2, <1>3

(* A resolution ends at a key to which the path leads.                     *)
LEMMA ResolutionFollows ==
  ASSUME NEW root, NEW path \in Seq(Subnames), NEW zones
  PROVE  \E i \in 0..Len(path) :
           Resolution(root, path, zones) \in Follow(root, path, zones)[i]
<1> DEFINE f == Follow(root, path, zones)
           Last(i) == f[i] # {} /\ \A j \in 0..Len(path) : f[j] # {} => j <= i
           left == {n \in 0..Len(path) : f[Len(path) - n] # {}}
<1>1. f[0] = {root} /\ Len(path) \in Nat
  BY FollowSteps
<1> HIDE DEF f
<1>2. Len(path) \in left /\ left \in SUBSET Nat
  BY <1>1
<1>3. PICK n \in left : \A m \in left : n <= m
  <2> HIDE DEF left
  <2> QED
    BY <1>2, LeastNumber
<1>4. n \in 0..Len(path) /\ f[Len(path) - n] # {}
  BY <1>3
<1>5. ASSUME NEW j \in 0..Len(path), f[j] # {}
      PROVE  j <= Len(path) - n
  <2>1. Len(path) - j \in 0..Len(path) /\ Len(path) - (Len(path) - j) = j
    BY <1>1
  <2>2. Len(path) - j \in left
    BY <1>5, <2>1
  <2>3. n <= Len(path) - j
    BY <1>3, <2>2, Zenon
  <2> QED
    BY <1>1, <1>4, <2>1, <2>3
<1>6. Last(Len(path) - n) /\ Len(path) - n \in 0..Len(path)
  BY <1>1, <1>4, <1>5
<1> DEFINE last == CHOOSE i \in 0..Len(path) : Last(i)
<1>7. last \in 0..Len(path) /\ f[last] # {}
  <2>1. last \in 0..Len(path) /\ Last(last)
    <3> HIDE DEF Last
    <3> QED
      BY <1>6
  <2> QED
    BY <2>1
<1>8. Resolution(root, path, zones) = CHOOSE a \in f[last] : TRUE
  BY DEF Resolution, f
<1> HIDE DEF last
<1>9. Resolution(root, path, zones) \in f[last]
  BY <1>7, <1>8
<1> QED
  BY <1>7, <1>9 DEF f

-----------------------------------------------------------------------------
ResolvedOK == \A r \in resolved : Delegated(r)

LEMMA DelegatedStays ==
  ASSUME NEW r, Delegated(r), signed \subseteq signed'
  PROVE  Delegated(r)'
<1>1. Zones \in SUBSET Zones'
  BY DEF Zones
<1>2. PICK i \in 0..Len(r.path) : r.key \in Follow(r.root, r.path, Zones)[i]
  BY DEF Delegated
<1>3. r.path \in Seq(Subnames)
  BY DEF Delegated
<1>4. r.key \in Follow(r.root, r.path, Zones')[i]
  BY <1>1, <1>2, <1>3, FollowGrows
<1> QED
  BY <1>4 DEF Delegated

LEMMA AnswerDelegated ==
  ASSUME Known, ResolvedOK, NEW t \in Tasks, at[t] = "readZone",
         NEW zones \in SUBSET Zones, Answer(t, zones), UNCHANGED signed
  PROVE  ResolvedOK'
<1>1. TaskOK(t)
  BY DEF Known, TasksOK
<1>2. by[t] \in Authors /\ own[t] \in Seq(Subnames)
  BY <1>1 DEF TaskOK
<1> DEFINE key1 == Resolution(by[t], own[t], zones)
           r == [root |-> by[t], path |-> own[t], key |-> key1]
<1>3. PICK i \in 0..Len(own[t]) : key1 \in Follow(by[t], own[t], zones)[i]
  BY <1>2, ResolutionFollows
<1>4. zones \subseteq AnyDelegation
  BY SignedKinds DEF Known, Zones
<1>5. key1 \in Authors
  BY <1>2, <1>3, <1>4, FollowAuthors
<1>6. key1 \in Follow(by[t], own[t], Zones)[i]
  BY <1>2, <1>3, FollowGrows
<1>7. Delegated(r)
  <2> HIDE DEF key1
  <2> QED
    BY <1>2, <1>3, <1>5, <1>6 DEF Delegated
<1>8. resolved' = resolved \cup {r}
  BY DEF Answer
<1>9. \A x : Delegated(x)' <=> Delegated(x)
  BY DEF Delegated, Zones
<1> HIDE DEF r
<1> QED
  BY <1>7, <1>8, <1>9 DEF ResolvedOK

LEMMA SameResolved ==
  ASSUME ResolvedOK, UNCHANGED resolved, signed \subseteq signed'
  PROVE  ResolvedOK'
BY DelegatedStays DEF ResolvedOK

LEMMA NextResolved ==
  ASSUME Known, ResolvedOK, [Next]_vars
  PROVE  ResolvedOK'
<1>1. CASE UNCHANGED vars
  BY <1>1, SameResolved DEF vars
<1>2. ASSUME NEW t \in Tasks, Start(t)
      PROVE  ResolvedOK'
  <2>1. UNCHANGED resolved /\ signed \subseteq signed'
    BY <1>2 DEF Start, StartPublish, StartPost, StartDelegate, StartSeed,
       StartRead, StartResolve, StartSearch, StartReadBoard, Begin
  <2> QED
    BY <2>1, SameResolved
<1>3. ASSUME NEW t \in Tasks, ZoneMissed(t)
      PROVE  ResolvedOK'
  <2>1. at[t] = "readZone" /\ Answer(t, held[t]) /\ UNCHANGED signed
    BY <1>3 DEF ZoneMissed, Missed
  <2>2. held[t] \in SUBSET Zones
    BY <2>1 DEF Known, TasksOK, TaskOK
  <2> QED
    BY <2>1, <2>2, AnswerDelegated
<1>4. ASSUME NEW t \in Tasks, NEW v, ZoneFound(t, v)
      PROVE  ResolvedOK'
  <2>1. /\ Found(t, "readZone", v) /\ UNCHANGED signed
        /\ \/ UNCHANGED resolved
           \/ Verified(v) /\ Answer(t, Added(held[t], v, key[t]))
    BY <1>4 DEF ZoneFound
  <2>2. at[t] = "readZone"
    BY <2>1 DEF Found
  <2> QED
    BY <2>1, <2>2, SameResolved, ZoneRead, AnswerDelegated
<1>5. ASSUME NEW t \in Tasks, Step(t), ~ZoneMissed(t), \A v : ~ZoneFound(t, v)
      PROVE  ResolvedOK'
  <2>1. UNCHANGED <<resolved, signed>>
    BY <1>5 DEF Step, PublishSite, PublishFails, TagMissed, ClaimTag, BoardMissed,
       Post, Delegate, SeedPuts, ReadMissed, TagFound, BoardFound, SeedFound,
       SiteFound, TagSearched, BoardRead, TakeList, history
  <2> QED
    BY <2>1, SameResolved
<1>6. ASSUME NEW k \in Keys, Interfere(k)
      PROVE  ResolvedOK'
  BY <1>6, SameResolved DEF Interfere, history
<1> QED
  BY <1>1, <1>2, <1>3, <1>4, <1>5, <1>6 DEF Next

-----------------------------------------------------------------------------
LEMMA InitInvariant ==
  ASSUME Init
  PROVE  IInv
<1>1. Typed
  BY PublicationAssumption DEF Init, Typed
<1>2. RecordsOK /\ TasksOK /\ SignedOK /\ HistoryOK
  BY DEF Init, RecordsOK, TasksOK, TaskOK, SignedOK, HistoryOK, ShownSigned
<1>3. QuietOK
  BY DEF Init, QuietOK, Writing
<1> QED
  BY <1>1, <1>2, <1>3 DEF IInv

LEMMA NextInvariant ==
  ASSUME IInv, [Next]_vars
  PROVE  IInv'
<1>1. Known /\ QuietOK /\ ResolvedOK
  BY DEF IInv, Known, HistoryOK, ResolvedOK
<1>2. Known' /\ QuietOK'
  <2>1. CASE UNCHANGED vars
    BY <1>1, <2>1 DEF vars, Known, Typed, RecordsOK, TasksOK, TaskOK, SignedOK,
       ShownSigned, GoodRecord, AnyManifest, AnyClaim, AnyDelegation, Zones, QuietOK
  <2>2. ASSUME NEW t \in Tasks, Start(t)
        PROVE  Known' /\ QuietOK'
    BY <1>1, <2>2, StartKnown, StartQuiet DEF Known
  <2>3. ASSUME NEW t \in Tasks, Step(t)
        PROVE  Known' /\ QuietOK'
    BY <1>1, <2>3, StepKnown, StepQuiet
  <2>4. ASSUME NEW k \in Keys, Interfere(k)
        PROVE  Known' /\ QuietOK'
    BY <1>1, <2>4, InterfereKnown, InterfereQuiet
  <2> QED
    BY <2>1, <2>2, <2>3, <2>4 DEF Next
<1>3. ResolvedOK'
  BY <1>1, NextResolved
<1> QED
  BY <1>2, <1>3 DEF IInv, Known, HistoryOK, ResolvedOK

(* The inductive invariant: what each kind of key may hold, what a task    *)
(* knows at each of its steps, what was signed and shown, and that at a    *)
(* quiet key one task writes at most and holds what it found there.        *)
THEOREM InductiveInvariant == Spec => []IInv
<1>1. Init => IInv
  BY InitInvariant
<1>2. IInv /\ [Next]_vars => IInv'
  BY NextInvariant
<1> QED
  BY <1>1, <1>2, PTL DEF Spec

(* Every record that is not junk has the form of its key, whatever comes   *)
(* from elsewhere, and no command writes back what it could not decode.    *)
THEOREM TypeCorrect == Spec => []TypeOK
<1>1. ASSUME IInv
      PROVE  TypeOK
  <2> USE <1>1
  <2>1. Typed /\ RecordsOK /\ TasksOK /\ HistoryOK
    BY DEF IInv
  <2>2. \A t \in Tasks : at[t] # "idle" => key[t] \in Keys
    <3>1. SUFFICES ASSUME NEW t \in Tasks, at[t] # "idle"
                   PROVE  key[t] \in Keys
      OBVIOUS
    <3>2. TaskOK(t) /\ at[t] \in Writing \cup Reading
      BY <2>1, <3>1 DEF TasksOK, Typed
    <3> QED
      BY <3>2, KeyKinds DEF TaskOK, Writing, Reading
  <2>3. \A t \in Tasks : at[t] \in {"seedPut", "putTag", "putBoard"}
                           => held[t] # Junk
    <3>1. SUFFICES ASSUME NEW t \in Tasks,
                          at[t] \in {"seedPut", "putTag", "putBoard"}
                   PROVE  held[t] # Junk
      OBVIOUS
    <3>2. TaskOK(t)
      BY <2>1 DEF TasksOK
    <3> QED
      BY <2>1, <3>1, <3>2, NoJunk DEF TaskOK
  <2>4. \A a \in Authors : \A m \in dht[Site(a)] \ {Junk} : m \in AnyManifest
    BY <2>1, KeyKinds, SiteRecords DEF RecordsOK
  <2>5. \A l \in dht[Tag] \ {Junk} : l \subseteq AnyClaim
    BY <2>1, KeyKinds, TagRecords DEF RecordsOK
  <2>6. \A l \in dht[Board] \ {Junk} : l \subseteq 1..starts
    BY <2>1, KeyKinds, BoardRecords DEF RecordsOK
  <2>7. \A r \in resolved : r.key \in Authors /\ r.path \in Seq(Subnames)
    BY <2>1 DEF HistoryOK, Delegated
  <2> QED
    BY <2>1, <2>2, <2>3, <2>4, <2>5, <2>6, <2>7
       DEF TypeOK, Typed, AnyManifest, AnyClaim
<1> QED
  BY <1>1, InductiveInvariant, PTL

(* Who goes on with a manifest or is shown a claim has one that its author *)
(* signed, of the spelling asked for, whatever other nodes put in the DHT. *)
THEOREM ReadersTrustSigned == Spec => []ShownSigned
<1>1. IInv => ShownSigned
  BY DEF IInv, HistoryOK
<1> QED
  BY <1>1, InductiveInvariant, PTL

(* However many publishers change the list of a tag at the same time, no   *)
(* list in any replica holds two claims of one author for one spelling.    *)
THEOREM OneClaim == Spec => []OneClaimPerAuthor
<1>1. ASSUME IInv
      PROVE  OneClaimPerAuthor
  <2>1. \A l \in dht[Tag] \ {Junk} : OneEach(l)
    BY <1>1, KeyKinds, TagRecords DEF IInv, RecordsOK
  <2> QED
    BY <2>1 DEF OneClaimPerAuthor, OneEach
<1> QED
  BY <1>1, InductiveInvariant, PTL

(* No post, claim, delegation or edition is lost at a key at which nothing *)
(* overlapped, failed or came from elsewhere.                              *)
THEOREM WritesKept == Spec => []QuietWritesKept
<1>1. IInv => QuietWritesKept
  BY DEF IInv, QuietOK, QuietWritesKept
<1> QED
  BY <1>1, InductiveInvariant, PTL

(* Whatever the DHT answers, the key an address resolves to was delegated  *)
(* from its root component by component, for paths of any length.          *)
THEOREM ResolutionIsDelegated == Spec => []ResolvedByDelegation
<1>1. IInv => ResolvedByDelegation
  BY DEF IInv, HistoryOK, Delegated, Zones, ResolvedByDelegation
<1> QED
  BY <1>1, InductiveInvariant, PTL
=============================================================================
