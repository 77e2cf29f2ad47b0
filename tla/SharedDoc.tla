----------------------------- MODULE SharedDoc -----------------------------
(***************************************************************************)
(* Documents that replicas change apart and merge: CrdtBoard of            *)
(* alternet-core/src/board.rs and Room of crdt.rs.  Both are a list in an  *)
(* automerge document, under the key "entries" or "messages" of its root;  *)
(* a room's bytes are encrypted under a key made from its password, a      *)
(* board's are not (all its replicas have one password here).  Bytes that  *)
(* were saved may be loaded or merged at any time, late and more than once.*)
(***************************************************************************)
EXTENDS Integers, Sequences, FiniteSetsExt

CONSTANTS
  Replicas,    \* programs that have a board or room open
  RoomKeys,    \* what the passwords are made into
  EntryOps,    \* operations an entry takes: 6 in a board, in a room 5 or, with
               \*   a ttl, 6
  MaxActors,   \* bound: how often a document is begun or loaded
  MaxEntries,  \* bound: entries added
  MaxSaved     \* bound: snapshots that go about

ASSUME SharedDocAssumption ==
  /\ EntryOps \subseteq Nat \ {0}
  /\ MaxActors \in Nat /\ MaxEntries \in Nat /\ MaxSaved \in Nat

VARIABLES
  doc,      \* the document each replica has open, if any
  actor,    \* the actor it writes as: a random number, new at each opening
  roomKey,  \* its key
  saved,    \* the snapshots that go about, under their keys
  thread    \* history: what the writer of each entry had before him

docVars == <<doc, actor, roomKey, saved, thread>>

(* A document is what was done to it: the lists begun, each named by the   *)
(* actor that began it, and the entries put into them.                     *)
NoDoc == [lists |-> {}, entries |-> {}]
Open(r) == doc[r] # NoDoc

DocInit ==
  /\ doc = [r \in Replicas |-> NoDoc]
  /\ actor = [r \in Replicas |-> 0]
  /\ roomKey \in [Replicas -> RoomKeys]
  /\ saved = {}
  /\ thread = {}

Used == {actor[r] : r \in Replicas} \cup {x.id[2] : x \in thread}
          \cup (UNION {doc[r].lists : r \in Replicas})
          \cup (UNION {s.doc.lists : s \in saved})
Fresh == (1..MaxActors) \ Used

(* automerge: operations are ordered by their counter, then by their actor;*)
(* of two lists begun under one key the greater is the one that get finds, *)
(* and all of them are operation 1 of their actor.                         *)
Less(a, b) == a[1] < b[1] \/ (a[1] = b[1] /\ a[2] < b[2])
Winner(d) == Max(d.lists)

(* automerge: an entry stands after the one it was inserted behind, before *)
(* those that were inserted there earlier in the order of operations.      *)
Placed(s, e) ==
  LET i == IF e.after = <<0, 0>> THEN 0
           ELSE CHOOSE j \in DOMAIN s : s[j].id = e.after
  IN  [j \in 1..(Len(s) + 1) |-> IF j <= i THEN s[j]
                                 ELSE IF j = i + 1 THEN e ELSE s[j - 1]]

Newest(es) == CHOOSE e \in es : \A x \in es : x = e \/ Less(x.id, e.id)

(* A list of those entries: they are put in by the order of operations.    *)
Listed(entries) ==
  LET f[es \in SUBSET entries] ==
        IF es = {} THEN <<>>
        ELSE Placed(f[es \ {Newest(es)}], Newest(es))
  IN  f[entries]

(* entries, get_messages: the list that wins, in its order.                *)
Shown(d) == Listed({e \in d.entries : e.list = Winner(d)})

Counter(d) == Max({1} \cup {e.last : e \in d.entries})

(* new: a document with an empty list of its own.                          *)
New(r, a) ==
  /\ a \in Fresh
  /\ doc' = [doc EXCEPT ![r] = [lists |-> {a}, entries |-> {}]]
  /\ actor' = [actor EXCEPT ![r] = a]
  /\ UNCHANGED <<roomKey, saved, thread>>

(* Faulty: a loaded document gets a list of its own.                       *)
LoadAnew(r, s, a) ==
  /\ a \in Fresh
  /\ s.key = roomKey[r]
  /\ doc' = [doc EXCEPT ![r] = [s.doc EXCEPT !.lists = {a}]]
  /\ actor' = [actor EXCEPT ![r] = a]
  /\ UNCHANGED <<roomKey, saved, thread>>

(* load: an error for bytes under another key.                             *)
Load(r, s, a) ==
  /\ a \in Fresh
  /\ s.key = roomKey[r]
  /\ doc' = [doc EXCEPT ![r] = s.doc]
  /\ actor' = [actor EXCEPT ![r] = a]
  /\ UNCHANGED <<roomKey, saved, thread>>

Save(r) ==
  /\ Open(r)
  /\ Cardinality(saved) < MaxSaved
  /\ saved' = saved \cup {[doc |-> doc[r], key |-> roomKey[r]]}
  /\ UNCHANGED <<doc, actor, roomKey, thread>>

(* add_entry, add_message: behind the last entry shown; the insertion and  *)
(* the fields are `ops` operations.                                        *)
Add(r, ops) ==
  LET shown == Shown(doc[r])
      id == <<Counter(doc[r]) + 1, actor[r]>>
      e == [id |-> id, list |-> Winner(doc[r]),
            after |-> IF shown = <<>> THEN <<0, 0>> ELSE shown[Len(shown)].id,
            last |-> id[1] + ops - 1]
  IN
  /\ Open(r)
  /\ Cardinality(thread) < MaxEntries
  /\ doc' = [doc EXCEPT ![r].entries = @ \cup {e}]
  /\ thread' = thread \cup
       {[id |-> id, before |-> {shown[i].id : i \in DOMAIN shown},
         key |-> roomKey[r]]}
  /\ UNCHANGED <<actor, roomKey, saved>>

(* merge: what was done to both; an error for bytes under another key.     *)
Merge(r, s) ==
  /\ Open(r)
  /\ s.key = roomKey[r]
  /\ doc' = [doc EXCEPT ![r] = [lists |-> @.lists \cup s.doc.lists,
                                entries |-> @.entries \cup s.doc.entries]]
  /\ UNCHANGED <<actor, roomKey, saved, thread>>

DocNext ==
  \E r \in Replicas :
    \/ \E a \in Fresh : New(r, a) \/ \E s \in saved : Load(r, s, a)
    \/ \E s \in saved : Merge(r, s)
    \/ \E ops \in EntryOps : Add(r, ops)
    \/ Save(r)

DocSpec == DocInit /\ [][DocNext]_docVars

-----------------------------------------------------------------------------
(* Whatever is merged, in whatever order, however late: a replica whose    *)
(* document goes back to one `new` shows every entry it has, each once; an *)
(* entry that is shown stands behind all that its writer had before him,   *)
(* and none of those is missing; and it was written under the replica's    *)
(* key.  (A document that goes back to two shows the entries of one.)      *)
ThreadsKept ==
  \A r \in Replicas : Open(r) =>
    LET shown == Shown(doc[r]) IN
    /\ Cardinality(doc[r].lists) = 1 =>
         Len(shown) = Cardinality(doc[r].entries)
    /\ \A x \in thread : \A i \in DOMAIN shown : shown[i].id = x.id =>
         /\ x.key = roomKey[r]
         /\ x.before \subseteq {shown[j].id : j \in 1..(i - 1)}
=============================================================================
