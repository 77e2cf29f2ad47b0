---------------------------- MODULE Replication ----------------------------
(***************************************************************************)
(* The node's pins and its garbage collection: Replicator and PinStore of  *)
(* alternet-core/src/replication.rs, as alternet-node/src/main.rs uses     *)
(* them.  The node pins what it seeds when it starts, and from then on its *)
(* refresh loop collects garbage when the store is over its quota.  The    *)
(* pins are only in memory: a restart begins without them.                 *)
(***************************************************************************)
EXTENDS BlockStore, SequencesExt

CONSTANT Roots   \* the CIDs that are roots of sites

ASSUME RootsAssumption == Roots \subseteq Blocks

VARIABLES
  pins,    \* PinStore.pins, oldest access first: [root, blocks] records
  phase,   \* the node: "seeding" or "refreshing"
  gc,      \* where a collection is: "off", "evicting", "listing", "sweeping",
           \*   "deleting"
  evicted, \* gc_if_over_quota: how many pins it has given up
  listed,  \* the CIDs gc has listed and not come to
  doomed   \* the CID gc has read and is about to delete

nodeVars == <<pins, phase, gc, evicted, listed, doomed>>
vars == <<storeVars, nodeVars>>

PinRecord == [root: Roots, blocks: SUBSET Blocks]

AllPinned == UNION {pins[n].blocks : n \in 1..Len(pins)}

TypeOK ==
  /\ StoreTypeOK
  /\ pins \in Seq(PinRecord)
  /\ \A m, n \in 1..Len(pins) : pins[m].root = pins[n].root => m = n
  /\ phase \in {"seeding", "refreshing"}
  /\ gc \in {"off", "evicting", "listing", "sweeping", "deleting"}
  /\ evicted \in Nat
  /\ listed \in SUBSET Blocks
  /\ doomed \in Blocks

Init ==
  /\ StoreInit
  /\ pins = <<>>
  /\ phase = "seeding"
  /\ gc = "off"
  /\ evicted = 0
  /\ listed = {}
  /\ doomed \in Blocks

-----------------------------------------------------------------------------
(***************************************************************************)
(* PinStore is a map from roots to records; ordered here by last_accessed, *)
(* which is the time of the pin, since the node never touches a record.    *)
(***************************************************************************)
Position(r) == {n \in 1..Len(pins) : pins[n].root = r}

(* Faulty: the pins are a list that only grows.                            *)
NothingReplaced(r) == pins

(* HashMap::insert replaces what the root had.                             *)
WithoutRoot(r) ==
  IF Position(r) = {} THEN pins
  ELSE RemoveAt(pins, CHOOSE n \in Position(r) : TRUE)

(* seed_site pins the blocks it found in the store or was sent, those put  *)
(* refused included; a block nobody sent is left out, be it the root.      *)
Pin(r, bs) ==
  /\ phase = "seeding"
  /\ pins' = Append(WithoutRoot(r), [root |-> r, blocks |-> bs])
  /\ UNCHANGED <<storeVars, phase, gc, evicted, listed, doomed>>

StartRefreshing ==
  /\ phase = "seeding"
  /\ phase' = "refreshing"
  /\ UNCHANGED <<storeVars, pins, gc, evicted, listed, doomed>>

OverQuota == Quota > 0 /\ Used > Quota

(* refresh_loop, every interval.                                           *)
RefreshCollects ==
  /\ phase = "refreshing"
  /\ gc = "off"
  /\ OverQuota
  /\ gc' = "listing"
  /\ UNCHANGED <<storeVars, pins, phase, evicted, listed, doomed>>

(* gc_if_over_quota, which no program calls: it takes the pins in order of *)
(* age and gives up one after the other while the store is over quota.     *)
CollectIfOverQuota ==
  /\ phase = "refreshing"
  /\ gc = "off"
  /\ OverQuota
  /\ gc' = "evicting"
  /\ UNCHANGED <<storeVars, pins, phase, evicted, listed, doomed>>

EvictOldest ==
  /\ gc = "evicting"
  /\ pins # <<>>
  /\ OverQuota
  /\ pins' = Tail(pins)
  /\ evicted' = evicted + 1
  /\ UNCHANGED <<storeVars, phase, gc, listed, doomed>>

EvictionEnds ==
  /\ gc = "evicting"
  /\ pins = <<>> \/ ~OverQuota
  /\ gc' = "listing"
  /\ evicted' = 0
  /\ UNCHANGED <<storeVars, pins, phase, listed, doomed>>

(* gc: list_cids gives every file with a CID for a name, torn ones too.    *)
GcLists ==
  /\ gc = "listing"
  /\ gc' = "sweeping"
  /\ listed' = {b \in Blocks : files[b] # "absent"}
  /\ UNCHANGED <<storeVars, pins, phase, evicted, doomed>>

(* Faulty: only the roots are looked up.                                   *)
KeptRoot(b) == Position(b) # {}

Kept(b) == b \in AllPinned

(* Faulty: a dry run, which counts and deletes nothing.                    *)
GcReadsDry(b) ==
  /\ gc = "sweeping"
  /\ b \in listed
  /\ listed' = listed \ {b}
  /\ UNCHANGED <<storeVars, pins, phase, gc, evicted, doomed>>

(* gc marks the pinned blocks before it lists; the node's pins cannot      *)
(* change while it runs, so AllPinned is that set here.                    *)
(* `if !pinned.contains(cid) && let Ok(Some(data)) = store.get(cid)`: get  *)
(* verifies what it reads, so a torn file is passed over.                  *)
GcReads(b) ==
  /\ gc = "sweeping"
  /\ b \in listed
  /\ listed' = listed \ {b}
  /\ IF ~Kept(b) /\ files[b] = "whole"
     THEN gc' = "deleting" /\ doomed' = b
     ELSE UNCHANGED <<gc, doomed>>
  /\ UNCHANGED <<storeVars, pins, phase, evicted>>

GcDeletes ==
  /\ gc = "deleting"
  /\ Unlink(doomed)
  /\ gc' = "sweeping"
  /\ UNCHANGED <<job, crashes, pins, phase, evicted, listed, doomed>>

(* list_cids, delete and total_size may fail, and gc returns their error.  *)
GcFails ==
  /\ gc \in {"evicting", "listing", "deleting"}
  /\ gc' = "off"
  /\ evicted' = 0
  /\ listed' = {}
  /\ UNCHANGED <<storeVars, pins, phase, doomed>>

GcEnds ==
  /\ gc = "sweeping"
  /\ listed = {}
  /\ gc' = "off"
  /\ UNCHANGED <<storeVars, pins, phase, evicted, listed, doomed>>

(* The node is killed and started again.  No program saves the node's pins *)
(* with PinStore::save; the file it opens has at most the placeholders of  *)
(* the browser, which pin no block.                                        *)
NodeRestarts ==
  /\ crashes < MaxCrashes
  /\ crashes' = crashes + 1
  /\ pins' = <<>>
  /\ phase' = "seeding"
  /\ gc' = "off"
  /\ evicted' = 0
  /\ listed' = {}
  /\ UNCHANGED <<files, job, linked, torn, doomed>>

-----------------------------------------------------------------------------
GcStep ==
  \/ EvictOldest \/ EvictionEnds
  \/ GcLists \/ (\E b \in Blocks : GcReads(b)) \/ GcDeletes \/ GcEnds

NodeNext ==
  \/ \E r \in Roots, bs \in SUBSET Blocks : Pin(r, bs)
  \/ StartRefreshing
  \/ RefreshCollects \/ CollectIfOverQuota
  \/ GcStep
  \/ GcFails
  \/ NodeRestarts

Next == (StoreNext /\ UNCHANGED nodeVars) \/ NodeNext

Spec == Init /\ [][Next]_vars

(* The refresh loop and the gc it runs go on, and so does a put that has   *)
(* begun.  Nobody has to put, and seeding need not end: see FetchEnds of   *)
(* module Fetch.                                                           *)
Fairness ==
  /\ WF_vars(RefreshCollects \/ GcStep)
  /\ \A t \in Tasks : WF_vars(PutSteps(t) /\ UNCHANGED nodeVars)

FairSpec == Spec /\ Fairness

-----------------------------------------------------------------------------
(* No sweep takes a pinned block's file away, whatever is written, torn or *)
(* pinned while it runs.                                                   *)
PinnedKept ==
  [][\A b \in AllPinned : files[b] # "absent" => files'[b] # "absent"]_vars

(* An over-full store is brought back under its quota by the refresh loop, *)
(* or else everything readable in it is pinned, unless a program without a *)
(* quota writes on, the collections never cease to fail, or the node never *)
(* ends its seeding and so never comes to its refresh loop.                *)
QuotaRestored ==
  Quota > 0 /\ Unmetered = {} =>
    \/ []<><<GcFails>>_vars
    \/ <>[](phase = "seeding")
    \/ []<>(Used <= Quota \/ Whole \subseteq AllPinned)

-----------------------------------------------------------------------------
(* The inductive invariant behind them.  gc is about to delete only what   *)
(* no pin holds, and the pins stand still while it runs.                   *)
DoomedUnpinned == gc = "deleting" => doomed \notin AllPinned

GcRefreshes == gc # "off" => phase = "refreshing"

(* Every put that passed the check has its block's room, or used it: the   *)
(* last check left room for one block and the others can write one each.   *)
Putting == {t \in Tasks : job[t].at # "idle"}

RoomLeft ==
  Quota > 0 /\ Unmetered = {} => Used + Cardinality(Putting) < Quota + Cardinality(Tasks)

IInv ==
  /\ TypeOK
  /\ TornExplained
  /\ RoomLeft
  /\ DoomedUnpinned
  /\ GcRefreshes

-----------------------------------------------------------------------------
(* "Marklanmamis bloklari sil (sweep)" (replication.rs:198): every block   *)
(* gc comes to that is not pinned, and that no put is writing, is deleted. *)
GcSweeps ==
  [][\A b \in Blocks :
       (/\ GcReads(b)
        /\ b \notin AllPinned
        /\ files[b] # "absent"
        /\ \A t \in Tasks : ~Writes(t, b))
       => gc' = "deleting" /\ doomed' = b]_vars

(* "En eski erisilen pinleri unpin et ta ki kota altina inene kadar"       *)
(* (replication.rs:240): after the first, a pin that holds blocks is given *)
(* up only if the store would still be over its quota without the blocks   *)
(* nobody pins.                                                            *)
EvictsOnlyAsNeeded ==
  [][EvictOldest =>
       \/ evicted = 0
       \/ Head(pins).blocks \cap Whole = {}
       \/ Cardinality(Whole \cap AllPinned) > Quota]_vars
=============================================================================
